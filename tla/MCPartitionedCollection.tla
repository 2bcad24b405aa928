---------------------- MODULE MCPartitionedCollection ----------------------
(***************************************************************************)
(* Four codes in price batches of three and one: the breaker, at two, can  *)
(* cut a batch off before its end, and there is a batch after it.  Up to   *)
(* two candidates in flow batches of one.                                  *)
(***************************************************************************)
EXTENDS PartitionedCollection

FourCodes == <<1, 2, 3, 4>>
=============================================================================
