------------------------- MODULE MCBriefingStorage -------------------------
(***************************************************************************)
(* Three saves: one may be complete, the next fail half-way, and the third *)
(* find what it left.                                                      *)
(***************************************************************************)
EXTENDS BriefingStorage

AllFaults == {"raise", "crash"}
=============================================================================
