------------------------ MODULE MCConnectionManager ------------------------
(***************************************************************************)
(* A small configuration: two attempts with different backoffs, so that    *)
(* the budget runs out and the last backoff repeats; two recheck delays    *)
(* with a gap; a login timeout longer than one step of time.               *)
(***************************************************************************)
EXTENDS ConnectionManager

MCBackoff == <<1, 2>>
MCRecheckDelays == <<1, 2>>
=============================================================================
