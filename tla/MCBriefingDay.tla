--------------------------- MODULE MCBriefingDay ---------------------------
(***************************************************************************)
(* A process started at any time of the day, on whatever earlier ones have *)
(* left: the catch-up, a briefing nested in another's waits, connections   *)
(* lost and made again, and the recovery of a missing briefing occur.      *)
(***************************************************************************)
EXTENDS BriefingDay

MCTypes == {PRE, TEN}
MCPeriods == {1, 2, 4, 6, 9}
=============================================================================
