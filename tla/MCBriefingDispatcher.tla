------------------------ MODULE MCBriefingDispatcher ------------------------
(***************************************************************************)
(* Two briefings of a day: one can be on the stack while the other is in   *)
(* its snapshot, pending, retried or recovered.                            *)
(***************************************************************************)
EXTENDS BriefingDispatcher

CONSTANTS k1, k2

TwoKeys == {k1, k2}
=============================================================================
