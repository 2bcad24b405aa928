--------------------------- MODULE ResultRegister ---------------------------
(***************************************************************************)
(* What a stored briefing result promises its readers: it is one complete  *)
(* version or none at all, and never a version older than one they have    *)
(* seen.  It may be withdrawn for a while, to be replaced or restored.     *)
(***************************************************************************)
EXTENDS Naturals

CONSTANT MaxVersion   \* versions written in one run

VARIABLES
    shown,  \* the complete version a reader finds, 0 for none
    best    \* the newest version that was ever shown

Init == shown = 0 /\ best = 0

Publish(v) ==
    /\ shown = 0 /\ v > best
    /\ shown' = v /\ best' = v

Withdraw ==
    /\ shown # 0
    /\ shown' = 0
    /\ UNCHANGED best

Restore ==
    /\ shown = 0 /\ best # 0
    /\ shown' = best
    /\ UNCHANGED best

Next == Withdraw \/ Restore \/ \E v \in 1 .. MaxVersion : Publish(v)

Spec == Init /\ [][Next]_<<shown, best>>
=============================================================================
