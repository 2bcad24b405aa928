----------------------------- MODULE RuleValues -----------------------------
(***************************************************************************)
(* What the modules of pure rules share.                                   *)
(***************************************************************************)
EXTENDS Naturals, FiniteSets, FiniteSetsExt

CONSTANTS
    None,   \* a value that is not there
    Fails,  \* a request that raises, or a call that does
    Bad     \* text that is no number and no date

\* Tuples of numbers, in the order of sort keys.
Below(a, b) == \E k \in DOMAIN a : a[k] < b[k] /\ \A j \in 1 .. k - 1 : a[j] = b[j]

\* The sum of the values of f.
SumOf(f) == MapThenSumSet(LAMBDA k : f[k], DOMAIN f)

\* The elements of S in their order, which is total.  SetToSortSeq of the
\* community modules searches all functions for it.
Ordered(S, before(_, _)) ==
    [k \in 1 .. Cardinality(S) |-> CHOOSE x \in S : Cardinality({y \in S : before(y, x)}) = k - 1]
=============================================================================
