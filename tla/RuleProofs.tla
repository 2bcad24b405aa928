----------------------------- MODULE RuleProofs -----------------------------
(***************************************************************************)
(* What the pure rules owe to their inputs, for all inputs: an invariant   *)
(* says that what is said of a case is what its rules make of it, and the  *)
(* rest is about the rules.                                                *)
(*                                                                         *)
(* The rules that sort and cut off rest on one argument.  A sort key tells *)
(* the elements of a set apart, so an element's place is told by how many  *)
(* are below it (Ranks); therefore the sorted sequence lists the set       *)
(* (RankedLists), and its first elements are its lowest (BestOf).  The     *)
(* rules that score a market rest on another: a score is the number of its *)
(* components that rise less the number of those that fall.                *)
(***************************************************************************)
EXTENDS RuleCases, FiniteSetTheorems, SequenceTheorems, WellFoundedInduction, TLAPS

-----------------------------------------------------------------------------
(***************************************************************************)
(* Orders.  An order on S is told by what is below each element.           *)
(***************************************************************************)

StrictOrder(S, below) ==
    /\ below \in [S -> SUBSET S]
    /\ \A x \in S : x \notin below[x]
    /\ \A x, y \in S : x = y \/ x \in below[y] \/ y \in below[x]
    /\ \A x, y \in S : y \in below[x] => below[y] \subseteq below[x]

\* The sequence of the elements of S, the lowest first.
Lists(o, S, below) ==
    /\ o \in Seq(S) /\ Len(o) = Cardinality(S)
    /\ \A x \in S : \E k \in 1 .. Cardinality(S) : o[k] = x
    /\ \A j, k \in 1 .. Cardinality(S) : j < k <=> o[j] \in below[o[k]]

\* A set is one larger with an element it has not.
LEMMA OneMore ==
    ASSUME NEW S, IsFiniteSet(S), NEW x, x \notin S
    PROVE  IsFiniteSet(S \cup {x}) /\ Cardinality(S \cup {x}) = Cardinality(S) + 1
BY FS_AddElement

\* Two different things are two.
LEMMA TwoElements ==
    ASSUME NEW x, NEW y, x # y
    PROVE  IsFiniteSet({x, y}) /\ Cardinality({x, y}) = 2
<1>1. IsFiniteSet({x}) /\ Cardinality({x}) = 1
  BY FS_Singleton
<1>2. y \notin {x} /\ {x, y} = {x} \cup {y}
  OBVIOUS
<1>3. IsFiniteSet({x} \cup {y}) /\ Cardinality({x} \cup {y}) = Cardinality({x}) + 1
  BY ONLY <1>1, <1>2, OneMore
<1> QED
  BY <1>1, <1>2, <1>3

\* Three different things are three.
LEMMA ThreeElements ==
    ASSUME NEW x, NEW y, NEW z, x # y, x # z, y # z
    PROVE  IsFiniteSet({x, y, z}) /\ Cardinality({x, y, z}) = 3
<1>1. IsFiniteSet({x, y}) /\ Cardinality({x, y}) = 2
  BY TwoElements
<1>2. z \notin {x, y} /\ {x, y, z} = {x, y} \cup {z}
  OBVIOUS
<1>3. IsFiniteSet({x, y} \cup {z}) /\ Cardinality({x, y} \cup {z}) = Cardinality({x, y}) + 1
  BY ONLY <1>1, <1>2, OneMore
<1> QED
  BY <1>1, <1>2, <1>3

\* How many elements are below it tells an element's place.
LEMMA Ranks ==
    ASSUME NEW S, IsFiniteSet(S), NEW below, StrictOrder(S, below)
    PROVE  /\ \A x \in S : Cardinality(below[x]) \in 0 .. Cardinality(S) - 1
           /\ \A x, y \in S : y \in below[x] <=> Cardinality(below[y]) < Cardinality(below[x])
           /\ \A x, y \in S : Cardinality(below[x]) = Cardinality(below[y]) => x = y
           /\ \A k \in 0 .. Cardinality(S) - 1 : \E x \in S : Cardinality(below[x]) = k
<1> DEFINE n == Cardinality(S)
           rank == [x \in S |-> Cardinality(below[x])]
<1>1. n \in Nat
  BY FS_CardinalityType
<1>2. \A x \in S : /\ below[x] \in SUBSET S /\ IsFiniteSet(below[x])
                   /\ Cardinality(below[x]) \in Nat
  <2> SUFFICES ASSUME NEW x \in S
               PROVE  below[x] \in SUBSET S /\ IsFiniteSet(below[x]) /\ Cardinality(below[x]) \in Nat
    OBVIOUS
  <2>1. below[x] \in SUBSET S
    BY DEF StrictOrder
  <2>2. IsFiniteSet(below[x])
    BY <2>1, FS_Subset
  <2> QED
    BY <2>1, <2>2, FS_CardinalityType
<1>3. ASSUME NEW x \in S
      PROVE  Cardinality(below[x]) \in 0 .. n - 1
  <2>1. Cardinality(below[x]) <= n /\ (n = Cardinality(below[x]) => S = below[x])
    BY <1>2, FS_Subset
  <2>2. S # below[x]
    BY DEF StrictOrder
  <2> QED
    BY <1>1, <1>2, <2>1, <2>2
<1>4. ASSUME NEW x \in S, NEW y \in S, y \in below[x]
      PROVE  Cardinality(below[y]) < Cardinality(below[x])
  <2>1. below[y] \in SUBSET below[x] /\ below[y] # below[x]
    BY <1>4 DEF StrictOrder
  <2>2. /\ Cardinality(below[y]) <= Cardinality(below[x])
        /\ (Cardinality(below[x]) = Cardinality(below[y]) => below[x] = below[y])
    BY <1>2, <2>1, FS_Subset
  <2> QED
    BY <1>2, <2>1, <2>2
<1>5. ASSUME NEW x \in S, NEW y \in S, Cardinality(below[y]) < Cardinality(below[x])
      PROVE  y \in below[x]
  <2>1. x # y /\ x \notin below[y]
    BY <1>2, <1>4, <1>5
  <2> QED
    BY <2>1 DEF StrictOrder
<1>6. ASSUME NEW x \in S, NEW y \in S, Cardinality(below[x]) = Cardinality(below[y])
      PROVE  x = y
  <2>1. x \notin below[y] /\ y \notin below[x]
    BY <1>2, <1>4, <1>6
  <2> QED
    BY <2>1 DEF StrictOrder
<1>7. rank \in Injection(S, 0 .. n - 1)
  <2>1. rank \in [S -> 0 .. n - 1]
    BY <1>3
  <2>2. \A x, y \in S : rank[x] = rank[y] => x = y
    BY <1>6
  <2> QED
    BY <2>1, <2>2 DEF Injection, IsInjective
<1>8. IsFiniteSet(0 .. n - 1) /\ Cardinality(0 .. n - 1) = n
  <2>1. 0 \in Int /\ n - 1 \in Int
    BY <1>1
  <2> QED
    BY <1>1, <2>1, FS_Interval
<1>9. rank \in Surjection(S, 0 .. n - 1)
  BY <1>7, <1>8, FS_Injection
<1>10. \A k \in 0 .. n - 1 : \E x \in S : Cardinality(below[x]) = k
  BY <1>9 DEF Surjection
<1> QED
  BY <1>3, <1>4, <1>5, <1>6, <1>10

\* A sequence that has at each place an element of that rank lists the set.
LEMMA RankedLists ==
    ASSUME NEW S, IsFiniteSet(S), NEW below, StrictOrder(S, below),
           NEW o, o = [k \in 1 .. Cardinality(S) |-> o[k]],
           \A k \in 1 .. Cardinality(S) :
               (\E x \in S : Cardinality(below[x]) = k - 1)
                 => o[k] \in S /\ Cardinality(below[o[k]]) = k - 1
    PROVE  Lists(o, S, below)
<1>1. PICK n \in Nat : n = Cardinality(S)
  BY FS_CardinalityType
<1>2. \A k \in 1 .. n : k - 1 \in 0 .. n - 1 /\ k \in Nat
  BY <1>1
<1>3. \A k \in 1 .. n : o[k] \in S /\ Cardinality(below[o[k]]) = k - 1
  BY <1>1, <1>2, Ranks
<1>4. o \in Seq(S) /\ Len(o) = n
  BY <1>1, <1>3
<1>5. ASSUME NEW x \in S PROVE \E k \in 1 .. n : o[k] = x
  <2>1. PICK r \in 0 .. n - 1 : r = Cardinality(below[x])
    BY <1>1, Ranks
  <2>2. r + 1 \in 1 .. n /\ (r + 1) - 1 = r
    BY <1>1, <2>1
  <2>3. o[r + 1] \in S /\ Cardinality(below[o[r + 1]]) = Cardinality(below[x])
    BY <1>3, <2>1, <2>2
  <2>4. o[r + 1] = x
    BY <2>3, Ranks
  <2> QED
    BY <2>2, <2>4
<1>6. ASSUME NEW j \in 1 .. n, NEW k \in 1 .. n PROVE j < k <=> o[j] \in below[o[k]]
  <2>1. o[j] \in S /\ o[k] \in S /\ Cardinality(below[o[j]]) = j - 1 /\ Cardinality(below[o[k]]) = k - 1
    BY <1>3
  <2>2. o[j] \in below[o[k]] <=> Cardinality(below[o[j]]) < Cardinality(below[o[k]])
    BY <2>1, Ranks
  <2> QED
    BY <2>1, <2>2
<1> QED
  BY <1>1, <1>4, <1>5, <1>6 DEF Lists

\* Two sequences in a row, and what is left of a sequence.
LEMMA Joined ==
    ASSUME NEW R, NEW a \in Seq(R), NEW b \in Seq(R)
    PROVE  /\ a \o b \in Seq(R) /\ Len(a \o b) = Len(a) + Len(b)
           /\ \A k \in 1 .. Len(a) + Len(b) : (a \o b)[k] = IF k <= Len(a) THEN a[k] ELSE b[k - Len(a)]
  OBVIOUS

\* What is left of a sequence without its beginning.
LEMMA CutOff ==
    ASSUME NEW R, NEW s \in Seq(R), NEW n \in Nat, n = Len(s), NEW c \in Nat
    PROVE  LET rest == SubSeq(s, c + 1, Len(s)) IN
           /\ rest \in Seq(R) /\ Len(rest) = IF c > n THEN 0 ELSE n - c
           /\ \A k \in 1 .. Len(rest) : rest[k] = s[k + c] /\ k + c \in 1 .. n
<1> DEFINE rest == SubSeq(s, c + 1, n)
<1>1. rest \in Seq(R)
  OBVIOUS
<1>2. Len(rest) = IF c > n THEN 0 ELSE n - c
  OBVIOUS
<1>3. \A k \in 1 .. Len(rest) : rest[k] = s[k + c] /\ k + c \in 1 .. n
  BY <1>2
<1> QED
  BY <1>1, <1>2, <1>3

\* A set of natural numbers has a least one.
LEMMA LeastOf ==
    ASSUME NEW I \in SUBSET Nat, I # {}
    PROVE  Min(I) \in I /\ \A j \in I : Min(I) <= j
<1>1. \A i, j \in Nat : i <= j \/ j < i
  OBVIOUS
<1>2. PICK i \in I : \A j \in I : ~(<<j, i>> \in OpToRel(<, Nat))
  BY NatLessThanWellFounded, WFMin
<1>3. \A j \in I : i <= j
  BY <1>1, <1>2 DEF OpToRel
<1> QED
  BY <1>3 DEF Min

\* Sort keys order what they tell apart.
LEMMA KeysOrder ==
    ASSUME NEW n \in Nat, NEW S, NEW key \in [S -> [1 .. n -> Int]],
           \A x, y \in S : key[x] = key[y] => x = y,
           NEW below, below = [x \in S |-> {y \in S : Below(key[y], key[x])}]
    PROVE  StrictOrder(S, below)
<1> DEFINE K == [1 .. n -> Int]
           Less(a, b, k) == a[k] < b[k] /\ \A j \in 1 .. k - 1 : a[j] = b[j]
<1>1. \A a, b \in K : Below(a, b) <=> \E k \in 1 .. n : Less(a, b, k)
  BY DEF Below
<1>2. \A a \in K : ~Below(a, a)
  <2>1. \A a \in K, k \in 1 .. n : a[k] \in Int
    OBVIOUS
  <2>2. \A a \in K, k \in 1 .. n : ~Less(a, a, k)
    BY <2>1
  <2> QED
    BY <1>1, <2>2
<1>3. ASSUME NEW a \in K, NEW b \in K, a # b PROVE Below(a, b) \/ Below(b, a)
  <2> DEFINE I == {k \in 1 .. n : a[k] # b[k]}
  <2>1. I \in SUBSET Nat /\ I # {}
    <3>1. a = [k \in 1 .. n |-> a[k]] /\ b = [k \in 1 .. n |-> b[k]]
      OBVIOUS
    <3>2. PICK k \in 1 .. n : a[k] # b[k]
      BY <1>3, <3>1
    <3>3. k \in I
      BY <3>2
    <3>4. I \in SUBSET Nat
      OBVIOUS
    <3> QED
      BY <3>3, <3>4
  <2>2. PICK k \in I : \A j \in I : k <= j
    <3> HIDE DEF I
    <3> QED
      BY <2>1, LeastOf
  <2>3. \A j \in 1 .. k - 1 : j \in 1 .. n /\ ~(k <= j)
    BY <2>2
  <2>4. \A j \in 1 .. k - 1 : a[j] = b[j]
    BY <2>2, <2>3
  <2>5. a[k] \in Int /\ b[k] \in Int /\ a[k] # b[k]
    BY <2>2
  <2>6. Less(a, b, k) \/ Less(b, a, k)
    BY <2>4, <2>5
  <2> QED
    BY <1>1, <2>6
<1>4. ASSUME NEW a \in K, NEW b \in K, NEW c \in K, Below(a, b), Below(b, c) PROVE Below(a, c)
  <2>1. PICK k \in 1 .. n : Less(a, b, k)
    BY <1>1, <1>4
  <2>2. PICK m \in 1 .. n : Less(b, c, m)
    BY <1>1, <1>4
  <2> DEFINE l == IF k < m THEN k ELSE m
  <2>3. l \in 1 .. n /\ \A j \in 1 .. l - 1 : j \in 1 .. k - 1 /\ j \in 1 .. m - 1
    OBVIOUS
  <2>4. \A j \in 1 .. l - 1 : a[j] = c[j]
    BY <2>1, <2>2, <2>3
  <2>5. a[l] < c[l]
    <3>1. CASE k < m
      <4>1. k \in 1 .. m - 1 /\ a[k] < b[k] /\ b[k] = c[k]
        BY <3>1, <2>1, <2>2
      <4> QED
        BY <3>1, <4>1
    <3>2. CASE k = m
      BY <3>2, <2>1, <2>2
    <3>3. CASE m < k
      <4>1. m \in 1 .. k - 1 /\ a[m] = b[m] /\ b[m] < c[m]
        BY <3>3, <2>1, <2>2
      <4> QED
        BY <3>3, <4>1
    <3> QED
      BY <3>1, <3>2, <3>3
  <2>6. Less(a, c, l)
    BY <2>4, <2>5
  <2> QED
    BY <1>1, <2>3, <2>6
<1> HIDE DEF Less
<1>5. \A x \in S : key[x] \in K
  OBVIOUS
<1> QED
  BY <1>2, <1>3, <1>4, <1>5 DEF StrictOrder

\* Numbers in ascending order.
LEMMA NumbersListed ==
    ASSUME NEW S \in SUBSET Nat, IsFiniteSet(S)
    PROVE  Lists(Ordered(S, <), S, [x \in S |-> {y \in S : y < x}])
<1> DEFINE below == [x \in S |-> {y \in S : y < x}]
           o == Ordered(S, <)
<1>1. StrictOrder(S, below)
  <2>1. \A x, y \in S : x \in Nat /\ (y \in below[x] <=> y < x)
    OBVIOUS
  <2>2. below \in [S -> SUBSET S]
    OBVIOUS
  <2>3. \A x, y \in S : x = y \/ x < y \/ y < x
    BY <2>1
  <2>4. ASSUME NEW x \in S, NEW y \in S, y \in below[x], NEW z \in below[y] PROVE z \in below[x]
    <3>1. z \in S /\ z < y /\ y < x
      BY <2>1, <2>2, <2>4
    <3> QED
      BY <2>1, <3>1
  <2> HIDE DEF below
  <2>5. \A x \in S : x \notin below[x]
    BY <2>1
  <2>6. \A x, y \in S : y \in below[x] => below[y] \subseteq below[x]
    BY <2>4
  <2> QED
    BY <2>1, <2>2, <2>3, <2>5, <2>6 DEF StrictOrder
<1>2. o = [k \in 1 .. Cardinality(S) |-> CHOOSE x \in S : Cardinality({y \in S : y < x}) = k - 1]
  BY DEF Ordered
<1>3. o = [k \in 1 .. Cardinality(S) |-> o[k]]
  BY <1>2
<1>4. ASSUME NEW k \in 1 .. Cardinality(S), \E x \in S : Cardinality(below[x]) = k - 1
      PROVE  o[k] \in S /\ Cardinality(below[o[k]]) = k - 1
  <2>1. o[k] = CHOOSE x \in S : Cardinality({y \in S : y < x}) = k - 1
    BY <1>2
  <2>2. \E x \in S : Cardinality({y \in S : y < x}) = k - 1
    BY <1>4
  <2>3. o[k] \in S /\ Cardinality({y \in S : y < o[k]}) = k - 1
    BY <2>1, <2>2
  <2> QED
    BY <2>3
<1> HIDE DEF o, below
<1>5. Lists(o, S, below)
  BY <1>1, <1>3, <1>4, RankedLists
<1> QED
  BY <1>5 DEF o, below

\* Candidates in the order of select_flow_candidates.
LEMMA CandidatesListed ==
    ASSUME NEW S \in SUBSET FlowCandidate, IsFiniteSet(S),
           \A c, d \in S : c.code = d.code => c = d
    PROVE  Lists(Ordered(S, BetterCandidate), S, [x \in S |-> {y \in S : BetterCandidate(y, x)}])
<1> DEFINE below == [x \in S |-> {y \in S : BetterCandidate(y, x)}]
           o == Ordered(S, BetterCandidate)
           key == [c \in S |-> CandidateKey(c)]
<1>1. StrictOrder(S, below)
  <2>1. \A c \in S : CandidateKey(c) \in [1 .. 4 -> Int] /\ CandidateKey(c)[4] = c.code
    BY DEF CandidateKey, FlowCandidate
  <2>2. key \in [S -> [1 .. 4 -> Int]] /\ \A x, y \in S : key[x] = key[y] => x = y
    BY <2>1
  <2>3. below = [x \in S |-> {y \in S : Below(key[y], key[x])}]
    BY DEF BetterCandidate
  <2> HIDE DEF key, below
  <2>4. 4 \in Nat
    OBVIOUS
  <2> QED
    BY <2>2, <2>3, <2>4, KeysOrder
<1>2. o = [k \in 1 .. Cardinality(S) |-> CHOOSE x \in S : Cardinality({y \in S : BetterCandidate(y, x)}) = k - 1]
  BY DEF Ordered
<1>3. o = [k \in 1 .. Cardinality(S) |-> o[k]]
  BY <1>2
<1>4. ASSUME NEW k \in 1 .. Cardinality(S), \E x \in S : Cardinality(below[x]) = k - 1
      PROVE  o[k] \in S /\ Cardinality(below[o[k]]) = k - 1
  <2>1. o[k] = CHOOSE x \in S : Cardinality({y \in S : BetterCandidate(y, x)}) = k - 1
    BY <1>2
  <2>2. \E x \in S : Cardinality({y \in S : BetterCandidate(y, x)}) = k - 1
    BY <1>4
  <2>3. o[k] \in S /\ Cardinality({y \in S : BetterCandidate(y, o[k])}) = k - 1
    BY <2>1, <2>2
  <2> QED
    BY <2>3
<1> HIDE DEF o, below
<1>5. Lists(o, S, below)
  BY <1>1, <1>3, <1>4, RankedLists
<1> QED
  BY <1>5 DEF o, below

-----------------------------------------------------------------------------
(***************************************************************************)
(* The plan of requests.                                                   *)
(***************************************************************************)

\* What the planner is given, from the runs of the orchestrator too.
Plannable(p) ==
    /\ p \in PlanInputs /\ IsFiniteSet(p.candidates)
    /\ \A c, d \in p.candidates : c.code = d.code => c = d

\* The codes of a finite sequence of states are finite.
LEMMA CodesFinite ==
    ASSUME NEW states \in Seq(CacheStates)
    PROVE  LET codes == {s.code : s \in Range(states)}
           IN  codes \in SUBSET Nat /\ IsFiniteSet(codes)
<1> DEFINE codes == {s.code : s \in Range(states)}
<1>1. PICK n \in Nat : DOMAIN states = 1 .. n /\ \A k \in 1 .. n : states[k] \in CacheStates
  <2>1. /\ Len(states) \in Nat /\ DOMAIN states = 1 .. Len(states)
        /\ \A k \in 1 .. Len(states) : states[k] \in CacheStates
    OBVIOUS
  <2> QED
    BY <2>1
<1> DEFINE f == [k \in 1 .. n |-> states[k].code]
<1>2. \A k \in 1 .. n : states[k].code \in Nat
  BY <1>1 DEF CacheStates
<1>3. codes \in SUBSET Nat /\ f \in [1 .. n -> codes]
  BY <1>1, <1>2 DEF Range
<1>4. \A c \in codes : \E k \in 1 .. n : f[k] = c
  BY <1>1 DEF Range
<1> HIDE DEF f, codes
<1>5. f \in Surjection(1 .. n, codes)
  BY <1>3, <1>4 DEF Surjection
<1>6. IsFiniteSet(1 .. n)
  BY FS_Interval
<1>7. IsFiniteSet(codes)
  BY <1>5, <1>6, FS_Surjection
<1> QED
  BY <1>3, <1>7 DEF codes

\* The best candidates are candidates, and their codes are finitely many.
LEMMA BestAreCandidates ==
    ASSUME NEW S \in SUBSET FlowCandidate, IsFiniteSet(S),
           \A c, d \in S : c.code = d.code => c = d, NEW limit \in Nat
    PROVE  LET codes == {k.code : k \in Range(FlowCandidates(S, limit))}
           IN  /\ codes \subseteq {c.code : c \in S}
               /\ codes \in SUBSET Nat /\ IsFiniteSet(codes)
<1> DEFINE T == {c \in S : c.tradable /\ c.above /\ c.confidence >= 40
                             /\ (c.liquidity = None \/ c.liquidity > 0)}
           o == Ordered(T, BetterCandidate)
           m == IF Len(o) < limit THEN Len(o) ELSE limit
           best == FlowCandidates(S, limit)
           codes == {k.code : k \in Range(best)}
           f == [k \in 1 .. m |-> best[k].code]
<1>1. T \in SUBSET S /\ IsFiniteSet(T)
  <2>1. T \in SUBSET S
    OBVIOUS
  <2> QED
    BY <2>1, FS_Subset
<1>2. best = SubSeq(o, 1, m)
  BY DEF FlowCandidates, Upto
<1> HIDE DEF T
<1>3. o \in Seq(T)
  BY <1>1, CandidatesListed DEF Lists
<1> HIDE DEF o
<1>4. Len(o) \in Nat /\ m \in Nat /\ m <= Len(o)
  BY <1>3
<1>5. DOMAIN best = 1 .. m /\ \A k \in 1 .. m : best[k] \in S /\ best[k].code \in Nat
  <2>1. best \in Seq(T) /\ Len(best) = m
    BY <1>2, <1>3, <1>4
  <2>2. \A k \in 1 .. m : best[k] \in T
    BY <2>1
  <2> QED
    BY <1>1, <2>1, <2>2 DEF FlowCandidate
<1> HIDE DEF m, best
<1>6. /\ codes \subseteq {c.code : c \in S} /\ codes \in SUBSET Nat
      /\ f \in [1 .. m -> codes]
      /\ \A c \in codes : \E k \in 1 .. m : f[k] = c
  BY <1>5 DEF Range
<1> HIDE DEF f, codes
<1>7. f \in Surjection(1 .. m, codes)
  BY <1>6 DEF Surjection
<1>8. IsFiniteSet(1 .. m)
  BY <1>4, FS_Interval
<1>9. IsFiniteSet(codes)
  BY <1>7, <1>8, FS_Surjection
<1> QED
  BY <1>6, <1>9 DEF codes, best

\* A plan asks for the prices and flows that are due, each of them once.
LEMMA PlanAsks ==
    ASSUME NEW p, Plannable(p)
    PROVE  LET network == RequestPlan(p).network IN
           /\ IsInjective(network)
           /\ p.checkpoint = 0 =>
                Range(network) = ({"daily"} \X DailyCodes(p)) \cup ({"flow"} \X FlowCodes(p))
<1> DEFINE D == DailyCodes(p)
           F == FlowCodes(p)
           daily == Ordered(D, <)
           flow == Ordered(F, <)
           a == [k \in DOMAIN daily |-> <<"daily", daily[k]>>]
           b == [k \in DOMAIN flow |-> <<"flow", flow[k]>>]
           network == a \o b
<1>1. RequestPlan(p).network = SubSeq(network, p.checkpoint + 1, Len(network))
  BY DEF RequestPlan
<1>2. D \in SUBSET Nat /\ IsFiniteSet(D)
  <2> DEFINE codes == {s.code : s \in Range(p.states)}
  <2>1. codes \in SUBSET Nat /\ IsFiniteSet(codes)
    <3>1. p.states \in Seq(CacheStates)
      BY DEF Plannable, PlanInputs
    <3> QED
      BY <3>1, CodesFinite
  <2>2. D \in SUBSET codes
    BY DEF DailyCodes
  <2> HIDE DEF codes, D
  <2> QED
    BY <2>1, <2>2, FS_Subset
<1>3. F \in SUBSET Nat /\ IsFiniteSet(F)
  <2> DEFINE codes == {k.code : k \in Range(FlowCandidates(p.candidates, p.limit))}
  <2>1. codes \in SUBSET Nat /\ IsFiniteSet(codes)
    <3>1. /\ p.candidates \in SUBSET FlowCandidate /\ IsFiniteSet(p.candidates) /\ p.limit \in Nat
          /\ \A c, d \in p.candidates : c.code = d.code => c = d
      BY DEF Plannable, PlanInputs
    <3> QED
      BY <3>1, BestAreCandidates
  <2>2. F \in SUBSET codes
    BY DEF FlowCodes
  <2> HIDE DEF codes, F
  <2> QED
    BY <2>1, <2>2, FS_Subset
<1> HIDE DEF D, F
<1>4. PICK m \in Nat : /\ m = Cardinality(D) /\ daily \in Seq(D) /\ Len(daily) = m
                       /\ \A k \in 1 .. m : daily[k] \in D
                       /\ \A x \in D : \E k \in 1 .. m : daily[k] = x
                       /\ \A j, k \in 1 .. m : j < k => daily[j] < daily[k]
  <2>1. Lists(daily, D, [x \in D |-> {y \in D : y < x}]) /\ Cardinality(D) \in Nat
    BY <1>2, NumbersListed, FS_CardinalityType
  <2>2. daily \in Seq(D) /\ Len(daily) = Cardinality(D)
    BY <2>1 DEF Lists
  <2> HIDE DEF daily
  <2>3. \A k \in 1 .. Cardinality(D) : daily[k] \in D
    BY <2>2
  <2>4. \A x \in D : \E k \in 1 .. Cardinality(D) : daily[k] = x
    BY <2>1 DEF Lists
  <2>5. \A j, k \in 1 .. Cardinality(D) : j < k => daily[j] < daily[k]
    BY <2>1, <2>3 DEF Lists
  <2> QED
    BY <2>1, <2>2, <2>3, <2>4, <2>5
<1>5. PICK n \in Nat : /\ n = Cardinality(F) /\ flow \in Seq(F) /\ Len(flow) = n
                       /\ \A k \in 1 .. n : flow[k] \in F
                       /\ \A x \in F : \E k \in 1 .. n : flow[k] = x
                       /\ \A j, k \in 1 .. n : j < k => flow[j] < flow[k]
  <2>1. Lists(flow, F, [x \in F |-> {y \in F : y < x}]) /\ Cardinality(F) \in Nat
    BY <1>3, NumbersListed, FS_CardinalityType
  <2>2. flow \in Seq(F) /\ Len(flow) = Cardinality(F)
    BY <2>1 DEF Lists
  <2> HIDE DEF flow
  <2>3. \A k \in 1 .. Cardinality(F) : flow[k] \in F
    BY <2>2
  <2>4. \A x \in F : \E k \in 1 .. Cardinality(F) : flow[k] = x
    BY <2>1 DEF Lists
  <2>5. \A j, k \in 1 .. Cardinality(F) : j < k => flow[j] < flow[k]
    BY <2>1, <2>3 DEF Lists
  <2> QED
    BY <2>1, <2>2, <2>3, <2>4, <2>5
<1> HIDE DEF daily, flow
<1>6. /\ \A j, k \in 1 .. m : daily[j] = daily[k] => j = k
      /\ \A j, k \in 1 .. n : flow[j] = flow[k] => j = k
  <2>1. \A k \in 1 .. m : daily[k] \in Nat
    BY <1>2, <1>4
  <2>2. \A k \in 1 .. n : flow[k] \in Nat
    BY <1>3, <1>5
  <2>3. \A j, k \in 1 .. m : daily[j] = daily[k] => j = k
    BY <1>4, <2>1
  <2>4. \A j, k \in 1 .. n : flow[j] = flow[k] => j = k
    BY <1>5, <2>2
  <2> QED
    BY <2>3, <2>4
<1> DEFINE R == ({"daily"} \X D) \cup ({"flow"} \X F)
<1>7. /\ network \in Seq(R) /\ Len(network) = m + n
      /\ \A k \in 1 .. m : network[k] = <<"daily", daily[k]>>
      /\ \A k \in m + 1 .. m + n : network[k] = <<"flow", flow[k - m]>> /\ k - m \in 1 .. n
  <2>1. a \in Seq(R) /\ Len(a) = m /\ \A k \in 1 .. m : a[k] = <<"daily", daily[k]>>
    BY <1>4
  <2>2. b \in Seq(R) /\ Len(b) = n /\ \A k \in 1 .. n : b[k] = <<"flow", flow[k]>>
    BY <1>5
  <2> HIDE DEF a, b, R
  <2>3. /\ network \in Seq(R) /\ Len(network) = m + n
        /\ \A k \in 1 .. m + n : network[k] = IF k <= m THEN a[k] ELSE b[k - m]
    BY <2>1, <2>2, Joined
  <2>4. \A k \in 1 .. m : k \in 1 .. m + n /\ k <= m
    OBVIOUS
  <2>5. \A k \in m + 1 .. m + n : k \in 1 .. m + n /\ ~(k <= m) /\ k - m \in 1 .. n
    OBVIOUS
  <2> QED
    BY <2>1, <2>2, <2>3, <2>4, <2>5
<1> HIDE DEF network
<1>8. \A j, k \in 1 .. m + n : network[j] = network[k] => j = k
  <2> SUFFICES ASSUME NEW j \in 1 .. m + n, NEW k \in 1 .. m + n, network[j] = network[k]
               PROVE  j = k
    OBVIOUS
  <2>1. \A i \in 1 .. m + n : i \in 1 .. m \/ i \in m + 1 .. m + n
    OBVIOUS
  <2>2. CASE j \in 1 .. m /\ k \in 1 .. m
    BY <1>6, <1>7, <2>2
  <2>3. CASE j \in m + 1 .. m + n /\ k \in m + 1 .. m + n
    <3>1. j - m = k - m
      BY <1>6, <1>7, <2>3
    <3> QED
      BY <3>1
  <2>4. ~(j \in 1 .. m /\ k \in m + 1 .. m + n) /\ ~(k \in 1 .. m /\ j \in m + 1 .. m + n)
    BY <1>7
  <2> QED
    BY <2>1, <2>2, <2>3, <2>4
<1>9. p.checkpoint \in Nat
  BY DEF Plannable, PlanInputs
<1> DEFINE c == p.checkpoint
           rest == SubSeq(network, c + 1, Len(network))
<1> HIDE DEF R
<1>10. /\ rest \in Seq(R) /\ Len(rest) = IF c > m + n THEN 0 ELSE m + n - c
       /\ \A k \in 1 .. Len(rest) : rest[k] = network[k + c] /\ k + c \in 1 .. m + n
  <2>1. m + n \in Nat /\ network \in Seq(R) /\ m + n = Len(network)
    BY <1>7
  <2> HIDE DEF c
  <2>2. c \in Nat
    BY <1>9 DEF c
  <2> QED
    BY ONLY <2>1, <2>2, CutOff
<1>11. IsInjective(rest)
  <2>1. DOMAIN rest = 1 .. Len(rest)
    BY <1>10
  <2> SUFFICES ASSUME NEW j \in 1 .. Len(rest), NEW k \in 1 .. Len(rest), rest[j] = rest[k]
               PROVE  j = k
    BY <2>1 DEF IsInjective
  <2> HIDE DEF rest
  <2>2. j + c = k + c
    BY <1>8, <1>10
  <2> QED
    BY <1>9, <2>2
<1> USE DEF R
<1>12. ASSUME c = 0 PROVE Range(rest) = R
  <2>1. Len(rest) = m + n /\ \A k \in 1 .. m + n : rest[k] = network[k]
    BY <1>10, <1>12
  <2>2. DOMAIN rest = 1 .. m + n
    BY <1>10, <2>1
  <2> HIDE DEF rest
  <2>3. \A k \in DOMAIN rest : rest[k] \in R
    BY <1>10, <2>1, <2>2
  <2>4. ASSUME NEW r \in R PROVE \E k \in DOMAIN rest : rest[k] = r
    <3>1. CASE r \in {"daily"} \X D
      <4>1. PICK x \in D : r = <<"daily", x>>
        BY <3>1
      <4>2. PICK k \in 1 .. m : daily[k] = x
        BY <1>4
      <4>3. k \in 1 .. m + n /\ network[k] = r
        BY <1>7, <4>1, <4>2
      <4> QED
        BY <2>1, <2>2, <4>3
    <3>2. CASE r \in {"flow"} \X F
      <4>1. PICK x \in F : r = <<"flow", x>>
        BY <3>2
      <4>2. PICK k \in 1 .. n : flow[k] = x
        BY <1>5
      <4>3. k + m \in m + 1 .. m + n /\ (k + m) - m = k /\ k + m \in 1 .. m + n
        OBVIOUS
      <4>4. network[k + m] = r
        BY <1>7, <4>1, <4>2, <4>3
      <4> QED
        BY <2>1, <2>2, <4>3, <4>4
    <3> QED
      BY <3>1, <3>2
  <2> HIDE DEF R
  <2> QED
    BY <2>3, <2>4 DEF Range
<1> QED
  BY <1>1, <1>11, <1>12 DEF network, a, b, daily, flow, D, F

\* Of the states of one code that are not fresh the first counts.
LEMMA StateCounts ==
    ASSUME NEW states \in Seq(CacheStates), NEW c, NEW kind, Told(states, c, kind) # {}
    PROVE  \E k \in Told(states, c, kind) :
             /\ StateFor(states, c, kind) = states[k] /\ states[k] \in CacheStates
             /\ (\E j \in Told(states, c, kind) : states[j].status # "fresh")
                  => states[k].status # "fresh"
<1> DEFINE told == Told(states, c, kind)
           due == {k \in told : states[k].status # "fresh"}
           I == IF due = {} THEN told ELSE due
<1>1. told \in SUBSET Nat /\ \A k \in told : states[k] \in CacheStates
  <2>1. \A k \in DOMAIN states : k \in Nat /\ states[k] \in CacheStates
    OBVIOUS
  <2> QED
    BY <2>1 DEF Told
<1>2. StateFor(states, c, kind) = states[Min(I)]
  BY DEF StateFor
<1> HIDE DEF told
<1>3. I \in SUBSET Nat /\ I # {} /\ I \subseteq told
  BY <1>1 DEF told
<1>4. Min(I) \in I
  <2> HIDE DEF I
  <2> QED
    BY <1>3, LeastOf
<1>5. (\E j \in told : states[j].status # "fresh") => states[Min(I)].status # "fresh"
  <2> DEFINE k == Min(I)
  <2>1. k \in I
    BY <1>4
  <2> HIDE DEF k
  <2>2. (\E j \in told : states[j].status # "fresh") => k \in due
    BY <2>1
  <2>3. (\E j \in told : states[j].status # "fresh") => states[k].status # "fresh"
    BY <2>2
  <2> QED
    BY <2>3 DEF k
<1> HIDE DEF I
<1> QED
  BY <1>1, <1>2, <1>3, <1>4, <1>5 DEF told

\* The first part of PlanIsExact, for any input of the planner.
PlanExact(p, network) ==
    LET asked(mode) == RequestPlan([p EXCEPT !.mode = mode, !.checkpoint = 0]).network IN
    /\ IsInjective(network)
    /\ Range(asked("bootstrap")) \cap Range(asked("repair")) = {}
    /\ \A s \in Range(p.states) :
         (/\ s.kind = "daily" /\ s.status # "fresh" /\ s.retries < p.retryLimit
          /\ \A u \in Range(p.states) \ {s} :
               (u.code = s.code /\ u.kind = "daily") => u.status = "fresh")
         => <<"daily", s.code>> \in Range(asked("bootstrap")) \cup Range(asked("repair"))

\* A plan asks once for what is due, and for nothing else.
LEMMA PlansAreExact ==
    ASSUME NEW p, Plannable(p)
    PROVE  PlanExact(p, RequestPlan(p).network)
<1> DEFINE first == [p EXCEPT !.mode = "bootstrap", !.checkpoint = 0]
           repair == [p EXCEPT !.mode = "repair", !.checkpoint = 0]
<1>1. /\ Plannable(first) /\ first.mode = "bootstrap" /\ first.checkpoint = 0
      /\ first.states = p.states /\ first.candidates = p.candidates
      /\ first.retryLimit = p.retryLimit /\ first.limit = p.limit
  BY DEF Plannable, PlanInputs
<1>2. /\ Plannable(repair) /\ repair.mode = "repair" /\ repair.checkpoint = 0
      /\ repair.states = p.states /\ repair.candidates = p.candidates
      /\ repair.retryLimit = p.retryLimit /\ repair.limit = p.limit
  BY DEF Plannable, PlanInputs
<1> DEFINE a == RequestPlan(first).network
           b == RequestPlan(repair).network
<1> HIDE DEF first, repair
<1>3. /\ Range(a) = ({"daily"} \X DailyCodes(first)) \cup ({"flow"} \X FlowCodes(first))
      /\ Range(b) = ({"daily"} \X DailyCodes(repair)) \cup ({"flow"} \X FlowCodes(repair))
  BY <1>1, <1>2, PlanAsks
<1>4. \A c, kind : ~(DueState(first, c, kind) /\ DueState(repair, c, kind))
  BY <1>1, <1>2 DEF DueState, Due
<1>5. DailyCodes(first) \cap DailyCodes(repair) = {}
  BY <1>4 DEF DailyCodes
<1>6. FlowCodes(first) \cap FlowCodes(repair) = {}
  BY <1>1, <1>2, <1>4 DEF FlowCodes, Due
<1>7. Range(a) \cap Range(b) = {}
  BY <1>3, <1>5, <1>6
<1>8. ASSUME NEW s \in Range(p.states),
             s.kind = "daily", s.status # "fresh", s.retries < p.retryLimit,
             \A u \in Range(p.states) \ {s} :
                 (u.code = s.code /\ u.kind = "daily") => u.status = "fresh"
      PROVE  <<"daily", s.code>> \in Range(a) \cup Range(b)
  <2> DEFINE told == Told(p.states, s.code, "daily")
  <2>1. p.states \in Seq(CacheStates)
    BY DEF Plannable, PlanInputs
  <2>2. PICK k \in told : p.states[k] = s
    BY <1>8 DEF Range, Told
  <2>3. PICK j \in told : /\ StateFor(p.states, s.code, "daily") = p.states[j]
                          /\ p.states[j] \in CacheStates /\ p.states[j].status # "fresh"
    BY <1>8, <2>1, <2>2, StateCounts
  <2>4. p.states[j] = s
    BY <1>8, <2>3 DEF Range, Told
  <2>5. s.code \in {u.code : u \in Range(p.states)} /\ told # {}
    BY <1>8, <2>2
  <2>6. s.status \in {"missing", "stale", "failed"}
    BY <1>8, <2>3, <2>4 DEF CacheStates
  <2>7. DueState(first, s.code, "daily") \/ DueState(repair, s.code, "daily")
    BY <1>1, <1>2, <1>8, <2>3, <2>4, <2>6 DEF DueState, Due
  <2>8. s.code \in DailyCodes(first) \/ s.code \in DailyCodes(repair)
    BY <1>1, <1>2, <2>5, <2>7 DEF DailyCodes
  <2> QED
    BY <1>3, <2>8
<1>9. IsInjective(RequestPlan(p).network)
  BY PlanAsks
<1> HIDE DEF a, b
<1>10. /\ a = RequestPlan([p EXCEPT !.mode = "bootstrap", !.checkpoint = 0]).network
       /\ b = RequestPlan([p EXCEPT !.mode = "repair", !.checkpoint = 0]).network
  BY DEF a, b, first, repair
<1> QED
  BY <1>7, <1>8, <1>9, <1>10 DEF PlanExact

-----------------------------------------------------------------------------
(***************************************************************************)
(* A run of the orchestrator.                                              *)
(***************************************************************************)

Runnable(o) ==
    /\ IsFiniteSet(o.records) /\ \A r \in o.records : r.code \in Nat
    /\ \A r, s \in o.records : r.code = s.code => r = s
    /\ \A r \in o.records :
         o.daily[r.code] # Fails =>
           o.daily[r.code] \in FlowCandidate /\ o.daily[r.code].code = r.code
    /\ o.mode \in {"bootstrap", "daily_incremental", "repair"} /\ o.max \in Nat /\ o.limit \in Nat

\* Records in the order of their codes.
LEMMA RecordsListed ==
    ASSUME NEW S, IsFiniteSet(S), \A r \in S : r.code \in Nat,
           \A r, s \in S : r.code = s.code => r = s
    PROVE  Lists(Ordered(S, LAMBDA r, s : r.code < s.code), S,
                 [x \in S |-> {y \in S : y.code < x.code}])
<1> DEFINE below == [x \in S |-> {y \in S : y.code < x.code}]
           o == Ordered(S, LAMBDA r, s : r.code < s.code)
<1>1. StrictOrder(S, below)
  <2>1. \A x, y \in S : x.code \in Nat /\ (y \in below[x] <=> y.code < x.code)
    OBVIOUS
  <2>2. below \in [S -> SUBSET S]
    OBVIOUS
  <2>3. \A x, y \in S : x = y \/ x.code < y.code \/ y.code < x.code
    <3>1. \A m, n \in Nat : m = n \/ m < n \/ n < m
      OBVIOUS
    <3> QED
      BY <3>1
  <2>4. ASSUME NEW x \in S, NEW y \in S, y \in below[x], NEW z \in below[y] PROVE z \in below[x]
    <3>1. z \in S /\ z.code < y.code /\ y.code < x.code
      BY <2>1, <2>2, <2>4
    <3>2. x.code \in Nat /\ y.code \in Nat /\ z.code \in Nat
      BY <3>1
    <3>3. z.code < x.code
      BY <3>1, <3>2
    <3> QED
      BY <2>1, <3>1, <3>3
  <2> HIDE DEF below
  <2>5. \A x \in S : x \notin below[x]
    <3>1. \A m \in Nat : ~(m < m)
      OBVIOUS
    <3> QED
      BY <2>1, <3>1
  <2>6. \A x, y \in S : y \in below[x] => below[y] \subseteq below[x]
    BY <2>4
  <2> QED
    BY <2>1, <2>2, <2>3, <2>5, <2>6 DEF StrictOrder
<1>2. o = [k \in 1 .. Cardinality(S) |-> CHOOSE x \in S : Cardinality({y \in S : y.code < x.code}) = k - 1]
  BY DEF Ordered
<1>3. o = [k \in 1 .. Cardinality(S) |-> o[k]]
  BY <1>2
<1>4. ASSUME NEW k \in 1 .. Cardinality(S), \E x \in S : Cardinality(below[x]) = k - 1
      PROVE  o[k] \in S /\ Cardinality(below[o[k]]) = k - 1
  <2>1. o[k] = CHOOSE x \in S : Cardinality({y \in S : y.code < x.code}) = k - 1
    BY <1>2
  <2>2. \E x \in S : Cardinality({y \in S : y.code < x.code}) = k - 1
    BY <1>4
  <2>3. o[k] \in S /\ Cardinality({y \in S : y.code < o[k].code}) = k - 1
    BY <2>1, <2>2
  <2> QED
    BY <2>3
<1> HIDE DEF o, below
<1>5. Lists(o, S, below)
  BY <1>1, <1>3, <1>4, RankedLists
<1> QED
  BY <1>5 DEF o, below

\* The stocks of a run: some of the listed ones, all of them if they fit in.
LEMMA MastersListed ==
    ASSUME NEW o, Runnable(o)
    PROVE  /\ MastersOf(o) \subseteq {r.code : r \in o.records}
           /\ MastersOf(o) \in SUBSET Nat /\ IsFiniteSet(MastersOf(o))
           /\ \A r \in o.records :
                Listed(r) /\ Cardinality(o.records) <= o.max => r.code \in MastersOf(o)
<1> DEFINE S == {r \in o.records : Listed(r)}
           s == Ordered(S, LAMBDA x, y : x.code < y.code)
           m == IF Len(s) < o.max THEN Len(s) ELSE o.max
           some == Upto(o.max, s)
           f == [k \in 1 .. m |-> some[k].code]
<1>1. S \in SUBSET o.records /\ IsFiniteSet(S) /\ Cardinality(S) <= Cardinality(o.records)
  <2>1. S \in SUBSET o.records /\ IsFiniteSet(o.records)
    BY DEF Runnable
  <2> HIDE DEF S
  <2> QED
    BY <2>1, FS_Subset
<1>2. MastersOf(o) = {r.code : r \in Range(some)}
  BY DEF MastersOf
<1>3. \A r \in S : Listed(r)
  OBVIOUS
<1>4. \A r \in o.records : Listed(r) => r \in S
  OBVIOUS
<1> HIDE DEF S
<1>5. /\ s \in Seq(S) /\ Len(s) = Cardinality(S) /\ Cardinality(S) \in Nat
      /\ \A r \in S : \E k \in 1 .. Cardinality(S) : s[k] = r
  <2>1. \A r \in S : r.code \in Nat
    BY <1>1 DEF Runnable
  <2>2. \A r, t \in S : r.code = t.code => r = t
    BY <1>1 DEF Runnable
  <2>3. Lists(s, S, [x \in S |-> {y \in S : y.code < x.code}])
    BY <1>1, <2>1, <2>2, RecordsListed
  <2> QED
    BY <1>1, <2>3, FS_CardinalityType DEF Lists
<1> HIDE DEF s
<1>6. m \in Nat /\ m <= Len(s)
  BY <1>5 DEF Runnable
<1>7. /\ DOMAIN some = 1 .. m
      /\ \A k \in 1 .. m : some[k] = s[k] /\ some[k] \in S
  <2>1. some = SubSeq(s, 1, m)
    BY DEF Upto
  <2> HIDE DEF some, m
  <2> QED
    BY <1>5, <1>6, <2>1
<1> HIDE DEF some
<1>8. \A k \in 1 .. m : some[k] \in o.records /\ some[k].code \in Nat
  BY <1>1, <1>7 DEF Runnable
<1>9. MastersOf(o) \subseteq {r.code : r \in o.records} /\ MastersOf(o) \in SUBSET Nat
  BY <1>2, <1>7, <1>8 DEF Range
<1>10. IsFiniteSet(MastersOf(o))
  <2>1. f \in [1 .. m -> MastersOf(o)] /\ \A c \in MastersOf(o) : \E k \in 1 .. m : f[k] = c
    BY <1>2, <1>7 DEF Range
  <2> HIDE DEF f
  <2>2. f \in Surjection(1 .. m, MastersOf(o))
    BY <2>1 DEF Surjection
  <2>3. IsFiniteSet(1 .. m)
    BY <1>6, FS_Interval
  <2> QED
    BY <2>2, <2>3, FS_Surjection
<1>11. ASSUME NEW r \in o.records, Listed(r), Cardinality(o.records) <= o.max
       PROVE  r.code \in MastersOf(o)
  <2>1. Cardinality(o.records) \in Nat /\ o.max \in Nat
    BY FS_CardinalityType DEF Runnable
  <2>2. m = Cardinality(S)
    BY <1>1, <1>5, <1>11, <2>1
  <2>3. PICK k \in 1 .. m : s[k] = r
    BY <1>4, <1>5, <1>11, <2>2
  <2>4. r \in Range(some)
    BY <1>7, <2>3 DEF Range
  <2> QED
    BY <1>2, <2>4
<1> QED
  BY <1>9, <1>10, <1>11

\* What a run makes of its bars is an input of the planner.
LEMMA RunPlannable ==
    ASSUME NEW o, Runnable(o)
    PROVE  /\ Plannable(PlanOf(o)) /\ PlanOf(o).checkpoint = 0
           /\ PlanOf(o).limit \in Nat
           /\ \A c \in PlanOf(o).candidates : c \in FlowCandidate /\ c.code \in WithBars(o)
<1> DEFINE M == MastersOf(o)
           order == Ordered(M, <)
           status == IF o.mode = "repair" THEN "failed" ELSE "missing"
           of(kind) == [k \in DOMAIN order |->
                          [code |-> order[k], kind |-> kind, status |-> status, retries |-> 0]]
           C == {c \in WithBars(o) \ o.unsaved : o.daily[c].above}
           made == {o.daily[c] : c \in C}
           f == [c \in C |-> o.daily[c]]
<1>1. /\ M \in SUBSET Nat /\ IsFiniteSet(M)
      /\ \A c \in M : o.daily[c] # Fails => o.daily[c] \in FlowCandidate /\ o.daily[c].code = c
  BY MastersListed DEF Runnable
<1>2. C \in SUBSET M /\ \A c \in C : c \in WithBars(o) /\ o.daily[c] # Fails
  BY DEF WithBars
<1>3. PlanOf(o) = [states |-> of("daily") \o of("flow"), mode |-> o.mode, codes |-> M,
                   retryLimit |-> 2, limit |-> o.limit, checkpoint |-> 0, candidates |-> made]
  BY DEF PlanOf
<1> HIDE DEF M, C
<1>4. of("daily") \o of("flow") \in Seq(CacheStates)
  <2>1. order \in Seq(M)
    BY <1>1, NumbersListed DEF Lists
  <2> HIDE DEF order
  <2>2. PICK n \in Nat : DOMAIN order = 1 .. n /\ \A k \in 1 .. n : order[k] \in Nat
    <3>1. /\ Len(order) \in Nat /\ DOMAIN order = 1 .. Len(order)
          /\ \A k \in 1 .. Len(order) : order[k] \in M
      BY <2>1
    <3> QED
      BY <1>1, <3>1
  <2>3. ASSUME NEW kind \in {"daily", "flow"} PROVE of(kind) \in Seq(CacheStates)
    <3> DEFINE row(k) == [code |-> order[k], kind |-> kind, status |-> status, retries |-> 0]
    <3>1. \A k \in 1 .. n : row(k) \in CacheStates
      BY <2>2 DEF CacheStates
    <3> HIDE DEF row
    <3>2. [k \in 1 .. n |-> row(k)] \in Seq(CacheStates)
      BY <3>1
    <3> QED
      BY <2>2, <3>2 DEF row
  <2> HIDE DEF of
  <2>4. of("daily") \in Seq(CacheStates) /\ of("flow") \in Seq(CacheStates)
    BY <2>3
  <2> QED
    BY <2>4
<1>5. /\ made \in SUBSET FlowCandidate
      /\ \A c \in made : c.code \in C /\ c = o.daily[c.code]
  BY <1>1, <1>2
<1>6. IsFiniteSet(made)
  <2>1. IsFiniteSet(C)
    BY <1>1, <1>2, FS_Subset
  <2>2. f \in Surjection(C, made)
    BY DEF Surjection
  <2> HIDE DEF f, made
  <2> QED
    BY <2>1, <2>2, FS_Surjection
<1>7. \A c, d \in made : c.code = d.code => c = d
  BY <1>5
<1> HIDE DEF made, of
<1>8. PlanOf(o) \in PlanInputs
  BY <1>1, <1>3, <1>4, <1>5 DEF PlanInputs, Runnable
<1> QED
  BY <1>2, <1>3, <1>5, <1>6, <1>7, <1>8 DEF Plannable, Runnable

\* The second part of PlanIsExact.
RunExact(o, result) ==
    /\ \A r \in o.records :
         (Listed(r) /\ Cardinality(o.records) <= o.max) =>
             r.code \in result.bundles \/ <<"daily", r.code>> \in result.failures
    /\ result.asked \subseteq result.bundles
    /\ \A c \in result.asked : c \in result.flows \/ <<"flow", c>> \in result.failures

\* A run has the bars of each stock or a failure, and flows of stocks with bars.
LEMMA RunsAreExact ==
    ASSUME NEW o, Runnable(o)
    PROVE  RunExact(o, Orchestrate(o))
<1> DEFINE p == PlanOf(o)
           asked == {r[2] : r \in {r \in Range(RequestPlan(p).network) : r[1] = "flow"}}
           unread == (MastersOf(o) \ WithBars(o)) \cup (MastersOf(o) \cap o.unsaved)
           failures == {<<"daily", c>> : c \in unread}
                       \cup {<<"flow", c>> : c \in {c \in asked : o.flow[c] = Fails \/ c \in o.unsavedFlow}}
<1>1. Orchestrate(o) = [bundles |-> WithBars(o), flows |-> {c \in asked : o.flow[c] # Fails},
                        asked |-> asked, failures |-> failures]
  BY DEF Orchestrate
<1>2. asked \subseteq WithBars(o)
  <2>1. Range(RequestPlan(p).network) = ({"daily"} \X DailyCodes(p)) \cup ({"flow"} \X FlowCodes(p))
    BY RunPlannable, PlanAsks
  <2>2. asked \subseteq FlowCodes(p)
    BY <2>1
  <2>3. FlowCodes(p) \subseteq {k.code : k \in Range(FlowCandidates(p.candidates, p.limit))}
    BY DEF FlowCodes
  <2>4. {k.code : k \in Range(FlowCandidates(p.candidates, p.limit))} \subseteq {c.code : c \in p.candidates}
    <3>1. /\ p.candidates \in SUBSET FlowCandidate /\ IsFiniteSet(p.candidates) /\ p.limit \in Nat
          /\ \A c, d \in p.candidates : c.code = d.code => c = d
      BY RunPlannable DEF Plannable
    <3> QED
      BY <3>1, BestAreCandidates
  <2>5. {c.code : c \in p.candidates} \subseteq WithBars(o)
    BY RunPlannable
  <2> HIDE DEF asked, p
  <2> QED
    BY <2>2, <2>3, <2>4, <2>5
<1>3. ASSUME NEW r \in o.records, Listed(r), Cardinality(o.records) <= o.max
      PROVE  r.code \in WithBars(o) \/ <<"daily", r.code>> \in failures
  BY <1>3, MastersListed
<1>4. \A c \in asked : c \in {a \in asked : o.flow[a] # Fails} \/ <<"flow", c>> \in failures
  OBVIOUS
<1> HIDE DEF asked, failures
<1> QED
  BY <1>1, <1>2, <1>3, <1>4 DEF RunExact

-----------------------------------------------------------------------------
(***************************************************************************)
(* The state of the market, its confidence and its decision.               *)
(***************************************************************************)

\* The components of a round, at their places.
Readings == [1 .. 9 -> Int \cup {None}]
Placed(m) ==
    [k \in 1 .. 9 |->
       IF k = 1 THEN Value(m.index["KOSPI"]) ELSE IF k = 2 THEN Value(m.index["KOSDAQ"])
       ELSE IF k = 3 THEN Value(m.index["KOSPI200"]) ELSE IF k = 4 THEN Value(m.cap["005930"])
       ELSE IF k = 5 THEN Value(m.cap["000660"])
       ELSE IF k = 6 THEN IF m.spot = Fails THEN None ELSE Value(m.spot["foreigner"])
       ELSE IF k = 7 THEN IF m.spot = Fails THEN None ELSE Value(m.spot["institution"])
       ELSE IF k = 8 THEN Value(m.program)
       ELSE IF m.contract THEN Value(m.futures) ELSE None]

\* A value is what was answered, or None.
LEMMA ValuesAre ==
    /\ \A a \in Answers : Value(a) \in Int \cup {None} /\ (a \in Int => Value(a) = a)
    /\ \A v \in Int : v \notin {None, Fails, Bad}
  BY ValueAssumption DEF Value, Answers

\* The fields of a round.
LEMMA FieldsAre ==
    ASSUME NEW m \in Rounds
    PROVE  /\ m.index \in [Indices -> Answers] /\ m.cap \in [Caps -> Answers]
           /\ m.spot # Fails => m.spot \in [Investors -> Answers]
           /\ m.contract \in BOOLEAN /\ m.futures \in Answers /\ m.program \in Answers
           /\ m.premarket \in BOOLEAN /\ m.zero \in BOOLEAN
           /\ m.others \in Nat /\ m.warnings \in Nat /\ m.began \in Int /\ m.took \in Int
<1>1. m.spot # Fails => m.spot \in [Investors -> Answers]
  <2>1. m.spot \in [Investors -> Int \cup {Bad}] \cup {Fails}
    BY DEF Rounds
  <2>2. Int \cup {Bad} \subseteq Answers
    BY DEF Answers
  <2> QED
    BY <2>1, <2>2
<1> QED
  BY <1>1 DEF Rounds

\* The flow of an investor, when the investors could be read.
LEMMA FlowsOfSpot ==
    ASSUME NEW m \in Rounds, NEW i \in Investors
    PROVE  Spot(m, i) = IF m.spot = Fails THEN None ELSE Value(m.spot[i])
  BY DEF Spot, SpotFlows

\* The components that are scored are the values of the round.
LEMMA ComponentsPlaced ==
    ASSUME NEW m \in Rounds
    PROVE  /\ Components(m) = Placed(m) /\ Components(m) \in Readings
           /\ Rates(m) = [k \in 1 .. 5 |-> Placed(m)[k]]
<1>1. Placed(m) \in Readings
  <2>1. /\ Value(m.index["KOSPI"]) \in Int \cup {None} /\ Value(m.index["KOSDAQ"]) \in Int \cup {None}
        /\ Value(m.index["KOSPI200"]) \in Int \cup {None}
        /\ Value(m.cap["005930"]) \in Int \cup {None} /\ Value(m.cap["000660"]) \in Int \cup {None}
    BY FieldsAre, ValuesAre DEF Indices, Caps
  <2>2. m.spot # Fails => /\ Value(m.spot["foreigner"]) \in Int \cup {None}
                          /\ Value(m.spot["institution"]) \in Int \cup {None}
    BY FieldsAre, ValuesAre DEF Investors
  <2>3. Value(m.program) \in Int \cup {None} /\ Value(m.futures) \in Int \cup {None}
    BY FieldsAre, ValuesAre
  <2> QED
    BY <2>1, <2>2, <2>3 DEF Placed, Readings
<1>2. /\ Spot(m, "foreigner") = Placed(m)[6] /\ Spot(m, "institution") = Placed(m)[7]
      /\ Program(m) = Placed(m)[8] /\ FuturesForeign(m) = Placed(m)[9]
      /\ IndexRates(m)["KOSPI"] = Placed(m)[1] /\ IndexRates(m)["KOSDAQ"] = Placed(m)[2]
      /\ IndexRates(m)["KOSPI200"] = Placed(m)[3]
      /\ StockRates(m)["005930"] = Placed(m)[4] /\ StockRates(m)["000660"] = Placed(m)[5]
  BY FlowsOfSpot DEF Placed, Program, FuturesForeign, IndexRates, StockRates, Indices, Caps, Investors
<1> DEFINE c == Placed(m)
<1>3. Rates(m) = <<c[1], c[2], c[3], c[4], c[5]>> /\ Flows(m) = <<c[6], c[7], c[8], c[9]>>
  BY <1>2 DEF Rates, Flows
<1>4. \A k \in 1 .. 9 : c[k] \in Int \cup {None}
  BY <1>1 DEF Readings
<1>5. DOMAIN c = 1 .. 9 /\ c = [k \in 1 .. 9 |-> c[k]]
  BY <1>1 DEF Readings
<1> HIDE DEF c
<1>6. <<c[1], c[2], c[3], c[4], c[5]>> \o <<c[6], c[7], c[8], c[9]>> = c
  BY <1>4, <1>5
<1>7. <<c[1], c[2], c[3], c[4], c[5]>> = [k \in 1 .. 5 |-> c[k]]
  BY <1>4, <1>5
<1> QED
  BY <1>1, <1>3, <1>6, <1>7 DEF c, Components

\* What is counted are sets of places.
LEMMA PlacesFinite ==
    ASSUME NEW A, A \subseteq 1 .. 9
    PROVE  IsFiniteSet(A) /\ Cardinality(A) \in Nat
<1>1. 1 \in Int /\ 9 \in Int
  OBVIOUS
<1>2. IsFiniteSet(1 .. 9)
  BY <1>1, FS_Interval
<1> QED
  BY <1>2, FS_Subset, FS_CardinalityType

\* How many are known, and the score of the opposite components.
LEMMA ScoreTurns ==
    ASSUME NEW c \in Readings, NEW d \in Readings,
           \A k \in 1 .. 9 : d[k] = IF c[k] = None THEN None ELSE -c[k]
    PROVE  Known(d) = Known(c) /\ Score(d) = -Score(c)
<1>1. DOMAIN c = 1 .. 9 /\ DOMAIN d = 1 .. 9 /\ \A k \in 1 .. 9 : c[k] \in Int \cup {None}
  BY DEF Readings
<1>2. \A k \in 1 .. 9 : (d[k] = None <=> c[k] = None)
  BY <1>1, ValuesAre
<1>3. Known(d) = Known(c)
  BY <1>1, <1>2 DEF Known
<1>4. \A k \in Known(c) : (d[k] > 0 <=> c[k] < 0) /\ (d[k] < 0 <=> c[k] > 0)
  BY <1>1 DEF Known
<1>5. Rising(d) = Falling(c) /\ Falling(d) = Rising(c)
  BY <1>3, <1>4 DEF Rising, Falling
<1>6. Known(c) \subseteq 1 .. 9 /\ Rising(c) \subseteq 1 .. 9 /\ Falling(c) \subseteq 1 .. 9
  BY <1>1 DEF Known, Rising, Falling
<1>7. Cardinality(Rising(c)) \in Nat /\ Cardinality(Falling(c)) \in Nat
  BY <1>6, PlacesFinite
<1> QED
  BY <1>3, <1>5, <1>7 DEF Score

\* A component that is lost counts for itself.
LEMMA ScoreLoses ==
    ASSUME NEW c \in Readings, NEW d \in Readings, NEW S \in SUBSET (1 .. 9),
           NEW n \in Nat, Cardinality(S) <= n,
           \A k \in 1 .. 9 : d[k] = IF k \in S THEN None ELSE c[k]
    PROVE  /\ Score(c) \in Int /\ Score(d) \in Int
           /\ Score(d) - Score(c) <= n /\ Score(c) - Score(d) <= n
           /\ Cardinality(Known(c)) \in Nat /\ Cardinality(Known(d)) \in Nat
           /\ Cardinality(Known(d)) <= Cardinality(Known(c))
<1>1. DOMAIN c = 1 .. 9 /\ DOMAIN d = 1 .. 9 /\ \A k \in 1 .. 9 : c[k] \in Int \cup {None}
  BY DEF Readings
<1>2. Known(d) = Known(c) \ S
  BY <1>1 DEF Known
<1>3. Rising(d) = Rising(c) \ S /\ Falling(d) = Falling(c) \ S
  BY <1>1, <1>2 DEF Known, Rising, Falling
<1>4. Known(c) \subseteq 1 .. 9 /\ Rising(c) \subseteq 1 .. 9 /\ Falling(c) \subseteq 1 .. 9
  BY <1>1 DEF Known, Rising, Falling
<1>5. ASSUME NEW A, A \subseteq 1 .. 9
      PROVE  IsFiniteSet(A) /\ Cardinality(A) \in Nat
  BY <1>5, PlacesFinite
<1>6. ASSUME NEW A, A \subseteq 1 .. 9
      PROVE  Cardinality(A \ S) + Cardinality(A \cap S) = Cardinality(A)
  <2>1. IsFiniteSet(A)
    BY <1>5, <1>6
  <2>2. Cardinality(A \ S) = Cardinality(A) - Cardinality(A \cap S)
    BY <2>1, FS_Difference
  <2>3. Cardinality(A) \in Nat /\ Cardinality(A \cap S) \in Nat /\ Cardinality(A \ S) \in Nat
    <3>1. A \cap S \subseteq 1 .. 9 /\ A \ S \subseteq 1 .. 9
      BY <1>6
    <3> QED
      BY <1>5, <1>6, <3>1
  <2> QED
    BY <2>2, <2>3
<1>7. /\ Cardinality(Rising(c) \ S) + Cardinality(Rising(c) \cap S) = Cardinality(Rising(c))
      /\ Cardinality(Falling(c) \ S) + Cardinality(Falling(c) \cap S) = Cardinality(Falling(c))
      /\ Cardinality(Known(c) \ S) + Cardinality(Known(c) \cap S) = Cardinality(Known(c))
  BY <1>4, <1>6
<1>8. /\ Cardinality(Rising(c) \ S) \in Nat /\ Cardinality(Rising(c) \cap S) \in Nat
      /\ Cardinality(Falling(c) \ S) \in Nat /\ Cardinality(Falling(c) \cap S) \in Nat
      /\ Cardinality(Known(c) \ S) \in Nat /\ Cardinality(Known(c) \cap S) \in Nat
      /\ Cardinality(Rising(c)) \in Nat /\ Cardinality(Falling(c)) \in Nat
      /\ Cardinality(Known(c)) \in Nat
  <2>1. /\ Rising(c) \ S \subseteq 1 .. 9 /\ Rising(c) \cap S \subseteq 1 .. 9
        /\ Falling(c) \ S \subseteq 1 .. 9 /\ Falling(c) \cap S \subseteq 1 .. 9
        /\ Known(c) \ S \subseteq 1 .. 9 /\ Known(c) \cap S \subseteq 1 .. 9
    BY <1>4
  <2> QED
    BY <1>4, <1>5, <2>1
<1>9. Cardinality(Rising(c) \cap S) <= n /\ Cardinality(Falling(c) \cap S) <= n
  <2>1. IsFiniteSet(S) /\ Cardinality(S) \in Nat
    BY <1>5
  <2>2. Cardinality(Rising(c) \cap S) <= Cardinality(S) /\ Cardinality(Falling(c) \cap S) <= Cardinality(S)
    BY <2>1, FS_Subset
  <2> QED
    BY <1>8, <2>1, <2>2
<1> QED
  BY <1>2, <1>3, <1>7, <1>8, <1>9 DEF Score

-----------------------------------------------------------------------------
\* The round of the opposite market is one, with the same errors.
LEMMA OppositeIs ==
    ASSUME NEW m \in Rounds
    PROVE  LET o == Opposite(m) IN
           /\ o \in Rounds
           /\ \A k \in 1 .. 9 : Placed(o)[k] = IF Placed(m)[k] = None THEN None ELSE -Placed(m)[k]
           /\ IndexErrors(o) = IndexErrors(m) /\ StockErrors(o) = StockErrors(m)
           /\ SpotErrors(o) = SpotErrors(m) /\ DerivativesErrors(o) = DerivativesErrors(m)
           /\ Errors(o) = Errors(m)
<1> DEFINE turn(a) == IF a \in {Fails, Bad} THEN a ELSE -a
           o == Opposite(m)
<1>1. \A a \in Answers : /\ turn(a) \in Answers /\ (turn(a) = Fails <=> a = Fails)
                         /\ turn(a) = Bad <=> a = Bad
                         /\ Value(turn(a)) = IF Value(a) = None THEN None ELSE -Value(a)
  <2> SUFFICES ASSUME NEW a \in Answers
               PROVE  /\ turn(a) \in Answers /\ (turn(a) = Fails <=> a = Fails)
                      /\ turn(a) = Bad <=> a = Bad
                      /\ Value(turn(a)) = IF Value(a) = None THEN None ELSE -Value(a)
    OBVIOUS
  <2>1. CASE a \in {Fails, Bad}
    BY <2>1, ValuesAre DEF Answers, Value
  <2>2. CASE a \in Int
    <3>1. -a \in Int /\ a \notin {None, Fails, Bad} /\ -a \notin {None, Fails, Bad}
      BY <2>2, ValuesAre
    <3> QED
      BY <3>1, <2>2 DEF Answers, Value
  <2> QED
    BY <2>1, <2>2 DEF Answers
<1>2. \A a \in Int \cup {Bad} : turn(a) \in Int \cup {Bad}
  BY ValuesAre
<1>3. /\ o.index = [i \in Indices |-> turn(m.index[i])] /\ o.cap = [x \in Caps |-> turn(m.cap[x])]
      /\ o.spot = IF m.spot = Fails THEN Fails ELSE [i \in Investors |-> turn(m.spot[i])]
      /\ o.futures = turn(m.futures) /\ o.program = turn(m.program) /\ o.contract = m.contract
      /\ o.premarket = m.premarket /\ o.zero = m.zero /\ o.warnings = m.warnings
      /\ o.others = m.others
      /\ o.began = m.began /\ o.took = m.took
  BY DEF Opposite, Rounds
<1>4. o \in Rounds
  <2>1. [i \in Indices |-> turn(m.index[i])] \in [Indices -> Answers]
    <3>1. \A i \in Indices : turn(m.index[i]) \in Answers
      BY <1>1, FieldsAre
    <3> QED
      BY <3>1
  <2>2. [x \in Caps |-> turn(m.cap[x])] \in [Caps -> Answers]
    <3>1. \A x \in Caps : turn(m.cap[x]) \in Answers
      BY <1>1, FieldsAre
    <3> QED
      BY <3>1
  <2>3. m.spot # Fails => [i \in Investors |-> turn(m.spot[i])] \in [Investors -> Int \cup {Bad}]
    <3>1. m.spot # Fails => \A i \in Investors : m.spot[i] \in Int \cup {Bad}
      BY DEF Rounds
    <3>2. m.spot # Fails => \A i \in Investors : turn(m.spot[i]) \in Int \cup {Bad}
      BY <1>2, <3>1
    <3> QED
      BY <3>2
  <2>4. turn(m.futures) \in Answers /\ turn(m.program) \in Answers
    BY <1>1, FieldsAre
  <2> HIDE DEF turn
  <2>5. o = [m EXCEPT !.index = [i \in Indices |-> turn(m.index[i])],
              !.cap = [c \in Caps |-> turn(m.cap[c])],
              !.spot = IF m.spot = Fails THEN Fails ELSE [i \in Investors |-> turn(m.spot[i])],
              !.futures = turn(m.futures), !.program = turn(m.program)]
    BY DEF Opposite, turn
  <2>6. (IF m.spot = Fails THEN Fails ELSE [i \in Investors |-> turn(m.spot[i])])
           \in [Investors -> Int \cup {Bad}] \cup {Fails}
    BY <2>3
  <2> QED
    BY <2>1, <2>2, <2>4, <2>5, <2>6 DEF Rounds
<1>5. o.spot = Fails <=> m.spot = Fails
  <2>1. [i \in Investors |-> turn(m.spot[i])] # Fails \/ m.spot = Fails
    <3>1. m.spot # Fails => [i \in Investors |-> turn(m.spot[i])] \in [Investors -> Int \cup {Bad}]
      <4>1. m.spot # Fails => \A i \in Investors : m.spot[i] \in Int \cup {Bad}
        BY DEF Rounds
      <4>2. m.spot # Fails => \A i \in Investors : turn(m.spot[i]) \in Int \cup {Bad}
        BY <1>2, <4>1
      <4> QED
        BY <4>2
    <3> QED
      BY <3>1, ValueAssumption
  <2> QED
    BY <2>1, <1>3
<1>6. \A k \in 1 .. 9 : Placed(o)[k] = IF Placed(m)[k] = None THEN None ELSE -Placed(m)[k]
  <2> DEFINE Turn(v) == IF v = None THEN None ELSE -v
  <2>1. /\ \A i \in Indices : Value(o.index[i]) = Turn(Value(m.index[i]))
        /\ \A x \in Caps : Value(o.cap[x]) = Turn(Value(m.cap[x]))
        /\ m.spot # Fails => \A i \in Investors : Value(o.spot[i]) = Turn(Value(m.spot[i]))
        /\ Value(o.program) = Turn(Value(m.program)) /\ Value(o.futures) = Turn(Value(m.futures))
    BY <1>1, <1>3, FieldsAre
  <2> HIDE DEF turn, Turn, o
  <2>2. Turn(None) = None
    BY DEF Turn
  <2>3. /\ Placed(o)[1] = Turn(Placed(m)[1]) /\ Placed(o)[2] = Turn(Placed(m)[2])
        /\ Placed(o)[3] = Turn(Placed(m)[3]) /\ Placed(o)[4] = Turn(Placed(m)[4])
        /\ Placed(o)[5] = Turn(Placed(m)[5])
    BY <2>1 DEF Placed, Indices, Caps
  <2>4. /\ Placed(o)[6] = Turn(Placed(m)[6]) /\ Placed(o)[7] = Turn(Placed(m)[7])
        /\ Placed(o)[8] = Turn(Placed(m)[8]) /\ Placed(o)[9] = Turn(Placed(m)[9])
    BY <2>1, <2>2, <1>3, <1>5 DEF Placed, Investors
  <2> QED
    BY <2>3, <2>4 DEF Turn
<1>7. IndexErrors(o) = IndexErrors(m) /\ StockErrors(o) = StockErrors(m)
  <2>1. \A i \in Indices : o.index[i] = Fails <=> m.index[i] = Fails
    BY <1>1, <1>3, FieldsAre
  <2>2. \A x \in Caps : o.cap[x] \in {Fails, Bad} <=> m.cap[x] \in {Fails, Bad}
    BY <1>1, <1>3, FieldsAre
  <2> QED
    BY <2>1, <2>2 DEF IndexErrors, StockErrors
<1>8. SpotErrors(o) = SpotErrors(m) /\ DerivativesErrors(o) = DerivativesErrors(m)
  <2>1. (o.futures = Fails <=> m.futures = Fails) /\ (o.program = Fails <=> m.program = Fails)
    BY <1>1, <1>3, FieldsAre
  <2> QED
    BY <2>1, <1>3, <1>5 DEF SpotErrors, DerivativesErrors
<1> QED
  BY <1>3, <1>4, <1>6, <1>7, <1>8 DEF Errors

\* The sets of failed requests are finite, so no error is to have none.
LEMMA ErrorsCount ==
    ASSUME NEW m \in Rounds
    PROVE  /\ Errors(m) \in Nat
           /\ Errors(m) = 0 <=> /\ IndexErrors(m) = {} /\ StockErrors(m) = {}
                                /\ SpotErrors(m) = {} /\ DerivativesErrors(m) = {}
                                /\ m.others = 0
<1>1. IsFiniteSet(Indices) /\ IsFiniteSet(Caps) /\ IsFiniteSet({"futures", "program"}) /\ IsFiniteSet({"spot"})
  <2>1. IsFiniteSet({"KOSPI"}) /\ IsFiniteSet({"005930"}) /\ IsFiniteSet({"futures"}) /\ IsFiniteSet({"spot"})
    BY FS_Singleton
  <2>2. /\ IsFiniteSet({"KOSPI"} \cup {"KOSDAQ"}) /\ IsFiniteSet({"005930"} \cup {"000660"})
        /\ IsFiniteSet({"futures"} \cup {"program"})
    BY <2>1, FS_AddElement
  <2>3. IsFiniteSet(({"KOSPI"} \cup {"KOSDAQ"}) \cup {"KOSPI200"})
    BY <2>2, FS_AddElement
  <2>4. /\ Indices = ({"KOSPI"} \cup {"KOSDAQ"}) \cup {"KOSPI200"}
        /\ Caps = {"005930"} \cup {"000660"}
        /\ {"futures", "program"} = {"futures"} \cup {"program"}
    BY DEF Indices, Caps
  <2> QED
    BY <2>1, <2>2, <2>3, <2>4
<1>2. /\ IsFiniteSet(IndexErrors(m)) /\ IsFiniteSet(StockErrors(m))
      /\ IsFiniteSet(SpotErrors(m)) /\ IsFiniteSet(DerivativesErrors(m))
  <2>1. /\ IndexErrors(m) \subseteq Indices /\ StockErrors(m) \subseteq Caps
        /\ SpotErrors(m) \subseteq {"spot"} /\ DerivativesErrors(m) \subseteq {"futures", "program"}
    BY DEF IndexErrors, StockErrors, SpotErrors, DerivativesErrors
  <2> QED
    BY <1>1, <2>1, FS_Subset
<1>3. \A S : IsFiniteSet(S) => Cardinality(S) \in Nat /\ (Cardinality(S) = 0 <=> S = {})
  BY FS_CardinalityType, FS_EmptySet
<1>4. \A a, b, c, d, e \in Nat :
        /\ a + b + c + d + e \in Nat
        /\ a + b + c + d + e = 0 <=> a = 0 /\ b = 0 /\ c = 0 /\ d = 0 /\ e = 0
  OBVIOUS
<1>5. /\ Cardinality(IndexErrors(m)) \in Nat /\ Cardinality(StockErrors(m)) \in Nat
      /\ Cardinality(SpotErrors(m)) \in Nat /\ Cardinality(DerivativesErrors(m)) \in Nat
      /\ m.others \in Nat
  BY <1>2, <1>3, FieldsAre
<1>6. /\ Errors(m) \in Nat
      /\ Errors(m) = 0 <=> /\ Cardinality(IndexErrors(m)) = 0 /\ Cardinality(StockErrors(m)) = 0
                           /\ Cardinality(SpotErrors(m)) = 0 /\ Cardinality(DerivativesErrors(m)) = 0
                           /\ m.others = 0
  BY <1>4, <1>5 DEF Errors
<1> QED
  BY <1>2, <1>3, <1>6

\* The places that a source stands for.
PlacesOf(s) ==
    IF s = "KOSPI" THEN {1} ELSE IF s = "KOSDAQ" THEN {2} ELSE IF s = "KOSPI200" THEN {3}
    ELSE IF s = "005930" THEN {4} ELSE IF s = "000660" THEN {5} ELSE IF s = "spot" THEN {6, 7}
    ELSE IF s = "program" THEN {8} ELSE {9}

\* The round with one more failure is one, its errors are more.
LEMMA LosingIs ==
    ASSUME NEW m \in Rounds, NEW s \in Sources
    PROVE  LET l == Losing(m, s) IN
           /\ l \in Rounds
           /\ \A k \in 1 .. 9 : Placed(l)[k] = IF k \in PlacesOf(s) THEN None ELSE Placed(m)[k]
           /\ Errors(l) = 0 => Errors(m) = 0
<1> DEFINE l == Losing(m, s)
<1>1. Fails \in Answers /\ Value(Fails) = None
  BY DEF Answers, Value
<1>2. CASE s \in Indices
  <2>1. l = [m EXCEPT !.index[s] = Fails]
    BY <1>2 DEF Losing, Indices, Caps
  <2>2. l.index = [m.index EXCEPT ![s] = Fails]
    BY <2>1 DEF Rounds
  <2>3. /\ l.cap = m.cap /\ l.spot = m.spot /\ l.contract = m.contract /\ l.futures = m.futures
        /\ l.program = m.program /\ l.others = m.others
    BY <2>1 DEF Rounds
  <2>4. l \in Rounds
    BY <1>1, <1>2, <2>1 DEF Rounds
  <2>5. \A i \in Indices : l.index[i] = IF i = s THEN Fails ELSE m.index[i]
    BY <2>2, FieldsAre
  <2> HIDE DEF l
  <2>6. \A k \in 1 .. 9 : Placed(l)[k] = IF k \in PlacesOf(s) THEN None ELSE Placed(m)[k]
    BY <1>1, <1>2, <2>3, <2>5 DEF Placed, PlacesOf, Indices
  <2>7. /\ IndexErrors(m) \subseteq IndexErrors(l) /\ StockErrors(m) = StockErrors(l)
        /\ SpotErrors(m) = SpotErrors(l) /\ DerivativesErrors(m) = DerivativesErrors(l)
    BY <2>3, <2>5 DEF IndexErrors, StockErrors, SpotErrors, DerivativesErrors
  <2> QED
    BY <2>3, <2>4, <2>6, <2>7, ErrorsCount DEF l
<1>3. CASE s \in Caps
  <2>1. l = [m EXCEPT !.cap[s] = Fails]
    BY <1>3 DEF Losing, Indices, Caps
  <2>2. l.cap = [m.cap EXCEPT ![s] = Fails]
    BY <2>1 DEF Rounds
  <2>3. /\ l.index = m.index /\ l.spot = m.spot /\ l.contract = m.contract /\ l.futures = m.futures
        /\ l.program = m.program /\ l.others = m.others
    BY <2>1 DEF Rounds
  <2>4. l \in Rounds
    BY <1>1, <1>3, <2>1 DEF Rounds
  <2>5. \A i \in Caps : l.cap[i] = IF i = s THEN Fails ELSE m.cap[i]
    BY <2>2, FieldsAre
  <2> HIDE DEF l
  <2>6. \A k \in 1 .. 9 : Placed(l)[k] = IF k \in PlacesOf(s) THEN None ELSE Placed(m)[k]
    BY <1>1, <1>3, <2>3, <2>5 DEF Placed, PlacesOf, Caps
  <2>7. /\ IndexErrors(m) = IndexErrors(l) /\ StockErrors(m) \subseteq StockErrors(l)
        /\ SpotErrors(m) = SpotErrors(l) /\ DerivativesErrors(m) = DerivativesErrors(l)
    BY <2>3, <2>5 DEF IndexErrors, StockErrors, SpotErrors, DerivativesErrors
  <2> QED
    BY <2>3, <2>4, <2>6, <2>7, ErrorsCount DEF l
<1>4. CASE s = "spot"
  <2>1. l = [m EXCEPT !.spot = Fails]
    BY <1>4 DEF Losing, Indices, Caps
  <2>2. /\ l.spot = Fails /\ l.index = m.index /\ l.cap = m.cap /\ l.contract = m.contract
        /\ l.futures = m.futures /\ l.program = m.program /\ l.others = m.others
    BY <2>1 DEF Rounds
  <2>3. l \in Rounds
    BY <1>1, <2>1 DEF Rounds
  <2> HIDE DEF l
  <2>4. \A k \in 1 .. 9 : Placed(l)[k] = IF k \in PlacesOf(s) THEN None ELSE Placed(m)[k]
    BY <1>4, <2>2 DEF Placed, PlacesOf
  <2>5. SpotErrors(l) # {}
    BY <2>2 DEF SpotErrors
  <2> QED
    BY <2>2, <2>3, <2>4, <2>5, ErrorsCount DEF l
<1>5. CASE s = "program"
  <2>1. l = [m EXCEPT !.program = Fails]
    BY <1>5 DEF Losing, Indices, Caps
  <2>2. /\ l.program = Fails /\ l.index = m.index /\ l.cap = m.cap /\ l.contract = m.contract
        /\ l.futures = m.futures /\ l.spot = m.spot /\ l.others = m.others
    BY <2>1 DEF Rounds
  <2>3. l \in Rounds
    BY <1>1, <2>1 DEF Rounds
  <2> HIDE DEF l
  <2>4. \A k \in 1 .. 9 : Placed(l)[k] = IF k \in PlacesOf(s) THEN None ELSE Placed(m)[k]
    BY <1>1, <1>5, <2>2 DEF Placed, PlacesOf
  <2>5. "program" \in DerivativesErrors(l)
    BY <2>2 DEF DerivativesErrors
  <2> QED
    BY <2>2, <2>3, <2>4, <2>5, ErrorsCount DEF l
<1>6. CASE s = "futures"
  <2>1. l = [m EXCEPT !.futures = Fails]
    BY <1>6 DEF Losing, Indices, Caps
  <2>2. /\ l.futures = Fails /\ l.index = m.index /\ l.cap = m.cap /\ l.contract = m.contract
        /\ l.program = m.program /\ l.spot = m.spot /\ l.others = m.others
    BY <2>1 DEF Rounds
  <2>3. l \in Rounds
    BY <1>1, <2>1 DEF Rounds
  <2> HIDE DEF l
  <2>4. \A k \in 1 .. 9 : Placed(l)[k] = IF k \in PlacesOf(s) THEN None ELSE Placed(m)[k]
    BY <1>1, <1>6, <2>2 DEF Placed, PlacesOf
  <2>5. /\ IndexErrors(m) = IndexErrors(l) /\ StockErrors(m) = StockErrors(l)
        /\ SpotErrors(m) = SpotErrors(l) /\ DerivativesErrors(m) \subseteq DerivativesErrors(l)
    BY <2>2 DEF IndexErrors, StockErrors, SpotErrors, DerivativesErrors
  <2> QED
    BY <2>2, <2>3, <2>4, <2>5, ErrorsCount DEF l
<1> QED
  BY <1>2, <1>3, <1>4, <1>5, <1>6 DEF Sources, Indices, Caps

-----------------------------------------------------------------------------
States == {"strong_bullish", "bullish", "neutral", "bearish", "strong_bearish", "insufficient_data"}

\* What a score says, and what the opposite score says.
LEMMA StatesAre ==
    ASSUME NEW n \in Nat, NEW v \in Int
    PROVE  /\ StateOf(v, n) \in States /\ (StateOf(v, n) = "insufficient_data" <=> n < 3)
           /\ StateOf(-v, n) = Turned[StateOf(v, n)]
  BY DEF StateOf, States, Turned

\* How many components are known, and what is scored.
LEMMA KnownCount ==
    ASSUME NEW m \in Rounds
    PROVE  /\ Cardinality(Known(Components(m))) \in Nat /\ Score(Components(m)) \in Int
           /\ ScoreMarket(m).state = StateOf(Score(Components(m)), Cardinality(Known(Components(m))))
           /\ ScoreMarket(m).score = Score(Components(m))
           /\ ScoreMarket(m).confidence = ConfidenceOf(Cardinality(Known(Components(m))), Errors(m))
           /\ ScoreMarket(m).state \in States
<1>1. Components(m) \in Readings
  BY ComponentsPlaced
<1>2. Known(Components(m)) \subseteq 1 .. 9
  BY <1>1 DEF Known, Readings
<1>3. Rising(Components(m)) \subseteq 1 .. 9 /\ Falling(Components(m)) \subseteq 1 .. 9
  BY <1>2 DEF Rising, Falling
<1>4. Cardinality(Known(Components(m))) \in Nat /\ Score(Components(m)) \in Int
  BY <1>2, <1>3, PlacesFinite DEF Score
<1> QED
  BY <1>4, StatesAre DEF ScoreMarket

\* Futures flows of foreigners are known in both rounds or in none.
LEMMA FuturesKnown ==
    ASSUME NEW m \in Rounds
    PROVE  FuturesForeign(m) = Placed(m)[9]
  BY DEF FuturesForeign, Placed

\* The opposite round gets the opposite state.
LEMMA OppositeScore ==
    ASSUME NEW m \in Rounds
    PROVE  LET o == Analyze(Opposite(m), None)   same == Analyze(m, None) IN
           /\ o.score = -same.score /\ o.state = Turned[same.state]
           /\ o.confidence = same.confidence
           /\ o.state = ScoreMarket(Opposite(m)).state
<1> DEFINE o == Opposite(m)
<1>1. o \in Rounds /\ Errors(o) = Errors(m)
  BY OppositeIs
<1>2. Components(o) \in Readings /\ Components(m) \in Readings
  BY <1>1, ComponentsPlaced
<1>3. \A k \in 1 .. 9 : Components(o)[k] = IF Components(m)[k] = None THEN None ELSE -Components(m)[k]
  BY <1>1, OppositeIs, ComponentsPlaced
<1> HIDE DEF o
<1>4. Known(Components(o)) = Known(Components(m)) /\ Score(Components(o)) = -Score(Components(m))
  BY <1>2, <1>3, ScoreTurns
<1>5. /\ ScoreMarket(o).score = -ScoreMarket(m).score
      /\ ScoreMarket(o).state = Turned[ScoreMarket(m).state]
      /\ ScoreMarket(o).confidence = ScoreMarket(m).confidence
  BY <1>1, <1>4, KnownCount, StatesAre
<1>6. FuturesForeign(o) = None <=> FuturesForeign(m) = None
  <2>1. Placed(o)[9] = IF Placed(m)[9] = None THEN None ELSE -Placed(m)[9]
    BY OppositeIs DEF o
  <2>2. Placed(m)[9] \in Int \cup {None}
    BY ComponentsPlaced DEF Readings
  <2> QED
    BY <1>1, <2>1, <2>2, FuturesKnown, ValuesAre
<1>7. Lowered(ScoreMarket(o).confidence, o) = Lowered(ScoreMarket(m).confidence, m)
  BY <1>5, <1>6 DEF Lowered, FuturesInstitution
<1> QED
  BY <1>5, <1>7 DEF Analyze, o

\* A source that fails moves the score by its own direction at most, and
\* makes nothing more confident.
LEMMA LosingScore ==
    ASSUME NEW m \in Rounds, NEW s \in Sources
    PROVE  LET less == Analyze(Losing(m, s), None)   all == Analyze(m, None) IN
           /\ Size(less.score - all.score) <= (IF s = "spot" THEN 2 ELSE 1)
           /\ Confident[less.confidence] <= Confident[all.confidence]
<1> DEFINE l == Losing(m, s)
           n == IF s = "spot" THEN 2 ELSE 1
           few == Cardinality(Known(Components(l)))
           many == Cardinality(Known(Components(m)))
<1>1. l \in Rounds /\ (Errors(l) = 0 => Errors(m) = 0)
  BY LosingIs
<1>2. \A k \in 1 .. 9 : Components(l)[k] = IF k \in PlacesOf(s) THEN None ELSE Components(m)[k]
  BY <1>1, LosingIs, ComponentsPlaced
<1>3. PlacesOf(s) \in SUBSET (1 .. 9) /\ Cardinality(PlacesOf(s)) <= n
  <2>1. \A x : Cardinality({x}) = 1
    BY FS_Singleton
  <2>2. Cardinality({6, 7}) = 2
    <3>1. 6 # 7
      OBVIOUS
    <3> QED
      BY ONLY <3>1, TwoElements
  <2>3. s = "spot" => PlacesOf(s) = {6, 7}
    BY DEF PlacesOf
  <2>4. s = "spot" => Cardinality(PlacesOf(s)) = 2
    BY <2>2, <2>3
  <2>5. s # "spot" => Cardinality(PlacesOf(s)) = 1
    <3>1. s # "spot" => \E x \in 1 .. 9 : PlacesOf(s) = {x}
      BY DEF PlacesOf
    <3> QED
      BY <2>1, <3>1
  <2> QED
    BY <2>4, <2>5 DEF PlacesOf
<1>4. n \in Nat /\ Components(l) \in Readings /\ Components(m) \in Readings
  BY <1>1, ComponentsPlaced
<1> HIDE DEF l, n
<1>5. /\ Score(Components(l)) - Score(Components(m)) <= n
      /\ Score(Components(m)) - Score(Components(l)) <= n
      /\ few <= many
  BY <1>2, <1>3, <1>4, ScoreLoses
<1>6. /\ ScoreMarket(l).score = Score(Components(l)) /\ ScoreMarket(m).score = Score(Components(m))
      /\ Score(Components(l)) \in Int /\ Score(Components(m)) \in Int
      /\ few \in Nat /\ many \in Nat
      /\ ScoreMarket(l).confidence = ConfidenceOf(few, Errors(l))
      /\ ScoreMarket(m).confidence = ConfidenceOf(many, Errors(m))
  BY <1>1, KnownCount
<1> HIDE DEF few, many
<1>7. Size(ScoreMarket(l).score - ScoreMarket(m).score) <= n
  BY <1>4, <1>5, <1>6 DEF Size
<1>8. FuturesForeign(l) # None => FuturesForeign(m) # None
  <2>1. Placed(l)[9] = IF 9 \in PlacesOf(s) THEN None ELSE Placed(m)[9]
    BY LosingIs DEF l
  <2> QED
    BY <1>1, <2>1, FuturesKnown
<1>9. Confident[Lowered(ConfidenceOf(few, Errors(l)), l)] <= Confident[Lowered(ConfidenceOf(many, Errors(m)), m)]
  <2>1. ConfidenceOf(few, Errors(l)) \in {"low", "medium", "high"} /\ ConfidenceOf(many, Errors(m)) \in {"low", "medium", "high"}
    BY DEF ConfidenceOf
  <2>2. ConfidenceOf(few, Errors(l)) = "high" => ConfidenceOf(many, Errors(m)) = "high"
    BY <1>1, <1>5, <1>6 DEF ConfidenceOf
  <2>3. ConfidenceOf(few, Errors(l)) = "medium" => ConfidenceOf(many, Errors(m)) # "low"
    BY <1>1, <1>5, <1>6 DEF ConfidenceOf
  <2> DEFINE cl == ConfidenceOf(few, Errors(l))
             cm == ConfidenceOf(many, Errors(m))
  <2> HIDE DEF cl, cm
  <2>4. Confident[Lowered(cl, l)] <= Confident[Lowered(cm, m)]
    BY <1>8, <2>1, <2>2, <2>3 DEF cl, cm, Lowered, FuturesInstitution, Confident
  <2> QED
    BY <2>4 DEF cl, cm
<1> QED
  BY <1>6, <1>7, <1>9 DEF Analyze, l, n

-----------------------------------------------------------------------------
\* A result that is fit to be judged has three components and more.
LEMMA FitIsKnown ==
    ASSUME NEW m \in Rounds, Judgeable(m), m.premarket
    PROVE  /\ ScoreMarket(m).state # "insufficient_data"
           /\ MarketDecision(m).state # "insufficient_data"
<1> DEFINE c == Placed(m)
<1>1. c \in Readings /\ Components(m) = c /\ Rates(m) = [k \in 1 .. 5 |-> c[k]]
  BY ComponentsPlaced
<1>2. c[1] # None /\ c[2] # None /\ c[4] # None /\ c[5] # None
  <2>1. (\A i \in {"KOSPI", "KOSDAQ"} : IndexRates(m)[i] # None) /\ \A x \in Caps : StockRates(m)[x] # None
    BY DEF Judgeable, Quality
  <2>2. /\ c[1] = IndexRates(m)["KOSPI"] /\ c[2] = IndexRates(m)["KOSDAQ"]
        /\ c[4] = StockRates(m)["005930"] /\ c[5] = StockRates(m)["000660"]
    BY DEF Placed, IndexRates, StockRates, Indices, Caps
  <2>3. "KOSPI" \in {"KOSPI", "KOSDAQ"} /\ "KOSDAQ" \in {"KOSPI", "KOSDAQ"} /\ "005930" \in Caps /\ "000660" \in Caps
    BY DEF Caps
  <2> HIDE DEF c
  <2> QED
    BY <2>1, <2>2, <2>3
<1> HIDE DEF c
<1>3. {1, 2, 4} \subseteq Known(c) /\ Known(c) \subseteq 1 .. 9
  BY <1>1, <1>2 DEF Known, Readings
<1>4. {1, 2, 4} \subseteq Known(Rates(m)) /\ Known(Rates(m)) \subseteq 1 .. 9
  BY <1>1, <1>2 DEF Known
<1>5. Cardinality({1, 2, 4}) = 3
  <2>1. 1 # 2 /\ 1 # 4 /\ 2 # 4
    OBVIOUS
  <2> QED
    BY ONLY <2>1, ThreeElements
<1>6. ASSUME NEW A, {1, 2, 4} \subseteq A, A \subseteq 1 .. 9
      PROVE  Cardinality(A) \in Nat /\ Cardinality(A) >= 3
  <2>1. IsFiniteSet(A) /\ Cardinality(A) \in Nat
    BY <1>6, PlacesFinite
  <2>2. Cardinality({1, 2, 4}) <= Cardinality(A)
    BY <1>6, <2>1, FS_Subset
  <2> QED
    BY <1>5, <2>1, <2>2
<1>7. Cardinality(Known(c)) >= 3 /\ Cardinality(Known(c)) \in Nat
  BY <1>3, <1>6
<1>8. Cardinality(Known(Rates(m))) >= 3 /\ Cardinality(Known(Rates(m))) \in Nat
  BY <1>4, <1>6
<1>9. ScoreMarket(m).state # "insufficient_data"
  BY <1>1, <1>7, KnownCount, StatesAre
<1>10. ~(Cardinality(Known(Rates(m))) < 2)
  BY <1>8
<1>11. MarketDecision(m).state # "insufficient_data"
  BY <1>10 DEF MarketDecision
<1> QED
  BY <1>9, <1>11

\* What is decided is a decision, which None is not.
LEMMA Decided ==
    ASSUME NEW m \in Rounds
    PROVE  MarketDecision(m) # None
<1> DEFINE noted == Errors(m) + m.warnings
           n == Cardinality(Known(Rates(m)))
           positive == Cardinality(Rising(Rates(m)))
           negative == Cardinality(Falling(Rates(m)))
           flows == Cardinality(Known(Flows(m)))
<1>1. noted \in Nat
  BY ErrorsCount, FieldsAre
<1>2. n \in Nat /\ positive \in Nat /\ negative \in Nat
  <2>1. DOMAIN Rates(m) \subseteq 1 .. 9
    BY ComponentsPlaced
  <2>2. /\ Known(Rates(m)) \subseteq 1 .. 9 /\ Rising(Rates(m)) \subseteq 1 .. 9
        /\ Falling(Rates(m)) \subseteq 1 .. 9
    BY <2>1 DEF Known, Rising, Falling
  <2> QED
    BY <2>2, PlacesFinite
<1>3. flows \in Nat
  <2>1. Known(Flows(m)) \subseteq 1 .. 9
    <3>1. DOMAIN Flows(m) = 1 .. 4
      BY DEF Flows
    <3> QED
      BY <3>1 DEF Known
  <2> QED
    BY <2>1, PlacesFinite
<1>4. ASSUME NEW S, S \subseteq {"spot and futures", "weak flows", "weak index"}
      PROVE  Cardinality(S) \in Nat
  <2>1. IsFiniteSet({"spot and futures"} \cup {"weak flows"})
    BY FS_Singleton, FS_AddElement
  <2>2. IsFiniteSet(({"spot and futures"} \cup {"weak flows"}) \cup {"weak index"})
    BY <2>1, FS_AddElement
  <2>3. S \subseteq ({"spot and futures"} \cup {"weak flows"}) \cup {"weak index"}
    BY <1>4
  <2> QED
    BY <2>2, <2>3, FS_Subset, FS_CardinalityType
<1>5. ASSUME NEW c \in Nat, NEW a \in Nat, n # 0
      PROVE  Between(15, 95, Rounded(9 * n * (35 - 12 * c - 3 * noted) + 315 * a + 25 * n * (n + flows), 9 * n)) \in Int
  <2>1. 9 * n * (35 - 12 * c - 3 * noted) + 315 * a + 25 * n * (n + flows) \in Int
    BY <1>1, <1>2, <1>3
  <2>2. 9 * n \in Nat \ {0}
    BY <1>2, <1>5
  <2>3. \A x \in Int, y \in Nat \ {0} : Rounded(x, y) \in Int
    BY DEF Rounded
  <2>4. \A x \in Int : Between(15, 95, x) \in Int
    BY DEF Between
  <2> QED
    BY <2>1, <2>2, <2>3, <2>4
<1> DEFINE Sum == Total(Rates(m))
           conflicts == {c \in {"spot and futures", "weak flows", "weak index"} :
            \/ /\ c = "spot and futures" /\ Spot(m, "foreigner") # None /\ FuturesForeign(m) # None
               /\ Spot(m, "foreigner") * FuturesForeign(m) < 0
            \/ c = "weak flows" /\ Sum > 0 /\ Known(Flows(m)) # {} /\ Total(Flows(m)) < 0
            \/ c = "weak index" /\ Sum < 0 /\ Known(Flows(m)) # {} /\ Total(Flows(m)) > 0}
           agreeing == IF positive > negative THEN positive ELSE negative
           confidence == Between(15, 95, Rounded(9 * n * (35 - 12 * Cardinality(conflicts) - 3 * noted)
                           + 315 * agreeing + 25 * n * (n + flows), 9 * n))
<1>6. n # 0 => confidence \in Int
  <2>1. Cardinality(conflicts) \in Nat
    BY <1>4
  <2>2. agreeing \in Nat
    BY <1>2
  <2> HIDE DEF conflicts, agreeing, n, noted, flows
  <2> QED
    BY <1>5, <2>1, <2>2
<1>7. n < 2 => MarketDecision(m) = [state |-> "insufficient_data", risk |-> "high",
                 confidence |-> IF 35 - 5 * noted > 10 THEN 35 - 5 * noted ELSE 10]
  BY DEF MarketDecision
<1>8. ~(n < 2) => /\ MarketDecision(m) = [state |-> MarketDecision(m).state, risk |-> MarketDecision(m).risk,
                                         confidence |-> confidence]
                  /\ MarketDecision(m).state \in
                       {"capitulation", "strong_decline", "weak_decline", "strong_uptrend",
                        "gradual_uptrend", "mixed", "technical_rebound", "directionless"}
                  /\ MarketDecision(m).risk \in {"high", "medium", "low"}
  <2> SUFFICES ASSUME ~(n < 2)
               PROVE  /\ MarketDecision(m) = [state |-> MarketDecision(m).state, risk |-> MarketDecision(m).risk,
                                              confidence |-> confidence]
                      /\ MarketDecision(m).state \in
                           {"capitulation", "strong_decline", "weak_decline", "strong_uptrend",
                            "gradual_uptrend", "mixed", "technical_rebound", "directionless"}
                      /\ MarketDecision(m).risk \in {"high", "medium", "low"}
    OBVIOUS
  <2>1. MarketDecision(m) = [state |-> MarketDecision(m).state, risk |-> MarketDecision(m).risk,
                             confidence |-> confidence]
    BY DEF MarketDecision
  <2>2. MarketDecision(m).state \in
          {"capitulation", "strong_decline", "weak_decline", "strong_uptrend",
           "gradual_uptrend", "mixed", "technical_rebound", "directionless"}
    BY DEF MarketDecision
  <2>3. MarketDecision(m).risk \in {"high", "medium", "low"}
    BY DEF MarketDecision
  <2> QED
    BY <2>1, <2>2, <2>3
<1> HIDE DEF noted, n, confidence
<1>9. MarketDecision(m) \in Decisions
  <2>1. CASE n < 2
    BY <1>1, <1>7, <2>1 DEF Decisions
  <2>2. CASE ~(n < 2)
    <3>1. n # 0
      BY <1>2, <2>2
    <3> QED
      BY <1>6, <1>8, <2>2, <3>1 DEF Decisions
  <2> QED
    BY <2>1, <2>2
<1> QED
  BY <1>9, ValueAssumption

\* The state that a briefing carries is the one that is kept.
LEMMA BriefingState ==
    ASSUME NEW m \in Rounds
    PROVE  Briefing(m, None).analysis.state = StoredState(m) /\ StoredState(m) \in States
<1>1. ScoreMarket(m).state \in States
  BY KnownCount
<1> QED
  BY <1>1 DEF Briefing, StoredState, Judgeable, Analyze, Unavailable, States

\* The opposite round is as fit to be judged.
LEMMA OppositeFit ==
    ASSUME NEW m \in Rounds
    PROVE  Judgeable(Opposite(m)) <=> Judgeable(m)
<1> DEFINE o == Opposite(m)
<1>1. o \in Rounds
  BY OppositeIs
<1>2. \A k \in 1 .. 9 : Placed(o)[k] = IF Placed(m)[k] = None THEN None ELSE -Placed(m)[k]
  BY OppositeIs
<1>3. \A k \in 1 .. 9 : Placed(m)[k] \in Int \cup {None}
  BY ComponentsPlaced DEF Readings
<1>4. /\ o.premarket = m.premarket /\ o.zero = m.zero /\ o.began = m.began /\ o.took = m.took
      /\ o.spot = IF m.spot = Fails THEN Fails
                  ELSE [i \in Investors |-> IF m.spot[i] \in {Fails, Bad} THEN m.spot[i] ELSE -m.spot[i]]
  BY DEF Opposite, Rounds
<1> HIDE DEF o
<1>5. \A k \in 1 .. 9 : /\ Placed(o)[k] = None <=> Placed(m)[k] = None
                        /\ Placed(o)[k] \in {0, None} <=> Placed(m)[k] \in {0, None}
  BY <1>2, <1>3, ValuesAre
<1>6. ZeroSnapshot(o) <=> ZeroSnapshot(m)
  <2>1. Rates(o) = [k \in 1 .. 5 |-> Placed(o)[k]] /\ Rates(m) = [k \in 1 .. 5 |-> Placed(m)[k]]
    BY <1>1, ComponentsPlaced
  <2> QED
    BY <1>4, <1>5, <2>1 DEF ZeroSnapshot
<1>7. Consistent(o) <=> Consistent(m)
  BY <1>4 DEF Consistent
<1>8. /\ \A i \in {"KOSPI", "KOSDAQ"} : IndexRates(o)[i] = None <=> IndexRates(m)[i] = None
      /\ \A c \in Caps : StockRates(o)[c] = None <=> StockRates(m)[c] = None
  <2>1. /\ \A i \in {"KOSPI", "KOSDAQ"} : \E k \in 1 .. 9 :
             IndexRates(o)[i] = Placed(o)[k] /\ IndexRates(m)[i] = Placed(m)[k]
        /\ \A c \in Caps : \E k \in 1 .. 9 : StockRates(o)[c] = Placed(o)[k] /\ StockRates(m)[c] = Placed(m)[k]
    <3>1. \A r : /\ IndexRates(r)["KOSPI"] = Placed(r)[1] /\ IndexRates(r)["KOSDAQ"] = Placed(r)[2]
                 /\ StockRates(r)["005930"] = Placed(r)[4] /\ StockRates(r)["000660"] = Placed(r)[5]
      BY DEF IndexRates, StockRates, Placed, Indices, Caps
    <3> QED
      BY <3>1 DEF Caps
  <2> QED
    BY <1>5, <2>1
<1>9. FlowUsable(o) <=> FlowUsable(m)
  <2>1. CASE m.spot = Fails
    BY <1>4, <2>1 DEF FlowUsable, SpotFlows
  <2>2. CASE m.spot # Fails
    <3>1. m.spot \in [Investors -> Int \cup {Bad}]
      BY <2>2 DEF Rounds
    <3>2. o.spot # Fails
      <4>1. o.spot \in [Investors -> Int \cup {Bad}]
        <5>1. \A i \in Investors : (IF m.spot[i] \in {Fails, Bad} THEN m.spot[i] ELSE -m.spot[i]) \in Int \cup {Bad}
          BY <3>1, ValuesAre
        <5> QED
          BY <1>4, <2>2, <5>1
      <4> QED
        BY <4>1, ValueAssumption
    <3>3. \A i \in Investors : /\ Value(o.spot[i]) = None <=> Value(m.spot[i]) = None
                               /\ Value(o.spot[i]) = 0 <=> Value(m.spot[i]) = 0
      <4>1. \A i \in Investors : o.spot[i] = IF m.spot[i] = Bad THEN Bad ELSE -m.spot[i]
        BY <1>4, <2>2, <3>1, ValuesAre
      <4>2. ASSUME NEW i \in Investors
            PROVE  /\ Value(o.spot[i]) = None <=> Value(m.spot[i]) = None
                   /\ Value(o.spot[i]) = 0 <=> Value(m.spot[i]) = 0
        <5>1. CASE m.spot[i] = Bad
          BY <4>1, <5>1
        <5>2. CASE m.spot[i] # Bad
          <6>1. m.spot[i] \in Int /\ o.spot[i] = -m.spot[i] /\ o.spot[i] \in Int
            BY <3>1, <4>1, <5>2
          <6>2. Value(m.spot[i]) = m.spot[i] /\ Value(o.spot[i]) = o.spot[i]
            BY <6>1, ValuesAre DEF Answers
          <6> QED
            BY <6>1, <6>2, ValuesAre
        <5> QED
          BY <5>1, <5>2
      <4> QED
        BY <4>2
    <3>4. /\ SpotFlows(o) = [i \in Investors |-> Value(o.spot[i])]
          /\ SpotFlows(m) = [i \in Investors |-> Value(m.spot[i])]
      BY <2>2, <3>2 DEF SpotFlows
    <3> QED
      BY <3>3, <3>4 DEF FlowUsable
  <2> QED
    BY <2>1, <2>2
<1> QED
  BY <1>4, <1>6, <1>7, <1>8, <1>9 DEF Judgeable, Quality, o

\* The opposite day gets the same verdict, and the verdict tells whether the
\* state has changed.
LEMMA VerdictsAre ==
    ASSUME NEW a \in States, NEW b \in States, NEW early
    PROVE  LET v == StateEvaluation(a, b, early) IN
           /\ v = StateEvaluation(Turned[a], Turned[b], early)
           /\ v = "no data" <=> "insufficient_data" \in {a, b}
           /\ v \in {"hit", "flat"} <=> a = b /\ a # "insufficient_data"
<1>1. DOMAIN StateScore = States \ {"insufficient_data"}
  BY DEF StateScore, States
<1>2. \A s \in States : /\ Turned[s] \in States
                        /\ Turned[s] = "insufficient_data" <=> s = "insufficient_data"
  BY DEF Turned, States
<1>3. \A s \in States \ {"insufficient_data"} :
        StateScore[s] \in -2 .. 2 /\ StateScore[Turned[s]] = -StateScore[s]
  BY DEF StateScore, States, Turned
<1>4. \A s, t \in States \ {"insufficient_data"} : StateScore[s] = StateScore[t] => s = t
  BY DEF StateScore, States
<1>5. CASE "insufficient_data" \in {a, b}
  BY <1>1, <1>2, <1>5 DEF StateEvaluation
<1>6. CASE "insufficient_data" \notin {a, b}
  <2> DEFINE x == StateScore[a]
             y == StateScore[b]
  <2>1. x \in -2 .. 2 /\ y \in -2 .. 2 /\ StateScore[Turned[a]] = -x /\ StateScore[Turned[b]] = -y
    BY <1>3, <1>6
  <2>2. {a, b, Turned[a], Turned[b]} \subseteq DOMAIN StateScore
    BY <1>1, <1>2, <1>6
  <2>3. x = y <=> a = b
    BY <1>4, <1>6
  <2> DEFINE Said(now, before) ==
               LET step == IF now > before THEN now - before ELSE before - now
                   size(v) == IF v < 0 THEN -v ELSE v
               IN IF early
                  THEN IF step = 0 THEN "hit" ELSE IF now * before < 0 THEN "turned"
                       ELSE IF step = 1 THEN "partly" ELSE "missed"
                  ELSE IF step = 0 THEN "flat" ELSE IF now * before < 0 THEN "reversed"
                       ELSE IF size(now) > size(before) THEN "stronger" ELSE "weaker"
  <2>4. StateEvaluation(a, b, early) = Said(y, x) /\ StateEvaluation(Turned[a], Turned[b], early) = Said(-y, -x)
    BY <2>1, <2>2 DEF StateEvaluation
  <2> HIDE DEF x, y
  <2>5. y * x = (-y) * (-x)
    BY <2>1
  <2>6. Said(y, x) = Said(-y, -x)
    BY <2>1, <2>5
  <2>7. Said(y, x) # "no data" /\ (Said(y, x) \in {"hit", "flat"} <=> x = y)
    BY <2>1
  <2> QED
    BY <1>6, <2>3, <2>4, <2>6, <2>7
<1> QED
  BY <1>5, <1>6

\* A briefing of any round says of the market what its data carry.
LEMMA RoundJudged ==
    ASSUME NEW m \in Rounds, NEW b, b = Briefing(m, None)
    PROVE  LET a == b.analysis IN
           /\ m.premarket => /\ b.status = "completed" => a.state # "insufficient_data"
                             /\ a.decision # None => /\ a.state # "insufficient_data"
                                                     /\ a.decision.state # "insufficient_data"
                             /\ a.decision = None => a.signals = {} /\ a.score = None
<1> SUFFICES ASSUME m.premarket
             PROVE  LET a == b.analysis IN
                    /\ b.status = "completed" => a.state # "insufficient_data"
                    /\ a.decision # None => /\ a.state # "insufficient_data"
                                            /\ a.decision.state # "insufficient_data"
                    /\ a.decision = None => a.signals = {} /\ a.score = None
  OBVIOUS
<1>1. b = [status |-> Quality(m).status, analysis |-> IF Judgeable(m) THEN Analyze(m, None) ELSE Unavailable]
  BY DEF Briefing
<1>2. CASE Judgeable(m)
  <2>1. b.analysis = Analyze(m, None)
    BY <1>1, <1>2
  <2>2. b.analysis.state = ScoreMarket(m).state /\ b.analysis.decision = MarketDecision(m)
    BY <2>1 DEF Analyze
  <2>3. ScoreMarket(m).state # "insufficient_data" /\ MarketDecision(m).state # "insufficient_data"
    BY <1>2, FitIsKnown
  <2>4. MarketDecision(m) # None
    BY Decided
  <2> QED
    BY <2>2, <2>3, <2>4
<1>3. CASE ~Judgeable(m)
  <2>1. b.analysis = Unavailable
    BY <1>1, <1>3
  <2>2. b.status # "completed"
    <3>1. ~Quality(m).allowed
      BY <1>3 DEF Judgeable
    <3>2. Quality(m).status = "completed" => Quality(m).allowed
      BY DEF Quality
    <3> QED
      BY <1>1, <3>1, <3>2
  <2> QED
    BY <2>1, <2>2 DEF Unavailable
<1> QED
  BY <1>2, <1>3

\* What a market close owes to its round and what came before it.
FairClose(p, v) ==
    /\ p.before \in {None, Bad} => v.verdict = "no data" /\ v.changes = <<>>
    /\ p.before \notin {None, Bad} =>
         LET states == {Briefing(p.now, None).analysis.state, Briefing(p.before, None).analysis.state} IN
         /\ v.verdict = CloseEvaluation(Opposite(p.now), Opposite(p.before), p.premarket).verdict
         /\ "insufficient_data" \in states <=> v.verdict = "no data"
         /\ Cardinality(states) = 1 <=> v.verdict \in {"hit", "flat"}
              \/ states = {"insufficient_data"}
         /\ \A i \in Indices : v.changes[i] = None
                                 <=> None \in {IndexRates(p.now)[i], IndexRates(p.before)[i]}

\* A market close is fair to any round.
LEMMA CloseJudged ==
    ASSUME NEW p, p.now \in Rounds, p.before \in Rounds \cup {None, Bad}, p.premarket \in BOOLEAN,
           NEW v, v = CloseEvaluation(p.now, SameDayResult(p.before), p.premarket)
    PROVE  FairClose(p, v)
<1>1. p.before \in {None, Bad} => v.verdict = "no data" /\ v.changes = <<>>
  BY DEF SameDayResult, CloseEvaluation
<1>2. ASSUME p.before \notin {None, Bad}
      PROVE  LET states == {Briefing(p.now, None).analysis.state, Briefing(p.before, None).analysis.state} IN
             /\ v.verdict = CloseEvaluation(Opposite(p.now), Opposite(p.before), p.premarket).verdict
             /\ "insufficient_data" \in states <=> v.verdict = "no data"
             /\ Cardinality(states) = 1 <=> v.verdict \in {"hit", "flat"}
                  \/ states = {"insufficient_data"}
             /\ \A i \in Indices : v.changes[i] = None
                                     <=> None \in {IndexRates(p.now)[i], IndexRates(p.before)[i]}
  <2> DEFINE now == p.now
             before == p.before
             x == StoredState(before)
             y == StoredState(now)
  <2>1. now \in Rounds /\ before \in Rounds /\ before # None /\ before # Bad
    BY <1>2
  <2>2. v = CloseEvaluation(now, before, p.premarket)
    BY <2>1 DEF SameDayResult
  <2> HIDE DEF now, before
  <2>3. /\ v.verdict = StateEvaluation(x, y, p.premarket)
        /\ v.changes = Changes(IndexRates(now), IndexRates(before))
    <3>1. v = [available |-> TRUE, verdict |-> StateEvaluation(x, y, p.premarket),
               changes |-> Changes(IndexRates(now), IndexRates(before))]
      BY <2>1, <2>2 DEF CloseEvaluation
    <3> QED
      BY <3>1
  <2>4. Opposite(before) \in Rounds /\ Opposite(before) # None
    <3>1. Opposite(before) \in Rounds
      BY <2>1, OppositeIs
    <3> QED
      BY <3>1, ValueAssumption
  <2>5. CloseEvaluation(Opposite(now), Opposite(before), p.premarket).verdict =
          StateEvaluation(StoredState(Opposite(before)), StoredState(Opposite(now)), p.premarket)
    BY <2>4 DEF CloseEvaluation
  <2>6. ASSUME NEW m \in Rounds
        PROVE  StoredState(Opposite(m)) = Turned[StoredState(m)]
    <3>1. Judgeable(Opposite(m)) <=> Judgeable(m)
      BY OppositeFit
    <3>2. ScoreMarket(Opposite(m)).state = Turned[ScoreMarket(m).state]
      <4>1. ScoreMarket(Opposite(m)).state = Analyze(Opposite(m), None).state
        BY OppositeScore
      <4>2. Analyze(m, None).state = ScoreMarket(m).state
        BY DEF Analyze
      <4> QED
        BY <4>1, <4>2, OppositeScore
    <3> QED
      BY <3>1, <3>2 DEF StoredState, Turned
  <2>7. x \in States /\ y \in States
    BY <2>1, BriefingState
  <2>8. {Briefing(now, None).analysis.state, Briefing(before, None).analysis.state} = {y, x}
    BY <2>1, BriefingState
  <2>9. StoredState(Opposite(before)) = Turned[x] /\ StoredState(Opposite(now)) = Turned[y]
    BY <2>1, <2>6
  <2> HIDE DEF x, y
  <2>10. /\ v.verdict = StateEvaluation(Turned[x], Turned[y], p.premarket)
         /\ v.verdict = "no data" <=> "insufficient_data" \in {x, y}
         /\ v.verdict \in {"hit", "flat"} <=> x = y /\ x # "insufficient_data"
    <3>1. /\ StateEvaluation(x, y, p.premarket) = StateEvaluation(Turned[x], Turned[y], p.premarket)
          /\ StateEvaluation(x, y, p.premarket) = "no data" <=> "insufficient_data" \in {x, y}
          /\ StateEvaluation(x, y, p.premarket) \in {"hit", "flat"} <=> x = y /\ x # "insufficient_data"
      BY <2>7, VerdictsAre
    <3> QED
      BY <2>3, <3>1
  <2>11. Cardinality({y, x}) = 1 <=> x = y
    <3>1. Cardinality({x}) = 1
      BY FS_Singleton
    <3>2. x # y => Cardinality({x, y}) = 2
      BY ONLY TwoElements
    <3>3. {y, x} = {x, y} /\ (x = y => {y, x} = {x})
      OBVIOUS
    <3> QED
      BY <3>1, <3>2, <3>3
  <2>12. ASSUME NEW i \in Indices
         PROVE  v.changes[i] = None <=> None \in {IndexRates(now)[i], IndexRates(before)[i]}
    <3>1. v.changes[i] = IF IndexRates(now)[i] # None /\ IndexRates(before)[i] # None
                         THEN IndexRates(now)[i] - IndexRates(before)[i] ELSE None
      BY <2>3 DEF Changes, IndexRates
    <3>2. IndexRates(now)[i] \in Int \cup {None} /\ IndexRates(before)[i] \in Int \cup {None}
      BY <2>1, FieldsAre, ValuesAre DEF IndexRates
    <3>3. IndexRates(now)[i] \in Int /\ IndexRates(before)[i] \in Int =>
            IndexRates(now)[i] - IndexRates(before)[i] \in Int
      OBVIOUS
    <3> QED
      BY <3>1, <3>2, <3>3, ValuesAre
  <2>13. /\ v.verdict = CloseEvaluation(Opposite(now), Opposite(before), p.premarket).verdict
         /\ "insufficient_data" \in {y, x} <=> v.verdict = "no data"
         /\ Cardinality({y, x}) = 1 <=> v.verdict \in {"hit", "flat"} \/ {y, x} = {"insufficient_data"}
    BY <2>5, <2>9, <2>10, <2>11
  <2>14. /\ v.verdict = CloseEvaluation(Opposite(p.now), Opposite(p.before), p.premarket).verdict
         /\ {Briefing(p.now, None).analysis.state, Briefing(p.before, None).analysis.state} = {y, x}
         /\ \A i \in Indices : v.changes[i] = None
                                 <=> None \in {IndexRates(p.now)[i], IndexRates(p.before)[i]}
    BY <2>8, <2>12, <2>13 DEF now, before
  <2> QED
    BY <2>13, <2>14
<1> QED
  BY <1>1, <1>2 DEF FairClose

-----------------------------------------------------------------------------
(***************************************************************************)
(* Positions and advice.                                                   *)
(***************************************************************************)

\* What an advice says of a technical state.
LEMMA AdviceCautious ==
    ASSUME NEW t, t.ma60 # None => None \notin {t.ma5, t.ma20, t.low},
           NEW a, a = Advice(t, t.market)
    PROVE  /\ a.review \in {"averaging_down_candidate", "add_on_strength_candidate"} =>
                t.profit > 0 /\ t.price > t.ma20 /\ ~Breached(t)
           /\ (t.bars /\ t.ma60 # None /\ (Breached(t) \/ t.price < t.low)) => a.priority = 1
           /\ (t.bars /\ TrendState(t) = "strong_downtrend") => a.priority <= 3
<1> DEFINE action == IF t.bars THEN ActionFor(ReviewState(t), TrendState(t), BottomState(t))
                     ELSE "insufficient_data"
<1>1. /\ a.priority = Priority[action]
      /\ a.review = IF t.bars THEN ReviewState(t) ELSE "insufficient_data"
  BY DEF Advice
<1>2. ReviewState(t) # "averaging_down_candidate"
  BY DEF ReviewState
<1>3. ReviewState(t) = "add_on_strength_candidate" => t.profit > 0 /\ t.price > t.ma20 /\ ~Breached(t)
  BY DEF ReviewState
<1>4. ASSUME t.bars, t.ma60 # None, Breached(t) \/ t.price < t.low
      PROVE  action = "exit_condition_check"
  <2>1. TrendState(t) # "insufficient_data"
    BY <1>4 DEF TrendState
  <2>2. Breached(t) \/ BottomState(t) = "failed"
    BY <1>4 DEF BottomState
  <2>3. ReviewState(t) = "exit_review"
    BY <2>2 DEF ReviewState
  <2> QED
    BY <1>4, <2>1, <2>3 DEF ActionFor
<1>5. ASSUME t.bars, TrendState(t) = "strong_downtrend"
      PROVE  action \in {"exit_condition_check", "do_not_add"}
  BY <1>5 DEF ActionFor
<1>6. Priority["exit_condition_check"] = 1 /\ Priority["do_not_add"] = 3
  BY DEF Priority
<1> HIDE DEF action
<1> QED
  BY <1>1, <1>2, <1>3, <1>4, <1>5, <1>6

\* No position is lost.
Accounted(h, r) ==
    LET of(c) == {p \in r.found : p.code = c}
    IN /\ \A c \in Stocks : Cardinality(of(c)) <= 1 /\ (of(c) # {} => c \notin r.missing)
       /\ \A a \in DOMAIN Answered(h) : Answered(h)[a] = Fails => <<"account", a>> \in r.unread
       /\ r.source = "kiwoom_accounts" =>
            \A c \in Stocks : DOMAIN Shares(h, c) # {} =>
                c \in r.missing \/ \E p \in of(c) : p.quantity = SumOf(Shares(h, c))
       /\ r.source # "kiwoom_accounts" =>
            /\ \A a \in DOMAIN Answered(h) : Answered(h)[a] = Fails
            /\ \A k \in DOMAIN h.file :
                 \/ h.file[k].code \in {p.code : p \in r.found} \cup r.missing
                 \/ <<"row", k>> \in r.unread

\* The positions of any accounts and any file.
LEMMA AllAccounted ==
    ASSUME NEW h, h.file \in Seq([code : Stocks, quantity : Int, average : Int]),
           NEW r, r = Positions(h)
    PROVE  Accounted(h, r)
<1> DEFINE named == IF FromAccounts(h) THEN DOMAIN Consolidated(h)
                    ELSE {h.file[k].code : k \in Accepted(h)}
<1>1. /\ r.found = IF FromAccounts(h) THEN AccountPositions(h) ELSE FilePositions(h)
      /\ r.missing = named \ {p.code : p \in r.found}
      /\ r.unread = AccountErrors(h) \cup (IF FromAccounts(h) THEN {} ELSE FileErrors(h))
      /\ r.source = "kiwoom_accounts" <=> FromAccounts(h)
  BY DEF Positions
<1>2. \A p, q \in r.found : p.code = q.code => p = q
  <2>1. \A p, q \in AccountPositions(h) : p.code = q.code => p = q
    BY DEF AccountPositions
  <2>2. ASSUME NEW j \in Accepted(h), NEW k \in Accepted(h), h.file[j].code = h.file[k].code
        PROVE  j = k
    <3>1. j \in Nat /\ k \in Nat /\ j >= 1 /\ k >= 1
      BY DEF Accepted
    <3>2. j \notin 1 .. k - 1 /\ k \notin 1 .. j - 1
      BY <2>2 DEF Accepted
    <3> QED
      BY <3>1, <3>2
  <2>3. \A p \in FilePositions(h) : \E k \in Accepted(h) :
          p = [code |-> h.file[k].code, quantity |-> h.file[k].quantity,
               invested |-> h.file[k].quantity * h.file[k].average]
    BY DEF FilePositions
  <2>4. \A p, q \in FilePositions(h) : p.code = q.code => p = q
    BY <2>2, <2>3
  <2> QED
    BY <1>1, <2>1, <2>4
<1>3. ASSUME NEW c \in Stocks
      PROVE  /\ Cardinality({p \in r.found : p.code = c}) <= 1
             /\ {p \in r.found : p.code = c} # {} => c \notin r.missing
  <2> DEFINE those == {p \in r.found : p.code = c}
  <2>1. those = {} \/ \E x : those = {x}
    BY <1>2
  <2> HIDE DEF those
  <2>2. Cardinality(those) <= 1
    <3>1. CASE those = {}
      <4>1. Cardinality(those) = 0
        BY <3>1, FS_EmptySet
      <4> QED
        BY <4>1
    <3>2. ASSUME NEW x, those = {x} PROVE Cardinality(those) <= 1
      <4>1. Cardinality(those) = 1
        BY <3>2, FS_Singleton
      <4> QED
        BY <4>1
    <3> QED
      BY <2>1, <3>1, <3>2
  <2>4. Cardinality({p \in r.found : p.code = c}) <= 1
    BY <2>2 DEF those
  <2>5. {p \in r.found : p.code = c} # {} => c \notin r.missing
    BY <1>1
  <2> QED
    BY <2>4, <2>5
<1>4. ASSUME NEW a \in DOMAIN Answered(h), Answered(h)[a] = Fails
      PROVE  <<"account", a>> \in r.unread
  <2>1. h.accounts # Fails
    BY DEF Answered
  <2>2. <<"account", a>> \in AccountErrors(h)
    BY <1>4, <2>1 DEF AccountErrors
  <2> QED
    BY <1>1, <2>2
<1>5. ASSUME FromAccounts(h), NEW c \in Stocks, DOMAIN Shares(h, c) # {}
      PROVE  c \in r.missing \/ \E p \in r.found : p.code = c /\ p.quantity = SumOf(Shares(h, c))
  <2>1. Holders(h, c) = {a \in DOMAIN Answered(h) : Answered(h)[a] # Fails /\ c \in DOMAIN Answered(h)[a]}
    BY DEF Holders, Completed
  <2>2. Shares(h, c) = [a \in Holders(h, c) |-> Answered(h)[a][c].quantity]
    BY <2>1 DEF Shares
  <2>3. DOMAIN Shares(h, c) = Holders(h, c)
    BY <2>2
  <2>4. c \in DOMAIN Consolidated(h) /\ Consolidated(h)[c].quantity = SumOf(Shares(h, c))
    BY <1>5, <2>2, <2>3 DEF Consolidated
  <2>5. c \in named
    BY <1>5, <2>4
  <2>6. CASE \E p \in r.found : p.code = c
    <3>1. PICK p \in r.found : p.code = c
      BY <2>6
    <3>2. p \in AccountPositions(h)
      BY <1>1, <1>5
    <3>3. p.quantity = Consolidated(h)[c].quantity
      BY <3>1, <3>2 DEF AccountPositions
    <3> QED
      BY <2>4, <3>1, <3>3
  <2>7. CASE ~\E p \in r.found : p.code = c
    BY <1>1, <2>5, <2>7
  <2> QED
    BY <2>6, <2>7
<1>6. ASSUME ~FromAccounts(h), NEW a \in DOMAIN Answered(h)
      PROVE  Answered(h)[a] = Fails
  BY <1>6 DEF FromAccounts, Completed
<1>7. ASSUME ~FromAccounts(h), NEW k \in DOMAIN h.file
      PROVE  \/ h.file[k].code \in {p.code : p \in r.found} \cup r.missing
             \/ <<"row", k>> \in r.unread
  <2>1. CASE k \in Accepted(h)
    <3>1. h.file[k].code \in named
      BY <1>7, <2>1
    <3> QED
      BY <1>1, <3>1
  <2>2. CASE k \notin Accepted(h)
    <3>1. <<"row", k>> \in FileErrors(h)
      BY <1>7, <2>2 DEF FileErrors
    <3> QED
      BY <1>1, <1>7, <3>1
  <2> QED
    BY <2>1, <2>2
<1> HIDE DEF named
<1> QED
  BY <1>1, <1>3, <1>4, <1>5, <1>6, <1>7 DEF Accounted

-----------------------------------------------------------------------------
(***************************************************************************)
(* What is chosen from a sorted set.                                       *)
(***************************************************************************)

\* The first n of a list are the lowest n of the set.
LEMMA BestOf ==
    ASSUME NEW S, IsFiniteSet(S), NEW below, NEW o, Lists(o, S, below), NEW n \in Nat
    PROVE  LET best == SubSeq(o, 1, IF Len(o) < n THEN Len(o) ELSE n) IN
           /\ best \in Seq(S) /\ Len(best) = (IF Cardinality(S) < n THEN Cardinality(S) ELSE n)
           /\ Range(best) \subseteq S /\ IsFiniteSet(Range(best))
           /\ Cardinality(Range(best)) = Len(best)
           /\ \A c \in S \ Range(best), d \in Range(best) : d \in below[c]
           /\ Cardinality(S) <= n => Range(best) = S
<1>1. PICK s \in Nat : s = Cardinality(S)
  BY FS_CardinalityType
<1>2. /\ o \in Seq(S) /\ Len(o) = s
      /\ \A x \in S : \E k \in 1 .. s : o[k] = x
      /\ \A j, k \in 1 .. s : j < k <=> o[j] \in below[o[k]]
  BY <1>1 DEF Lists
<1> DEFINE m == IF s < n THEN s ELSE n
           best == SubSeq(o, 1, m)
<1>3. m \in Nat /\ m <= s /\ (s <= n => m = s)
  OBVIOUS
<1> HIDE DEF m
<1>4. /\ best \in Seq(S) /\ Len(best) = m /\ DOMAIN best = 1 .. m
      /\ \A k \in 1 .. m : best[k] = o[k]
  BY <1>2, <1>3
<1>5. \A k \in 1 .. m : k \in 1 .. s /\ best[k] \in S
  BY <1>2, <1>3, <1>4
<1> HIDE DEF best
<1>6. Range(best) = {best[k] : k \in 1 .. m} /\ Range(best) \subseteq S
  BY <1>4, <1>5 DEF Range
<1>7. ASSUME NEW j \in 1 .. m, NEW k \in 1 .. m, best[j] = best[k] PROVE j = k
  <2>1. j \in 1 .. s /\ k \in 1 .. s /\ o[j] = o[k]
    BY <1>4, <1>5, <1>7
  <2>2. (j < k <=> o[j] \in below[o[k]]) /\ (j < j <=> o[j] \in below[o[j]]) /\ (k < j <=> o[k] \in below[o[j]])
    BY <1>2, <2>1
  <2> QED
    BY <2>1, <2>2
<1>8. IsFiniteSet(Range(best)) /\ Cardinality(Range(best)) = m
  <2> DEFINE f == [k \in 1 .. m |-> best[k]]
  <2>1. f \in [1 .. m -> Range(best)] /\ \A j, k \in 1 .. m : f[j] = f[k] => j = k
    BY <1>6, <1>7
  <2>2. \A x \in Range(best) : \E k \in 1 .. m : f[k] = x
    BY <1>6
  <2> HIDE DEF f
  <2>3. f \in Bijection(1 .. m, Range(best))
    BY <2>1, <2>2 DEF Bijection, Injection, Surjection, IsInjective
  <2>4. ExistsBijection(1 .. m, Range(best))
    BY <2>3 DEF ExistsBijection
  <2>5. IsFiniteSet(1 .. m)
    BY <1>3, FS_Interval
  <2> QED
    BY <1>3, <2>4, <2>5, FS_Bijection, FS_CountingElements
<1>9. ASSUME NEW c \in S \ Range(best), NEW d \in Range(best) PROVE d \in below[c]
  <2>1. PICK k \in 1 .. m : best[k] = d
    BY <1>6
  <2>2. PICK j \in 1 .. s : o[j] = c
    BY <1>2
  <2>3. j \notin 1 .. m
    BY <1>4, <1>6, <2>2
  <2>4. k \in 1 .. s /\ k < j /\ o[k] = d
    BY <1>3, <1>4, <2>1, <2>3
  <2> QED
    BY <1>2, <2>2, <2>4
<1>10. ASSUME s <= n PROVE Range(best) = S
  <2>1. \A x \in S : \E k \in 1 .. m : best[k] = x
    BY <1>2, <1>3, <1>4, <1>10
  <2> QED
    BY <1>6, <2>1
<1>11. best = SubSeq(o, 1, IF Len(o) < n THEN Len(o) ELSE n) /\ m = IF Cardinality(S) < n THEN Cardinality(S) ELSE n
  BY <1>1, <1>2 DEF best, m
<1> QED
  BY <1>1, <1>4, <1>6, <1>8, <1>9, <1>10, <1>11

\* A list has the elements of its set.
LEMMA ListHasAll ==
    ASSUME NEW S, IsFiniteSet(S), NEW below, NEW o, Lists(o, S, below)
    PROVE  Range(o) = S /\ Len(o) = Cardinality(S) /\ DOMAIN o = 1 .. Cardinality(S)
<1>1. o \in Seq(S) /\ Len(o) = Cardinality(S) /\ \A x \in S : \E k \in 1 .. Cardinality(S) : o[k] = x
  BY DEF Lists
<1>2. DOMAIN o = 1 .. Cardinality(S)
  BY <1>1
<1>3. \A k \in DOMAIN o : o[k] \in S
  BY <1>1
<1> QED
  BY <1>1, <1>2, <1>3 DEF Range

-----------------------------------------------------------------------------
(***************************************************************************)
(* Recommendations.                                                        *)
(***************************************************************************)

\* The scores of a stock are numbers.
LEMMA ScoresAre ==
    ASSUME NEW c \in Evaluated
    PROVE  /\ TotalScore(c) \in Int /\ Fund(c) \in 0 .. 25 /\ Penalty(c) \in Int /\ Confidence(c) \in Int
           /\ Liquidity(c) \in Int /\ Catalyst(c) \in Int
           /\ StockKey(c) \in [1 .. 7 -> Int] /\ StockKey(c)[7] = c.code
<1>1. /\ c.code \in Nat /\ c.bars \in Nat /\ c.risks \in Int /\ c.value \in Int /\ c.recent \in Int
      /\ c.prices \in Int
      /\ c.parts.weekly \in Int /\ c.parts.bottom \in Int /\ c.parts.daily \in Int /\ c.parts.catalyst \in Int
      /\ c.flow # None => c.flow.score \in Int /\ c.flow.confidence \in Int
  BY DEF Evaluated
<1>2. \A v \in Int : Within(0, 25, v) \in 0 .. 25 /\ Within(0, 15, v) \in Int /\ Within(0, 100, v) \in Int
  BY DEF Within
<1>3. Fund(c) \in 0 .. 25 /\ Fund(c) \in Int
  BY <1>1, <1>2 DEF Fund
<1>4. Penalty(c) \in Int
  BY <1>1 DEF Penalty
<1>5. Liquidity(c) \in Int
  BY <1>1 DEF Liquidity
<1>6. Catalyst(c) \in Int
  BY <1>1, <1>2 DEF Catalyst
<1>7. TotalScore(c) \in Int
  BY <1>1, <1>2, <1>3, <1>4, <1>5, <1>6 DEF TotalScore
<1>8. Confidence(c) \in Int
  <2> DEFINE x == IF c.flow = None THEN 70 ELSE c.flow.confidence
             S == {100, c.prices, x}
  <2>1. x \in Int
    BY <1>1
  <2> HIDE DEF x
  <2>2. \E v \in S : \A w \in S : v <= w
    BY <1>1, <2>1
  <2>3. S \subseteq Int
    BY <1>1, <2>1
  <2> HIDE DEF S
  <2>4. Min(S) \in S
    BY <2>2 DEF Min
  <2>5. Confidence(c) = Min(S)
    BY DEF Confidence, S, x
  <2> QED
    BY <2>3, <2>4, <2>5
<1>9. StockKey(c) \in [1 .. 7 -> Int] /\ StockKey(c)[7] = c.code
  <2>1. Within(0, 100, Penalty(c)) \in Int
    BY <1>2, <1>4
  <2> QED
    BY <1>1, <1>3, <1>7, <1>8, <2>1 DEF StockKey
<1> QED
  BY <1>3, <1>4, <1>5, <1>6, <1>7, <1>8, <1>9

\* Stocks in the order of select_integrated_recommendations.
LEMMA StocksListed ==
    ASSUME NEW S \in SUBSET Evaluated, IsFiniteSet(S),
           \A c, d \in S : c.code = d.code => c = d
    PROVE  Lists(Ordered(S, BetterStock), S, [x \in S |-> {y \in S : BetterStock(y, x)}])
<1> DEFINE below == [x \in S |-> {y \in S : BetterStock(y, x)}]
           o == Ordered(S, BetterStock)
           key == [c \in S |-> StockKey(c)]
<1>1. StrictOrder(S, below)
  <2>1. \A c \in S : StockKey(c) \in [1 .. 7 -> Int] /\ StockKey(c)[7] = c.code
    BY ScoresAre
  <2>2. key \in [S -> [1 .. 7 -> Int]] /\ \A x, y \in S : key[x] = key[y] => x = y
    BY <2>1
  <2>3. below = [x \in S |-> {y \in S : Below(key[y], key[x])}]
    BY DEF BetterStock
  <2> HIDE DEF key, below
  <2>4. 7 \in Nat
    OBVIOUS
  <2> QED
    BY <2>2, <2>3, <2>4, KeysOrder
<1>2. o = [k \in 1 .. Cardinality(S) |-> CHOOSE x \in S : Cardinality({y \in S : BetterStock(y, x)}) = k - 1]
  BY DEF Ordered
<1>3. o = [k \in 1 .. Cardinality(S) |-> o[k]]
  BY <1>2
<1>4. ASSUME NEW k \in 1 .. Cardinality(S), \E x \in S : Cardinality(below[x]) = k - 1
      PROVE  o[k] \in S /\ Cardinality(below[o[k]]) = k - 1
  <2>1. o[k] = CHOOSE x \in S : Cardinality({y \in S : BetterStock(y, x)}) = k - 1
    BY <1>2
  <2>2. \E x \in S : Cardinality({y \in S : BetterStock(y, x)}) = k - 1
    BY <1>4
  <2>3. o[k] \in S /\ Cardinality({y \in S : BetterStock(y, o[k])}) = k - 1
    BY <2>1, <2>2
  <2> QED
    BY <2>3
<1> HIDE DEF o, below
<1>5. Lists(o, S, below)
  BY <1>1, <1>3, <1>4, RankedLists
<1> QED
  BY <1>5 DEF o, below

\* Losing the flows of a stock lifts it nowhere.
LEMMA BlindIsWorse ==
    ASSUME NEW c \in Evaluated
    PROVE  LET b == [c EXCEPT !.flow = None] IN
           TotalScore(b) <= TotalScore(c) /\ ~Convincing(b, Policy)
<1> DEFINE b == [c EXCEPT !.flow = None]
<1>1. /\ b.flow = None /\ b.parts = c.parts /\ b.value = c.value /\ b.recent = c.recent
      /\ b.verified = c.verified /\ b.risks = c.risks /\ b.surge = c.surge /\ b.bars = c.bars /\ b.odd = c.odd
  BY DEF Evaluated
<1> HIDE DEF b
<1>2. Fund(b) = 0 /\ Liquidity(b) = Liquidity(c) /\ Catalyst(b) = Catalyst(c) /\ Penalty(b) = Penalty(c)
  BY <1>1 DEF Fund, Liquidity, Catalyst, Penalty
<1>3. TotalScore(b) = Within(0, 100, c.parts.weekly + c.parts.bottom + 0 + c.parts.daily + Liquidity(c)
                                       + Catalyst(c) - Penalty(c))
  BY <1>1, <1>2 DEF TotalScore
<1>4. \A v, w \in Int : v <= w => Within(0, 100, v) <= Within(0, 100, w)
  BY DEF Within
<1>5. /\ c.parts.weekly \in Int /\ c.parts.bottom \in Int /\ c.parts.daily \in Int
      /\ Liquidity(c) \in Int /\ Catalyst(c) \in Int /\ Penalty(c) \in Int /\ Fund(c) \in 0 .. 25
  BY ScoresAre DEF Evaluated
<1>6. TotalScore(b) <= TotalScore(c)
  BY <1>3, <1>4, <1>5 DEF TotalScore
<1>7. ~Convincing(b, Policy)
  BY <1>1 DEF Convincing, EvaluationStatus
<1> QED
  BY <1>6, <1>7 DEF b

\* The lesser of two numbers.
LEMMA LesserOf ==
    ASSUME NEW a \in Int, NEW b \in Int
    PROVE  Min({a, b}) = IF a <= b THEN a ELSE b
<1> DEFINE S == {a, b}
<1>1. \A m \in S : (\A x \in S : m <= x) => m = IF a <= b THEN a ELSE b
  OBVIOUS
<1>2. \E m \in S : \A x \in S : m <= x
  OBVIOUS
<1>3. Min(S) = CHOOSE m \in S : \A x \in S : m <= x
  BY DEF Min
<1> HIDE DEF S
<1>4. Min(S) \in S /\ \A x \in S : Min(S) <= x
  BY <1>2, <1>3
<1> QED
  BY <1>1, <1>4 DEF S

\* The first n of the stocks of S.
LEMMA BestStocks ==
    ASSUME NEW S \in SUBSET Evaluated, IsFiniteSet(S),
           \A c, d \in S : c.code = d.code => c = d, NEW n \in Nat
    PROVE  LET best == Upto(n, Ordered(S, BetterStock)) IN
           /\ best \in Seq(S) /\ Len(best) = (IF Cardinality(S) < n THEN Cardinality(S) ELSE n)
           /\ Range(best) \subseteq S /\ IsFiniteSet(Range(best))
           /\ Cardinality(Range(best)) = Len(best)
           /\ \A c \in S \ Range(best), d \in Range(best) : BetterStock(d, c)
           /\ Cardinality(S) <= n => Range(best) = S
<1> DEFINE below == [x \in S |-> {y \in S : BetterStock(y, x)}]
           o == Ordered(S, BetterStock)
           best == SubSeq(o, 1, IF Len(o) < n THEN Len(o) ELSE n)
<1>1. Lists(o, S, below)
  BY StocksListed
<1>2. \A c, d \in S : d \in below[c] => BetterStock(d, c)
  OBVIOUS
<1> HIDE DEF below, o
<1>3. /\ best \in Seq(S) /\ Len(best) = (IF Cardinality(S) < n THEN Cardinality(S) ELSE n)
      /\ Range(best) \subseteq S /\ IsFiniteSet(Range(best))
      /\ Cardinality(Range(best)) = Len(best)
      /\ \A c \in S \ Range(best), d \in Range(best) : d \in below[c]
      /\ Cardinality(S) <= n => Range(best) = S
  BY ONLY IsFiniteSet(S), <1>1, n \in Nat, BestOf
<1>4. best = Upto(n, o)
  BY DEF Upto
<1> HIDE DEF best
<1>5. \A c \in S \ Range(best), d \in Range(best) : BetterStock(d, c)
  BY <1>2, <1>3
<1> QED
  BY <1>3, <1>4, <1>5 DEF o

\* What select_integrated_recommendations owes to its stocks.
StocksBest(s, r) ==
    LET strong == Range(r.strong)   review == Range(r.review)
        blind(c) == [c EXCEPT !.flow = None]
    IN /\ Len(r.ranked) <= Policy.totalLimit
       /\ strong \cap review = {}
       /\ \A c \in s \ strong, d \in strong :
            (Passed(c) /\ Convincing(c, Policy)) => BetterStock(d, c)
       /\ \A c \in s \ (strong \cup review) :
            (Passed(c) /\ Promising(c, Policy)) =>
                /\ \A d \in review : BetterStock(d, c)
                /\ Len(r.ranked) = Policy.totalLimit \/ Cardinality(review) = Policy.reviewLimit
       /\ \A c \in strong \cup review :
            /\ TotalScore(blind(c)) <= TotalScore(c) /\ ~Convincing(blind(c), Policy)
            /\ c \in strong => c.flow # None

\* The recommendations of any stocks.
LEMMA SelectionIsBest ==
    ASSUME NEW s \in StockCases, NEW r, r = Recommendations(s, Policy)
    PROVE  StocksBest(s, r)
<1> DEFINE passed == {c \in s : Passed(c)}
           S == {c \in passed : Convincing(c, Policy)}
           strong == Upto(Policy.strongLimit, Ordered(S, BetterStock))
           T == {c \in passed \ Range(strong) : Promising(c, Policy)}
           room == Min({Policy.reviewLimit, Policy.totalLimit - Len(strong)})
           review == Upto(room, Ordered(T, BetterStock))
           both == Range(strong) \cup Range(review)
           ranked == Ordered(both, BetterStock)
<1>1. r.strong = strong /\ r.review = review /\ r.ranked = ranked
  BY DEF Recommendations
<1>2. /\ s \subseteq Evaluated /\ IsFiniteSet(s) /\ \A c, d \in s : c.code = d.code => c = d
      /\ Policy.strongLimit \in Nat /\ Policy.reviewLimit \in Nat /\ Policy.totalLimit \in Nat
      /\ Policy.strongLimit <= Policy.totalLimit
  BY StockAssumption
<1>3. ASSUME NEW A, A \subseteq s
      PROVE  A \in SUBSET Evaluated /\ IsFiniteSet(A) /\ \A c, d \in A : c.code = d.code => c = d
  BY <1>2, <1>3, FS_Subset
<1>4. S \subseteq s /\ \A c \in s : c \in S <=> Passed(c) /\ Convincing(c, Policy)
  OBVIOUS
<1>5. T \subseteq s /\ T \cap Range(strong) = {}
      /\ \A c \in s \ Range(strong) : c \in T <=> Passed(c) /\ Promising(c, Policy)
  OBVIOUS
<1> HIDE DEF S, T
<1>6. /\ strong \in Seq(S) /\ Len(strong) = (IF Cardinality(S) < Policy.strongLimit THEN Cardinality(S) ELSE Policy.strongLimit)
      /\ Range(strong) \subseteq S /\ IsFiniteSet(Range(strong))
      /\ Cardinality(Range(strong)) = Len(strong)
      /\ \A c \in S \ Range(strong), d \in Range(strong) : BetterStock(d, c)
  BY <1>2, <1>3, <1>4, BestStocks
<1> HIDE DEF strong
<1>7. Cardinality(S) \in Nat /\ Cardinality(T) \in Nat
  BY <1>3, <1>4, <1>5, FS_CardinalityType
<1>8. Len(strong) \in Nat /\ Len(strong) <= Policy.totalLimit
  BY <1>2, <1>6, <1>7
<1>9. /\ room \in Nat /\ room <= Policy.reviewLimit /\ room <= Policy.totalLimit - Len(strong)
      /\ room = Policy.reviewLimit \/ room = Policy.totalLimit - Len(strong)
  <2>1. Policy.reviewLimit \in Int /\ Policy.totalLimit - Len(strong) \in Nat
    BY <1>2, <1>8
  <2>2. room = IF Policy.reviewLimit <= Policy.totalLimit - Len(strong) THEN Policy.reviewLimit
               ELSE Policy.totalLimit - Len(strong)
    BY <2>1, LesserOf
  <2> QED
    BY <1>2, <2>1, <2>2
<1> HIDE DEF room
<1>10. /\ Len(review) = (IF Cardinality(T) < room THEN Cardinality(T) ELSE room)
       /\ Range(review) \subseteq T /\ IsFiniteSet(Range(review))
       /\ Cardinality(Range(review)) = Len(review)
       /\ \A c \in T \ Range(review), d \in Range(review) : BetterStock(d, c)
       /\ Cardinality(T) <= room => Range(review) = T
  BY <1>3, <1>5, <1>9, BestStocks
<1> HIDE DEF review
<1>11. Range(strong) \cap Range(review) = {}
  BY <1>5, <1>10
<1>12. /\ IsFiniteSet(both) /\ Cardinality(both) = Len(strong) + Len(review) /\ both \subseteq s
  <2>1. Cardinality(Range(strong) \cap Range(review)) = 0
    BY <1>11, FS_EmptySet
  <2>2. /\ IsFiniteSet(both)
        /\ Cardinality(both) = Cardinality(Range(strong)) + Cardinality(Range(review))
                                 - Cardinality(Range(strong) \cap Range(review))
    BY <1>6, <1>10, FS_Union
  <2>3. Len(review) \in Nat
    BY <1>7, <1>9, <1>10
  <2> QED
    BY <1>4, <1>5, <1>6, <1>8, <1>10, <2>1, <2>2, <2>3
<1> HIDE DEF both
<1>13. Len(ranked) = Len(strong) + Len(review)
  BY <1>3, <1>12, StocksListed DEF Lists
<1> HIDE DEF ranked
<1>14. Len(ranked) <= Policy.totalLimit
  BY <1>2, <1>7, <1>8, <1>9, <1>10, <1>13
<1>15. ASSUME NEW c \in s \ Range(strong), NEW d \in Range(strong), Passed(c), Convincing(c, Policy)
       PROVE  BetterStock(d, c)
  BY <1>4, <1>6, <1>15
<1>16. ASSUME NEW c \in s \ both, Passed(c), Promising(c, Policy)
       PROVE  /\ \A d \in Range(review) : BetterStock(d, c)
              /\ Len(ranked) = Policy.totalLimit \/ Cardinality(Range(review)) = Policy.reviewLimit
  <2>1. c \in T \ Range(review)
    BY <1>5, <1>16 DEF both
  <2>2. Len(review) = room
    BY <1>7, <1>9, <1>10, <2>1
  <2> QED
    BY <1>2, <1>8, <1>9, <1>10, <1>13, <2>1, <2>2
<1>17. ASSUME NEW c \in both
       PROVE  /\ TotalScore([c EXCEPT !.flow = None]) <= TotalScore(c)
              /\ ~Convincing([c EXCEPT !.flow = None], Policy)
              /\ c \in Range(strong) => c.flow # None
  <2>1. c \in Evaluated
    BY <1>2, <1>12
  <2>2. c \in Range(strong) => Convincing(c, Policy)
    BY <1>4, <1>6
  <2>3. c \in Range(strong) => c.flow # None
    BY <2>2 DEF Convincing, EvaluationStatus
  <2> QED
    BY <2>1, <2>3, BlindIsWorse
<1>18. both = Range(strong) \cup Range(review)
  BY DEF both
<1> QED
  BY <1>1, <1>11, <1>14, <1>15, <1>16, <1>17, <1>18 DEF StocksBest

-----------------------------------------------------------------------------
(***************************************************************************)
(* Leaders.                                                                *)
(***************************************************************************)

Ranked(l) ==
    /\ l.limit \in Nat /\ l.market \in Int \cup {None}
    /\ \A k \in 1 .. 3 : l.ranks[k] # Fails => l.ranks[k] \in Seq(Nat)
    /\ \A c \in Candidates(l) :
         l.stocks[c] \in [rate : Int, open : Int \cup {None}, high : Int \cup {None}]

\* The rankings name finitely many stocks.
LEMMA CandidatesFinite ==
    ASSUME NEW l, Ranked(l)
    PROVE  Candidates(l) \in SUBSET Nat /\ IsFiniteSet(Candidates(l))
<1> DEFINE s == Merged(l)
           first == {r \in DOMAIN s : Cardinality({s[q] : q \in 1 .. r}) <= MaxCandidates}
<1>1. s \in Seq(Nat)
  <2>1. RankingOf(l, 1) \in Seq(Nat) /\ RankingOf(l, 2) \in Seq(Nat) /\ RankingOf(l, 3) \in Seq(Nat)
    BY DEF RankingOf, Ranked
  <2> QED
    BY <2>1 DEF Merged
<1>2. Candidates(l) = {c \in {s[r] : r \in first} : l.stocks[c] # Bad}
  BY DEF Candidates
<1>3. first \subseteq DOMAIN s
  OBVIOUS
<1> HIDE DEF s, first
<1>4. PICK n \in Nat : n = Len(s)
  BY <1>1
<1>5. DOMAIN s = 1 .. n /\ \A j \in 1 .. n : s[j] \in Nat
  BY <1>1, <1>4
<1> DEFINE f == [j \in 1 .. n |-> s[j]]
           S == {s[j] : j \in 1 .. n}
<1>6. /\ S \in SUBSET Nat /\ f \in [1 .. n -> S]
      /\ \A x \in S : \E j \in 1 .. n : f[j] = x
  BY <1>5
<1>7. Candidates(l) \subseteq S
  BY <1>2, <1>3, <1>5
<1> HIDE DEF f, S
<1>8. f \in Surjection(1 .. n, S)
  BY <1>6 DEF Surjection
<1>9. IsFiniteSet(1 .. n)
  BY FS_Interval
<1>10. IsFiniteSet(S)
  BY <1>8, <1>9, FS_Surjection
<1> QED
  BY <1>6, <1>7, <1>10, FS_Subset

\* The scores of a candidate are numbers.
LEMMA LeaderKeys ==
    ASSUME NEW l, Ranked(l), NEW c \in Candidates(l), NEW market \in Int \cup {None}
    PROVE  LeaderKey(l, market, c) \in [1 .. 3 -> Int] /\ LeaderKey(l, market, c)[3] = c
<1>1. ValueRank(l, c) # None => ValueRank(l, c) \in Nat
  <2> DEFINE s == RankingOf(l, 3)
  <2>1. s \in Seq(Nat)
    BY DEF RankingOf, Ranked
  <2> HIDE DEF s
  <2>2. DOMAIN s \subseteq Nat
    BY <2>1
  <2>3. ValueRank(l, c) = IF c \in Range(s) THEN CHOOSE r \in DOMAIN s : s[r] = c ELSE None
    BY DEF ValueRank, s
  <2>4. c \in Range(s) => \E r \in DOMAIN s : s[r] = c
    BY DEF Range
  <2>5. c \in Range(s) => (CHOOSE r \in DOMAIN s : s[r] = c) \in DOMAIN s
    BY <2>4
  <2> QED
    BY <2>2, <2>3, <2>5
<1>2. l.stocks[c].rate \in Int /\ l.stocks[c].open \in Int \cup {None} /\ l.stocks[c].high \in Int \cup {None}
  BY DEF Ranked
<1>3. \A v \in Int : /\ Clip(-5, 15, v) \in Int /\ Clip(0, 400, v) \in Int
                    /\ Clip(-200, 200, v) \in Int
  BY DEF Clip
<1>4. LeaderScore(l, c, market) \in Int
  <2> DEFINE x == l.stocks[c]
             r == ValueRank(l, c)
             W == {w \in 1 .. 2 : IF w = 1 THEN r = None ELSE Farther(x)}
  <2>1. Cardinality(W) \in Nat
    <3>1. W \subseteq 1 .. 2
      OBVIOUS
    <3>2. IsFiniteSet(1 .. 2)
      <4>1. 1 \in Int /\ 2 \in Int
        OBVIOUS
      <4> QED
        BY <4>1, FS_Interval
    <3> HIDE DEF W
    <3> QED
      BY <3>1, <3>2, FS_Subset, FS_CardinalityType
  <2>2. LeaderScore(l, c, market) =
          30 * Clip(-5, 15, x.rate)
            + (IF r = None THEN 0 ELSE Clip(0, 400, 400 - 15 * (r - 1)))
            + (IF x.open = None THEN 0 ELSE Clip(-200, 200, 30 * x.open))
            + (IF x.high = None THEN 0 ELSE IF Farther(x) THEN -200 ELSE 100)
            + (IF market = None THEN 0 ELSE Clip(-200, 200, 25 * (x.rate - market)))
            - 50 * Cardinality(W)
    BY DEF LeaderScore
  <2> HIDE DEF W, r, x
  <2>3. x.rate \in Int /\ x.open \in Int \cup {None} /\ x.high \in Int \cup {None} /\ (r # None => r \in Nat)
    BY <1>1, <1>2 DEF x, r
  <2>4. Clip(-5, 15, x.rate) \in Int
    BY <1>3, <2>3
  <2>5. (IF r = None THEN 0 ELSE Clip(0, 400, 400 - 15 * (r - 1))) \in Int
    BY <1>3, <2>3
  <2>6. (IF x.open = None THEN 0 ELSE Clip(-200, 200, 30 * x.open)) \in Int
    BY <1>3, <2>3
  <2>7. (IF market = None THEN 0 ELSE Clip(-200, 200, 25 * (x.rate - market))) \in Int
    BY <1>3, <2>3
  <2> QED
    BY <2>1, <2>2, <2>4, <2>5, <2>6, <2>7
<1>5. c \in Nat
  BY CandidatesFinite
<1> QED
  BY <1>1, <1>4, <1>5 DEF LeaderKey

\* Leaders in the order of their score, traded value and code.
LEMMA LeadersListed ==
    ASSUME NEW l, Ranked(l), NEW market \in Int \cup {None}, NEW S \in SUBSET Candidates(l)
    PROVE  /\ IsFiniteSet(S)
           /\ Lists(Sorted(l, market, S), S, [x \in S |-> {y \in S : Before(l, market, y, x)}])
<1> DEFINE below == [x \in S |-> {y \in S : Before(l, market, y, x)}]
           o == Sorted(l, market, S)
           key == [c \in S |-> LeaderKey(l, market, c)]
<1>1. IsFiniteSet(S)
  BY CandidatesFinite, FS_Subset
<1>2. StrictOrder(S, below)
  <2>1. \A c \in S : LeaderKey(l, market, c) \in [1 .. 3 -> Int] /\ LeaderKey(l, market, c)[3] = c
    BY LeaderKeys
  <2>2. key \in [S -> [1 .. 3 -> Int]] /\ \A x, y \in S : key[x] = key[y] => x = y
    BY <2>1
  <2>3. below = [x \in S |-> {y \in S : Below(key[y], key[x])}]
    BY DEF Before
  <2> HIDE DEF key, below
  <2>4. 3 \in Nat
    OBVIOUS
  <2> QED
    BY <2>2, <2>3, <2>4, KeysOrder
<1>3. o = [k \in 1 .. Cardinality(S) |->
             CHOOSE x \in S : Cardinality({y \in S : Before(l, market, y, x)}) = k - 1]
  BY DEF Sorted, Ordered
<1>4. o = [k \in 1 .. Cardinality(S) |-> o[k]]
  BY <1>3
<1>5. ASSUME NEW k \in 1 .. Cardinality(S), \E x \in S : Cardinality(below[x]) = k - 1
      PROVE  o[k] \in S /\ Cardinality(below[o[k]]) = k - 1
  <2>1. o[k] = CHOOSE x \in S : Cardinality({y \in S : Before(l, market, y, x)}) = k - 1
    BY <1>3
  <2>2. \E x \in S : Cardinality({y \in S : Before(l, market, y, x)}) = k - 1
    BY <1>5
  <2>3. o[k] \in S /\ Cardinality({y \in S : Before(l, market, y, o[k])}) = k - 1
    BY <2>1, <2>2
  <2> QED
    BY <2>3
<1> HIDE DEF o, below
<1>6. Lists(o, S, below)
  BY <1>1, <1>2, <1>4, <1>5, RankedLists
<1> QED
  BY <1>1, <1>6 DEF o, below

\* What the collector of leaders owes to the stocks it looks at.
LeadersBest(l, r) ==
    /\ Len(r) <= l.limit
    /\ \A c \in Range(r), d \in Candidates(l) \ Range(r) :
         /\ l.stocks[c].rate > 0
         /\ (l.stocks[d].rate > 0 /\ LeaderScore(l, d, None) >= 300) => Before(l, None, c, d)

\* The leaders of any rankings.
LEMMA LeadersAreBest ==
    ASSUME NEW l, Ranked(l), NEW r, r = Leaders(l, l.limit, l.market)
    PROVE  LeadersBest(l, r)
<1> DEFINE S == {c \in Candidates(l) : LeaderScore(l, c, None) >= 300 /\ l.stocks[c].rate > 0}
           o == Sorted(l, None, S)
           below == [x \in S |-> {y \in S : Before(l, None, y, x)}]
           best == Selected(l, l.limit)
<1>1. S \in SUBSET Candidates(l) /\ l.limit \in Nat
  BY DEF Ranked
<1>2. \A c \in Candidates(l) : c \in S <=> LeaderScore(l, c, None) >= 300 /\ l.stocks[c].rate > 0
  OBVIOUS
<1>3. best = SubSeq(o, 1, IF Len(o) < l.limit THEN Len(o) ELSE l.limit)
  BY DEF Selected, First
<1> HIDE DEF S
<1>4. IsFiniteSet(S) /\ Lists(o, S, below)
  BY <1>1, LeadersListed
<1>5. \A c, d \in S : d \in below[c] => Before(l, None, d, c)
  OBVIOUS
<1> HIDE DEF o, below, best
<1>6. /\ Len(best) = (IF Cardinality(S) < l.limit THEN Cardinality(S) ELSE l.limit)
      /\ Range(best) \subseteq S /\ IsFiniteSet(Range(best))
      /\ Cardinality(Range(best)) = Len(best)
      /\ \A c \in S \ Range(best), d \in Range(best) : d \in below[c]
  BY ONLY <1>1, <1>3, <1>4, BestOf
<1>7. r = Sorted(l, l.market, Range(best))
  BY DEF Leaders, best
<1>8. Range(best) \in SUBSET Candidates(l)
  BY <1>1, <1>6
<1>9. l.market \in Int \cup {None}
  BY DEF Ranked
<1>10. Lists(r, Range(best), [x \in Range(best) |-> {y \in Range(best) : Before(l, l.market, y, x)}])
  BY <1>7, <1>8, <1>9, LeadersListed
<1>11. Range(r) = Range(best) /\ Len(r) = Cardinality(Range(best))
  BY <1>6, <1>10, ListHasAll
<1>12. Cardinality(S) \in Nat
  BY <1>4, FS_CardinalityType
<1>13. Len(r) <= l.limit
  BY <1>1, <1>6, <1>11, <1>12
<1>14. ASSUME NEW c \in Range(r), NEW d \in Candidates(l) \ Range(r)
       PROVE  /\ l.stocks[c].rate > 0
              /\ (l.stocks[d].rate > 0 /\ LeaderScore(l, d, None) >= 300) => Before(l, None, c, d)
  <2>1. c \in S /\ l.stocks[c].rate > 0
    BY <1>1, <1>2, <1>6, <1>11
  <2>2. d \in S => Before(l, None, c, d)
    BY <1>5, <1>6, <1>11, <2>1
  <2> QED
    BY <1>2, <2>1, <2>2
<1> QED
  BY <1>13, <1>14 DEF LeadersBest

-----------------------------------------------------------------------------
(***************************************************************************)
(* The universe and its snapshot.                                          *)
(***************************************************************************)

\* Records that the order of market, code and name tells apart.
Listable(L) ==
    /\ IsFiniteSet(L)
    /\ \A r \in L : r.code \in Nat /\ r.market \in {"KOSPI", "KOSDAQ"} /\ r.name \in Nat
    /\ \A r, s \in L : r.code = s.code /\ r.market = s.market /\ r.name = s.name => r = s

\* Market, code and name put such records in an order.
LEMMA RecordsOrdered ==
    ASSUME NEW S, Listable(S)
    PROVE  StrictOrder(S, [x \in S |-> {y \in S : EarlierRecord(y, x)}])
<1> DEFINE below == [x \in S |-> {y \in S : EarlierRecord(y, x)}]
           key == [r \in S |-> RecordKey(r)]
<1>1. \A r \in S : /\ RecordKey(r) \in [1 .. 3 -> Int]
                   /\ RecordKey(r)[1] = MarketOrder[r.market] /\ RecordKey(r)[2] = r.code /\ RecordKey(r)[3] = r.name
  BY DEF RecordKey, Listable, MarketOrder
<1>2. \A r, s \in S : MarketOrder[r.market] = MarketOrder[s.market] => r.market = s.market
  BY DEF Listable, MarketOrder
<1>3. key \in [S -> [1 .. 3 -> Int]] /\ \A x, y \in S : key[x] = key[y] => x = y
  <2>1. \A x \in S : key[x] = RecordKey(x)
    OBVIOUS
  <2>2. ASSUME NEW x \in S, NEW y \in S, key[x] = key[y] PROVE x = y
    <3>1. x.market = y.market /\ x.code = y.code /\ x.name = y.name
      BY <1>1, <1>2, <2>1, <2>2
    <3> QED
      BY <3>1 DEF Listable
  <2>3. key \in [S -> [1 .. 3 -> Int]]
    BY <1>1
  <2> QED
    BY <2>2, <2>3
<1>4. below = [x \in S |-> {y \in S : Below(key[y], key[x])}]
  BY DEF EarlierRecord
<1> HIDE DEF key, below
<1>5. 3 \in Nat
  OBVIOUS
<1>6. StrictOrder(S, below)
  BY <1>3, <1>4, <1>5, KeysOrder
<1> QED
  BY <1>6 DEF below

\* Records sorted by market, code and name.
LEMMA RecordsInOrder ==
    ASSUME NEW S, Listable(S)
    PROVE  Lists(Ordered(S, EarlierRecord), S, [x \in S |-> {y \in S : EarlierRecord(y, x)}])
<1> DEFINE below == [x \in S |-> {y \in S : EarlierRecord(y, x)}]
           o == Ordered(S, EarlierRecord)
<1>1. StrictOrder(S, below) /\ IsFiniteSet(S)
  BY RecordsOrdered DEF Listable
<1>2. o = [k \in 1 .. Cardinality(S) |-> CHOOSE x \in S : Cardinality({y \in S : EarlierRecord(y, x)}) = k - 1]
  BY DEF Ordered
<1>3. o = [k \in 1 .. Cardinality(S) |-> o[k]]
  BY <1>2
<1>4. ASSUME NEW k \in 1 .. Cardinality(S), \E x \in S : Cardinality(below[x]) = k - 1
      PROVE  o[k] \in S /\ Cardinality(below[o[k]]) = k - 1
  <2>1. o[k] = CHOOSE x \in S : Cardinality({y \in S : EarlierRecord(y, x)}) = k - 1
    BY <1>2
  <2>2. \E x \in S : Cardinality({y \in S : EarlierRecord(y, x)}) = k - 1
    BY <1>4
  <2>3. o[k] \in S /\ Cardinality({y \in S : EarlierRecord(y, o[k])}) = k - 1
    BY <2>1, <2>2
  <2> QED
    BY <2>3
<1> HIDE DEF o, below
<1>5. Lists(o, S, below)
  BY <1>1, <1>3, <1>4, RankedLists
<1> QED
  BY <1>5 DEF o, below

\* The first n of a set of records, and all of them.
LEMMA BestRecords ==
    ASSUME NEW S, Listable(S), NEW n \in Nat
    PROVE  LET o == Ordered(S, EarlierRecord)   best == Upto(n, o) IN
           /\ Range(o) = S /\ Cardinality(S) \in Nat
           /\ best \in Seq(S) /\ Len(best) = (IF Cardinality(S) < n THEN Cardinality(S) ELSE n)
           /\ Range(best) \subseteq S /\ IsFiniteSet(Range(best))
           /\ Cardinality(Range(best)) = Len(best)
<1> DEFINE below == [x \in S |-> {y \in S : EarlierRecord(y, x)}]
           o == Ordered(S, EarlierRecord)
           best == SubSeq(o, 1, IF Len(o) < n THEN Len(o) ELSE n)
<1>1. Lists(o, S, below) /\ IsFiniteSet(S)
  BY RecordsInOrder DEF Listable
<1> HIDE DEF below, o
<1>2. /\ best \in Seq(S) /\ Len(best) = (IF Cardinality(S) < n THEN Cardinality(S) ELSE n)
      /\ Range(best) \subseteq S /\ IsFiniteSet(Range(best))
      /\ Cardinality(Range(best)) = Len(best)
  BY ONLY <1>1, n \in Nat, BestOf
<1>3. best = Upto(n, o)
  BY DEF Upto
<1>4. Range(o) = S
  BY <1>1, ListHasAll
<1>5. Cardinality(S) \in Nat
  BY <1>1, FS_CardinalityType
<1> QED
  BY <1>2, <1>3, <1>4, <1>5 DEF o

\* As many codes as records, when no two share one.
LEMMA CodesCounted ==
    ASSUME NEW S, IsFiniteSet(S), \A r, s \in S : r.code = s.code => r = s
    PROVE  Cardinality({r.code : r \in S}) = Cardinality(S)
<1> DEFINE codes == {r.code : r \in S}
           f == [r \in S |-> r.code]
<1>1. f \in [S -> codes] /\ (\A r, s \in S : f[r] = f[s] => r = s) /\ \A c \in codes : \E r \in S : f[r] = c
  OBVIOUS
<1> HIDE DEF codes, f
<1>2. ExistsBijection(S, codes)
  BY <1>1 DEF ExistsBijection, Bijection, Injection, Surjection, IsInjective
<1>3. Cardinality(codes) = Cardinality(S)
  BY <1>2, FS_Bijection
<1> QED
  BY <1>3 DEF codes

\* Of each code the earliest record is kept.
LEMMA FirstsAre ==
    ASSUME NEW L, Listable(L)
    PROVE  LET F == FirstOfCode(L) IN
           /\ F \subseteq L /\ Listable(F)
           /\ \A r, s \in F : r.code = s.code => r = s
           /\ {r.code : r \in F} = {r.code : r \in L}
           /\ FirstOfCode(F) = F
<1> DEFINE F == FirstOfCode(L)
           below == [x \in L |-> {y \in L : EarlierRecord(y, x)}]
<1>1. F \subseteq L
  BY DEF FirstOfCode
<1>2. ASSUME NEW A, A \subseteq L PROVE Listable(A)
  BY <1>2, FS_Subset DEF Listable
<1>3. StrictOrder(L, below)
  BY RecordsOrdered
<1>4. \A x, y \in L : x = y \/ EarlierRecord(x, y) \/ EarlierRecord(y, x)
  BY <1>3 DEF StrictOrder
<1>5. ASSUME NEW r \in F, NEW s \in F, r.code = s.code PROVE r = s
  <2>1. ~EarlierRecord(r, s) /\ ~EarlierRecord(s, r) /\ r \in L /\ s \in L
    BY <1>5 DEF FirstOfCode
  <2> QED
    BY <1>4, <2>1
<1>6. ASSUME NEW r \in L PROVE \E s \in F : s.code = r.code
  <2> DEFINE C == {s \in L : s.code = r.code}
             under == [x \in C |-> {y \in C : EarlierRecord(y, x)}]
  <2>1. C \subseteq L /\ r \in C /\ \A s \in L : s \in C <=> s.code = r.code
    OBVIOUS
  <2> HIDE DEF C
  <2>2. Listable(C) /\ IsFiniteSet(C)
    BY <1>2, <2>1 DEF Listable
  <2>3. StrictOrder(C, under)
    BY <2>2, RecordsOrdered
  <2>4. Cardinality(C) \in Nat \ {0}
    BY <2>1, <2>2, FS_CardinalityType, FS_EmptySet
  <2>5. 0 \in 0 .. Cardinality(C) - 1
    BY <2>4
  <2>6. \A x, y \in C : y \in under[x] <=> EarlierRecord(y, x)
    OBVIOUS
  <2>7. \A x \in C : under[x] \subseteq C
    OBVIOUS
  <2> HIDE DEF under
  <2>8. PICK x \in C : Cardinality(under[x]) = 0
    BY <2>2, <2>3, <2>5, Ranks
  <2>9. under[x] = {}
    <3>1. IsFiniteSet(under[x])
      BY <2>2, <2>7, FS_Subset
    <3> QED
      BY <2>8, <3>1, FS_EmptySet
  <2>10. \A y \in L : y.code = x.code => ~EarlierRecord(y, x)
    BY <2>1, <2>6, <2>9
  <2>11. x \in F /\ x.code = r.code
    BY <2>1, <2>10 DEF FirstOfCode
  <2> QED
    BY <2>11
<1>7. FirstOfCode(F) = F
  <2>1. \A r \in F : ~\E s \in F : s.code = r.code /\ EarlierRecord(s, r)
    BY <1>1 DEF FirstOfCode
  <2>2. FirstOfCode(F) = {r \in F : ~\E s \in F : s.code = r.code /\ EarlierRecord(s, r)}
    BY DEF FirstOfCode
  <2> HIDE DEF F
  <2> QED
    BY <2>1, <2>2
<1> HIDE DEF F
<1>8. {r.code : r \in F} = {r.code : r \in L}
  BY <1>1, <1>6
<1> QED
  BY <1>1, <1>2, <1>5, <1>7, <1>8 DEF F

\* What the server answers about the stocks of a universe.
Answerable(u) ==
    /\ u.limit \in Nat /\ IsFiniteSet(u.answers)
    /\ \A a \in u.answers : /\ a.code \in Nat \cup {Bad} /\ a.market \in Range(Markets)
                           /\ a.name \in Nat /\ a.halted \in BOOLEAN
    /\ \A a, b \in u.answers : a.code = b.code => a.labels = b.labels /\ a.halted = b.halted

\* A stock of no excluding label and none other is a common one.
LEMMA CommonStocks ==
    ASSUME NEW labels, SecurityType(labels) = "common_stock"
    PROVE  Range(Excluding) \cap labels = {}
<1> DEFINE found == {k \in DOMAIN Excluding : Excluding[k] \in labels}
<1>1. DOMAIN Excluding = 1 .. 5
  BY DEF Excluding
<1>2. \A k \in 1 .. 5 : Excluding[k] # "common_stock"
  BY DEF Excluding
<1>3. found # {} => Min(found) \in found
  <2>1. found \in SUBSET Nat
    BY <1>1
  <2> HIDE DEF found
  <2> QED
    BY <2>1, LeastOf
<1>4. found # {} => SecurityType(labels) = Excluding[Min(found)]
  BY DEF SecurityType
<1>5. found = {}
  BY <1>1, <1>2, <1>3, <1>4
<1> QED
  BY <1>5 DEF Range

\* The records of the answers: what they say of a code is the same everywhere.
LEMMA MastersAre ==
    ASSUME NEW u, Answerable(u)
    PROVE  /\ IsFiniteSet(Masters(u))
           /\ \A r, s \in Masters(u) : r.code = s.code => r.type = s.type /\ r.trades = s.trades
           /\ \A r \in Masters(u) : r.market \in Range(Markets) /\ r.name \in Nat /\ r.code \in Nat \cup {Bad}
           /\ \A A \in SUBSET Masters(u) : (\A r \in A : Listed(r)) => Listable(A)
<1> DEFINE M == Masters(u)
           f == [a \in u.answers |-> MasterRecord(a)]
<1>1. IsFiniteSet(M)
  <2>1. f \in Surjection(u.answers, M)
    BY DEF Masters, Surjection
  <2> HIDE DEF f, M
  <2> QED
    BY <2>1, FS_Surjection DEF Answerable
<1>2. ASSUME NEW r \in M, NEW s \in M, r.code = s.code
      PROVE  r.type = s.type /\ r.trades = s.trades /\ (r.market = s.market /\ r.name = s.name => r = s)
  <2>1. PICK a \in u.answers : r = MasterRecord(a)
    BY DEF Masters
  <2>2. PICK b \in u.answers : s = MasterRecord(b)
    BY DEF Masters
  <2>3. a.labels = b.labels /\ a.halted = b.halted
    BY <1>2, <2>1, <2>2 DEF MasterRecord, Answerable
  <2> QED
    BY <1>2, <2>1, <2>2, <2>3 DEF MasterRecord
<1>3. ASSUME NEW r \in M PROVE r.market \in Range(Markets) /\ r.name \in Nat /\ r.code \in Nat \cup {Bad}
  BY DEF Masters, MasterRecord, Answerable
<1> HIDE DEF M
<1>4. ASSUME NEW A \in SUBSET M, \A r \in A : Listed(r) PROVE Listable(A)
  <2>1. IsFiniteSet(A)
    BY <1>1, FS_Subset
  <2>2. \A r \in A : r.code \in Nat /\ r.market \in {"KOSPI", "KOSDAQ"} /\ r.name \in Nat
    BY <1>3, <1>4 DEF Listed, Range, Markets
  <2>3. \A r, s \in A : r.code = s.code /\ r.market = s.market /\ r.name = s.name => r = s
    BY <1>2
  <2> QED
    BY <2>1, <2>2, <2>3 DEF Listable
<1> QED
  BY <1>1, <1>2, <1>3, <1>4 DEF M

\* Two lists of different elements in a row have both, each once.
LEMMA ListsJoined ==
    ASSUME NEW F, NEW a \in Seq(F), NEW b \in Seq(F),
           IsFiniteSet(Range(a)), IsFiniteSet(Range(b)),
           Cardinality(Range(a)) = Len(a), Cardinality(Range(b)) = Len(b), Range(a) \cap Range(b) = {}
    PROVE  /\ a \o b \in Seq(F) /\ Len(a \o b) = Len(a) + Len(b)
           /\ Range(a \o b) = Range(a) \cup Range(b) /\ IsFiniteSet(Range(a \o b))
           /\ Cardinality(Range(a \o b)) = Len(a \o b)
<1>1. PICK m \in Nat : m = Len(a) /\ DOMAIN a = 1 .. m
  OBVIOUS
<1>2. PICK n \in Nat : n = Len(b) /\ DOMAIN b = 1 .. n
  OBVIOUS
<1> DEFINE c == a \o b
<1>3. c \in Seq(F) /\ Len(c) = m + n
  BY <1>1, <1>2
<1>4. DOMAIN c = 1 .. m + n
  BY <1>3
<1>5. \A k \in 1 .. m + n : c[k] = IF k <= m THEN a[k] ELSE b[k - m]
  BY <1>1, <1>2
<1> HIDE DEF c
<1>6. Range(c) = Range(a) \cup Range(b)
  <2>1. ASSUME NEW x \in Range(a) PROVE x \in Range(c)
    <3>1. PICK k \in 1 .. m : a[k] = x
      BY <1>1 DEF Range
    <3>2. k \in 1 .. m + n /\ c[k] = x
      BY <1>5, <3>1
    <3> QED
      BY <1>4, <3>2 DEF Range
  <2>2. ASSUME NEW x \in Range(b) PROVE x \in Range(c)
    <3>1. PICK k \in 1 .. n : b[k] = x
      BY <1>2 DEF Range
    <3>2. k + m \in 1 .. m + n /\ ~(k + m <= m) /\ (k + m) - m = k
      OBVIOUS
    <3>3. c[k + m] = x
      BY <1>5, <3>1, <3>2
    <3> QED
      BY <1>4, <3>2, <3>3 DEF Range
  <2>3. ASSUME NEW x \in Range(c) PROVE x \in Range(a) \cup Range(b)
    <3>1. PICK k \in 1 .. m + n : c[k] = x
      BY <1>4, <2>3 DEF Range
    <3>2. CASE k <= m
      <4>1. k \in 1 .. m /\ a[k] = x
        BY <1>5, <3>1, <3>2
      <4> QED
        BY <1>1, <4>1 DEF Range
    <3>3. CASE ~(k <= m)
      <4>1. k - m \in 1 .. n /\ b[k - m] = x
        BY <1>5, <3>1, <3>3
      <4> QED
        BY <1>2, <4>1 DEF Range
    <3> QED
      BY <3>2, <3>3
  <2> QED
    BY <2>1, <2>2, <2>3
<1>7. /\ IsFiniteSet(Range(a) \cup Range(b))
      /\ Cardinality(Range(a) \cup Range(b)) = Cardinality(Range(a)) + Cardinality(Range(b))
                                                 - Cardinality(Range(a) \cap Range(b))
  BY FS_Union
<1>8. Cardinality(Range(a) \cap Range(b)) = 0
  BY FS_EmptySet
<1> QED
  BY <1>1, <1>2, <1>3, <1>6, <1>7, <1>8 DEF c

\* A universe of both markets is as large as it may be, each code once.
LEMMA BalancedIs ==
    ASSUME NEW M, NEW limit \in Nat, Listable({r \in M : Listed(r)}), NEW r, r = BalancedUniverse(M, limit)
    PROVE  LET codes == {x.code : x \in {x \in M : Listed(x)}} IN
           /\ Len(r) = Min({limit, Cardinality(codes)})
           /\ Cardinality({x.code : x \in Range(r)}) = Len(r)
<1> DEFINE L == {x \in M : Listed(x)}
           F == FirstOfCode(L)
           U == Universe(M)
           K == {x \in F : x.market = "KOSPI"}
           Q == {x \in F : x.market = "KOSDAQ"}
           first == Upto((limit + 1) \div 2, Ordered(K, EarlierRecord))
           second == Upto(limit \div 2, Ordered(Q, EarlierRecord))
           halves == first \o second
           O == F \ Range(halves)
           third == Upto(limit - Len(halves), Ordered(O, EarlierRecord))
           whole == halves \o third
<1>1. /\ Listable(F) /\ IsFiniteSet(F) /\ (\A x, y \in F : x.code = y.code => x = y)
      /\ {x.code : x \in F} = {x.code : x \in L}
  BY FirstsAre DEF Listable
<1>2. U = Ordered(F, EarlierRecord)
  BY DEF Universe, OneOfEach
<1>3. r = Upto(limit, whole)
  <2>1. Range(U) = F
    <3> HIDE DEF F
    <3> QED
      BY <1>1, <1>2, BestRecords, limit \in Nat
  <2>2. Of("KOSPI", U) = Ordered(K, EarlierRecord) /\ Of("KOSDAQ", U) = Ordered(Q, EarlierRecord)
    BY <2>1 DEF Of
  <2>3. r = LET hs == Upto((limit + 1) \div 2, Of("KOSPI", U)) \o Upto(limit \div 2, Of("KOSDAQ", U))
                others == Ordered(Range(U) \ Range(hs), EarlierRecord)
            IN Upto(limit, hs \o Upto(limit - Len(hs), others))
    BY DEF BalancedUniverse
  <2> HIDE DEF U, F
  <2> QED
    BY <2>1, <2>2, <2>3
<1> HIDE DEF F
<1>4. ASSUME NEW A, A \subseteq F PROVE Listable(A)
  BY <1>1, <1>4, FS_Subset DEF Listable
<1>5. K \subseteq F /\ Q \subseteq F /\ K \cap Q = {}
  OBVIOUS
<1> HIDE DEF K, Q
<1>6. (limit + 1) \div 2 \in Nat /\ limit \div 2 \in Nat /\ (limit + 1) \div 2 + limit \div 2 = limit
  OBVIOUS
<1>7. PICK f \in Nat : f = Cardinality(F)
  BY <1>1, FS_CardinalityType
<1>8. /\ first \in Seq(F) /\ Len(first) <= (limit + 1) \div 2 /\ Len(first) \in Nat
      /\ Range(first) \subseteq K /\ IsFiniteSet(Range(first)) /\ Cardinality(Range(first)) = Len(first)
  <2>1. /\ first \in Seq(K) /\ Len(first) = (IF Cardinality(K) < (limit + 1) \div 2 THEN Cardinality(K) ELSE (limit + 1) \div 2)
        /\ Range(first) \subseteq K /\ IsFiniteSet(Range(first))
        /\ Cardinality(Range(first)) = Len(first) /\ Cardinality(K) \in Nat
    BY <1>4, <1>5, <1>6, BestRecords
  <2> HIDE DEF first
  <2>2. first \in Seq(F)
    BY <1>5, <2>1
  <2> QED
    BY <1>6, <2>1, <2>2
<1>9. /\ second \in Seq(F) /\ Len(second) <= limit \div 2 /\ Len(second) \in Nat
      /\ Range(second) \subseteq Q /\ IsFiniteSet(Range(second)) /\ Cardinality(Range(second)) = Len(second)
  <2>1. /\ second \in Seq(Q) /\ Len(second) = (IF Cardinality(Q) < limit \div 2 THEN Cardinality(Q) ELSE limit \div 2)
        /\ Range(second) \subseteq Q /\ IsFiniteSet(Range(second))
        /\ Cardinality(Range(second)) = Len(second) /\ Cardinality(Q) \in Nat
    BY <1>4, <1>5, <1>6, BestRecords
  <2> HIDE DEF second
  <2>2. second \in Seq(F)
    BY <1>5, <2>1
  <2> QED
    BY <1>6, <2>1, <2>2
<1> HIDE DEF first, second
<1>10. /\ halves \in Seq(F) /\ Len(halves) = Len(first) + Len(second)
       /\ Range(halves) = Range(first) \cup Range(second) /\ IsFiniteSet(Range(halves))
       /\ Cardinality(Range(halves)) = Len(halves)
  <2>1. Range(first) \cap Range(second) = {}
    BY <1>5, <1>8, <1>9
  <2> QED
    BY <1>8, <1>9, <2>1, ListsJoined
<1> HIDE DEF halves
<1>11. PICK h \in Nat : h = Len(halves) /\ h <= limit
  BY <1>6, <1>8, <1>9, <1>10
<1>12. Range(halves) \subseteq F
  BY <1>5, <1>8, <1>9, <1>10
<1>13. O \subseteq F /\ O \cap Range(halves) = {} /\ Cardinality(O) = f - h
  <2>1. Cardinality(F \ Range(halves)) = Cardinality(F) - Cardinality(F \cap Range(halves))
    BY <1>1, FS_Difference
  <2>2. F \cap Range(halves) = Range(halves)
    BY <1>12
  <2> QED
    BY <1>7, <1>10, <1>11, <2>1, <2>2
<1> HIDE DEF O
<1>14. limit - Len(halves) \in Nat /\ limit - Len(halves) = limit - h
  BY <1>11
<1>15. /\ third \in Seq(F) /\ Len(third) = (IF f - h < limit - h THEN f - h ELSE limit - h)
       /\ Range(third) \subseteq O /\ IsFiniteSet(Range(third)) /\ Cardinality(Range(third)) = Len(third)
       /\ f - h \in Nat
  <2>1. /\ third \in Seq(O)
        /\ Len(third) = (IF Cardinality(O) < limit - Len(halves) THEN Cardinality(O) ELSE limit - Len(halves))
        /\ Range(third) \subseteq O /\ IsFiniteSet(Range(third))
        /\ Cardinality(Range(third)) = Len(third) /\ Cardinality(O) \in Nat
    BY <1>4, <1>13, <1>14, BestRecords
  <2> HIDE DEF third
  <2>2. third \in Seq(F)
    BY <1>13, <2>1
  <2> QED
    BY <1>13, <1>14, <2>1, <2>2
<1> HIDE DEF third
<1>16. /\ whole \in Seq(F) /\ Len(whole) = Len(halves) + Len(third)
       /\ Range(whole) = Range(halves) \cup Range(third) /\ IsFiniteSet(Range(whole))
       /\ Cardinality(Range(whole)) = Len(whole)
  <2>1. Range(halves) \cap Range(third) = {}
    BY <1>13, <1>15
  <2> QED
    BY <1>10, <1>15, <2>1, ListsJoined
<1> HIDE DEF whole
<1>17. Len(whole) = (IF f <= limit THEN f ELSE limit) /\ Len(whole) \in Nat
  BY <1>11, <1>15, <1>16
<1>18. r = whole
  <2>1. r = SubSeq(whole, 1, IF Len(whole) < limit THEN Len(whole) ELSE limit)
    BY <1>3 DEF Upto
  <2>2. (IF Len(whole) < limit THEN Len(whole) ELSE limit) = Len(whole)
    BY <1>17
  <2>3. SubSeq(whole, 1, Len(whole)) = whole
    BY <1>16
  <2> QED
    BY <2>1, <2>2, <2>3
<1>19. Cardinality({x.code : x \in L}) = f
  <2>1. Cardinality({x.code : x \in F}) = Cardinality(F)
    BY <1>1, CodesCounted
  <2> QED
    BY <1>1, <1>7, <2>1
<1>20. Min({limit, f}) = IF f <= limit THEN f ELSE limit
  BY LesserOf
<1>21. Cardinality({x.code : x \in Range(r)}) = Len(r)
  <2>1. Range(r) \subseteq F
    BY <1>12, <1>13, <1>15, <1>16, <1>18
  <2>2. \A x, y \in Range(r) : x.code = y.code => x = y
    BY <1>1, <2>1
  <2>3. IsFiniteSet(Range(r))
    BY <1>16, <1>18
  <2> QED
    BY <1>16, <1>18, <2>2, <2>3, CodesCounted
<1> QED
  BY <1>17, <1>18, <1>19, <1>20, <1>21

\* What the builder of the snapshot writes is what the collection accepts, the
\* named ones of the listed codes.
LEMMA SnapshotLoads ==
    ASSUME NEW u, Answerable(u)
    PROVE  LET codes == {r.code : r \in {r \in Masters(u) : Listed(r)}}
               named == {a.code : a \in {a \in u.answers : a.name # 0}}
               rows == Snapshot(Masters(u))
           IN /\ Loads(rows)
              /\ {r.code : r \in Range(rows)} = codes \cap named
<1> DEFINE M == Masters(u)
           N == {r \in M : r.name # 0 /\ Listed(r)}
           F == FirstOfCode(N)
           rows == Snapshot(M)
           codes == {r.code : r \in {r \in M : Listed(r)}}
           named == {a.code : a \in {a \in u.answers : a.name # 0}}
<1>1. Listable(N) /\ \A r \in N : r \in M /\ r.name # 0 /\ Listed(r)
  BY MastersAre
<1>2. /\ F \subseteq N /\ Listable(F) /\ FirstOfCode(F) = F
      /\ {r.code : r \in F} = {r.code : r \in N}
  BY <1>1, FirstsAre
<1>3. rows = Ordered(F, EarlierRecord)
  BY DEF Snapshot, OneOfEach
<1>4. {r.code : r \in N} = codes \cap named
  <2>1. ASSUME NEW r \in N PROVE r.code \in codes /\ r.code \in named
    <3>1. PICK a \in u.answers : r = MasterRecord(a)
      BY DEF Masters
    <3>2. a.name # 0 /\ a.code = r.code
      BY <3>1 DEF MasterRecord
    <3> QED
      BY <3>1, <3>2
  <2>2. ASSUME NEW a \in u.answers, a.name # 0, NEW r \in M, Listed(r), r.code = a.code
        PROVE  \E n \in N : n.code = a.code
    <3> DEFINE s == MasterRecord(a)
    <3>1. s \in M /\ s.code = a.code /\ s.name # 0
      BY <2>2 DEF Masters, MasterRecord
    <3> HIDE DEF s
    <3>2. s.type = r.type /\ s.trades = r.trades /\ s.market \in Range(Markets)
      BY <2>2, <3>1, MastersAre
    <3>3. Listed(s)
      BY <2>2, <3>1, <3>2 DEF Listed
    <3> QED
      BY <3>1, <3>3
  <2>3. ASSUME NEW c \in codes, c \in named PROVE \E n \in N : n.code = c
    <3>1. PICK r \in M : Listed(r) /\ r.code = c
      OBVIOUS
    <3>2. PICK a \in u.answers : a.name # 0 /\ a.code = c
      BY <2>3
    <3> QED
      BY <2>2, <3>1, <3>2
  <2> HIDE DEF N, codes, named
  <2> QED
    BY <2>1, <2>3
<1> HIDE DEF N, F, M
<1>5. Range(rows) = F
  BY <1>2, <1>3, BestRecords, 0 \in Nat
<1>6. Loads(rows)
  <2>1. \A r \in F : r.name # 0 /\ r.market \in Range(Markets) /\ r.code # Bad
    BY <1>1, <1>2 DEF Listed
  <2>2. {r \in Range(rows) : r.market \in Range(Markets) /\ r.code # Bad} = F
    BY <1>5, <2>1
  <2>3. OneOfEach(F) = rows
    BY <1>2, <1>3 DEF OneOfEach
  <2> HIDE DEF rows
  <2> QED
    BY <1>5, <2>1, <2>2, <2>3 DEF Loads
<1> HIDE DEF rows, codes, named
<1>7. {r.code : r \in Range(rows)} = codes \cap named
  BY <1>2, <1>4, <1>5
<1> QED
  BY <1>6, <1>7 DEF rows, codes, named, M

\* What a universe owes to the answers.
UniverseBest(u, r) ==
    LET codes == {x.code : x \in {x \in Masters(u) : Listed(x)}}
        excluded == {a.code : a \in {a \in u.answers : a.halted \/ Range(Excluding) \cap a.labels # {}}}
        named == {a.code : a \in {a \in u.answers : a.name # 0}}
        rows == Snapshot(Masters(u))
    IN /\ Len(r) = Min({u.limit, Cardinality(codes)})
       /\ Cardinality({x.code : x \in Range(r)}) = Len(r)
       /\ codes \cap excluded = {}
       /\ Loads(rows)
       /\ {x.code : x \in Range(rows)} = codes \cap named

\* The universe and the snapshot of any answers.
LEMMA UniversesAreBest ==
    ASSUME NEW u, Answerable(u), NEW r, r = BalancedUniverse(Masters(u), u.limit)
    PROVE  UniverseBest(u, r)
<1> DEFINE codes == {x.code : x \in {x \in Masters(u) : Listed(x)}}
           excluded == {a.code : a \in {a \in u.answers : a.halted \/ Range(Excluding) \cap a.labels # {}}}
           named == {a.code : a \in {a \in u.answers : a.name # 0}}
           rows == Snapshot(Masters(u))
<1>1. ASSUME NEW c \in codes, c \in excluded PROVE FALSE
  <2>1. PICK x \in Masters(u) : Listed(x) /\ x.code = c
    OBVIOUS
  <2>2. PICK a \in u.answers : x = MasterRecord(a)
    BY DEF Masters
  <2>3. PICK b \in u.answers : b.code = c /\ (b.halted \/ Range(Excluding) \cap b.labels # {})
    BY <1>1
  <2>4. a.labels = b.labels /\ a.halted = b.halted
    BY <2>1, <2>2, <2>3 DEF MasterRecord, Answerable
  <2>5. SecurityType(a.labels) = "common_stock" /\ ~a.halted
    BY <2>1, <2>2 DEF MasterRecord, Listed
  <2>6. Range(Excluding) \cap a.labels = {}
    BY <2>5, CommonStocks
  <2> QED
    BY <2>3, <2>4, <2>5, <2>6
<1>2. codes \cap excluded = {}
  BY <1>1
<1>3. Listable({x \in Masters(u) : Listed(x)})
  BY MastersAre
<1>4. Len(r) = Min({u.limit, Cardinality(codes)}) /\ Cardinality({x.code : x \in Range(r)}) = Len(r)
  BY <1>3, BalancedIs DEF Answerable
<1>5. Loads(rows) /\ {x.code : x \in Range(rows)} = codes \cap named
  BY SnapshotLoads
<1> HIDE DEF codes, excluded, named, rows
<1> QED
  BY <1>2, <1>4, <1>5 DEF UniverseBest, codes, excluded, named, rows

-----------------------------------------------------------------------------
(***************************************************************************)
(* What a signal and a flow look at.  Both are made of a set: the signal   *)
(* of the weeks that have ended, the flow of the first row of each day.    *)
(* What does not change the set changes nothing.                           *)
(***************************************************************************)

\* A row keeps its day, how it was read and its high; one that is no sound bar of
\* the week keeps all.
LEMMA ChangedRows ==
    ASSUME NEW rows \in Seq(BarRows), NEW w \in Int, NEW new, new = Changed(rows, w)
    PROVE  /\ DOMAIN new = DOMAIN rows
           /\ \A k \in DOMAIN rows :
                /\ new[k].day = rows[k].day /\ new[k].adjusted = rows[k].adjusted
                /\ new[k].read = rows[k].read
                /\ new[k] # rows[k] =>
                     /\ k \in BarsOf(rows) /\ Sound(rows[k]) /\ WeekOf(rows[k]) = w
                     /\ new[k].low = rows[k].low /\ new[k].high = rows[k].high
                     /\ new[k].close = rows[k].high
<1>1. DOMAIN new = DOMAIN rows
  BY DEF Changed
<1>2. ASSUME NEW k \in DOMAIN rows
      PROVE  /\ new[k].day = rows[k].day /\ new[k].adjusted = rows[k].adjusted
             /\ new[k].read = rows[k].read
             /\ new[k] # rows[k] =>
                  /\ k \in BarsOf(rows) /\ Sound(rows[k]) /\ WeekOf(rows[k]) = w
                  /\ new[k].low = rows[k].low /\ new[k].high = rows[k].high
                  /\ new[k].close = rows[k].high
  <2>1. rows[k] \in BarRows
    OBVIOUS
  <2>2. CASE k \in BarsOf(rows) /\ Sound(rows[k]) /\ WeekOf(rows[k]) = w
    <3>1. new[k] = [rows[k] EXCEPT !.close = rows[k].high]
      BY <2>2 DEF Changed
    <3> QED
      BY <2>1, <2>2, <3>1 DEF BarRows
  <2>3. CASE ~(k \in BarsOf(rows) /\ Sound(rows[k]) /\ WeekOf(rows[k]) = w)
    <3>1. new[k] = rows[k]
      BY <2>3 DEF Changed
    <3> QED
      BY <3>1
  <2> QED
    BY <2>2, <2>3
<1> QED
  BY <1>1, <1>2

\* The bar of a row has whole numbers.
LEMMA BarsAre ==
    ASSUME NEW rows \in Seq(BarRows), NEW k \in BarsOf(rows)
    PROVE  /\ k \in DOMAIN rows /\ rows[k] \in BarRows /\ rows[k].day \in Int
           /\ rows[k].close \in Int /\ rows[k].low \in Int /\ rows[k].high \in Int
<1>1. /\ k \in DOMAIN rows /\ rows[k].day # Bad
      /\ {None, Bad} \cap {rows[k].close, rows[k].low, rows[k].high} = {}
  BY DEF BarsOf, Dated, Prices
<1>2. rows[k] \in BarRows
  BY <1>1
<1> QED
  BY <1>1, <1>2 DEF BarRows

\* The same rows are chosen, with or without the change.
LEMMA ChangeChooses ==
    ASSUME NEW rows \in Seq(BarRows), NEW w \in Int, NEW new, new = Changed(rows, w),
           NEW now \in [day : Int, closed : BOOLEAN]
    PROVE  /\ Garbled(new) <=> Garbled(rows)
           /\ KnownBars(new, now) = KnownBars(rows, now)
           /\ Mixed(new, now) <=> Mixed(rows, now)
           /\ Chosen(new, now) = Chosen(rows, now)
<1>1. /\ DOMAIN new = DOMAIN rows
      /\ \A k \in DOMAIN rows :
           /\ new[k].day = rows[k].day /\ new[k].adjusted = rows[k].adjusted
           /\ new[k].read = rows[k].read
           /\ new[k] # rows[k] =>
                /\ k \in BarsOf(rows) /\ Sound(rows[k]) /\ WeekOf(rows[k]) = w
                /\ new[k].low = rows[k].low /\ new[k].high = rows[k].high
                /\ new[k].close = rows[k].high
  BY ChangedRows
<1> HIDE DEF Changed
<1>2. Dated(new) = Dated(rows)
  BY <1>1 DEF Dated
<1>3. ASSUME NEW k \in Dated(rows)
      PROVE  /\ Bad \in Prices(new[k]) <=> Bad \in Prices(rows[k])
             /\ k \in BarsOf(new) <=> k \in BarsOf(rows)
             /\ k \in BarsOf(rows) => (Sound(new[k]) <=> Sound(rows[k]))
  <2>0. k \in DOMAIN rows
    BY DEF Dated
  <2>1. CASE new[k] = rows[k]
    BY <1>2, <2>1 DEF BarsOf
  <2>2. CASE new[k] # rows[k]
    <3>1. /\ k \in BarsOf(rows) /\ Sound(rows[k])
          /\ new[k].low = rows[k].low /\ new[k].high = rows[k].high
          /\ new[k].close = rows[k].high
      BY <1>1, <2>0, <2>2
    <3>2. Prices(new[k]) \subseteq Prices(rows[k])
      BY <3>1 DEF Prices
    <3>3. {None, Bad} \cap Prices(rows[k]) = {}
      BY <3>1 DEF BarsOf
    <3>4. {None, Bad} \cap Prices(new[k]) = {}
      BY <3>2, <3>3
    <3>5. rows[k].low \in Int /\ rows[k].high \in Int /\ rows[k].close \in Int
      BY <3>1, BarsAre
    <3>6. Sound(new[k])
      BY <3>1, <3>5 DEF Sound
    <3> QED
      BY <1>2, <3>1, <3>3, <3>4, <3>6 DEF BarsOf
  <2> QED
    BY <2>1, <2>2
<1>4. BarsOf(new) = BarsOf(rows) /\ (Garbled(new) <=> Garbled(rows))
  BY <1>2, <1>3 DEF BarsOf, Garbled
<1>5. BarsOf(rows) \subseteq DOMAIN rows /\ BarsOf(rows) \subseteq Dated(rows)
  BY DEF BarsOf, Dated
<1>6. KnownBars(new, now) = KnownBars(rows, now)
  BY <1>1, <1>4, <1>5 DEF KnownBars
<1>7. KnownBars(rows, now) \subseteq BarsOf(rows)
  BY DEF KnownBars
<1>8. {new[k].adjusted : k \in KnownBars(rows, now)} = {rows[k].adjusted : k \in KnownBars(rows, now)}
  BY <1>1, <1>5, <1>7
<1>9. Mixed(new, now) <=> Mixed(rows, now)
  BY <1>6, <1>8 DEF Mixed
<1>10. {k \in KnownBars(new, now) : Sound(new[k])} = {k \in KnownBars(rows, now) : Sound(rows[k])}
  BY <1>3, <1>5, <1>6, <1>7
<1>11. \A j, k \in DOMAIN rows : Later(new, j, k) <=> Later(rows, j, k)
  BY <1>1 DEF Later
<1>12. Chosen(new, now) = Chosen(rows, now)
  <2> DEFINE S == {k \in KnownBars(rows, now) : Sound(rows[k])}
  <2>1. S \subseteq DOMAIN rows
    BY <1>5, <1>7
  <2>2. Chosen(new, now) = {k \in S : ~\E j \in S : Later(new, j, k)}
    BY <1>10 DEF Chosen
  <2>3. Chosen(rows, now) = {k \in S : ~\E j \in S : Later(rows, j, k)}
    BY DEF Chosen
  <2> HIDE DEF S
  <2> QED
    BY <1>11, <2>1, <2>2, <2>3
<1> QED
  BY <1>4, <1>6, <1>9, <1>12

\* A chosen row is a bar of a day that has come.
LEMMA ChosenAre ==
    ASSUME NEW rows \in Seq(BarRows), NEW now \in [day : Int, closed : BOOLEAN],
           NEW k \in Chosen(rows, now)
    PROVE  /\ k \in DOMAIN rows /\ rows[k].day \in Int /\ rows[k].day <= now.day
           /\ WeekOf(rows[k]) \in Int
<1>1. k \in BarsOf(rows) /\ rows[k].day <= now.day
  BY DEF Chosen, KnownBars
<1>2. k \in DOMAIN rows /\ rows[k].day \in Int
  BY <1>1, BarsAre
<1> QED
  BY <1>1, <1>2 DEF WeekOf

\* The bars of a week have a last one.
LEMMA LastBar ==
    ASSUME NEW days, days # {}, \A b \in days : b.day \in Int,
           NEW bound \in Int, \A b \in days : b.day <= bound,
           NEW last, last = CHOOSE b \in days : \A c \in days : c.day <= b.day
    PROVE  last \in days /\ \A c \in days : c.day <= last.day
<1> DEFINE I == {bound - b.day : b \in days}
<1>1. I \in SUBSET Nat /\ I # {}
  OBVIOUS
<1>2. PICK i \in I : \A j \in I : i <= j
  <2> HIDE DEF I
  <2> QED
    BY <1>1, LeastOf
<1>3. PICK b \in days : i = bound - b.day
  BY <1>2
<1>4. \A c \in days : bound - b.day <= bound - c.day
  BY <1>2, <1>3
<1>5. \A c \in days : c.day <= b.day
  BY <1>4
<1> QED
  BY <1>3, <1>5

\* The week of a day and its place in the week.
LEMMA WeekDays ==
    ASSUME NEW n \in Int
    PROVE  n \div 7 \in Int /\ n % 7 \in 0 .. 6 /\ n = 7 * (n \div 7) + (n % 7)
  OBVIOUS

\* Bars of days that have come, which differ in the current week at most: as long
\* as it is not over, the weeks that have ended are the same.
LEMMA RunningWeek ==
    ASSUME NEW now \in [day : Int, closed : BOOLEAN],
           now.day % 7 < 4 \/ (now.day % 7 = 4 /\ ~now.closed),
           NEW A, NEW B,
           \A b \in A \cup B : b.day \in Int /\ b.day <= now.day,
           {WeekOf(b) : b \in A} = {WeekOf(b) : b \in B},
           \A v \in Int : v # now.day \div 7 =>
               {b \in A : WeekOf(b) = v} = {b \in B : WeekOf(b) = v}
    PROVE  {w \in Weeks(A, now) : Ended(w, now)} = {w \in Weeks(B, now) : Ended(w, now)}
<1> DEFINE current == now.day \div 7
           W == {WeekOf(b) : b \in A}
<1>1. now.day \in Int /\ now.closed \in BOOLEAN
  OBVIOUS
<1>0. current \in Int /\ now.day % 7 \in 0 .. 6 /\ now.day = 7 * current + (now.day % 7)
  BY <1>1, WeekDays
<1>2. ASSUME NEW C, C = A \/ C = B, NEW b \in C PROVE b.day \in Int /\ b.day <= now.day /\ WeekOf(b) <= current /\ WeekOf(b) \in Int
  <2>1. b.day \in Int /\ b.day <= now.day
    BY <1>2
  <2> DEFINE d == b.day   w == d \div 7
  <2>2. w \in Int /\ d % 7 \in 0 .. 6 /\ d = 7 * w + (d % 7)
    BY <2>1, WeekDays
  <2>3. WeekOf(b) = w
    BY DEF WeekOf
  <2> HIDE DEF w, current
  <2>4. w <= current
    BY <1>0, <1>1, <2>1, <2>2
  <2> QED
    BY <2>1, <2>2, <2>3, <2>4
<1>3. /\ Weeks(A, now) = {Week(A, v, now) : v \in W}
      /\ Weeks(B, now) = {Week(B, v, now) : v \in W}
  <2>1. W = {WeekOf(b) : b \in B}
    OBVIOUS
  <2> QED
    BY <2>1 DEF Weeks
<1>4. ASSUME NEW C, C = A \/ C = B, current \in W PROVE ~Ended(Week(C, current, now), now)
  <2> DEFINE days == {b \in C : WeekOf(b) = current}
             last == CHOOSE b \in days : \A c \in days : c.day <= b.day
  <2>1. W = {WeekOf(b) : b \in C}
    BY <1>4
  <2>2. days # {} /\ \A b \in days : b.day \in Int /\ b.day <= now.day
    BY <1>2, <1>4, <2>1
  <2>3. last \in days
    <3> HIDE DEF days
    <3> QED
      BY <1>1, <2>2, LastBar
  <2>4. ~\E b \in C : WeekOf(b) > current
    <3>1. \A b \in C : WeekOf(b) <= current /\ WeekOf(b) \in Int
      BY <1>2, <1>4
    <3> HIDE DEF current
    <3> QED
      BY <1>0, <3>1
  <2>5. Week(C, current, now).complete <=> WeekOver(last.day, now)
    BY <2>4 DEF Week
  <2>6. last.day \in Int /\ last.day <= now.day /\ last.day \div 7 = current
    BY <2>2, <2>3 DEF WeekOf
  <2>7. ~WeekOver(last.day, now)
    <3> DEFINE d == last.day
    <3> HIDE DEF last
    <3>1. d = 7 * current + (d % 7) /\ d % 7 \in 0 .. 6
      BY <2>6, WeekDays
    <3> HIDE DEF d, current
    <3>2. d \in Int /\ d <= now.day
      BY <2>6 DEF d
    <3>3. ~(d % 7 = 4 /\ (now.day > d \/ now.closed))
      BY <1>0, <1>1, <3>1, <3>2
    <3> QED
      BY <3>3 DEF WeekOver, d
  <2> QED
    BY <2>5, <2>7 DEF Ended
<1>5. ASSUME NEW v \in W, v # current PROVE Week(A, v, now) = Week(B, v, now)
  <2>1. v \in Int
    BY <1>2
  <2> DEFINE days == {b \in A : WeekOf(b) = v}
  <2>2. {b \in B : WeekOf(b) = v} = days
    BY <1>5, <2>1
  <2>3. (\E b \in A : WeekOf(b) > v) <=> \E u \in W : u > v
    OBVIOUS
  <2>4. (\E b \in B : WeekOf(b) > v) <=> \E u \in {WeekOf(b) : b \in B} : u > v
    OBVIOUS
  <2>5. (\E b \in A : WeekOf(b) > v) <=> (\E b \in B : WeekOf(b) > v)
    BY <2>3, <2>4
  <2> DEFINE last == CHOOSE b \in days : \A c \in days : c.day <= b.day
  <2>7. Week(A, v, now) =
          [end |-> last.day, close |-> last.close,
           low |-> Min({b.low : b \in days}), high |-> Max({b.high : b \in days}),
           complete |-> (\E b \in A : WeekOf(b) > v) \/ WeekOver(last.day, now)]
    BY DEF Week
  <2>8. Week(B, v, now) =
          [end |-> last.day, close |-> last.close,
           low |-> Min({b.low : b \in days}), high |-> Max({b.high : b \in days}),
           complete |-> (\E b \in B : WeekOf(b) > v) \/ WeekOver(last.day, now)]
    BY <2>2 DEF Week
  <2> HIDE DEF days, last
  <2> QED
    BY <2>5, <2>7, <2>8
<1> HIDE DEF W, current
<1> QED
  BY <1>3, <1>4, <1>5

\* A signal is made of the weeks that have ended.
LEMMA SignalOfEnded ==
    ASSUME NEW V, NEW W, NEW asOf, {w \in V : Ended(w, asOf)} = {w \in W : Ended(w, asOf)}
    PROVE  WeeklySignal(V, asOf) = WeeklySignal(W, asOf)
<1> DEFINE S == {w \in V : Ended(w, asOf)}
           T == {w \in W : Ended(w, asOf)}
           done == Ordered(S, LAMBDA v, w : v.end < w.end)
           done2 == Ordered(T, LAMBDA v, w : v.end < w.end)
           n(o) == Len(o)
           sum(o, k) == SumOf([j \in k - 4 .. k |-> o[j].close])
           above(o, k) == 5 * o[k].close > sum(o, k)
           Signal(o) == IF n(o) < 5 THEN None
                        ELSE [above |-> above(o, n(o)), rising |-> n(o) > 5 /\ sum(o, n(o)) > sum(o, n(o) - 1),
                              weeks |-> n(o) - Max({4} \cup {k \in 5 .. n(o) : ~above(o, k)}), end |-> o[n(o)].end]
<1>1. done = done2
  <2>1. S = T
    OBVIOUS
  <2> HIDE DEF S, T
  <2>2. done = [k \in 1 .. Cardinality(S) |-> CHOOSE x \in S : Cardinality({y \in S : y.end < x.end}) = k - 1]
    BY DEF Ordered
  <2>3. done2 = [k \in 1 .. Cardinality(T) |-> CHOOSE x \in T : Cardinality({y \in T : y.end < x.end}) = k - 1]
    BY DEF Ordered
  <2> HIDE DEF done, done2
  <2> QED
    BY <2>1, <2>2, <2>3
<1>2. WeeklySignal(V, asOf) = Signal(done)
  BY DEF WeeklySignal
<1>3. WeeklySignal(W, asOf) = Signal(done2)
  BY DEF WeeklySignal
<1> HIDE DEF Signal, done, done2
<1> QED
  BY <1>1, <1>2, <1>3

\* Other prices of the bars of a week change nothing as long as it is not over.
LEMMA RunningWeekUnread ==
    ASSUME NEW rows \in Seq(BarRows), NEW now \in [day : Int, closed : BOOLEAN],
           now.day % 7 < 4 \/ (now.day % 7 = 4 /\ ~now.closed)
    PROVE  SignalOf(Changed(rows, now.day \div 7), now) = SignalOf(rows, now)
<1> DEFINE w == now.day \div 7
           new == Changed(rows, w)
           A == DailyBars(rows, now)
           B == DailyBars(new, now)
           I == Chosen(rows, now)
<1>1. w \in Int
  <2>1. now.day \in Int
    OBVIOUS
  <2> QED
    BY <2>1, WeekDays
<1> HIDE DEF w
<1>2. /\ Garbled(new) <=> Garbled(rows)
      /\ Mixed(new, now) <=> Mixed(rows, now)
      /\ Chosen(new, now) = I
  BY <1>1, ChangeChooses
<1>3. \A k \in DOMAIN rows :
        /\ new[k].day = rows[k].day
        /\ new[k] # rows[k] => WeekOf(rows[k]) = w
  BY <1>1, ChangedRows
<1> HIDE DEF new
<1>4. A = {rows[k] : k \in I} /\ B = {new[k] : k \in I}
  BY <1>2 DEF DailyBars
<1>5. \A k \in I : /\ k \in DOMAIN rows /\ rows[k].day \in Int /\ rows[k].day <= now.day
                   /\ new[k].day = rows[k].day /\ WeekOf(new[k]) = WeekOf(rows[k])
                   /\ new[k] # rows[k] => WeekOf(rows[k]) = w
  BY <1>3, ChosenAre DEF WeekOf
<1> HIDE DEF A, B, I
<1>6. \A b \in A \cup B : b.day \in Int /\ b.day <= now.day
  BY <1>4, <1>5
<1>7. {WeekOf(b) : b \in A} = {WeekOf(b) : b \in B}
  <2>1. {WeekOf(b) : b \in A} = {WeekOf(rows[k]) : k \in I}
    BY <1>4
  <2>2. {WeekOf(b) : b \in B} = {WeekOf(new[k]) : k \in I}
    BY <1>4
  <2>3. {WeekOf(new[k]) : k \in I} = {WeekOf(rows[k]) : k \in I}
    BY <1>5
  <2> QED
    BY <2>1, <2>2, <2>3
<1>8. ASSUME NEW v, v # w PROVE {b \in A : WeekOf(b) = v} = {b \in B : WeekOf(b) = v}
  <2>1. \A k \in I : WeekOf(rows[k]) = v => new[k] = rows[k]
    BY <1>5, <1>8
  <2>2. {b \in A : WeekOf(b) = v} \subseteq {b \in B : WeekOf(b) = v}
    BY <1>4, <2>1
  <2>3. {b \in B : WeekOf(b) = v} \subseteq {b \in A : WeekOf(b) = v}
    BY <1>4, <1>5, <2>1
  <2> QED
    BY <2>2, <2>3
<1>9. {x \in Weeks(A, now) : Ended(x, now)} = {x \in Weeks(B, now) : Ended(x, now)}
  <2>1. \A v \in Int : v # now.day \div 7 =>
          {b \in A : WeekOf(b) = v} = {b \in B : WeekOf(b) = v}
    BY <1>8 DEF w
  <2> QED
    BY ONLY <1>6, <1>7, <2>1, RunningWeek, now \in [day : Int, closed : BOOLEAN],
            now.day % 7 < 4 \/ (now.day % 7 = 4 /\ ~now.closed)
<1>10. WeeklySignal(Weeks(A, now), now) = WeeklySignal(Weeks(B, now), now)
  <2> DEFINE V == Weeks(A, now)   W == Weeks(B, now)
  <2> HIDE DEF V, W
  <2>1. {x \in V : Ended(x, now)} = {x \in W : Ended(x, now)}
    BY <1>9 DEF V, W
  <2>2. WeeklySignal(V, now) = WeeklySignal(W, now)
    BY <2>1, SignalOfEnded
  <2> QED
    BY <2>2 DEF V, W
<1>11. SignalOf(new, now) = SignalOf(rows, now)
  BY <1>2, <1>10 DEF SignalOf, A, B
<1> QED
  BY <1>11 DEF w, new

\* The bars of the next week change nothing.
LEMMA NextWeekUnread ==
    ASSUME NEW rows \in Seq(BarRows), NEW now \in [day : Int, closed : BOOLEAN]
    PROVE  SignalOf(Changed(rows, now.day \div 7 + 1), now) = SignalOf(rows, now)
<1> DEFINE v == now.day \div 7
           w == v + 1
           new == Changed(rows, w)
           I == Chosen(rows, now)
<1>1. v \in Int /\ now.day \in Int /\ now.day % 7 \in 0 .. 6 /\ now.day = 7 * v + (now.day % 7)
  <2>1. now.day \in Int
    OBVIOUS
  <2> QED
    BY <2>1, WeekDays
<1> HIDE DEF v
<1>2. w \in Int
  BY <1>1
<1>3. /\ Garbled(new) <=> Garbled(rows)
      /\ Mixed(new, now) <=> Mixed(rows, now)
      /\ Chosen(new, now) = I
  BY <1>2, ChangeChooses
<1>4. \A k \in DOMAIN rows : new[k] # rows[k] => WeekOf(rows[k]) = w
  BY <1>2, ChangedRows
<1> HIDE DEF new
<1>5. ASSUME NEW k \in I PROVE new[k] = rows[k]
  <2>1. k \in DOMAIN rows /\ rows[k].day \in Int /\ rows[k].day <= now.day
    BY ChosenAre
  <2> DEFINE d == rows[k].day   u == d \div 7
  <2>2. u \in Int /\ d % 7 \in 0 .. 6 /\ d = 7 * u + (d % 7)
    BY <2>1, WeekDays
  <2>3. WeekOf(rows[k]) = u
    BY DEF WeekOf
  <2> HIDE DEF d, u
  <2>4. d \in Int /\ d <= now.day
    BY <2>1 DEF d
  <2>5. u # w
    BY <1>1, <2>2, <2>4
  <2> QED
    BY <1>4, <2>1, <2>3, <2>5
<1>6. DailyBars(new, now) = DailyBars(rows, now)
  BY <1>3, <1>5 DEF DailyBars
<1>7. SignalOf(new, now) = SignalOf(rows, now)
  BY <1>3, <1>6 DEF SignalOf
<1> QED
  BY <1>7 DEF v, new

\* The rows from the last to the first, and the place each one then has.
LEMMA Reversed ==
    ASSUME NEW R, NEW s \in Seq(R), NEW r, r = Reverse(s)
    PROVE  /\ DOMAIN r = DOMAIN s
           /\ \A k \in DOMAIN s : \E j \in DOMAIN s : r[j] = s[k]
           /\ \A j \in DOMAIN s : \E k \in DOMAIN s : r[j] = s[k]
<1> DEFINE n == Len(s)
<1>1. n \in Nat /\ DOMAIN s = 1 .. n
  OBVIOUS
<1>2. r = [i \in 1 .. n |-> s[(n - i) + 1]]
  BY DEF Reverse
<1> HIDE DEF n
<1>3. \A k \in 1 .. n : (n - k) + 1 \in 1 .. n /\ (n - ((n - k) + 1)) + 1 = k
  BY <1>1
<1>4. \A k \in 1 .. n : r[(n - k) + 1] = s[k]
  BY <1>2, <1>3
<1>5. \A k \in 1 .. n : r[k] = s[(n - k) + 1]
  BY <1>2
<1>6. DOMAIN r = 1 .. n
  BY <1>2
<1> QED
  BY <1>1, <1>3, <1>4, <1>5, <1>6

\* With one row a day each bar that has come and is sound is chosen.
LEMMA OneBarADay ==
    ASSUME NEW rows \in Seq(BarRows), OneADay(rows), NEW now
    PROVE  DailyBars(rows, now) =
             {b \in {rows[k] : k \in DOMAIN rows} :
                b.day # Bad /\ {None, Bad} \cap Prices(b) = {} /\ b.day <= now.day /\ Sound(b)}
<1> DEFINE S == {k \in KnownBars(rows, now) : Sound(rows[k])}
<1>1. S = {k \in DOMAIN rows : /\ rows[k].day # Bad /\ {None, Bad} \cap Prices(rows[k]) = {}
                               /\ rows[k].day <= now.day /\ Sound(rows[k])}
  BY DEF KnownBars, BarsOf, Dated
<1>2. \A j, k \in S : ~Later(rows, j, k)
  <2> SUFFICES ASSUME NEW j \in S, NEW k \in S, Later(rows, j, k) PROVE FALSE
    OBVIOUS
  <2>1. j \in DOMAIN rows /\ k \in DOMAIN rows /\ rows[j].day = rows[k].day
    BY <1>1 DEF Later
  <2>2. j = k
    BY <2>1 DEF OneADay
  <2>3. rows[k] \in BarRows /\ rows[k].read \in Int /\ k \in Nat
    <3>1. rows[k] \in BarRows /\ k \in Nat
      BY <2>1
    <3> QED
      BY <3>1 DEF BarRows
  <2>4. rows[k].read > rows[k].read \/ k > k
    BY <2>2 DEF Later
  <2> QED
    BY <2>3, <2>4
<1>3. Chosen(rows, now) = {k \in S : ~\E j \in S : Later(rows, j, k)}
  BY DEF Chosen
<1>4. Chosen(rows, now) = S
  <2> HIDE DEF S
  <2> QED
    BY <1>2, <1>3
<1>5. DailyBars(rows, now) = {rows[k] : k \in S}
  BY <1>4 DEF DailyBars
<1> HIDE DEF S
<1> QED
  BY <1>1, <1>5

\* Rows in the opposite order make the same signal.
LEMMA OrderUnread ==
    ASSUME NEW rows \in Seq(BarRows), OneADay(rows), NEW now
    PROVE  SignalOf(Reverse(rows), now) = SignalOf(rows, now)
<1> DEFINE new == Reverse(rows)
           P(b) == b.day # Bad /\ {None, Bad} \cap Prices(b) = {} /\ b.day <= now.day
<1>1. /\ DOMAIN new = DOMAIN rows
      /\ \A k \in DOMAIN rows : \E j \in DOMAIN rows : new[j] = rows[k]
      /\ \A j \in DOMAIN rows : \E k \in DOMAIN rows : new[j] = rows[k]
  BY Reversed
<1>2. new \in Seq(BarRows) /\ OneADay(new)
  <2> DEFINE n == Len(rows)
  <2>1. n \in Nat /\ DOMAIN rows = 1 .. n /\ \A k \in 1 .. n : rows[k] \in BarRows
    OBVIOUS
  <2>2. new = [i \in 1 .. n |-> rows[(n - i) + 1]]
    BY DEF Reverse
  <2> HIDE DEF n, new
  <2>3. \A k \in 1 .. n : (n - k) + 1 \in 1 .. n
    BY <2>1
  <2>4. \A j, k \in 1 .. n : (n - j) + 1 = (n - k) + 1 => j = k
    BY <2>1
  <2>5. DOMAIN new = 1 .. n /\ \A k \in 1 .. n : new[k] = rows[(n - k) + 1]
    BY <2>2
  <2>6. new \in Seq(BarRows)
    <3>1. \A k \in 1 .. n : new[k] \in BarRows
      BY <2>1, <2>3, <2>5
    <3>2. new \in [1 .. n -> BarRows]
      BY <2>2, <2>5, <3>1
    <3> QED
      BY <2>1, <3>2
  <2>7. OneADay(new)
    BY <2>1, <2>3, <2>4, <2>5 DEF OneADay
  <2> QED
    BY <2>6, <2>7
<1> HIDE DEF new
<1>3. {new[k] : k \in DOMAIN new} = {rows[k] : k \in DOMAIN rows}
  BY <1>1
<1>4. DailyBars(new, now) = DailyBars(rows, now)
  BY <1>2, <1>3, OneBarADay
<1>5. Garbled(new) <=> Garbled(rows)
  <2>1. \A s : Garbled(s) <=> \E b \in {s[k] : k \in DOMAIN s} : b.day # Bad /\ Bad \in Prices(b)
    BY DEF Garbled, Dated
  <2> QED
    BY <1>3, <2>1
<1>6. Mixed(new, now) <=> Mixed(rows, now)
  <2>1. \A s : {s[k].adjusted : k \in KnownBars(s, now)} = {b.adjusted : b \in {b \in {s[k] : k \in DOMAIN s} : P(b)}}
    <3> TAKE s
    <3>1. KnownBars(s, now) = {k \in DOMAIN s : P(s[k])}
      BY DEF KnownBars, BarsOf, Dated
    <3> HIDE DEF P
    <3> QED
      BY <3>1
  <2>2. {new[k].adjusted : k \in KnownBars(new, now)} = {rows[k].adjusted : k \in KnownBars(rows, now)}
    BY <1>3, <2>1
  <2> QED
    BY <2>2 DEF Mixed
<1>7. SignalOf(new, now) = SignalOf(rows, now)
  BY <1>4, <1>5, <1>6 DEF SignalOf
<1> QED
  BY <1>7 DEF new

\* What is below an element in the order of a number, and the order itself.
BelowBy(S, key) == [x \in S |-> {y \in S : key[y] < key[x]}]
OrderedBy(S, key) ==
    [k \in 1 .. Cardinality(S) |-> CHOOSE x \in S : Cardinality({y \in S : key[y] < key[x]}) = k - 1]

\* A number that tells the elements of a set apart orders them.
LEMMA NumberOrders ==
    ASSUME NEW S, IsFiniteSet(S), NEW key \in [S -> Int],
           \A x, y \in S : key[x] = key[y] => x = y
    PROVE  Lists(OrderedBy(S, key), S, BelowBy(S, key))
<1> DEFINE below == [x \in S |-> {y \in S : key[y] < key[x]}]
           o == OrderedBy(S, key)
<1>1. StrictOrder(S, below)
  <2>1. \A x \in S : key[x] \in Int
    OBVIOUS
  <2>2. below \in [S -> SUBSET S] /\ \A x, y \in S : y \in below[x] <=> key[y] < key[x]
    OBVIOUS
  <2> HIDE DEF below
  <2>3. \A x \in S : x \notin below[x]
    BY <2>1, <2>2
  <2>4. \A x, y \in S : x = y \/ x \in below[y] \/ y \in below[x]
    BY <2>1, <2>2
  <2>5. ASSUME NEW x \in S, NEW y \in S, y \in below[x], NEW z \in below[y] PROVE z \in below[x]
    <3>1. z \in S /\ key[z] < key[y] /\ key[y] < key[x]
      BY <2>2, <2>5
    <3> QED
      BY <2>1, <2>2, <3>1
  <2>6. \A x, y \in S : y \in below[x] => below[y] \subseteq below[x]
    BY <2>5
  <2> QED
    BY <2>2, <2>3, <2>4, <2>6 DEF StrictOrder
<1>2. ASSUME NEW k \in 1 .. Cardinality(S), \E x \in S : Cardinality(below[x]) = k - 1
      PROVE  o[k] \in S /\ Cardinality(below[o[k]]) = k - 1
  <2>1. o[k] = CHOOSE x \in S : Cardinality({y \in S : key[y] < key[x]}) = k - 1
    BY DEF OrderedBy
  <2>2. \E x \in S : Cardinality({y \in S : key[y] < key[x]}) = k - 1
    BY <1>2
  <2>3. o[k] \in S /\ Cardinality({y \in S : key[y] < key[o[k]]}) = k - 1
    BY <2>1, <2>2
  <2> QED
    BY <2>3
<1>3. o = [k \in 1 .. Cardinality(S) |-> o[k]]
  <2> DEFINE F(k) == CHOOSE x \in S : Cardinality({y \in S : key[y] < key[x]}) = k - 1
             n == Cardinality(S)
  <2>1. o = [k \in 1 .. n |-> F(k)]
    BY DEF OrderedBy
  <2> HIDE DEF F, n, o
  <2>2. o = [k \in 1 .. n |-> o[k]]
    BY <2>1
  <2> QED
    BY <2>2 DEF n
<1> HIDE DEF below, o
<1>4. Lists(o, S, below)
  BY <1>1, <1>2, <1>3, RankedLists
<1> QED
  BY <1>4 DEF below, o, BelowBy

\* The values of a function on a finite set are finitely many.
LEMMA ValuesFinite ==
    ASSUME NEW S, IsFiniteSet(S), NEW f, DOMAIN f = S, f = [x \in S |-> f[x]]
    PROVE  IsFiniteSet({f[x] : x \in S})
<1> DEFINE T == {f[x] : x \in S}
<1>1. f \in Surjection(S, T)
  BY DEF Surjection
<1> QED
  BY <1>1, FS_Surjection

\* A week ends on one of its days, which has come; its end tells it apart.
LEMMA WeeksAre ==
    ASSUME NEW now \in [day : Int, closed : BOOLEAN],
           NEW B, IsFiniteSet(B), \A b \in B : b.day \in Int /\ b.day <= now.day
    PROVE  /\ IsFiniteSet(Weeks(B, now))
           /\ \A w \in Weeks(B, now) : /\ w.end \in Int /\ w.end <= now.day
                                       /\ w = Week(B, w.end \div 7, now)
<1>1. IsFiniteSet(Weeks(B, now))
  <2> DEFINE f == [b \in B |-> Week(B, WeekOf(b), now)]
  <2>1. Weeks(B, now) = {f[b] : b \in B} /\ DOMAIN f = B /\ f = [b \in B |-> f[b]]
    BY DEF Weeks
  <2> HIDE DEF f
  <2> QED
    BY <2>1, ValuesFinite
<1>2. ASSUME NEW b \in B
      PROVE  LET w == Week(B, WeekOf(b), now) IN
             w.end \in Int /\ w.end <= now.day /\ w = Week(B, w.end \div 7, now)
  <2> DEFINE v == WeekOf(b)
             days == {c \in B : WeekOf(c) = v}
             last == CHOOSE d \in days : \A c \in days : c.day <= d.day
  <2>1. days # {} /\ (\A d \in days : d.day \in Int) /\ now.day \in Int /\ \A d \in days : d.day <= now.day
    OBVIOUS
  <2>2. last \in days
    <3> HIDE DEF days
    <3> QED
      BY <2>1, LastBar
  <2>3. last.day \in Int /\ last.day <= now.day /\ last.day \div 7 = v
    BY <2>2 DEF WeekOf
  <2>4. Week(B, v, now).end = last.day
    BY DEF Week
  <2> HIDE DEF v, last
  <2>5. LET w == Week(B, v, now) IN
        w.end \in Int /\ w.end <= now.day /\ w = Week(B, w.end \div 7, now)
    BY <2>3, <2>4
  <2> QED
    BY <2>5 DEF v
<1> QED
  BY <1>1, <1>2 DEF Weeks

\* The bars of a stock are finitely many, of days that have come.
LEMMA BarsHaveCome ==
    ASSUME NEW rows \in Seq(BarRows), NEW now \in [day : Int, closed : BOOLEAN]
    PROVE  /\ IsFiniteSet(DailyBars(rows, now))
           /\ \A b \in DailyBars(rows, now) : b.day \in Int /\ b.day <= now.day
<1> DEFINE I == Chosen(rows, now)
<1>1. \A k \in I : k \in DOMAIN rows /\ rows[k].day \in Int /\ rows[k].day <= now.day
  BY ChosenAre
<1> HIDE DEF I
<1>2. IsFiniteSet(I)
  <2>1. DOMAIN rows = 1 .. Len(rows) /\ Len(rows) \in Nat
    OBVIOUS
  <2>2. IsFiniteSet(1 .. Len(rows))
    BY <2>1, FS_Interval
  <2>3. I \subseteq 1 .. Len(rows)
    BY <1>1, <2>1
  <2> QED
    BY <2>2, <2>3, FS_Subset
<1>3. DailyBars(rows, now) = {rows[k] : k \in I}
  BY DEF DailyBars, I
<1>4. IsFiniteSet({rows[k] : k \in I})
  <2> DEFINE f == [k \in I |-> rows[k]]
  <2>1. {rows[k] : k \in I} = {f[k] : k \in I} /\ DOMAIN f = I /\ f = [k \in I |-> f[k]]
    OBVIOUS
  <2> HIDE DEF f
  <2> QED
    BY <1>2, <2>1, ValuesFinite
<1> QED
  BY <1>1, <1>3, <1>4

\* The last week of a signal has ended.
LEMMA SignalEnds ==
    ASSUME NEW rows \in Seq(BarRows), NEW now \in [day : Int, closed : BOOLEAN],
           SignalOf(rows, now) \notin {None, Fails}
    PROVE  SignalOf(rows, now).end <= now.day
<1> DEFINE B == DailyBars(rows, now)
           W == Weeks(B, now)
           done == {w \in W : Ended(w, now)}
           key == [w \in done |-> w.end]
           o == Ordered(done, LAMBDA v, w : v.end < w.end)
           n == Len(o)
<1>1. SignalOf(rows, now) = WeeklySignal(W, now)
  BY DEF SignalOf
<1>2. IsFiniteSet(B) /\ \A b \in B : b.day \in Int /\ b.day <= now.day
  BY BarsHaveCome
<1> HIDE DEF B
<1>3. /\ IsFiniteSet(W)
      /\ \A w \in W : w.end \in Int /\ w.end <= now.day /\ w = Week(B, w.end \div 7, now)
  BY <1>2, WeeksAre
<1> HIDE DEF W
<1>4. IsFiniteSet(done)
  BY <1>3, FS_Subset
<1>5. \A w \in done : w.end \in Int /\ w.end <= now.day
  BY <1>3
<1>6. \A v, w \in done : v.end = w.end => v = w
  BY <1>3
<1>7. WeeklySignal(W, now) = None \/ (n >= 5 /\ WeeklySignal(W, now).end = o[n].end)
  <2>1. ~(n < 5) => n >= 5
    <3>1. n \in Nat
      <4>1. Cardinality(done) \in Nat
        BY <1>4, FS_CardinalityType
      <4> DEFINE c == Cardinality(done)
                 F(k) == CHOOSE x \in done : Cardinality({y \in done : y.end < x.end}) = k - 1
      <4>2. o = [k \in 1 .. c |-> F(k)]
        BY DEF Ordered
      <4> HIDE DEF F, c, o
      <4> QED
        BY <4>1, <4>2 DEF c
    <3> HIDE DEF n
    <3> QED
      BY <3>1
  <2>2. CASE n < 5
    BY <2>2 DEF WeeklySignal
  <2>3. CASE ~(n < 5)
    <3>1. WeeklySignal(W, now).end = o[n].end
      BY <2>3 DEF WeeklySignal
    <3> QED
      BY <2>1, <2>3, <3>1
  <2> QED
    BY <2>2, <2>3
<1>8. o = OrderedBy(done, key)
  <2> DEFINE F(k) == CHOOSE x \in done : Cardinality({y \in done : y.end < x.end}) = k - 1
             G(k) == CHOOSE x \in done : Cardinality({y \in done : key[y] < key[x]}) = k - 1
  <2>1. o = [k \in 1 .. Cardinality(done) |-> F(k)]
    BY DEF Ordered
  <2> HIDE DEF done
  <2>2. ASSUME NEW x \in done PROVE {y \in done : y.end < x.end} = {y \in done : key[y] < key[x]}
    OBVIOUS
  <2> HIDE DEF key
  <2>3. \A k : F(k) = G(k)
    BY <2>2
  <2> HIDE DEF F, G, o
  <2>4. o = [k \in 1 .. Cardinality(done) |-> G(k)]
    BY <2>1, <2>3
  <2> QED
    BY <2>4 DEF G, OrderedBy
<1>9. key \in [done -> Int] /\ \A v, w \in done : key[v] = key[w] => v = w
  BY <1>5, <1>6
<1> HIDE DEF done, key, o
<1>10. Lists(o, done, BelowBy(done, key))
  BY <1>4, <1>8, <1>9, NumberOrders
<1>11. o \in Seq(done)
  BY <1>10 DEF Lists
<1>12. n >= 5 => o[n] \in done
  BY <1>11
<1> QED
  BY <1>1, <1>5, <1>7, <1>12

\* A flow is made of the first row of each day.
LEMMA FlowOfRows ==
    ASSUME NEW r, NEW s, NEW target, FlowRows(r, target) = FlowRows(s, target)
    PROVE  FlowOf(r, target) = FlowOf(s, target)
<1> DEFINE Full(F) == {x \in F : None \notin {x.foreign, x.institution}}
           Order(S) == Ordered(S, LAMBDA p, q : p.day < q.day)
           Flow(F, o) ==
               IF \E x \in F : Bad \in {x.foreign, x.institution} THEN Fails
               ELSE [status |-> FlowStatus(Len(o)), confidence |-> IF Full(F) # F THEN 80 ELSE 100,
                     joint |-> /\ Len(o) >= 5
                               /\ SumOf([k \in Len(o) - 4 .. Len(o) |-> o[k].foreign]) > 0
                               /\ SumOf([k \in Len(o) - 4 .. Len(o) |-> o[k].institution]) > 0]
           F == FlowRows(r, target)
           G == FlowRows(s, target)
<1>1. FlowOf(r, target) = Flow(F, Order(Full(F)))
  BY DEF FlowOf
<1>2. FlowOf(s, target) = Flow(G, Order(Full(G)))
  BY DEF FlowOf
<1> HIDE DEF F, G
<1>3. Full(F) = Full(G)
  BY DEF F, G
<1> HIDE DEF Full
<1>4. Order(Full(F)) = Order(Full(G))
  <2> DEFINE S == Full(F)   T == Full(G)
  <2> HIDE DEF S, T
  <2>1. Order(S) = [k \in 1 .. Cardinality(S) |-> CHOOSE x \in S : Cardinality({y \in S : y.day < x.day}) = k - 1]
    BY DEF Ordered
  <2>2. Order(T) = [k \in 1 .. Cardinality(T) |-> CHOOSE x \in T : Cardinality({y \in T : y.day < x.day}) = k - 1]
    BY DEF Ordered
  <2>3. S = T
    BY <1>3 DEF S, T
  <2> HIDE DEF Order
  <2>4. Order(S) = Order(T)
    BY <2>1, <2>2, <2>3
  <2> QED
    BY <2>4 DEF S, T
<1>5. F = G
  BY DEF F, G
<1> HIDE DEF Order, Flow
<1> QED
  BY <1>1, <1>2, <1>4, <1>5

\* A row of a later day is not among them.
LEMMA LaterUnread ==
    ASSUME NEW rows \in Seq(FieldRows), NEW target \in Int, NEW later, later.day = target + 1
    PROVE  FlowOf(rows \o <<later>>, target) = FlowOf(rows, target)
<1> DEFINE more == rows \o <<later>>
           n == Len(rows)
<1>1. n \in Nat /\ DOMAIN rows = 1 .. n /\ DOMAIN more = 1 .. n + 1
  OBVIOUS
<1>2. (\A k \in 1 .. n : more[k] = rows[k]) /\ more[n + 1] = later
  OBVIOUS
<1> HIDE DEF more, n
<1>3. ~(target + 1 <= target)
  OBVIOUS
<1>4. {k \in DOMAIN more : more[k].day # Bad /\ more[k].day <= target}
        = {k \in DOMAIN rows : rows[k].day # Bad /\ rows[k].day <= target}
  <2>1. \A k \in 1 .. n + 1 : k \in 1 .. n \/ k = n + 1
    BY <1>1
  <2>2. \A k \in 1 .. n : k \in 1 .. n + 1
    BY <1>1
  <2> QED
    BY <1>1, <1>2, <1>3, <2>1, <2>2
<1>5. \A k \in 1 .. n : \A j \in 1 .. k - 1 : j \in 1 .. n
  BY <1>1
<1>6. FirstOfDay(more, target) = FirstOfDay(rows, target)
  <2> DEFINE S == {k \in DOMAIN rows : rows[k].day # Bad /\ rows[k].day <= target}
  <2>1. FirstOfDay(more, target) = {k \in S : ~\E j \in 1 .. k - 1 : more[j].day = more[k].day}
    BY <1>4 DEF FirstOfDay
  <2>2. FirstOfDay(rows, target) = {k \in S : ~\E j \in 1 .. k - 1 : rows[j].day = rows[k].day}
    BY DEF FirstOfDay
  <2>3. \A k \in S : k \in 1 .. n
    BY <1>1
  <2> HIDE DEF S
  <2> QED
    BY <1>2, <1>5, <2>1, <2>2, <2>3
<1>7. \A k \in FirstOfDay(rows, target) : k \in 1 .. n
  BY <1>1 DEF FirstOfDay
<1>8. FlowRows(more, target) = FlowRows(rows, target)
  BY <1>2, <1>6, <1>7 DEF FlowRows
<1>9. FlowOf(more, target) = FlowOf(rows, target)
  BY <1>8, FlowOfRows
<1> QED
  BY <1>9 DEF more

\* With one row a day the order of the rows is none of a flow's business.
LEMMA FlowOrderUnread ==
    ASSUME NEW rows \in Seq(FieldRows), OneADay(rows), NEW target
    PROVE  FlowOf(Reverse(rows), target) = FlowOf(rows, target)
<1> DEFINE new == Reverse(rows)
           Read(s) == {r \in {s[k] : k \in DOMAIN s} : r.day # Bad /\ r.day <= target}
<1>1. /\ DOMAIN new = DOMAIN rows
      /\ \A k \in DOMAIN rows : \E j \in DOMAIN rows : new[j] = rows[k]
      /\ \A j \in DOMAIN rows : \E k \in DOMAIN rows : new[j] = rows[k]
  BY Reversed
<1> DEFINE n == Len(rows)
<1>2. n \in Nat /\ DOMAIN rows = 1 .. n
  OBVIOUS
<1>3. OneADay(new)
  <2>1. new = [i \in 1 .. n |-> rows[(n - i) + 1]]
    BY DEF Reverse
  <2> HIDE DEF n, new
  <2>2. \A k \in 1 .. n : (n - k) + 1 \in 1 .. n
    BY <1>2
  <2>3. \A j, k \in 1 .. n : (n - j) + 1 = (n - k) + 1 => j = k
    BY <1>2
  <2>4. DOMAIN new = 1 .. n /\ \A k \in 1 .. n : new[k] = rows[(n - k) + 1]
    BY <2>1
  <2>5. ASSUME NEW j \in 1 .. n, NEW k \in 1 .. n, new[j].day = new[k].day PROVE j = k
    <3>1. rows[(n - j) + 1].day = rows[(n - k) + 1].day
      BY <2>4, <2>5
    <3>2. (n - j) + 1 = (n - k) + 1
      BY <1>2, <2>2, <3>1 DEF OneADay
    <3> QED
      BY <2>3, <3>2
  <2> QED
    BY <2>4, <2>5 DEF OneADay
<1> HIDE DEF new, n
<1>4. ASSUME NEW s, DOMAIN s = 1 .. n, OneADay(s) PROVE FlowRows(s, target) = Read(s)
  <2> DEFINE S == {k \in DOMAIN s : s[k].day # Bad /\ s[k].day <= target}
  <2>1. FirstOfDay(s, target) = {k \in S : ~\E j \in 1 .. k - 1 : s[j].day = s[k].day}
    BY DEF FirstOfDay
  <2>2. ASSUME NEW k \in S, NEW j \in 1 .. k - 1 PROVE s[j].day # s[k].day
    <3>1. k \in 1 .. n
      BY <1>4
    <3>2. j \in 1 .. n /\ j # k
      BY <1>2, <3>1
    <3> QED
      BY <1>4, <3>1, <3>2 DEF OneADay
  <2>3. FirstOfDay(s, target) = S
    <3> HIDE DEF S
    <3> QED
      BY <2>1, <2>2
  <2>4. FlowRows(s, target) = {s[k] : k \in S}
    BY <2>3 DEF FlowRows
  <2> QED
    BY <2>4
<1>5. {new[k] : k \in DOMAIN new} = {rows[k] : k \in DOMAIN rows}
  BY <1>1
<1>6. Read(new) = Read(rows)
  BY <1>5
<1> HIDE DEF Read
<1>7. FlowRows(new, target) = FlowRows(rows, target)
  BY <1>1, <1>2, <1>3, <1>4, <1>6
<1>8. FlowOf(new, target) = FlowOf(rows, target)
  BY <1>7, FlowOfRows
<1> QED
  BY <1>8 DEF new

-----------------------------------------------------------------------------
(***************************************************************************)
(* Each case is judged once, by the rules of its kind.                     *)
(***************************************************************************)

CaseOK ==
    /\ case.kind = "market" => case.in \in MarketCases
    /\ case.kind = "close" => case.in \in CloseCases
    /\ case.kind = "positions" => case.in \in HoldingCases
    /\ case.kind = "advice" => case.in \in AdviceCases
    /\ case.kind = "leaders" => case.in \in LeaderCases
    /\ case.kind = "weeks" => case.in \in WeekCases
    /\ case.kind = "flow" => case.in \in FlowCases
    /\ case.kind = "plan" => case.in \in PlanCases
    /\ case.kind = "run" => case.in \in RunCases
    /\ case.kind = "stocks" => case.in \in StockCases
    /\ case.kind = "universe" => case.in \in UniverseCases

RInv ==
    /\ CaseOK
    /\ Judged("market") => said = Briefing(case.in, None)
    /\ Judged("close") =>
         said = CloseEvaluation(case.in.now, SameDayResult(case.in.before), case.in.premarket)
    /\ Judged("positions") => said = Positions(case.in)
    /\ Judged("advice") => said = Advice(case.in, case.in.market)
    /\ Judged("leaders") => said = Leaders(case.in, case.in.limit, case.in.market)
    /\ Judged("weeks") => said = SignalOf(case.in.bars, case.in.now)
    /\ Judged("flow") => said = FlowOf(case.in.rows, case.in.target)
    /\ Judged("plan") => said = RequestPlan(case.in)
    /\ Judged("run") => said = Orchestrate(case.in)
    /\ Judged("stocks") => said = Recommendations(case.in, Policy)
    /\ Judged("universe") => said = BalancedUniverse(Masters(case.in), case.in.limit)

\* A case is one of its kind, and nothing has been said of it.
LEMMA InitRInv == Init => RInv
  BY DEF Init, Tagged, RInv, CaseOK, Judged

\* The rules of its kind judge a case, and say nothing more of it.
LEMMA StepRInv == RInv /\ [Next]_<<case, verdict>> => RInv'
<1> SUFFICES ASSUME RInv, [Next]_<<case, verdict>> PROVE RInv'
  OBVIOUS
<1>1. CASE UNCHANGED <<case, verdict>>
  BY <1>1 DEF RInv, CaseOK, Judged, said
<1>2. CASE Next
  <2>1. case' = case /\ CaseOK'
    BY <1>2 DEF RInv, CaseOK, Next, Judge, JudgeMarket, JudgeClose, FindPositions, Advise,
                ChooseLeaders, ReadWeeks, ReadFlow, PlanRequests, RunOnce, Recommend, ChooseUniverse
  <2>2. CASE PlanRequests
    BY <2>1, <2>2 DEF RInv, PlanRequests, Judge, Judged, said
  <2>3. CASE RunOnce
    BY <2>1, <2>3 DEF RInv, RunOnce, Judge, Judged, said
  <2>4. CASE JudgeMarket
    BY <2>1, <2>4 DEF RInv, JudgeMarket, Judge, Judged, said
  <2>5. CASE JudgeClose
    BY <2>1, <2>5 DEF RInv, JudgeClose, Judge, Judged, said
  <2>6. CASE FindPositions
    BY <2>1, <2>6 DEF RInv, FindPositions, Judge, Judged, said
  <2>7. CASE Advise
    BY <2>1, <2>7 DEF RInv, Advise, Judge, Judged, said
  <2>8. CASE ChooseLeaders
    BY <2>1, <2>8 DEF RInv, ChooseLeaders, Judge, Judged, said
  <2>9. CASE Recommend
    BY <2>1, <2>9 DEF RInv, Recommend, Judge, Judged, said
  <2>10. CASE ChooseUniverse
    BY <2>1, <2>10 DEF RInv, ChooseUniverse, Judge, Judged, said
  <2>11. CASE ReadWeeks
    BY <2>1, <2>11 DEF RInv, ReadWeeks, Judge, Judged, said
  <2>12. CASE ReadFlow
    BY <2>1, <2>12 DEF RInv, ReadFlow, Judge, Judged, said
  <2> QED
    BY <1>2, <2>2, <2>3, <2>4, <2>5, <2>6, <2>7, <2>8, <2>9, <2>10, <2>11, <2>12 DEF Next
<1> QED
  BY <1>1, <1>2

\* What is said of a case is what its rules make of it.
THEOREM InvariantRInv == RuleSpec => []RInv
  BY InitRInv, StepRInv, PTL DEF RuleSpec

\* Requests are made for what is needed, once, for any states, candidates and
\* records that have each stock once (build_request_plan,
\* RecommendationCollectionOrchestrator.run).
THEOREM PlansExact == RuleSpec => []PlanIsExact
<1>1. RInv => PlanIsExact
  <2> SUFFICES ASSUME RInv PROVE PlanIsExact
    OBVIOUS
  <2>1. ASSUME Judged("plan") PROVE PlanExact(case.in, said.network)
    <3>1. Plannable(case.in) /\ said = RequestPlan(case.in)
      BY <2>1, PlanAssumption DEF RInv, CaseOK, Judged, Plannable
    <3> QED
      BY <3>1, PlansAreExact
  <2>2. ASSUME Judged("run") PROVE RunExact(case.in, said)
    <3>1. Runnable(case.in) /\ said = Orchestrate(case.in)
      BY <2>2, RunAssumption DEF RInv, CaseOK, Judged, Runnable
    <3> QED
      BY <3>1, RunsAreExact
  <2> QED
    BY <2>1, <2>2 DEF PlanIsExact, PlanExact, RunExact
<1> QED
  BY <1>1, InvariantRInv, PTL

\* What a briefing says of the market rests on its data, for any answers of
\* the server and any earlier briefing (score_market, evaluate_pre_market_
\* quality, analyze_briefing, evaluate_market_close).
THEOREM BriefingsJudged == RuleSpec => []BriefingJudged
<1>1. RInv => BriefingJudged
  <2> SUFFICES ASSUME RInv PROVE JudgedOnData /\ CloseIsFair
    BY DEF BriefingJudged
  <2>1. ASSUME Judged("market") PROVE JudgedOnData
    <3>1. case.in \in Rounds /\ said = Briefing(case.in, None)
      BY <2>1, RoundAssumption DEF RInv, CaseOK, Judged
    <3> DEFINE m == case.in
    <3>2. m.premarket => /\ said.status = "completed" => said.analysis.state # "insufficient_data"
                         /\ said.analysis.decision # None =>
                              /\ said.analysis.state # "insufficient_data"
                              /\ said.analysis.decision.state # "insufficient_data"
                         /\ said.analysis.decision = None =>
                              said.analysis.signals = {} /\ said.analysis.score = None
      BY <3>1, RoundJudged
    <3>3. LET o == Analyze(Opposite(m), None)   same == Analyze(m, None) IN
          /\ o.score = -same.score /\ o.state = Turned[same.state]
          /\ o.confidence = same.confidence
      BY <3>1, OppositeScore
    <3>4. \A s \in Sources :
            LET less == Analyze(Losing(m, s), None)   all == Analyze(m, None) IN
            /\ Size(less.score - all.score) <= (IF s = "spot" THEN 2 ELSE 1)
            /\ Confident[less.confidence] <= Confident[all.confidence]
      BY <3>1, LosingScore
    <3> QED
      BY <3>2, <3>3, <3>4 DEF JudgedOnData
  <2>2. ASSUME Judged("close") PROVE FairClose(case.in, said)
    <3>1. /\ case.in.now \in Rounds /\ case.in.before \in Rounds \cup {None, Bad}
          /\ case.in.premarket \in BOOLEAN
          /\ said = CloseEvaluation(case.in.now, SameDayResult(case.in.before), case.in.premarket)
      BY <2>2, RoundAssumption DEF RInv, CaseOK, Judged
    <3> QED
      BY <3>1, CloseJudged
  <2> QED
    BY <2>1, <2>2 DEF JudgedOnData, CloseIsFair, FairClose
<1> QED
  BY <1>1, InvariantRInv, PTL

\* What a briefing says of the user's holdings is about all of them, and
\* cautious, for any accounts, any file and any technical state
\* (HoldingsCollector.collect, consolidate_holdings, review_state,
\* holding_decision).
THEOREM HoldingsAreAdvised == RuleSpec => []HoldingsAdvised
<1>1. RInv => HoldingsAdvised
  <2> SUFFICES ASSUME RInv PROVE PositionsAccounted /\ CautiousAdvice
    BY DEF HoldingsAdvised
  <2>1. ASSUME Judged("positions") PROVE Accounted(case.in, said)
    <3>1. /\ case.in.file \in Seq([code : Stocks, quantity : Int, average : Int])
          /\ said = Positions(case.in)
      BY <2>1, HoldingAssumption DEF RInv, CaseOK, Judged
    <3> QED
      BY <3>1, AllAccounted
  <2>2. ASSUME Judged("advice") PROVE CautiousAdvice
    <3>1. /\ case.in.ma60 # None => None \notin {case.in.ma5, case.in.ma20, case.in.low}
          /\ said = Advice(case.in, case.in.market)
      BY <2>2, AdviceAssumption DEF RInv, CaseOK, Judged
    <3> QED
      BY <3>1, AdviceCautious DEF CautiousAdvice
  <2> QED
    BY <2>1, <2>2 DEF PositionsAccounted, Accounted, CautiousAdvice
<1> QED
  BY <1>1, InvariantRInv, PTL

\* The best of what is evaluated are chosen and as many as there is room for, of
\* any stocks, any answers about the markets and any rankings, of which only the
\* first stocks are looked at (select_integrated_recommendations,
\* select_balanced_universe, snapshot_payload, load_universe_snapshot,
\* KiwoomLeadershipCollector.collect).
THEOREM BestAreChosen == RuleSpec => []ChosenAreBest
<1>1. RInv => ChosenAreBest
  <2> SUFFICES ASSUME RInv PROVE ChosenAreBest
    OBVIOUS
  <2>1. ASSUME Judged("stocks") PROVE StocksBest(case.in, said)
    <3>1. case.in \in StockCases /\ said = Recommendations(case.in, Policy)
      BY <2>1 DEF RInv, CaseOK, Judged
    <3> QED
      BY <3>1, SelectionIsBest
  <2>2. ASSUME Judged("universe") PROVE UniverseBest(case.in, said)
    <3>1. Answerable(case.in) /\ said = BalancedUniverse(Masters(case.in), case.in.limit)
      BY <2>2, UniverseAssumption DEF RInv, CaseOK, Judged, Answerable
    <3> QED
      BY <3>1, UniversesAreBest
  <2>3. ASSUME Judged("leaders") PROVE LeadersBest(case.in, said)
    <3>1. Ranked(case.in) /\ said = Leaders(case.in, case.in.limit, case.in.market)
      BY <2>3, LeaderAssumption DEF RInv, CaseOK, Judged, Ranked
    <3> QED
      BY <3>1, LeadersAreBest
  <2> QED
    BY <2>1, <2>2, <2>3 DEF ChosenAreBest, StocksBest, UniverseBest, LeadersBest
<1> QED
  BY <1>1, InvariantRInv, PTL
\* A signal and a flow look at nothing that was not known when they were made,
\* and do not depend on the order of the rows, for any rows and any time
\* (normalize_daily_bars, aggregate_weekly_bars, completed_weekly_signal,
\* collect_with_rows).
THEOREM NothingAhead == RuleSpec => []NoLookAhead
<1>1. RInv => NoLookAhead
  <2> SUFFICES ASSUME RInv PROVE NoLookAhead
    OBVIOUS
  <2>1. ASSUME Judged("weeks")
        PROVE  LET bars == case.in.bars   now == case.in.now IN
               /\ OneADay(bars) => said = SignalOf(Reverse(bars), now)
               /\ (now.day % 7 < 4 \/ (now.day % 7 = 4 /\ ~now.closed)) =>
                    said = SignalOf(Changed(bars, now.day \div 7), now)
               /\ said = SignalOf(Changed(bars, now.day \div 7 + 1), now)
               /\ said \notin {None, Fails} => said.end <= now.day
    <3>1. /\ case.in.bars \in Seq(BarRows) /\ case.in.now \in [day : Int, closed : BOOLEAN]
          /\ said = SignalOf(case.in.bars, case.in.now)
      BY <2>1, RowAssumption DEF RInv, CaseOK, Judged
    <3> DEFINE bars == case.in.bars   now == case.in.now
    <3> HIDE DEF bars, now
    <3>2. /\ bars \in Seq(BarRows) /\ now \in [day : Int, closed : BOOLEAN]
          /\ said = SignalOf(bars, now)
      BY <3>1 DEF bars, now
    <3>3. OneADay(bars) => said = SignalOf(Reverse(bars), now)
      BY <3>2, OrderUnread
    <3>4. (now.day % 7 < 4 \/ (now.day % 7 = 4 /\ ~now.closed)) =>
            said = SignalOf(Changed(bars, now.day \div 7), now)
      BY <3>2, RunningWeekUnread
    <3>5. said = SignalOf(Changed(bars, now.day \div 7 + 1), now)
      BY <3>2, NextWeekUnread
    <3>6. said \notin {None, Fails} => said.end <= now.day
      BY <3>2, SignalEnds
    <3> QED
      BY <3>3, <3>4, <3>5, <3>6 DEF bars, now
  <2>2. ASSUME Judged("flow")
        PROVE  LET rows == case.in.rows
                   later == [day |-> case.in.target + 1, foreign |-> 9, institution |-> 9]
               IN /\ said = FlowOf(rows \o <<later>>, case.in.target)
                  /\ OneADay(rows) => said = FlowOf(Reverse(rows), case.in.target)
    <3>1. /\ case.in.rows \in Seq(FieldRows) /\ case.in.target \in Int
          /\ said = FlowOf(case.in.rows, case.in.target)
      BY <2>2, RowAssumption DEF RInv, CaseOK, Judged
    <3> DEFINE rows == case.in.rows   target == case.in.target
               later == [day |-> target + 1, foreign |-> 9, institution |-> 9]
    <3> HIDE DEF rows, target
    <3>2. rows \in Seq(FieldRows) /\ target \in Int /\ said = FlowOf(rows, target)
      BY <3>1 DEF rows, target
    <3>3. later.day = target + 1
      OBVIOUS
    <3> HIDE DEF later
    <3>4. said = FlowOf(rows \o <<later>>, target)
      BY <3>2, <3>3, LaterUnread
    <3>5. OneADay(rows) => said = FlowOf(Reverse(rows), target)
      BY <3>2, FlowOrderUnread
    <3> QED
      BY <3>4, <3>5 DEF rows, target, later
  <2> QED
    BY <2>1, <2>2 DEF NoLookAhead
<1> QED
  BY <1>1, InvariantRInv, PTL
=============================================================================
