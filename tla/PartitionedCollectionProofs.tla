-------------------- MODULE PartitionedCollectionProofs --------------------
(***************************************************************************)
(* What the batches of a partitioned collection promise, for every         *)
(* universe, sizes of batches, number of candidates and breaker.           *)
(*                                                                         *)
(* First that split_batches partitions a list without repetitions: the     *)
(* m-th code of batch i stands at place (i - 1) * size + m, and each place *)
(* is that of one batch and position only.  Then the invariant CInv: what  *)
(* the file of progress says of itself (ProgressOK), what a live           *)
(* invocation holds between the file and the disk (Holds), and what was    *)
(* reported last (ToldOK).  A step that writes a batch writes a row that   *)
(* may only have grown, and only where all rows before are complete        *)
(* (ReplacedRow), in the phase of its kind (ProgressKept).                 *)
(***************************************************************************)
EXTENDS PartitionedCollection, FiniteSetTheorems, SequenceTheorems, WellFoundedInduction, TLAPS

\* What integer division by a batch size means.
LEMMA Quotient ==
    ASSUME NEW a \in Nat, NEW size \in Nat \ {0}
    PROVE  /\ a \div size \in Nat
           /\ (a \div size) * size <= a
           /\ a < (a \div size) * size + size
  OBVIOUS

\* Products are ordered as their factors.
LEMMA ProductOrder ==
    ASSUME NEW a \in Nat, NEW b \in Nat, NEW size \in Nat, a < b
    PROVE  a * size + size <= b * size
<1>1. PICK d \in Nat : b = a + 1 + d
  <2>1. b - a - 1 \in Nat /\ b = a + 1 + (b - a - 1)
    OBVIOUS
  <2> QED
    BY <2>1
<1>2. b * size = a * size + size + d * size
  BY <1>1
<1>3. d * size \in Nat
  OBVIOUS
<1> QED
  BY <1>2, <1>3

\* A place has one number, and a number one place.
LEMMA SamePlace ==
    ASSUME NEW size \in Nat \ {0}, NEW a \in Nat, NEW m \in 1 .. size,
           NEW b \in Nat, NEW l \in 1 .. size, a * size + m = b * size + l
    PROVE  a = b /\ m = l
<1>1. a * size \in Nat /\ b * size \in Nat
  OBVIOUS
<1>2. ~ (a < b)
  <2> SUFFICES ASSUME a < b PROVE FALSE
    OBVIOUS
  <2>1. a * size + size <= b * size
    BY ProductOrder
  <2> QED
    BY <1>1, <2>1
<1>3. ~ (b < a)
  <2> SUFFICES ASSUME b < a PROVE FALSE
    OBVIOUS
  <2>1. b * size + size <= a * size
    BY ProductOrder
  <2> QED
    BY <1>1, <2>1
<1>4. a = b
  BY <1>2, <1>3
<1> QED
  BY <1>1, <1>4

\* A batch is a stretch of the codes, and every code is at a place of a batch.
LEMMA SplitPlaces ==
    ASSUME NEW S, NEW codes \in Seq(S), NEW size \in Nat \ {0},
           NEW batches, batches = SplitBatches(codes, size)
    PROVE  /\ batches \in Seq(Seq(S))
           /\ \A i \in DOMAIN batches : \A m \in DOMAIN batches[i] :
                /\ i \in Nat \ {0} /\ m \in 1 .. size
                /\ (i - 1) * size + m \in 1 .. Len(codes)
                /\ batches[i][m] = codes[(i - 1) * size + m]
           /\ \A j \in 1 .. Len(codes) :
                \E i \in DOMAIN batches : \E m \in DOMAIN batches[i] : (i - 1) * size + m = j
<1> DEFINE lo(i) == (i - 1) * size
           hi(i) == IF i * size < Len(codes) THEN i * size ELSE Len(codes)
<1>1. PICK n \in Nat : n = Len(codes)
  OBVIOUS
<1>2. PICK N \in Nat : /\ N = (n + size - 1) \div size
                       /\ N * size <= n + size - 1 /\ n + size - 1 < N * size + size
  <2>1. n + size - 1 \in Nat
    BY <1>1
  <2> QED
    BY <2>1, Quotient
<1>3. batches = [i \in 1 .. N |-> SubSeq(codes, lo(i) + 1, hi(i))]
  BY <1>1, <1>2 DEF SplitBatches
<1>4. ASSUME NEW i \in 1 .. N
      PROVE  /\ lo(i) \in Nat /\ i * size = lo(i) + size
             /\ lo(i) < n /\ hi(i) \in Nat
             /\ lo(i) < hi(i) /\ hi(i) <= n /\ hi(i) <= lo(i) + size
  <2>1. i * size = lo(i) + size /\ lo(i) \in Nat
    OBVIOUS
  <2>2. i * size <= N * size
    <3>1. CASE i = N
      BY <3>1
    <3>2. CASE i < N
      BY <3>2, ProductOrder
    <3> QED
      BY <3>1, <3>2
  <2>3. lo(i) < n
    BY <1>2, <2>1, <2>2
  <2> QED
    BY <1>1, <2>1, <2>3
<1> HIDE DEF lo, hi
<1>5. ASSUME NEW i \in 1 .. N
      PROVE  /\ batches[i] \in Seq(S) /\ DOMAIN batches[i] = 1 .. hi(i) - lo(i)
             /\ \A m \in 1 .. hi(i) - lo(i) : batches[i][m] = codes[lo(i) + m]
  <2>1. batches[i] = SubSeq(codes, lo(i) + 1, hi(i))
    BY <1>3
  <2> DEFINE a == lo(i) + 1   b == hi(i)
  <2>2. a \in 1 .. n + 1 /\ b \in a - 1 .. n /\ a \in Nat /\ b \in Nat /\ b - a + 1 = hi(i) - lo(i)
    BY <1>4
  <2>3. /\ SubSeq(codes, a, b) \in Seq(S)
        /\ Len(SubSeq(codes, a, b)) = b - a + 1
        /\ \A m \in 1 .. b - a + 1 : SubSeq(codes, a, b)[m] = codes[a + m - 1]
    <3> HIDE DEF a, b
    <3> QED
      BY <1>1, <2>2, SubSeqProperties
  <2>4. \A m \in 1 .. hi(i) - lo(i) : a + m - 1 = lo(i) + m
    BY <1>4
  <2> QED
    BY <2>1, <2>2, <2>3, <2>4
<1>6. batches \in Seq(Seq(S)) /\ DOMAIN batches = 1 .. N
  BY <1>3, <1>5
<1>7. ASSUME NEW i \in DOMAIN batches, NEW m \in DOMAIN batches[i]
      PROVE  /\ i \in Nat \ {0} /\ m \in 1 .. size
             /\ (i - 1) * size + m \in 1 .. Len(codes)
             /\ batches[i][m] = codes[(i - 1) * size + m]
  <2>1. i \in 1 .. N /\ m \in 1 .. hi(i) - lo(i)
    BY <1>5, <1>6
  <2>2. /\ lo(i) \in Nat /\ lo(i) < n /\ hi(i) \in Nat
        /\ hi(i) <= n /\ hi(i) <= lo(i) + size
    BY <1>4, <2>1
  <2>3. m \in 1 .. size /\ lo(i) + m \in 1 .. n
    BY <2>1, <2>2
  <2>4. batches[i][m] = codes[lo(i) + m]
    BY <1>5, <2>1
  <2> QED
    BY <1>1, <2>1, <2>3, <2>4 DEF lo
<1>8. ASSUME NEW j \in 1 .. Len(codes)
      PROVE  \E i \in DOMAIN batches : \E m \in DOMAIN batches[i] : (i - 1) * size + m = j
  <2> DEFINE q == (j - 1) \div size
  <2>1. q \in Nat /\ q * size <= j - 1 /\ j - 1 < q * size + size
    <3>1. j - 1 \in Nat
      BY <1>1
    <3> QED
      BY <3>1, Quotient
  <2> HIDE DEF q
  <2>2. q + 1 \in 1 .. N
    <3> SUFFICES ASSUME N <= q PROVE FALSE
      BY <2>1
    <3>1. N * size <= q * size
      <4>1. CASE N = q
        BY <4>1
      <4>2. CASE N < q
        BY <2>1, <4>2, ProductOrder
      <4> QED
        BY <2>1, <4>1, <4>2
    <3>2. n <= j - 1
      BY <1>1, <1>2, <2>1, <3>1
    <3> QED
      BY <1>1, <3>2
  <2>3. lo(q + 1) = q * size /\ (q + 1) * size = q * size + size /\ q * size \in Nat
    BY <2>1 DEF lo
  <2>4. j <= hi(q + 1)
    BY <1>1, <2>1, <2>3 DEF hi
  <2>5. j - q * size \in 1 .. hi(q + 1) - lo(q + 1)
    BY <1>1, <1>4, <2>1, <2>2, <2>3, <2>4
  <2>6. q + 1 \in DOMAIN batches /\ j - q * size \in DOMAIN batches[q + 1]
    BY <1>5, <1>6, <2>2, <2>5
  <2>7. ((q + 1) - 1) * size + (j - q * size) = j
    BY <2>1, <2>3
  <2> QED
    BY <2>6, <2>7
<1> QED
  BY <1>6, <1>7, <1>8

-----------------------------------------------------------------------------
(***************************************************************************)
(* The invariant.                                                          *)
(***************************************************************************)

RowSet == [codes : Seq(Codes),
           status : {"pending", "running", "partial", "interrupted", "complete"},
           completed : SUBSET Codes, failed : SUBSET Codes]

ProgressSet ==
    [phase : {"planned", "price_collection", "flow_collection", "complete"},
     rows : [Kinds -> Seq(RowSet)],
     done : [Kinds -> SUBSET Codes], bad : [Kinds -> SUBSET Codes]]

RunSet ==
    [mode : Modes, kind : Kinds, index : Nat, step : {"collect", "checkpoint", "conclude"},
     codes : Seq(Codes), left : SUBSET Nat, completed : SUBSET Codes, failed : SUBSET Codes,
     streak : Nat, cut : BOOLEAN]

\* A batch that is partial has a code that failed, which a repair can begin with.
RowOK(row) == RowType(row) /\ (row.status = "partial" => row.failed # {})

Apart(rows) ==
    \A i \in DOMAIN rows :
        /\ IsInjective(rows[i].codes)
        /\ \A j \in DOMAIN rows \ {i} : ToSet(rows[i].codes) \cap ToSet(rows[j].codes) = {}

Ordered(rows) ==
    \A i, j \in DOMAIN rows :
        i < j /\ rows[j].status # "pending" => rows[i].status = "complete"

RowsOK(rows) ==
    /\ rows \in Seq(RowSet)
    /\ \A i \in DOMAIN rows : RowOK(rows[i])
    /\ Apart(rows) /\ Ordered(rows)

Within(rows) == UNION {rows[i].completed : i \in DOMAIN rows}
Covered(rows) == UNION {ToSet(rows[i].codes) : i \in DOMAIN rows}

\* What a file of progress says, with the artifacts that are there.
ProgressOK(p, files) ==
    /\ p \in ProgressSet
    /\ \A k \in Kinds : RowsOK(p.rows[k])
    /\ Codes = Covered(p.rows["price"])
    /\ \A k \in Kinds : p.done[k] \subseteq files[k] \cup Within(p.rows[k])
    /\ p.phase \in {"planned", "price_collection"}
         => p.rows["flow"] = <<>> /\ p.done["flow"] = {}
    /\ p.phase \in {"flow_collection", "complete"}
         => p.done["price"] = Codes /\ p.bad["price"] = {}

\* What a live invocation holds in memory: between its batch as the file has it
\* and what is on disk, and no code that is left is completed.
Holds(r, row, files) ==
    /\ r.codes = row.codes /\ r.left \subseteq DOMAIN r.codes
    /\ r.failed \subseteq ToSet(r.codes) \ r.completed
    /\ row.completed \subseteq r.completed
    /\ r.completed \subseteq ToSet(r.codes)
    /\ r.completed \subseteq files[r.kind] \cup row.completed
    /\ \A j \in r.left : r.codes[j] \notin r.completed
    /\ r.cut => r.left = {}
    /\ ~r.cut /\ r.mode # "repair" =>
         \A j \in DOMAIN r.codes : j \in r.left \/ r.codes[j] \in r.completed \cup r.failed

RunOK(r, p, files) ==
    /\ r \in RunSet /\ Collecting(p) /\ r.kind = KindOf(p)
    /\ r.index \in DOMAIN p.rows[r.kind]
    /\ Holds(r, p.rows[r.kind][r.index], files)
    /\ r.step # "conclude" =>
         /\ p.rows[r.kind][r.index].status # "complete"
         /\ \A j \in 1 .. r.index - 1 : p.rows[r.kind][j].status = "complete"

\* What was reported is true, also while the phase is concluded.
ToldOK(t, r, p) ==
    /\ r = NoRun \/ (r.step = "conclude" /\ t.kind = r.kind)
    /\ t.kind \in Kinds /\ t.index \in DOMAIN p.rows[t.kind]
    /\ t.batch => p.rows[t.kind][t.index].status = t.status
    /\ t.status = "complete" /\ ~t.repair
         => ToSet(p.rows[t.kind][t.index].codes) \subseteq p.done[t.kind]

CInv ==
    /\ ProgressOK(progress, saved)
    /\ saved \in [Kinds -> SUBSET Codes]
    /\ run # NoRun => RunOK(run, progress, saved)
    /\ told # Silent => ToldOK(told, run, progress)

-----------------------------------------------------------------------------
\* Any set of batches' places has a first one.
LEMMA FirstIn ==
    ASSUME NEW I \in SUBSET Nat, I # {}
    PROVE  \E i \in I : First(I) = {i} /\ \A j \in I : i <= j
<1>1. \A i, j \in Nat : i <= j \/ j < i
  OBVIOUS
<1>2. PICK i \in I : \A j \in I : ~(<<j, i>> \in OpToRel(<, Nat))
  BY NatLessThanWellFounded, WFMin
<1>3. \A j \in I : i <= j
  BY <1>1, <1>2 DEF OpToRel
<1>4. \A j \in I : (\A k \in I : j <= k) => j = i
  BY <1>3
<1>5. First(I) = {i}
  BY <1>3, <1>4 DEF First
<1> QED
  BY <1>3, <1>5

\* A batch may only change so that its order among the others stays true.
LEMMA ReplacedRow ==
    ASSUME NEW rows, RowsOK(rows), NEW i \in DOMAIN rows, NEW row \in RowSet, RowOK(row),
           row.codes = rows[i].codes, rows[i].completed \subseteq row.completed,
           rows[i].status # "complete",
           \A j \in 1 .. i - 1 : rows[j].status = "complete"
    PROVE  LET new == [rows EXCEPT ![i] = row] IN
           /\ RowsOK(new) /\ DOMAIN new = DOMAIN rows /\ new[i] = row
           /\ \A j \in DOMAIN rows : new[j].codes = rows[j].codes
           /\ Within(rows) \subseteq Within(new) /\ row.completed \subseteq Within(new)
           /\ Covered(new) = Covered(rows)
<1> DEFINE new == [rows EXCEPT ![i] = row]
<1>1. /\ rows \in Seq(RowSet) /\ DOMAIN new = DOMAIN rows /\ new[i] = row
      /\ \A j \in DOMAIN rows \ {i} : new[j] = rows[j]
  BY DEF RowsOK
<1>2. new \in Seq(RowSet)
  BY <1>1
<1>3. DOMAIN rows \subseteq Nat \ {0} /\ \A j \in DOMAIN rows : 1 .. j - 1 \subseteq DOMAIN rows
  <2>1. PICK n \in Nat : DOMAIN rows = 1 .. n
    BY <1>1
  <2> QED
    BY <2>1
<1> HIDE DEF new
<1>4. \A j \in DOMAIN rows : new[j].codes = rows[j].codes /\ rows[j].completed \subseteq new[j].completed
  BY <1>1
<1>5. \A j \in DOMAIN new : RowOK(new[j])
  BY <1>1 DEF RowsOK
<1>6. Apart(new)
  BY <1>1, <1>4 DEF RowsOK, Apart
<1>7. Ordered(new)
  <2> SUFFICES ASSUME NEW a \in DOMAIN rows, NEW b \in DOMAIN rows, a < b, new[b].status # "pending"
               PROVE  new[a].status = "complete"
    BY <1>1 DEF Ordered
  <2>1. Ordered(rows)
    BY DEF RowsOK
  <2>2. CASE b = i
    <3>1. a \in 1 .. i - 1 /\ a # i
      BY <1>3, <2>2
    <3> QED
      BY <1>1, <3>1
  <2>3. CASE b # i
    <3>1. rows[b].status # "pending"
      BY <1>1, <2>3
    <3>2. rows[a].status = "complete"
      BY <2>1, <3>1 DEF Ordered
    <3> QED
      BY <1>1, <3>2
  <2> QED
    BY <2>2, <2>3
<1>8. Within(rows) \subseteq Within(new) /\ row.completed \subseteq Within(new)
  BY <1>1, <1>4 DEF Within
<1>9. Covered(new) = Covered(rows)
  BY <1>1, <1>4 DEF Covered
<1>10. RowsOK(new)
  BY <1>2, <1>5, <1>6, <1>7 DEF RowsOK
<1> QED
  BY <1>1, <1>4, <1>8, <1>9, <1>10 DEF new

\* What the batches of one kind hold is in the codes of the market.
LEMMA FreshRows ==
    ASSUME NEW codes \in Seq(Codes), IsInjective(codes), NEW size \in Nat \ {0}
    PROVE  RowsOK(Rows(codes, size)) /\ Covered(Rows(codes, size)) = ToSet(codes)
           /\ Within(Rows(codes, size)) = {}
<1> DEFINE batches == SplitBatches(codes, size)
           rows == Rows(codes, size)
           place(i, m) == (i - 1) * size + m
<1>1. /\ batches \in Seq(Seq(Codes))
      /\ \A i \in DOMAIN batches : \A m \in DOMAIN batches[i] :
           /\ i \in Nat \ {0} /\ m \in 1 .. size
           /\ place(i, m) \in 1 .. Len(codes)
           /\ batches[i][m] = codes[place(i, m)]
      /\ \A j \in 1 .. Len(codes) :
           \E i \in DOMAIN batches : \E m \in DOMAIN batches[i] : place(i, m) = j
  <2>1. batches = SplitBatches(codes, size)
    OBVIOUS
  <2> HIDE DEF batches
  <2>2. batches \in Seq(Seq(Codes))
    BY <2>1, SplitPlaces
  <2>3. \A i \in DOMAIN batches : \A m \in DOMAIN batches[i] :
                /\ i \in Nat \ {0} /\ m \in 1 .. size
                /\ (i - 1) * size + m \in 1 .. Len(codes)
                /\ batches[i][m] = codes[(i - 1) * size + m]
    BY <2>1, SplitPlaces
  <2>4. \A j \in 1 .. Len(codes) :
                \E i \in DOMAIN batches : \E m \in DOMAIN batches[i] : (i - 1) * size + m = j
    BY <2>1, SplitPlaces
  <2> QED
    BY <2>2, <2>3, <2>4
<1>2. rows = [i \in DOMAIN batches |-> Row(batches[i])]
  BY DEF Rows
<1> HIDE DEF batches, rows
<1>3. DOMAIN rows = DOMAIN batches /\ \A i \in DOMAIN rows : rows[i] = Row(batches[i])
  BY <1>2
<1>4. ASSUME NEW i \in DOMAIN rows
      PROVE  /\ rows[i] \in RowSet /\ RowOK(rows[i]) /\ rows[i].status = "pending"
             /\ rows[i].completed = {} /\ rows[i].codes = batches[i] /\ batches[i] \in Seq(Codes)
  <2>1. batches[i] \in Seq(Codes) /\ rows[i] = Row(batches[i])
    BY <1>1, <1>3
  <2> QED
    BY <2>1 DEF Row, RowSet, RowOK, RowType
<1>5. rows \in Seq(RowSet)
  <2>1. PICK n \in Nat : DOMAIN batches = 1 .. n
    BY <1>1
  <2>2. rows \in [1 .. n -> RowSet]
    BY <1>2, <1>4, <2>1
  <2> QED
    BY <2>2
<1>6. ASSUME NEW i \in DOMAIN batches, NEW m \in DOMAIN batches[i],
             NEW j \in DOMAIN batches, NEW l \in DOMAIN batches[j], batches[i][m] = batches[j][l]
      PROVE  i = j /\ m = l
  <2>1. /\ i \in Nat \ {0} /\ m \in 1 .. size /\ j \in Nat \ {0} /\ l \in 1 .. size
        /\ place(i, m) \in 1 .. Len(codes) /\ place(j, l) \in 1 .. Len(codes)
        /\ batches[i][m] = codes[place(i, m)] /\ batches[j][l] = codes[place(j, l)]
    BY <1>1
  <2>2. place(i, m) = place(j, l)
    <3> HIDE DEF place
    <3>1. DOMAIN codes = 1 .. Len(codes)
      OBVIOUS
    <3> QED
      BY <2>1, <3>1, <1>6 DEF IsInjective
  <2> DEFINE a == i - 1   b == j - 1
  <2>3. a \in Nat /\ b \in Nat /\ (a = b => i = j)
    <3>1. i \in Nat \ {0} /\ j \in Nat \ {0}
      BY <2>1
    <3> QED
      BY <3>1
  <2>4. a * size + m = b * size + l
    BY <2>2
  <2>5. m \in 1 .. size /\ l \in 1 .. size
    BY <2>1
  <2> HIDE DEF a, b
  <2> QED
    BY <2>3, <2>4, <2>5, SamePlace
<1> HIDE DEF place
<1>7. Apart(rows)
  <2>1. \A i \in DOMAIN rows : IsInjective(rows[i].codes)
    BY <1>3, <1>4, <1>6 DEF IsInjective
  <2>2. ASSUME NEW i \in DOMAIN rows, NEW j \in DOMAIN rows \ {i}
        PROVE  ToSet(rows[i].codes) \cap ToSet(rows[j].codes) = {}
    BY <1>3, <1>4, <1>6, <2>2 DEF ToSet
  <2> QED
    BY <2>1, <2>2 DEF Apart
<1>8. Ordered(rows)
  BY <1>4 DEF Ordered
<1>9. Within(rows) = {}
  BY <1>4 DEF Within
<1>10. Covered(rows) = ToSet(codes)
  <2>1. \A i \in DOMAIN rows : rows[i].codes = batches[i]
    BY <1>4
  <2>2. DOMAIN codes = 1 .. Len(codes)
    OBVIOUS
  <2>3. ASSUME NEW c \in Covered(rows)
        PROVE  c \in ToSet(codes)
    <3>1. PICK i \in DOMAIN batches : c \in ToSet(batches[i])
      BY <1>3, <2>1 DEF Covered
    <3>2. PICK m \in DOMAIN batches[i] : c = batches[i][m]
      BY <3>1 DEF ToSet
    <3> QED
      BY <1>1, <2>2, <3>2 DEF ToSet
  <2>4. ASSUME NEW c \in ToSet(codes)
        PROVE  c \in Covered(rows)
    <3>1. PICK k \in 1 .. Len(codes) : c = codes[k]
      BY <2>2 DEF ToSet
    <3>2. PICK i \in DOMAIN batches : \E m \in DOMAIN batches[i] : place(i, m) = k
      BY <1>1
    <3>3. PICK m \in DOMAIN batches[i] : place(i, m) = k
      BY <3>2
    <3>4. c = batches[i][m]
      BY <1>1, <3>1, <3>3
    <3> QED
      BY <1>3, <2>1, <3>4 DEF Covered, ToSet
  <2> QED
    BY <2>3, <2>4
<1> QED
  BY <1>4, <1>5, <1>7, <1>8, <1>9, <1>10 DEF RowsOK, rows

\* The members of what Listed makes of a file of progress.
LEMMA ListedFields ==
    ASSUME NEW p \in ProgressSet, NEW kind \in Kinds,
           NEW completed \in SUBSET Codes, NEW failed \in SUBSET Codes,
           NEW q, q = Listed(p, kind, completed, failed)
    PROVE  /\ q \in ProgressSet /\ q.phase = p.phase /\ q.rows = p.rows
           /\ q.done = [p.done EXCEPT ![kind] = @ \cup completed]
           /\ q.bad = [p.bad EXCEPT ![kind] = (@ \cup failed) \ completed]
<1>1. /\ p.done \in [Kinds -> SUBSET Codes] /\ p.bad \in [Kinds -> SUBSET Codes]
  BY DEF ProgressSet
<1>2. q = [p EXCEPT !.done = [p.done EXCEPT ![kind] = @ \cup completed],
                    !.bad = [p.bad EXCEPT ![kind] = (@ \cup failed) \ completed]]
  BY DEF Listed, ProgressSet
<1> DEFINE done == [p.done EXCEPT ![kind] = @ \cup completed]
           bad == [p.bad EXCEPT ![kind] = (@ \cup failed) \ completed]
<1>3. done \in [Kinds -> SUBSET Codes] /\ bad \in [Kinds -> SUBSET Codes]
  BY <1>1
<1> HIDE DEF done, bad
<1>4. q = [p EXCEPT !.done = done, !.bad = bad]
  BY <1>2 DEF done, bad
<1>5. q \in ProgressSet /\ q.phase = p.phase /\ q.rows = p.rows /\ q.done = done /\ q.bad = bad
  BY <1>3, <1>4 DEF ProgressSet
<1> QED
  BY <1>5 DEF done, bad

\* The members of what Recorded makes of a file of progress.
LEMMA RecordedFields ==
    ASSUME NEW p \in ProgressSet, NEW kind \in Kinds, NEW i \in DOMAIN p.rows[kind], NEW status,
           status \in {"pending", "running", "partial", "interrupted", "complete"},
           NEW completed \in SUBSET Codes, NEW failed \in SUBSET Codes,
           NEW row, row = [codes |-> p.rows[kind][i].codes, status |-> status,
                           completed |-> completed, failed |-> failed],
           NEW q, q = Recorded(p, kind, i, status, completed, failed)
    PROVE  /\ q \in ProgressSet /\ q.phase = p.phase /\ row \in RowSet
           /\ q.rows = [p.rows EXCEPT ![kind] = [p.rows[kind] EXCEPT ![i] = row]]
           /\ q.done = [p.done EXCEPT ![kind] = @ \cup completed]
           /\ q.bad = [p.bad EXCEPT ![kind] = (@ \cup failed) \ completed]
<1> DEFINE l == Listed(p, kind, completed, failed)
<1>1. /\ l \in ProgressSet /\ l.phase = p.phase /\ l.rows = p.rows
      /\ l.done = [p.done EXCEPT ![kind] = @ \cup completed]
      /\ l.bad = [p.bad EXCEPT ![kind] = (@ \cup failed) \ completed]
  <2> HIDE DEF l
  <2>1. l = Listed(p, kind, completed, failed)
    BY DEF l
  <2> QED
    BY <2>1, ListedFields
<1>2. q = [l EXCEPT !.rows[kind][i] = [codes |-> @.codes, status |-> status,
                                       completed |-> completed, failed |-> failed]]
  BY DEF Recorded
<1> HIDE DEF l
<1>3. p.rows \in [Kinds -> Seq(RowSet)] /\ p.rows[kind] \in Seq(RowSet)
  BY DEF ProgressSet
<1>4. p.rows[kind][i] \in RowSet /\ p.rows[kind][i].codes \in Seq(Codes)
  <2>1. p.rows[kind][i] \in RowSet
    BY <1>3
  <2> QED
    BY <2>1 DEF RowSet
<1>5. row \in RowSet
  BY <1>4 DEF RowSet
<1> DEFINE rows == [p.rows EXCEPT ![kind] = [p.rows[kind] EXCEPT ![i] = row]]
<1>6. rows \in [Kinds -> Seq(RowSet)]
  <2>1. [p.rows[kind] EXCEPT ![i] = row] \in Seq(RowSet)
    BY <1>3, <1>5
  <2> QED
    BY <1>3, <2>1
<1>7. q = [l EXCEPT !.rows = rows]
  BY <1>1, <1>2, <1>3 DEF ProgressSet
<1> HIDE DEF rows
<1>8. q \in ProgressSet /\ q.phase = l.phase /\ q.rows = rows /\ q.done = l.done /\ q.bad = l.bad
  BY <1>1, <1>6, <1>7 DEF ProgressSet
<1> QED
  BY <1>1, <1>5, <1>8 DEF rows

\* The first invocation changes the phase and nothing else.
LEMMA StartedOK ==
    ASSUME NEW p, NEW files, ProgressOK(p, files), NEW q, q = Started(p)
    PROVE  /\ ProgressOK(q, files) /\ q.phase # "planned"
           /\ q.rows = p.rows /\ q.done = p.done /\ q.bad = p.bad
<1>1. CASE p.phase = "planned"
  <2>1. p \in ProgressSet /\ q = [p EXCEPT !.phase = "price_collection"]
    BY <1>1 DEF ProgressOK, Started
  <2>2. q \in ProgressSet /\ q.phase = "price_collection" /\ q.rows = p.rows /\ q.done = p.done /\ q.bad = p.bad
    BY <2>1 DEF ProgressSet
  <2> QED
    BY <1>1, <2>2 DEF ProgressOK
<1>2. CASE p.phase # "planned"
  BY <1>2 DEF Started
<1> QED
  BY <1>1, <1>2

\* Files that are added take nothing away.
LEMMA SavedMore ==
    ASSUME NEW p, NEW files, NEW more, ProgressOK(p, files), \A k \in Kinds : files[k] \subseteq more[k]
    PROVE  ProgressOK(p, more)
  BY DEF ProgressOK

\* A kind is collected in its phase, and only its batches and lists change.
LEMMA ProgressKept ==
    ASSUME NEW p, NEW files, ProgressOK(p, files), p.phase # "planned", NEW kind, kind = KindOf(p),
           NEW q \in ProgressSet, q.phase = p.phase,
           RowsOK(q.rows[kind]), Covered(q.rows[kind]) = Covered(p.rows[kind]),
           q.done[kind] \subseteq files[kind] \cup Within(q.rows[kind]),
           \A k \in Kinds \ {kind} : /\ q.rows[k] = p.rows[k] /\ q.done[k] = p.done[k]
                                     /\ q.bad[k] = p.bad[k]
    PROVE  ProgressOK(q, files)
<1>1. p \in ProgressSet /\ kind \in Kinds /\ "price" \in Kinds /\ "flow" \in Kinds
  BY DEF ProgressOK, KindOf, Kinds
<1>2. \A k \in Kinds \ {kind} : q.rows[k] = p.rows[k] /\ q.done[k] = p.done[k] /\ q.bad[k] = p.bad[k]
  OBVIOUS
<1>3. \A k \in Kinds : RowsOK(q.rows[k])
  BY <1>2 DEF ProgressOK
<1>4. Codes = Covered(q.rows["price"])
  BY <1>1, <1>2 DEF ProgressOK
<1>5. \A k \in Kinds : q.done[k] \subseteq files[k] \cup Within(q.rows[k])
  BY <1>2 DEF ProgressOK
<1>6. CASE kind = "price"
  <2>1. p.phase = "price_collection"
    BY <1>6 DEF KindOf
  <2> QED
    BY <1>1, <1>2, <1>3, <1>4, <1>5, <1>6, <2>1 DEF ProgressOK
<1>7. CASE kind = "flow"
  <2>1. p.phase \in {"flow_collection", "complete"}
    BY <1>1, <1>7 DEF KindOf, ProgressSet
  <2> QED
    BY <1>1, <1>2, <1>3, <1>4, <1>5, <1>7, <2>1 DEF ProgressOK
<1> QED
  BY <1>1, <1>6, <1>7 DEF Kinds

\* q is p with a batch's codes in its lists, and maybe with the batch's row.
ListedFrom(q, p, files, completed) ==
    /\ ProgressOK(q, files) /\ q.phase = p.phase /\ q.rows = p.rows
    /\ completed \subseteq q.done[KindOf(p)]

RecordedFrom(q, p, files, kind, i, row) ==
    /\ ProgressOK(q, files) /\ q.phase = p.phase
    /\ DOMAIN q.rows[kind] = DOMAIN p.rows[kind] /\ q.rows[kind][i] = row
    /\ \A j \in DOMAIN p.rows[kind] \ {i} : q.rows[kind][j] = p.rows[kind][j]
    /\ row.completed \subseteq q.done[kind]

\* The lists follow a batch whose codes are saved, or are in its row.
LEMMA ListedOK ==
    ASSUME NEW p, NEW files, ProgressOK(p, files), p.phase # "planned", NEW kind, kind = KindOf(p),
           NEW completed \in SUBSET Codes, NEW failed \in SUBSET Codes,
           completed \subseteq files[kind] \cup Within(p.rows[kind])
    PROVE  ListedFrom(Listed(p, kind, completed, failed), p, files, completed)
<1> DEFINE q == Listed(p, kind, completed, failed)
<1>0. q = Listed(p, kind, completed, failed)
  OBVIOUS
<1> HIDE DEF q
<1>1. p \in ProgressSet /\ kind \in Kinds /\ p.rows \in [Kinds -> Seq(RowSet)] /\ p.done \in [Kinds -> SUBSET Codes]
  BY DEF ProgressOK, ProgressSet, KindOf, Kinds
<1>2. /\ q \in ProgressSet /\ q.phase = p.phase /\ q.rows = p.rows
      /\ q.done = [p.done EXCEPT ![kind] = @ \cup completed]
      /\ q.bad = [p.bad EXCEPT ![kind] = (@ \cup failed) \ completed]
  BY <1>0, <1>1, ListedFields
<1>3. /\ q.done[kind] = p.done[kind] \cup completed
      /\ \A k \in Kinds \ {kind} : q.done[k] = p.done[k] /\ q.bad[k] = p.bad[k]
  BY <1>1, <1>2 DEF ProgressSet
<1>4. RowsOK(q.rows[kind]) /\ p.done[kind] \subseteq files[kind] \cup Within(p.rows[kind])
  BY <1>1, <1>2 DEF ProgressOK
<1>5. q.done[kind] \subseteq files[kind] \cup Within(q.rows[kind])
  BY <1>2, <1>3, <1>4
<1>6. /\ Covered(q.rows[kind]) = Covered(p.rows[kind])
      /\ \A k \in Kinds \ {kind} : /\ q.rows[k] = p.rows[k] /\ q.done[k] = p.done[k]
                                   /\ q.bad[k] = p.bad[k]
  BY <1>2, <1>3
<1>7. ProgressOK(q, files)
  <2>1. q \in ProgressSet /\ q.phase = p.phase
    BY <1>2
  <2> QED
    BY <2>1, <1>4, <1>5, <1>6, ProgressKept
<1> QED
  BY <1>1, <1>2, <1>3, <1>7 DEF q, ListedFrom

\* A row of the batch that is worked on takes the place of the one before.
LEMMA RecordedOK ==
    ASSUME NEW p, NEW files, ProgressOK(p, files), p.phase # "planned", NEW kind, kind = KindOf(p),
           NEW i \in DOMAIN p.rows[kind], NEW status,
           status \in {"running", "partial", "interrupted", "complete"},
           NEW completed, NEW failed,
           p.rows[kind][i].completed \subseteq completed,
           completed \subseteq ToSet(p.rows[kind][i].codes),
           failed \subseteq ToSet(p.rows[kind][i].codes) \ completed,
           status = "partial" => failed # {},
           p.rows[kind][i].status # "complete",
           \A j \in 1 .. i - 1 : p.rows[kind][j].status = "complete"
    PROVE  RecordedFrom(Recorded(p, kind, i, status, completed, failed), p, files, kind, i,
                        [codes |-> p.rows[kind][i].codes, status |-> status,
                         completed |-> completed, failed |-> failed])
<1> DEFINE q == Recorded(p, kind, i, status, completed, failed)
<1>0. q = Recorded(p, kind, i, status, completed, failed)
  OBVIOUS
<1> HIDE DEF q
<1> DEFINE old == p.rows[kind]
           row == [codes |-> old[i].codes, status |-> status,
                   completed |-> completed, failed |-> failed]
           rows == [old EXCEPT ![i] = row]
<1>1. /\ p \in ProgressSet /\ kind \in Kinds /\ p.rows \in [Kinds -> Seq(RowSet)]
      /\ p.done \in [Kinds -> SUBSET Codes] /\ RowsOK(old)
  BY DEF ProgressOK, ProgressSet, KindOf, Kinds
<1>2. old[i] \in RowSet /\ old[i].codes \in Seq(Codes) /\ ToSet(old[i].codes) \subseteq Codes
  <2>1. old[i] \in RowSet
    BY <1>1
  <2>2. old[i].codes \in Seq(Codes)
    BY <2>1 DEF RowSet
  <2> HIDE DEF old
  <2>3. ToSet(old[i].codes) \subseteq Codes
    <3> DEFINE c == old[i].codes
    <3>1. c \in Seq(Codes)
      BY <2>2
    <3> HIDE DEF c
    <3>2. \A j \in DOMAIN c : c[j] \in Codes
      BY <3>1
    <3>3. ToSet(c) \subseteq Codes
      BY <3>2 DEF ToSet
    <3> QED
      BY <3>3 DEF c
  <2> QED
    BY <2>1, <2>2, <2>3
<1>3. /\ completed \in SUBSET Codes /\ failed \in SUBSET Codes
      /\ status \in {"pending", "running", "partial", "interrupted", "complete"}
  BY <1>2
<1>4. row = [codes |-> p.rows[kind][i].codes, status |-> status, completed |-> completed, failed |-> failed]
  OBVIOUS
<1>5. /\ row.codes = old[i].codes /\ row.status = status
      /\ row.completed = completed /\ row.failed = failed
  OBVIOUS
<1> HIDE DEF row
<1>6. /\ q \in ProgressSet /\ q.phase = p.phase /\ row \in RowSet
      /\ q.rows = [p.rows EXCEPT ![kind] = [p.rows[kind] EXCEPT ![i] = row]]
      /\ q.done = [p.done EXCEPT ![kind] = @ \cup completed]
      /\ q.bad = [p.bad EXCEPT ![kind] = (@ \cup failed) \ completed]
  <2>1. p \in ProgressSet /\ kind \in Kinds /\ i \in DOMAIN p.rows[kind]
    BY <1>1
  <2>2. completed \in SUBSET Codes /\ failed \in SUBSET Codes
    BY <1>3
  <2>3. status \in {"pending", "running", "partial", "interrupted", "complete"}
    BY <1>3
  <2> HIDE DEF old
  <2> QED
    BY ONLY <1>0, <1>4, <2>1, <2>2, <2>3, RecordedFields
<1>7. RowOK(row)
  BY <1>5 DEF RowOK, RowType
<1>8. /\ old[i].completed \subseteq row.completed /\ old[i].status # "complete"
      /\ i \in DOMAIN old /\ \A j \in 1 .. i - 1 : old[j].status = "complete"
  BY <1>5
<1> HIDE DEF old
<1>9. /\ RowsOK(rows) /\ DOMAIN rows = DOMAIN old /\ rows[i] = row
      /\ Within(old) \subseteq Within(rows) /\ row.completed \subseteq Within(rows)
      /\ Covered(rows) = Covered(old)
  BY <1>1, <1>5, <1>6, <1>7, <1>8, ReplacedRow
<1>10. /\ \A j \in DOMAIN old \ {i} : rows[j] = old[j]
       /\ q.rows[kind] = rows /\ q.done[kind] = p.done[kind] \cup completed
       /\ \A k \in Kinds \ {kind} : q.rows[k] = p.rows[k] /\ q.done[k] = p.done[k] /\ q.bad[k] = p.bad[k]
       /\ old = p.rows[kind]
  BY <1>1, <1>6 DEF old, ProgressSet
<1> HIDE DEF rows
<1>11. q.done[kind] \subseteq files[kind] \cup Within(rows)
  <2>1. p.done[kind] \subseteq files[kind] \cup Within(old)
    BY <1>1, <1>10 DEF ProgressOK
  <2> QED
    BY <1>5, <1>9, <1>10, <2>1
<1>12. ProgressOK(q, files)
  <2>1. /\ q \in ProgressSet /\ q.phase = p.phase
        /\ RowsOK(q.rows[kind]) /\ Covered(q.rows[kind]) = Covered(p.rows[kind])
        /\ q.done[kind] \subseteq files[kind] \cup Within(q.rows[kind])
        /\ \A k \in Kinds \ {kind} : /\ q.rows[k] = p.rows[k] /\ q.done[k] = p.done[k]
                                     /\ q.bad[k] = p.bad[k]
    BY <1>6, <1>9, <1>10, <1>11
  <2> QED
    BY <2>1, ProgressKept
<1> QED
  BY <1>1, <1>4, <1>6, <1>9, <1>10, <1>12 DEF q, RecordedFrom

\* The universe has as many codes as places.
LEMMA CodesCounted ==
    IsFiniteSet(Codes) /\ Cardinality(Codes) = Len(Universe)
<1>1. PICK n \in Nat : n = Len(Universe) /\ DOMAIN Universe = 1 .. n
  BY CollectionAssumption
<1>2. Universe \in [1 .. n -> Codes] /\ Codes = {Universe[i] : i \in 1 .. n}
  BY <1>1, CollectionAssumption DEF Codes, ToSet
<1>3. IsFiniteSet(1 .. n) /\ Cardinality(1 .. n) = n
  BY FS_Interval
<1>4. ExistsBijection(1 .. n, Codes)
  <2>1. Universe \in Bijection(1 .. n, Codes)
    BY <1>1, <1>2, CollectionAssumption DEF Bijection, Injection, Surjection, IsInjective
  <2> QED
    BY <2>1 DEF ExistsBijection
<1> QED
  BY <1>1, <1>3, <1>4, FS_Bijection

\* The flow phase begins with the prices of every code and with fresh batches.
LEMMA FlowStarted ==
    ASSUME NEW p, NEW files, ProgressOK(p, files), p.phase = "price_collection", PricesFinal(p),
           NEW q \in StartsFlow(p)
    PROVE  /\ ProgressOK(q, files) /\ q.phase = "flow_collection"
           /\ q.rows["price"] = p.rows["price"] /\ q.done = p.done
<1>1. PICK chosen \in BoundedSeq(Codes, FlowLimit) :
        /\ IsInjective(chosen)
        /\ q = [p EXCEPT !.phase = "flow_collection", !.rows["flow"] = Rows(chosen, FlowBatchSize)]
  BY DEF StartsFlow
<1>2. chosen \in Seq(Codes)
  BY <1>1, CollectionAssumption DEF BoundedSeq, SeqOf
<1> DEFINE fresh == Rows(chosen, FlowBatchSize)
<1>3. RowsOK(fresh) /\ Within(fresh) = {}
  BY <1>1, <1>2, CollectionAssumption, FreshRows
<1> HIDE DEF fresh
<1>4. /\ p \in ProgressSet /\ p.rows \in [Kinds -> Seq(RowSet)] /\ p.done \in [Kinds -> SUBSET Codes]
      /\ "flow" \in Kinds /\ "price" \in Kinds /\ fresh \in Seq(RowSet) /\ p.done["flow"] = {}
  BY <1>3 DEF ProgressOK, ProgressSet, Kinds, RowsOK
<1> DEFINE rows == [p.rows EXCEPT !["flow"] = fresh]
<1>5. rows \in [Kinds -> Seq(RowSet)] /\ rows["flow"] = fresh /\ rows["price"] = p.rows["price"]
  BY <1>4
<1>6. q = [p EXCEPT !.phase = "flow_collection", !.rows = rows]
  BY <1>1, <1>4 DEF fresh, ProgressSet
<1> HIDE DEF rows
<1>7. /\ q \in ProgressSet /\ q.phase = "flow_collection" /\ q.rows = rows
      /\ q.done = p.done /\ q.bad = p.bad
  BY <1>4, <1>5, <1>6 DEF ProgressSet
<1>8. \A k \in Kinds : k = "price" \/ k = "flow"
  BY DEF Kinds
<1>9. \A k \in Kinds : RowsOK(q.rows[k]) /\ q.done[k] \subseteq files[k] \cup Within(q.rows[k])
  BY <1>3, <1>4, <1>5, <1>7, <1>8 DEF ProgressOK
<1>10. q.done["price"] = Codes /\ q.bad["price"] = {}
  <2>1. p.done["price"] \in SUBSET Codes /\ Cardinality(p.done["price"]) = Len(Universe) /\ p.bad["price"] = {}
    BY <1>4 DEF PricesFinal
  <2>2. p.done["price"] = Codes
    BY <2>1, CodesCounted, FS_Subset
  <2> QED
    BY <1>7, <2>1, <2>2
<1> QED
  BY <1>5, <1>7, <1>9, <1>10 DEF ProgressOK

\* A collection that has just been created.
LEMMA InitCInv ==
    ASSUME PInit
    PROVE  CInv
<1>1. Universe \in Seq(Codes) /\ ToSet(Universe) = Codes
  BY CollectionAssumption DEF Codes
<1> DEFINE fresh == Rows(Universe, PriceBatchSize)
           rows == [k \in Kinds |-> IF k = "price" THEN fresh ELSE <<>>]
<1>2. RowsOK(fresh) /\ Covered(fresh) = Codes
  BY <1>1, CollectionAssumption, FreshRows
<1> HIDE DEF fresh
<1>3. "price" \in Kinds /\ "flow" \in Kinds
  BY DEF Kinds
<1>4. RowsOK(<<>>)
  BY DEF RowsOK, Apart, Ordered
<1>5. /\ rows \in [Kinds -> Seq(RowSet)] /\ rows["price"] = fresh /\ rows["flow"] = <<>>
      /\ \A k \in Kinds : RowsOK(rows[k])
  <2>1. fresh \in Seq(RowSet) /\ <<>> \in Seq(RowSet)
    BY <1>2 DEF RowsOK
  <2> QED
    BY <1>2, <1>3, <1>4, <2>1
<1>6. progress = [phase |-> "planned", rows |-> rows, done |-> [k \in Kinds |-> {}],
                  bad |-> [k \in Kinds |-> {}]]
  BY DEF PInit, fresh
<1> HIDE DEF rows
<1>7. /\ progress \in ProgressSet /\ progress.phase = "planned" /\ progress.rows = rows
      /\ \A k \in Kinds : progress.done[k] = {}
  BY <1>5, <1>6 DEF ProgressSet
<1>8. ProgressOK(progress, saved)
  BY <1>2, <1>3, <1>5, <1>7 DEF ProgressOK
<1> QED
  BY <1>8 DEF PInit, CInv

\* The batch an invocation works on is not complete, and all before it are.
LEMMA TakenInOrder ==
    ASSUME NEW rows, RowsOK(rows), NEW i \in DOMAIN rows,
           \/ rows[i].status = "pending" /\ \A j \in 1 .. i - 1 : rows[j].status = "complete"
           \/ rows[i].status \in {"partial", "interrupted"}
    PROVE  /\ i \in Nat \ {0} /\ rows[i].status # "complete"
           /\ \A j \in 1 .. i - 1 : rows[j].status = "complete"
<1>1. PICK n \in Nat : DOMAIN rows = 1 .. n
  BY DEF RowsOK
<1>2. ASSUME rows[i].status # "pending", NEW j \in 1 .. i - 1
      PROVE  rows[j].status = "complete"
  <2>1. j \in DOMAIN rows /\ j < i
    BY <1>1
  <2> QED
    BY <1>2, <2>1 DEF RowsOK, Ordered
<1> QED
  BY <1>1, <1>2

\* So is the batch of next_batch ...
LEMMA NextTaken ==
    ASSUME NEW rows, RowsOK(rows), NEW i, i \in NextRows(rows)
    PROVE  /\ i \in DOMAIN rows /\ i \in Nat \ {0} /\ rows[i].status # "complete"
           /\ \A j \in 1 .. i - 1 : rows[j].status = "complete"
<1>1. /\ i \in DOMAIN rows /\ rows[i].status = "pending"
      /\ \A j \in 1 .. i - 1 : rows[j].status = "complete"
  BY DEF NextRows, WithStatus
<1> QED
  BY <1>1, TakenInOrder

\* ... one that an earlier invocation has left ...
LEMMA LeftTaken ==
    ASSUME NEW rows, RowsOK(rows), NEW i, i \in WithStatus(rows, {"partial", "interrupted"})
    PROVE  /\ i \in DOMAIN rows /\ i \in Nat \ {0} /\ rows[i].status # "complete"
           /\ \A j \in 1 .. i - 1 : rows[j].status = "complete"
<1>1. i \in DOMAIN rows /\ rows[i].status \in {"partial", "interrupted"}
  BY DEF WithStatus
<1> QED
  BY <1>1, TakenInOrder

\* ... and whatever a live invocation takes.
LEMMA LiveTaken ==
    ASSUME NEW rows, RowsOK(rows), NEW mode \in Modes, NEW i, i \in LiveRows(mode, rows)
    PROVE  /\ i \in DOMAIN rows /\ i \in Nat \ {0} /\ rows[i].status # "complete"
           /\ \A j \in 1 .. i - 1 : rows[j].status = "complete"
<1>1. CASE mode = "next"
  BY <1>1, NextTaken DEF LiveRows
<1>2. CASE mode \in {"repair", "resume"}
  <2>1. i \in WithStatus(rows, {"partial", "interrupted"})
    BY <1>2 DEF LiveRows, First, WithStatus
  <2> QED
    BY <2>1, LeftTaken
<1> QED
  BY <1>1, <1>2 DEF Modes

\* An offline batch: what is tried is completed or has failed.
LEMMA MockBatchCInv ==
    ASSUME CInv, NEW repair \in BOOLEAN, MockBatch(repair)
    PROVE  CInv'
<1> DEFINE p == Started(progress)
           kind == KindOf(p)
           rows == p.rows[kind]
<1>1. ProgressOK(p, saved) /\ p.phase # "planned" /\ kind \in Kinds /\ RowsOK(rows)
  <2> DEFINE q == Started(progress)
  <2>1. q = Started(progress)
    OBVIOUS
  <2> HIDE DEF q
  <2>2. ProgressOK(q, saved) /\ q.phase # "planned"
    BY <2>1, StartedOK DEF CInv
  <2>3. KindOf(q) \in Kinds
    BY DEF KindOf, Kinds
  <2> QED
    BY <2>2, <2>3 DEF ProgressOK, q
<1> HIDE DEF p, kind
<1> DEFINE Batch(i, failing, stop) ==
        LET row == rows[i]
            targets == Targets(row, repair)
            ends == {J \in {{m \in targets : m <= j} : j \in 0 .. Len(row.codes)} :
                       \/ J = targets
                       \/ Cardinality(J) = stop
                       \/ Broken(row.codes, J, failing)}
        IN  \E tried \in ends :
                LET completed == row.completed \cup (At(row.codes, tried) \ failing)
                    failed == (row.failed \cup At(row.codes, tried)) \ completed
                    status == IF tried # targets \/ Broken(row.codes, tried, failing)
                              THEN "interrupted" ELSE Outcome(failed)
                IN  /\ \A J \in ends : tried \subseteq J
                    /\ progress' = Recorded(p, kind, i, status, completed, failed)
                    /\ told' = [repair |-> repair, batch |-> TRUE,
                                status |-> status, kind |-> kind, index |-> i]
<1>2. PICK i \in IF repair THEN First(WithStatus(rows, {"partial", "interrupted"}))
                          ELSE NextRows(rows) :
        \E failing, stop : Batch(i, failing, stop)
  BY DEF MockBatch, p, kind
<1> DEFINE row == rows[i]
           targets == Targets(row, repair)
<1>2a. PICK failing, stop : Batch(i, failing, stop)
  BY <1>2
<1>3. PICK tried \in SUBSET targets :
        LET completed == row.completed \cup (At(row.codes, tried) \ failing)
            failed == (row.failed \cup At(row.codes, tried)) \ completed
            status == IF tried # targets \/ Broken(row.codes, tried, failing)
                      THEN "interrupted" ELSE Outcome(failed)
        IN  /\ progress' = Recorded(p, kind, i, status, completed, failed)
            /\ told' = [repair |-> repair, batch |-> TRUE,
                        status |-> status, kind |-> kind, index |-> i]
  <2> DEFINE ends == {J \in {{m \in targets : m <= j} : j \in 0 .. Len(row.codes)} :
                        \/ J = targets
                        \/ Cardinality(J) = stop
                        \/ Broken(row.codes, J, failing)}
             Result(tried) ==
                LET completed == row.completed \cup (At(row.codes, tried) \ failing)
                    failed == (row.failed \cup At(row.codes, tried)) \ completed
                    status == IF tried # targets \/ Broken(row.codes, tried, failing)
                              THEN "interrupted" ELSE Outcome(failed)
                IN  /\ progress' = Recorded(p, kind, i, status, completed, failed)
                    /\ told' = [repair |-> repair, batch |-> TRUE,
                                status |-> status, kind |-> kind, index |-> i]
  <2>1. \E tried \in ends : Result(tried)
    BY <1>2a
  <2>2. \A tried \in ends : tried \in SUBSET targets
    <3> HIDE DEF targets, row
    <3> QED
      OBVIOUS
  <2> HIDE DEF ends, Result
  <2>3. \E tried \in SUBSET targets : Result(tried)
    BY <2>1, <2>2
  <2> QED
    BY <2>3 DEF Result
<1> DEFINE completed == row.completed \cup (At(row.codes, tried) \ failing)
           failed == (row.failed \cup At(row.codes, tried)) \ completed
           status == IF tried # targets \/ Broken(row.codes, tried, failing)
                     THEN "interrupted" ELSE Outcome(failed)
<1>4. /\ progress' = Recorded(p, kind, i, status, completed, failed)
      /\ told' = [repair |-> repair, batch |-> TRUE, status |-> status, kind |-> kind, index |-> i]
      /\ run = NoRun /\ run' = NoRun /\ saved' = saved
  BY <1>3 DEF MockBatch
<1> HIDE DEF rows
<1>5. /\ i \in DOMAIN rows /\ rows[i].status # "complete"
      /\ \A j \in 1 .. i - 1 : rows[j].status = "complete"
  <2>1. CASE repair
    <3>1. i \in WithStatus(rows, {"partial", "interrupted"})
      BY <2>1 DEF First
    <3> QED
      BY <1>1, <3>1, LeftTaken
  <2>2. CASE ~repair
    BY <1>1, <2>2, NextTaken
  <2> QED
    BY <2>1, <2>2
<1>6. RowType(row)
  BY <1>1, <1>5 DEF RowsOK, RowOK
<1> HIDE DEF row
<1>7. At(row.codes, tried) \subseteq ToSet(row.codes)
  BY DEF At, ToSet, Targets
<1>8. /\ row.completed \subseteq completed /\ completed \subseteq ToSet(row.codes)
      /\ failed \subseteq ToSet(row.codes) \ completed
  BY <1>6, <1>7 DEF RowType
<1>9. status \in {"running", "partial", "interrupted", "complete"} /\ (status = "partial" => failed # {})
  BY DEF Outcome
<1>10. ASSUME status = "complete", ~repair
       PROVE  ToSet(row.codes) \subseteq completed
  <2>1. tried = targets /\ failed = {}
    BY <1>10 DEF Outcome
  <2>2. \A j \in DOMAIN row.codes : row.codes[j] \in row.completed \/ row.codes[j] \in At(row.codes, tried)
    BY <1>10, <2>1 DEF Targets, At
  <2> HIDE DEF targets
  <2> QED
    BY <2>1, <2>2 DEF ToSet
<1> HIDE DEF completed, failed, status
<1>11. /\ ProgressOK(progress', saved) /\ DOMAIN progress'.rows[kind] = DOMAIN p.rows[kind]
       /\ progress'.rows[kind][i] = [codes |-> p.rows[kind][i].codes, status |-> status,
                                     completed |-> completed, failed |-> failed]
       /\ completed \subseteq progress'.done[kind]
  <2>1. /\ kind = KindOf(p) /\ i \in DOMAIN p.rows[kind]
        /\ p.rows[kind][i].completed \subseteq completed
        /\ completed \subseteq ToSet(p.rows[kind][i].codes)
        /\ failed \subseteq ToSet(p.rows[kind][i].codes) \ completed
        /\ p.rows[kind][i].status # "complete"
        /\ \A j \in 1 .. i - 1 : p.rows[kind][j].status = "complete"
    BY <1>5, <1>8 DEF kind, rows, row
  <2> DEFINE q == progress'   files == saved
  <2>2. ProgressOK(p, files) /\ q = Recorded(p, kind, i, status, completed, failed)
    BY <1>1, <1>4
  <2> HIDE DEF q, files
  <2>3. /\ p.phase # "planned"
        /\ status \in {"running", "partial", "interrupted", "complete"}
        /\ (status = "partial" => failed # {})
    BY <1>1, <1>9
  <2>4. RecordedFrom(Recorded(p, kind, i, status, completed, failed), p, files, kind, i,
                     [codes |-> p.rows[kind][i].codes, status |-> status,
                      completed |-> completed, failed |-> failed])
    BY ONLY <2>1, <2>2, <2>3, RecordedOK
  <2>5. /\ ProgressOK(q, files) /\ DOMAIN q.rows[kind] = DOMAIN p.rows[kind]
        /\ q.rows[kind][i] = [codes |-> p.rows[kind][i].codes, status |-> status,
                              completed |-> completed, failed |-> failed]
        /\ completed \subseteq q.done[kind]
    BY <2>2, <2>4 DEF RecordedFrom
  <2> QED
    BY <2>5 DEF q, files
<1>12. ToldOK(told', run', progress')
  <2>1. /\ told'.repair = repair /\ told'.batch = TRUE /\ told'.status = status
        /\ told'.kind = kind /\ told'.index = i
    BY <1>4
  <2>2. /\ progress'.rows[kind][i].status = status
        /\ progress'.rows[kind][i].codes = row.codes /\ i \in DOMAIN progress'.rows[kind]
    BY <1>5, <1>11 DEF row, rows
  <2> QED
    BY <1>1, <1>4, <1>10, <1>11, <2>1, <2>2 DEF ToldOK
<1> QED
  BY <1>4, <1>11, <1>12 DEF CInv

\* finalize_price_phase keeps the invariant.
LEMMA FinalizePricesCInv ==
    ASSUME CInv, FinalizePrices
    PROVE  CInv'
<1> DEFINE p == progress   q == progress'   files == saved
<1>1. /\ ProgressOK(p, files) /\ p.phase = "price_collection" /\ PricesFinal(p)
      /\ q \in StartsFlow(p)
  BY DEF CInv, FinalizePrices
<1> HIDE DEF p, q, files
<1>2. ProgressOK(q, files)
  BY ONLY <1>1, FlowStarted
<1> QED
  BY <1>2 DEF CInv, FinalizePrices, q, files

\* Completing the flow phase changes the phase only.
LEMMA Completed ==
    ASSUME NEW p, NEW files, ProgressOK(p, files), p.phase = "flow_collection",
           NEW q, q = [p EXCEPT !.phase = "complete"]
    PROVE  ProgressOK(q, files) /\ q.rows = p.rows /\ q.done = p.done
<1>1. p \in ProgressSet
  BY DEF ProgressOK
<1>2. /\ q \in ProgressSet /\ q.phase = "complete" /\ q.rows = p.rows
      /\ q.done = p.done /\ q.bad = p.bad
  BY <1>1 DEF ProgressSet
<1> QED
  BY <1>2 DEF ProgressOK

\* finalize_mock_report keeps the invariant.
LEMMA FinalizeReportCInv ==
    ASSUME CInv, FinalizeReport
    PROVE  CInv'
<1> DEFINE p == progress   q == progress'   files == saved
<1>1. /\ ProgressOK(p, files) /\ p.phase = "flow_collection" /\ q = [p EXCEPT !.phase = "complete"]
  BY DEF CInv, FinalizeReport
<1> HIDE DEF p, q, files
<1>2. ProgressOK(q, files)
  BY ONLY <1>1, Completed
<1> QED
  BY <1>2 DEF CInv, FinalizeReport, q, files

\* What a live invocation knows before it concludes a phase.
LEMMA Running ==
    ASSUME CInv, run # NoRun
    PROVE  /\ RunOK(run, progress, saved) /\ run \in RunSet /\ run.kind \in Kinds
           /\ ProgressOK(progress, saved) /\ progress \in ProgressSet /\ saved \in [Kinds -> SUBSET Codes]
           /\ progress.phase # "planned" /\ run.kind = KindOf(progress)
           /\ run.index \in DOMAIN progress.rows[run.kind]
           /\ Holds(run, progress.rows[run.kind][run.index], saved)
           /\ IsInjective(run.codes) /\ run.codes \in Seq(Codes) /\ ToSet(run.codes) \subseteq Codes
           /\ run.step # "conclude" => told = Silent
<1>1. RunOK(run, progress, saved) /\ run \in RunSet /\ ProgressOK(progress, saved)
  BY DEF CInv, RunOK
<1>2. run.kind \in Kinds /\ run.codes \in Seq(Codes)
  BY <1>1 DEF RunSet
<1>3. IsInjective(run.codes)
  BY <1>1, <1>2 DEF RunOK, Holds, ProgressOK, RowsOK, Apart
<1>4. ToSet(run.codes) \subseteq Codes
  <2> DEFINE c == run.codes
  <2>1. c \in Seq(Codes)
    BY <1>2
  <2> HIDE DEF c
  <2>2. \A j \in DOMAIN c : c[j] \in Codes
    BY <2>1
  <2>3. ToSet(c) \subseteq Codes
    BY <2>2 DEF ToSet
  <2> QED
    BY <2>3 DEF c
<1>5. run.step # "conclude" => told = Silent
  BY DEF CInv, ToldOK
<1> QED
  BY <1>1, <1>2, <1>3, <1>4, <1>5 DEF CInv, RunOK, ProgressOK, Collecting

\* A batch is picked and its progress is copied.
LEMMA BeginLiveCInv ==
    ASSUME CInv, NEW mode \in Modes, BeginLive(mode)
    PROVE  CInv'
<1> DEFINE p == progress'   files == saved   kind == KindOf(p)   rows == p.rows[kind]
<1>1. p = Started(progress) /\ saved' = files /\ told' = Silent
  BY DEF BeginLive
<1>2. ProgressOK(p, files) /\ p.phase # "planned" /\ kind \in Kinds /\ RowsOK(rows)
  <2> DEFINE q == progress'
  <2>1. q = Started(progress)
    BY <1>1
  <2> HIDE DEF q
  <2>2. ProgressOK(q, saved) /\ q.phase # "planned"
    BY <2>1, StartedOK DEF CInv
  <2>3. KindOf(q) \in Kinds
    BY DEF KindOf, Kinds
  <2> QED
    BY <2>2, <2>3 DEF ProgressOK, q
<1>3. Collecting(p) /\ run = NoRun
  BY <1>1 DEF BeginLive
<1>4. CASE run' = run
  BY <1>1, <1>2, <1>3, <1>4 DEF CInv
<1>5. CASE \E i \in LiveRows(mode, rows) :
             LET row == rows[i] IN
             run' = [mode |-> mode, kind |-> kind, index |-> i, step |-> "collect",
                     codes |-> row.codes, left |-> Targets(row, mode = "repair"),
                     completed |-> row.completed, failed |-> row.failed,
                     streak |-> 0, cut |-> FALSE]
  <2>1. PICK i \in LiveRows(mode, rows) :
             run' = [mode |-> mode, kind |-> kind, index |-> i, step |-> "collect",
                     codes |-> rows[i].codes, left |-> Targets(rows[i], mode = "repair"),
                     completed |-> rows[i].completed, failed |-> rows[i].failed,
                     streak |-> 0, cut |-> FALSE]
    BY <1>5
  <2> DEFINE row == rows[i]   left == Targets(row, mode = "repair")   r == run'
  <2> HIDE DEF p, kind
  <2>2. /\ i \in DOMAIN rows /\ i \in Nat \ {0} /\ row.status # "complete"
        /\ \A j \in 1 .. i - 1 : rows[j].status = "complete"
    <3> HIDE DEF rows
    <3> QED
      BY <1>2, LiveTaken
  <2>3. row \in RowSet /\ RowOK(row)
    <3> HIDE DEF rows
    <3> QED
      BY <1>2, <2>2 DEF RowsOK
  <2>4. row.codes \in Seq(Codes) /\ row.completed \in SUBSET Codes /\ row.failed \in SUBSET Codes
    BY <2>3 DEF RowSet
  <2> HIDE DEF row
  <2>5. left \subseteq DOMAIN row.codes /\ left \subseteq Nat
    <3>1. DOMAIN row.codes = 1 .. Len(row.codes)
      BY <2>4
    <3> QED
      BY <3>1 DEF Targets
  <2>6. \A j \in left : row.codes[j] \notin row.completed
    BY DEF Targets
  <2>7. mode # "repair" => \A j \in DOMAIN row.codes : j \in left \/ row.codes[j] \in row.completed
    BY DEF Targets
  <2> HIDE DEF left
  <2>8. r = [mode |-> mode, kind |-> kind, index |-> i, step |-> "collect",
             codes |-> row.codes, left |-> left, completed |-> row.completed, failed |-> row.failed,
             streak |-> 0, cut |-> FALSE]
    BY <2>1 DEF row, left, rows
  <2> HIDE DEF r, rows
  <2>9. /\ r \in RunSet /\ r.mode = mode /\ r.kind = kind /\ r.index = i /\ r.codes = row.codes
        /\ r.left = left /\ r.completed = row.completed /\ r.failed = row.failed /\ r.cut = FALSE
    BY <1>2, <2>2, <2>4, <2>5, <2>8 DEF RunSet
  <2>10. Holds(r, row, files)
    BY <2>3, <2>5, <2>6, <2>7, <2>9 DEF Holds, RowOK, RowType
  <2>11. RunOK(r, p, files)
    BY <1>3, <2>2, <2>9, <2>10 DEF RunOK, rows, row, kind
  <2> QED
    BY <1>1, <1>2, <2>11 DEF CInv, r, p
<1> QED
  BY <1>1, <1>4, <1>5 DEF BeginLive

\* A code is known to be on disk.
LEMMA HasOK ==
    ASSUME CInv, NEW j, Collects(j), NEW step \in {"collect", "checkpoint"},
           NEW r, r = [Has(j) EXCEPT !.step = step],
           NEW more \in [Kinds -> SUBSET Codes], \A k \in Kinds : saved[k] \subseteq more[k],
           run.codes[j] \in more[run.kind]
    PROVE  RunOK(r, progress, more) /\ told = Silent
<1>1. run # NoRun /\ run.step = "collect" /\ j \in run.left
  BY DEF Collects, First
<1>2. /\ run \in RunSet /\ run.kind \in Kinds /\ RunOK(run, progress, saved)
      /\ Holds(run, progress.rows[run.kind][run.index], saved)
      /\ IsInjective(run.codes) /\ ToSet(run.codes) \subseteq Codes /\ told = Silent
  BY <1>1, Running
<1> DEFINE row == progress.rows[run.kind][run.index]
           code == run.codes[j]
<1>3. j \in DOMAIN run.codes /\ code \in ToSet(run.codes) /\ code \in Codes
  BY <1>1, <1>2 DEF Holds, ToSet
<1> HIDE DEF code
<1>4. r = [run EXCEPT !.left = run.left \ {j}, !.completed = run.completed \cup {code},
                      !.failed = run.failed \ {code}, !.streak = 0, !.step = step]
  BY <1>2 DEF Has, RunSet, code
<1>5. /\ r \in RunSet /\ r.mode = run.mode /\ r.kind = run.kind /\ r.index = run.index
      /\ r.codes = run.codes /\ r.left = run.left \ {j}
      /\ r.completed = run.completed \cup {code} /\ r.failed = run.failed \ {code} /\ r.step = step
      /\ r.cut = run.cut
  <2> DEFINE left == run.left \ {j}
             completed == run.completed \cup {code}
             failed == run.failed \ {code}
  <2>1. left \in SUBSET Nat /\ completed \in SUBSET Codes /\ failed \in SUBSET Codes
    BY <1>2, <1>3 DEF RunSet
  <2>2. r = [run EXCEPT !.left = left, !.completed = completed, !.failed = failed,
                        !.streak = 0, !.step = step]
    BY <1>4
  <2> HIDE DEF left, completed, failed
  <2>3. step \in {"collect", "checkpoint", "conclude"}
    OBVIOUS
  <2>4. /\ r \in RunSet /\ r.mode = run.mode /\ r.kind = run.kind /\ r.index = run.index
        /\ r.codes = run.codes /\ r.left = left /\ r.completed = completed
        /\ r.failed = failed /\ r.step = step /\ r.cut = run.cut
    BY ONLY <1>2, <2>1, <2>2, <2>3 DEF RunSet
  <2> QED
    BY <2>4 DEF left, completed, failed
<1>6. \A m \in run.left \ {j} : run.codes[m] # code
  BY <1>2, <1>3 DEF Holds, IsInjective, code
<1> HIDE DEF row
<1>7. Holds(r, row, more)
  <2>1. Holds(run, row, saved)
    BY <1>2 DEF row
  <2>2. code \in more[run.kind] /\ saved[run.kind] \subseteq more[run.kind]
    BY <1>2 DEF code
  <2>3. \A m \in r.left : r.codes[m] \notin r.completed
    BY <1>5, <1>6, <2>1 DEF Holds
  <2>4. ~r.cut /\ r.mode # "repair" =>
           \A m \in DOMAIN r.codes : m \in r.left \/ r.codes[m] \in r.completed \cup r.failed
    BY <1>5, <2>1 DEF Holds, code
  <2> QED
    BY <1>3, <1>5, <2>1, <2>2, <2>3, <2>4 DEF Holds
<1>8. RunOK(r, progress, more)
  BY <1>1, <1>2, <1>5, <1>7 DEF RunOK, row
<1> QED
  BY <1>2, <1>8

\* Artifacts that are there, or are copied, vouch for the code.
LEMMA ReuseCInv ==
    ASSUME CInv, NEW j, Reuse(j)
    PROVE  CInv'
<1>1. /\ Collects(j) /\ run # NoRun /\ run.step = "collect"
      /\ saved' \in {saved, [saved EXCEPT ![run.kind] = @ \cup {run.codes[j]}]}
      /\ run.codes[j] \in saved'[run.kind] /\ run' = Has(j) /\ progress' = progress /\ told' = told
  BY DEF Reuse, Collects
<1>2. /\ run \in RunSet /\ run.kind \in Kinds /\ saved \in [Kinds -> SUBSET Codes]
      /\ ToSet(run.codes) \subseteq Codes /\ ProgressOK(progress, saved)
      /\ Holds(run, progress.rows[run.kind][run.index], saved)
  BY <1>1, Running
<1>3. run.codes[j] \in Codes
  BY <1>1, <1>2 DEF Collects, First, Holds, ToSet
<1> DEFINE more == saved'   r == run'
<1>4. more \in [Kinds -> SUBSET Codes] /\ \A k \in Kinds : saved[k] \subseteq more[k]
  BY <1>1, <1>2, <1>3
<1>5. r = [Has(j) EXCEPT !.step = "collect"]
  BY <1>1, <1>2 DEF Has, RunSet
<1>6. run.codes[j] \in more[run.kind]
  BY <1>1
<1> HIDE DEF more, r
<1>7. RunOK(r, progress, more) /\ told = Silent
  BY <1>1, <1>4, <1>5, <1>6, HasOK
<1>8. ProgressOK(progress, more)
  BY <1>2, <1>4, SavedMore
<1> QED
  BY <1>1, <1>4, <1>7, <1>8 DEF CInv, more, r

\* The artifacts are saved before the code counts as completed.
LEMMA FetchCInv ==
    ASSUME CInv, NEW j, Fetch(j)
    PROVE  CInv'
<1>1. /\ Collects(j) /\ run # NoRun /\ run.step = "collect"
      /\ saved' = [saved EXCEPT ![run.kind] = @ \cup {run.codes[j]}]
      /\ run' = [Has(j) EXCEPT !.step = "checkpoint"] /\ progress' = progress /\ told' = told
  BY DEF Fetch, Collects
<1>2. /\ run \in RunSet /\ run.kind \in Kinds /\ saved \in [Kinds -> SUBSET Codes]
      /\ ToSet(run.codes) \subseteq Codes /\ ProgressOK(progress, saved)
      /\ Holds(run, progress.rows[run.kind][run.index], saved)
  BY <1>1, Running
<1>3. run.codes[j] \in Codes
  BY <1>1, <1>2 DEF Collects, First, Holds, ToSet
<1> DEFINE more == saved'   r == run'
<1>4. /\ more \in [Kinds -> SUBSET Codes] /\ \A k \in Kinds : saved[k] \subseteq more[k]
      /\ run.codes[j] \in more[run.kind]
  BY <1>1, <1>2, <1>3
<1>5. r = [Has(j) EXCEPT !.step = "checkpoint"]
  BY <1>1
<1> HIDE DEF more, r
<1>6. RunOK(r, progress, more) /\ told = Silent
  BY <1>1, <1>4, <1>5, HasOK
<1>7. ProgressOK(progress, more)
  BY <1>2, <1>4, SavedMore
<1> QED
  BY <1>1, <1>4, <1>6, <1>7 DEF CInv, more, r

\* A request that fails leaves its code to the list of the failed.
LEMMA FetchFailsCInv ==
    ASSUME CInv, NEW j, NEW timeout \in BOOLEAN, NEW linkLost \in BOOLEAN,
           FetchFails(j, timeout, linkLost)
    PROVE  CInv'
<1> DEFINE streak == IF timeout THEN run.streak + 1 ELSE 0
           cut == linkLost \/ streak >= BreakerLimit
           left == IF cut THEN {} ELSE run.left \ {j}
           step == IF cut THEN "collect" ELSE "checkpoint"
           code == run.codes[j]
           failed == run.failed \cup {code}
           row == progress.rows[run.kind][run.index]
           r == run'
<1>1. run # NoRun /\ run.step = "collect" /\ j \in run.left
  BY DEF FetchFails, Collects, First
<1>2. /\ run \in RunSet /\ run.kind \in Kinds /\ RunOK(run, progress, saved)
      /\ Holds(run, row, saved) /\ ToSet(run.codes) \subseteq Codes /\ told = Silent
  BY <1>1, Running
<1>3. /\ r = [run EXCEPT !.failed = failed, !.streak = streak, !.left = left, !.cut = cut, !.step = step]
      /\ progress' = progress /\ saved' = saved /\ told' = told
  BY DEF FetchFails
<1>4. /\ streak \in Nat /\ cut \in BOOLEAN /\ left \subseteq run.left /\ left \in SUBSET Nat
      /\ step \in {"collect", "checkpoint", "conclude"} /\ step # "conclude"
  BY <1>2 DEF RunSet
<1>5. /\ j \in DOMAIN run.codes /\ code \in ToSet(run.codes) /\ code \notin run.completed
      /\ failed \in SUBSET Codes
  <2>1. j \in DOMAIN run.codes /\ code \in ToSet(run.codes) /\ code \notin run.completed
    BY <1>1, <1>2 DEF Holds, ToSet
  <2>2. run.failed \in SUBSET Codes
    BY <1>2 DEF RunSet
  <2> QED
    BY <1>2, <2>1, <2>2
<1>6. (~cut => left = run.left \ {j}) /\ (cut => left = {})
  OBVIOUS
<1>7. failed = run.failed \cup {code}
  OBVIOUS
<1> HIDE DEF streak, cut, left, step, failed, row, r
<1>8. /\ r \in RunSet /\ r.mode = run.mode /\ r.kind = run.kind /\ r.index = run.index
      /\ r.codes = run.codes /\ r.left = left /\ r.completed = run.completed
      /\ r.failed = failed /\ r.step = step /\ r.cut = cut
  BY ONLY <1>2, <1>3, <1>4, <1>5 DEF RunSet
<1>9. Holds(r, row, saved)
  <2>1. r.failed \subseteq ToSet(r.codes) \ r.completed
    BY <1>2, <1>5, <1>7, <1>8 DEF Holds
  <2>2. \A m \in r.left : r.codes[m] \notin r.completed
    BY <1>2, <1>4, <1>8 DEF Holds
  <2>3. ~r.cut /\ r.mode # "repair" =>
           \A m \in DOMAIN r.codes : m \in r.left \/ r.codes[m] \in r.completed \cup r.failed
    <3> SUFFICES ASSUME ~r.cut, r.mode # "repair", NEW m \in DOMAIN r.codes
                 PROVE  m \in r.left \/ r.codes[m] \in r.completed \cup r.failed
      OBVIOUS
    <3>1. ~run.cut
      <4>1. j \in run.left /\ left = run.left \ {j}
        BY <1>1, <1>6, <1>8
      <4> QED
        BY <1>1, <1>2 DEF Holds
    <3> QED
      BY <1>2, <1>6, <1>7, <1>8, <3>1 DEF Holds
  <2> QED
    BY <1>2, <1>4, <1>6, <1>8, <2>1, <2>2, <2>3 DEF Holds
<1>10. RunOK(r, progress, saved)
  BY <1>1, <1>2, <1>4, <1>8, <1>9 DEF RunOK, row
<1> QED
  BY <1>2, <1>3, <1>10 DEF CInv, r

\* What a live invocation saves of its batch.
LEMMA SavesOK ==
    ASSUME CInv, run # NoRun, run.step # "conclude",
           NEW status, status \in {"running", "partial", "interrupted", "complete"},
           status = "partial" => run.failed # {},
           NEW q, q = Saves(status)
    PROVE  LET k == run.kind  i == run.index  old == progress.rows[k][i] IN
           /\ ProgressOK(q, saved) /\ q.phase = progress.phase /\ i \in DOMAIN q.rows[k]
           /\ q.rows[k][i].codes = old.codes
           /\ q.rows[k][i].completed \subseteq run.completed
           /\ run.completed \subseteq saved[k] \cup q.rows[k][i].completed
           /\ q.rows[k][i].status = IF run.mode = "next" THEN old.status ELSE status
           /\ \A j \in 1 .. i - 1 : q.rows[k][j].status = "complete"
           /\ run.completed \subseteq q.done[k]
<1> DEFINE p == progress   files == saved   kind == run.kind   i == run.index
           completed == run.completed   failed == run.failed   old == p.rows[kind][i]
<1>1. /\ ProgressOK(p, files) /\ p.phase # "planned" /\ kind = KindOf(p) /\ kind \in Kinds
      /\ i \in DOMAIN p.rows[kind] /\ Holds(run, old, files) /\ ToSet(run.codes) \subseteq Codes
      /\ RunOK(run, p, files)
  BY Running
<1>2. /\ old.status # "complete" /\ \A j \in 1 .. i - 1 : p.rows[kind][j].status = "complete"
  BY <1>1 DEF RunOK
<1>3. /\ old.completed \subseteq completed /\ completed \subseteq ToSet(old.codes)
      /\ failed \subseteq ToSet(old.codes) \ completed
      /\ completed \subseteq files[kind] \cup old.completed
      /\ ToSet(old.codes) \subseteq Codes /\ completed \in SUBSET Codes /\ failed \in SUBSET Codes
  BY <1>1 DEF Holds
<1>4. status = "partial" => failed # {}
  OBVIOUS
<1>5. q = IF run.mode = "next" THEN Listed(p, kind, completed, failed)
          ELSE Recorded(p, kind, i, status, completed, failed)
  BY DEF Saves
<1>6. \A j \in 1 .. i - 1 : j # i
  <2>1. i \in Nat
    BY <1>1 DEF RunOK, RunSet
  <2> QED
    BY <2>1
<1>7. \A j \in 1 .. i - 1 : j \in DOMAIN p.rows[kind]
  <2>1. p.rows[kind] \in Seq(RowSet)
    BY <1>1 DEF ProgressOK, ProgressSet
  <2>2. PICK n \in Nat : DOMAIN p.rows[kind] = 1 .. n
    BY <2>1
  <2> QED
    BY <1>1, <2>2
<1> HIDE DEF p, files, kind, i, completed, failed
<1>8. CASE run.mode = "next"
  <2>1. completed \subseteq files[kind] \cup Within(p.rows[kind])
    BY <1>1, <1>3 DEF Within
  <2>2. q = Listed(p, kind, completed, failed)
    BY <1>5, <1>8
  <2>3. ProgressOK(p, files) /\ p.phase # "planned" /\ kind = KindOf(p)
    BY <1>1
  <2>4. completed \in SUBSET Codes /\ failed \in SUBSET Codes
    BY <1>3
  <2>5. ListedFrom(Listed(p, kind, completed, failed), p, files, completed)
    BY ONLY <2>1, <2>3, <2>4, ListedOK
  <2>6. /\ ProgressOK(q, files) /\ q.phase = p.phase /\ q.rows = p.rows
        /\ completed \subseteq q.done[kind]
    BY <2>2, <2>3, <2>5 DEF ListedFrom
  <2> QED
    BY <1>1, <1>2, <1>3, <1>8, <2>6 DEF p, files, kind, i, completed
<1>9. CASE run.mode # "next"
  <2>1. q = Recorded(p, kind, i, status, completed, failed)
    BY <1>5, <1>9
  <2>2. /\ p.rows[kind][i].completed \subseteq completed
        /\ completed \subseteq ToSet(p.rows[kind][i].codes)
        /\ failed \subseteq ToSet(p.rows[kind][i].codes) \ completed
        /\ p.rows[kind][i].status # "complete"
        /\ \A j \in 1 .. i - 1 : p.rows[kind][j].status = "complete"
        /\ ProgressOK(p, files) /\ p.phase # "planned" /\ kind = KindOf(p)
        /\ i \in DOMAIN p.rows[kind]
    BY <1>1, <1>2, <1>3
  <2>3. status \in {"running", "partial", "interrupted", "complete"}
    OBVIOUS
  <2> DEFINE row == [codes |-> p.rows[kind][i].codes, status |-> status,
                     completed |-> completed, failed |-> failed]
  <2>4. RecordedFrom(Recorded(p, kind, i, status, completed, failed), p, files, kind, i, row)
    BY ONLY <1>4, <2>2, <2>3, RecordedOK
  <2>5. /\ q.rows[kind][i].codes = old.codes /\ q.rows[kind][i].completed = completed
        /\ q.rows[kind][i].status = status /\ i \in DOMAIN q.rows[kind]
        /\ ProgressOK(q, files) /\ q.phase = p.phase /\ completed \subseteq q.done[kind]
    BY <2>1, <2>2, <2>4 DEF RecordedFrom
  <2>6. \A j \in 1 .. i - 1 : q.rows[kind][j].status = "complete"
    BY <1>6, <1>7, <2>1, <2>2, <2>4 DEF RecordedFrom
  <2> QED
    BY <1>1, <1>3, <1>9, <2>5, <2>6 DEF p, files, kind, i, completed
<1> QED
  BY <1>8, <1>9

\* A checkpoint lists what is on disk, and keeps the batch open.
LEMMA CheckpointCInv ==
    ASSUME CInv, Checkpoint
    PROVE  CInv'
<1> DEFINE q == progress'   r == run'   old == progress.rows[run.kind][run.index]
           new == q.rows[run.kind][run.index]
<1>1. /\ run # NoRun /\ run.step = "checkpoint" /\ q = Saves("running")
      /\ r = [run EXCEPT !.step = "collect"] /\ saved' = saved /\ told' = told
  BY DEF Checkpoint
<1>2. /\ RunOK(run, progress, saved) /\ run \in RunSet /\ Holds(run, old, saved) /\ told = Silent
      /\ saved \in [Kinds -> SUBSET Codes]
  BY <1>1, Running
<1> HIDE DEF q, r
<1>3. /\ ProgressOK(q, saved) /\ q.phase = progress.phase /\ run.index \in DOMAIN q.rows[run.kind]
      /\ new.codes = old.codes /\ new.completed \subseteq run.completed
      /\ run.completed \subseteq saved[run.kind] \cup new.completed
      /\ new.status = IF run.mode = "next" THEN old.status ELSE "running"
      /\ \A j \in 1 .. run.index - 1 : q.rows[run.kind][j].status = "complete"
  <2>1. "running" \in {"running", "partial", "interrupted", "complete"} /\ "running" # "partial"
    OBVIOUS
  <2> QED
    BY <1>1, <2>1, SavesOK
<1>4. /\ r \in RunSet /\ r.mode = run.mode /\ r.kind = run.kind /\ r.index = run.index
      /\ r.codes = run.codes /\ r.left = run.left /\ r.completed = run.completed
      /\ r.failed = run.failed /\ r.cut = run.cut
  BY <1>1, <1>2 DEF RunSet
<1>5. Holds(r, new, saved)
  BY <1>2, <1>3, <1>4 DEF Holds
<1>6. RunOK(r, q, saved)
  <2>1. new.status # "complete"
    BY <1>1, <1>2, <1>3 DEF RunOK
  <2> QED
    BY <1>2, <1>3, <1>4, <1>5, <2>1 DEF RunOK, Collecting, KindOf
<1> QED
  BY <1>1, <1>2, <1>3, <1>6 DEF CInv, q, r

\* What is reported of a batch is what has been saved of it.
LEMMA FinishBatchCInv ==
    ASSUME CInv, FinishBatch
    PROVE  CInv'
<1> DEFINE status == IF run.cut THEN "interrupted" ELSE Outcome(run.failed)
           q == progress'   r == run'   t == told'
           old == progress.rows[run.kind][run.index]   new == q.rows[run.kind][run.index]
<1>1. /\ run # NoRun /\ run.step = "collect" /\ run.left = {} /\ q = Saves(status)
      /\ t = [repair |-> run.mode = "repair", batch |-> run.mode # "next",
              status |-> status, kind |-> run.kind, index |-> run.index]
      /\ r = IF status = "complete" /\ Whole(q.rows[run.kind])
             THEN [run EXCEPT !.step = "conclude"] ELSE NoRun
      /\ saved' = saved
  BY DEF FinishBatch
<1>2. /\ RunOK(run, progress, saved) /\ run \in RunSet /\ Holds(run, old, saved)
      /\ run.kind \in Kinds /\ saved \in [Kinds -> SUBSET Codes]
  BY <1>1, Running
<1>3. /\ status \in {"running", "partial", "interrupted", "complete"}
      /\ status = "partial" => run.failed # {}
      /\ status = "complete" => ~run.cut /\ run.failed = {}
  BY DEF Outcome
<1> HIDE DEF status, q, r, t
<1>4. /\ ProgressOK(q, saved) /\ q.phase = progress.phase /\ run.index \in DOMAIN q.rows[run.kind]
      /\ new.codes = old.codes /\ new.completed \subseteq run.completed
      /\ run.completed \subseteq saved[run.kind] \cup new.completed
      /\ new.status = IF run.mode = "next" THEN old.status ELSE status
      /\ run.completed \subseteq q.done[run.kind]
  BY <1>1, <1>3, SavesOK
<1>5. t.repair = (run.mode = "repair") /\ t.batch = (run.mode # "next") /\ t.status = status
      /\ t.kind = run.kind /\ t.index = run.index
  BY <1>1
<1>6. ASSUME status = "complete", ~t.repair
      PROVE  ToSet(new.codes) \subseteq q.done[run.kind]
  <2>1. \A j \in DOMAIN run.codes : run.codes[j] \in run.completed
    BY <1>1, <1>2, <1>3, <1>5, <1>6 DEF Holds
  <2>2. ToSet(run.codes) \subseteq run.completed
    BY <2>1 DEF ToSet
  <2> QED
    BY <1>2, <1>4, <2>2 DEF Holds
<1>7. CASE r = NoRun
  <2>1. ToldOK(t, r, q)
    BY <1>2, <1>4, <1>5, <1>6, <1>7 DEF ToldOK
  <2> QED
    BY <1>1, <1>2, <1>4, <1>7, <2>1 DEF CInv, q, r, t
<1>8. CASE r # NoRun
  <2>1. r = [run EXCEPT !.step = "conclude"]
    BY <1>1, <1>8
  <2>2. /\ r \in RunSet /\ r.mode = run.mode /\ r.kind = run.kind /\ r.index = run.index
        /\ r.codes = run.codes /\ r.left = run.left /\ r.completed = run.completed
        /\ r.failed = run.failed /\ r.cut = run.cut /\ r.step = "conclude"
    BY <1>2, <2>1 DEF RunSet
  <2>3. Holds(r, new, saved)
    BY <1>2, <1>4, <2>2 DEF Holds
  <2>4. RunOK(r, q, saved)
    BY <1>2, <1>4, <2>2, <2>3 DEF RunOK, Collecting, KindOf
  <2>5. ToldOK(t, r, q)
    BY <1>2, <1>4, <1>5, <1>6, <2>2 DEF ToldOK
  <2> QED
    BY <1>1, <1>2, <1>4, <2>4, <2>5 DEF CInv, q, r, t
<1> QED
  BY <1>7, <1>8

\* What was reported of a batch stays true while its phase is concluded.
LEMMA ConcludeCInv ==
    ASSUME CInv, Conclude
    PROVE  CInv'
<1> DEFINE p == progress   q == progress'   files == saved   t == told
<1>1. /\ run # NoRun /\ run.step = "conclude" /\ run' = NoRun /\ saved' = saved /\ told' = told
  BY DEF Conclude
<1>2. /\ ProgressOK(p, files) /\ Collecting(p) /\ run.kind = KindOf(p) /\ saved \in [Kinds -> SUBSET Codes]
  BY <1>1, Running DEF RunOK
<1>3. t # Silent => ToldOK(t, run, p) /\ t.kind = run.kind
  BY <1>1 DEF CInv, ToldOK
<1>4. \/ q = p
      \/ /\ run.kind = "price" /\ PricesFinal(p) /\ q \in StartsFlow(p)
      \/ /\ run.kind = "flow" /\ q = [p EXCEPT !.phase = "complete"]
  BY DEF Conclude
<1>5. /\ run.kind = "price" => p.phase = "price_collection"
      /\ run.kind = "flow" => p.phase = "flow_collection"
  BY <1>2 DEF KindOf, Collecting
<1> HIDE DEF p, q, files, t
<1>6. ProgressOK(q, files) /\ q.rows[run.kind] = p.rows[run.kind] /\ q.done = p.done
  <2>1. CASE q = p
    BY <1>2, <2>1
  <2>2. CASE run.kind = "price" /\ PricesFinal(p) /\ q \in StartsFlow(p)
    BY <1>2, <1>5, <2>2, FlowStarted
  <2>3. CASE run.kind = "flow" /\ q = [p EXCEPT !.phase = "complete"]
    BY <1>2, <1>5, <2>3, Completed
  <2> QED
    BY <1>4, <2>1, <2>2, <2>3
<1>7. t # Silent => ToldOK(t, NoRun, q)
  BY <1>3, <1>6 DEF ToldOK
<1> QED
  BY <1>1, <1>2, <1>6, <1>7 DEF CInv, q, files, t

-----------------------------------------------------------------------------
(***************************************************************************)
(* The theorems.                                                           *)
(***************************************************************************)

\* A step that changes nothing.
LEMMA StutterCInv ==
    ASSUME CInv, UNCHANGED pvars
    PROVE  CInv'
<1>1. progress' = progress /\ saved' = saved /\ run' = run /\ told' = told
  BY DEF pvars
<1> QED
  BY <1>1 DEF CInv

\* Every step of every invocation keeps the invariant.
LEMMA NextCInv ==
    ASSUME CInv, [PNext]_pvars
    PROVE  CInv'
<1>1. ASSUME NEW repair \in BOOLEAN, MockBatch(repair)
      PROVE  CInv'
  BY <1>1, MockBatchCInv
<1>2. CASE FinalizePrices
  BY <1>2, FinalizePricesCInv
<1>3. CASE FinalizeReport
  BY <1>3, FinalizeReportCInv
<1>4. ASSUME NEW mode \in Modes, BeginLive(mode)
      PROVE  CInv'
  BY <1>4, BeginLiveCInv
<1>5. ASSUME NEW j \in 1 .. Len(Universe), Reuse(j)
      PROVE  CInv'
  BY <1>5, ReuseCInv
<1>6. ASSUME NEW j \in 1 .. Len(Universe), Fetch(j)
      PROVE  CInv'
  BY <1>6, FetchCInv
<1>7. ASSUME NEW j \in 1 .. Len(Universe), NEW timeout \in BOOLEAN, NEW linkLost \in BOOLEAN,
             FetchFails(j, timeout, linkLost)
      PROVE  CInv'
  BY <1>7, FetchFailsCInv
<1>8. CASE Checkpoint
  BY <1>8, CheckpointCInv
<1>9. CASE FinishBatch
  BY <1>9, FinishBatchCInv
<1>10. CASE Killed
  BY <1>10 DEF Killed, CInv
<1>11. CASE Conclude
  BY <1>11, ConcludeCInv
<1>12. CASE UNCHANGED pvars
  BY <1>12, StutterCInv
<1> QED
  BY <1>1, <1>2, <1>3, <1>4, <1>5, <1>6, <1>7, <1>8, <1>9, <1>10, <1>11, <1>12
  DEF PNext, Offline, Live

\* In a phase that is not whole, the first batch that is not complete is one
\* that some invocation takes, or one that a killed process left as running.
LEMMA SomeoneCanTake ==
    ASSUME NEW rows, RowsOK(rows), ~Whole(rows)
    PROVE  \/ \E mode \in Modes : LiveRows(mode, rows) # {}
           \/ WithStatus(rows, {"running"}) # {}
<1>1. PICK n \in Nat : DOMAIN rows = 1 .. n
  BY DEF RowsOK
<1> DEFINE I == {i \in DOMAIN rows : rows[i].status # "complete"}
<1>2. I \in SUBSET Nat /\ I # {}
  BY <1>1 DEF Whole
<1>3. PICK i \in I : \A j \in I : i <= j
  <2> HIDE DEF I
  <2> QED
    BY <1>2, FirstIn
<1>4. /\ i \in DOMAIN rows /\ rows[i].status # "complete"
      /\ \A j \in 1 .. i - 1 : rows[j].status = "complete"
  <2>1. ASSUME NEW j \in 1 .. i - 1, rows[j].status # "complete"
        PROVE  FALSE
    <3>1. j \in I /\ j < i /\ i \in Nat
      BY <1>1, <2>1
    <3> QED
      BY <1>3, <3>1
  <2> QED
    BY <2>1
<1> HIDE DEF I
<1>5. rows[i] \in RowSet /\ RowOK(rows[i])
  BY <1>4 DEF RowsOK
<1>6. rows[i].status \in {"pending", "running", "partial", "interrupted"}
  BY <1>4, <1>5 DEF RowOK, RowType
<1>7. CASE rows[i].status = "pending"
  <2>1. i \in NextRows(rows)
    BY <1>4, <1>7 DEF NextRows, WithStatus
  <2>2. LiveRows("next", rows) # {} /\ "next" \in Modes
    BY <2>1 DEF LiveRows, Modes
  <2> QED
    BY <2>2
<1>8. CASE rows[i].status = "partial"
  <2> DEFINE J == {j \in WithStatus(rows, {"partial", "interrupted"}) : rows[j].failed # {}}
  <2>1. i \in J /\ J \in SUBSET Nat
    BY <1>1, <1>4, <1>5, <1>8 DEF WithStatus, RowOK
  <2>2. LiveRows("repair", rows) = First(J) /\ "repair" \in Modes
    BY DEF LiveRows, Modes
  <2> HIDE DEF J
  <2>3. First(J) # {}
    BY <2>1, FirstIn
  <2> QED
    BY <2>2, <2>3
<1>9. CASE rows[i].status = "interrupted"
  <2> DEFINE J == WithStatus(rows, {"interrupted"})
  <2>1. i \in J /\ J \in SUBSET Nat
    BY <1>1, <1>4, <1>9 DEF WithStatus
  <2>2. LiveRows("resume", rows) = First(J) /\ "resume" \in Modes
    BY DEF LiveRows, Modes
  <2> HIDE DEF J
  <2>3. First(J) # {}
    BY <2>1, FirstIn
  <2> QED
    BY <2>2, <2>3
<1>10. CASE rows[i].status = "running"
  BY <1>4, <1>10 DEF WithStatus
<1> QED
  BY <1>6, <1>7, <1>8, <1>9, <1>10

\* The invariant says at least what the run checks.
LEMMA SoundByCInv ==
    ASSUME CInv
    PROVE  BatchesSound
<1>1. /\ ProgressOK(progress, saved) /\ saved \in [Kinds -> SUBSET Codes]
      /\ progress \in ProgressSet /\ \A k \in Kinds : RowsOK(progress.rows[k])
  BY DEF CInv, ProgressOK
<1>2. PTypeOK
  <2>1. \A k \in Kinds : \A i \in DOMAIN progress.rows[k] : RowType(progress.rows[k][i])
    BY <1>1 DEF RowsOK, RowOK
  <2>2. run.mode \in Modes \cup {"none"}
    BY DEF CInv, RunOK, RunSet, NoRun
  <2> QED
    BY <1>1, <2>1, <2>2 DEF PTypeOK, ProgressSet
<1>3. Partitioned
  BY <1>1 DEF Partitioned, ProgressOK, Covered, RowsOK, Apart
<1>4. InOrder
  BY <1>1 DEF InOrder, RowsOK, Ordered
<1>5. FlowNeedsPrices
  BY <1>1 DEF FlowNeedsPrices, ProgressOK
<1>6. StuckOnlyAtEnd
  <2>1. KindOf(progress) \in Kinds
    BY DEF KindOf, Kinds
  <2> DEFINE rows == progress.rows[KindOf(progress)]
  <2>2. RowsOK(rows)
    BY <1>1, <2>1
  <2> HIDE DEF rows
  <2>3. \/ \E mode \in Modes : LiveRows(mode, rows) # {}
        \/ WithStatus(rows, {"running"}) # {}
        \/ Whole(rows)
    BY <2>2, SomeoneCanTake
  <2> QED
    BY <2>3 DEF StuckOnlyAtEnd, rows
<1>7. DoneIsSaved
  BY <1>1 DEF DoneIsSaved, ProgressOK, Within
<1>8. ReportIsTrue
  BY DEF CInv, ReportIsTrue, ToldOK
<1> QED
  BY <1>2, <1>3, <1>4, <1>5, <1>6, <1>7, <1>8 DEF BatchesSound

\* Whoever runs, repairs, resumes or is killed, whatever the universe, the sizes
\* of the batches and the breaker: the market is partitioned, batches are taken
\* in order, each phase rests on the whole of the one before, what is listed is
\* saved, reports are true, and the collection is stuck in two situations only.
THEOREM BatchesKept == PSpec => []BatchesSound
<1>1. PInit => CInv
  BY InitCInv
<1>2. CInv /\ [PNext]_pvars => CInv'
  BY NextCInv
<1>3. CInv => BatchesSound
  BY SoundByCInv
<1> QED
  BY <1>1, <1>2, <1>3, PTL DEF PSpec

\* A code that is requested is not listed: the batch that lists it is the one
\* that is collected, and it goes on from the codes its row or the disk holds.
LEMMA FetchIsNew ==
    ASSUME CInv, NEW j, Fetch(j)
    PROVE  run.codes[j] \notin progress.done[run.kind]
<1> DEFINE code == run.codes[j]
           rows == progress.rows[run.kind]
           i == run.index
<1>1. run # NoRun /\ run.step = "collect" /\ j \in run.left /\ code \notin saved[run.kind]
  BY DEF Fetch, Collects, First
<1>2. /\ run.kind \in Kinds /\ Holds(run, rows[i], saved) /\ i \in DOMAIN rows
      /\ ProgressOK(progress, saved)
  BY <1>1, Running
<1>3. RowsOK(rows) /\ progress.done[run.kind] \subseteq saved[run.kind] \cup Within(rows)
  BY <1>2 DEF ProgressOK
<1>4. code \in ToSet(rows[i].codes) /\ code \notin run.completed /\ rows[i].completed \subseteq run.completed
  BY <1>1, <1>2 DEF Holds, ToSet
<1> SUFFICES ASSUME code \in progress.done[run.kind]
             PROVE  FALSE
  OBVIOUS
<1> HIDE DEF code, rows, i
<1>5. PICK m \in DOMAIN rows : code \in rows[m].completed
  BY <1>1, <1>3 DEF Within
<1>6. code \in ToSet(rows[m].codes)
  BY <1>3, <1>5 DEF RowsOK, RowOK, RowType
<1>7. m = i
  BY <1>2, <1>3, <1>4, <1>6 DEF RowsOK, Apart
<1> QED
  BY <1>4, <1>5, <1>7

\* No code that a finished or interrupted batch lists is requested again, over
\* any number of invocations and kills.
THEOREM FetchedOnce == PSpec => NeverFetchedAgain
<1>1. PInit => CInv
  BY InitCInv
<1>2. CInv /\ [PNext]_pvars => CInv'
  BY NextCInv
<1>3. CInv /\ [PNext]_pvars
        => [\A j \in 1 .. Len(Universe) : Fetch(j) => run.codes[j] \notin progress.done[run.kind]]_pvars
  BY FetchIsNew
<1> QED
  BY <1>1, <1>2, <1>3, PTL DEF PSpec, NeverFetchedAgain

=============================================================================
