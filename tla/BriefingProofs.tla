--------------------------- MODULE BriefingProofs ---------------------------
(***************************************************************************)
(* A briefing is run as often as it was asked for, and what is stored of   *)
(* it is whole, whatever fails.                                            *)
(*                                                                         *)
(* The dispatcher, for any set of briefings and any depth of nested loops: *)
(* a run is owed to whoever took the briefing up, so the proof counts      *)
(* claims: a key that is pending, or in the snapshot of a frame, is a run  *)
(* that may still come.  The runs that were and those that may come are    *)
(* together no more than what the timer, the recovery and the retry have   *)
(* asked for (Claims).  No frame and no list holds a key twice (Once), and *)
(* the state of a briefing says where its key is (Placed).                 *)
(*                                                                         *)
(* The storage, for any number of saves and every choice of faults: the    *)
(* properties speak of the disk, but what a file holds depends on how far  *)
(* the plan has come, so the invariant says, for every point of every      *)
(* clause, in which stage each of the two files is.                        *)
(***************************************************************************)
EXTENDS BriefingDispatcher, BriefingStorage, FiniteSets, FiniteSetTheorems,
        SequenceTheorems, TLAPS

Bit(b) == IF b THEN 1 ELSE 0
Distinct(s) == \A i, j \in DOMAIN s : s[i] = s[j] => i = j

\* The frames whose snapshot holds k, and what the snapshots hold together.
HoldersIn(frames, k) == {i \in DOMAIN frames : k \in ToSet(frames[i].rest)}
SnapshotsIn(frames) == UNION {ToSet(frames[i].rest) : i \in DOMAIN frames}

DistinctKeys(frames) == \A i, j \in DOMAIN frames : i # j => frames[i].key # frames[j].key
DistinctRests(frames) == \A i \in DOMAIN frames : Distinct(frames[i].rest)

Once == Distinct(pending) /\ DistinctRests(stack) /\ DistinctKeys(stack)

Claims ==
    \A k \in Keys :
        /\ asked[k] <= Bit(k \in executed) + Bit(k \in recovered)
        /\ runs[k] + Cardinality(HoldersIn(stack, k)) + Bit(k \in ToSet(pending))
             <= asked[k] + retries[k]

Placed ==
    \A k \in Keys :
        /\ states[k] = "running" <=> k \in RunningIn(stack)
        /\ states[k] = "completed" <=> k \in dispatched
        /\ states[k] \in {"waiting_for_connection", "retry_wait"} /\ ~stopping
             => k \in ToSet(pending) \cup SnapshotsIn(stack)

DInv == DTypeOK /\ Once /\ Claims /\ Placed

\* A sequence that is not empty is its front and its last element.
LEMMA FrontLast ==
    ASSUME NEW S, NEW s \in Seq(S), s # <<>>
    PROVE  Front(s) \in Seq(S) /\ Last(s) \in S /\ s = Append(Front(s), Last(s))
<1>1. Len(s) \in Nat /\ Len(s) > 0
  OBVIOUS
<1>2. PICK n \in Nat : n + 1 = Len(s)
  BY <1>1
<1>3. Front(s) = SubSeq(s, 1, n) /\ Last(s) = s[n + 1]
  BY <1>2 DEF Front, Last
<1>4. Front(s) \in Seq(S) /\ Len(Front(s)) = n /\ \A i \in 1 .. n : Front(s)[i] = s[i]
  BY <1>2, <1>3
<1>5. Last(s) \in S
  BY <1>2, <1>3
<1>6. s = Append(Front(s), Last(s))
  BY <1>2, <1>3, <1>4, <1>5
<1> QED
  BY <1>4, <1>5, <1>6

\* The frames that hold a key are finitely many.
LEMMA HoldersFinite ==
    ASSUME NEW frames \in Seq(Frames), NEW k
    PROVE  IsFiniteSet(HoldersIn(frames, k)) /\ Cardinality(HoldersIn(frames, k)) \in Nat
<1>1. IsFiniteSet(1 .. Len(frames))
  BY FS_Interval
<1>2. HoldersIn(frames, k) \subseteq 1 .. Len(frames)
  BY DEF HoldersIn
<1>3. IsFiniteSet(HoldersIn(frames, k))
  BY <1>1, <1>2, FS_Subset
<1> QED
  BY <1>3, FS_CardinalityType

\* What one more frame on the stack adds.
LEMMA Pushed ==
    ASSUME NEW frames \in Seq(Frames), NEW f \in Frames
    PROVE  /\ Append(frames, f) \in Seq(Frames)
           /\ RunningIn(Append(frames, f)) = RunningIn(frames) \cup {f.key}
           /\ SnapshotsIn(Append(frames, f)) = SnapshotsIn(frames) \cup ToSet(f.rest)
           /\ \A k : Cardinality(HoldersIn(Append(frames, f), k))
                       = Cardinality(HoldersIn(frames, k)) + Bit(k \in ToSet(f.rest))
           /\ DistinctRests(Append(frames, f)) <=> DistinctRests(frames) /\ Distinct(f.rest)
           /\ DistinctKeys(Append(frames, f)) <=>
                DistinctKeys(frames) /\ f.key \notin RunningIn(frames)
<1> DEFINE more == Append(frames, f)
<1>1. PICK n \in Nat : n = Len(frames)
  OBVIOUS
<1>2. /\ more \in Seq(Frames) /\ DOMAIN frames = 1 .. n /\ DOMAIN more = 1 .. n + 1
      /\ \A i \in 1 .. n : more[i] = frames[i]
      /\ more[n + 1] = f
  BY <1>1
<1>3. \A i \in 1 .. n + 1 : i \in 1 .. n \/ i = n + 1
  BY <1>1
<1>4. n + 1 \notin 1 .. n /\ 1 .. n \subseteq 1 .. n + 1 /\ n + 1 \in 1 .. n + 1
  BY <1>1
<1> HIDE DEF more
<1>5. RunningIn(more) = RunningIn(frames) \cup {f.key}
  BY <1>2, <1>3, <1>4 DEF RunningIn
<1>6. SnapshotsIn(more) = SnapshotsIn(frames) \cup ToSet(f.rest)
  BY <1>2, <1>3, <1>4 DEF SnapshotsIn
<1>7. ASSUME NEW k
      PROVE  Cardinality(HoldersIn(more, k))
               = Cardinality(HoldersIn(frames, k)) + Bit(k \in ToSet(f.rest))
  <2>1. IsFiniteSet(HoldersIn(frames, k)) /\ Cardinality(HoldersIn(frames, k)) \in Nat
    BY HoldersFinite
  <2>2. n + 1 \notin HoldersIn(frames, k)
    BY <1>2, <1>4 DEF HoldersIn
  <2>3. CASE k \in ToSet(f.rest)
    <3>1. HoldersIn(more, k) = HoldersIn(frames, k) \cup {n + 1}
      BY <1>2, <1>3, <1>4, <2>3 DEF HoldersIn
    <3> QED
      BY <2>1, <2>2, <2>3, <3>1, FS_AddElement DEF Bit
  <2>4. CASE k \notin ToSet(f.rest)
    <3>1. HoldersIn(more, k) = HoldersIn(frames, k)
      BY <1>2, <1>3, <1>4, <2>4 DEF HoldersIn
    <3> QED
      BY <2>1, <2>4, <3>1 DEF Bit
  <2> QED
    BY <2>3, <2>4
<1>8. DistinctRests(more) <=> DistinctRests(frames) /\ Distinct(f.rest)
  BY <1>2, <1>3, <1>4 DEF DistinctRests
<1>9. DistinctKeys(more) <=> DistinctKeys(frames) /\ f.key \notin RunningIn(frames)
  BY <1>2, <1>3, <1>4 DEF DistinctKeys, RunningIn
<1> QED
  BY <1>2, <1>5, <1>6, <1>7, <1>8, <1>9 DEF more

\* What runs next of a list, and what is left of it.
LEMMA EnterCases ==
    ASSUME NEW list \in Seq(Keys), NEW below, NEW done, NEW told, Enter(list, below, done, told)
    PROVE  \/ /\ stack' = below /\ states' = told /\ UNCHANGED <<activeBriefing, runs>>
              /\ \A c \in ToSet(list) : ~Runnable(c, below, done)
           \/ \E k \in Keys, rest \in Seq(Keys) :
                /\ Runnable(k, below, done)
                /\ stack' = Append(below, [key |-> k, rest |-> rest])
                /\ states' = [told EXCEPT ![k] = "running"]
                /\ activeBriefing' = k
                /\ runs' = [runs EXCEPT ![k] = @ + 1]
                /\ k \in ToSet(list) /\ ToSet(rest) \subseteq ToSet(list)
                /\ Distinct(list) => Distinct(rest) /\ k \notin ToSet(rest)
                /\ \A c \in ToSet(list) :
                      c = k \/ c \in ToSet(rest) \/ ~Runnable(c, below, done)
<1>1. PICK n \in 0 .. Len(list) :
        /\ \A i \in 1 .. n : ~Runnable(list[i], below, done)
        /\ IF n = Len(list)
           THEN stack' = below /\ states' = told /\ UNCHANGED <<activeBriefing, runs>>
           ELSE LET k == list[n + 1] IN
                /\ Runnable(k, below, done)
                /\ stack' = Append(below, [key |-> k, rest |-> SubSeq(list, n + 2, Len(list))])
                /\ states' = [told EXCEPT ![k] = "running"]
                /\ activeBriefing' = k
                /\ runs' = [runs EXCEPT ![k] = @ + 1]
  BY DEF Enter
<1>2. PICK m \in Nat : m = Len(list)
  OBVIOUS
<1>3. DOMAIN list = 1 .. m
  BY <1>2
<1>4. CASE n = m
  <2>1. \A c \in ToSet(list) : ~Runnable(c, below, done)
    BY <1>1, <1>2, <1>3, <1>4 DEF ToSet
  <2> QED
    BY <1>1, <1>2, <1>4, <2>1
<1>5. CASE n # m
  <2> DEFINE k == list[n + 1]
             rest == SubSeq(list, n + 2, m)
  <2>1. n \in Nat /\ n + 1 \in 1 .. m
    BY <1>2, <1>5
  <2>2. k \in Keys /\ k \in ToSet(list)
    BY <1>2, <1>3, <2>1 DEF ToSet
  <2>3. /\ rest \in Seq(Keys) /\ DOMAIN rest = 1 .. m - n - 1
        /\ \A j \in 1 .. m - n - 1 : rest[j] = list[j + n + 1]
    <3>1. n + 2 \in 1 .. Len(list) + 1 /\ m \in (n + 2) - 1 .. Len(list)
      BY <1>2, <2>1
    <3>2. /\ rest \in Seq(Keys) /\ Len(rest) = m - (n + 2) + 1
          /\ \A j \in 1 .. m - (n + 2) + 1 : rest[j] = list[(n + 2) + j - 1]
      BY <3>1, SubSeqProperties
    <3>3. m - (n + 2) + 1 = m - n - 1
      BY <1>2, <2>1
    <3>4. \A j \in 1 .. m - n - 1 : (n + 2) + j - 1 = j + n + 1
      BY <1>2, <2>1
    <3> HIDE DEF rest
    <3> QED
      BY <3>2, <3>3, <3>4
  <2>4. /\ Runnable(k, below, done)
        /\ stack' = Append(below, [key |-> k, rest |-> rest])
        /\ states' = [told EXCEPT ![k] = "running"]
        /\ activeBriefing' = k
        /\ runs' = [runs EXCEPT ![k] = @ + 1]
    BY <1>1, <1>2, <1>5
  <2> HIDE DEF rest
  <2>5. \A j \in 1 .. m - n - 1 : j + n + 1 \in 1 .. m /\ j + n + 1 # n + 1
    BY <1>2, <2>1
  <2>6. ToSet(rest) \subseteq ToSet(list)
    BY <1>3, <2>3, <2>5 DEF ToSet
  <2>7. ASSUME Distinct(list) PROVE Distinct(rest) /\ k \notin ToSet(rest)
    <3>1. Distinct(rest)
      <4> SUFFICES ASSUME NEW i \in 1 .. m - n - 1, NEW j \in 1 .. m - n - 1, rest[i] = rest[j]
                   PROVE  i = j
        BY <2>3 DEF Distinct
      <4>1. i + n + 1 = j + n + 1
        BY <1>3, <2>3, <2>5, <2>7 DEF Distinct
      <4> QED
        BY <1>2, <2>1, <4>1
    <3>2. k \notin ToSet(rest)
      BY <1>3, <2>1, <2>3, <2>5, <2>7 DEF Distinct, ToSet
    <3> QED
      BY <3>1, <3>2
  <2>8. ASSUME NEW c \in ToSet(list)
        PROVE  c = k \/ c \in ToSet(rest) \/ ~Runnable(c, below, done)
    <3>1. PICK i \in 1 .. m : c = list[i]
      BY <1>3 DEF ToSet
    <3>2. CASE i <= n
      BY <1>1, <3>1, <3>2
    <3>3. CASE i = n + 1
      BY <3>1, <3>3
    <3>4. CASE i > n + 1
      <4>1. i - n - 1 \in 1 .. m - n - 1 /\ (i - n - 1) + n + 1 = i
        BY <1>2, <2>1, <3>4
      <4>2. rest[i - n - 1] = c
        BY <2>3, <3>1, <4>1
      <4> QED
        BY <2>3, <4>1, <4>2 DEF ToSet
    <3> QED
      BY <2>1, <3>2, <3>3, <3>4
  <2> HIDE DEF k
  <2> QED
    BY <2>2, <2>3, <2>4, <2>6, <2>7, <2>8
<1> QED
  BY <1>4, <1>5

-----------------------------------------------------------------------------
\* What a step leaves behind when it has let the next briefing of a list run:
\* the invariant, if it held without the list but for the claims of the list.
LEMMA EnterDInv ==
    ASSUME NEW list \in Seq(Keys), NEW below \in Seq(Frames),
           NEW told \in [Keys -> BriefingStates],
           DTypeOK, Enter(list, below, dispatched', told),
           connected' \in BOOLEAN, stopping' = stopping, pending' \in Seq(Keys),
           dispatched' \subseteq Keys, retries' \in [Keys -> {0, 1}], retryTimers' \subseteq Keys,
           executed' \subseteq Keys, recovered' \subseteq Keys, saved' \subseteq Keys,
           asked' \in [Keys -> Nat],
           Distinct(list), Distinct(pending'), DistinctRests(below), DistinctKeys(below),
           \A k \in Keys :
              /\ asked'[k] <= Bit(k \in executed') + Bit(k \in recovered')
              /\ runs[k] + Cardinality(HoldersIn(below, k)) + Bit(k \in ToSet(list))
                         + Bit(k \in ToSet(pending')) <= asked'[k] + retries'[k],
           \A k \in Keys :
              /\ told[k] = "running" <=> k \in RunningIn(below)
              /\ told[k] = "completed" <=> k \in dispatched'
              /\ told[k] \in {"waiting_for_connection", "retry_wait"} /\ ~stopping
                   => k \in ToSet(pending') \cup SnapshotsIn(below) \cup ToSet(list)
    PROVE  DInv'
<1>0. /\ stopping \in BOOLEAN /\ runs \in [Keys -> Nat]
      /\ activeBriefing \in Keys \cup {NoBriefing}
  BY DEF DTypeOK
<1>1. CASE /\ stack' = below /\ states' = told /\ UNCHANGED <<activeBriefing, runs>>
           /\ \A c \in ToSet(list) : ~Runnable(c, below, dispatched')
  <2>1. DTypeOK'
    BY <1>0, <1>1 DEF DTypeOK
  <2>2. Once'
    BY <1>1 DEF Once
  <2>3. Claims'
    <3> SUFFICES ASSUME NEW k \in Keys
                 PROVE  /\ asked'[k] <= Bit(k \in executed') + Bit(k \in recovered')
                        /\ runs[k] + Cardinality(HoldersIn(below, k)) + Bit(k \in ToSet(pending'))
                             <= asked'[k] + retries'[k]
      BY <1>1 DEF Claims
    <3>1. Cardinality(HoldersIn(below, k)) \in Nat
      BY HoldersFinite
    <3>2. runs[k] \in Nat /\ asked'[k] \in Nat /\ retries'[k] \in Nat
      <4>1. runs[k] \in Nat
        BY <1>0
      <4>2. asked'[k] \in Nat
        OBVIOUS
      <4>3. retries'[k] \in {0, 1}
        OBVIOUS
      <4> QED
        BY <4>1, <4>2, <4>3
    <3>3. /\ asked'[k] <= Bit(k \in executed') + Bit(k \in recovered')
          /\ runs[k] + Cardinality(HoldersIn(below, k)) + Bit(k \in ToSet(list))
                     + Bit(k \in ToSet(pending')) <= asked'[k] + retries'[k]
      OBVIOUS
    <3>4. Bit(k \in ToSet(list)) \in Nat /\ Bit(k \in ToSet(pending')) \in Nat
      BY DEF Bit
    <3> QED
      BY <3>1, <3>2, <3>3, <3>4
  <2>4. Placed'
    <3> SUFFICES ASSUME NEW k \in Keys
                 PROVE  /\ told[k] = "running" <=> k \in RunningIn(below)
                        /\ told[k] = "completed" <=> k \in dispatched'
                        /\ told[k] \in {"waiting_for_connection", "retry_wait"} /\ ~stopping
                             => k \in ToSet(pending') \cup SnapshotsIn(below)
      BY <1>1 DEF Placed
    <3>1. k \in ToSet(list) /\ ~stopping => k \in dispatched' \/ k \in RunningIn(below)
      BY <1>1 DEF Runnable
    <3> QED
      BY <3>1
  <2> QED
    BY <2>1, <2>2, <2>3, <2>4 DEF DInv
<1>2. ASSUME NEW k \in Keys, NEW rest \in Seq(Keys),
             Runnable(k, below, dispatched'),
             stack' = Append(below, [key |-> k, rest |-> rest]),
             states' = [told EXCEPT ![k] = "running"],
             activeBriefing' = k,
             runs' = [runs EXCEPT ![k] = @ + 1],
             k \in ToSet(list), ToSet(rest) \subseteq ToSet(list),
             Distinct(rest), k \notin ToSet(rest),
             \A c \in ToSet(list) : c = k \/ c \in ToSet(rest) \/ ~Runnable(c, below, dispatched')
      PROVE  DInv'
  <2> DEFINE f == [key |-> k, rest |-> rest]
  <2>1. f \in Frames /\ f.key = k /\ f.rest = rest
    BY DEF Frames
  <2>2. stack' = Append(below, f)
    BY <1>2
  <2> HIDE DEF f
  <2>3. /\ stack' \in Seq(Frames)
        /\ RunningIn(stack') = RunningIn(below) \cup {k}
        /\ SnapshotsIn(stack') = SnapshotsIn(below) \cup ToSet(rest)
        /\ \A c : Cardinality(HoldersIn(stack', c))
                    = Cardinality(HoldersIn(below, c)) + Bit(c \in ToSet(rest))
        /\ DistinctRests(stack') <=> DistinctRests(below) /\ Distinct(rest)
        /\ DistinctKeys(stack') <=> DistinctKeys(below) /\ k \notin RunningIn(below)
    BY <2>1, <2>2, Pushed
  <2>4. ~stopping' /\ k \notin dispatched' /\ k \notin RunningIn(below)
    <3>1. ~stopping /\ k \notin dispatched' /\ k \notin RunningIn(below)
      BY <1>2 DEF Runnable
    <3> QED
      BY <3>1
  <2>5. DTypeOK'
    <3>1. states' \in [Keys -> BriefingStates] /\ runs' \in [Keys -> Nat]
      BY <1>0, <1>2 DEF BriefingStates
    <3> QED
      BY <1>0, <1>2, <2>3, <3>1 DEF DTypeOK
  <2>6. Once'
    BY <1>2, <2>3, <2>4 DEF Once
  <2>7. Claims'
    <3> SUFFICES ASSUME NEW c \in Keys
                 PROVE  /\ asked'[c] <= Bit(c \in executed') + Bit(c \in recovered')
                        /\ runs'[c] + Cardinality(HoldersIn(stack', c)) + Bit(c \in ToSet(pending'))
                             <= asked'[c] + retries'[c]
      BY DEF Claims
    <3>1. Cardinality(HoldersIn(below, c)) \in Nat
      BY HoldersFinite
    <3>2. runs[c] \in Nat /\ asked'[c] \in Nat /\ retries'[c] \in Nat
      <4>1. runs[c] \in Nat
        BY <1>0
      <4>2. asked'[c] \in Nat
        OBVIOUS
      <4>3. retries'[c] \in {0, 1}
        OBVIOUS
      <4> QED
        BY <4>1, <4>2, <4>3
    <3>3. runs'[c] = runs[c] + Bit(c = k)
      BY <1>0, <1>2 DEF Bit
    <3>4. Bit(c = k) + Bit(c \in ToSet(rest)) <= Bit(c \in ToSet(list))
      BY <1>2 DEF Bit
    <3>5. Cardinality(HoldersIn(stack', c))
            = Cardinality(HoldersIn(below, c)) + Bit(c \in ToSet(rest))
      BY <2>3
    <3>6. /\ asked'[c] <= Bit(c \in executed') + Bit(c \in recovered')
          /\ runs[c] + Cardinality(HoldersIn(below, c)) + Bit(c \in ToSet(list))
                     + Bit(c \in ToSet(pending')) <= asked'[c] + retries'[c]
      OBVIOUS
    <3>7. /\ Bit(c = k) \in Nat /\ Bit(c \in ToSet(rest)) \in Nat
          /\ Bit(c \in ToSet(list)) \in Nat /\ Bit(c \in ToSet(pending')) \in Nat
      BY DEF Bit
    <3> QED
      <4> DEFINE r == runs[c]   h == Cardinality(HoldersIn(below, c))
                 eq == Bit(c = k)   inrest == Bit(c \in ToSet(rest))
                 intodo == Bit(c \in ToSet(list))   inp == Bit(c \in ToSet(pending'))
                 bound == asked'[c] + retries'[c]
                 r1 == runs'[c]   h1 == Cardinality(HoldersIn(stack', c))
      <4>1. r \in Nat /\ h \in Nat /\ eq \in Nat /\ inrest \in Nat /\ intodo \in Nat
            /\ inp \in Nat /\ bound \in Nat
        BY <3>1, <3>2, <3>7
      <4>2. r1 = r + eq /\ h1 = h + inrest /\ eq + inrest <= intodo
            /\ r + h + intodo + inp <= bound
        BY <3>3, <3>4, <3>5, <3>6
      <4> HIDE DEF r, h, eq, inrest, intodo, inp, bound, r1, h1
      <4>3. r1 + h1 + inp <= bound
        BY <4>1, <4>2
      <4> QED
        BY <3>6, <4>3 DEF r1, h1, inp, bound
  <2>8. Placed'
    <3> SUFFICES ASSUME NEW c \in Keys
                 PROVE  /\ states'[c] = "running" <=> c \in RunningIn(stack')
                        /\ states'[c] = "completed" <=> c \in dispatched'
                        /\ states'[c] \in {"waiting_for_connection", "retry_wait"} /\ ~stopping'
                             => c \in ToSet(pending') \cup SnapshotsIn(stack')
      BY DEF Placed
    <3>1. CASE c = k
      BY <1>2, <2>3, <2>4, <3>1
    <3>2. CASE c # k
      <4>1. states'[c] = told[c]
        BY <1>2, <3>2
      <4>2. c \in ToSet(list) /\ ~stopping
              => c \in ToSet(rest) \/ c \in dispatched' \/ c \in RunningIn(below)
        BY <1>2, <3>2 DEF Runnable
      <4> QED
        BY <2>3, <3>2, <4>1, <4>2
    <3> QED
      BY <3>1, <3>2
  <2> QED
    BY <2>5, <2>6, <2>7, <2>8 DEF DInv
<1>3. CASE \E k \in Keys, rest \in Seq(Keys) :
                /\ Runnable(k, below, dispatched')
                /\ stack' = Append(below, [key |-> k, rest |-> rest])
                /\ states' = [told EXCEPT ![k] = "running"]
                /\ activeBriefing' = k
                /\ runs' = [runs EXCEPT ![k] = @ + 1]
                /\ k \in ToSet(list) /\ ToSet(rest) \subseteq ToSet(list)
                /\ Distinct(list) => Distinct(rest) /\ k \notin ToSet(rest)
                /\ \A c \in ToSet(list) :
                      c = k \/ c \in ToSet(rest) \/ ~Runnable(c, below, dispatched')
  <2> PICK k \in Keys, rest \in Seq(Keys) :
                /\ Runnable(k, below, dispatched')
                /\ stack' = Append(below, [key |-> k, rest |-> rest])
                /\ states' = [told EXCEPT ![k] = "running"]
                /\ activeBriefing' = k
                /\ runs' = [runs EXCEPT ![k] = @ + 1]
                /\ k \in ToSet(list) /\ ToSet(rest) \subseteq ToSet(list)
                /\ Distinct(list) => Distinct(rest) /\ k \notin ToSet(rest)
                /\ \A c \in ToSet(list) :
                      c = k \/ c \in ToSet(rest) \/ ~Runnable(c, below, dispatched')
    BY <1>3
  <2> QED
    BY <1>2
<1> DEFINE done == dispatched'
<1>5. Enter(list, below, done, told)
  OBVIOUS
<1> HIDE DEF done
<1>6. \/ /\ stack' = below /\ states' = told /\ UNCHANGED <<activeBriefing, runs>>
         /\ \A c \in ToSet(list) : ~Runnable(c, below, done)
      \/ \E k \in Keys, rest \in Seq(Keys) :
                /\ Runnable(k, below, done)
                /\ stack' = Append(below, [key |-> k, rest |-> rest])
                /\ states' = [told EXCEPT ![k] = "running"]
                /\ activeBriefing' = k
                /\ runs' = [runs EXCEPT ![k] = @ + 1]
                /\ k \in ToSet(list) /\ ToSet(rest) \subseteq ToSet(list)
                /\ Distinct(list) => Distinct(rest) /\ k \notin ToSet(rest)
                /\ \A c \in ToSet(list) :
                      c = k \/ c \in ToSet(rest) \/ ~Runnable(c, below, done)
  BY <1>5, EnterCases
<1> QED
  BY <1>1, <1>3, <1>6 DEF done

-----------------------------------------------------------------------------
\* At the start of the process nothing is asked for.
LEMMA InitDInv == DInit => DInv
<1> SUFFICES ASSUME DInit PROVE DInv
  OBVIOUS
<1>1. stack = <<>> /\ pending = <<>> /\ stack \in Seq(Frames) /\ pending \in Seq(Keys)
  BY DEF DInit
<1>2. DTypeOK
  BY <1>1 DEF DInit, DTypeOK, BriefingStates
<1>3. Once
  BY <1>1 DEF Once, Distinct, DistinctRests, DistinctKeys
<1>4. \A k : HoldersIn(stack, k) = {}
  BY <1>1 DEF HoldersIn
<1>5. Cardinality({}) = 0
  BY FS_EmptySet
<1>6. Claims
  <2> SUFFICES ASSUME NEW k \in Keys
               PROVE  /\ asked[k] <= Bit(k \in executed) + Bit(k \in recovered)
                      /\ runs[k] + Cardinality(HoldersIn(stack, k)) + Bit(k \in ToSet(pending))
                           <= asked[k] + retries[k]
    BY DEF Claims
  <2>1. runs[k] = 0 /\ asked[k] = 0 /\ retries[k] = 0 /\ executed = {} /\ recovered = {}
    BY DEF DInit
  <2>2. k \notin ToSet(pending)
    BY <1>1 DEF ToSet
  <2> QED
    BY <1>4, <1>5, <2>1, <2>2 DEF Bit
<1>7. Placed
  BY <1>1 DEF Placed, DInit, RunningIn
<1> QED
  BY <1>2, <1>3, <1>6, <1>7 DEF DInv

\* A step that moves no key, and takes at most one more up.
LEMMA IdleDInv ==
    ASSUME DInv, UNCHANGED <<stopping, stack, pending, dispatched, retries, states, asked, runs>>,
           connected' \in BOOLEAN, retryTimers' \subseteq Keys, executed' \subseteq Keys,
           recovered' \subseteq Keys, saved' \subseteq Keys,
           activeBriefing' \in Keys \cup {NoBriefing},
           executed \subseteq executed', recovered \subseteq recovered'
    PROVE  DInv'
<1>1. DTypeOK'
  BY DEF DInv, DTypeOK
<1>2. Once' /\ Placed'
  BY DEF DInv, Once, Placed
<1>3. Claims'
  <2> SUFFICES ASSUME NEW k \in Keys
               PROVE  asked[k] <= Bit(k \in executed') + Bit(k \in recovered')
    BY DEF DInv, Claims
  <2>1. asked[k] \in Nat /\ asked[k] <= Bit(k \in executed) + Bit(k \in recovered)
    BY DEF DInv, DTypeOK, Claims
  <2>2. k \in executed => k \in executed'
    OBVIOUS
  <2>3. k \in recovered => k \in recovered'
    OBVIOUS
  <2> QED
    BY <2>1, <2>2, <2>3 DEF Bit
<1> QED
  BY <1>1, <1>2, <1>3 DEF DInv

\* One key more at the end of the pending ones.
LEMMA AppendKey ==
    ASSUME NEW s \in Seq(Keys), NEW k \in Keys
    PROVE  /\ Append(s, k) \in Seq(Keys)
           /\ ToSet(Append(s, k)) = ToSet(s) \cup {k}
           /\ Distinct(s) /\ k \notin ToSet(s) => Distinct(Append(s, k))
<1>1. PICK n \in Nat : n = Len(s)
  OBVIOUS
<1> DEFINE more == Append(s, k)
<1>2. /\ more \in Seq(Keys) /\ DOMAIN s = 1 .. n /\ DOMAIN more = 1 .. n + 1
      /\ \A i \in 1 .. n : more[i] = s[i]
      /\ more[n + 1] = k
  BY <1>1
<1>3. \A i \in 1 .. n + 1 : i \in 1 .. n \/ i = n + 1
  BY <1>1
<1>4. n + 1 \notin 1 .. n /\ 1 .. n \subseteq 1 .. n + 1 /\ n + 1 \in 1 .. n + 1
  BY <1>1
<1> HIDE DEF more
<1>5. ToSet(more) = ToSet(s) \cup {k}
  BY <1>2, <1>3, <1>4 DEF ToSet
<1>6. Distinct(s) /\ k \notin ToSet(s) => Distinct(more)
  BY <1>2, <1>3, <1>4 DEF Distinct, ToSet
<1> QED
  BY <1>2, <1>5, <1>6 DEF more

\* One key taken out of the pending ones.
LEMMA RemoveKey ==
    ASSUME NEW s \in Seq(Keys), Distinct(s), NEW i \in DOMAIN s
    PROVE  /\ RemoveAt(s, i) \in Seq(Keys)
           /\ ToSet(RemoveAt(s, i)) = ToSet(s) \ {s[i]}
           /\ Distinct(RemoveAt(s, i))
<1>1. PICK n \in Nat : n = Len(s)
  OBVIOUS
<1>2. i \in 1 .. n /\ DOMAIN s = 1 .. n
  BY <1>1
<1> DEFINE a == SubSeq(s, 1, i - 1)
           b == SubSeq(s, i + 1, n)
           less == RemoveAt(s, i)
<1>3. a \in Seq(Keys) /\ Len(a) = i - 1 /\ \A j \in 1 .. i - 1 : a[j] = s[j]
  <2>1. 1 \in Int /\ i - 1 \in Int /\ \A j \in 1 .. i - 1 : s[j] \in Keys
    BY <1>1, <1>2
  <2>2. /\ a \in Seq(Keys)
        /\ Len(a) = IF 1 <= i - 1 THEN (i - 1) - 1 + 1 ELSE 0
        /\ \A j \in 1 .. (i - 1) - 1 + 1 : a[j] = s[1 + j - 1]
    BY <2>1, SubSeqProperties
  <2> HIDE DEF a
  <2>3. (i - 1) - 1 + 1 = i - 1 /\ \A j \in 1 .. i - 1 : 1 + j - 1 = j
    BY <1>2
  <2> QED
    BY <1>2, <2>2, <2>3
<1>4. b \in Seq(Keys) /\ Len(b) = n - i /\ \A j \in 1 .. n - i : b[j] = s[j + i]
  <2>1. i + 1 \in Int /\ n \in Int /\ \A j \in i + 1 .. n : s[j] \in Keys
    BY <1>1, <1>2
  <2>2. /\ b \in Seq(Keys)
        /\ Len(b) = IF i + 1 <= n THEN n - (i + 1) + 1 ELSE 0
        /\ \A j \in 1 .. n - (i + 1) + 1 : b[j] = s[(i + 1) + j - 1]
    BY <2>1, SubSeqProperties
  <2> HIDE DEF b
  <2>3. n - (i + 1) + 1 = n - i /\ \A j \in 1 .. n - i : (i + 1) + j - 1 = j + i
    BY <1>1, <1>2
  <2> QED
    BY <1>1, <1>2, <2>2, <2>3
<1>5. less = a \o b
  BY <1>1 DEF RemoveAt
<1> HIDE DEF a, b
<1>6. /\ less \in Seq(Keys) /\ Len(less) = Len(a) + Len(b)
      /\ \A j \in 1 .. Len(a) + Len(b) :
            less[j] = IF j <= Len(a) THEN a[j] ELSE b[j - Len(a)]
  BY <1>3, <1>4, <1>5, ConcatProperties
<1> HIDE DEF less
<1>7. DOMAIN less = 1 .. n - 1
  BY <1>1, <1>2, <1>3, <1>4, <1>6
<1>8. \A j \in 1 .. n - 1 : less[j] = IF j < i THEN s[j] ELSE s[j + 1]
  <2> SUFFICES ASSUME NEW j \in 1 .. n - 1 PROVE less[j] = IF j < i THEN s[j] ELSE s[j + 1]
    OBVIOUS
  <2>1. j \in 1 .. Len(a) + Len(b)
    BY <1>1, <1>2, <1>3, <1>4
  <2>2. CASE j < i
    BY <1>2, <1>3, <1>6, <2>1, <2>2
  <2>3. CASE ~(j < i)
    <3>1. ~(j <= Len(a)) /\ j - Len(a) = j - (i - 1) /\ j - (i - 1) \in 1 .. n - i
      BY <1>1, <1>2, <1>3, <2>3
    <3>2. less[j] = b[j - (i - 1)]
      BY <1>6, <2>1, <3>1
    <3>3. (j - (i - 1)) + i = j + 1
      BY <1>2
    <3> QED
      BY <1>4, <2>3, <3>1, <3>2, <3>3
  <2> QED
    BY <2>2, <2>3
<1>9. ToSet(less) = ToSet(s) \ {s[i]}
  <2>1. ASSUME NEW j \in 1 .. n - 1 PROVE less[j] \in ToSet(s) \ {s[i]}
    <3>1. j \in 1 .. n /\ j + 1 \in 1 .. n /\ (j < i => j # i) /\ (~(j < i) => j + 1 # i)
      BY <1>1, <1>2
    <3> QED
      BY <1>2, <1>8, <3>1 DEF Distinct, ToSet
  <2>2. ASSUME NEW j \in 1 .. n, s[j] # s[i] PROVE s[j] \in ToSet(less)
    <3>1. CASE j < i
      <4>1. j \in 1 .. n - 1
        BY <1>1, <1>2, <3>1
      <4> QED
        BY <1>7, <1>8, <3>1, <4>1 DEF ToSet
    <3>2. CASE j > i
      <4>1. j - 1 \in 1 .. n - 1 /\ ~(j - 1 < i) /\ (j - 1) + 1 = j
        BY <1>1, <1>2, <3>2
      <4> QED
        BY <1>7, <1>8, <4>1 DEF ToSet
    <3> QED
      BY <1>2, <2>2, <3>1, <3>2
  <2> QED
    BY <1>2, <1>7, <2>1, <2>2 DEF ToSet
<1>10. Distinct(less)
  <2> SUFFICES ASSUME NEW j \in 1 .. n - 1, NEW l \in 1 .. n - 1, less[j] = less[l] PROVE j = l
    BY <1>7 DEF Distinct
  <2>1. j \in 1 .. n /\ j + 1 \in 1 .. n /\ l \in 1 .. n /\ l + 1 \in 1 .. n
    BY <1>1
  <2>2. (IF j < i THEN j ELSE j + 1) = (IF l < i THEN l ELSE l + 1)
    BY <1>2, <1>8, <2>1 DEF Distinct
  <2> QED
    BY <1>1, <1>2, <2>2
<1> QED
  BY <1>6, <1>9, <1>10 DEF less

\* What the invariant says of the numbers, one key at a time.
LEMMA ClaimOf ==
    ASSUME DInv, NEW k \in Keys
    PROVE  /\ asked[k] \in Nat /\ runs[k] \in Nat /\ retries[k] \in Nat
           /\ Cardinality(HoldersIn(stack, k)) \in Nat
           /\ Bit(k \in ToSet(pending)) \in Nat
           /\ asked[k] <= Bit(k \in executed) + Bit(k \in recovered)
           /\ runs[k] + Cardinality(HoldersIn(stack, k)) + Bit(k \in ToSet(pending))
                <= asked[k] + retries[k]
<1>1. stack \in Seq(Frames)
  BY DEF DInv, DTypeOK
<1>2. asked[k] \in Nat /\ runs[k] \in Nat
  BY DEF DInv, DTypeOK
<1>3. retries[k] \in {0, 1}
  BY DEF DInv, DTypeOK
<1>4. Cardinality(HoldersIn(stack, k)) \in Nat
  BY <1>1, HoldersFinite
<1>5. Bit(k \in ToSet(pending)) \in Nat
  BY DEF Bit
<1> QED
  BY <1>2, <1>3, <1>4, <1>5 DEF DInv, Claims

\* The list that a single briefing is.
LEMMA Single ==
    ASSUME NEW k \in Keys
    PROVE  <<k>> \in Seq(Keys) /\ ToSet(<<k>>) = {k} /\ Distinct(<<k>>)
  BY DEF ToSet, Distinct

\* dispatch(), called for a key that its caller takes up.
LEMMA DispatchDInv ==
    ASSUME DInv, NEW k \in Keys, Dispatch(k),
           UNCHANGED <<connected, stopping, dispatched, retries, retryTimers, saved>>,
           executed' \subseteq Keys, recovered' \subseteq Keys,
           executed \subseteq executed', recovered \subseteq recovered',
           \/ k \notin executed /\ k \in executed'
           \/ k \notin recovered /\ k \in recovered'
    PROVE  DInv'
<1>1. /\ connected \in BOOLEAN /\ stopping \in BOOLEAN /\ stack \in Seq(Frames)
      /\ pending \in Seq(Keys) /\ dispatched \subseteq Keys /\ retries \in [Keys -> {0, 1}]
      /\ retryTimers \subseteq Keys /\ states \in [Keys -> BriefingStates]
      /\ executed \subseteq Keys /\ recovered \subseteq Keys /\ saved \subseteq Keys
      /\ asked \in [Keys -> Nat] /\ runs \in [Keys -> Nat]
      /\ activeBriefing \in Keys \cup {NoBriefing}
  BY DEF DInv, DTypeOK
<1>2. ASSUME NEW c \in Keys
      PROVE  asked[c] + Bit(c = k) <= Bit(c \in executed') + Bit(c \in recovered')
  <2>1. asked[c] \in Nat /\ asked[c] <= Bit(c \in executed) + Bit(c \in recovered)
    BY ClaimOf
  <2>2. (c \in executed => c \in executed') /\ (c \in recovered => c \in recovered')
    OBVIOUS
  <2>3. c = k => (c \notin executed /\ c \in executed') \/ (c \notin recovered /\ c \in recovered')
    OBVIOUS
  <2> QED
    BY <2>1, <2>2, <2>3 DEF Bit
<1>3. CASE UNCHANGED <<stack, pending, states, activeBriefing, asked, runs>>
  BY <1>1, <1>3, IdleDInv
<1>4. CASE /\ Runnable(k, stack, dispatched) /\ ~connected
           /\ states' = [states EXCEPT ![k] = "waiting_for_connection"]
           /\ IF k \in ToSet(pending)
              THEN UNCHANGED <<pending, asked>>
              ELSE /\ pending' = Append(pending, k)
                   /\ asked' = [asked EXCEPT ![k] = @ + 1]
           /\ UNCHANGED <<stack, activeBriefing, runs>>
  <2>1. /\ pending' \in Seq(Keys) /\ Distinct(pending')
        /\ ToSet(pending') = ToSet(pending) \cup {k}
    <3>1. Distinct(pending)
      BY DEF DInv, Once
    <3>2. /\ Append(pending, k) \in Seq(Keys)
          /\ ToSet(Append(pending, k)) = ToSet(pending) \cup {k}
          /\ k \notin ToSet(pending) => Distinct(Append(pending, k))
      BY <1>1, <3>1, AppendKey
    <3> QED
      BY <1>1, <1>4, <3>1, <3>2
  <2>2. asked' \in [Keys -> Nat]
        /\ \A c \in Keys : asked'[c] = asked[c] + Bit(c = k /\ k \notin ToSet(pending))
    <3>1. CASE k \in ToSet(pending)
      <4>1. asked' = asked
        BY <1>4, <3>1
      <4> QED
        BY <1>1, <3>1, <4>1 DEF Bit
    <3>2. CASE k \notin ToSet(pending)
      <4>1. asked' = [asked EXCEPT ![k] = @ + 1]
        BY <1>4, <3>2
      <4>2. \A c \in Keys : asked'[c] = asked[c] + Bit(c = k)
        BY <1>1, <4>1 DEF Bit
      <4>3. \A c \in Keys : Bit(c = k /\ k \notin ToSet(pending)) = Bit(c = k)
        BY <3>2 DEF Bit
      <4> QED
        BY <1>1, <4>1, <4>2, <4>3
    <3> QED
      BY <3>1, <3>2
  <2>3. DTypeOK'
    BY <1>1, <1>4, <2>1, <2>2 DEF DTypeOK, BriefingStates
  <2>4. Once'
    BY <1>4, <2>1 DEF DInv, Once
  <2>5. Claims'
    <3> SUFFICES ASSUME NEW c \in Keys
                 PROVE  /\ asked'[c] <= Bit(c \in executed') + Bit(c \in recovered')
                        /\ runs[c] + Cardinality(HoldersIn(stack, c)) + Bit(c \in ToSet(pending'))
                             <= asked'[c] + retries[c]
      BY <1>4 DEF Claims
    <3>1. /\ asked[c] \in Nat /\ runs[c] \in Nat /\ retries[c] \in Nat
          /\ Cardinality(HoldersIn(stack, c)) \in Nat
          /\ runs[c] + Cardinality(HoldersIn(stack, c)) + Bit(c \in ToSet(pending))
               <= asked[c] + retries[c]
      BY ClaimOf
    <3>2. CASE c = k /\ k \notin ToSet(pending)
      <4>1. asked'[c] = asked[c] + 1 /\ Bit(c \in ToSet(pending')) = 1
            /\ Bit(c \in ToSet(pending)) = 0 /\ Bit(c = k) = 1
        BY <2>1, <2>2, <3>2 DEF Bit
      <4> QED
        BY <1>2, <3>1, <4>1
    <3>3. CASE ~(c = k /\ k \notin ToSet(pending))
      <4>1. asked'[c] = asked[c] /\ Bit(c \in ToSet(pending')) = Bit(c \in ToSet(pending))
        BY <2>1, <2>2, <3>1, <3>3 DEF Bit
      <4>2. asked[c] <= Bit(c \in executed') + Bit(c \in recovered')
        <5>1. Bit(c = k) \in {0, 1} /\ Bit(c \in executed') \in {0, 1} /\ Bit(c \in recovered') \in {0, 1}
          BY DEF Bit
        <5> QED
          BY <1>2, <3>1, <5>1
      <4> QED
        BY <3>1, <4>1, <4>2
    <3> QED
      BY <3>2, <3>3
  <2>6. Placed'
    <3> SUFFICES ASSUME NEW c \in Keys
                 PROVE  /\ states'[c] = "running" <=> c \in RunningIn(stack)
                        /\ states'[c] = "completed" <=> c \in dispatched
                        /\ states'[c] \in {"waiting_for_connection", "retry_wait"} /\ ~stopping
                             => c \in ToSet(pending') \cup SnapshotsIn(stack)
      BY <1>4 DEF Placed
    <3>1. CASE c = k
      BY <1>1, <1>4, <2>1, <3>1 DEF Runnable
    <3>2. CASE c # k
      BY <1>1, <1>4, <2>1, <3>2 DEF DInv, Placed
    <3> QED
      BY <3>1, <3>2
  <2> QED
    BY <2>3, <2>4, <2>5, <2>6 DEF DInv
<1>5. CASE /\ Runnable(k, stack, dispatched) /\ connected
           /\ Enter(<<k>>, stack, dispatched, states)
           /\ asked' = [asked EXCEPT ![k] = @ + 1]
           /\ UNCHANGED pending
  <2>1. <<k>> \in Seq(Keys) /\ ToSet(<<k>>) = {k} /\ Distinct(<<k>>)
    BY Single
  <2>2. asked' \in [Keys -> Nat] /\ \A c \in Keys : asked'[c] = asked[c] + Bit(c = k)
    BY <1>1, <1>5 DEF Bit
  <2>3. ASSUME NEW c \in Keys
        PROVE  /\ asked'[c] <= Bit(c \in executed') + Bit(c \in recovered')
               /\ runs[c] + Cardinality(HoldersIn(stack, c)) + Bit(c \in ToSet(<<k>>))
                          + Bit(c \in ToSet(pending)) <= asked'[c] + retries[c]
    <3>1. /\ asked[c] \in Nat /\ runs[c] \in Nat /\ retries[c] \in Nat
          /\ Cardinality(HoldersIn(stack, c)) \in Nat
          /\ Bit(c \in ToSet(pending)) \in Nat
          /\ runs[c] + Cardinality(HoldersIn(stack, c)) + Bit(c \in ToSet(pending))
               <= asked[c] + retries[c]
      BY ClaimOf
    <3>2. Bit(c = k) \in Nat /\ Bit(c \in ToSet(<<k>>)) = Bit(c = k)
      BY <2>1 DEF Bit
    <3>3. asked'[c] = asked[c] + Bit(c = k)
      BY <2>2
    <3>4. asked'[c] <= Bit(c \in executed') + Bit(c \in recovered')
      BY <1>2, <3>3
    <3> QED
      BY <3>1, <3>2, <3>3, <3>4
  <2>4. ASSUME NEW c \in Keys
        PROVE  /\ states[c] = "running" <=> c \in RunningIn(stack)
               /\ states[c] = "completed" <=> c \in dispatched
               /\ states[c] \in {"waiting_for_connection", "retry_wait"} /\ ~stopping
                    => c \in ToSet(pending) \cup SnapshotsIn(stack) \cup ToSet(<<k>>)
    BY DEF DInv, Placed
  <2>5. Enter(<<k>>, stack, dispatched', states)
    BY <1>5
  <2>6. DTypeOK /\ Distinct(pending) /\ DistinctRests(stack) /\ DistinctKeys(stack)
    BY DEF DInv, Once
  <2>7. pending' = pending
    BY <1>5
  <2> QED
    BY <1>1, <2>1, <2>2, <2>3, <2>4, <2>5, <2>6, <2>7, EnterDInv
<1> QED
  BY <1>3, <1>4, <1>5 DEF Dispatch

\* A timer of the scheduler, or the recovery, takes a key up.
LEMMA TakenUpDInv ==
    ASSUME DInv, NEW k \in Keys, Scheduled(k) \/ Recover(k), UNCHANGED connected
    PROVE  DInv'
<1>1. executed \subseteq Keys /\ recovered \subseteq Keys
  BY DEF DInv, DTypeOK
<1>2. CASE Scheduled(k)
  BY <1>1, <1>2, DispatchDInv DEF Scheduled
<1>3. CASE Recover(k)
  BY <1>1, <1>3, DispatchDInv DEF Recover
<1> QED
  BY <1>2, <1>3

\* The pass over the pending briefings begins: the list becomes a snapshot.
LEMMA OnConnectionStateDInv ==
    ASSUME DInv, OnConnectionState, UNCHANGED connected PROVE DInv'
<1>1. /\ connected \in BOOLEAN /\ stopping \in BOOLEAN /\ stack \in Seq(Frames)
      /\ pending \in Seq(Keys) /\ dispatched \subseteq Keys /\ retries \in [Keys -> {0, 1}]
      /\ retryTimers \subseteq Keys /\ states \in [Keys -> BriefingStates]
      /\ executed \subseteq Keys /\ recovered \subseteq Keys /\ saved \subseteq Keys
      /\ asked \in [Keys -> Nat]
  BY DEF DInv, DTypeOK
<1>2. /\ UNCHANGED <<stopping, dispatched, retries, retryTimers, executed, recovered, saved, asked>>
      /\ pending' = <<>> /\ pending' \in Seq(Keys) /\ Distinct(pending')
      /\ ToSet(pending') = {}
  BY DEF OnConnectionState, Distinct, ToSet
<1>3. Enter(pending, stack, dispatched', states)
  BY <1>2 DEF OnConnectionState
<1>4. DTypeOK /\ Distinct(pending) /\ DistinctRests(stack) /\ DistinctKeys(stack)
  BY DEF DInv, Once
<1>5. ASSUME NEW c \in Keys
      PROVE  /\ asked'[c] <= Bit(c \in executed') + Bit(c \in recovered')
             /\ runs[c] + Cardinality(HoldersIn(stack, c)) + Bit(c \in ToSet(pending))
                        + Bit(c \in ToSet(pending')) <= asked'[c] + retries'[c]
  <2>1. /\ asked[c] \in Nat /\ runs[c] \in Nat /\ retries[c] \in Nat
        /\ Cardinality(HoldersIn(stack, c)) \in Nat
        /\ Bit(c \in ToSet(pending)) \in Nat
        /\ asked[c] <= Bit(c \in executed) + Bit(c \in recovered)
        /\ runs[c] + Cardinality(HoldersIn(stack, c)) + Bit(c \in ToSet(pending))
             <= asked[c] + retries[c]
    BY ClaimOf
  <2>2. Bit(c \in ToSet(pending')) = 0
    BY <1>2 DEF Bit
  <2>3. asked'[c] = asked[c] /\ retries'[c] = retries[c]
        /\ executed' = executed /\ recovered' = recovered
    BY <1>2
  <2> QED
    BY <2>1, <2>2, <2>3
<1>6. ASSUME NEW c \in Keys
      PROVE  /\ states[c] = "running" <=> c \in RunningIn(stack)
             /\ states[c] = "completed" <=> c \in dispatched'
             /\ states[c] \in {"waiting_for_connection", "retry_wait"} /\ ~stopping
                  => c \in ToSet(pending') \cup SnapshotsIn(stack) \cup ToSet(pending)
  BY <1>2 DEF DInv, Placed
<1> QED
  BY <1>1, <1>2, <1>3, <1>4, <1>5, <1>6, EnterDInv

\* What the top of the stack is to the frames below it.
LEMMA Popped ==
    ASSUME DInv, stack # <<>>
    PROVE  /\ Front(stack) \in Seq(Frames) /\ Last(stack) \in Frames
           /\ Last(stack).key \in Keys /\ Last(stack).rest \in Seq(Keys)
           /\ Last(stack).key \notin RunningIn(Front(stack))
           /\ RunningIn(stack) = RunningIn(Front(stack)) \cup {Last(stack).key}
           /\ SnapshotsIn(stack) = SnapshotsIn(Front(stack)) \cup ToSet(Last(stack).rest)
           /\ \A c : Cardinality(HoldersIn(stack, c))
                = Cardinality(HoldersIn(Front(stack), c)) + Bit(c \in ToSet(Last(stack).rest))
           /\ Distinct(Last(stack).rest)
           /\ DistinctRests(Front(stack)) /\ DistinctKeys(Front(stack))
<1> DEFINE below == Front(stack)   top == Last(stack)
<1>1. stack \in Seq(Frames) /\ DistinctRests(stack) /\ DistinctKeys(stack)
  BY DEF DInv, DTypeOK, Once
<1>2. below \in Seq(Frames) /\ top \in Frames /\ stack = Append(below, top)
  BY <1>1, FrontLast
<1> HIDE DEF below, top
<1>3. top.key \in Keys /\ top.rest \in Seq(Keys)
  BY <1>2 DEF Frames
<1>4. /\ RunningIn(stack) = RunningIn(below) \cup {top.key}
      /\ SnapshotsIn(stack) = SnapshotsIn(below) \cup ToSet(top.rest)
      /\ \A c : Cardinality(HoldersIn(stack, c))
                  = Cardinality(HoldersIn(below, c)) + Bit(c \in ToSet(top.rest))
      /\ DistinctRests(stack) <=> DistinctRests(below) /\ Distinct(top.rest)
      /\ DistinctKeys(stack) <=> DistinctKeys(below) /\ top.key \notin RunningIn(below)
  BY <1>2, Pushed
<1> QED
  BY <1>1, <1>2, <1>3, <1>4 DEF below, top

\* A callback ends and the frame goes on: the invariant holds again when the
\* claims add up and the state of the briefing that ran is told truly.
LEMMA ReturnDInv ==
    ASSUME DInv, stack # <<>>, NEW told \in [Keys -> BriefingStates], GoOn(told, dispatched'),
           UNCHANGED <<connected, stopping, executed, recovered, saved, asked>>,
           pending' \in Seq(Keys), Distinct(pending'), ToSet(pending) \subseteq ToSet(pending'),
           dispatched' \subseteq Keys, retries' \in [Keys -> {0, 1}], retryTimers' \subseteq Keys,
           \A c \in Keys : retries'[c] + Bit(c \in ToSet(pending))
                             >= retries[c] + Bit(c \in ToSet(pending')),
           \A c \in Keys : c # Last(stack).key =>
              told[c] = states[c] /\ (c \in dispatched' <=> c \in dispatched),
           LET k == Last(stack).key IN
           /\ told[k] \notin {"running", "waiting_for_connection"}
           /\ told[k] = "completed" <=> k \in dispatched'
           /\ told[k] = "retry_wait" => k \in ToSet(pending')
    PROVE  DInv'
<1> DEFINE below == Front(stack)   top == Last(stack)
<1>1. /\ below \in Seq(Frames) /\ top.key \in Keys /\ top.rest \in Seq(Keys)
      /\ top.key \notin RunningIn(below)
      /\ RunningIn(stack) = RunningIn(below) \cup {top.key}
      /\ SnapshotsIn(stack) = SnapshotsIn(below) \cup ToSet(top.rest)
      /\ \A c : Cardinality(HoldersIn(stack, c))
                  = Cardinality(HoldersIn(below, c)) + Bit(c \in ToSet(top.rest))
      /\ Distinct(top.rest) /\ DistinctRests(below) /\ DistinctKeys(below)
  BY Popped
<1>2. Enter(top.rest, below, dispatched', told)
  BY DEF GoOn
<1>3. \A c \in Keys : c # top.key => told[c] = states[c] /\ (c \in dispatched' <=> c \in dispatched)
  OBVIOUS
<1>4. /\ told[top.key] \notin {"running", "waiting_for_connection"}
      /\ told[top.key] = "completed" <=> top.key \in dispatched'
      /\ told[top.key] = "retry_wait" => top.key \in ToSet(pending')
  OBVIOUS
<1> HIDE DEF below, top
<1>5. /\ connected \in BOOLEAN /\ executed \subseteq Keys /\ recovered \subseteq Keys
      /\ saved \subseteq Keys /\ asked \in [Keys -> Nat]
  BY DEF DInv, DTypeOK
<1>6. ASSUME NEW c \in Keys
      PROVE  /\ asked'[c] <= Bit(c \in executed') + Bit(c \in recovered')
             /\ runs[c] + Cardinality(HoldersIn(below, c)) + Bit(c \in ToSet(top.rest))
                        + Bit(c \in ToSet(pending')) <= asked'[c] + retries'[c]
  <2>1. /\ asked[c] \in Nat /\ runs[c] \in Nat /\ retries[c] \in Nat
        /\ asked[c] <= Bit(c \in executed) + Bit(c \in recovered)
        /\ runs[c] + Cardinality(HoldersIn(stack, c)) + Bit(c \in ToSet(pending))
             <= asked[c] + retries[c]
    BY ClaimOf
  <2>2. Cardinality(HoldersIn(below, c)) \in Nat
    BY <1>1, HoldersFinite
  <2>3. Cardinality(HoldersIn(stack, c))
          = Cardinality(HoldersIn(below, c)) + Bit(c \in ToSet(top.rest))
    BY <1>1
  <2>4. retries'[c] + Bit(c \in ToSet(pending)) >= retries[c] + Bit(c \in ToSet(pending'))
    OBVIOUS
  <2>5. /\ Bit(c \in ToSet(pending)) \in Nat /\ Bit(c \in ToSet(pending')) \in Nat
        /\ Bit(c \in ToSet(top.rest)) \in Nat
    BY DEF Bit
  <2>6. retries'[c] \in Nat
    <3>1. retries'[c] \in {0, 1}
      OBVIOUS
    <3> QED
      BY <3>1
  <2> DEFINE r == runs[c]   h == Cardinality(HoldersIn(below, c))
             inrest == Bit(c \in ToSet(top.rest))   held == Cardinality(HoldersIn(stack, c))
             inp == Bit(c \in ToSet(pending))   inp1 == Bit(c \in ToSet(pending'))
             a == asked[c]   t == retries[c]   t1 == retries'[c]
  <2>7. /\ r \in Nat /\ h \in Nat /\ inrest \in Nat /\ inp \in Nat /\ inp1 \in Nat
        /\ a \in Nat /\ t \in Nat /\ t1 \in Nat /\ held = h + inrest
        /\ r + held + inp <= a + t /\ t1 + inp >= t + inp1
    BY <2>1, <2>2, <2>3, <2>4, <2>5, <2>6
  <2> HIDE DEF r, h, inrest, held, inp, inp1, a, t, t1
  <2>8. r + h + inrest + inp1 <= a + t1
    BY <2>7
  <2> QED
    BY <2>1, <2>8 DEF r, h, inrest, inp1, a, t1
<1>7. ASSUME NEW c \in Keys
      PROVE  /\ told[c] = "running" <=> c \in RunningIn(below)
             /\ told[c] = "completed" <=> c \in dispatched'
             /\ told[c] \in {"waiting_for_connection", "retry_wait"} /\ ~stopping
                  => c \in ToSet(pending') \cup SnapshotsIn(below) \cup ToSet(top.rest)
  <2>1. CASE c = top.key
    BY <1>1, <1>4, <2>1
  <2>2. CASE c # top.key
    <3>1. /\ states[c] = "running" <=> c \in RunningIn(stack)
          /\ states[c] = "completed" <=> c \in dispatched
          /\ states[c] \in {"waiting_for_connection", "retry_wait"} /\ ~stopping
               => c \in ToSet(pending) \cup SnapshotsIn(stack)
      BY DEF DInv, Placed
    <3> QED
      BY <1>1, <1>3, <2>2, <3>1
  <2> QED
    BY <2>1, <2>2
<1>8. DTypeOK
  BY DEF DInv
<1>9. /\ connected' \in BOOLEAN /\ stopping' = stopping /\ executed' \subseteq Keys
      /\ recovered' \subseteq Keys /\ saved' \subseteq Keys /\ asked' \in [Keys -> Nat]
  BY <1>5
<1> QED
  BY <1>1, <1>2, <1>6, <1>7, <1>8, <1>9, EnterDInv

\* The callback has returned: the briefing is dispatched.
LEMMA SucceedsDInv ==
    ASSUME DInv, Succeeds, UNCHANGED connected PROVE DInv'
<1> DEFINE k == Last(stack).key
           told == [states EXCEPT ![k] = "completed"]
<1>1. /\ stack # <<>> /\ dispatched' = dispatched \cup {k} /\ GoOn(told, dispatched')
      /\ UNCHANGED <<stopping, pending, retries, retryTimers, executed, recovered, saved, asked>>
  BY DEF Succeeds
<1>2. k \in Keys
  BY <1>1, Popped
<1> HIDE DEF k
<1>3. /\ pending \in Seq(Keys) /\ dispatched \subseteq Keys /\ retries \in [Keys -> {0, 1}]
      /\ retryTimers \subseteq Keys /\ states \in [Keys -> BriefingStates] /\ Distinct(pending)
  BY DEF DInv, DTypeOK, Once
<1>4. told \in [Keys -> BriefingStates] /\ told[k] = "completed"
      /\ \A c \in Keys : c # k => told[c] = states[c]
  BY <1>2, <1>3 DEF BriefingStates
<1> HIDE DEF told
<1>5. \A c \in Keys : retries'[c] + Bit(c \in ToSet(pending)) >= retries[c] + Bit(c \in ToSet(pending'))
  <2> SUFFICES ASSUME NEW c \in Keys
               PROVE  retries'[c] + Bit(c \in ToSet(pending)) >= retries[c] + Bit(c \in ToSet(pending'))
    OBVIOUS
  <2>1. retries[c] \in Nat /\ Bit(c \in ToSet(pending)) \in Nat
    BY ClaimOf
  <2>2. retries' = retries /\ pending' = pending
    BY <1>1
  <2> QED
    BY <2>1, <2>2
<1>6. /\ pending' \in Seq(Keys) /\ Distinct(pending') /\ ToSet(pending) \subseteq ToSet(pending')
      /\ dispatched' \subseteq Keys /\ retries' \in [Keys -> {0, 1}] /\ retryTimers' \subseteq Keys
  BY <1>1, <1>2, <1>3
<1>7. \A c \in Keys : c # k => told[c] = states[c] /\ (c \in dispatched' <=> c \in dispatched)
  BY <1>1, <1>4
<1>8. /\ told[k] \notin {"running", "waiting_for_connection"}
      /\ told[k] = "completed" <=> k \in dispatched'
      /\ told[k] = "retry_wait" => k \in ToSet(pending')
  BY <1>1, <1>4
<1> QED
  BY <1>1, <1>4, <1>5, <1>6, <1>7, <1>8, ReturnDInv DEF k

\* The callback has raised: the briefing has failed, or waits for its retry.
LEMMA FailsDInv ==
    ASSUME DInv, NEW transient \in BOOLEAN, Fails(transient), UNCHANGED connected PROVE DInv'
<1> DEFINE k == Last(stack).key
           again == transient /\ retries[k] < 1 /\ ~stopping
           told == [states EXCEPT ![k] = IF again THEN "retry_wait" ELSE "failed"]
<1>1. /\ stack # <<>>
      /\ IF again
         THEN /\ retries' = [retries EXCEPT ![k] = @ + 1]
              /\ retryTimers' = retryTimers \cup {k}
              /\ pending' = IF k \in ToSet(pending) THEN pending ELSE Append(pending, k)
              /\ GoOn([states EXCEPT ![k] = "retry_wait"], dispatched)
         ELSE /\ GoOn([states EXCEPT ![k] = "failed"], dispatched)
              /\ UNCHANGED <<retries, retryTimers, pending>>
      /\ UNCHANGED <<stopping, dispatched, executed, recovered, saved, asked>>
  BY DEF Fails
<1>2. k \in Keys
  BY <1>1, Popped
<1>3. k \notin dispatched
  <2>1. k \in RunningIn(stack)
    BY <1>1, Popped
  <2>2. states[k] = "running"
    BY <1>2, <2>1 DEF DInv, Placed
  <2>3. states[k] # "completed"
    BY <2>2
  <2> QED
    BY <1>2, <2>3 DEF DInv, Placed
<1> HIDE DEF k
<1>4. /\ pending \in Seq(Keys) /\ dispatched \subseteq Keys /\ retries \in [Keys -> {0, 1}]
      /\ retryTimers \subseteq Keys /\ states \in [Keys -> BriefingStates] /\ Distinct(pending)
  BY DEF DInv, DTypeOK, Once
<1>5. CASE again
  <2>1. /\ retries' = [retries EXCEPT ![k] = @ + 1] /\ retries[k] < 1
        /\ retryTimers' = retryTimers \cup {k}
        /\ pending' = IF k \in ToSet(pending) THEN pending ELSE Append(pending, k)
        /\ GoOn(told, dispatched')
    BY <1>1, <1>5
  <2>2. told \in [Keys -> BriefingStates] /\ told[k] = "retry_wait"
        /\ \A c \in Keys : c # k => told[c] = states[c]
    BY <1>2, <1>4, <1>5 DEF BriefingStates
  <2> HIDE DEF told
  <2>3. /\ pending' \in Seq(Keys) /\ Distinct(pending')
        /\ ToSet(pending') = ToSet(pending) \cup {k}
    <3>1. CASE k \in ToSet(pending)
      BY <1>4, <2>1, <3>1
    <3>2. CASE k \notin ToSet(pending)
      BY <1>2, <1>4, <2>1, <3>2, AppendKey
    <3> QED
      BY <3>1, <3>2
  <2>4. retries' \in [Keys -> {0, 1}] /\ \A c \in Keys : retries'[c] = retries[c] + Bit(c = k)
    <3>1. retries[k] = 0
      <4>1. retries[k] \in {0, 1}
        BY <1>2, <1>4
      <4> QED
        BY <2>1, <4>1
    <3>2. \A c \in Keys : retries'[c] = IF c = k THEN 1 ELSE retries[c]
      BY <1>2, <1>4, <2>1, <3>1
    <3>3. retries' \in [Keys -> {0, 1}]
      BY <1>2, <1>4, <2>1, <3>1
    <3>4. ASSUME NEW c \in Keys PROVE retries'[c] = retries[c] + Bit(c = k)
      <4>1. retries[c] \in {0, 1}
        BY <1>4
      <4> QED
        BY <3>1, <3>2, <4>1 DEF Bit
    <3> QED
      BY <3>3, <3>4
  <2>5. ASSUME NEW c \in Keys
        PROVE  retries'[c] + Bit(c \in ToSet(pending)) >= retries[c] + Bit(c \in ToSet(pending'))
    <3>1. retries[c] \in Nat
      BY ClaimOf
    <3>2. Bit(c \in ToSet(pending')) <= Bit(c = k) + Bit(c \in ToSet(pending))
          /\ Bit(c \in ToSet(pending')) \in Nat /\ Bit(c = k) \in Nat
          /\ Bit(c \in ToSet(pending)) \in Nat
      BY <2>3 DEF Bit
    <3>3. retries'[c] = retries[c] + Bit(c = k)
      BY <2>4
    <3> QED
      BY <3>1, <3>2, <3>3
  <2>6. dispatched' = dispatched /\ retryTimers' \subseteq Keys
        /\ UNCHANGED <<stopping, executed, recovered, saved, asked>>
    BY <1>1, <1>2, <1>4, <2>1
  <2>7. ToSet(pending) \subseteq ToSet(pending') /\ k \in ToSet(pending')
    BY <2>3
  <2>8. \A c \in Keys : c # k => told[c] = states[c] /\ (c \in dispatched' <=> c \in dispatched)
    BY <2>2, <2>6
  <2>9. /\ told[k] \notin {"running", "waiting_for_connection"}
        /\ told[k] = "completed" <=> k \in dispatched'
        /\ told[k] = "retry_wait" => k \in ToSet(pending')
    BY <1>3, <2>2, <2>6, <2>7
  <2>10. dispatched' \subseteq Keys
    BY <1>4, <2>6
  <2> QED
    BY <1>1, <2>1, <2>2, <2>3, <2>4, <2>5, <2>6, <2>7, <2>8, <2>9, <2>10, ReturnDInv DEF k
<1>6. CASE ~again
  <2>1. GoOn(told, dispatched') /\ UNCHANGED <<retries, retryTimers, pending>>
    BY <1>1, <1>6
  <2>2. told \in [Keys -> BriefingStates] /\ told[k] = "failed"
        /\ \A c \in Keys : c # k => told[c] = states[c]
    BY <1>2, <1>4, <1>6 DEF BriefingStates
  <2> HIDE DEF told
  <2>3. ASSUME NEW c \in Keys
        PROVE  retries'[c] + Bit(c \in ToSet(pending)) >= retries[c] + Bit(c \in ToSet(pending'))
    <3>1. retries[c] \in Nat /\ Bit(c \in ToSet(pending)) \in Nat
      BY ClaimOf
    <3>2. retries' = retries /\ pending' = pending
      BY <2>1
    <3> QED
      BY <3>1, <3>2
  <2>4. UNCHANGED <<stopping, dispatched, executed, recovered, saved, asked>>
    BY <1>1
  <2>5. /\ pending' \in Seq(Keys) /\ Distinct(pending') /\ ToSet(pending) \subseteq ToSet(pending')
        /\ dispatched' \subseteq Keys /\ retries' \in [Keys -> {0, 1}] /\ retryTimers' \subseteq Keys
    BY <1>4, <2>1, <2>4
  <2>6. \A c \in Keys : c # k => told[c] = states[c] /\ (c \in dispatched' <=> c \in dispatched)
    BY <2>2, <2>4
  <2>7. /\ told[k] \notin {"running", "waiting_for_connection"}
        /\ told[k] = "completed" <=> k \in dispatched'
        /\ told[k] = "retry_wait" => k \in ToSet(pending')
    BY <1>3, <2>2, <2>4
  <2> QED
    BY <1>1, <2>1, <2>2, <2>3, <2>4, <2>5, <2>6, <2>7, ReturnDInv DEF k
<1> QED
  BY <1>5, <1>6

\* The retry timer fires: a pending claim becomes a run, or lapses.
LEMMA RetryDueDInv ==
    ASSUME DInv, NEW k \in Keys, RetryDue(k), UNCHANGED connected PROVE DInv'
<1>1. /\ connected \in BOOLEAN /\ stopping \in BOOLEAN /\ stack \in Seq(Frames)
      /\ pending \in Seq(Keys) /\ dispatched \subseteq Keys /\ retries \in [Keys -> {0, 1}]
      /\ retryTimers \subseteq Keys /\ states \in [Keys -> BriefingStates]
      /\ executed \subseteq Keys /\ recovered \subseteq Keys /\ saved \subseteq Keys
      /\ asked \in [Keys -> Nat] /\ activeBriefing \in Keys \cup {NoBriefing}
  BY DEF DInv, DTypeOK
<1>2. /\ UNCHANGED <<stopping, dispatched, retries, executed, recovered, saved, asked>>
      /\ retryTimers' \subseteq Keys
  BY <1>1 DEF RetryDue
<1>3. CASE ~(connected /\ k \in ToSet(pending))
  <2>1. UNCHANGED <<pending, stack, states, activeBriefing, runs>>
    BY <1>3 DEF RetryDue
  <2> QED
    BY <1>1, <1>2, <2>1, IdleDInv
<1>4. CASE connected /\ k \in ToSet(pending)
  <2>1. /\ \E i \in DOMAIN pending : pending[i] = k /\ pending' = RemoveAt(pending, i)
        /\ IF Runnable(k, stack, dispatched)
           THEN Enter(<<k>>, stack, dispatched, states)
           ELSE UNCHANGED <<stack, states, activeBriefing, runs>>
    BY <1>4 DEF RetryDue
  <2>2. DTypeOK /\ Distinct(pending) /\ DistinctRests(stack) /\ DistinctKeys(stack)
    BY DEF DInv, Once
  <2>3. /\ pending' \in Seq(Keys) /\ Distinct(pending')
        /\ ToSet(pending') = ToSet(pending) \ {k}
    <3>1. PICK i \in DOMAIN pending : pending[i] = k /\ pending' = RemoveAt(pending, i)
      BY <2>1
    <3> QED
      BY <1>1, <2>2, <3>1, RemoveKey
  <2>4. <<k>> \in Seq(Keys) /\ ToSet(<<k>>) = {k} /\ Distinct(<<k>>)
    BY Single
  <2>5. Enter(<<k>>, stack, dispatched', states)
    <3>1. CASE Runnable(k, stack, dispatched)
      BY <1>2, <2>1, <3>1
    <3>2. CASE ~Runnable(k, stack, dispatched)
      <4>1. 1 \in 0 .. Len(<<k>>) /\ Len(<<k>>) = 1 /\ <<k>>[1] = k
            /\ \A i \in 1 .. 1 : i = 1
        OBVIOUS
      <4>2. UNCHANGED <<stack, states, activeBriefing, runs>>
        BY <2>1, <3>2
      <4> QED
        BY <1>2, <3>2, <4>1, <4>2 DEF Enter
    <3> QED
      BY <3>1, <3>2
  <2>6. ASSUME NEW c \in Keys
        PROVE  /\ asked'[c] <= Bit(c \in executed') + Bit(c \in recovered')
               /\ runs[c] + Cardinality(HoldersIn(stack, c)) + Bit(c \in ToSet(<<k>>))
                          + Bit(c \in ToSet(pending')) <= asked'[c] + retries'[c]
    <3>1. /\ asked[c] \in Nat /\ runs[c] \in Nat /\ retries[c] \in Nat
          /\ Cardinality(HoldersIn(stack, c)) \in Nat
          /\ asked[c] <= Bit(c \in executed) + Bit(c \in recovered)
          /\ runs[c] + Cardinality(HoldersIn(stack, c)) + Bit(c \in ToSet(pending))
               <= asked[c] + retries[c]
      BY ClaimOf
    <3>2. Bit(c \in ToSet(<<k>>)) + Bit(c \in ToSet(pending')) = Bit(c \in ToSet(pending))
      BY <1>4, <2>3, <2>4 DEF Bit
    <3>3. /\ Bit(c \in ToSet(<<k>>)) \in Nat /\ Bit(c \in ToSet(pending')) \in Nat
          /\ Bit(c \in ToSet(pending)) \in Nat
      BY DEF Bit
    <3>4. asked'[c] = asked[c] /\ retries'[c] = retries[c]
          /\ executed' = executed /\ recovered' = recovered
      BY <1>2
    <3> DEFINE one == Bit(c \in ToSet(<<k>>))   h == Cardinality(HoldersIn(stack, c))
               inp == Bit(c \in ToSet(pending))   inp1 == Bit(c \in ToSet(pending'))
    <3>5. /\ one \in Nat /\ h \in Nat /\ inp \in Nat /\ inp1 \in Nat /\ one + inp1 = inp
          /\ runs[c] + h + inp <= asked[c] + retries[c]
      BY <3>1, <3>2, <3>3
    <3> HIDE DEF one, h, inp, inp1
    <3>6. runs[c] + h + one + inp1 <= asked[c] + retries[c]
      BY <3>1, <3>5
    <3> QED
      BY <3>1, <3>4, <3>6 DEF one, h, inp1
  <2>7. ASSUME NEW c \in Keys
        PROVE  /\ states[c] = "running" <=> c \in RunningIn(stack)
               /\ states[c] = "completed" <=> c \in dispatched'
               /\ states[c] \in {"waiting_for_connection", "retry_wait"} /\ ~stopping
                    => c \in ToSet(pending') \cup SnapshotsIn(stack) \cup ToSet(<<k>>)
    BY <1>2, <2>3, <2>4 DEF DInv, Placed
  <2> QED
    BY <1>1, <1>2, <2>2, <2>3, <2>4, <2>5, <2>6, <2>7, EnterDInv
<1> QED
  BY <1>3, <1>4

\* stop(): the pending briefings are dropped, the frames stay.
LEMMA StopDispatcherDInv ==
    ASSUME DInv, StopDispatcher, UNCHANGED connected PROVE DInv'
<1>1. /\ stopping' = TRUE /\ pending' = <<>> /\ retryTimers' = {}
      /\ UNCHANGED <<stack, dispatched, retries, states, executed, recovered,
                     activeBriefing, saved, asked, runs>>
  BY DEF StopDispatcher
<1>2. pending' \in Seq(Keys) /\ ToSet(pending') = {} /\ Distinct(pending')
  BY <1>1 DEF ToSet, Distinct
<1>3. DTypeOK'
  BY <1>1, <1>2 DEF DInv, DTypeOK
<1>4. Once'
  BY <1>1, <1>2 DEF DInv, Once
<1>5. Claims'
  <2> SUFFICES ASSUME NEW k \in Keys
               PROVE  /\ asked[k] <= Bit(k \in executed) + Bit(k \in recovered)
                      /\ runs[k] + Cardinality(HoldersIn(stack, k)) + Bit(k \in ToSet(pending'))
                           <= asked[k] + retries[k]
    BY <1>1 DEF Claims
  <2>1. Bit(k \in ToSet(pending')) = 0
    BY <1>2 DEF Bit
  <2> QED
    BY <2>1, ClaimOf
<1>6. Placed'
  BY <1>1 DEF DInv, Placed
<1> QED
  BY <1>3, <1>4, <1>5, <1>6 DEF DInv

\* The pipeline saves the result of the briefing on top.
LEMMA SaveDInv ==
    ASSUME DInv, Save, UNCHANGED connected PROVE DInv'
<1>1. Last(stack).key \in Keys
  BY Popped DEF Save
<1>2. saved' \subseteq Keys /\ activeBriefing' \in Keys \cup {NoBriefing}
  BY <1>1 DEF Save, DInv, DTypeOK
<1>3. UNCHANGED <<connected, stopping, stack, pending, dispatched, retries, retryTimers,
                  states, executed, recovered, asked, runs>>
  BY DEF Save
<1>4. /\ connected \in BOOLEAN /\ retryTimers \subseteq Keys /\ executed \subseteq Keys
      /\ recovered \subseteq Keys
  BY DEF DInv, DTypeOK
<1> QED
  BY <1>2, <1>3, <1>4, IdleDInv

\* Every step keeps the account.
LEMMA StepDInv == DInv /\ [DNext]_dvars => DInv'
<1> SUFFICES ASSUME DInv, [DNext]_dvars PROVE DInv'
  OBVIOUS
<1>1. CASE Triggered /\ UNCHANGED connected
  <2>1. PICK k \in Keys : Scheduled(k) \/ Recover(k) \/ RetryDue(k)
    BY <1>1 DEF Triggered
  <2> QED
    BY <1>1, <2>1, TakenUpDInv, RetryDueDInv
<1>2. CASE Reported /\ UNCHANGED connected
  BY <1>2, OnConnectionStateDInv DEF Reported
<1>3. CASE Save /\ UNCHANGED connected
  BY <1>3, SaveDInv
<1>4. CASE CallbackReturns /\ UNCHANGED connected
  BY <1>4, SucceedsDInv, FailsDInv DEF CallbackReturns
<1>5. CASE StopDispatcher /\ UNCHANGED connected
  BY <1>5, StopDispatcherDInv
<1>6. CASE ConnectionChanges \/ UNCHANGED dvars
  <2>1. /\ connected \in BOOLEAN /\ retryTimers \subseteq Keys /\ executed \subseteq Keys
        /\ recovered \subseteq Keys /\ saved \subseteq Keys
        /\ activeBriefing \in Keys \cup {NoBriefing}
    BY DEF DInv, DTypeOK
  <2>2. UNCHANGED ops /\ connected' \in BOOLEAN
    BY <1>6, <2>1 DEF ConnectionChanges, dvars
  <2>3. /\ UNCHANGED <<stopping, stack, pending, dispatched, retries, states, asked, runs>>
        /\ UNCHANGED <<retryTimers, executed, recovered, saved, activeBriefing>>
    BY <2>2 DEF ops
  <2> QED
    BY <2>1, <2>2, <2>3, IdleDInv
<1> QED
  BY <1>1, <1>2, <1>3, <1>4, <1>5, <1>6 DEF DNext

\* What the account says of a state is what the runs check.
LEMMA DInvImplies == DInv => RunsAccounted
<1> SUFFICES ASSUME DInv PROVE RunsAccounted
  OBVIOUS
<1>1. NeverReentered
  BY DEF DInv, Once, DistinctKeys, NeverReentered
<1>2. ASSUME NEW k \in Keys PROVE runs[k] <= asked[k] + retries[k] /\ asked[k] <= 2
  <2>1. /\ asked[k] \in Nat /\ runs[k] \in Nat /\ retries[k] \in Nat
        /\ Cardinality(HoldersIn(stack, k)) \in Nat
        /\ Bit(k \in ToSet(pending)) \in Nat
        /\ asked[k] <= Bit(k \in executed) + Bit(k \in recovered)
        /\ runs[k] + Cardinality(HoldersIn(stack, k)) + Bit(k \in ToSet(pending))
             <= asked[k] + retries[k]
    BY ClaimOf
  <2>2. Bit(k \in executed) <= 1 /\ Bit(k \in recovered) <= 1
        /\ Bit(k \in executed) \in Nat /\ Bit(k \in recovered) \in Nat
    BY DEF Bit
  <2> QED
    BY <2>1, <2>2
<1>3. StatesTold
  BY DEF DInv, Placed, StatesTold, Running, Snapshots, SnapshotsIn
<1> QED
  BY <1>1, <1>2, <1>3 DEF RunsAccounted, RunsBounded, DInv

\* For any set of briefings and any nesting of their loops, a briefing runs no
\* more often than it was taken up and once for its retry, is taken up at most
\* twice, never runs inside itself, and its state tells where its key is.
THEOREM RunsCounted == DSpec => []RunsAccounted
<1>1. DInit => DInv
  BY InitDInv
<1>2. DInv /\ [DNext]_dvars => DInv'
  BY StepDInv
<1>3. DInv => RunsAccounted
  BY DInvImplies
<1> QED
  BY <1>1, <1>2, <1>3, PTL DEF DSpec

-----------------------------------------------------------------------------
\* A list lets a briefing run only when it may.
LEMMA EnterRuns ==
    ASSUME NEW list \in Seq(Keys), NEW below, NEW done, NEW told, Enter(list, below, done, told),
           runs \in [Keys -> Nat], NEW c \in Keys, runs'[c] # runs[c]
    PROVE  c \in ToSet(list) /\ Runnable(c, below, done)
<1>1. CASE UNCHANGED runs
  BY <1>1
<1>2. CASE \E k \in Keys : /\ k \in ToSet(list) /\ Runnable(k, below, done)
                           /\ runs' = [runs EXCEPT ![k] = @ + 1]
  <2>1. PICK k \in Keys : /\ k \in ToSet(list) /\ Runnable(k, below, done)
                          /\ runs' = [runs EXCEPT ![k] = @ + 1]
    BY <1>2
  <2>2. c = k
    BY <2>1
  <2> QED
    BY <2>1, <2>2
<1>3. \/ UNCHANGED runs
      \/ \E k \in Keys : /\ k \in ToSet(list) /\ Runnable(k, below, done)
                         /\ runs' = [runs EXCEPT ![k] = @ + 1]
  BY EnterCases
<1> QED
  BY <1>1, <1>2, <1>3

\* Who starts a briefing: the pass over a snapshot, or a step that is online.
LEMMA StepRuns ==
    ASSUME DInv, DNext, NEW c \in Keys, runs'[c] # runs[c]
    PROVE  /\ ~stopping /\ c \notin dispatched
           /\ connected \/ (stack # <<>> /\ c \in ToSet(Last(stack).rest))
<1>1. runs \in [Keys -> Nat] /\ pending \in Seq(Keys)
  BY DEF DInv, DTypeOK
<1>2. ASSUME NEW k \in Keys, Dispatch(k)
      PROVE  ~stopping /\ c \notin dispatched /\ connected
  <2>1. connected /\ Enter(<<k>>, stack, dispatched, states)
    BY <1>2 DEF Dispatch
  <2>2. <<k>> \in Seq(Keys)
    BY Single
  <2>3. Runnable(c, stack, dispatched)
    BY <1>1, <2>1, <2>2, EnterRuns
  <2> QED
    BY <2>1, <2>3 DEF Runnable
<1>3. CASE Triggered
  <2>1. PICK k \in Keys : Scheduled(k) \/ Recover(k) \/ RetryDue(k)
    BY <1>3 DEF Triggered
  <2>2. CASE Scheduled(k) \/ Recover(k)
    <3>1. Dispatch(k)
      BY <2>2 DEF Scheduled, Recover
    <3> QED
      BY <1>2, <3>1
  <2>3. CASE RetryDue(k)
    <3>1. connected /\ Enter(<<k>>, stack, dispatched, states)
      BY <2>3 DEF RetryDue
    <3>2. <<k>> \in Seq(Keys)
      BY Single
    <3>3. Runnable(c, stack, dispatched)
      BY <1>1, <3>1, <3>2, EnterRuns
    <3>4. ~stopping /\ c \notin dispatched
      BY <3>3 DEF Runnable
    <3> QED
      BY <3>1, <3>4
  <2> QED
    BY <2>1, <2>2, <2>3
<1>4. CASE Reported
  <2>1. connected /\ Enter(pending, stack, dispatched, states)
    BY <1>4 DEF Reported, OnConnectionState
  <2>2. Runnable(c, stack, dispatched)
    BY <1>1, <2>1, EnterRuns
  <2>3. ~stopping /\ c \notin dispatched
    BY <2>2 DEF Runnable
  <2> QED
    BY <2>1, <2>3
<1>5. CASE CallbackReturns
  <2> DEFINE done == dispatched'
  <2>1. stack # <<>> /\ dispatched \subseteq done
        /\ \E told : GoOn(told, done)
    <3>1. CASE Succeeds
      BY <3>1 DEF Succeeds
    <3>2. CASE \E transient \in BOOLEAN : Fails(transient)
      <4>1. PICK transient \in BOOLEAN : Fails(transient)
        BY <3>2
      <4>2. stack # <<>> /\ dispatched' = dispatched
        BY <4>1 DEF Fails
      <4>3. \E told : GoOn(told, dispatched)
        BY <4>1 DEF Fails
      <4> QED
        BY <4>2, <4>3
    <3> QED
      BY <1>5, <3>1, <3>2 DEF CallbackReturns
  <2> HIDE DEF done
  <2>2. PICK told : GoOn(told, done)
    BY <2>1
  <2>3. Enter(Last(stack).rest, Front(stack), done, told)
    BY <2>2 DEF GoOn
  <2>4. Last(stack).rest \in Seq(Keys)
    BY <2>1, Popped
  <2>5. c \in ToSet(Last(stack).rest) /\ Runnable(c, Front(stack), done)
    BY <1>1, <2>3, <2>4, EnterRuns
  <2> QED
    BY <2>1, <2>5 DEF Runnable
<1>6. CASE Save \/ StopDispatcher \/ ConnectionChanges
  BY <1>6 DEF Save, StopDispatcher, ConnectionChanges, ops
<1> QED
  BY <1>3, <1>4, <1>5, <1>6 DEF DNext

\* For any set of briefings, none is started again after it has succeeded, none
\* after stop(), and none offline but behind another in a pass under way.
THEOREM NoneStartsInVain == DSpec => StartsWhenItMay
<1> DEFINE Due == \A k \in Keys : k \in dispatched \/ stopping => runs'[k] = runs[k]
           Behind == \A k \in Keys : runs'[k] # runs[k] /\ ~connected
                       => stack # <<>> /\ k \in ToSet(Last(stack).rest)
<1>1. DInit => DInv
  BY InitDInv
<1>2. DInv /\ [DNext]_dvars => DInv'
  BY StepDInv
<1>3. DInv /\ [DNext]_dvars => [Due]_dvars
  BY StepRuns
<1>4. DInv /\ [DNext]_dvars => [Behind]_dvars
  BY StepRuns
<1>5. DSpec => [][Due]_dvars
  BY <1>1, <1>2, <1>3, PTL DEF DSpec
<1>6. DSpec => [][Behind]_dvars
  BY <1>1, <1>2, <1>4, PTL DEF DSpec
<1> QED
  BY <1>5, <1>6 DEF StartsWhenItMay, NotRunAfterSuccess, OfflineOnlyBehind

-----------------------------------------------------------------------------
(***************************************************************************)
(* The storage.                                                            *)
(***************************************************************************)

\* The stages of one file within a save.
Untouched(f) == final[f] = before[f] /\ temp[f] = 0 /\ backup[f] = 0
Written(f)   == final[f] = before[f] /\ temp[f] = version /\ backup[f] = 0
BackedUp(f)  == final[f] = 0 /\ temp[f] = version /\ backup[f] = before[f]
Installed(f) == final[f] = version /\ temp[f] = 0 /\ backup[f] = before[f]

\* The stages of one file while the save is undone.
Restored(f) == final[f] = before[f] /\ backup[f] = 0
Dropped(f)  == Restored(f) \/ (final[f] = 0 /\ backup[f] = before[f])

\* The Markdown file is installed last, so undoing never finds it installed;
\* and it finds the JSON file installed only when the other is backed up.
HalfUndone ==
    /\ Dropped("md")
    /\ \/ Dropped("json")
       \/ /\ final["json"] = version /\ backup["json"] = before["json"]
          /\ final["md"] = 0 /\ backup["md"] = before["md"]

\* The three clauses, with what is left of each after every operation.
Saving6 == << <<"write", "json">>, <<"write", "md">>, <<"back_up", "json">>,
              <<"back_up", "md">>, <<"install", "json">>, <<"install", "md">> >>
Saving5 == << <<"write", "md">>, <<"back_up", "json">>,
              <<"back_up", "md">>, <<"install", "json">>, <<"install", "md">> >>
Saving4 == << <<"back_up", "json">>, <<"back_up", "md">>,
              <<"install", "json">>, <<"install", "md">> >>
Saving3 == << <<"back_up", "md">>, <<"install", "json">>, <<"install", "md">> >>
Saving2 == << <<"install", "json">>, <<"install", "md">> >>
Saving1 == << <<"install", "md">> >>
Undoing4 == << <<"drop", "json">>, <<"drop", "md">>,
               <<"restore", "json">>, <<"restore", "md">> >>
Undoing3 == << <<"drop", "md">>, <<"restore", "json">>, <<"restore", "md">> >>
Undoing2 == << <<"restore", "json">>, <<"restore", "md">> >>
Undoing1 == << <<"restore", "md">> >>
Tidying4 == << <<"unlink_temp", "json">>, <<"unlink_temp", "md">>,
               <<"unlink_backup", "json">>, <<"unlink_backup", "md">> >>
Tidying3 == << <<"unlink_temp", "md">>, <<"unlink_backup", "json">>, <<"unlink_backup", "md">> >>
Tidying2 == << <<"unlink_backup", "json">>, <<"unlink_backup", "md">> >>
Tidying1 == << <<"unlink_backup", "md">> >>
Leaving2 == << <<"unlink_temp", "json">>, <<"unlink_temp", "md">> >>
Leaving1 == << <<"unlink_temp", "md">> >>

\* How far the try clause has come, and what the files hold by then.
SaveStage ==
    mode = "saving" =>
        /\ fault = "none"
        /\ \/ todo = Saving6 /\ Untouched("json") /\ Untouched("md")
           \/ todo = Saving5 /\ Written("json") /\ Untouched("md")
           \/ todo = Saving4 /\ Written("json") /\ Written("md")
           \/ todo = Saving3 /\ BackedUp("json") /\ Written("md")
           \/ todo = Saving2 /\ BackedUp("json") /\ BackedUp("md")
           \/ todo = Saving1 /\ Installed("json") /\ BackedUp("md")

\* How far the except clause has come.
UndoStage ==
    mode = "undoing" =>
        /\ fault = "save"
        /\ \/ todo = Undoing4 /\ HalfUndone
           \/ todo = Undoing3 /\ Dropped("json") /\ Dropped("md")
           \/ todo = Undoing2 /\ Dropped("json") /\ Dropped("md")
           \/ todo = Undoing1 /\ Restored("json") /\ Dropped("md")

\* How far the finally clause has come, after a save that is complete or undone.
TidyStage ==
    mode = "tidying" /\ fault # "undo" =>
        /\ \/ fault = "none" /\ \A f \in Files : final[f] = version /\ temp[f] = 0
           \/ fault = "save" /\ Restored("json") /\ Restored("md")
        /\ \/ todo = Tidying4
           \/ todo = Tidying3 /\ temp["json"] = 0
           \/ todo = Tidying2 /\ temp["json"] = 0 /\ temp["md"] = 0
           \/ todo = Tidying1 /\ temp["json"] = 0 /\ temp["md"] = 0 /\ backup["json"] = 0

\* After one that could not be undone the backups are left alone.
LeaveStage ==
    mode = "tidying" /\ fault = "undo" => HalfUndone /\ todo \in {Leaving2, Leaving1}

\* The version that is saved is not complete and will not be, or not yet.
Unpublished == mode \in {"saving", "undoing"} \/ (mode = "tidying" /\ fault # "none")

\* Versions only grow, and a complete pair is the newest that ever was.
Versioned ==
    /\ best <= version
    /\ \A f \in Files : final[f] <= version
    /\ Pair # 0 => Pair = best
    /\ mode # "idle" => \A f \in Files : before[f] < version
    /\ Unpublished =>
        /\ best < version
        /\ before["json"] # 0 /\ before["md"] # 0 =>
               before["json"] = best /\ before["md"] = best

\* Until its own version is complete, a save takes away nothing that holds the
\* newest complete result: it is among the files it found and the old backups.
Preserved ==
    Unpublished /\ best # 0 =>
        \E v \in best .. version : \A f \in Files : v \in {before[f]} \cup attic[f]

SInv ==
    /\ STypeOK
    /\ SaveStage /\ UndoStage /\ TidyStage /\ LeaveStage
    /\ Versioned /\ Preserved
    /\ NoTornPair /\ ContentSurvives /\ RaiseChangesNothing /\ NothingLeftBehind

\* The clauses of the code are the tuples above.
LEMMA Plans ==
    /\ SavePlan = Saving6 /\ UndoPlan = Undoing4
    /\ TidyPlan(TRUE) = Tidying4 /\ TidyPlan(FALSE) = Leaving2
<1> DEFINE S == Operations \X Files
<1> HIDE DEF S
<1>1. ASSUME NEW a \in S, NEW b \in S, NEW c \in S, NEW d \in S
      PROVE  <<a, b>> \o <<c, d>> = <<a, b, c, d>>
  <2> DEFINE s == <<a, b>>
  <2> DEFINE t == <<c, d>>
  <2> DEFINE u == <<a, b, c, d>>
  <2>1. /\ s \in Seq(S) /\ Len(s) = 2 /\ s[1] = a /\ s[2] = b
        /\ t \in Seq(S) /\ Len(t) = 2 /\ t[1] = c /\ t[2] = d
        /\ u \in Seq(S) /\ Len(u) = 4 /\ u[1] = a /\ u[2] = b /\ u[3] = c /\ u[4] = d
    OBVIOUS
  <2> HIDE DEF s, t, u
  <2>2. /\ s \o t \in Seq(S) /\ Len(s \o t) = Len(s) + Len(t)
        /\ \A i \in 1 .. Len(s) + Len(t) :
               (s \o t)[i] = IF i <= Len(s) THEN s[i] ELSE t[i - Len(s)]
    BY <2>1, ConcatProperties
  <2>3. \A i \in 1 .. 4 : (s \o t)[i] = u[i]
    BY <2>1, <2>2
  <2>4. s \o t = u
    BY <2>1, <2>2, <2>3, SeqEqual
  <2> QED
    BY <2>4 DEF s, t, u
<1>2. ASSUME NEW a \in S, NEW b \in S, NEW c \in S, NEW d \in S, NEW e \in S, NEW f \in S
      PROVE  <<a, b, c, d>> \o <<e, f>> = <<a, b, c, d, e, f>>
  <2> DEFINE s == <<a, b, c, d>>
  <2> DEFINE t == <<e, f>>
  <2> DEFINE u == <<a, b, c, d, e, f>>
  <2>1. /\ s \in Seq(S) /\ Len(s) = 4 /\ s[1] = a /\ s[2] = b /\ s[3] = c /\ s[4] = d
        /\ t \in Seq(S) /\ Len(t) = 2 /\ t[1] = e /\ t[2] = f
        /\ u \in Seq(S) /\ Len(u) = 6 /\ u[1] = a /\ u[2] = b /\ u[3] = c /\ u[4] = d
        /\ u[5] = e /\ u[6] = f
    OBVIOUS
  <2> HIDE DEF s, t, u
  <2>2. /\ s \o t \in Seq(S) /\ Len(s \o t) = Len(s) + Len(t)
        /\ \A i \in 1 .. Len(s) + Len(t) :
               (s \o t)[i] = IF i <= Len(s) THEN s[i] ELSE t[i - Len(s)]
    BY <2>1, ConcatProperties
  <2>3. \A i \in 1 .. 6 : (s \o t)[i] = u[i]
    BY <2>1, <2>2
  <2>4. s \o t = u
    BY <2>1, <2>2, <2>3, SeqEqual
  <2> QED
    BY <2>4 DEF s, t, u
<1>3. \A op \in Operations : <<op, "json">> \in S /\ <<op, "md">> \in S
  BY DEF Files, S
<1>4. /\ "write" \in Operations /\ "back_up" \in Operations /\ "install" \in Operations
      /\ "drop" \in Operations /\ "restore" \in Operations
      /\ "unlink_temp" \in Operations /\ "unlink_backup" \in Operations
  BY DEF Operations
<1>5. \A op \in Operations : Both(op) = <<<<op, "json">>, <<op, "md">>>>
  BY DEF Both
<1>6. \A op \in Operations, other \in Operations :
          Both(op) \o Both(other) =
              << <<op, "json">>, <<op, "md">>, <<other, "json">>, <<other, "md">> >>
  <2> TAKE op \in Operations, other \in Operations
  <2>1. /\ <<op, "json">> \in S /\ <<op, "md">> \in S
        /\ <<other, "json">> \in S /\ <<other, "md">> \in S
    BY <1>3
  <2>2. << <<op, "json">>, <<op, "md">> >> \o << <<other, "json">>, <<other, "md">> >> =
            << <<op, "json">>, <<op, "md">>, <<other, "json">>, <<other, "md">> >>
    BY <2>1, <1>1
  <2> QED
    BY <2>2 DEF Both
<1>7. SavePlan = Saving6
  <2>1. SavePlan = << <<"write", "json">>, <<"write", "md">>, <<"back_up", "json">>, <<"back_up", "md">> >>
                   \o << <<"install", "json">>, <<"install", "md">> >>
    BY <1>4, <1>5, <1>6, Zenon DEF SavePlan
  <2>2. /\ <<"write", "json">> \in S /\ <<"write", "md">> \in S
        /\ <<"back_up", "json">> \in S /\ <<"back_up", "md">> \in S
        /\ <<"install", "json">> \in S /\ <<"install", "md">> \in S
    BY <1>3, <1>4
  <2> QED
    BY <2>1, <2>2, <1>2 DEF Saving6
<1>8. UndoPlan = Undoing4
  BY <1>4, <1>6, Zenon DEF UndoPlan, Undoing4
<1>9. TidyPlan(TRUE) = Tidying4
  BY <1>4, <1>6, Zenon DEF TidyPlan, Tidying4
<1>10. TidyPlan(FALSE) = Leaving2
  <2>1. Leaving2 \in Seq(S)
    BY <1>3, <1>4 DEF Leaving2
  <2>2. TidyPlan(FALSE) = Leaving2 \o <<>>
    BY <1>4, <1>5, Zenon DEF TidyPlan, Leaving2
  <2> QED
    BY <2>1, <2>2, ConcatEmptySeq
<1> QED
  BY <1>7, <1>8, <1>9, <1>10

\* An initial state is idle and empty.
LEMMA InitSInv == SInit => SInv
  BY StorageAssumption DEF SInit, SInv, STypeOK, Versions, NoFiles, Files, Operations, SaveStage,
     UndoStage, TidyStage, LeaveStage, Versioned, Preserved, Unpublished, Pair, NoTornPair,
     ContentSurvives, RaiseChangesNothing, NothingLeftBehind
\* The step to the next version leaves the disk alone.
LEMMA BeginSInv == SInv /\ BeginSave => SInv'
<1> SUFFICES ASSUME SInv, BeginSave PROVE SInv'
  OBVIOUS
<1> USE StorageAssumption DEF SInv, STypeOK, Versions, Files, BeginSave, NoFiles
<1>1. STypeOK'
  BY Plans DEF Saving6, Operations, Abandoned
<1>2. SaveStage' /\ UndoStage' /\ TidyStage' /\ LeaveStage'
  BY Plans DEF SaveStage, UndoStage, TidyStage, LeaveStage, Untouched
<1>3. Versioned'
  BY DEF Versioned, Unpublished, Pair, NoTornPair
<1>4. Preserved' /\ ContentSurvives'
  BY DEF Preserved, ContentSurvives, Abandoned
<1>5. NoTornPair' /\ RaiseChangesNothing' /\ NothingLeftBehind'
  BY DEF NoTornPair, RaiseChangesNothing, NothingLeftBehind
<1> QED
  BY <1>1, <1>2, <1>3, <1>4, <1>5
\* What each operation does to the disk.
LEMMA Effects ==
    ASSUME NEW f
    PROVE  /\ Perform("write", f) =>
                  temp' = [temp EXCEPT ![f] = version] /\ UNCHANGED <<final, backup>>
           /\ Perform("back_up", f) =>
                  /\ backup' = [backup EXCEPT ![f] = final[f]]
                  /\ final' = [final EXCEPT ![f] = 0]
                  /\ UNCHANGED temp
           /\ Perform("install", f) =>
                  /\ final' = [final EXCEPT ![f] = temp[f]]
                  /\ temp' = [temp EXCEPT ![f] = 0]
                  /\ UNCHANGED backup
           /\ Perform("drop", f) =>
                  /\ final' = [final EXCEPT ![f] = IF @ = version THEN 0 ELSE @]
                  /\ UNCHANGED <<temp, backup>>
           /\ Perform("restore", f) =>
                  /\ final' = [final EXCEPT ![f] = IF backup[f] = 0 THEN @ ELSE backup[f]]
                  /\ backup' = [backup EXCEPT ![f] = 0]
                  /\ UNCHANGED temp
           /\ Perform("unlink_temp", f) =>
                  temp' = [temp EXCEPT ![f] = 0] /\ UNCHANGED <<final, backup>>
           /\ Perform("unlink_backup", f) =>
                  backup' = [backup EXCEPT ![f] = 0] /\ UNCHANGED <<final, temp>>
  BY DEF Perform

\* The order of the operations.
LEMMA Order ==
    ASSUME mode # "idle", NextOperation
    PROVE  /\ todo = Saving6 => Perform("write", "json") /\ todo' = Saving5 /\ mode' = mode
           /\ todo = Saving5 => Perform("write", "md") /\ todo' = Saving4 /\ mode' = mode
           /\ todo = Saving4 => Perform("back_up", "json") /\ todo' = Saving3 /\ mode' = mode
           /\ todo = Saving3 => Perform("back_up", "md") /\ todo' = Saving2 /\ mode' = mode
           /\ todo = Saving2 => Perform("install", "json") /\ todo' = Saving1 /\ mode' = mode
           /\ todo = Saving1 => Perform("install", "md")
           /\ todo = Undoing4 => Perform("drop", "json") /\ todo' = Undoing3 /\ mode' = mode
           /\ todo = Undoing3 => Perform("drop", "md") /\ todo' = Undoing2 /\ mode' = mode
           /\ todo = Undoing2 => Perform("restore", "json") /\ todo' = Undoing1 /\ mode' = mode
           /\ todo = Undoing1 => Perform("restore", "md")
           /\ todo = Tidying4 => Perform("unlink_temp", "json") /\ todo' = Tidying3 /\ mode' = mode
           /\ todo = Tidying3 => Perform("unlink_temp", "md") /\ todo' = Tidying2 /\ mode' = mode
           /\ todo = Tidying2 => Perform("unlink_backup", "json") /\ todo' = Tidying1 /\ mode' = mode
           /\ todo = Tidying1 => Perform("unlink_backup", "md")
           /\ todo = Leaving2 => Perform("unlink_temp", "json") /\ todo' = Leaving1 /\ mode' = mode
           /\ todo = Leaving1 => Perform("unlink_temp", "md")
           /\ todo \in {Saving1, Undoing1} /\ mode # "tidying" =>
                  mode' = "tidying" /\ todo' = Tidying4
           /\ todo \in {Tidying1, Leaving1} /\ mode = "tidying" => mode' = "idle" /\ todo' = <<>>
<1>1. todo = Saving6 => Perform("write", "json") /\ todo' = Saving5 /\ mode' = mode
  BY DEF NextOperation, Saving6, Saving5
<1>2. todo = Saving5 => Perform("write", "md") /\ todo' = Saving4 /\ mode' = mode
  BY DEF NextOperation, Saving5, Saving4
<1>3. todo = Saving4 => Perform("back_up", "json") /\ todo' = Saving3 /\ mode' = mode
  BY DEF NextOperation, Saving4, Saving3
<1>4. todo = Saving3 => Perform("back_up", "md") /\ todo' = Saving2 /\ mode' = mode
  BY DEF NextOperation, Saving3, Saving2
<1>5. todo = Saving2 => Perform("install", "json") /\ todo' = Saving1 /\ mode' = mode
  BY DEF NextOperation, Saving2, Saving1
<1>6. todo = Undoing4 => Perform("drop", "json") /\ todo' = Undoing3 /\ mode' = mode
  BY DEF NextOperation, Undoing4, Undoing3
<1>7. todo = Undoing3 => Perform("drop", "md") /\ todo' = Undoing2 /\ mode' = mode
  BY DEF NextOperation, Undoing3, Undoing2
<1>8. todo = Undoing2 => Perform("restore", "json") /\ todo' = Undoing1 /\ mode' = mode
  BY DEF NextOperation, Undoing2, Undoing1
<1>9. todo = Tidying4 => Perform("unlink_temp", "json") /\ todo' = Tidying3 /\ mode' = mode
  BY DEF NextOperation, Tidying4, Tidying3
<1>10. todo = Tidying3 => Perform("unlink_temp", "md") /\ todo' = Tidying2 /\ mode' = mode
  BY DEF NextOperation, Tidying3, Tidying2
<1>11. todo = Tidying2 => Perform("unlink_backup", "json") /\ todo' = Tidying1 /\ mode' = mode
  BY DEF NextOperation, Tidying2, Tidying1
<1>12. todo = Leaving2 => Perform("unlink_temp", "json") /\ todo' = Leaving1 /\ mode' = mode
  BY DEF NextOperation, Leaving2, Leaving1
<1>13. todo = Saving1 =>
          /\ Perform("install", "md")
          /\ mode # "tidying" => mode' = "tidying" /\ todo' = Tidying4
  <2> HAVE todo = Saving1
  <2>1. ~ (Len(todo) > 1) /\ todo[1][1] = "install" /\ todo[1][2] = "md"
    BY DEF Saving1
  <2> QED
    BY <2>1, Plans, Zenon DEF NextOperation
<1>14. todo = Undoing1 =>
          /\ Perform("restore", "md")
          /\ mode # "tidying" => mode' = "tidying" /\ todo' = Tidying4
  <2> HAVE todo = Undoing1
  <2>1. ~ (Len(todo) > 1) /\ todo[1][1] = "restore" /\ todo[1][2] = "md"
    BY DEF Undoing1
  <2> QED
    BY <2>1, Plans, Zenon DEF NextOperation
<1>15. todo = Tidying1 =>
          /\ Perform("unlink_backup", "md")
          /\ mode = "tidying" => mode' = "idle" /\ todo' = <<>>
  <2> HAVE todo = Tidying1
  <2>1. ~ (Len(todo) > 1) /\ todo[1][1] = "unlink_backup" /\ todo[1][2] = "md"
    BY DEF Tidying1
  <2> QED
    BY <2>1, Zenon DEF NextOperation
<1>16. todo = Leaving1 =>
          /\ Perform("unlink_temp", "md")
          /\ mode = "tidying" => mode' = "idle" /\ todo' = <<>>
  <2> HAVE todo = Leaving1
  <2>1. ~ (Len(todo) > 1) /\ todo[1][1] = "unlink_temp" /\ todo[1][2] = "md"
    BY DEF Leaving1
  <2> QED
    BY <2>1, Zenon DEF NextOperation
<1> QED
  BY <1>1, <1>2, <1>3, <1>4, <1>5, <1>6, <1>7, <1>8, <1>9, <1>10, <1>11, <1>12, <1>13, <1>14, <1>15, <1>16
\* The plans and what is left of them are sequences of operations.
LEMMA PlanTypes ==
    {Saving6, Saving5, Saving4, Saving3, Saving2, Saving1,
     Undoing4, Undoing3, Undoing2, Undoing1, Tidying4, Tidying3, Tidying2, Tidying1,
     Leaving2, Leaving1, <<>>} \subseteq Seq(Operations \X Files)
<1>1. {Saving6, Saving5, Saving4, Saving3, Saving2, Saving1} \subseteq Seq(Operations \X Files)
  BY DEF Operations, Files, Saving6, Saving5, Saving4, Saving3, Saving2, Saving1
<1>2. {Undoing4, Undoing3, Undoing2, Undoing1} \subseteq Seq(Operations \X Files)
  BY DEF Operations, Files, Undoing4, Undoing3, Undoing2, Undoing1
<1>3. {Tidying4, Tidying3, Tidying2, Tidying1} \subseteq Seq(Operations \X Files)
  BY DEF Operations, Files, Tidying4, Tidying3, Tidying2, Tidying1
<1>4. {Leaving2, Leaving1, <<>>} \subseteq Seq(Operations \X Files)
  BY DEF Operations, Files, Leaving2, Leaving1
<1> QED
  BY <1>1, <1>2, <1>3, <1>4

\* An operation keeps the types of the files.
LEMMA PerformTypes ==
    ASSUME STypeOK, NEW op, NEW f \in Files, Perform(op, f)
    PROVE  /\ final' \in [Files -> Versions]
           /\ temp' \in [Files -> Versions]
           /\ backup' \in [Files -> Versions]
           /\ Pair' \in Versions
<1>1. 0 \in Versions
  BY StorageAssumption DEF Versions
<1>2. final' \in [Files -> Versions]
  BY <1>1 DEF STypeOK, Perform
<1>3. temp' \in [Files -> Versions]
  BY <1>1 DEF STypeOK, Perform
<1>4. backup' \in [Files -> Versions]
  BY <1>1 DEF STypeOK, Perform
<1>5. Pair' \in Versions
  BY <1>1, <1>2 DEF Pair, Files
<1> QED
  BY <1>2, <1>3, <1>4, <1>5

\* Every operation of the try clause keeps the invariant.
LEMMA SavingSInv == SInv /\ mode = "saving" /\ NextOperation => SInv'
<1> SUFFICES ASSUME SInv, mode = "saving", NextOperation PROVE SInv'
  OBVIOUS
<1>1. /\ UNCHANGED <<attic, version, before, fault>>
      /\ best' = IF Pair' > best THEN Pair' ELSE best
  BY DEF NextOperation
<1>2. SaveStage /\ fault = "none" /\ STypeOK /\ Versioned /\ Preserved /\ NoTornPair
  BY DEF SInv, SaveStage
<1>3. \/ /\ todo = Saving6 /\ Untouched("json") /\ Untouched("md")
         /\ Perform("write", "json") /\ mode' = "saving" /\ todo' = Saving5
         /\ Written("json")' /\ Untouched("md")'
      \/ /\ todo = Saving5 /\ Written("json") /\ Untouched("md")
         /\ Perform("write", "md") /\ mode' = "saving" /\ todo' = Saving4
         /\ Written("json")' /\ Written("md")'
      \/ /\ todo = Saving4 /\ Written("json") /\ Written("md")
         /\ Perform("back_up", "json") /\ mode' = "saving" /\ todo' = Saving3
         /\ BackedUp("json")' /\ Written("md")'
      \/ /\ todo = Saving3 /\ BackedUp("json") /\ Written("md")
         /\ Perform("back_up", "md") /\ mode' = "saving" /\ todo' = Saving2
         /\ BackedUp("json")' /\ BackedUp("md")'
      \/ /\ todo = Saving2 /\ BackedUp("json") /\ BackedUp("md")
         /\ Perform("install", "json") /\ mode' = "saving" /\ todo' = Saving1
         /\ Installed("json")' /\ BackedUp("md")'
      \/ /\ todo = Saving1 /\ Installed("json") /\ BackedUp("md")
         /\ Perform("install", "md") /\ mode' = "tidying" /\ todo' = Tidying4
         /\ Installed("json")' /\ Installed("md")'
  BY <1>1, <1>2, Order, Effects DEF SaveStage, STypeOK, Files, Untouched, Written, BackedUp, Installed
<1>4. STypeOK'
  BY <1>1, <1>2, <1>3, PerformTypes, PlanTypes DEF STypeOK, Files
<1>5. SaveStage' /\ UndoStage' /\ TidyStage' /\ LeaveStage'
  BY <1>1, <1>2, <1>3 DEF SaveStage, UndoStage, TidyStage, LeaveStage, Files, Installed
<1> USE DEF Untouched, Written, BackedUp, Installed, Files, Versions, Pair, STypeOK
<1>6. Versioned' /\ NoTornPair'
  BY <1>1, <1>2, <1>3 DEF Versioned, NoTornPair, Unpublished
<1>7. Preserved' /\ ContentSurvives'
  BY <1>1, <1>2, <1>3, <1>6 DEF Preserved, ContentSurvives, Unpublished, Versioned
<1>8. RaiseChangesNothing' /\ NothingLeftBehind'
  BY <1>3 DEF RaiseChangesNothing, NothingLeftBehind
<1> QED
  BY <1>4, <1>5, <1>6, <1>7, <1>8 DEF SInv
\* Every operation of the except clause keeps the invariant.
LEMMA UndoingSInv == SInv /\ mode = "undoing" /\ NextOperation => SInv'
<1> SUFFICES ASSUME SInv, mode = "undoing", NextOperation PROVE SInv'
  OBVIOUS
<1>1. /\ UNCHANGED <<attic, version, before, fault>>
      /\ best' = IF Pair' > best THEN Pair' ELSE best
  BY DEF NextOperation
<1>2. UndoStage /\ fault = "save" /\ STypeOK /\ Versioned /\ Preserved /\ NoTornPair
  BY DEF SInv, UndoStage
<1>3. \/ /\ todo = Undoing4 /\ HalfUndone
         /\ Perform("drop", "json") /\ mode' = "undoing" /\ todo' = Undoing3
         /\ Dropped("json")' /\ Dropped("md")'
      \/ /\ todo = Undoing3 /\ Dropped("json") /\ Dropped("md")
         /\ Perform("drop", "md") /\ mode' = "undoing" /\ todo' = Undoing2
         /\ Dropped("json")' /\ Dropped("md")'
      \/ /\ todo = Undoing2 /\ Dropped("json") /\ Dropped("md")
         /\ Perform("restore", "json") /\ mode' = "undoing" /\ todo' = Undoing1
         /\ Restored("json")' /\ Dropped("md")'
      \/ /\ todo = Undoing1 /\ Restored("json") /\ Dropped("md")
         /\ Perform("restore", "md") /\ mode' = "tidying" /\ todo' = Tidying4
         /\ Restored("json")' /\ Restored("md")'
  BY <1>1, <1>2, Order, Effects
     DEF UndoStage, STypeOK, Files, HalfUndone, Dropped, Restored, Versioned, Unpublished, Versions
<1>4. STypeOK'
  BY <1>1, <1>2, <1>3, PerformTypes, PlanTypes DEF STypeOK, Files
<1>5. SaveStage' /\ UndoStage' /\ TidyStage' /\ LeaveStage'
  BY <1>1, <1>2, <1>3 DEF SaveStage, UndoStage, TidyStage, LeaveStage
<1> USE DEF Dropped, Restored, Files, Versions, Pair, STypeOK
<1>6. Versioned' /\ NoTornPair'
  BY <1>1, <1>2, <1>3 DEF Versioned, NoTornPair, Unpublished
<1>7. Preserved' /\ ContentSurvives'
  BY <1>1, <1>2, <1>3, <1>6 DEF Preserved, ContentSurvives, Unpublished, Versioned
<1>8. RaiseChangesNothing' /\ NothingLeftBehind'
  BY <1>3 DEF RaiseChangesNothing, NothingLeftBehind
<1> QED
  BY <1>4, <1>5, <1>6, <1>7, <1>8 DEF SInv

\* Every operation of the finally clause keeps the invariant, whatever came before.
LEMMA TidyingSInv == SInv /\ mode = "tidying" /\ NextOperation => SInv'
<1> SUFFICES ASSUME SInv, mode = "tidying", NextOperation PROVE SInv'
  OBVIOUS
<1>1. /\ UNCHANGED <<attic, version, before, fault>>
      /\ best' = IF Pair' > best THEN Pair' ELSE best
  BY DEF NextOperation
<1>2. TidyStage /\ LeaveStage /\ STypeOK /\ Versioned /\ Preserved /\ NoTornPair /\ ContentSurvives
  BY DEF SInv
<1>3. \/ /\ todo = Tidying4 /\ fault # "undo"
         /\ Perform("unlink_temp", "json") /\ mode' = "tidying" /\ todo' = Tidying3
         /\ temp'["json"] = 0
      \/ /\ todo = Tidying3 /\ fault # "undo"
         /\ Perform("unlink_temp", "md") /\ mode' = "tidying" /\ todo' = Tidying2
         /\ temp'["json"] = 0 /\ temp'["md"] = 0
      \/ /\ todo = Tidying2 /\ fault # "undo"
         /\ Perform("unlink_backup", "json") /\ mode' = "tidying" /\ todo' = Tidying1
         /\ temp'["json"] = 0 /\ temp'["md"] = 0 /\ backup'["json"] = 0
      \/ /\ todo = Tidying1 /\ fault # "undo"
         /\ Perform("unlink_backup", "md") /\ mode' = "idle" /\ todo' = <<>>
         /\ temp'["json"] = 0 /\ temp'["md"] = 0 /\ backup'["json"] = 0 /\ backup'["md"] = 0
      \/ /\ todo = Leaving2 /\ fault = "undo"
         /\ Perform("unlink_temp", "json") /\ mode' = "tidying" /\ todo' = Leaving1
      \/ /\ todo = Leaving1 /\ fault = "undo"
         /\ Perform("unlink_temp", "md") /\ mode' = "idle" /\ todo' = <<>>
  BY <1>1, <1>2, Order, Effects DEF TidyStage, LeaveStage, STypeOK, Files
<1>4. STypeOK'
  BY <1>1, <1>2, <1>3, PerformTypes, PlanTypes DEF STypeOK, Files
<1>5. final' = final /\ best' = best
  BY <1>1, <1>2, <1>3, Effects DEF Versioned, Pair, STypeOK, Versions, Files
<1>6. fault # "undo" =>
          \/ fault = "none" /\ \A f \in Files : final'[f] = version' /\ temp'[f] = 0
          \/ fault = "save" /\ Restored("json")' /\ Restored("md")'
  BY <1>1, <1>2, <1>3, <1>5, Effects DEF TidyStage, Restored, STypeOK, Files
<1>7. fault = "undo" => HalfUndone' /\ backup' = backup
  BY <1>1, <1>2, <1>3, <1>5, Effects DEF LeaveStage, HalfUndone, Dropped, Restored
<1>8. SaveStage' /\ UndoStage' /\ TidyStage' /\ LeaveStage'
  BY <1>1, <1>2, <1>3, <1>6, <1>7 DEF SaveStage, UndoStage, TidyStage, LeaveStage
<1>9. Versioned' /\ NoTornPair'
  BY <1>1, <1>2, <1>3, <1>5 DEF Versioned, NoTornPair, Unpublished, Pair
<1>10. Preserved' /\ ContentSurvives'
  BY <1>1, <1>2, <1>3, <1>5, <1>6, <1>7
     DEF Preserved, ContentSurvives, Unpublished, Versioned, HalfUndone, Dropped, Restored,
         TidyStage, LeaveStage, STypeOK, Versions, Files
<1>11. RaiseChangesNothing' /\ NothingLeftBehind'
  BY <1>1, <1>3, <1>4, <1>6 DEF RaiseChangesNothing, NothingLeftBehind, Restored, STypeOK, Files, NoFiles
<1> QED
  BY <1>4, <1>8, <1>9, <1>10, <1>11 DEF SInv

\* An error in any clause keeps the invariant.
LEMMA RaiseSInv == SInv /\ Raise => SInv'
<1> SUFFICES ASSUME SInv, Raise PROVE SInv'
  OBVIOUS
<1>1. UNCHANGED <<final, temp, backup, attic, version, before, best>>
  BY DEF Raise
<1>2. \/ mode = "saving" /\ mode' = "undoing" /\ todo' = Undoing4 /\ fault' = "save"
      \/ mode = "undoing" /\ mode' = "tidying" /\ todo' = Leaving2 /\ fault' = "undo"
      \/ mode = "tidying" /\ mode' = "idle" /\ todo' = <<>> /\ fault' = "tidy"
  BY Plans DEF Raise
<1> USE DEF SInv
<1>3. STypeOK'
  BY <1>1, <1>2, PlanTypes DEF STypeOK
<1>4. mode \in {"saving", "undoing"} => HalfUndone
  BY DEF SaveStage, UndoStage, HalfUndone, Dropped, Restored, Untouched, Written, BackedUp, Installed
<1>5. SaveStage' /\ UndoStage' /\ TidyStage' /\ LeaveStage'
  BY <1>1, <1>2, <1>4 DEF SaveStage, UndoStage, TidyStage, LeaveStage, HalfUndone, Dropped, Restored
<1>6. Versioned' /\ NoTornPair'
  BY <1>1, <1>2 DEF Versioned, NoTornPair, Unpublished, Pair
<1>7. Preserved' /\ ContentSurvives'
  BY <1>1, <1>2 DEF Preserved, ContentSurvives, Unpublished
<1>8. RaiseChangesNothing' /\ NothingLeftBehind'
  BY <1>2 DEF RaiseChangesNothing, NothingLeftBehind
<1> QED
  BY <1>3, <1>5, <1>6, <1>7, <1>8

\* The end of the process at any point keeps the invariant.
LEMMA CrashSInv == SInv /\ Crash => SInv'
  BY PlanTypes DEF SInv, Crash, STypeOK, SaveStage, UndoStage, TidyStage, LeaveStage, Versioned, Unpublished,
     Pair, Preserved, NoTornPair, ContentSurvives, RaiseChangesNothing, NothingLeftBehind

\* Every step keeps the invariant.
LEMMA StepSInv == SInv /\ [SNext]_svars => SInv'
<1> SUFFICES ASSUME SInv, [SNext]_svars PROVE SInv'
  OBVIOUS
<1>1. CASE BeginSave
  BY <1>1, BeginSInv
<1>2. CASE NextOperation
  BY <1>2, SavingSInv, UndoingSInv, TidyingSInv DEF NextOperation, SInv, STypeOK
<1>3. CASE Raise
  BY <1>3, RaiseSInv
<1>4. CASE Crash
  BY <1>4, CrashSInv
<1>5. CASE UNCHANGED svars
  BY <1>5 DEF svars, SInv, STypeOK, SaveStage, UndoStage, TidyStage, LeaveStage, Versioned,
     Unpublished, Pair, Preserved, NoTornPair, ContentSurvives, RaiseChangesNothing,
     NothingLeftBehind, Untouched, Written, BackedUp, Installed, Dropped, Restored, HalfUndone
<1> QED
  BY <1>1, <1>2, <1>3, <1>4, <1>5 DEF SNext

\* What a reader and a restarted process find: never half of one result and half
\* of another, never less than the newest complete result in place or in a
\* backup, and after a save that raised or ended what was there before or is new.
THEOREM DiskKept == SSpec => []DiskSound
<1>1. SInv => DiskSound
  BY DEF SInv, DiskSound
<1> QED
  BY <1>1, InitSInv, StepSInv, PTL DEF SSpec
\* A step of the save is a step of the register, or the readers do not see it.
LEMMA StepRegister == SInv /\ [SNext]_svars => [Register!Next]_<<Pair, best>>
<1> SUFFICES ASSUME SInv, [SNext]_svars, UNCHANGED <<Pair, best>> => FALSE
             PROVE  Register!Next
  BY DEF Register!Next
<1>1. NextOperation
  BY DEF SNext, svars, BeginSave, Raise, Crash, Pair
<1>2. /\ UNCHANGED <<attic, version, before, fault>>
      /\ best' = IF Pair' > best THEN Pair' ELSE best
      /\ mode \in {"saving", "undoing", "tidying"}
  BY <1>1 DEF NextOperation, SInv, STypeOK
<1> USE DEF STypeOK, Files, Versions, Pair
<1>3. CASE mode = "saving"
  <2>1. \/ todo = Saving6 \/ todo = Saving5
        \/ todo = Saving4 /\ Written("json") /\ Written("md")
        \/ todo = Saving3 /\ BackedUp("json") /\ Written("md")
        \/ todo = Saving2 /\ BackedUp("json") /\ BackedUp("md")
        \/ todo = Saving1 /\ Installed("json") /\ BackedUp("md")
    BY <1>3 DEF SInv, SaveStage
  <2>2. CASE todo = Saving6 \/ todo = Saving5
    BY <1>1, <1>2, <1>3, <2>2, Order, Effects DEF SInv, Versioned
  <2>3. CASE todo = Saving4 /\ Written("json") /\ Written("md")
    <3>1. final' = [final EXCEPT !["json"] = 0]
      BY <1>1, <1>3, <2>3, Order, Effects
    <3>2. Pair # 0 /\ Pair' = 0 /\ best' = best
      BY <1>2, <3>1 DEF SInv, Versioned
    <3> QED
      BY <3>2 DEF Register!Next, Register!Withdraw
  <2>4. CASE todo = Saving3 /\ BackedUp("json") /\ Written("md")
    <3>1. final' = [final EXCEPT !["md"] = 0]
      BY <1>1, <1>3, <2>4, Order, Effects
    <3> QED
      BY <1>2, <2>4, <3>1 DEF SInv, Versioned, BackedUp
  <2>5. CASE todo = Saving2 /\ BackedUp("json") /\ BackedUp("md")
    <3>1. final' = [final EXCEPT !["json"] = temp["json"]]
      BY <1>1, <1>3, <2>5, Order, Effects
    <3> QED
      BY <1>2, <2>5, <3>1 DEF SInv, Versioned, BackedUp
  <2>6. CASE todo = Saving1 /\ Installed("json") /\ BackedUp("md")
    <3>1. final' = [final EXCEPT !["md"] = temp["md"]]
      BY <1>1, <1>3, <2>6, Order, Effects
    <3>2. best < version
      BY <1>3 DEF SInv, Versioned, Unpublished
    <3>3. Pair = 0 /\ Pair' = version /\ best' = version /\ version \in 1 .. MaxVersion
      BY <1>2, <2>6, <3>1, <3>2 DEF SInv, Installed, BackedUp
    <3>4. Register!Publish(version)
      BY <3>2, <3>3 DEF Register!Publish
    <3> QED
      BY <3>3, <3>4 DEF Register!Next
  <2> QED
    BY <2>1, <2>2, <2>3, <2>4, <2>5, <2>6
<1>4. CASE mode = "undoing"
  <2>1. \/ todo = Undoing4 /\ HalfUndone
        \/ todo = Undoing3 /\ Dropped("json") /\ Dropped("md")
        \/ todo = Undoing2 /\ Dropped("json") /\ Dropped("md")
        \/ todo = Undoing1 /\ Restored("json") /\ Dropped("md")
    BY <1>4 DEF SInv, UndoStage
  <2>2. /\ \A f \in Files : before[f] < version
        /\ before["json"] # 0 /\ before["md"] # 0 =>
               before["json"] = best /\ before["md"] = best
    BY <1>4 DEF SInv, Versioned, Unpublished
  <2>3. CASE todo = Undoing4 /\ HalfUndone
    <3>1. final' = [final EXCEPT !["json"] = IF @ = version THEN 0 ELSE @]
      BY <1>1, <1>4, <2>3, Order, Effects
    <3> QED
      BY <1>2, <2>2, <2>3, <3>1 DEF SInv, Versioned, HalfUndone, Dropped, Restored
  <2>4. CASE todo = Undoing3 /\ Dropped("json") /\ Dropped("md")
    <3>1. final' = [final EXCEPT !["md"] = IF @ = version THEN 0 ELSE @]
      BY <1>1, <1>4, <2>4, Order, Effects
    <3> QED
      BY <1>2, <2>2, <2>4, <3>1 DEF SInv, Versioned, Dropped, Restored
  <2>5. CASE todo = Undoing2 /\ Dropped("json") /\ Dropped("md")
    <3>1. final' = [final EXCEPT !["json"] = IF backup["json"] = 0 THEN @ ELSE backup["json"]]
      BY <1>1, <1>4, <2>5, Order, Effects
    <3>2. Pair = 0 /\ best # 0 /\ Pair' = best /\ best' = best
      BY <1>2, <2>2, <2>5, <3>1 DEF SInv, Versioned, Dropped, Restored
    <3> QED
      BY <3>2 DEF Register!Next, Register!Restore
  <2>6. CASE todo = Undoing1 /\ Restored("json") /\ Dropped("md")
    <3>1. final' = [final EXCEPT !["md"] = IF backup["md"] = 0 THEN @ ELSE backup["md"]]
      BY <1>1, <1>4, <2>6, Order, Effects
    <3>2. Pair = 0 /\ best # 0 /\ Pair' = best /\ best' = best
      BY <1>2, <2>2, <2>6, <3>1 DEF SInv, Versioned, Dropped, Restored
    <3> QED
      BY <3>2 DEF Register!Next, Register!Restore
  <2> QED
    BY <2>1, <2>3, <2>4, <2>5, <2>6
<1>5. CASE mode = "tidying"
  <2>1. todo \in {Tidying4, Tidying3, Tidying2, Tidying1, Leaving2, Leaving1}
    BY <1>5 DEF SInv, TidyStage, LeaveStage
  <2>2. UNCHANGED final
    BY <1>1, <1>5, <2>1, Order, Effects
  <2> QED
    BY <1>2, <2>2 DEF SInv, Versioned
<1> QED
  BY <1>2, <1>3, <1>4, <1>5

\* For its readers a result of _save_paths is the register: a complete version or
\* none at any moment, and never one older than they have seen, through every
\* error, every undoing and every restart.
THEOREM RegisterImplemented == SSpec => ImplementsRegister
<1>1. SInit => Register!Init
  BY DEF SInit, Register!Init, Pair, NoFiles, Files
<1> QED
  BY <1>1, InitSInv, StepSInv, StepRegister, PTL DEF SSpec, ImplementsRegister, Register!Spec
=============================================================================
