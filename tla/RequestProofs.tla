--------------------------- MODULE RequestProofs ---------------------------
(***************************************************************************)
(* What becomes of the requests for data: in the queue that sends them to  *)
(* the server, and in the session that makes them for all stocks.          *)
(*                                                                         *)
(* The argument about the queue is the order of submission, for any        *)
(* requests, retry delays, pool of screens and length of the timers.  The  *)
(* queue is a suffix of the list of submitted requests, the active request *)
(* is the one before that suffix, and exactly those before it have been    *)
(* answered; so whatever ends the active request may answer it, and start  *)
(* the next.                                                               *)
(*                                                                         *)
(* The property of a session is about the checkpoint on disk, for every    *)
(* size of the universe, every limit, any number of invocations and of     *)
(* damages; what makes it inductive is what the invocation under way holds *)
(* in memory, for that is what the next checkpoint, or SIGINT at any step, *)
(* will write: that memory has lost nothing of the disk (Kept) and has     *)
(* artifacts for what it lists (Backed).                                   *)
(***************************************************************************)
EXTENDS TrRequestQueue, CollectionSession, SequenceTheorems, FiniteSetTheorems, WellFoundedInduction,
        TLAPS

-----------------------------------------------------------------------------
(***************************************************************************)
(* The TR request queue.                                                   *)
(***************************************************************************)

\* The requests that have been taken from the queue, in the order of submit().
Started == Len(submitted) - Len(pending)

\* The queue and the active request are the end of what was submitted.
Ordered ==
    /\ \A i, j \in DOMAIN submitted : submitted[i] = submitted[j] => i = j
    /\ ~closed => /\ Len(pending) <= Len(submitted)
                  /\ \A i \in DOMAIN pending : pending[i] = submitted[Started + i]
    /\ active # Nothing => Started \in DOMAIN submitted /\ active.req = submitted[Started]

\* The requests that no longer wait.
Done == IF active = Nothing THEN Started ELSE Started - 1

\* Exactly those have been answered, and once; after close(), all of them.
Accounted ==
    /\ \A r \in Requests : Len(answers[r]) \in {0, 1}
    /\ \A r \in Requests : Len(answers[r]) = 1 => \E i \in DOMAIN submitted : submitted[i] = r
    /\ ~closed => \A i \in DOMAIN submitted : Len(answers[submitted[i]]) = 1 <=> i <= Done
    /\ closed => pending = <<>> /\ \A i \in DOMAIN submitted : Len(answers[submitted[i]]) = 1

\* While no screen has come round again, a screen is the place of its request
\* in the order of submission.
Screened ==
    Len(submitted) <= Screens =>
        /\ ~closed => \A i \in 1 .. Screens - Started : free[i] = Started + i
        /\ active # Nothing => active.screen = Started
        /\ \A reply \in owed : reply.screen \in DOMAIN submitted
                               /\ reply.req = submitted[reply.screen]

QInv == QTypeOK /\ Ordered /\ Accounted /\ QueueDisciplined /\ Screened

\* A pool holds every screen number once.
IsPool(f) ==
    /\ f \in Seq(ScreenNumbers) /\ Len(f) = Screens
    /\ {f[i] : i \in DOMAIN f} = ScreenNumbers

-----------------------------------------------------------------------------
\* A request that is under way is not taken for none.
LEMMA Busy == \A a \in Actives : a # Nothing
  BY DEF Actives, Nothing

\* The screen at the head of the pool goes to its end and the pool stays one.
LEMMA Rotation ==
    ASSUME NEW f, IsPool(f)
    PROVE  /\ Head(f) \in ScreenNumbers /\ Head(f) = f[1] /\ Tail(f) \in Seq(ScreenNumbers)
           /\ \A i \in 1 .. Screens - 1 : Tail(f)[i] = f[i + 1]
           /\ IsPool(Append(Tail(f), Head(f)))
<1> DEFINE t == Tail(f)
<1> DEFINE g == Append(t, Head(f))
<1>1. /\ f \in Seq(ScreenNumbers) /\ Len(f) = Screens /\ Screens \in Nat \ {0}
      /\ {f[i] : i \in DOMAIN f} = ScreenNumbers /\ DOMAIN f = 1 .. Screens
  BY QueueAssumption, LenProperties DEF IsPool
<1>2. /\ Head(f) \in ScreenNumbers /\ Head(f) = f[1]
      /\ t \in Seq(ScreenNumbers) /\ Len(t) = Screens - 1
      /\ \A i \in 1 .. Screens - 1 : t[i] = f[i + 1]
  BY <1>1, HeadTailProperties, EmptySeq
<1> HIDE DEF t
<1>3. /\ g \in Seq(ScreenNumbers) /\ Len(g) = Screens /\ DOMAIN g = 1 .. Screens
      /\ \A i \in 1 .. Screens - 1 : g[i] = f[i + 1]
      /\ g[Screens] = f[1]
  BY <1>1, <1>2, AppendProperties
<1> HIDE DEF g
<1>4. \A i \in DOMAIN f : \E j \in DOMAIN g : g[j] = f[i]
  <2> TAKE i \in DOMAIN f
  <2>0. i \in 1 .. Screens /\ Screens \in Nat \ {0}
    BY <1>1
  <2>1. CASE i = 1
    <3>1. Screens \in DOMAIN g
      BY <1>3, <2>0
    <3> QED
      BY <1>3, <2>1, <3>1
  <2>2. CASE i # 1
    <3>1. i - 1 \in 1 .. Screens - 1 /\ (i - 1) + 1 = i
      BY <2>0, <2>2
    <3>2. g[i - 1] = f[(i - 1) + 1]
      BY <1>3, <3>1
    <3>3. i - 1 \in 1 .. Screens
      BY <2>0, <2>2
    <3> QED
      BY <1>3, <3>1, <3>2, <3>3
  <2> QED
    BY <2>1, <2>2
<1>5. \A j \in DOMAIN g : g[j] \in ScreenNumbers
  BY <1>3
<1>6. {g[i] : i \in DOMAIN g} = ScreenNumbers
  BY <1>1, <1>4, <1>5
<1>7. IsPool(g)
  BY <1>3, <1>6 DEF IsPool
<1> QED
  BY <1>2, <1>7 DEF t, g

\* What _start_next leaves: the head of the queue is under way on the next
\* screen, due when the interval is over, or the queue is idle.
LEMMA Starts ==
    ASSUME NEW queue \in Seq(Requests), NEW f, IsPool(f), NEW gap \in Nat,
           StartNext(queue, f, gap)
    PROVE  /\ pending' \in Seq(Requests) /\ free' \in Seq(ScreenNumbers)
           /\ active' \in Actives \cup {Nothing}
           /\ IsPool(Released')
           /\ queue = <<>> => active' = Nothing /\ pending' = queue /\ free' = f
           /\ queue # <<>> =>
                  /\ active' # Nothing /\ active'.req = queue[1]
                  /\ active'.screen = f[1] /\ active'.dispatchIn = gap
                  /\ Len(pending') = Len(queue) - 1
                  /\ \A i \in 1 .. Len(queue) - 1 : pending'[i] = queue[i + 1]
                  /\ \A i \in 1 .. Screens - 1 : free'[i] = f[i + 1]
<1>1. CASE queue = <<>>
  <2>1. active' = Nothing /\ pending' = queue /\ free' = f
    BY <1>1 DEF StartNext
  <2>2. Released' = f
    BY <2>1 DEF Released
  <2> QED
    BY <1>1, <2>1, <2>2 DEF IsPool
<1>2. CASE queue # <<>>
  <2>1. /\ active' = [req |-> Head(queue), screen |-> Head(f), dispatchIn |-> gap,
                      timeoutIn |-> Off, retries |-> 0, pages |-> 0]
        /\ pending' = Tail(queue) /\ free' = Tail(f)
    BY <1>2 DEF StartNext
  <2>2. /\ Head(queue) \in Requests /\ Head(queue) = queue[1]
        /\ pending' \in Seq(Requests) /\ Len(pending') = Len(queue) - 1
        /\ \A i \in 1 .. Len(queue) - 1 : pending'[i] = queue[i + 1]
    BY <1>2, <2>1, HeadTailProperties
  <2>3. /\ Head(f) \in ScreenNumbers /\ Head(f) = f[1] /\ free' \in Seq(ScreenNumbers)
        /\ \A i \in 1 .. Screens - 1 : free'[i] = f[i + 1]
        /\ IsPool(Append(free', Head(f)))
    BY <2>1, Rotation
  <2>4. Len(OverloadBackoff) \in Nat
    BY QueueAssumption, LenProperties
  <2>5. active' \in Actives
    BY <2>1, <2>2, <2>3, <2>4 DEF Actives, TimeLeft, Off
  <2>6. active' # Nothing
    BY <2>5, Busy
  <2>7. Released' = Append(free', Head(f))
    BY <2>1, <2>6 DEF Released
  <2> QED
    BY <1>2, <2>1, <2>2, <2>3, <2>5, <2>6, <2>7
<1> QED
  BY <1>1, <1>2

\* The callbacks of some requests.
LEMMA Answering ==
    ASSUME answers \in [Requests -> Seq(Answer)], NEW R, NEW a \in Answer, AnswerAll(R, a)
    PROVE  /\ answers' \in [Requests -> Seq(Answer)]
           /\ \A r \in Requests : Len(answers[r]) \in Nat
           /\ \A r \in R \cap Requests : answers'[r] = Append(answers[r], a)
                                         /\ Len(answers'[r]) = Len(answers[r]) + 1
           /\ \A r \in Requests \ R : answers'[r] = answers[r]
<1>1. \A r \in Requests : /\ answers[r] \in Seq(Answer) /\ Len(answers[r]) \in Nat
                          /\ Append(answers[r], a) \in Seq(Answer)
                          /\ Len(Append(answers[r], a)) = Len(answers[r]) + 1
  BY LenProperties, AppendProperties
<1>2. answers' = [r \in Requests |-> IF r \in R THEN Append(answers[r], a) ELSE answers[r]]
  BY DEF AnswerAll
<1> QED
  BY <1>1, <1>2

\* What the invariant says of the sequences.
LEMMA Sequenced ==
    ASSUME QInv
    PROVE  /\ Len(submitted) \in Nat /\ DOMAIN submitted = 1 .. Len(submitted)
           /\ \A i \in DOMAIN submitted : submitted[i] \in Requests
           /\ Len(pending) \in Nat /\ DOMAIN pending = 1 .. Len(pending)
           /\ \A i \in DOMAIN pending : pending[i] \in Requests
           /\ Started \in Int
           /\ \A r \in Requests : Len(answers[r]) \in Nat
           /\ IsPool(Released)
           /\ active # Nothing => /\ active \in Actives /\ active.req \in Requests
                                  /\ ~paused /\ ~closed
                                  /\ Len(free) = Screens - 1 /\ free \in Seq(ScreenNumbers)
           /\ active = Nothing => IsPool(free)
<1>0. QTypeOK /\ ScreensConserved /\ PausedIsIdle
  BY DEF QInv, QueueDisciplined
<1>1. /\ Len(submitted) \in Nat /\ DOMAIN submitted = 1 .. Len(submitted)
      /\ \A i \in DOMAIN submitted : submitted[i] \in Requests
  BY <1>0, LenProperties DEF QTypeOK
<1>2. /\ Len(pending) \in Nat /\ DOMAIN pending = 1 .. Len(pending)
      /\ \A i \in DOMAIN pending : pending[i] \in Requests
  BY <1>0, LenProperties DEF QTypeOK
<1>3. Started \in Int
  BY <1>1, <1>2 DEF Started
<1>4. \A r \in Requests : Len(answers[r]) \in Nat
  BY <1>0, LenProperties DEF QTypeOK
<1>5. active # Nothing => active \in Actives /\ active.req \in Requests /\ active.screen \in ScreenNumbers
  BY <1>0 DEF QTypeOK, Actives
<1>6. Released \in Seq(ScreenNumbers)
  BY <1>0, <1>5, AppendProperties DEF QTypeOK, Released
<1>7. IsPool(Released)
  BY <1>0, <1>6 DEF ScreensConserved, IsPool
<1>8. active # Nothing => Len(free) = Screens - 1 /\ free \in Seq(ScreenNumbers)
  <2>1. free \in Seq(ScreenNumbers) /\ Len(free) \in Nat
    BY <1>0, LenProperties DEF QTypeOK
  <2>2. active # Nothing => Len(Released) = Len(free) + 1
    BY <1>5, <2>1, AppendProperties DEF Released
  <2> QED
    BY <1>7, <2>1, <2>2 DEF IsPool
<1>9. active = Nothing => IsPool(free)
  BY <1>7 DEF Released
<1>10. active # Nothing => ~paused /\ ~closed
  BY <1>0 DEF PausedIsIdle
<1> QED
  BY <1>1, <1>2, <1>3, <1>4, <1>5, <1>7, <1>8, <1>9, <1>10

\* The parts of the invariant besides the types.
Core == Ordered /\ Accounted /\ QueueDisciplined /\ Screened

\* A step that neither starts nor ends a request.
LEMMA GoesOn ==
    ASSUME QInv, UNCHANGED <<pending, free, submitted, answers, paused, closed>>,
           active' = Nothing <=> active = Nothing,
           active # Nothing => active'.req = active.req /\ active'.screen = active.screen,
           \A reply \in owed' : \/ reply \in owed
                                \/ /\ active # Nothing
                                   /\ reply.screen = active.screen /\ reply.req = active.req,
           IntervalKept'
    PROVE  Core'
<1>1. Started' = Started /\ Done' = Done
  BY DEF Started, Done
<1>2. Ordered'
  BY <1>1 DEF QInv, Ordered
<1>3. Accounted'
  BY <1>1 DEF QInv, Accounted
<1>4. Released' = Released
  BY DEF Released
<1>5. QueueDisciplined'
  BY <1>4 DEF QInv, QueueDisciplined, ScreensConserved, PausedIsIdle
<1>6. Screened'
  BY <1>1 DEF QInv, Screened, Ordered
<1> QED
  BY <1>2, <1>3, <1>5, <1>6 DEF Core

\* The answer of the active request is the one that was missing.
LEMMA Told ==
    ASSUME QInv, active # Nothing, NEW a \in Answer, AnswerAll({active.req}, a)
    PROVE  /\ answers' \in [Requests -> Seq(Answer)]
           /\ \A r \in Requests : /\ Len(answers'[r]) \in {0, 1}
                                  /\ Len(answers'[r]) = 1 => \E i \in DOMAIN submitted : submitted[i] = r
           /\ \A i \in DOMAIN submitted : Len(answers'[submitted[i]]) = 1 <=> i <= Started
           /\ Started \in DOMAIN submitted /\ ~closed
<1>0. PICK q \in Requests : active.req = q
  BY Sequenced
<1>1. /\ q \in Requests /\ Started \in DOMAIN submitted /\ q = submitted[Started]
      /\ \A r \in Requests : Len(answers[r]) \in Nat
      /\ \A i \in DOMAIN submitted : submitted[i] \in Requests /\ i \in Int
      /\ Started \in Int /\ ~closed
  BY <1>0, Sequenced DEF QInv, Ordered
<1>2. /\ answers' \in [Requests -> Seq(Answer)]
      /\ Len(answers'[q]) = Len(answers[q]) + 1
      /\ \A r \in Requests \ {q} : answers'[r] = answers[r]
  BY <1>0, <1>1, Answering DEF QInv, QTypeOK
<1>3. /\ \A r \in Requests : /\ Len(answers[r]) \in {0, 1}
                             /\ Len(answers[r]) = 1 => \E i \in DOMAIN submitted : submitted[i] = r
      /\ \A i \in DOMAIN submitted : Len(answers[submitted[i]]) = 1 <=> i <= Started - 1
  BY <1>1 DEF QInv, Accounted, Done
<1>4. Len(answers'[q]) = 1
  <2>1. ~ (Len(answers[q]) = 1)
    BY <1>1, <1>3
  <2>2. Len(answers[q]) \in {0, 1}
    BY <1>1, <1>3
  <2>3. Len(answers[q]) = 0
    BY <2>1, <2>2
  <2> QED
    BY <1>2, <2>3
<1>5. ASSUME NEW r \in Requests
      PROVE  /\ Len(answers'[r]) \in {0, 1}
             /\ Len(answers'[r]) = 1 => \E i \in DOMAIN submitted : submitted[i] = r
  <2>1. CASE r = q
    BY <1>1, <1>4, <2>1
  <2>2. CASE r # q
    BY <1>2, <1>3, <2>2
  <2> QED
    BY <2>1, <2>2
<1>6. ASSUME NEW i \in DOMAIN submitted PROVE Len(answers'[submitted[i]]) = 1 <=> i <= Started
  <2>1. CASE i = Started
    BY <1>1, <1>4, <2>1
  <2>2. CASE i # Started
    <3>1. submitted[i] # q
      BY <1>1, <2>2 DEF QInv, Ordered
    <3>2. answers'[submitted[i]] = answers[submitted[i]]
      BY <1>1, <1>2, <3>1
    <3> QED
      BY <1>1, <1>3, <2>2, <3>2
  <2> QED
    BY <2>1, <2>2
<1> QED
  BY <1>1, <1>2, <1>5, <1>6

\* A step that ends the active request, if there is one, and starts none.
LEMMA Stops ==
    ASSUME QInv, active' = Nothing, free' = Released,
           UNCHANGED <<pending, submitted, closed>>, owed' \subseteq owed,
           \/ active = Nothing /\ answers' = answers
           \/ active # Nothing /\ \E a \in Answer : AnswerAll({active.req}, a)
    PROVE  Core' /\ answers' \in [Requests -> Seq(Answer)] /\ free' \in Seq(ScreenNumbers)
<1>1. Started' = Started /\ Done' = Started
  BY DEF Started, Done
<1>2. /\ Started \in Int /\ Len(submitted) \in Nat /\ DOMAIN submitted = 1 .. Len(submitted)
      /\ \A i \in DOMAIN submitted : submitted[i] \in Requests
      /\ IsPool(Released)
  BY Sequenced
<1>3. Ordered'
  BY <1>1 DEF QInv, Ordered
<1>4. /\ answers' \in [Requests -> Seq(Answer)]
      /\ Accounted'
  <2>1. CASE active = Nothing /\ answers' = answers
    BY <1>1, <2>1 DEF QInv, QTypeOK, Accounted, Done
  <2>2. ASSUME active # Nothing, NEW a \in Answer, AnswerAll({active.req}, a)
        PROVE  /\ answers' \in [Requests -> Seq(Answer)]
               /\ Accounted'
    <3>1. /\ answers' \in [Requests -> Seq(Answer)]
          /\ \A r \in Requests : /\ Len(answers'[r]) \in {0, 1}
                                 /\ Len(answers'[r]) = 1 => \E i \in DOMAIN submitted : submitted[i] = r
          /\ \A i \in DOMAIN submitted : Len(answers'[submitted[i]]) = 1 <=> i <= Started
          /\ ~closed
      BY <2>2, Told
    <3>2. ~closed'
      BY <3>1
    <3> QED
      BY <1>1, <3>1, <3>2 DEF Accounted
  <2> QED
    BY <2>1, <2>2
<1>5. Released' = Released /\ free' \in Seq(ScreenNumbers)
  BY <1>2 DEF Released, IsPool
<1>6. QueueDisciplined'
  BY <1>5 DEF QInv, QueueDisciplined, ScreensConserved, IntervalKept, PausedIsIdle
<1>7. ASSUME Len(submitted) <= Screens, ~closed, NEW i \in 1 .. Screens - Started
      PROVE  free'[i] = Started + i
  <2>1. CASE active = Nothing
    BY <1>2, <1>7, <2>1 DEF QInv, Screened, Released
  <2>2. CASE active # Nothing
    <3>1. /\ Len(free) = Screens - 1 /\ free \in Seq(ScreenNumbers) /\ active.screen \in ScreenNumbers
          /\ Started \in DOMAIN submitted
      BY <2>2, Sequenced DEF QInv, Ordered, Actives
    <3>2. i \in 1 .. Len(free) /\ free[i] = Started + i
      BY <1>2, <1>7, <3>1, QueueAssumption DEF QInv, Screened
    <3>3. Append(free, active.screen)[i] = free[i]
      BY <3>1, <3>2, AppendProperties
    <3> QED
      BY <2>2, <3>2, <3>3 DEF Released
  <2> QED
    BY <2>1, <2>2
<1>8. Screened'
  BY <1>1, <1>7 DEF QInv, Screened
<1> QED
  BY <1>3, <1>4, <1>5, <1>6, <1>8 DEF Core

\* A step that ends the active request and starts the next.
LEMMA Ends ==
    ASSUME QInv, active # Nothing, NEW a \in Answer, AnswerAll({active.req}, a),
           NEW gap \in Nat, gapIn' = gap, StartNext(pending, Released, gap),
           UNCHANGED <<submitted, paused, closed>>, owed' \subseteq owed
    PROVE  /\ Core' /\ answers' \in [Requests -> Seq(Answer)]
           /\ pending' \in Seq(Requests) /\ free' \in Seq(ScreenNumbers)
           /\ active' \in Actives \cup {Nothing}
<1>1. /\ Started \in DOMAIN submitted /\ DOMAIN submitted = 1 .. Len(submitted)
      /\ Len(submitted) \in Nat /\ Started \in Int /\ Started = Len(submitted) - Len(pending)
      /\ \A i \in DOMAIN submitted : submitted[i] \in Requests
      /\ Len(pending) \in Nat /\ DOMAIN pending = 1 .. Len(pending)
      /\ pending \in Seq(Requests) /\ IsPool(Released)
      /\ Len(free) = Screens - 1 /\ free \in Seq(ScreenNumbers) /\ active.screen \in ScreenNumbers
      /\ ~closed /\ ~paused
  BY Sequenced DEF QInv, QTypeOK, Ordered, Actives, Started
<1>2. CASE pending = <<>>
  <2>1. active' = Nothing /\ pending' = pending /\ free' = Released
    BY <1>1, <1>2, Starts
  <2> QED
    BY <1>1, <2>1, Stops
<1>3. CASE pending # <<>>
  <2>1. /\ pending' \in Seq(Requests) /\ free' \in Seq(ScreenNumbers)
        /\ active' \in Actives /\ active' # Nothing
        /\ IsPool(Released')
        /\ active'.req = pending[1] /\ active'.screen = Released[1] /\ active'.dispatchIn = gap
        /\ Len(pending') = Len(pending) - 1
        /\ \A i \in 1 .. Len(pending) - 1 : pending'[i] = pending[i + 1]
        /\ \A i \in 1 .. Screens - 1 : free'[i] = Released[i + 1]
    <3>1. active' \in Actives \cup {Nothing} /\ active' # Nothing
      BY <1>1, <1>3, Starts
    <3>2. active'.req = pending[1] /\ active'.screen = Released[1] /\ active'.dispatchIn = gap
      BY <1>1, <1>3, Starts
    <3>4. Len(pending') = Len(pending) - 1
      BY <1>1, <1>3, Starts
    <3>5. \A i \in 1 .. Len(pending) - 1 : pending'[i] = pending[i + 1]
      BY <1>1, <1>3, Starts
    <3>6. \A i \in 1 .. Screens - 1 : free'[i] = Released[i + 1]
      BY <1>1, <1>3, Starts
    <3>3. pending' \in Seq(Requests) /\ free' \in Seq(ScreenNumbers) /\ IsPool(Released')
      BY <1>1, Starts
    <3> QED
      BY <3>1, <3>2, <3>3, <3>4, <3>5, <3>6
  <2>10. DOMAIN pending' = 1 .. Len(pending')
    BY <2>1, LenProperties
  <2>2. Len(pending) > 0
    BY <1>1, <1>3, EmptySeq
  <2>3. Started' = Started + 1 /\ Done' = Started
    BY <1>1, <2>1 DEF Started, Done
  <2>4. /\ answers' \in [Requests -> Seq(Answer)]
        /\ \A r \in Requests : /\ Len(answers'[r]) \in {0, 1}
                               /\ Len(answers'[r]) = 1 => \E i \in DOMAIN submitted : submitted[i] = r
        /\ \A i \in DOMAIN submitted : Len(answers'[submitted[i]]) = 1 <=> i <= Started
    BY Told
  <2>5. /\ Len(pending) <= Len(submitted)
        /\ \A i \in DOMAIN pending : pending[i] = submitted[Started + i]
        /\ \A i, j \in DOMAIN submitted : submitted[i] = submitted[j] => i = j
    BY <1>1 DEF QInv, Ordered
  <2>6. Ordered'
    <3>1. Started + 1 \in DOMAIN submitted /\ active'.req = submitted[Started + 1]
      <4>1. 1 \in DOMAIN pending /\ Started + 1 \in 1 .. Len(submitted)
        BY <1>1, <2>2
      <4> QED
        BY <1>1, <2>1, <2>5, <4>1
    <3>2. ASSUME NEW i \in DOMAIN pending' PROVE pending'[i] = submitted[Started + 1 + i]
      <4>1. i \in 1 .. Len(pending) - 1 /\ i + 1 \in DOMAIN pending
        BY <1>1, <2>1, <2>10
      <4>2. pending'[i] = submitted[Started + (i + 1)]
        BY <2>1, <2>5, <4>1
      <4>3. Started + (i + 1) = Started + 1 + i
        BY <1>1, <4>1
      <4> QED
        BY <4>2, <4>3
    <3>3. Len(pending') <= Len(submitted)
      BY <1>1, <2>1, <2>5
    <3> QED
      BY <2>3, <2>5, <3>1, <3>2, <3>3 DEF Ordered
  <2>7. Accounted'
    <3>1. ~closed'
      BY <1>1
    <3> QED
      BY <2>3, <2>4, <3>1 DEF Accounted
  <2>8. QueueDisciplined'
    <3>1. ScreensConserved'
      BY <2>1 DEF ScreensConserved, IsPool
    <3>2. IntervalKept'
      BY <2>1 DEF IntervalKept
    <3>3. PausedIsIdle'
      BY <1>1 DEF PausedIsIdle
    <3> QED
      BY <3>1, <3>2, <3>3 DEF QueueDisciplined
  <2>9. Screened'
    <3> SUFFICES ASSUME Len(submitted) <= Screens
                 PROVE  /\ \A i \in 1 .. Screens - (Started + 1) : free'[i] = Started + 1 + i
                        /\ active'.screen = Started + 1
                        /\ \A reply \in owed' : reply.screen \in DOMAIN submitted
                                                /\ reply.req = submitted[reply.screen]
      BY <1>1, <2>3 DEF Screened
    <3>1. /\ \A i \in 1 .. Screens - Started : free[i] = Started + i
          /\ \A reply \in owed : reply.screen \in DOMAIN submitted
                                 /\ reply.req = submitted[reply.screen]
      BY <1>1 DEF QInv, Screened
    <3>2. \A i \in 1 .. Screens - Started : Released[i] = Started + i
      <4> TAKE i \in 1 .. Screens - Started
      <4>1. i \in 1 .. Len(free)
        BY <1>1, QueueAssumption
      <4>2. Append(free, active.screen)[i] = free[i]
        BY <1>1, <4>1, AppendProperties
      <4> QED
        BY <3>1, <4>2 DEF Released
    <3>3. Started + 1 <= Screens /\ Started >= 1 /\ Screens \in Nat
      BY <1>1, <2>2, QueueAssumption
    <3>4. Released[1] = Started + 1
      BY <1>1, <3>2, <3>3
    <3>5. ASSUME NEW i \in 1 .. Screens - (Started + 1) PROVE free'[i] = Started + 1 + i
      <4>1. i \in 1 .. Screens - 1 /\ i + 1 \in 1 .. Screens - Started
        BY <1>1, <3>3
      <4>2. free'[i] = Started + (i + 1)
        BY <2>1, <3>2, <4>1
      <4> QED
        BY <1>1, <4>1, <4>2
    <3> QED
      BY <2>1, <3>1, <3>4, <3>5
  <2> QED
    BY <2>1, <2>4, <2>6, <2>7, <2>8, <2>9 DEF Core
<1> QED
  BY <1>2, <1>3

\* A step that starts what waits in an idle queue: a new request or resume().
LEMMA Wakes ==
    ASSUME QInv, active = Nothing, ~closed, ~paused', closed' = closed,
           gapIn' = gapIn, owed' \subseteq owed, answers' = answers,
           NEW queue \in Seq(Requests), StartNext(queue, free, gapIn),
           \/ submitted' = submitted /\ queue = pending
           \/ \E r \in Requests : /\ \A i \in DOMAIN submitted : submitted[i] # r
                                  /\ submitted' = Append(submitted, r)
                                  /\ queue = Append(pending, r)
    PROVE  /\ Core' /\ submitted' \in Seq(Requests)
           /\ pending' \in Seq(Requests) /\ free' \in Seq(ScreenNumbers)
           /\ active' \in Actives \cup {Nothing}
<1>1. /\ Len(submitted) \in Nat /\ DOMAIN submitted = 1 .. Len(submitted)
      /\ Len(pending) \in Nat /\ DOMAIN pending = 1 .. Len(pending)
      /\ submitted \in Seq(Requests) /\ pending \in Seq(Requests)
      /\ IsPool(free) /\ gapIn \in Nat /\ Started = Len(submitted) - Len(pending)
      /\ \A r \in Requests : Len(answers[r]) \in Nat
      /\ Screens \in Nat \ {0}
  BY Sequenced, QueueAssumption DEF QInv, QTypeOK, Started
<1>2. /\ \A i, j \in DOMAIN submitted : submitted[i] = submitted[j] => i = j
      /\ Len(pending) <= Len(submitted)
      /\ \A i \in DOMAIN pending : pending[i] = submitted[Started + i]
      /\ Done = Started
  BY DEF QInv, Ordered, Done
<1>3. PICK n \in Nat, m \in Nat, s \in Nat :
          /\ n = Len(submitted) /\ m = Len(pending) /\ s = Started /\ n = s + m
          /\ DOMAIN submitted = 1 .. n /\ DOMAIN pending = 1 .. m
          /\ \A i \in 1 .. m : pending[i] = submitted[s + i]
          /\ \A i, j \in 1 .. n : submitted[i] = submitted[j] => i = j
          /\ \A i \in 1 .. n : Len(answers[submitted[i]]) = 1 <=> i <= s
  <2>1. Started \in Nat
    BY <1>1, <1>2
  <2>2. \A i \in DOMAIN submitted : Len(answers[submitted[i]]) = 1 <=> i <= Started
    BY <1>2 DEF QInv, Accounted
  <2>3. Len(submitted) = Started + Len(pending)
    BY <1>1
  <2>4. /\ DOMAIN submitted = 1 .. Len(submitted) /\ DOMAIN pending = 1 .. Len(pending)
        /\ \A i \in 1 .. Len(pending) : pending[i] = submitted[Started + i]
        /\ \A i, j \in 1 .. Len(submitted) : submitted[i] = submitted[j] => i = j
        /\ \A i \in 1 .. Len(submitted) : Len(answers[submitted[i]]) = 1 <=> i <= Started
    BY <1>1, <1>2, <2>2
  <2>5. Len(submitted) \in Nat /\ Len(pending) \in Nat
    BY <1>1
  <2> QED
    BY <2>1, <2>3, <2>4, <2>5
\* The queue is the end of what was submitted, now as before.
<1> DEFINE Extends(k, q) ==
        /\ submitted' \in Seq(Requests) /\ Len(submitted') = k /\ Len(queue) = q
        /\ DOMAIN submitted' = 1 .. k /\ DOMAIN queue = 1 .. q
        /\ k = s + q /\ n <= k
        /\ \A i \in 1 .. n : submitted'[i] = submitted[i]
        /\ \A i \in 1 .. q : queue[i] = submitted'[s + i]
        /\ \A i, j \in 1 .. k : submitted'[i] = submitted'[j] => i = j
        /\ \A i \in 1 .. k : i > n => \A j \in 1 .. n : submitted'[i] # submitted[j]
<1>4. PICK k \in Nat, q \in Nat : Extends(k, q)
  <2>1. CASE submitted' = submitted /\ queue = pending
    <3>1. Extends(n, m)
      BY <1>1, <1>3, <2>1
    <3> QED
      BY <3>1
  <2>2. ASSUME NEW r \in Requests, \A i \in DOMAIN submitted : submitted[i] # r,
               submitted' = Append(submitted, r), queue = Append(pending, r)
        PROVE  Extends(n + 1, m + 1)
    <3>1. /\ submitted' \in Seq(Requests) /\ Len(submitted') = n + 1
          /\ DOMAIN submitted' = 1 .. n + 1
          /\ \A i \in 1 .. n : submitted'[i] = submitted[i]
          /\ submitted'[n + 1] = r
      <4>1. /\ Append(submitted, r) \in Seq(Requests)
            /\ Len(Append(submitted, r)) = Len(submitted) + 1
            /\ DOMAIN Append(submitted, r) = 1 .. Len(submitted) + 1
            /\ \A i \in 1 .. Len(submitted) : Append(submitted, r)[i] = submitted[i]
            /\ Append(submitted, r)[Len(submitted) + 1] = r
        BY <1>1, AppendProperties
      <4> QED
        BY <1>3, <2>2, <4>1
    <3>2. /\ Len(queue) = m + 1 /\ DOMAIN queue = 1 .. m + 1
          /\ \A i \in 1 .. m : queue[i] = pending[i]
          /\ queue[m + 1] = r
      <4>1. /\ Len(Append(pending, r)) = Len(pending) + 1
            /\ DOMAIN Append(pending, r) = 1 .. Len(pending) + 1
            /\ \A i \in 1 .. Len(pending) : Append(pending, r)[i] = pending[i]
            /\ Append(pending, r)[Len(pending) + 1] = r
        BY <1>1, AppendProperties
      <4> QED
        BY <1>3, <2>2, <4>1
    <3>3. ASSUME NEW i \in 1 .. m + 1 PROVE queue[i] = submitted'[s + i]
      <4>1. CASE i \in 1 .. m
        <5>1. s + i \in 1 .. n
          BY <1>3, <4>1
        <5> QED
          BY <1>3, <3>1, <3>2, <4>1, <5>1
      <4>2. CASE i = m + 1
        <5>1. s + i = n + 1
          BY <1>3, <4>2
        <5> QED
          BY <3>1, <3>2, <4>2, <5>1
      <4> QED
        BY <1>3, <4>1, <4>2
    <3>4. \A i \in 1 .. n : submitted[i] # r
      BY <1>3, <2>2
    <3>5. \A i, j \in 1 .. n + 1 : submitted'[i] = submitted'[j] => i = j
      <4> SUFFICES ASSUME NEW i \in 1 .. n + 1, NEW j \in 1 .. n + 1, submitted'[i] = submitted'[j]
                   PROVE  i = j
        OBVIOUS
      <4>1. i \in 1 .. n \/ i = n + 1
        OBVIOUS
      <4>2. j \in 1 .. n \/ j = n + 1
        OBVIOUS
      <4>3. CASE i \in 1 .. n /\ j \in 1 .. n
        <5>1. submitted[i] = submitted[j]
          BY <3>1, <4>3
        <5> QED
          BY <1>3, <4>3, <5>1
      <4>4. CASE i = n + 1 \/ j = n + 1
        BY <3>1, <3>4, <4>1, <4>2, <4>4
      <4> QED
        BY <4>1, <4>2, <4>3, <4>4
    <3>6. ASSUME NEW i \in 1 .. n + 1, i > n PROVE \A j \in 1 .. n : submitted'[i] # submitted[j]
      <4>1. i = n + 1
        BY <3>6
      <4> QED
        BY <3>1, <3>4, <4>1
    <3>7. n + 1 = s + (m + 1) /\ n <= n + 1
      BY <1>3
    <3> QED
      BY <3>1, <3>2, <3>3, <3>5, <3>6, <3>7
  <2>3. n + 1 \in Nat /\ m + 1 \in Nat
    OBVIOUS
  <2> QED
    BY <2>1, <2>2, <2>3
<1>5. /\ submitted' \in Seq(Requests) /\ Len(submitted') = k /\ Len(queue) = q
      /\ DOMAIN submitted' = 1 .. k /\ DOMAIN queue = 1 .. q
  BY <1>4
<1>6. /\ k = s + q /\ n <= k
      /\ \A i \in 1 .. n : submitted'[i] = submitted[i]
      /\ \A i \in 1 .. q : queue[i] = submitted'[s + i]
  BY <1>4
<1>7. /\ \A i, j \in 1 .. k : submitted'[i] = submitted'[j] => i = j
      /\ \A i \in 1 .. k : i > n => \A j \in 1 .. n : submitted'[i] # submitted[j]
  BY <1>4
<1> HIDE DEF Extends
<1>8. /\ pending' \in Seq(Requests) /\ free' \in Seq(ScreenNumbers)
      /\ active' \in Actives \cup {Nothing} /\ IsPool(Released')
      /\ DOMAIN pending' = 1 .. Len(pending')
  BY <1>1, Starts, LenProperties
<1>9. ~closed'
  OBVIOUS
<1>10. \A i \in 1 .. k : Len(answers[submitted'[i]]) = 1 <=> i <= s
  <2> TAKE i \in 1 .. k
  <2>1. CASE i \in 1 .. n
    BY <1>3, <1>6, <2>1
  <2>2. CASE i \notin 1 .. n
    <3>1. i > n /\ ~ (i <= s)
      BY <1>3, <2>2
    <3>2. submitted'[i] \in Requests
      BY <1>5
    <3>3. \A j \in 1 .. n : submitted'[i] # submitted[j]
      BY <1>7, <3>1
    <3>4. ~ (Len(answers[submitted'[i]]) = 1)
      BY <1>3, <3>2, <3>3 DEF QInv, Accounted
    <3> QED
      BY <3>1, <3>4
  <2> QED
    BY <2>1, <2>2
<1>11. \A r \in Requests : /\ Len(answers[r]) \in {0, 1}
                           /\ Len(answers[r]) = 1 => \E i \in DOMAIN submitted' : submitted'[i] = r
  <2> TAKE r \in Requests
  <2>1. Len(answers[r]) \in {0, 1}
    BY DEF QInv, Accounted
  <2>2. ASSUME Len(answers[r]) = 1 PROVE \E i \in DOMAIN submitted' : submitted'[i] = r
    <3>1. PICK i \in 1 .. n : submitted[i] = r
      BY <1>3, <2>2 DEF QInv, Accounted
    <3>2. i \in 1 .. k /\ submitted'[i] = r
      BY <1>6, <3>1
    <3> QED
      BY <1>5, <3>2
  <2> QED
    BY <2>1, <2>2
<1>12. ASSUME Done' = s PROVE Accounted'
  BY <1>5, <1>9, <1>10, <1>11, <1>12 DEF Accounted
<1>13. ASSUME IntervalKept' PROVE QueueDisciplined'
  <2>1. ScreensConserved'
    BY <1>8 DEF ScreensConserved, IsPool
  <2>2. PausedIsIdle'
    BY <1>9 DEF PausedIsIdle
  <2> QED
    BY <1>13, <2>1, <2>2 DEF QueueDisciplined
<1>14. ASSUME k <= Screens
       PROVE  /\ \A i \in 1 .. Screens - s : free[i] = s + i
              /\ \A reply \in owed' : reply.screen \in DOMAIN submitted'
                                      /\ reply.req = submitted'[reply.screen]
  <2>1. n <= Screens
    BY <1>1, <1>6, <1>14
  <2>2. Len(submitted) <= Screens
    BY <1>3, <2>1
  <2>3. /\ \A i \in 1 .. Screens - s : free[i] = s + i
        /\ \A reply \in owed : reply.screen \in 1 .. n /\ reply.req = submitted[reply.screen]
    BY <1>3, <2>2 DEF QInv, Screened
  <2>4. ASSUME NEW reply \in owed'
        PROVE  reply.screen \in DOMAIN submitted' /\ reply.req = submitted'[reply.screen]
    <3>1. reply.screen \in 1 .. n /\ reply.req = submitted[reply.screen]
      BY <2>3
    <3>2. reply.screen \in 1 .. k
      BY <1>6, <3>1
    <3> QED
      BY <1>5, <1>6, <3>1, <3>2
  <2> QED
    BY <2>3, <2>4
<1>15. CASE queue = <<>>
  <2>1. active' = Nothing /\ pending' = queue /\ free' = free
    BY <1>1, <1>15, Starts
  <2>2. q = 0 /\ k = s
    BY <1>5, <1>6, <1>15
  <2>3. Started' = s /\ Done' = s
    BY <1>5, <2>1, <2>2 DEF Started, Done
  <2>4. Ordered'
    <3>1. \A i, j \in DOMAIN submitted' : submitted'[i] = submitted'[j] => i = j
      BY <1>5, <1>7
    <3>2. Len(pending') <= Len(submitted') /\ DOMAIN pending' = {}
      BY <1>5, <2>1, <2>2
    <3> QED
      BY <2>1, <3>1, <3>2 DEF Ordered
  <2>5. QueueDisciplined'
    BY <1>13, <2>1 DEF IntervalKept
  <2>6. Screened'
    BY <1>5, <1>14, <2>1, <2>3 DEF Screened
  <2> QED
    BY <1>5, <1>8, <1>12, <2>3, <2>4, <2>5, <2>6 DEF Core
<1>16. CASE queue # <<>>
  <2>1. active' # Nothing /\ active'.req = queue[1]
    BY <1>1, <1>16, Starts
  <2>2. active'.screen = free[1] /\ active'.dispatchIn = gapIn
    BY <1>1, <1>16, Starts
  <2>3. Len(pending') = q - 1
    BY <1>1, <1>5, <1>16, Starts
  <2>4. \A i \in 1 .. q - 1 : pending'[i] = queue[i + 1]
    BY <1>1, <1>5, <1>16, Starts
  <2>5. \A i \in 1 .. Screens - 1 : free'[i] = free[i + 1]
    BY <1>1, <1>16, Starts
  <2>6. q > 0
    <3>1. q # 0
      BY <1>5, <1>16, EmptySeq
    <3> QED
      BY <3>1
  <2>7. Started' = s + 1 /\ Done' = s
    <3>1. Started' = s + 1
      BY <1>5, <1>6, <2>3 DEF Started
    <3> QED
      BY <2>1, <3>1 DEF Done
  <2>8. Ordered'
    <3>1. 1 \in 1 .. q /\ s + 1 \in 1 .. k
      BY <1>6, <2>6
    <3>2. active'.req = submitted'[s + 1]
      BY <1>6, <2>1, <3>1
    <3>3. ASSUME NEW i \in DOMAIN pending' PROVE pending'[i] = submitted'[s + 1 + i]
      <4>1. i \in 1 .. q - 1 /\ i + 1 \in 1 .. q
        BY <1>8, <2>3, <2>6
      <4>2. pending'[i] = submitted'[s + (i + 1)]
        BY <1>6, <2>4, <4>1
      <4>3. s + (i + 1) = s + 1 + i
        BY <4>1
      <4> QED
        BY <4>2, <4>3
    <3>4. q - 1 <= k
      BY <1>6
    <3>5. Len(pending') <= Len(submitted')
      BY <1>5, <2>3, <3>4
    <3>6. \A i, j \in DOMAIN submitted' : submitted'[i] = submitted'[j] => i = j
      BY <1>5, <1>7
    <3> QED
      BY <1>5, <2>7, <3>1, <3>2, <3>3, <3>5, <3>6 DEF Ordered
  <2>9. QueueDisciplined'
    BY <1>1, <1>13, <2>2 DEF IntervalKept
  <2>10. Screened'
    <3> SUFFICES ASSUME k <= Screens
                 PROVE  /\ \A i \in 1 .. Screens - (s + 1) : free'[i] = s + 1 + i
                        /\ active'.screen = s + 1
                        /\ \A reply \in owed' : reply.screen \in DOMAIN submitted'
                                                /\ reply.req = submitted'[reply.screen]
      BY <1>5, <2>1, <2>7 DEF Screened
    <3>1. s + 1 <= Screens
      BY <1>1, <1>6, <2>6
    <3>2. free[1] = s + 1
      <4>1. 1 \in 1 .. Screens - s
        BY <1>1, <3>1
      <4> QED
        BY <1>14, <4>1
    <3>3. ASSUME NEW i \in 1 .. Screens - (s + 1) PROVE free'[i] = s + 1 + i
      <4>1. i \in 1 .. Screens - 1 /\ i + 1 \in 1 .. Screens - s
        BY <1>1, <3>1
      <4>2. free'[i] = s + (i + 1)
        BY <1>14, <2>5, <4>1
      <4> QED
        BY <4>1, <4>2
    <3> QED
      BY <1>14, <2>2, <3>2, <3>3
  <2> QED
    BY <1>5, <1>8, <1>12, <2>7, <2>8, <2>9, <2>10 DEF Core
<1> QED
  BY <1>15, <1>16

\* A new request that has to wait.
LEMMA Queues ==
    ASSUME QInv, ~closed, NEW r \in Requests, \A i \in DOMAIN submitted : submitted[i] # r,
           submitted' = Append(submitted, r), pending' = Append(pending, r),
           UNCHANGED <<active, free, gapIn, paused, closed, owed, answers>>
    PROVE  Core' /\ submitted' \in Seq(Requests) /\ pending' \in Seq(Requests)
<1>1. /\ Len(submitted) \in Nat /\ DOMAIN submitted = 1 .. Len(submitted)
      /\ Len(pending) \in Nat /\ DOMAIN pending = 1 .. Len(pending)
      /\ submitted \in Seq(Requests) /\ pending \in Seq(Requests)
      /\ Started = Len(submitted) - Len(pending)
  BY Sequenced DEF QInv, QTypeOK, Started
<1>2. /\ \A i, j \in DOMAIN submitted : submitted[i] = submitted[j] => i = j
      /\ Len(pending) <= Len(submitted)
      /\ \A i \in DOMAIN pending : pending[i] = submitted[Started + i]
      /\ active # Nothing => Started \in DOMAIN submitted /\ active.req = submitted[Started]
  BY DEF QInv, Ordered
<1>3. PICK n \in Nat, m \in Nat, s \in Nat :
          /\ n = Len(submitted) /\ m = Len(pending) /\ s = Started /\ n = s + m
          /\ DOMAIN submitted = 1 .. n /\ DOMAIN pending = 1 .. m
          /\ \A i \in 1 .. m : pending[i] = submitted[s + i]
          /\ \A i, j \in 1 .. n : submitted[i] = submitted[j] => i = j
          /\ \A i \in 1 .. n : submitted[i] # r
  <2>1. Started \in Nat
    BY <1>1, <1>2
  <2>2. Len(submitted) = Started + Len(pending)
    BY <1>1
  <2>3. /\ DOMAIN submitted = 1 .. Len(submitted) /\ DOMAIN pending = 1 .. Len(pending)
        /\ \A i \in 1 .. Len(pending) : pending[i] = submitted[Started + i]
        /\ \A i, j \in 1 .. Len(submitted) : submitted[i] = submitted[j] => i = j
        /\ \A i \in 1 .. Len(submitted) : submitted[i] # r
    BY <1>1, <1>2
  <2>4. Len(submitted) \in Nat /\ Len(pending) \in Nat
    BY <1>1
  <2> QED
    BY <2>1, <2>2, <2>3, <2>4
<1>4. /\ submitted' \in Seq(Requests) /\ Len(submitted') = n + 1
      /\ DOMAIN submitted' = 1 .. n + 1
      /\ \A i \in 1 .. n : submitted'[i] = submitted[i]
      /\ submitted'[n + 1] = r
  <2>1. /\ Append(submitted, r) \in Seq(Requests)
        /\ Len(Append(submitted, r)) = Len(submitted) + 1
        /\ DOMAIN Append(submitted, r) = 1 .. Len(submitted) + 1
        /\ \A i \in 1 .. Len(submitted) : Append(submitted, r)[i] = submitted[i]
        /\ Append(submitted, r)[Len(submitted) + 1] = r
    BY <1>1, AppendProperties
  <2> QED
    BY <1>3, <2>1
<1>5. /\ pending' \in Seq(Requests) /\ Len(pending') = m + 1 /\ DOMAIN pending' = 1 .. m + 1
      /\ \A i \in 1 .. m : pending'[i] = pending[i]
      /\ pending'[m + 1] = r
  <2>1. /\ Append(pending, r) \in Seq(Requests)
        /\ Len(Append(pending, r)) = Len(pending) + 1
        /\ DOMAIN Append(pending, r) = 1 .. Len(pending) + 1
        /\ \A i \in 1 .. Len(pending) : Append(pending, r)[i] = pending[i]
        /\ Append(pending, r)[Len(pending) + 1] = r
    BY <1>1, AppendProperties
  <2> QED
    BY <1>3, <2>1
<1>6. Started' = s /\ Done' = Done
  <2>1. Started' = s
    BY <1>3, <1>4, <1>5 DEF Started
  <2> QED
    BY <1>3, <2>1 DEF Done
<1>7. Ordered'
  <2>1. \A i, j \in 1 .. n + 1 : submitted'[i] = submitted'[j] => i = j
    <3> SUFFICES ASSUME NEW i \in 1 .. n + 1, NEW j \in 1 .. n + 1, submitted'[i] = submitted'[j]
                 PROVE  i = j
      OBVIOUS
    <3>1. i \in 1 .. n \/ i = n + 1
      OBVIOUS
    <3>2. j \in 1 .. n \/ j = n + 1
      OBVIOUS
    <3> QED
      BY <1>3, <1>4, <3>1, <3>2
  <2>2. ASSUME NEW i \in 1 .. m + 1 PROVE pending'[i] = submitted'[s + i]
    <3>1. CASE i \in 1 .. m
      <4>1. s + i \in 1 .. n
        BY <1>3, <3>1
      <4> QED
        BY <1>3, <1>4, <1>5, <3>1, <4>1
    <3>2. CASE i = m + 1
      <4>1. s + i = n + 1
        BY <1>3, <3>2
      <4> QED
        BY <1>4, <1>5, <3>2, <4>1
    <3>3. i \in 1 .. m \/ i = m + 1
      OBVIOUS
    <3> QED
      BY <3>1, <3>2, <3>3
  <2>3. m + 1 <= n + 1
    BY <1>3
  <2>4. Len(pending') <= Len(submitted')
    BY <1>4, <1>5, <2>3
  <2>5. active # Nothing => s \in 1 .. n + 1 /\ active.req = submitted'[s]
    BY <1>2, <1>3, <1>4
  <2> QED
    BY <1>4, <1>5, <1>6, <2>1, <2>2, <2>4, <2>5 DEF Ordered
<1>8. Accounted'
  <2>1. \A x \in Requests : /\ Len(answers[x]) \in {0, 1}
                            /\ Len(answers[x]) = 1 => \E i \in 1 .. n : submitted[i] = x
    BY <1>3 DEF QInv, Accounted
  <2>2. \A x \in Requests : Len(answers[x]) = 1 => \E i \in DOMAIN submitted' : submitted'[i] = x
    <3> TAKE x \in Requests
    <3> HAVE Len(answers[x]) = 1
    <3>1. PICK i \in 1 .. n : submitted[i] = x
      BY <2>1
    <3>2. i \in 1 .. n + 1 /\ submitted'[i] = x
      BY <1>4, <3>1
    <3> QED
      BY <1>4, <3>2
  <2>3. Done \in Int /\ Done <= n
    BY <1>3 DEF Done
  <2>4. \A i \in DOMAIN submitted' : Len(answers[submitted'[i]]) = 1 <=> i <= Done
    <3> TAKE i \in DOMAIN submitted'
    <3>1. CASE i \in 1 .. n
      BY <1>3, <1>4, <3>1 DEF QInv, Accounted
    <3>2. CASE i = n + 1
      <4>1. ~ (i <= Done)
        BY <2>3, <3>2
      <4>2. ~ (Len(answers[r]) = 1)
        BY <1>3, <2>1
      <4> QED
        BY <1>4, <3>2, <4>1, <4>2
    <3> QED
      BY <1>4, <3>1, <3>2
  <2> QED
    BY <1>6, <2>1, <2>2, <2>4 DEF Accounted
<1>9. QueueDisciplined'
  <2>1. Released' = Released
    BY DEF Released
  <2> QED
    BY <2>1 DEF QInv, QueueDisciplined, ScreensConserved, IntervalKept, PausedIsIdle
<1>10. Screened'
  <2> SUFFICES ASSUME n + 1 <= Screens PROVE Screened'
    BY <1>4 DEF Screened
  <2>1. Len(submitted) <= Screens
    <3>1. n <= Screens
      BY QueueAssumption
    <3> QED
      BY <1>3, <3>1
  <2>2. \A reply \in owed : reply.screen \in 1 .. n /\ reply.req = submitted[reply.screen]
    BY <1>3, <2>1 DEF QInv, Screened
  <2>3. \A reply \in owed : reply.screen \in DOMAIN submitted' /\ reply.req = submitted'[reply.screen]
    BY <1>4, <2>2
  <2> QED
    BY <1>3, <1>6, <2>1, <2>3 DEF QInv, Screened
<1> QED
  BY <1>4, <1>5, <1>7, <1>8, <1>9, <1>10 DEF Core

\* close() answers whatever still waits.
LEMMA Closes ==
    ASSUME QInv, ~closed, closed', active' = Nothing, pending' = <<>>, free' = Released,
           AnswerAll(WaitingOnes, "error"), UNCHANGED <<submitted, owed>>
    PROVE  Core' /\ answers' \in [Requests -> Seq(Answer)] /\ free' \in Seq(ScreenNumbers)
<1>1. /\ DOMAIN submitted = 1 .. Len(submitted) /\ Len(submitted) \in Nat
      /\ \A i \in DOMAIN submitted : submitted[i] \in Requests
      /\ DOMAIN pending = 1 .. Len(pending) /\ Len(pending) \in Nat
      /\ Started = Len(submitted) - Len(pending) /\ IsPool(Released)
  BY Sequenced DEF Started
<1>2. /\ \A i, j \in DOMAIN submitted : submitted[i] = submitted[j] => i = j
      /\ Len(pending) <= Len(submitted)
      /\ \A i \in DOMAIN pending : pending[i] = submitted[Started + i]
      /\ active # Nothing => Started \in DOMAIN submitted /\ active.req = submitted[Started]
  BY DEF QInv, Ordered
<1>3. PICK n \in Nat, m \in Nat, s \in Nat :
          /\ n = Len(submitted) /\ m = Len(pending) /\ s = Started /\ n = s + m
  <2>1. Started \in Nat /\ Len(submitted) = Started + Len(pending)
    BY <1>1, <1>2
  <2> QED
    BY <1>1, <2>1
\* What waits are the last requests that were submitted.
<1>4. /\ WaitingOnes \subseteq Requests
      /\ \A x \in WaitingOnes : \E i \in DOMAIN submitted : submitted[i] = x
      /\ \A i \in DOMAIN submitted : submitted[i] \in WaitingOnes <=> ~ (i <= Done)
  <2>1. Done = IF active = Nothing THEN s ELSE s - 1
    BY <1>3 DEF Done
  <2>2. \A j \in 1 .. m : s + j \in DOMAIN submitted /\ pending[j] = submitted[s + j]
    BY <1>1, <1>2, <1>3
  <2>3. \A x \in WaitingOnes : \E i \in DOMAIN submitted : submitted[i] = x /\ ~ (i <= Done)
    <3> TAKE x \in WaitingOnes
    <3>1. ASSUME NEW j \in DOMAIN pending, x = pending[j]
          PROVE  \E i \in DOMAIN submitted : submitted[i] = x /\ ~ (i <= Done)
      <4>1. j \in 1 .. m
        BY <1>1, <1>3
      <4>2. s + j \in DOMAIN submitted /\ submitted[s + j] = x /\ ~ (s + j <= Done)
        BY <2>1, <2>2, <3>1, <4>1
      <4> QED
        BY <4>2
    <3>2. ASSUME active # Nothing, x = active.req
          PROVE  \E i \in DOMAIN submitted : submitted[i] = x /\ ~ (i <= Done)
      <4>1. s \in DOMAIN submitted /\ submitted[s] = x /\ ~ (s <= Done)
        BY <1>2, <1>3, <2>1, <3>2
      <4> QED
        BY <4>1
    <3> QED
      BY <3>1, <3>2 DEF WaitingOnes
  <2>4. ASSUME NEW i \in DOMAIN submitted, ~ (i <= Done) PROVE submitted[i] \in WaitingOnes
    <3>1. i \in 1 .. n
      BY <1>1, <1>3
    <3>2. CASE active # Nothing /\ i = s
      BY <1>2, <1>3, <3>2 DEF WaitingOnes
    <3>3. CASE i - s \in 1 .. m
      <4>1. s + (i - s) = i
        BY <3>1
      <4>2. i - s \in DOMAIN pending /\ pending[i - s] = submitted[i]
        BY <1>1, <1>3, <2>2, <3>3, <4>1
      <4> QED
        BY <4>2 DEF WaitingOnes
    <3> QED
      BY <1>3, <2>1, <2>4, <3>1, <3>2, <3>3
  <2>5. ASSUME NEW i \in DOMAIN submitted, submitted[i] \in WaitingOnes PROVE ~ (i <= Done)
    <3>1. PICK j \in DOMAIN submitted : submitted[j] = submitted[i] /\ ~ (j <= Done)
      BY <2>3, <2>5
    <3>2. j = i
      BY <1>2, <3>1
    <3> QED
      BY <3>1, <3>2
  <2> QED
    BY <1>1, <2>3, <2>4, <2>5
<1>5. /\ answers' \in [Requests -> Seq(Answer)]
      /\ \A r \in Requests : Len(answers[r]) \in Nat
      /\ \A r \in WaitingOnes : Len(answers'[r]) = Len(answers[r]) + 1
      /\ \A r \in Requests \ WaitingOnes : answers'[r] = answers[r]
  BY <1>4, Answering DEF QInv, QTypeOK, Answer
<1>6. /\ \A r \in Requests : /\ Len(answers[r]) \in {0, 1}
                             /\ Len(answers[r]) = 1 => \E i \in DOMAIN submitted : submitted[i] = r
      /\ \A i \in DOMAIN submitted : Len(answers[submitted[i]]) = 1 <=> i <= Done
  BY DEF QInv, Accounted
<1>7. \A r \in WaitingOnes : Len(answers'[r]) = 1
  <2> TAKE r \in WaitingOnes
  <2>1. PICK i \in DOMAIN submitted : submitted[i] = r
    BY <1>4
  <2>2. ~ (Len(answers[r]) = 1)
    BY <1>4, <1>6, <2>1
  <2>3. Len(answers[r]) = 0
    BY <1>4, <1>6, <2>2
  <2>4. Len(answers'[r]) = Len(answers[r]) + 1
    BY <1>5
  <2> QED
    BY <2>3, <2>4
<1>8. ASSUME NEW r \in Requests
      PROVE  /\ Len(answers'[r]) \in {0, 1}
             /\ Len(answers'[r]) = 1 => \E i \in DOMAIN submitted : submitted[i] = r
  <2>1. CASE r \in WaitingOnes
    BY <1>4, <1>7, <2>1
  <2>2. CASE r \notin WaitingOnes
    BY <1>5, <1>6, <2>2
  <2> QED
    BY <2>1, <2>2
<1>9. ASSUME NEW i \in DOMAIN submitted PROVE Len(answers'[submitted[i]]) = 1
  <2>1. CASE submitted[i] \in WaitingOnes
    BY <1>7, <2>1
  <2>2. CASE submitted[i] \notin WaitingOnes
    <3>1. i <= Done
      BY <1>4, <2>2
    <3> QED
      BY <1>1, <1>5, <1>6, <2>2, <3>1
  <2> QED
    BY <2>1, <2>2
<1>10. Accounted'
  BY <1>8, <1>9 DEF Accounted
<1>11. Ordered'
  BY <1>2 DEF Ordered
<1>12. Released' = Released /\ free' \in Seq(ScreenNumbers)
  BY <1>1 DEF Released, IsPool
<1>13. QueueDisciplined'
  BY <1>12 DEF QInv, QueueDisciplined, ScreensConserved, IntervalKept, PausedIsIdle
<1>14. Screened'
  BY DEF QInv, Screened
<1> QED
  BY <1>5, <1>10, <1>11, <1>12, <1>13, <1>14 DEF Core

-----------------------------------------------------------------------------
\* No step leaves the invariant: submit(), a dispatch, an event of the OCX or
\* its loss, a timeout and its observer, pause(), resume(), close() and time.
LEMMA StepQInv == QInv /\ [QNext]_qvars => QInv'
<1> SUFFICES ASSUME QInv, [QNext]_qvars PROVE QInv'
  OBVIOUS
<1> DEFINE Sorts == /\ pending \in Seq(Requests) /\ free \in Seq(ScreenNumbers)
                    /\ active \in Actives \cup {Nothing}
                    /\ submitted \in Seq(Requests) /\ answers \in [Requests -> Seq(Answer)]
<1> DEFINE Owing == owed \subseteq [screen : ScreenNumbers, req : Requests]
<1> DEFINE Times == gapIn \in Nat /\ timeouts \in Nat
<1> DEFINE Flags == paused \in BOOLEAN /\ closed \in BOOLEAN /\ observing \in BOOLEAN
<1>0. Sorts /\ Owing /\ Times /\ Flags
  BY DEF QInv, QTypeOK
<1>1. ASSUME Core', Sorts', Owing', Times', Flags' PROVE QInv'
  <2>1. QTypeOK'
    BY <1>1 DEF QTypeOK
  <2> QED
    BY <1>1, <2>1 DEF QInv, Core
<1>2. MinInterval \in Nat /\ ResponseTimeout \in Nat /\ Len(OverloadBackoff) \in Nat
  BY QueueAssumption, LenProperties
<1>3. active # Nothing => active \in Actives
  BY <1>0
<1>4. "success" \in Answer /\ "error" \in Answer
  BY DEF Answer
<1>5. ASSUME NEW r \in Requests, Submit(r) PROVE QInv'
  <2>1. /\ ~closed /\ ~observing /\ \A i \in DOMAIN submitted : submitted[i] # r
        /\ submitted' = Append(submitted, r)
        /\ UNCHANGED <<gapIn, timeouts, paused, closed, observing, owed, answers>>
    BY <1>5 DEF Submit
  <2>2. Owing' /\ Times' /\ Flags'
    BY <1>0, <2>1
  <2>3. CASE paused \/ active # Nothing
    <3>1. pending' = Append(pending, r) /\ active' = active /\ free' = free
      BY <1>5, <2>3 DEF Submit
    <3>2. Core' /\ submitted' \in Seq(Requests) /\ pending' \in Seq(Requests)
      BY <2>1, <3>1, Queues
    <3> QED
      BY <1>0, <1>1, <2>1, <2>2, <3>1, <3>2
  <2>4. CASE ~ (paused \/ active # Nothing)
    <3>1. StartNext(Append(pending, r), free, gapIn)
      BY <1>5, <2>4 DEF Submit
    <3>2. Append(pending, r) \in Seq(Requests)
      BY <1>0, AppendProperties
    <3>3. ~paused'
      BY <2>1, <2>4
    <3>4. /\ Core' /\ submitted' \in Seq(Requests)
          /\ pending' \in Seq(Requests) /\ free' \in Seq(ScreenNumbers)
          /\ active' \in Actives \cup {Nothing}
      BY <2>1, <2>4, <3>1, <3>2, <3>3, Wakes
    <3> QED
      BY <1>0, <1>1, <2>1, <2>2, <3>4
  <2> QED
    BY <2>3, <2>4
\* What ends the active request, and starts the next one, in four places.
<1>6. ASSUME active # Nothing, NEW a \in Answer, AnswerAll({active.req}, a), gapIn' \in Nat,
             StartNext(pending, Released, gapIn'),
             UNCHANGED <<submitted, paused, closed>>, owed' \subseteq owed
      PROVE  Core' /\ Sorts' /\ Owing'
  <2>1. /\ Core' /\ answers' \in [Requests -> Seq(Answer)]
        /\ pending' \in Seq(Requests) /\ free' \in Seq(ScreenNumbers)
        /\ active' \in Actives \cup {Nothing}
    BY <1>6, Ends
  <2> QED
    BY <1>0, <1>6, <2>1
<1>7. ASSUME NEW result, Dispatch(result) PROVE QInv'
  <2>1. /\ active # Nothing /\ active.dispatchIn = 0 /\ gapIn' = MinInterval
        /\ UNCHANGED <<timeouts, paused, closed, observing, submitted>>
    BY <1>7 DEF Dispatch
  <2>2. Times' /\ Flags'
    BY <1>0, <1>2, <2>1
  <2>3. CASE /\ active' = [active EXCEPT !.dispatchIn = Off, !.timeoutIn = ResponseTimeout]
             /\ owed' = owed \cup {[screen |-> active.screen, req |-> active.req]}
             /\ UNCHANGED <<pending, free, answers>>
    <3>1. /\ active' \in Actives /\ active'.dispatchIn = Off
          /\ active'.req = active.req /\ active'.screen = active.screen
      BY <1>2, <1>3, <2>1, <2>3 DEF Actives, TimeLeft
    <3>2. active' # Nothing
      BY <3>1, Busy
    <3>3. Owing'
      BY <1>0, <1>3, <2>1, <2>3 DEF Actives
    <3>4. IntervalKept'
      BY <3>1 DEF IntervalKept
    <3>5. Core'
      BY <2>1, <2>3, <3>1, <3>2, <3>4, GoesOn
    <3> QED
      BY <1>0, <1>1, <2>1, <2>2, <2>3, <3>1, <3>3, <3>5
  <2>4. CASE /\ active.retries < Len(OverloadBackoff)
             /\ active' = [active EXCEPT
                    !.retries = @ + 1,
                    !.dispatchIn = Larger(OverloadBackoff[active.retries + 1], MinInterval)]
             /\ UNCHANGED <<pending, free, owed, answers>>
    <3>0. active.retries \in Nat /\ active.retries + 1 \in 1 .. Len(OverloadBackoff)
      BY <1>2, <1>3, <2>1, <2>4 DEF Actives
    <3>1. OverloadBackoff[active.retries + 1] \in Nat
      BY <3>0, QueueAssumption
    <3>2. /\ Larger(OverloadBackoff[active.retries + 1], MinInterval) \in Nat
          /\ Larger(OverloadBackoff[active.retries + 1], MinInterval) >= MinInterval
      BY <1>2, <3>1 DEF Larger
    <3>3. /\ active' \in Actives /\ active'.dispatchIn >= MinInterval
          /\ active'.req = active.req /\ active'.screen = active.screen
      <4>1. PICK d \in Nat : d = Larger(OverloadBackoff[active.retries + 1], MinInterval)
        BY <3>2
      <4>2. PICK t \in 0 .. Len(OverloadBackoff) : t = active.retries + 1
        BY <1>2, <3>0
      <4>3. active' = [active EXCEPT !.retries = t, !.dispatchIn = d]
        BY <2>4, <4>1, <4>2
      <4>4. d \in TimeLeft /\ d >= MinInterval
        BY <3>2, <4>1 DEF TimeLeft
      <4> QED
        BY <1>3, <2>1, <4>3, <4>4 DEF Actives
    <3>4. active' # Nothing
      BY <3>3, Busy
    <3>5. IntervalKept'
      BY <2>1, <3>3 DEF IntervalKept
    <3>6. Core'
      BY <2>1, <2>4, <3>3, <3>4, <3>5, GoesOn
    <3> QED
      BY <1>0, <1>1, <2>1, <2>2, <2>4, <3>3, <3>6
  <2>5. CASE FinishError(MinInterval) /\ owed' = owed
    <3>1. AnswerAll({active.req}, "error") /\ StartNext(pending, Released, gapIn') /\ gapIn' \in Nat
      BY <1>2, <2>1, <2>5 DEF FinishError
    <3> QED
      BY <1>1, <1>4, <1>6, <2>1, <2>2, <2>5, <3>1
  <2> QED
    BY <1>7, <2>3, <2>4, <2>5 DEF Dispatch
<1>8. ASSUME NEW reply \in owed, Reply(reply) PROVE QInv'
  <2>1. /\ ~observing /\ owed' = owed \ {reply}
        /\ UNCHANGED <<gapIn, paused, closed, observing, submitted>>
    BY <1>8 DEF Reply
  <2>2. Flags' /\ Owing' /\ gapIn' \in Nat
    BY <1>0, <2>1
  <2>3. CASE LastPage(reply)
    <3>1. /\ active # Nothing /\ AnswerAll({active.req}, "success") /\ timeouts' = 0
          /\ StartNext(pending, Released, gapIn')
      BY <2>1, <2>3 DEF LastPage, Matches
    <3> QED
      BY <1>1, <1>4, <1>6, <2>1, <2>2, <3>1
  <2>4. CASE BadPage(reply)
    <3>1. /\ active # Nothing /\ AnswerAll({active.req}, "error") /\ timeouts' = timeouts
          /\ StartNext(pending, Released, gapIn')
      BY <2>1, <2>4 DEF BadPage, FinishError, Matches
    <3> QED
      BY <1>0, <1>1, <1>4, <1>6, <2>1, <2>2, <3>1
  <2>5. CASE MorePages(reply)
    <3>1. /\ active # Nothing /\ UNCHANGED <<pending, free, answers, timeouts>>
          /\ active' = [active EXCEPT !.pages = @ + 1, !.retries = 0,
                                      !.timeoutIn = Off, !.dispatchIn = gapIn]
      BY <2>5 DEF MorePages, Matches
    <3>2. /\ active' \in Actives /\ active'.dispatchIn = gapIn
          /\ active'.req = active.req /\ active'.screen = active.screen
      <4>1. PICK g \in TimeLeft : g = gapIn
        BY <1>0 DEF TimeLeft
      <4>2. PICK pp \in Nat : pp = active.pages + 1
        BY <1>3, <3>1 DEF Actives
      <4>3. active' = [active EXCEPT !.pages = pp, !.retries = 0, !.timeoutIn = Off, !.dispatchIn = g]
        BY <3>1, <4>1, <4>2
      <4>4. 0 \in 0 .. Len(OverloadBackoff) /\ Off \in TimeLeft
        BY <1>2 DEF TimeLeft
      <4> QED
        BY <1>3, <3>1, <4>1, <4>3, <4>4 DEF Actives
    <3>3. active' # Nothing
      BY <3>2, Busy
    <3>4. IntervalKept'
      BY <1>0, <2>1, <3>2 DEF IntervalKept
    <3>5. Core'
      BY <2>1, <3>1, <3>2, <3>3, <3>4, GoesOn
    <3> QED
      BY <1>0, <1>1, <2>1, <2>2, <3>1, <3>2, <3>5
  <2>6. CASE Ignored(reply)
    <3>1. UNCHANGED <<pending, active, free, answers, timeouts>>
      BY <2>6 DEF Ignored
    <3>2. IntervalKept'
      BY <2>1, <3>1 DEF QInv, QueueDisciplined, IntervalKept
    <3>3. Core'
      BY <2>1, <3>1, <3>2, GoesOn
    <3> QED
      BY <1>0, <1>1, <2>1, <2>2, <3>1, <3>3
  <2> QED
    BY <1>8, <2>3, <2>4, <2>5, <2>6 DEF Reply
<1>9. ASSUME NEW reply \in owed, ReplyLost(reply) PROVE QInv'
  <2>1. /\ owed' = owed \ {reply}
        /\ UNCHANGED <<pending, active, free, gapIn, timeouts, paused, closed,
                       observing, submitted, answers>>
    BY <1>9 DEF ReplyLost
  <2>2. IntervalKept'
    BY <2>1 DEF QInv, QueueDisciplined, IntervalKept
  <2>3. Core'
    BY <2>1, <2>2, GoesOn
  <2> QED
    BY <1>0, <1>1, <2>1, <2>3
<1>10. CASE TimesOut
  <2>1. /\ active # Nothing /\ timeouts' = timeouts + 1 /\ FinishError(gapIn)
        /\ UNCHANGED <<gapIn, paused, closed, owed, submitted>>
    BY <1>10 DEF TimesOut
  <2>2. observing' \in BOOLEAN
    <3>1. observing' = (timeouts' >= TimeoutLimit)
      BY <1>10 DEF TimesOut
    <3>2. (timeouts' >= TimeoutLimit) \in BOOLEAN
      OBVIOUS
    <3> QED
      BY <3>1, <3>2, Zenon
  <2>3. Times' /\ Flags'
    BY <1>0, <2>1, <2>2
  <2>4. /\ AnswerAll({active.req}, "error") /\ StartNext(pending, Released, gapIn')
        /\ gapIn' \in Nat
    BY <1>0, <2>1 DEF FinishError
  <2> QED
    BY <1>1, <1>4, <1>6, <2>1, <2>3, <2>4
\* Both ways to pause.
<1>11. ASSUME PauseEffect, observing' \in BOOLEAN PROVE QInv'
  <2>1. /\ active' = Nothing /\ free' = Released
        /\ UNCHANGED <<pending, gapIn, timeouts, closed, owed, submitted>>
        /\ \/ active = Nothing /\ answers' = answers
           \/ active # Nothing /\ AnswerAll({active.req}, "error")
    BY <1>11 DEF PauseEffect
  <2>2. paused' \in BOOLEAN
    BY <1>11, Zenon DEF PauseEffect
  <2>3. Owing' /\ Times' /\ Flags'
    BY <1>0, <1>11, <2>1, <2>2
  <2>4. Core' /\ answers' \in [Requests -> Seq(Answer)] /\ free' \in Seq(ScreenNumbers)
    BY <1>4, <2>1, Stops
  <2> QED
    BY <1>0, <1>1, <2>1, <2>3, <2>4
<1>12. CASE Observe
  <2>1. observing' \in BOOLEAN
    BY <1>12, Zenon DEF Observe
  <2> QED
    BY <1>11, <1>12, <2>1 DEF Observe
<1>13. CASE Pause
  BY <1>0, <1>11, <1>13 DEF Pause
<1>14. CASE Resume
  <2>1. /\ ~closed /\ paused /\ StartNext(pending, free, gapIn)
        /\ UNCHANGED <<gapIn, timeouts, closed, observing, owed, submitted, answers>>
    BY <1>14 DEF Resume
  <2>2. ~paused' /\ paused' \in BOOLEAN
    BY <1>14, Zenon DEF Resume
  <2>3. active = Nothing
    BY <2>1 DEF QInv, QueueDisciplined, PausedIsIdle
  <2>4. Owing' /\ Times' /\ Flags'
    BY <1>0, <2>1, <2>2
  <2>5. /\ Core' /\ submitted' \in Seq(Requests)
        /\ pending' \in Seq(Requests) /\ free' \in Seq(ScreenNumbers)
        /\ active' \in Actives \cup {Nothing}
    BY <1>0, <2>1, <2>2, <2>3, Wakes
  <2> QED
    BY <1>0, <1>1, <2>1, <2>4, <2>5
<1>15. CASE Close
  <2>1. /\ ~closed /\ active' = Nothing /\ pending' = <<>> /\ free' = Released
        /\ AnswerAll(WaitingOnes, "error")
        /\ UNCHANGED <<gapIn, timeouts, paused, observing, owed, submitted>>
    BY <1>15 DEF Close, WaitingOnes
  <2>2. closed' /\ closed' \in BOOLEAN
    BY <1>15, Zenon DEF Close
  <2>3. Owing' /\ Times' /\ Flags'
    BY <1>0, <2>1, <2>2
  <2>4. Core' /\ answers' \in [Requests -> Seq(Answer)] /\ free' \in Seq(ScreenNumbers)
    BY <2>1, <2>2, Closes
  <2>5. pending' \in Seq(Requests)
    BY <2>1
  <2> QED
    BY <1>0, <1>1, <2>1, <2>3, <2>4, <2>5
<1>16. CASE QTimePasses
  <2>1. /\ gapIn' = Elapse(gapIn)
        /\ active = Nothing => active' = Nothing
        /\ active # Nothing => active' = [active EXCEPT !.dispatchIn = Elapse(@), !.timeoutIn = Elapse(@)]
        /\ UNCHANGED <<pending, free, timeouts, paused, closed, observing, owed,
                       submitted, answers>>
    BY <1>16 DEF QTimePasses
  <2>2. \A t \in TimeLeft : /\ Elapse(t) \in TimeLeft
                            /\ t = Off => Elapse(t) = Off
                            /\ \A g \in Nat : t >= g => Elapse(t) >= Elapse(g)
    BY DEF TimeLeft, Off, Elapse
  <2>3. Elapse(gapIn) \in Nat
    BY <1>0 DEF Elapse
  <2>4. active # Nothing =>
            /\ active' \in Actives
            /\ active'.dispatchIn = Elapse(active.dispatchIn)
            /\ active.dispatchIn \in TimeLeft
            /\ active'.req = active.req /\ active'.screen = active.screen
    BY <1>3, <2>1, <2>2 DEF Actives
  <2>5. IntervalKept'
    <3>1. CASE active = Nothing
      BY <2>1, <3>1 DEF IntervalKept
    <3>2. CASE active # Nothing
      <4>1. active.dispatchIn = Off \/ active.dispatchIn >= gapIn
        BY <3>2 DEF QInv, QueueDisciplined, IntervalKept
      <4>2. active'.dispatchIn = Off \/ active'.dispatchIn >= gapIn'
        BY <1>0, <2>1, <2>2, <2>4, <3>2, <4>1
      <4> QED
        BY <4>2 DEF IntervalKept
    <3> QED
      BY <3>1, <3>2
  <2>6. active' = Nothing <=> active = Nothing
    BY <2>1, <2>4, Busy
  <2>7. Core'
    BY <2>1, <2>4, <2>5, <2>6, GoesOn
  <2>8. active' \in Actives \cup {Nothing}
    BY <2>1, <2>4
  <2> QED
    BY <1>0, <1>1, <2>1, <2>3, <2>7, <2>8
<1>17. CASE UNCHANGED qvars
  <2>1. UNCHANGED <<pending, active, free, gapIn, timeouts, paused, closed, observing,
                    owed, submitted, answers>>
    BY <1>17 DEF qvars
  <2>2. IntervalKept'
    BY <2>1 DEF QInv, QueueDisciplined, IntervalKept
  <2>3. Core'
    BY <2>1, <2>2, GoesOn
  <2> QED
    BY <1>0, <1>1, <2>1, <2>3
<1> QED
  BY <1>5, <1>7, <1>8, <1>9, <1>10, <1>12, <1>13, <1>14, <1>15, <1>16, <1>17 DEF QNext, AnyDispatch

\* Nothing has been asked of a new queue.
LEMMA InitQInv == QInit => QInv
<1> SUFFICES ASSUME QInit PROVE QInv
  OBVIOUS
<1>1. /\ pending = <<>> /\ active = Nothing /\ free = [i \in ScreenNumbers |-> i]
      /\ gapIn = 0 /\ timeouts = 0 /\ owed = {} /\ submitted = <<>>
      /\ answers = [r \in Requests |-> <<>>]
  BY DEF QInit
<1>2. /\ paused \in BOOLEAN /\ closed \in BOOLEAN /\ observing \in BOOLEAN
      /\ ~paused /\ ~closed
  BY Zenon DEF QInit
<1>3. /\ free \in Seq(ScreenNumbers) /\ Len(free) = Screens /\ DOMAIN free = 1 .. Screens
      /\ \A i \in 1 .. Screens : free[i] = i
  BY <1>1, QueueAssumption DEF ScreenNumbers
<1>4. answers \in [Requests -> Seq(Answer)] /\ \A r \in Requests : Len(answers[r]) = 0
  BY <1>1
<1>5. QTypeOK
  BY <1>1, <1>2, <1>3, <1>4 DEF QTypeOK
<1>6. Started = 0 /\ Done = 0 /\ DOMAIN submitted = {} /\ DOMAIN pending = {}
  BY <1>1 DEF Started, Done
<1>7. Ordered
  BY <1>1, <1>6 DEF Ordered
<1>8. Accounted
  BY <1>1, <1>2, <1>4, <1>6 DEF Accounted
<1>9. QueueDisciplined
  <2>1. Released = free
    BY <1>1 DEF Released
  <2>2. {free[i] : i \in DOMAIN free} = ScreenNumbers
    BY <1>3 DEF ScreenNumbers
  <2>3. ScreensConserved
    BY <1>3, <2>1, <2>2 DEF ScreensConserved
  <2> QED
    BY <1>1, <2>3 DEF QueueDisciplined, IntervalKept, PausedIsIdle
<1>10. Screened
  BY <1>1, <1>3, <1>6 DEF Screened
<1> QED
  BY <1>5, <1>7, <1>8, <1>9, <1>10 DEF QInv

\* The invariant holds throughout.
LEMMA QInvHolds == QSpec => []QInv
  BY InitQInv, StepQInv, PTL DEF QSpec

\* The queue's limits: a screen number is never lost or given twice, a dispatch
\* waits out the interval, a paused or closed queue has nothing under way -
\* acquire() and release(), _schedule_dispatch and pause().
THEOREM Disciplined == QSpec => []QueueDisciplined
<1>1. QInv => QueueDisciplined
  BY DEF QInv
<1> QED
  BY QInvHolds, <1>1, PTL

\* Whatever times out, is overloaded, paused or closed: request() gets exactly
\* one answer, in the order of submission, and its request is held until then.
THEOREM EveryCallAnswered == QSpec => []AnswersAccounted
<1>1. ASSUME QInv PROVE AnswersAccounted
  <2>0. QTypeOK /\ Ordered /\ Accounted
    BY <1>1 DEF QInv
  <2>1. /\ DOMAIN submitted = 1 .. Len(submitted) /\ Len(submitted) \in Nat
        /\ \A i \in DOMAIN submitted : submitted[i] \in Requests
        /\ DOMAIN pending = 1 .. Len(pending) /\ Len(pending) \in Nat
        /\ Started = Len(submitted) - Len(pending)
    BY <1>1, Sequenced DEF Started
  <2>2. \A r \in Requests : Len(answers[r]) \in {0, 1} /\ (r \in Answered <=> Len(answers[r]) = 1)
    <3> TAKE r \in Requests
    <3>1. answers[r] \in Seq(Answer) /\ Len(answers[r]) \in {0, 1}
      BY <2>0 DEF QTypeOK, Accounted
    <3>2. answers[r] = <<>> <=> Len(answers[r]) = 0
      BY <3>1, EmptySeq
    <3>3. r \in Answered <=> answers[r] # <<>>
      BY DEF Answered
    <3>4. CASE Len(answers[r]) = 0
      BY <3>1, <3>2, <3>3, <3>4
    <3>5. CASE Len(answers[r]) = 1
      BY <3>1, <3>2, <3>3, <3>5
    <3> QED
      BY <3>1, <3>4, <3>5
\* What waits is what has been submitted and is not done.
  <2>3. ASSUME ~closed
        PROVE  /\ {submitted[i] : i \in DOMAIN submitted} = Answered \cup WaitingOnes
               /\ Answered \cap WaitingOnes = {}
               /\ AnsweredInOrder
    <3>0. /\ Len(pending) <= Len(submitted)
          /\ \A i \in DOMAIN pending : pending[i] = submitted[Started + i]
          /\ active # Nothing => Started \in DOMAIN submitted /\ active.req = submitted[Started]
          /\ \A i, j \in DOMAIN submitted : submitted[i] = submitted[j] => i = j
      BY <2>0, <2>3 DEF Ordered
    <3>1. PICK n \in Nat, m \in Nat, s \in Nat :
              n = Len(submitted) /\ m = Len(pending) /\ s = Started /\ n = s + m
      <4>1. Started \in Nat /\ Len(submitted) = Started + Len(pending)
        BY <2>1, <3>0
      <4> QED
        BY <2>1, <4>1
    <3>2. \A j \in 1 .. m : s + j \in DOMAIN submitted /\ pending[j] = submitted[s + j]
      BY <2>1, <3>0, <3>1
    <3>3. Done = IF active = Nothing THEN s ELSE s - 1
      BY <3>1 DEF Done
    <3>4. \A i \in DOMAIN submitted : submitted[i] \in Answered <=> i <= Done
      BY <2>0, <2>1, <2>2, <2>3 DEF Accounted
    <3>5. ASSUME NEW x \in WaitingOnes
          PROVE  \E i \in DOMAIN submitted : submitted[i] = x /\ ~ (i <= Done)
      <4>1. ASSUME NEW j \in DOMAIN pending, x = pending[j]
            PROVE  \E i \in DOMAIN submitted : submitted[i] = x /\ ~ (i <= Done)
        <5>1. j \in 1 .. m
          BY <2>1, <3>1
        <5>2. s + j \in DOMAIN submitted /\ submitted[s + j] = x /\ ~ (s + j <= Done)
          BY <3>2, <3>3, <4>1, <5>1
        <5> QED
          BY <5>2
      <4>2. ASSUME active # Nothing, x = active.req
            PROVE  \E i \in DOMAIN submitted : submitted[i] = x /\ ~ (i <= Done)
        <5>1. s \in DOMAIN submitted /\ submitted[s] = x /\ ~ (s <= Done)
          BY <3>0, <3>1, <3>3, <4>2
        <5> QED
          BY <5>1
      <4> QED
        BY <4>1, <4>2 DEF WaitingOnes
    <3>6. ASSUME NEW i \in DOMAIN submitted, ~ (i <= Done) PROVE submitted[i] \in WaitingOnes
      <4>1. i \in 1 .. n
        BY <2>1, <3>1
      <4>2. CASE active # Nothing /\ i = s
        BY <3>0, <3>1, <4>2 DEF WaitingOnes
      <4>3. CASE i - s \in 1 .. m
        <5>1. s + (i - s) = i
          BY <4>1
        <5>2. i - s \in DOMAIN pending /\ pending[i - s] = submitted[i]
          BY <2>1, <3>1, <3>2, <4>3, <5>1
        <5> QED
          BY <5>2 DEF WaitingOnes
      <4> QED
        BY <3>1, <3>3, <3>6, <4>1, <4>2, <4>3
    <3>7. \A r \in Answered : \E i \in DOMAIN submitted : submitted[i] = r
      BY <2>0, <2>2 DEF Answered, Accounted
    <3>8. {submitted[i] : i \in DOMAIN submitted} = Answered \cup WaitingOnes
      BY <3>4, <3>5, <3>6, <3>7
    <3>9. Answered \cap WaitingOnes = {}
      BY <3>4, <3>5
    <3>10. AnsweredInOrder
      <4> SUFFICES ASSUME NEW i \in DOMAIN submitted, NEW j \in DOMAIN submitted,
                          i < j, submitted[j] \in Answered
                   PROVE  submitted[i] \in Answered
        BY DEF AnsweredInOrder
      <4>1. j <= Done /\ i \in Int /\ j \in Int /\ Done \in Int
        BY <2>1, <3>3, <3>4
      <4>2. i <= Done
        BY <4>1
      <4> QED
        BY <3>4, <4>2
    <3> QED
      BY <3>8, <3>9, <3>10
  <2>4. ASSUME closed
        PROVE  /\ {submitted[i] : i \in DOMAIN submitted} = Answered \cup WaitingOnes
               /\ Answered \cap WaitingOnes = {}
               /\ AnsweredInOrder
    <3>1. active = Nothing
      BY <1>1, <2>4 DEF QInv, QueueDisciplined, PausedIsIdle
    <3>2. WaitingOnes = {}
      BY <2>0, <2>4, <3>1 DEF Accounted, WaitingOnes
    <3>3. \A i \in DOMAIN submitted : submitted[i] \in Answered
      BY <2>0, <2>1, <2>2, <2>4 DEF Accounted
    <3>4. \A r \in Answered : \E i \in DOMAIN submitted : submitted[i] = r
      BY <2>0, <2>2 DEF Answered, Accounted
    <3> QED
      BY <3>2, <3>3, <3>4 DEF AnsweredInOrder
  <2>5. /\ {submitted[i] : i \in DOMAIN submitted} = Answered \cup WaitingOnes
        /\ Answered \cap WaitingOnes = {}
        /\ AnsweredInOrder
    BY <2>3, <2>4
  <2>6. \A r \in Requests : Len(answers[r]) <= 1
    <3> TAKE r \in Requests
    <3>1. Len(answers[r]) = 0 \/ Len(answers[r]) = 1
      BY <2>2
    <3>2. CASE Len(answers[r]) = 0
      BY <3>2
    <3>3. CASE Len(answers[r]) = 1
      BY <3>3
    <3> QED
      BY <3>1, <3>2, <3>3
  <2> QED
    BY <2>0, <2>5, <2>6 DEF AnswersAccounted, ExactlyOneAnswer
<1> QED
  BY QInvHolds, <1>1, PTL

\* As long as a process makes no more requests than there are screen numbers,
\* of which ScreenNumberPool has 9000, a late reply never passes for the answer
\* of a later request of the same name: no number comes round again, and
\* _handle_tr_data compares it.
THEOREM RepliesNotMistaken ==
    ASSUME IsFiniteSet(Requests), Cardinality(Requests) <= Screens
    PROVE  QSpec => NoForeignAnswer
<1> DEFINE Own == \A r \in Requests :
                      answers[r] = <<>> /\ answers'[r] = <<"success">>
                        => \E reply \in owed \ owed' : reply.req = r
<1>1. QInv => Len(submitted) <= Screens
  <2> SUFFICES ASSUME QInv PROVE Len(submitted) <= Screens
    OBVIOUS
  <2>1. PICK n \in Nat : /\ n = Len(submitted) /\ DOMAIN submitted = 1 .. n
                         /\ \A i \in 1 .. n : submitted[i] \in Requests
                         /\ \A i, j \in 1 .. n : submitted[i] = submitted[j] => i = j
    BY Sequenced DEF QInv, Ordered
  <2>2. submitted \in [1 .. n -> Requests]
    <3>1. submitted \in Seq(Requests)
      BY DEF QInv, QTypeOK
    <3> QED
      BY <2>1, <3>1
  <2>3. IsInjective(submitted)
    BY <2>1, <2>2 DEF IsInjective
  <2>4. submitted \in Injection(1 .. n, Requests)
    BY <2>2, <2>3 DEF Injection
  <2>5. Cardinality(1 .. n) <= Cardinality(Requests)
    BY <2>4, FS_Injection
  <2>6. Cardinality(1 .. n) = n
    BY FS_Interval
  <2>7. Cardinality(Requests) \in Nat
    BY FS_CardinalityType
  <2>8. n <= Screens
    BY <2>5, <2>6, <2>7, QueueAssumption
  <2> QED
    BY <2>1, <2>8
<1>2. QInv /\ [QNext]_qvars => Own
  <2> SUFFICES ASSUME QInv, [QNext]_qvars, NEW r \in Requests,
                      answers[r] = <<>>, answers'[r] = <<"success">>
               PROVE  \E reply \in owed \ owed' : reply.req = r
    OBVIOUS
  <2>1. answers' # answers
    OBVIOUS
  <2>2. ASSUME NEW R, AnswerAll(R, "error") PROVE FALSE
    <3>1. answers'[r] = Append(answers[r], "error") \/ answers'[r] = answers[r]
      BY <2>2 DEF AnswerAll
    <3>2. Append(<<>>, "error") = <<"error">>
      OBVIOUS
    <3> QED
      BY <3>1, <3>2
  <2>3. ASSUME NEW reply \in owed, Reply(reply), LastPage(reply) PROVE reply.req = r /\ reply \notin owed'
    <3>1. active # Nothing /\ reply.screen = active.screen /\ AnswerAll({active.req}, "success")
      BY <2>3 DEF LastPage, Matches
    <3>2. r = active.req
      <4>1. r \notin {active.req} => answers'[r] = answers[r]
        BY <3>1 DEF AnswerAll
      <4>2. <<>> # <<"success">>
        OBVIOUS
      <4> QED
        BY <4>1, <4>2
    <3>3. reply.req = submitted[Started] /\ active.req = submitted[Started]
      BY <1>1, <3>1 DEF QInv, Ordered, Screened
    <3> QED
      BY <2>3, <3>2, <3>3 DEF Reply
  <2>4. ASSUME NEW reply \in owed, Reply(reply) PROVE \E re \in owed \ owed' : re.req = r
    <3>1. CASE LastPage(reply)
      BY <2>3, <2>4, <3>1
    <3>2. CASE BadPage(reply)
      BY <2>2, <3>2 DEF BadPage, FinishError
    <3>3. CASE MorePages(reply) \/ Ignored(reply)
      BY <2>1, <3>3 DEF MorePages, Ignored
    <3> QED
      BY <2>4, <3>1, <3>2, <3>3 DEF Reply
  <2>5. ASSUME NEW x \in Requests, Submit(x) PROVE FALSE
    BY <2>1, <2>5 DEF Submit
  <2>6. ASSUME NEW result, Dispatch(result) PROVE FALSE
    BY <2>1, <2>2, <2>6 DEF Dispatch, FinishError
  <2>7. CASE TimesOut
    BY <2>2, <2>7 DEF TimesOut, FinishError
  <2>8. CASE Observe \/ Pause
    BY <2>1, <2>2, <2>8 DEF Observe, Pause, PauseEffect
  <2>9. CASE Close
    BY <2>2, <2>9 DEF Close
  <2>10. CASE Resume \/ QTimePasses \/ UNCHANGED qvars
    BY <2>1, <2>10 DEF Resume, QTimePasses, qvars
  <2>11. ASSUME NEW reply \in owed, ReplyLost(reply) PROVE FALSE
    BY <2>1, <2>11 DEF ReplyLost
  <2> QED
    BY <2>4, <2>5, <2>6, <2>7, <2>8, <2>9, <2>10, <2>11 DEF QNext, AnyDispatch
<1> QED
  BY QInvHolds, <1>2, PTL DEF QSpec, NoForeignAnswer

-----------------------------------------------------------------------------
(***************************************************************************)
(* The session of the full-universe collection.                            *)
(***************************************************************************)

Fields == {"phase", "done", "failed", "pass", "targets", "timeouts"}

IsProgress(p) ==
    /\ p = [f \in Fields |-> p[f]]
    /\ p.done = [k \in Kinds |-> p.done[k]]
    /\ p.failed = [k \in Kinds |-> p.failed[k]]

\* The variables are records and functions of the shape the actions update.
Shape ==
    /\ IsProgress(disk) /\ IsProgress(mem)
    /\ saved = [k \in Kinds |-> saved[k]]
    /\ damaged = [k \in Kinds |-> damaged[k]]
    /\ kind \in Kinds

\* An invocation has a progress in memory.
Working == at \notin {"off", "created"}

\* A session is absent only before its first invocation, and empty until it has
\* been created.
Begun ==
    /\ disk.phase = "absent" \/ at = "created"
        => \A k \in Kinds : disk.done[k] = {} /\ disk.failed[k] = {}
    /\ Working => mem.phase # "absent"

\* What is listed as completed, on disk or in memory, has its artifacts, and so
\* has the code that is about to be listed.
Backed ==
    /\ \A k \in Kinds : disk.done[k] \subseteq saved[k] \cup damaged[k]
    /\ at \in {"saved", "cleared"} => Current \in saved[kind]
    /\ Working => \A k \in Kinds : mem.done[k] \subseteq saved[k] \cup damaged[k]

\* The code that is no failure any more and not yet listed as completed.
Unlisted(k) == IF at = "cleared" /\ k = kind THEN {Current} ELSE {}

\* The memory has lost nothing that the disk holds, but for that code.
Kept ==
    Working => \A k \in Kinds :
        /\ disk.done[k] \ damaged[k] \subseteq mem.done[k]
        /\ disk.failed[k] \subseteq mem.failed[k] \cup mem.done[k] \cup Unlisted(k)

KInv == Shape /\ Begun /\ Backed /\ Kept

\* Before the first invocation there is nothing to keep.
LEMMA InitKInv == CInit => KInv
  BY DEF CInit, KInv, Shape, Begun, Backed, Kept, Working, IsProgress, Fresh, None, Kinds, Fields

\* What the three ways to begin an invocation have in common: the progress it
\* begins with is that of the disk without what can no longer be read.
LEMMA EnterKInv ==
    ASSUME KInv, NEW m, NEW p, NEW codes, Enter(m, p, codes),
           IsProgress(p), saved' = [k \in Kinds |-> saved'[k]],
           \A k \in Kinds : p.done[k] \subseteq saved'[k] \cup damaged[k]
    PROVE  KInv'
<1> USE DEF KInv, Shape, IsProgress, Kinds, Fields, Enter
<1>1. mem' = [p EXCEPT !.phase = "price", !.timeouts = 0] /\ disk' = mem'
  OBVIOUS
<1>2. IsProgress(mem') /\ mem'.done = p.done /\ mem'.failed = p.failed /\ mem'.phase = "price"
  BY <1>1
<1>3. damaged' = damaged /\ kind' = "price"
  OBVIOUS
<1>4. Shape'
  BY <1>1, <1>2, <1>3
<1>5. Begun'
  BY <1>1, <1>2 DEF Begun, Working
<1>6. Backed'
  BY <1>1, <1>2, <1>3 DEF Backed, Working
<1>7. Kept'
  BY <1>1, <1>2, <1>3 DEF Kept, Unlisted
<1> QED
  BY <1>4, <1>5, <1>6, <1>7

\* A new session begins with what earlier ones have, artifacts and list alike.
LEMMA StartKInv == KInv /\ StartSession => KInv'
<1> SUFFICES ASSUME KInv, StartSession PROVE KInv'
  OBVIOUS
<1>1. PICK restored :
        LET p == [Fresh EXCEPT !.done["price"] = restored, !.pass = restored \cap Passing]
        IN  /\ saved' = [None EXCEPT !["price"] = restored]
            /\ Enter("new", p, PendingPrices(p))
  BY DEF StartSession
<1> DEFINE p == [Fresh EXCEPT !.done["price"] = restored, !.pass = restored \cap Passing]
<1>2. p.done = [Fresh.done EXCEPT !["price"] = restored] /\ p.failed = Fresh.failed
  BY DEF Fresh
<1>3. IsProgress(p)
  <2>1. p = [f \in Fields |-> p[f]]
    BY DEF Fresh, Fields
  <2>2. Fresh.done = None /\ Fresh.failed = None
    BY DEF Fresh
  <2> HIDE DEF p
  <2>3. p.done = [k \in Kinds |-> p.done[k]] /\ p.failed = [k \in Kinds |-> p.failed[k]]
    BY <1>2, <2>2 DEF None, Kinds
  <2> QED
    BY <2>1, <2>3 DEF IsProgress
<1>4. saved' = [None EXCEPT !["price"] = restored]
  BY <1>1
<1>5. saved' = [k \in Kinds |-> saved'[k]] /\ \A k \in Kinds : p.done[k] \subseteq saved'[k]
  BY <1>2, <1>4 DEF Fresh, None, Kinds
<1>6. Enter("new", p, PendingPrices(p))
  BY <1>1
<1> HIDE DEF p
<1> QED
  BY <1>3, <1>5, <1>6, EnterKInv

\* A resume or a repair begins with what it can still read.
LEMMA RereadKInv ==
    ASSUME KInv, NEW m, NEW codes, Enter(m, Reread(disk), codes), UNCHANGED saved
    PROVE  KInv'
<1> DEFINE p == Reread(disk)
<1>1. IsProgress(p)
  BY DEF KInv, Shape, Reread, IsProgress, Kinds, Fields
<1>2. \A k \in Kinds : p.done[k] \subseteq saved'[k]
  BY DEF KInv, Shape, Reread, Accepted, IsProgress, Kinds, Fields
<1>3. saved' = [k \in Kinds |-> saved'[k]]
  BY DEF KInv, Shape
<1> HIDE DEF p
<1> QED
  BY <1>1, <1>2, <1>3, EnterKInv DEF p

\* Every step keeps the invariant: what it lists as completed it has saved
\* before, and what it writes to the disk the memory holds.
LEMMA StepKInv == KInv /\ [CNext]_cvars => KInv'
<1> SUFFICES ASSUME KInv, [CNext]_cvars PROVE KInv'
  OBVIOUS
<1>1. CASE StartSession
  BY <1>1, StartKInv
<1>2. CASE ResumeSession
  BY <1>2, RereadKInv DEF ResumeSession
<1>3. CASE RepairSession
  BY <1>3, RereadKInv DEF RepairSession
<1> USE DEF KInv, Shape, Begun, Backed, Kept, Working, Unlisted, IsProgress, Kinds, Fields, settled
<1>4. CASE LoginFails \/ CreateSession
  BY <1>4 DEF LoginFails, CreateSession, Begins, Current, Fresh, None
<1>5. CASE Skip
  BY <1>5 DEF Skip
<1>6. CASE Collect
  <2>1. Current' = Current
    BY <1>6 DEF Collect, Current
  <2>2. /\ at = "loop" /\ at' = "saved" /\ saved' = [saved EXCEPT ![kind] = @ \cup {Current}]
        /\ UNCHANGED <<disk, mem, kind, damaged>>
    BY <1>6 DEF Collect
  <2>3. Current \in saved'[kind] /\ \A k \in Kinds : saved[k] \subseteq saved'[k]
    BY <2>2
  <2>4. Shape' /\ Begun' /\ Kept'
    BY <2>2
  <2>5. Backed'
    BY <2>1, <2>2, <2>3
  <2> QED
    BY <2>4, <2>5
<1>clear. CASE Clear
  <2>1. Current' = Current
    BY <1>clear DEF Clear, Current
  <2>2. /\ at = "saved" /\ at' = "cleared" /\ mem' = [mem EXCEPT !.failed[kind] = @ \ {Current}]
        /\ UNCHANGED <<disk, saved, kind, damaged>>
    BY <1>clear DEF Clear
  <2>3. /\ IsProgress(mem') /\ mem'.done = mem.done /\ mem'.phase = mem.phase
        /\ \A k \in Kinds : mem.failed[k] \subseteq mem'.failed[k] \cup Unlisted(k)'
    BY <2>1, <2>2
  <2>4. \A k \in Kinds : Unlisted(k) = {}
    BY <2>2
  <2>5. Shape' /\ Begun' /\ Backed'
    BY <2>1, <2>2, <2>3
  <2>6. Kept'
    BY <2>2, <2>3, <2>4
  <2> QED
    BY <2>5, <2>6
<1>list. CASE List
  <2>2. /\ at = "cleared" /\ at' = "listed" /\ Current \in saved[kind]
        /\ mem' = [mem EXCEPT !.done[kind] = @ \cup {Current}, !.timeouts = 0]
        /\ UNCHANGED <<disk, saved, kind, damaged>>
    BY <1>list DEF List
  <2>3. /\ IsProgress(mem') /\ mem'.failed = mem.failed /\ mem'.phase = mem.phase
        /\ \A k \in Kinds : /\ mem.done[k] \subseteq mem'.done[k]
                            /\ Unlisted(k) \subseteq mem'.done[k]
                            /\ mem'.done[k] \subseteq saved[k] \cup damaged[k]
    BY <2>2
  <2>5. Shape' /\ Begun' /\ Backed'
    BY <2>2, <2>3
  <2>6. Kept'
    BY <2>2, <2>3
  <2> QED
    BY <2>5, <2>6
<1>7. CASE Settle
  BY <1>7 DEF Settle
<1>8. CASE Fail
  BY <1>8 DEF Fail
<1>9. CASE Journal
  BY <1>9 DEF Journal
<1>10. CASE Checkpoint
  BY <1>10 DEF Checkpoint, Verdict
<1>11. CASE SelectFlows
  <2> DEFINE targets == IF mode = "repair" THEN mem.targets \cup FlowTargets(mem)
                        ELSE FlowTargets(mem)
  <2>1. PICK restored :
          /\ saved' = [saved EXCEPT !["flow"] = @ \cup restored]
          /\ mem' = [mem EXCEPT !.phase = "flow", !.targets = targets,
                                !.done["flow"] = @ \cup restored]
          /\ disk' = IF mode = "new" THEN mem' ELSE disk
    BY <1>11 DEF SelectFlows
  <2> HIDE DEF targets
  <2>2. at = "loop" /\ at' = at /\ kind' = "flow" /\ damaged' = damaged
    BY <1>11 DEF SelectFlows
  <2>3. /\ mem'.phase = "flow" /\ mem'.failed = mem.failed
        /\ mem'.done["price"] = mem.done["price"]
        /\ mem'.done["flow"] = mem.done["flow"] \cup restored
        /\ IsProgress(mem')
    BY <2>1
  <2>4. saved'["price"] = saved["price"] /\ saved'["flow"] = saved["flow"] \cup restored
    BY <2>1
  <2>5. Shape'
    BY <2>1, <2>2, <2>3
  <2>6. Begun'
    BY <2>1, <2>2, <2>3
  <2>7. \A k \in Kinds : mem'.done[k] \subseteq saved'[k] \cup damaged[k]
    BY <2>2, <2>3, <2>4
  <2>8. \A k \in Kinds : disk.done[k] \subseteq saved'[k] \cup damaged[k]
    BY <2>4
  <2>9. Backed'
    BY <2>1, <2>2, <2>7, <2>8
  <2>10. \A k \in Kinds : /\ disk.done[k] \ damaged[k] \subseteq mem'.done[k]
                          /\ disk.failed[k] \subseteq mem'.failed[k] \cup mem'.done[k]
    BY <2>2, <2>3
  <2>11. Kept'
    BY <2>1, <2>2, <2>10
  <2> QED
    BY <2>5, <2>6, <2>9, <2>11
<1>12. CASE MakeReport
  BY <1>12 DEF MakeReport
<1>13. CASE Complete
  BY <1>13 DEF Complete
<1>14. CASE Interrupt
  BY <1>14 DEF Interrupt
<1>15. CASE Dies
  BY <1>15 DEF Dies
<1>16. CASE Damage
  <2> PICK k \in Kinds : \E c \in saved[k] :
          /\ saved' = [saved EXCEPT ![k] = @ \ {c}]
          /\ damaged' = [damaged EXCEPT ![k] = @ \cup {c}]
    BY <1>16 DEF Damage
  <2>1. PICK c \in saved[k] :
          /\ saved' = [saved EXCEPT ![k] = @ \ {c}]
          /\ damaged' = [damaged EXCEPT ![k] = @ \cup {c}]
    OBVIOUS
  <2>2. at = "off" /\ at' = at /\ UNCHANGED <<disk, mem, kind>>
    BY <1>16 DEF Damage
  <2>3. \A j \in Kinds : saved[j] \cup damaged[j] \subseteq saved'[j] \cup damaged'[j]
    BY <2>1
  <2>4. Shape'
    BY <2>1, <2>2
  <2>5. Begun' /\ Kept'
    BY <2>2
  <2>6. Backed'
    BY <2>2, <2>3
  <2> QED
    BY <2>4, <2>5, <2>6
<1>17. CASE NextDay
  BY <1>17 DEF NextDay
<1>18. CASE UNCHANGED cvars
  BY <1>18 DEF cvars, Current
<1> QED
  BY <1>1, <1>2, <1>3, <1>4, <1>5, <1>6, <1>clear, <1>list, <1>7, <1>8, <1>9, <1>10,
     <1>11, <1>12, <1>13, <1>14, <1>15, <1>16, <1>17, <1>18
     DEF CNext, Turn, Kill, JournalMissing
-----------------------------------------------------------------------------

\* One step: the checkpoint is replaced by what is left of it, or by a memory
\* that has kept everything of it.
LEMMA StepForgets ==
    KInv /\ [CNext]_cvars => [\A k \in Kinds :
          /\ disk.done[k] \ disk'.done[k] \subseteq damaged[k] \cup (saved[k] \ Accepted(k))
          /\ disk.failed[k] \ disk'.failed[k] \subseteq disk'.done[k] \cup cut']_cvars
<1> DEFINE Act == \A k \in Kinds :
          /\ disk.done[k] \ disk'.done[k] \subseteq damaged[k] \cup (saved[k] \ Accepted(k))
          /\ disk.failed[k] \ disk'.failed[k] \subseteq disk'.done[k] \cup cut'
<1> SUFFICES ASSUME KInv, CNext PROVE Act
  OBVIOUS
<1>1. CASE StartSession \/ CreateSession
  BY <1>1 DEF StartSession, CreateSession, KInv, Begun
<1>2. ASSUME NEW m, NEW codes, Enter(m, Reread(disk), codes) PROVE Act
  <2>1. /\ disk'.failed = disk.failed
        /\ \A k \in Kinds : disk'.done[k] = disk.done[k] \cap Accepted(k)
    BY <1>2 DEF KInv, Shape, IsProgress, Fields, Kinds, Enter, Reread
  <2> QED
    BY <2>1 DEF KInv, Backed
<1>3. CASE ResumeSession \/ RepairSession
  BY <1>2, <1>3 DEF ResumeSession, RepairSession
<1>4. CASE UNCHANGED disk
  BY <1>4
<1>5. CASE /\ Working /\ disk'.done = mem.done /\ disk'.failed = mem.failed
           /\ \A k \in Kinds : Unlisted(k) \subseteq cut'
  BY <1>5 DEF KInv, Kept
<1>6. CASE SelectFlows
  <2> DEFINE targets == IF mode = "repair" THEN mem.targets \cup FlowTargets(mem)
                        ELSE FlowTargets(mem)
  <2>1. PICK restored :
          /\ mem' = [mem EXCEPT !.phase = "flow", !.targets = targets,
                                !.done["flow"] = @ \cup restored]
          /\ disk' = IF mode = "new" THEN mem' ELSE disk
    BY <1>6 DEF SelectFlows
  <2> HIDE DEF targets
  <2>2. Working /\ \A k \in Kinds : Unlisted(k) = {}
    BY <1>6 DEF SelectFlows, Working, Unlisted
  <2>3. mem'.failed = mem.failed /\ \A k \in Kinds : mem.done[k] \subseteq mem'.done[k]
    BY <2>1 DEF KInv, Shape, IsProgress, Fields, Kinds
  <2> QED
    BY <2>1, <2>2, <2>3 DEF KInv, Kept
<1>7. CASE Checkpoint \/ Complete \/ Interrupt
  <2>1. disk'.done = mem.done /\ disk'.failed = mem.failed
    BY <1>7 DEF Checkpoint, Complete, Interrupt, KInv, Shape, IsProgress, Fields
  <2>2. Working /\ \A k \in Kinds : Unlisted(k) \subseteq cut'
    BY <1>7 DEF Checkpoint, Complete, Interrupt, Working, Unlisted, HalfListed
  <2> QED
    BY <1>5, <2>1, <2>2
<1>8. CASE \/ LoginFails \/ Skip \/ Collect \/ Clear \/ List \/ Settle \/ Fail \/ Journal
           \/ MakeReport \/ Kill \/ JournalMissing \/ Damage \/ NextDay
  BY <1>4, <1>8 DEF LoginFails, Skip, Collect, Clear, List, Settle, Fail, Journal, MakeReport,
                    Kill, JournalMissing, Dies, Damage, NextDay
<1> QED
  BY <1>1, <1>3, <1>6, <1>7, <1>8 DEF CNext, Turn

\* Wherever it is started, interrupted, killed or damaged, what a session lists
\* as completed, in its checkpoint and in the memory SIGINT would save, has its
\* artifacts, unless they were damaged.
THEOREM BackedAlways == CSpec => []Backed
<1>1. CInit => KInv
  BY InitKInv
<1>2. KInv /\ [CNext]_cvars => KInv'
  BY StepKInv
<1>3. KInv => Backed
  BY DEF KInv
<1> QED
  BY <1>1, <1>2, <1>3, PTL DEF CSpec

\* Over all its invocations a session forgets a completed code only if its
\* artifacts were damaged or hold no row, and a failure only if the code is
\* completed, or SIGINT cut its turn.
THEOREM Forgotten == CSpec => NothingForgotten
<1> DEFINE Act == \A k \in Kinds :
          /\ disk.done[k] \ disk'.done[k] \subseteq damaged[k] \cup (saved[k] \ Accepted(k))
          /\ disk.failed[k] \ disk'.failed[k] \subseteq disk'.done[k] \cup cut'
<1>1. CInit => KInv
  BY InitKInv
<1>2. KInv /\ [CNext]_cvars => KInv'
  BY StepKInv
<1>3. KInv /\ [CNext]_cvars => [Act]_cvars
  BY StepForgets
<1> QED
  BY <1>1, <1>2, <1>3, PTL DEF CSpec, NothingForgotten
-----------------------------------------------------------------------------
(***************************************************************************)
(* The records of a session agree.                                         *)
(*                                                                         *)
(* The checkpoint, the artifacts, the journal and the report are written   *)
(* one after the other, so that between two steps of a turn they disagree  *)
(* about the code that is being handled (Halfway): the journal first with  *)
(* the memory (Due), then with the disk (Written).  Where it ends there, a *)
(* cut turn leaves them so (cut).  About every other code they agree.      *)
(***************************************************************************)

\* The code whose turn has begun and has not ended.
Halfway ==
    IF at \in {"saved", "cleared", "listed", "failed", "tried"} THEN {Current} ELSE {}

\* The step decides the phase that memory is in; the disk is in a phase of the
\* loops as long as an invocation runs, and lists nothing that memory does not.
Underway ==
    /\ disk.phase = "absent" => at = "off"
    /\ disk.phase = "absent" \/ at = "created" => disk.failed = None
    /\ Working =>
        /\ disk.phase \in Kinds
        /\ mem.phase = kind \/ (at = "tried" /\ mem.phase = "connection_lost")
        /\ at # "tried" => mem.timeouts < BreakerLimit
        /\ \A k \in Kinds : disk.done[k] \subseteq mem.done[k]
    /\ at \in {"saved", "cleared", "listed", "failed", "tried"} => todo # {}
    /\ at = "completing" => kind = "flow" /\ todo = {}
    /\ at = "saved" /\ mode # "repair" => Current \notin mem.failed[kind]
    /\ at = "cleared" => Current \notin mem.failed[kind]
    /\ at = "listed" => Current \in mem.done[kind] /\ Current \notin mem.failed[kind]
    /\ at = "failed" => Current \in mem.failed[kind]
    /\ at = "tried" => Current \in mem.done[kind] \cup mem.failed[kind]

\* What is still to come has not been answered; a loop that does not repair
\* has tried, or will try, every code and every target.
Asked ==
    Working =>
        /\ kind = "price" =>
            /\ todo \cap mem.done["price"] \subseteq Halfway
            /\ mode # "repair" => todo \cap mem.failed["price"] \subseteq Halfway
        /\ kind = "flow" => todo \subseteq Passing
        /\ mode # "repair" =>
            /\ kind = "price" => Codes \subseteq mem.done["price"] \cup mem.failed["price"] \cup todo
            /\ kind = "flow" =>
                /\ Codes \subseteq mem.done["price"] \cup mem.failed["price"]
                /\ mem.targets \subseteq mem.done["flow"] \cup mem.failed["flow"] \cup todo
                /\ mem.targets = mem.pass \cap saved["price"]

\* The code whose price is there and not yet put through the hard filter.
Unfiltered == IF at = "listed" /\ kind = "price" THEN {Current} ELSE {}

\* The codes that pass are those of the completed prices, and only such codes
\* have flows.
Filtered ==
    /\ disk.pass \subseteq disk.done["price"] \cap Passing
    /\ disk.done["price"] \cap Passing \subseteq disk.pass \cup cut
    /\ disk.targets \cup disk.failed["flow"] \cup saved["flow"] \subseteq Passing
    /\ Working =>
        /\ mem.pass \subseteq mem.done["price"] \cap Passing
        /\ mem.done["price"] \cap Passing \subseteq mem.pass \cup cut \cup Unfiltered
        /\ mem.targets \cup mem.failed["flow"] \subseteq Passing

\* The entry of the journal that the turn has not yet written or resolved.
Due ==
    IF at = "failed" \/ (at \in {"cleared", "listed"} /\ mode = "repair")
    THEN {<<Current, kind>>} ELSE {}

\* The entry that it has written or resolved, and of which the disk says nothing.
Written ==
    IF at = "tried" /\ (mode = "repair" \/ Current \in mem.failed[kind])
    THEN {<<Current, kind>>} ELSE {}

\* The journal holds the failures of the memory, but for the entry that is due,
\* and those of the disk, but for the entry that is written.
Journalled ==
    /\ \A c \in Codes \ cut, k \in Kinds :
          <<c, k>> \in Written \/ (c \in disk.failed[k] <=> <<c, k>> \in journal)
    /\ Working => \A c \in Codes \ cut, k \in Kinds :
          <<c, k>> \in Due \/ (c \in mem.failed[k] <=> <<c, k>> \in journal)
    /\ ~recorded => journal = {}
    /\ ~recorded /\ cut = {} => mode # "repair"

\* What a completed session has tried and reported, in terms that survive the
\* damages that follow.
Reported ==
    /\ at = "completing" /\ mem.failed = None =>
        /\ report.made /\ report.priced = mem.done["price"]
        /\ report.codes = mem.pass \cap saved["price"]
        /\ report.chosen \subseteq report.codes
    /\ disk.phase = "completed" =>
        /\ at = "off"
        /\ mode # "repair" =>
            /\ Codes \subseteq disk.done["price"] \cup disk.failed["price"]
            /\ disk.targets \subseteq disk.done["flow"] \cup disk.failed["flow"]
            /\ disk.pass \cap saved["price"] \subseteq disk.targets
            /\ disk.targets \subseteq disk.pass
        /\ disk.failed = None =>
            /\ report.made /\ report.priced = disk.done["price"]
            /\ disk.pass \cap saved["price"] \subseteq report.codes
            /\ disk.pass \ damaged["price"] \subseteq report.codes
            /\ report.codes \subseteq disk.pass
            /\ report.chosen \subseteq report.codes

FInv == CTypeOK /\ Underway /\ Asked /\ Filtered /\ Journalled /\ Reported

\* Before the first invocation the records are empty.
LEMMA InitFInv == CInit => FInv
<1> SUFFICES ASSUME CInit PROVE FInv
  OBVIOUS
<1> USE DEF CInit, Fresh, None, NoReport, Kinds
<1>1. CTypeOK
  <2>1. disk \in Progress /\ mem \in Progress
    BY SessionAssumption DEF Progress, Phases
  <2>2. None \in [Kinds -> SUBSET Codes]
    OBVIOUS
  <2>3. 0 \in 0 .. MaxInvocations
    BY SessionAssumption
  <2> QED
    BY <2>1, <2>2, <2>3 DEF CTypeOK
<1>2. Underway /\ Asked /\ Filtered /\ Journalled /\ Reported
  BY DEF Underway, Asked, Filtered, Journalled, Written, Reported, Working
<1> QED
  BY <1>1, <1>2 DEF FInv

\* The code whose turn it is is one of those to come.
LEMMA TurnType == ASSUME CTypeOK, todo # {} PROVE Current \in todo /\ Current \in Codes
<1> DEFINE R == OpToRel(<, Nat)
<1>1. \A y, x \in Nat : y < x => <<y, x>> \in R
  BY DEF OpToRel
<1>2. IsWellFoundedOn(R, Nat)
  BY NatLessThanWellFounded
<1>3. todo \subseteq Codes /\ todo \subseteq Nat
  BY SessionAssumption DEF CTypeOK, Codes
<1> HIDE DEF R
<1>4. PICK x \in todo : \A y \in todo : ~ (<<y, x>> \in R)
  BY <1>2, <1>3, WFMin
<1>5. ASSUME NEW y \in todo PROVE x =< y
  <2>1. x \in Nat /\ y \in Nat
    BY <1>3
  <2>2. ~(y < x)
    BY <1>1, <1>4, <2>1
  <2> QED
    BY <2>1, <2>2
<1> QED
  BY <1>3, <1>5 DEF Current, Min

\* The progress with which a new session begins.
LEMMA FreshType == Fresh \in Progress
  BY SessionAssumption DEF Fresh, None, Progress, Phases, Kinds

\* The progress with which a resume or a repair begins.
LEMMA RereadFields ==
    ASSUME CTypeOK
    PROVE  /\ Reread(disk) \in Progress
           /\ \A k \in Kinds : Reread(disk).done[k] = disk.done[k] \cap Accepted(k)
           /\ Reread(disk).failed = disk.failed
           /\ Reread(disk).pass = disk.pass \ (disk.done["price"] \ saved["price"])
           /\ Reread(disk).targets = disk.targets
<1>1. disk \in Progress
  BY DEF CTypeOK
<1>2. "price" \in Kinds /\ disk.done \in [Kinds -> SUBSET Codes]
  BY <1>1 DEF Progress, Kinds
<1>3. /\ Reread(disk).done = [k \in Kinds |-> disk.done[k] \cap Accepted(k)]
      /\ Reread(disk).failed = disk.failed
      /\ Reread(disk).pass = disk.pass \ (disk.done["price"] \ saved["price"])
      /\ Reread(disk).targets = disk.targets
  BY <1>1, <1>2 DEF Reread, Accepted, Progress
<1>4. Reread(disk).done \in [Kinds -> SUBSET Codes]
  BY <1>2, <1>3
<1>5. Reread(disk) = [disk EXCEPT !.done = Reread(disk).done, !.pass = Reread(disk).pass]
  BY <1>1, <1>3 DEF Reread, Progress
<1>6. Reread(disk).pass \in SUBSET Codes
  BY <1>1, <1>3 DEF Progress
<1>7. Reread(disk) \in Progress
  <2> DEFINE d == Reread(disk).done
             q == Reread(disk).pass
  <2>1. d \in [Kinds -> SUBSET Codes] /\ q \in SUBSET Codes
    BY <1>4, <1>6
  <2>2. Reread(disk) = [disk EXCEPT !.done = d, !.pass = q]
    BY <1>5
  <2> HIDE DEF d, q
  <2> QED
    BY <1>1, <2>1, <2>2 DEF Progress
<1> QED
  BY <1>3, <1>7

\* What the first checkpoint of an invocation holds.
LEMMA EnterFields ==
    ASSUME NEW m, NEW p \in Progress, NEW codes, Enter(m, p, codes)
    PROVE  /\ mem' \in Progress /\ mem'.phase = "price" /\ mem'.timeouts = 0
           /\ mem'.done = p.done /\ mem'.failed = p.failed
           /\ mem'.pass = p.pass /\ mem'.targets = p.targets
           /\ disk' = mem' /\ todo' = codes /\ mode' = m /\ kind' = "price"
           /\ at' = "loop"
           /\ UNCHANGED <<journal, recorded, report, leftover, today, why, damaged, cut>>
<1>1. mem' = [p EXCEPT !.phase = "price", !.timeouts = 0]
  BY DEF Enter
<1>2. "price" \in Phases /\ 0 \in 0 .. BreakerLimit
  BY SessionAssumption DEF Phases
<1>3. /\ mem' \in Progress /\ mem'.phase = "price" /\ mem'.timeouts = 0
      /\ mem'.done = p.done /\ mem'.failed = p.failed
      /\ mem'.pass = p.pass /\ mem'.targets = p.targets
  BY <1>1, <1>2 DEF Progress
<1> QED
  BY <1>3 DEF Enter

\* However an invocation begins: what it has to show of the progress and of the
\* codes it begins with.
LEMMA EnterFInv ==
    ASSUME FInv, NEW m \in {"new", "resume", "repair"}, NEW p \in Progress,
           NEW codes \in SUBSET Codes, Enter(m, p, codes),
           saved' \in [Kinds -> SUBSET Codes], opened' \in BOOLEAN,
           invocations' \in 0 .. MaxInvocations,
           p.pass \subseteq p.done["price"] \cap Passing,
           p.done["price"] \cap Passing \subseteq p.pass \cup cut,
           p.targets \cup p.failed["flow"] \cup saved'["flow"] \subseteq Passing,
           codes \cap p.done["price"] = {},
           m # "repair" => codes = PendingPrices(p),
           \A c \in Codes \ cut, k \in Kinds : c \in p.failed[k] <=> <<c, k>> \in journal,
           ~recorded /\ cut = {} => m # "repair"
    PROVE  FInv'
<1>1. /\ mem' \in Progress /\ mem'.phase = "price" /\ mem'.timeouts = 0
      /\ mem'.done = p.done /\ mem'.failed = p.failed
      /\ mem'.pass = p.pass /\ mem'.targets = p.targets
      /\ disk' = mem' /\ todo' = codes /\ mode' = m /\ kind' = "price"
      /\ at' = "loop"
      /\ UNCHANGED <<journal, recorded, report, leftover, today, why, damaged, cut>>
  BY EnterFields
<1>2. CTypeOK'
  BY <1>1 DEF FInv, CTypeOK, Kinds
<1>3. Underway'
  BY <1>1, SessionAssumption DEF Underway, Kinds
<1>4. Asked'
  BY <1>1 DEF Asked, PendingPrices
<1>5. Filtered'
  BY <1>1 DEF Filtered
<1>6. Journalled'
  BY <1>1 DEF FInv, Journalled, Due, Written
<1>7. Reported'
  BY <1>1 DEF Reported
<1> QED
  BY <1>2, <1>3, <1>4, <1>5, <1>6, <1>7 DEF FInv

\* One more invocation is within the bound.
LEMMA BeginsType == FInv /\ Begins => invocations' \in 0 .. MaxInvocations
  BY SessionAssumption DEF Begins, FInv, CTypeOK

\* A session that is created has no records yet.
LEMMA CreateFInv == FInv /\ CreateSession => FInv'
<1> SUFFICES ASSUME FInv, CreateSession PROVE FInv'
  OBVIOUS
<1>1. /\ disk' = [Fresh EXCEPT !.phase = "planned"] /\ at = "off" /\ at' = "created"
      /\ disk.phase = "absent"
      /\ UNCHANGED <<saved, opened, journal, recorded, report, leftover, today, mode, mem, kind,
                     todo, why, damaged, cut>>
  BY DEF CreateSession, Begins
<1>2. /\ disk' \in Progress /\ disk'.phase = "planned"
      /\ disk'.done = None /\ disk'.failed = None /\ disk'.pass = {} /\ disk'.targets = {}
  BY <1>1, FreshType DEF Fresh, Progress, Phases
<1>3. CTypeOK'
  BY <1>1, <1>2, BeginsType DEF FInv, CTypeOK, CreateSession
<1>4. Underway' /\ Asked' /\ Reported'
  BY <1>1, <1>2 DEF Underway, Asked, Reported, Working
<1>5. Filtered'
  BY <1>1, <1>2 DEF FInv, Filtered, Working, None, Kinds
<1>6. Journalled'
  BY <1>1, <1>2 DEF FInv, Journalled, Underway, Written, Working, None
<1> QED
  BY <1>3, <1>4, <1>5, <1>6 DEF FInv

\* A new session begins with what earlier ones have.
LEMMA StartFInv == FInv /\ StartSession => FInv'
<1> SUFFICES ASSUME FInv, StartSession PROVE FInv'
  OBVIOUS
<1>1. PICK restored \in SUBSET Codes :
        LET p == [Fresh EXCEPT !.done["price"] = restored, !.pass = restored \cap Passing]
        IN  /\ saved' = [None EXCEPT !["price"] = restored]
            /\ Enter("new", p, PendingPrices(p))
  BY DEF StartSession, Restorable
<1> DEFINE p == [Fresh EXCEPT !.done["price"] = restored, !.pass = restored \cap Passing]
<1>2. /\ saved' = [None EXCEPT !["price"] = restored]
      /\ Enter("new", p, PendingPrices(p))
  BY <1>1
<1>3. /\ p.done = [None EXCEPT !["price"] = restored]
      /\ p.failed = None /\ p.pass = restored \cap Passing /\ p.targets = {}
  BY DEF Fresh
<1>4. p \in Progress
  BY <1>3, FreshType, SessionAssumption DEF Progress, Fresh, None, Kinds
<1> HIDE DEF p
<1>5. saved' \in [Kinds -> SUBSET Codes] /\ saved'["flow"] = {}
  BY <1>2 DEF None, Kinds
<1>6. p.done["price"] = restored /\ \A k \in Kinds : p.failed[k] = {}
  BY <1>3 DEF None, Kinds
<1>7. at = "created" /\ disk.failed = None
  BY DEF FInv, Underway, StartSession
<1>8. \A c \in Codes \ cut, k \in Kinds : c \in p.failed[k] <=> <<c, k>> \in journal
  BY <1>6, <1>7 DEF FInv, Journalled, Written, None
<1>9. PendingPrices(p) \in SUBSET Codes /\ PendingPrices(p) \cap p.done["price"] = {}
  BY DEF PendingPrices
<1>10. p.failed["flow"] = {}
  BY <1>6 DEF Kinds
<1>11. opened' \in BOOLEAN /\ invocations' \in 0 .. MaxInvocations
  BY DEF StartSession, FInv, CTypeOK
<1> QED
  BY <1>2, <1>3, <1>4, <1>5, <1>6, <1>8, <1>9, <1>10, <1>11, EnterFInv

\* A resume begins with what it can still read.
LEMMA ResumeFInv == FInv /\ ResumeSession => FInv'
<1> SUFFICES ASSUME FInv, ResumeSession PROVE FInv'
  OBVIOUS
<1> DEFINE p == Reread(disk)
<1>1. Enter("resume", p, PendingPrices(p)) /\ saved' = saved /\ at = "off"
  BY DEF ResumeSession, Begins
<1>0. opened' \in BOOLEAN /\ invocations' \in 0 .. MaxInvocations
  BY BeginsType DEF ResumeSession, FInv, CTypeOK
<1>2. /\ p \in Progress
      /\ \A k \in Kinds : p.done[k] = disk.done[k] \cap Accepted(k)
      /\ p.failed = disk.failed
      /\ p.pass = disk.pass \ (disk.done["price"] \ saved["price"])
      /\ p.targets = disk.targets
  BY RereadFields DEF FInv
<1> HIDE DEF p
<1>3. p.done["price"] = disk.done["price"] \cap saved["price"]
  BY <1>2 DEF Kinds, Accepted
<1>4. /\ p.pass \subseteq p.done["price"] \cap Passing
      /\ p.done["price"] \cap Passing \subseteq p.pass \cup cut
      /\ p.targets \cup p.failed["flow"] \cup saved'["flow"] \subseteq Passing
  BY <1>1, <1>2, <1>3 DEF FInv, Filtered
<1>5. PendingPrices(p) \in SUBSET Codes /\ PendingPrices(p) \cap p.done["price"] = {}
  BY DEF PendingPrices
<1>6. \A c \in Codes \ cut, k \in Kinds : c \in p.failed[k] <=> <<c, k>> \in journal
  BY <1>1, <1>2 DEF FInv, Journalled, Written
<1>7. saved' \in [Kinds -> SUBSET Codes]
  BY <1>1 DEF FInv, CTypeOK
<1> QED
  BY <1>0, <1>1, <1>2, <1>4, <1>5, <1>6, <1>7, EnterFInv

\* So does a repair, which some failure has asked for: it is in the journal, or
\* the turn of its code was cut.
LEMMA RepairFInv == FInv /\ RepairSession => FInv'
<1> SUFFICES ASSUME FInv, RepairSession PROVE FInv'
  OBVIOUS
<1> DEFINE p == Reread(disk)
<1>1. Enter("repair", p, PriceRepairTargets(p)) /\ saved' = saved /\ at = "off"
  BY DEF RepairSession, Begins
<1>0. opened' \in BOOLEAN /\ invocations' \in 0 .. MaxInvocations
  BY BeginsType DEF RepairSession, FInv, CTypeOK
<1>2. /\ p \in Progress
      /\ \A k \in Kinds : p.done[k] = disk.done[k] \cap Accepted(k)
      /\ p.failed = disk.failed
      /\ p.pass = disk.pass \ (disk.done["price"] \ saved["price"])
      /\ p.targets = disk.targets
  BY RereadFields DEF FInv
<1> HIDE DEF p
<1>3. p.done["price"] = disk.done["price"] \cap saved["price"]
  BY <1>2 DEF Kinds, Accepted
<1>4. /\ p.pass \subseteq p.done["price"] \cap Passing
      /\ p.done["price"] \cap Passing \subseteq p.pass \cup cut
      /\ p.targets \cup p.failed["flow"] \cup saved'["flow"] \subseteq Passing
  BY <1>1, <1>2, <1>3 DEF FInv, Filtered
<1>5. PriceRepairTargets(p) \in SUBSET Codes /\ PriceRepairTargets(p) \cap p.done["price"] = {}
  BY <1>2 DEF PriceRepairTargets, Progress, Kinds
<1>6. \A c \in Codes \ cut, k \in Kinds : c \in p.failed[k] <=> <<c, k>> \in journal
  BY <1>1, <1>2 DEF FInv, Journalled, Written
<1>7. saved' \in [Kinds -> SUBSET Codes]
  BY <1>1 DEF FInv, CTypeOK
<1>8. ~(~recorded /\ cut = {})
  <2>1. \E k \in Kinds : \E c \in Codes : c \in disk.failed[k]
    BY DEF RepairSession, MayRepair, FInv, CTypeOK, Progress, Kinds
  <2>2. recorded \/ journal = {}
    BY DEF FInv, Journalled
  <2> QED
    BY <1>2, <1>6, <2>1, <2>2
<1> QED
  BY <1>0, <1>1, <1>2, <1>4, <1>5, <1>6, <1>7, <1>8, EnterFInv

\* An answer: the artifacts,
LEMMA CollectFields ==
    ASSUME FInv, Collect
    PROVE  /\ Current \in todo /\ Current \in Codes /\ Current' = Current
           /\ \A k \in Kinds : saved'[k] = saved[k] \cup (IF k = kind THEN {Current} ELSE {})
           /\ saved' \in [Kinds -> SUBSET Codes]
           /\ kind = "flow" /\ mode # "repair" => Current \notin mem.failed["flow"]
           /\ at = "loop" /\ at' = "saved"
           /\ UNCHANGED <<disk, opened, journal, recorded, report, leftover, today, mode, mem,
                          kind, todo, why, invocations, damaged, cut>>
<1>1. Current \in todo /\ Current \in Codes
  BY TurnType DEF FInv, Collect
<1>2. Current' = Current
  BY DEF Collect, Current
<1>3. kind \in Kinds /\ saved \in [Kinds -> SUBSET Codes]
  BY DEF FInv, CTypeOK
<1>4. saved' = [saved EXCEPT ![kind] = @ \cup {Current}]
  BY DEF Collect
<1>5. \A k \in Kinds : saved'[k] = saved[k] \cup (IF k = kind THEN {Current} ELSE {})
  BY <1>3, <1>4
<1>6. saved' \in [Kinds -> SUBSET Codes]
  BY <1>1, <1>3, <1>4
<1> QED
  BY <1>1, <1>2, <1>5, <1>6 DEF Collect, Skipped, settled

\* the list of failures,
LEMMA ClearFields ==
    ASSUME FInv, Clear
    PROVE  /\ Current \in todo /\ Current \in Codes /\ Current' = Current
           /\ mem' \in Progress
           /\ \A k \in Kinds :
                mem'.failed[k] = mem.failed[k] \ (IF k = kind THEN {Current} ELSE {})
           /\ mem'.done = mem.done /\ mem'.timeouts = mem.timeouts
           /\ mem'.phase = mem.phase /\ mem'.pass = mem.pass /\ mem'.targets = mem.targets
           /\ at = "saved" /\ at' = "cleared"
           /\ UNCHANGED <<disk, saved, opened, journal, recorded, report, leftover, today, mode,
                          kind, todo, why, invocations, damaged, cut>>
<1>1. Current \in todo /\ Current \in Codes
  BY TurnType DEF FInv, Clear, Underway
<1>2. Current' = Current
  BY DEF Clear, Current
<1>3. mem \in Progress /\ kind \in Kinds
  BY DEF FInv, CTypeOK
<1>4. /\ mem.failed \in [Kinds -> SUBSET Codes]
      /\ mem' = [mem EXCEPT !.failed[kind] = @ \ {Current}]
  BY <1>3 DEF Clear, Progress
<1> DEFINE f == [mem.failed EXCEPT ![kind] = @ \ {Current}]
<1>5. f \in [Kinds -> SUBSET Codes]
  BY <1>3, <1>4
<1>6. mem' = [phase |-> mem.phase, done |-> mem.done, failed |-> f, pass |-> mem.pass,
              targets |-> mem.targets, timeouts |-> mem.timeouts]
  BY <1>3, <1>4 DEF Progress
<1>7. \A k \in Kinds : f[k] = mem.failed[k] \ (IF k = kind THEN {Current} ELSE {})
  BY <1>3, <1>4
<1> HIDE DEF f
<1>8. /\ mem' \in Progress /\ mem'.done = mem.done /\ mem'.failed = f
      /\ mem'.timeouts = mem.timeouts
      /\ mem'.phase = mem.phase /\ mem'.pass = mem.pass /\ mem'.targets = mem.targets
  BY <1>3, <1>5, <1>6 DEF Progress
<1> QED
  BY <1>1, <1>2, <1>7, <1>8 DEF Clear, settled

\* and the list of completed codes.
LEMMA ListFields ==
    ASSUME FInv, List
    PROVE  /\ Current \in todo /\ Current \in Codes /\ Current' = Current
           /\ mem' \in Progress
           /\ \A k \in Kinds :
                mem'.done[k] = mem.done[k] \cup (IF k = kind THEN {Current} ELSE {})
           /\ mem'.failed = mem.failed /\ mem'.timeouts = 0
           /\ mem'.phase = mem.phase /\ mem'.pass = mem.pass /\ mem'.targets = mem.targets
           /\ at = "cleared" /\ at' = "listed"
           /\ UNCHANGED <<disk, saved, opened, journal, recorded, report, leftover, today, mode,
                          kind, todo, why, invocations, damaged, cut>>
<1>1. Current \in todo /\ Current \in Codes
  BY TurnType DEF FInv, List, Underway
<1>2. Current' = Current
  BY DEF List, Current
<1>3. mem \in Progress /\ kind \in Kinds /\ 0 \in 0 .. BreakerLimit
  BY SessionAssumption DEF FInv, CTypeOK
<1>4. /\ mem.done \in [Kinds -> SUBSET Codes]
      /\ mem' = [mem EXCEPT !.done[kind] = @ \cup {Current}, !.timeouts = 0]
  BY <1>3 DEF List, Progress
<1> DEFINE d == [mem.done EXCEPT ![kind] = @ \cup {Current}]
<1>5. d \in [Kinds -> SUBSET Codes]
  BY <1>1, <1>3, <1>4
<1>6. mem' = [phase |-> mem.phase, done |-> d, failed |-> mem.failed, pass |-> mem.pass,
              targets |-> mem.targets, timeouts |-> 0]
  BY <1>3, <1>4 DEF Progress
<1>7. \A k \in Kinds : d[k] = mem.done[k] \cup (IF k = kind THEN {Current} ELSE {})
  BY <1>3, <1>4
<1> HIDE DEF d
<1>8. /\ mem' \in Progress /\ mem'.done = d /\ mem'.failed = mem.failed
      /\ mem'.timeouts = 0
      /\ mem'.phase = mem.phase /\ mem'.pass = mem.pass /\ mem'.targets = mem.targets
  BY <1>3, <1>5, <1>6 DEF Progress
<1> QED
  BY <1>1, <1>2, <1>7, <1>8 DEF List, settled

\* A failure.
LEMMA FailFields ==
    ASSUME FInv, Fail
    PROVE  /\ Current \in todo /\ Current \in Codes /\ Current' = Current
           /\ mem' \in Progress
           /\ \A k \in Kinds :
                mem'.failed[k] = mem.failed[k] \cup (IF k = kind THEN {Current} ELSE {})
           /\ mem'.done = mem.done /\ mem'.timeouts = mem.timeouts
           /\ mem'.phase = mem.phase /\ mem'.pass = mem.pass /\ mem'.targets = mem.targets
           /\ at = "loop" /\ at' = "failed"
           /\ UNCHANGED <<disk, saved, journal, recorded, report, opened, leftover, today,
                          mode, kind, todo, invocations, damaged, cut>>
<1>1. Current \in todo /\ Current \in Codes
  BY TurnType DEF FInv, Fail
<1>2. Current' = Current
  BY DEF Fail, Current
<1>3. mem \in Progress /\ kind \in Kinds
  BY DEF FInv, CTypeOK
<1>4. /\ mem.failed \in [Kinds -> SUBSET Codes]
      /\ mem' = [mem EXCEPT !.failed[kind] = @ \cup {Current}]
  BY <1>3 DEF Fail, Progress
<1> DEFINE f == [mem.failed EXCEPT ![kind] = @ \cup {Current}]
<1>5. f \in [Kinds -> SUBSET Codes]
  BY <1>1, <1>3, <1>4
<1>6. mem' = [phase |-> mem.phase, done |-> mem.done, failed |-> f, pass |-> mem.pass,
              targets |-> mem.targets, timeouts |-> mem.timeouts]
  BY <1>3, <1>4 DEF Progress
<1>7. \A k \in Kinds : f[k] = mem.failed[k] \cup (IF k = kind THEN {Current} ELSE {})
  BY <1>3, <1>4
<1> HIDE DEF f
<1>8. /\ mem' \in Progress /\ mem'.done = mem.done /\ mem'.failed = f
      /\ mem'.timeouts = mem.timeouts
      /\ mem'.phase = mem.phase /\ mem'.pass = mem.pass /\ mem'.targets = mem.targets
  BY <1>3, <1>5, <1>6 DEF Progress
<1> QED
  BY <1>1, <1>2, <1>7, <1>8 DEF Fail, settled

\* The hard filter.
LEMMA SettleFields ==
    ASSUME FInv, Settle
    PROVE  /\ Current \in todo /\ Current \in Codes /\ Current' = Current
           /\ mem' \in Progress
           /\ mem'.done = mem.done /\ mem'.failed = mem.failed
           /\ mem'.phase = mem.phase /\ mem'.targets = mem.targets
           /\ kind = "price" => mem'.pass \subseteq mem.pass \cup ({Current} \cap Passing)
           /\ kind = "price" => (mem.pass \ {Current}) \cup ({Current} \cap Passing) \subseteq mem'.pass
           /\ kind = "flow" => mem'.pass = mem.pass
           /\ journal' = IF mode = "repair" THEN journal \ {<<Current, kind>>} ELSE journal
           /\ at = "listed" /\ at' = "tried"
           /\ UNCHANGED <<disk, saved, recorded, report, opened, leftover, today, mode,
                          kind, todo, why, invocations, damaged, cut>>
<1>1. Current \in todo /\ Current \in Codes
  BY TurnType DEF FInv, Settle, Underway
<1>2. Current' = Current
  BY DEF Settle, Current
<1>3. mem \in Progress /\ kind \in Kinds
  BY DEF FInv, CTypeOK
<1> DEFINE q == IF kind = "price"
                THEN (IF mode = "repair" THEN mem.pass \ {Current} ELSE mem.pass)
                     \cup ({Current} \cap Passing)
                ELSE mem.pass
<1>4. q \in SUBSET Codes
  BY <1>1, <1>3 DEF Progress
<1>5. mem' = [mem EXCEPT !.pass = q]
  <2>1. CASE kind = "price"
    BY <1>3, <2>1 DEF Settle, Progress
  <2>2. CASE kind = "flow"
    BY <1>3, <2>2 DEF Settle, Progress
  <2> QED
    BY <1>3, <2>1, <2>2 DEF Kinds
<1>6. /\ kind = "price" => q \subseteq mem.pass \cup ({Current} \cap Passing)
      /\ kind = "price" => (mem.pass \ {Current}) \cup ({Current} \cap Passing) \subseteq q
      /\ kind = "flow" => q = mem.pass
  OBVIOUS
<1> HIDE DEF q
<1>7. /\ mem' \in Progress /\ mem'.done = mem.done /\ mem'.failed = mem.failed
      /\ mem'.phase = mem.phase /\ mem'.pass = q /\ mem'.targets = mem.targets
  BY <1>3, <1>4, <1>5 DEF Progress
<1> QED
  BY <1>1, <1>2, <1>6, <1>7 DEF Settle, settled

\* The journal, and the loss of the connection.
LEMMA JournalFields ==
    ASSUME FInv, Journal
    PROVE  /\ Current \in todo /\ Current \in Codes /\ Current' = Current
           /\ mem' \in Progress
           /\ mem'.done = mem.done /\ mem'.failed = mem.failed
           /\ mem'.pass = mem.pass /\ mem'.targets = mem.targets
           /\ mem'.phase = mem.phase \/ mem'.phase = "connection_lost"
           /\ journal' = journal \cup {<<Current, kind>>} /\ recorded' = TRUE
           /\ at = "failed" /\ at' = "tried"
           /\ UNCHANGED <<disk, saved, report, opened, leftover, today, mode, kind, todo,
                          why, invocations, damaged, cut>>
<1>1. Current \in todo /\ Current \in Codes
  BY TurnType DEF FInv, Journal, Underway
<1>2. Current' = Current
  BY DEF Journal, Current
<1>3. mem \in Progress /\ mem.timeouts < BreakerLimit
  BY DEF FInv, CTypeOK, Underway, Working, Journal
<1>4. PICK lost \in BOOLEAN :
        mem' = [mem EXCEPT !.timeouts = IF why = "timeout" THEN @ + 1 ELSE 0,
                           !.phase = IF lost THEN "connection_lost" ELSE @]
  BY DEF Journal
<1> DEFINE n == IF why = "timeout" THEN mem.timeouts + 1 ELSE 0
           ph == IF lost THEN "connection_lost" ELSE mem.phase
<1>5. n \in 0 .. BreakerLimit
  BY <1>3, SessionAssumption DEF Progress
<1>6. ph \in Phases /\ (ph = mem.phase \/ ph = "connection_lost")
  BY <1>3 DEF Progress, Phases
<1>7. mem' = [mem EXCEPT !.timeouts = n, !.phase = ph]
  BY <1>3, <1>4 DEF Progress
<1> HIDE DEF n, ph
<1>8. /\ mem' \in Progress /\ mem'.done = mem.done /\ mem'.failed = mem.failed
      /\ mem'.pass = mem.pass /\ mem'.targets = mem.targets /\ mem'.phase = ph
  BY <1>3, <1>5, <1>6, <1>7 DEF Progress
<1> QED
  BY <1>1, <1>2, <1>6, <1>8 DEF Journal, settled

\* The steps that only set the phase.
LEMMA PhaseFields ==
    ASSUME FInv, NEW ph \in Phases, mem' = [mem EXCEPT !.phase = ph]
    PROVE  /\ mem' \in Progress /\ mem'.phase = ph
           /\ mem'.done = mem.done /\ mem'.failed = mem.failed
           /\ mem'.pass = mem.pass /\ mem'.targets = mem.targets
           /\ mem'.timeouts = mem.timeouts
  BY DEF FInv, CTypeOK, Progress

\* The end of a turn.
LEMMA CheckpointFields ==
    ASSUME FInv, Checkpoint
    PROVE  /\ Current \in todo /\ Current \in Codes
           /\ mem' \in Progress /\ disk' = mem'
           /\ mem'.done = mem.done /\ mem'.failed = mem.failed
           /\ mem'.pass = mem.pass /\ mem'.targets = mem.targets
           /\ mem'.phase \notin {"absent", "completed"}
           /\ at = "tried" /\ todo' = todo \ {Current}
           /\ \/ at' = "off"
              \/ at' = "loop" /\ mem'.phase = kind /\ mem'.timeouts < BreakerLimit
           /\ UNCHANGED <<saved, journal, recorded, report, opened, leftover, today, mode,
                          kind, why, invocations, damaged, cut>>
<1>1. Current \in todo /\ Current \in Codes
  BY TurnType DEF FInv, Checkpoint, Underway
<1>2. mem \in Progress /\ kind \in Kinds /\ mem.timeouts \in Int /\ BreakerLimit \in Int
  BY SessionAssumption DEF FInv, CTypeOK, Progress
<1>3. mem.phase = kind \/ mem.phase = "connection_lost"
  BY DEF FInv, Underway, Working, Checkpoint
<1>4. /\ Verdict(mem) \in {kind, "connection_lost", "interrupted", "aborted"}
      /\ Verdict(mem) \in Kinds => Verdict(mem) = kind /\ mem.timeouts < BreakerLimit
  BY <1>2, <1>3 DEF Verdict, Kinds
<1>5. Verdict(mem) \in Phases \ {"absent", "completed"}
  BY <1>2, <1>4 DEF Phases, Kinds
<1>6. /\ mem' = [mem EXCEPT !.phase = Verdict(mem)] /\ disk' = mem'
      /\ at' = IF mem'.phase \in Kinds THEN "loop" ELSE "off"
  BY DEF Checkpoint
<1>7. /\ mem' \in Progress /\ mem'.phase = Verdict(mem)
      /\ mem'.done = mem.done /\ mem'.failed = mem.failed
      /\ mem'.pass = mem.pass /\ mem'.targets = mem.targets
      /\ mem'.timeouts = mem.timeouts
  BY <1>5, <1>6, PhaseFields
<1> QED
  BY <1>1, <1>4, <1>5, <1>6, <1>7 DEF Checkpoint, settled

\* The targets of the flow phase.
LEMMA SelectFields ==
    ASSUME FInv, SelectFlows
    PROVE  /\ mem' \in Progress /\ mem'.phase = "flow" /\ mem'.timeouts = mem.timeouts
           /\ mem'.failed = mem.failed /\ mem'.pass = mem.pass
           /\ mem'.targets \subseteq mem.targets \cup (mem.pass \cap saved["price"])
           /\ mode # "repair" => mem'.targets = mem.pass \cap saved["price"]
           /\ mem'.done["price"] = mem.done["price"]
           /\ mem.done["flow"] \subseteq mem'.done["flow"]
           /\ saved' \in [Kinds -> SUBSET Codes]
           /\ saved'["price"] = saved["price"]
           /\ saved'["flow"] \subseteq saved["flow"] \cup mem'.targets
           /\ disk' = mem' \/ disk' = disk
           /\ mode # "repair" => todo' = mem'.targets
           /\ todo' \subseteq mem.failed["flow"] \cup mem'.targets
           /\ at = "loop" /\ kind = "price" /\ todo = {} /\ at' = "loop" /\ kind' = "flow"
           /\ UNCHANGED <<journal, recorded, report, opened, leftover, today, mode, why,
                          invocations, damaged, cut>>
<1> DEFINE targets == IF mode = "repair" THEN mem.targets \cup FlowTargets(mem)
                      ELSE FlowTargets(mem)
<1>1. PICK restored \in SUBSET targets :
        /\ saved' = [saved EXCEPT !["flow"] = @ \cup restored]
        /\ mem' = [mem EXCEPT !.phase = "flow", !.targets = targets,
                              !.done["flow"] = @ \cup restored]
        /\ disk' = IF mode = "new" THEN mem' ELSE disk
        /\ todo' = IF mode = "repair" THEN FlowRepairTargets(mem) ELSE targets
  BY DEF SelectFlows, Restorable
<1>2. mem \in Progress /\ saved \in [Kinds -> SUBSET Codes]
  BY DEF FInv, CTypeOK
<1>3. targets \in SUBSET Codes /\ mem.done \in [Kinds -> SUBSET Codes]
  BY <1>2 DEF FlowTargets, Progress
<1>4. /\ targets \subseteq mem.targets \cup (mem.pass \cap saved["price"])
      /\ mode # "repair" => targets = mem.pass \cap saved["price"]
      /\ FlowRepairTargets(mem) \subseteq mem.failed["flow"] \cup targets
  BY DEF FlowTargets, FlowRepairTargets
<1> HIDE DEF targets
<1> DEFINE d == [mem.done EXCEPT !["flow"] = @ \cup restored]
<1>5. /\ d \in [Kinds -> SUBSET Codes]
      /\ d["price"] = mem.done["price"] /\ mem.done["flow"] \subseteq d["flow"]
  BY <1>3 DEF Kinds
<1>6. mem' = [mem EXCEPT !.phase = "flow", !.targets = targets, !.done = d]
  BY <1>1, <1>2 DEF Progress
<1>7. /\ saved' \in [Kinds -> SUBSET Codes] /\ saved'["price"] = saved["price"]
      /\ saved'["flow"] \subseteq saved["flow"] \cup targets
  BY <1>1, <1>2, <1>3 DEF Kinds
<1> HIDE DEF d
<1>8. /\ mem' \in Progress /\ mem'.phase = "flow" /\ mem'.targets = targets /\ mem'.done = d
      /\ mem'.timeouts = mem.timeouts /\ mem'.failed = mem.failed /\ mem'.pass = mem.pass
  BY <1>2, <1>3, <1>5, <1>6 DEF Progress, Phases
<1>9. /\ disk' = mem' \/ disk' = disk
      /\ mode # "repair" => todo' = targets
      /\ todo' \subseteq mem.failed["flow"] \cup targets
  BY <1>1, <1>4
<1> QED
  BY <1>4, <1>5, <1>7, <1>8, <1>9 DEF SelectFlows, settled

\* The code that is handled is one of the codes.
LEMMA HalfwayType == FInv => HalfListed \cup HalfWritten \subseteq Codes
  BY TurnType DEF FInv, Underway, HalfListed, HalfWritten

\* A code that is passed over.
LEMMA SkipFields ==
    ASSUME FInv, Skip
    PROVE  /\ Current \in todo /\ Current \in Codes
           /\ kind = "flow" /\ at = "loop" /\ todo' = todo \ {Current}
           /\ \/ Current \in mem.done["flow"]
              \/ mode # "repair" /\ Current \in mem.failed["flow"]
           /\ UNCHANGED <<disk, saved, journal, recorded, report, opened, leftover, today,
                          at, mode, mem, kind, why, invocations, damaged, cut>>
  BY TurnType DEF FInv, Skip, Skipped, settled

\* The end of a session.
LEMMA CompleteFields ==
    ASSUME FInv, Complete
    PROVE  /\ mem' \in Progress /\ mem'.phase = "completed" /\ disk' = mem'
           /\ mem'.done = mem.done /\ mem'.failed = mem.failed
           /\ mem'.pass = mem.pass /\ mem'.targets = mem.targets
           /\ at = "completing" /\ at' = "off"
           /\ UNCHANGED <<saved, journal, recorded, report, opened, leftover, today, mode,
                          kind, todo, why, invocations, damaged, cut>>
<1>1. "completed" \in Phases /\ mem' = [mem EXCEPT !.phase = "completed"]
  BY DEF Complete, Phases
<1> QED
  BY <1>1, PhaseFields DEF Complete, settled

\* SIGINT, which saves what the memory holds.
LEMMA InterruptFields ==
    ASSUME FInv, Interrupt
    PROVE  /\ mem' \in Progress /\ mem'.phase = "interrupted" /\ disk' = mem'
           /\ mem'.done = mem.done /\ mem'.failed = mem.failed
           /\ mem'.pass = mem.pass /\ mem'.targets = mem.targets
           /\ Working /\ at' = "off" /\ cut' = cut \cup HalfListed
           /\ leftover' \in {leftover, TRUE}
           /\ UNCHANGED <<saved, opened, journal, recorded, report, today, mode, kind, todo,
                          why, invocations, damaged>>
<1>1. "interrupted" \in Phases /\ mem' = [mem EXCEPT !.phase = "interrupted"]
  BY DEF Interrupt, Phases
<1> QED
  BY <1>1, PhaseFields DEF Interrupt, Working, Leftovers

\* The death of the process, or of the invocation.
LEMMA KillFields ==
    ASSUME FInv, Kill \/ JournalMissing
    PROVE  /\ mem' = disk /\ at' = "off" /\ cut' = cut \cup HalfWritten
           /\ leftover' \in {leftover, TRUE}
           /\ UNCHANGED <<disk, saved, opened, journal, recorded, report, today, mode, kind,
                          todo, why, invocations, damaged>>
  BY DEF Kill, JournalMissing, Dies, Leftovers

\* A damage moves a code from the artifacts that are there to those that were.
LEMMA DamageFields ==
    ASSUME FInv, Damage
    PROVE  /\ saved' \in [Kinds -> SUBSET Codes] /\ damaged' \in [Kinds -> SUBSET Codes]
           /\ \A k \in Kinds : /\ saved'[k] \subseteq saved[k]
                               /\ saved[k] \subseteq saved'[k] \cup damaged'[k]
                               /\ damaged[k] \subseteq damaged'[k]
           /\ at = "off"
           /\ UNCHANGED <<disk, opened, journal, recorded, report, leftover, today, at, mode,
                          mem, kind, todo, why, invocations, cut>>
<1>1. PICK k \in Kinds, c \in Codes :
        /\ c \in saved[k]
        /\ saved' = [saved EXCEPT ![k] = @ \ {c}]
        /\ damaged' = [damaged EXCEPT ![k] = @ \cup {c}]
  BY DEF Damage, FInv, CTypeOK
<1> QED
  BY <1>1 DEF Damage, FInv, CTypeOK

\* A code that is passed over is done, or has failed.
LEMMA SkipFInv == FInv /\ KInv /\ KInv' /\ Skip => FInv'
<1> SUFFICES ASSUME FInv, KInv, KInv', Skip PROVE FInv'
  OBVIOUS
<1>0. CTypeOK /\ Underway /\ Asked /\ Filtered /\ Journalled /\ Reported
  BY DEF FInv
<1>kind. kind = "price" \/ kind = "flow"
  BY <1>0 DEF CTypeOK, Kinds
<1>1. CTypeOK'
  BY <1>0, <1>kind, SkipFields DEF CTypeOK, Kinds
<1>2. Underway'
  BY <1>0, <1>kind, SkipFields DEF Working, Underway, Kinds
<1>3. Asked'
  BY <1>0, <1>kind, SkipFields DEF Working, Asked, Halfway, Kinds
<1>4. Filtered'
  BY <1>0, <1>kind, SkipFields DEF Working, Filtered, Unfiltered, Kinds
<1>5. Journalled'
  BY <1>0, <1>kind, SkipFields DEF Journalled, Due, Written, Working, Kinds
<1>6. Reported'
  BY <1>0, <1>kind, SkipFields DEF Reported, Kinds
<1> QED
  BY <1>1, <1>2, <1>3, <1>4, <1>5, <1>6 DEF FInv

\* The artifacts of an answer.
LEMMA CollectFInv == FInv /\ KInv /\ KInv' /\ Collect => FInv'
<1> SUFFICES ASSUME FInv, KInv, KInv', Collect PROVE FInv'
  OBVIOUS
<1>0. CTypeOK /\ Underway /\ Asked /\ Filtered /\ Journalled /\ Reported
  BY DEF FInv
<1>kind. kind = "price" \/ kind = "flow"
  BY <1>0 DEF CTypeOK, Kinds
<1>1. CTypeOK'
  BY <1>0, <1>kind, CollectFields DEF CTypeOK, Kinds
<1>2. Underway'
  <2>1. mode # "repair" => Current \notin mem.failed[kind]
    BY <1>0, <1>kind, CollectFields DEF Asked, Halfway, Working
  <2> QED
    BY <1>0, <1>kind, <2>1, CollectFields DEF Underway, Working, Kinds
<1>3. Asked'
  BY <1>0, <1>kind, CollectFields DEF Asked, Halfway, Working, Kinds
<1>4. Filtered'
  <2>1. CASE kind = "price"
    BY <1>0, <2>1, CollectFields DEF Filtered, Unfiltered, Working, Kinds
  <2>2. CASE kind = "flow"
    BY <1>0, <2>2, CollectFields DEF Filtered, Unfiltered, Asked, Working, Kinds
  <2> QED
    BY <1>kind, <2>1, <2>2
<1>5. Journalled'
  BY <1>0, <1>kind, CollectFields DEF Journalled, Due, Written, Working, Kinds
<1>6. Reported'
  BY <1>0, <1>kind, CollectFields DEF Reported, Kinds
<1> QED
  BY <1>1, <1>2, <1>3, <1>4, <1>5, <1>6 DEF FInv

\* The failure that is none any more.
LEMMA ClearFInv == FInv /\ KInv /\ KInv' /\ Clear => FInv'
<1> SUFFICES ASSUME FInv, KInv, KInv', Clear PROVE FInv'
  OBVIOUS
<1>0. CTypeOK /\ Underway /\ Asked /\ Filtered /\ Journalled /\ Reported
  BY DEF FInv
<1>kind. kind = "price" \/ kind = "flow"
  BY <1>0 DEF CTypeOK, Kinds
<1>1. CTypeOK'
  BY <1>0, <1>kind, ClearFields DEF CTypeOK, Kinds
<1>2. Underway'
  BY <1>0, <1>kind, ClearFields DEF Underway, Working, Kinds
<1>3. Asked'
  BY <1>0, <1>kind, ClearFields DEF Asked, Halfway, Working, Kinds
<1>4. Filtered'
  BY <1>0, <1>kind, ClearFields DEF Filtered, Unfiltered, Working, Kinds
<1>5. Journalled'
  <2>1. /\ UNCHANGED <<journal, recorded, cut, mode, disk, kind>> /\ Current' = Current
        /\ at = "saved" /\ at' = "cleared"
        /\ \A k \in Kinds :
              mem'.failed[k] = mem.failed[k] \ (IF k = kind THEN {Current} ELSE {})
    BY ClearFields
  <2>2. mode # "repair" => Current \notin mem.failed[kind]
    BY <1>0, <2>1 DEF Underway
  <2>3. ASSUME NEW c \in Codes \ cut, NEW k \in Kinds
        PROVE  <<c, k>> \in Due' \/ (c \in mem'.failed[k] <=> <<c, k>> \in journal)
    <3>1. c \in mem.failed[k] <=> <<c, k>> \in journal
      BY <1>0, <2>1 DEF Journalled, Due, Working
    <3>2. CASE c = Current /\ k = kind
      BY <2>1, <2>2, <3>1, <3>2 DEF Due
    <3>3. CASE ~(c = Current /\ k = kind)
      BY <2>1, <3>1, <3>3
    <3> QED
      BY <3>2, <3>3
  <2>4. \A c \in Codes \ cut, k \in Kinds : c \in disk.failed[k] <=> <<c, k>> \in journal
    BY <1>0, <2>1 DEF Journalled, Written
  <2> QED
    BY <1>0, <2>1, <2>3, <2>4 DEF Journalled
<1>6. Reported'
  BY <1>0, <1>kind, ClearFields DEF Reported, Kinds
<1> QED
  BY <1>1, <1>2, <1>3, <1>4, <1>5, <1>6 DEF FInv

\* The code that is completed.
LEMMA ListFInv == FInv /\ KInv /\ KInv' /\ List => FInv'
<1> SUFFICES ASSUME FInv, KInv, KInv', List PROVE FInv'
  OBVIOUS
<1>0. CTypeOK /\ Underway /\ Asked /\ Filtered /\ Journalled /\ Reported
  BY DEF FInv
<1>kind. kind = "price" \/ kind = "flow"
  BY <1>0 DEF CTypeOK, Kinds
<1>1. CTypeOK'
  BY <1>0, <1>kind, ListFields DEF CTypeOK, Kinds
<1>2. Underway'
  BY <1>0, <1>kind, ListFields, SessionAssumption DEF Underway, Working, Kinds
<1>3. Asked'
  BY <1>0, <1>kind, ListFields DEF Asked, Halfway, Working, Kinds
<1>4. Filtered'
  <2>1. CASE kind = "price"
    BY <1>0, <2>1, ListFields DEF Filtered, Unfiltered, Working, Kinds
  <2>2. CASE kind = "flow"
    BY <1>0, <2>2, ListFields DEF Filtered, Unfiltered, Working, Kinds
  <2> QED
    BY <1>kind, <2>1, <2>2
<1>5. Journalled'
  BY <1>0, <1>kind, ListFields DEF Journalled, Due, Written, Working, Kinds
<1>6. Reported'
  BY <1>0, <1>kind, ListFields DEF Reported, Kinds
<1> QED
  BY <1>1, <1>2, <1>3, <1>4, <1>5, <1>6 DEF FInv

\* The journal and the hard filter.
LEMMA SettleFInv == FInv /\ KInv /\ KInv' /\ Settle => FInv'
<1> SUFFICES ASSUME FInv, KInv, KInv', Settle PROVE FInv'
  OBVIOUS
<1>0. CTypeOK /\ Underway /\ Asked /\ Filtered /\ Journalled /\ Reported
  BY DEF FInv
<1>kind. kind = "price" \/ kind = "flow"
  BY <1>0 DEF CTypeOK, Kinds
<1>1. CTypeOK'
  BY <1>0, <1>kind, SettleFields DEF CTypeOK, Kinds
<1>2. Underway'
  BY <1>0, <1>kind, SettleFields DEF Working, Underway, Kinds
<1>3. Asked'
  BY <1>0, <1>kind, SettleFields DEF Working, Asked, Halfway, Kinds
<1>4. Filtered'
  <2>1. CASE kind = "price"
    <3>1. Current \in mem.done["price"]
      BY <1>0, <2>1, SettleFields DEF Underway
    <3> QED
      BY <1>0, <2>1, <3>1, SettleFields DEF Working, Filtered, Unfiltered
  <2>2. CASE kind = "flow"
    BY <1>0, <2>2, SettleFields DEF Working, Filtered, Unfiltered
  <2> QED
    BY <1>kind, <2>1, <2>2
<1>5. Journalled'
  <2>1. /\ UNCHANGED <<recorded, cut, mode, disk, kind>> /\ Current' = Current
        /\ at = "listed" /\ at' = "tried" /\ mem'.failed = mem.failed
        /\ journal' = IF mode = "repair" THEN journal \ {<<Current, kind>>} ELSE journal
    BY SettleFields
  <2>2. Current \notin mem.failed[kind]
    BY <1>0, <2>1 DEF Underway
  <2>3. ASSUME NEW c \in Codes \ cut, NEW k \in Kinds
        PROVE  c \in mem'.failed[k] <=> <<c, k>> \in journal'
    <3>1. <<c, k>> \in Due \/ (c \in mem.failed[k] <=> <<c, k>> \in journal)
      BY <1>0, <2>1 DEF Journalled, Working
    <3>2. CASE c = Current /\ k = kind
      BY <2>1, <2>2, <3>1, <3>2 DEF Due
    <3>3. CASE ~(c = Current /\ k = kind)
      <4>1. <<c, k>> # <<Current, kind>>
        BY <3>3
      <4> QED
        BY <2>1, <3>1, <4>1 DEF Due
    <3> QED
      BY <3>2, <3>3
  <2>4. ASSUME NEW c \in Codes \ cut, NEW k \in Kinds
        PROVE  <<c, k>> \in Written' \/ (c \in disk.failed[k] <=> <<c, k>> \in journal')
    <3>1. c \in disk.failed[k] <=> <<c, k>> \in journal
      BY <1>0, <2>1 DEF Journalled, Written
    <3>2. CASE c = Current /\ k = kind
      BY <2>1, <2>2, <3>1, <3>2 DEF Written
    <3>3. CASE ~(c = Current /\ k = kind)
      <4>1. <<c, k>> # <<Current, kind>>
        BY <3>3
      <4> QED
        BY <2>1, <3>1, <4>1
    <3> QED
      BY <3>2, <3>3
  <2> QED
    BY <1>0, <2>1, <2>3, <2>4 DEF Journalled
<1>6. Reported'
  BY <1>0, <1>kind, SettleFields DEF Reported, Kinds
<1> QED
  BY <1>1, <1>2, <1>3, <1>4, <1>5, <1>6 DEF FInv

\* A failure.
LEMMA FailFInv == FInv /\ KInv /\ KInv' /\ Fail => FInv'
<1> SUFFICES ASSUME FInv, KInv, KInv', Fail PROVE FInv'
  OBVIOUS
<1>0. CTypeOK /\ Underway /\ Asked /\ Filtered /\ Journalled /\ Reported
  BY DEF FInv
<1>kind. kind = "price" \/ kind = "flow"
  BY <1>0 DEF CTypeOK, Kinds
<1>1. CTypeOK'
  <2>1. why' \in {"timeout", "error"}
    BY DEF Fail
  <2> QED
    BY <1>0, <2>1, FailFields DEF CTypeOK
<1>2. Underway'
  BY <1>0, <1>kind, FailFields DEF Working, Underway, Kinds
<1>3. Asked'
  BY <1>0, <1>kind, FailFields DEF Working, Asked, Halfway, Kinds
<1>4. Filtered'
  BY <1>0, <1>kind, FailFields DEF Working, Filtered, Unfiltered, Asked, Kinds
<1>5. Journalled'
  BY <1>0, <1>kind, FailFields DEF Journalled, Due, Written, Working, Kinds
<1>6. Reported'
  BY <1>0, <1>kind, FailFields DEF Reported, Kinds
<1> QED
  BY <1>1, <1>2, <1>3, <1>4, <1>5, <1>6 DEF FInv

\* Its entry.
LEMMA JournalFInv == FInv /\ KInv /\ KInv' /\ Journal => FInv'
<1> SUFFICES ASSUME FInv, KInv, KInv', Journal PROVE FInv'
  OBVIOUS
<1>0. CTypeOK /\ Underway /\ Asked /\ Filtered /\ Journalled /\ Reported
  BY DEF FInv
<1>kind. kind = "price" \/ kind = "flow"
  BY <1>0 DEF CTypeOK, Kinds
<1>1. CTypeOK'
  BY <1>0, <1>kind, JournalFields DEF CTypeOK, Kinds
<1>2. Underway'
  BY <1>0, <1>kind, JournalFields DEF Working, Underway, Kinds
<1>3. Asked'
  BY <1>0, <1>kind, JournalFields DEF Working, Asked, Halfway, Kinds
<1>4. Filtered'
  BY <1>0, <1>kind, JournalFields DEF Working, Filtered, Unfiltered, Kinds
<1>5. Journalled'
  <2>1. /\ UNCHANGED <<cut, mode, disk, kind>> /\ Current' = Current
        /\ at = "failed" /\ at' = "tried" /\ mem'.failed = mem.failed
        /\ journal' = journal \cup {<<Current, kind>>} /\ recorded' = TRUE
    BY JournalFields
  <2>2. Current \in mem.failed[kind]
    BY <1>0, <2>1 DEF Underway
  <2>3. ASSUME NEW c \in Codes \ cut, NEW k \in Kinds
        PROVE  c \in mem'.failed[k] <=> <<c, k>> \in journal'
    <3>1. <<c, k>> \in Due \/ (c \in mem.failed[k] <=> <<c, k>> \in journal)
      BY <1>0, <2>1 DEF Journalled, Working
    <3>2. CASE c = Current /\ k = kind
      BY <2>1, <2>2, <3>2
    <3>3. CASE ~(c = Current /\ k = kind)
      <4>1. <<c, k>> # <<Current, kind>>
        BY <3>3
      <4> QED
        BY <2>1, <3>1, <4>1 DEF Due
    <3> QED
      BY <3>2, <3>3
  <2>4. ASSUME NEW c \in Codes \ cut, NEW k \in Kinds
        PROVE  <<c, k>> \in Written' \/ (c \in disk.failed[k] <=> <<c, k>> \in journal')
    <3>1. c \in disk.failed[k] <=> <<c, k>> \in journal
      BY <1>0, <2>1 DEF Journalled, Written
    <3>2. CASE c = Current /\ k = kind
      BY <2>1, <2>2, <3>1, <3>2 DEF Written
    <3>3. CASE ~(c = Current /\ k = kind)
      <4>1. <<c, k>> # <<Current, kind>>
        BY <3>3
      <4> QED
        BY <2>1, <3>1, <4>1
    <3> QED
      BY <3>2, <3>3
  <2> QED
    BY <2>1, <2>3, <2>4 DEF Journalled
<1>6. Reported'
  BY <1>0, <1>kind, JournalFields DEF Reported, Kinds
<1> QED
  BY <1>1, <1>2, <1>3, <1>4, <1>5, <1>6 DEF FInv

\* The end of a turn.
LEMMA CheckpointFInv == FInv /\ KInv /\ KInv' /\ Checkpoint => FInv'
<1> SUFFICES ASSUME FInv, KInv, KInv', Checkpoint PROVE FInv'
  OBVIOUS
<1>0. CTypeOK /\ Underway /\ Asked /\ Filtered /\ Journalled /\ Reported
  BY DEF FInv
<1>kind. kind = "price" \/ kind = "flow"
  BY <1>0 DEF CTypeOK, Kinds
<1>1. CTypeOK'
  BY <1>0, <1>kind, CheckpointFields DEF CTypeOK, Kinds
<1>2. Underway'
  BY <1>0, <1>kind, CheckpointFields DEF Working, Underway, Kinds
<1>3. Asked'
  <2>1. /\ mem'.done = mem.done /\ mem'.failed = mem.failed /\ todo' = todo \ {Current}
        /\ mem'.pass = mem.pass /\ mem'.targets = mem.targets
        /\ UNCHANGED <<saved, mode, kind>>
        /\ at = "tried" /\ at' \in {"off", "loop"}
    BY CheckpointFields
  <2>2. Current \in mem.done[kind] \cup mem.failed[kind]
    BY <1>0, <2>1 DEF Underway
  <2>3. CASE kind = "price"
    BY <1>0, <2>1, <2>2, <2>3 DEF Working, Asked, Halfway
  <2>4. CASE kind = "flow"
    BY <1>0, <2>1, <2>2, <2>4 DEF Working, Asked, Halfway
  <2> QED
    BY <1>kind, <2>3, <2>4
<1>4. Filtered'
  BY <1>0, <1>kind, CheckpointFields DEF Working, Filtered, Unfiltered, Kinds
<1>5. Journalled'
  BY <1>0, <1>kind, CheckpointFields DEF Journalled, Due, Written, Working, Kinds
<1>6. Reported'
  BY <1>0, <1>kind, CheckpointFields DEF Reported, Kinds
<1> QED
  BY <1>1, <1>2, <1>3, <1>4, <1>5, <1>6 DEF FInv

\* The targets of the flow phase.
LEMMA SelectFlowsFInv == FInv /\ KInv /\ KInv' /\ SelectFlows => FInv'
<1> SUFFICES ASSUME FInv, KInv, KInv', SelectFlows PROVE FInv'
  OBVIOUS
<1>0. CTypeOK /\ Underway /\ Asked /\ Filtered /\ Journalled /\ Reported
  BY DEF FInv
<1>kind. kind = "price" \/ kind = "flow"
  BY <1>0 DEF CTypeOK, Kinds
<1>1. CTypeOK'
  <2>1. mem' \in Progress /\ disk' \in Progress /\ saved' \in [Kinds -> SUBSET Codes]
    BY <1>0, SelectFields DEF CTypeOK
  <2>2. mem.failed \in [Kinds -> SUBSET Codes] /\ mem'.targets \subseteq Codes
    BY <1>0, <2>1 DEF CTypeOK, Progress
  <2>3. todo' \subseteq Codes
    BY <2>2, SelectFields DEF Kinds
  <2> QED
    BY <1>0, <2>1, <2>3, SelectFields DEF CTypeOK, Kinds
<1>2. Underway'
  BY <1>0, <1>kind, SelectFields DEF Working, Underway, Kinds
<1>3. Asked'
  BY <1>0, <1>kind, SelectFields DEF Working, Asked, Filtered
<1>4. Filtered'
  BY <1>0, <1>kind, SelectFields DEF Working, Filtered, Unfiltered, Kinds
<1>5. Journalled'
  BY <1>0, <1>kind, SelectFields DEF Journalled, Due, Written, Working, Kinds
<1>6. Reported'
  BY <1>0, <1>kind, SelectFields DEF Reported, Kinds
<1> QED
  BY <1>1, <1>2, <1>3, <1>4, <1>5, <1>6 DEF FInv

\* The report.
LEMMA MakeReportFInv == FInv /\ KInv /\ KInv' /\ MakeReport => FInv'
<1> SUFFICES ASSUME FInv, KInv, KInv', MakeReport PROVE FInv'
  OBVIOUS
<1>0. CTypeOK /\ Underway /\ Asked /\ Filtered /\ Journalled /\ Reported
  BY DEF FInv
<1>kind. kind = "price" \/ kind = "flow"
  BY <1>0 DEF CTypeOK, Kinds
<1>r. \/ report' = report
      \/ \E chosen \in SUBSET ((mem.pass \cap saved["price"]) \ Uncounted) :
            report' = [made |-> TRUE, priced |-> mem.done["price"],
                       codes |-> mem.pass \cap saved["price"], chosen |-> chosen]
  BY DEF MakeReport, Reports
<1>1. CTypeOK'
  <2>1. mem.done["price"] \subseteq Codes /\ mem.pass \subseteq Codes
    BY <1>0 DEF CTypeOK, Progress, Kinds
  <2>2. report' \in [made : BOOLEAN, priced : SUBSET Codes, codes : SUBSET Codes,
                    chosen : SUBSET Codes]
    <3>1. CASE report' = report
      BY <1>0, <3>1 DEF CTypeOK
    <3>2. CASE report' # report
      <4>1. PICK chosen \in SUBSET ((mem.pass \cap saved["price"]) \ Uncounted) :
              report' = [made |-> TRUE, priced |-> mem.done["price"],
                         codes |-> mem.pass \cap saved["price"], chosen |-> chosen]
        BY <1>r, <3>2
      <4>2. chosen \subseteq Codes /\ mem.pass \cap saved["price"] \subseteq Codes
        BY <2>1
      <4> QED
        BY <2>1, <4>1, <4>2
    <3> QED
      BY <3>1, <3>2
  <2> QED
    BY <1>0, <2>2 DEF CTypeOK, MakeReport, settled
<1>2. Underway'
  BY <1>0 DEF Working, Underway, Kinds, MakeReport, settled
<1>3. Asked'
  BY <1>0 DEF Working, Asked, Halfway, Kinds, MakeReport, settled
<1>4. Filtered'
  BY <1>0 DEF Working, Filtered, Unfiltered, Kinds, MakeReport, settled
<1>5. Journalled'
  BY <1>0 DEF Journalled, Due, Written, Working, Kinds, MakeReport, settled
<1>6. Reported'
  <2>1. mem.failed = None => mem.failed["price"] \cup mem.failed["flow"] = {}
    BY DEF None, Kinds
  <2>2. disk.phase # "completed"
    BY <1>0 DEF Reported, MakeReport
  <2>3. mem.failed = None => report' \in Reports
    BY <2>1 DEF MakeReport
  <2>4. mem.failed = None =>
          /\ report'.made /\ report'.priced = mem.done["price"]
          /\ report'.codes = mem.pass \cap saved["price"]
          /\ report'.chosen \subseteq report'.codes
    BY <2>3 DEF Reports
  <2> QED
    BY <2>2, <2>4 DEF Reported, MakeReport, settled
<1> QED
  BY <1>1, <1>2, <1>3, <1>4, <1>5, <1>6 DEF FInv

\* The end of a session.
LEMMA CompleteFInv == FInv /\ KInv /\ KInv' /\ Complete => FInv'
<1> SUFFICES ASSUME FInv, KInv, KInv', Complete PROVE FInv'
  OBVIOUS
<1>0. CTypeOK /\ Underway /\ Asked /\ Filtered /\ Journalled /\ Reported
  BY DEF FInv
<1>kind. kind = "price" \/ kind = "flow"
  BY <1>0 DEF CTypeOK, Kinds
<1>1. CTypeOK'
  BY <1>0, <1>kind, CompleteFields DEF CTypeOK, Kinds
<1>2. Underway'
  BY <1>0, <1>kind, CompleteFields DEF Working, Underway, Kinds
<1>3. Asked'
  BY <1>0, <1>kind, CompleteFields DEF Working, Asked, Halfway, Kinds
<1>4. Filtered'
  BY <1>0, <1>kind, CompleteFields DEF Working, Filtered, Unfiltered, Kinds
<1>5. Journalled'
  BY <1>0, <1>kind, CompleteFields DEF Journalled, Due, Written, Working, Kinds
<1>6. Reported'
  <2>1. /\ mem'.done = mem.done /\ mem'.failed = mem.failed /\ disk' = mem'
        /\ mem'.pass = mem.pass /\ mem'.targets = mem.targets
        /\ UNCHANGED <<saved, report, mode, kind, todo, damaged>>
        /\ at = "completing" /\ at' = "off"
    BY CompleteFields
  <2>2. kind = "flow" /\ todo = {}
    BY <1>0, <2>1 DEF Underway
  <2>3. mode # "repair" =>
            /\ Codes \subseteq mem.done["price"] \cup mem.failed["price"]
            /\ mem.targets \subseteq mem.done["flow"] \cup mem.failed["flow"]
            /\ mem.targets = mem.pass \cap saved["price"]
    BY <1>0, <2>1, <2>2 DEF Asked, Working
  <2>4. mem.failed = None =>
            /\ report.made /\ report.priced = mem.done["price"]
            /\ report.codes = mem.pass \cap saved["price"]
            /\ report.chosen \subseteq report.codes
    BY <1>0, <2>1 DEF Reported
  <2>5. mem.pass \subseteq saved["price"] \cup damaged["price"]
    BY <1>0, <2>1 DEF Filtered, KInv, Backed, Working, Kinds
  <2> QED
    BY <2>1, <2>3, <2>4, <2>5 DEF Reported
<1> QED
  BY <1>1, <1>2, <1>3, <1>4, <1>5, <1>6 DEF FInv

\* SIGINT.
LEMMA InterruptFInv == FInv /\ KInv /\ KInv' /\ Interrupt => FInv'
<1> SUFFICES ASSUME FInv, KInv, KInv', Interrupt PROVE FInv'
  OBVIOUS
<1>0. CTypeOK /\ Underway /\ Asked /\ Filtered /\ Journalled /\ Reported
  BY DEF FInv
<1>kind. kind = "price" \/ kind = "flow"
  BY <1>0 DEF CTypeOK, Kinds
<1>1. CTypeOK'
  BY <1>0, <1>kind, InterruptFields, HalfwayType DEF CTypeOK, Kinds
<1>2. Underway'
  BY <1>0, <1>kind, InterruptFields, HalfwayType DEF Working, Underway, Kinds
<1>3. Asked'
  BY <1>0, <1>kind, InterruptFields, HalfwayType DEF Working, Asked, Halfway, Kinds
<1>4. Filtered'
  BY <1>0, <1>kind, InterruptFields DEF Filtered, Unfiltered, HalfListed, Working
<1>5. Journalled'
  BY <1>0, <1>kind, InterruptFields, HalfwayType DEF Journalled, Due, Written, HalfListed, Working, Kinds
<1>6. Reported'
  BY <1>0, <1>kind, InterruptFields, HalfwayType DEF Reported, Kinds
<1> QED
  BY <1>1, <1>2, <1>3, <1>4, <1>5, <1>6 DEF FInv

\* The process dies, or the invocation.
LEMMA KillFInv == FInv /\ KInv /\ KInv' /\ (Kill \/ JournalMissing) => FInv'
<1> SUFFICES ASSUME FInv, KInv, KInv', Kill \/ JournalMissing PROVE FInv'
  OBVIOUS
<1>0. CTypeOK /\ Underway /\ Asked /\ Filtered /\ Journalled /\ Reported
  BY DEF FInv
<1>kind. kind = "price" \/ kind = "flow"
  BY <1>0 DEF CTypeOK, Kinds
<1>1. CTypeOK'
  BY <1>0, <1>kind, KillFields, HalfwayType DEF CTypeOK, Kinds
<1>2. Underway'
  BY <1>0, <1>kind, KillFields, HalfwayType DEF Working, Underway, Kinds
<1>3. Asked'
  BY <1>0, <1>kind, KillFields, HalfwayType DEF Working, Asked, Halfway, Kinds
<1>4. Filtered'
  BY <1>0, <1>kind, KillFields, HalfwayType DEF Working, Filtered, Unfiltered, Kinds
<1>5. Journalled'
  BY <1>0, <1>kind, KillFields, HalfwayType DEF Journalled, Due, Written, HalfWritten, Working, Kinds
<1>6. Reported'
  BY <1>0, <1>kind, KillFields, HalfwayType DEF Reported, Kinds
<1> QED
  BY <1>1, <1>2, <1>3, <1>4, <1>5, <1>6 DEF FInv

\* An artifact is damaged.
LEMMA DamageFInv == FInv /\ KInv /\ KInv' /\ Damage => FInv'
<1> SUFFICES ASSUME FInv, KInv, KInv', Damage PROVE FInv'
  OBVIOUS
<1>0. CTypeOK /\ Underway /\ Asked /\ Filtered /\ Journalled /\ Reported
  BY DEF FInv
<1>kind. kind = "price" \/ kind = "flow"
  BY <1>0 DEF CTypeOK, Kinds
<1>1. CTypeOK'
  BY <1>0, <1>kind, DamageFields DEF CTypeOK, Kinds
<1>2. Underway'
  BY <1>0, <1>kind, DamageFields DEF Working, Underway, Kinds
<1>3. Asked'
  BY <1>0, <1>kind, DamageFields DEF Working, Asked, Halfway, Kinds
<1>4. Filtered'
  BY <1>0, <1>kind, DamageFields DEF Working, Filtered, Unfiltered, Kinds
<1>5. Journalled'
  BY <1>0, <1>kind, DamageFields DEF Journalled, Due, Written, Working, Kinds
<1>6. Reported'
  BY <1>0, <1>kind, DamageFields DEF Reported, Kinds
<1> QED
  BY <1>1, <1>2, <1>3, <1>4, <1>5, <1>6 DEF FInv

\* Every step keeps the records in agreement.
LEMMA StepFInv == FInv /\ KInv /\ [CNext]_cvars => FInv'
<1> SUFFICES ASSUME FInv, KInv, [CNext]_cvars PROVE FInv'
  OBVIOUS
<1>1. KInv'
  BY StepKInv
<1>2. CASE CreateSession \/ StartSession \/ ResumeSession \/ RepairSession
  BY <1>2, CreateFInv, StartFInv, ResumeFInv, RepairFInv
<1>3. CASE Turn
  BY <1>1, <1>3, SkipFInv, CollectFInv, ClearFInv, ListFInv, SettleFInv, FailFInv, JournalFInv,
     CheckpointFInv DEF Turn
<1>4. CASE SelectFlows \/ MakeReport \/ Complete
  BY <1>1, <1>4, SelectFlowsFInv, MakeReportFInv, CompleteFInv
<1>5. CASE Interrupt \/ Kill \/ JournalMissing \/ Damage
  BY <1>1, <1>5, InterruptFInv, KillFInv, DamageFInv
<1>6. ASSUME /\ UNCHANGED <<disk, saved, opened, journal, recorded, report, leftover, at, mode,
                            mem, kind, todo, why, damaged, cut>>
             /\ today' \in BOOLEAN /\ invocations' \in 0 .. MaxInvocations
      PROVE  FInv'
  <2>1. Current' = Current
    BY <1>6 DEF Current
  <2>2. CTypeOK'
    BY <1>6 DEF FInv, CTypeOK
  <2>3. Underway' /\ Asked' /\ Filtered' /\ Journalled' /\ Reported'
    BY <1>6, <2>1 DEF FInv, Underway, Working, Asked, Halfway, Filtered, Unfiltered, Journalled,
                      Due, Written, Reported
  <2> QED
    BY <2>2, <2>3 DEF FInv
<1>7. CASE LoginFails
  <2>1. today' \in BOOLEAN /\ invocations' \in 0 .. MaxInvocations
    BY <1>7, BeginsType DEF LoginFails, FInv, CTypeOK
  <2> QED
    BY <1>6, <1>7, <2>1 DEF LoginFails
<1>8. CASE NextDay
  <2>1. today' \in BOOLEAN /\ invocations' \in 0 .. MaxInvocations
    BY <1>8 DEF NextDay, FInv, CTypeOK
  <2> QED
    BY <1>6, <1>8, <2>1 DEF NextDay
<1>9. CASE UNCHANGED cvars
  <2>1. today' \in BOOLEAN /\ invocations' \in 0 .. MaxInvocations
    BY <1>9 DEF cvars, FInv, CTypeOK
  <2> QED
    BY <1>6, <1>9, <2>1 DEF cvars
<1> QED
  BY <1>2, <1>3, <1>4, <1>5, <1>7, <1>8, <1>9 DEF CNext

\* What is read from the records in agreement: the checkpoint can show what it
\* claims, nothing it claims is asked for again, the journal is its failures.
LEMMA FInvHolds == FInv /\ KInv => CheckpointHolds
<1> SUFFICES ASSUME FInv, KInv PROVE CheckpointHolds
  OBVIOUS
<1>1. CheckpointIsBacked
  BY DEF FInv, Filtered, KInv, Backed, CheckpointIsBacked
<1>2. NeverAskedAgain
  <2> SUFFICES ASSUME at = "loop", todo # {}, ~Skipped(Current)
               PROVE  Current \notin disk.done[kind]
    BY DEF NeverAskedAgain
  <2>1. Current \in todo
    BY TurnType DEF FInv
  <2>2. kind \in Kinds /\ disk.done[kind] \subseteq mem.done[kind]
    BY DEF FInv, CTypeOK, Underway, Working
  <2>3. kind = "price" => Current \notin mem.done["price"]
    BY <2>1 DEF FInv, Asked, Halfway, Working
  <2>4. kind = "flow" => Current \notin mem.done["flow"]
    BY DEF Skipped
  <2> QED
    BY <2>2, <2>3, <2>4 DEF Kinds
<1>3. JournalAgrees
  BY DEF FInv, Journalled, Written, JournalAgrees
<1> QED
  BY <1>1, <1>2, <1>3 DEF CheckpointHolds, FInv

\* What a completed session has tried and reported.
LEMMA FInvAccounts == FInv => CompletedIsAccounted
<1> SUFFICES ASSUME FInv PROVE CompletedIsAccounted
  OBVIOUS
<1>1. disk.done["price"] \cup disk.failed["price"] \subseteq Codes
  BY DEF FInv, CTypeOK, Progress, Kinds
<1> QED
  BY <1>1 DEF FInv, Reported, CompletedIsAccounted, CompletedIsTried, ReportMatches

\* A completed session whose journal has no entry and of which no turn was cut
\* has failed nowhere, so that every code is there and passes or does not.
LEMMA FInvValidates == FInv /\ KInv => CompletedValidates
<1> SUFFICES ASSUME FInv, KInv, disk.phase = "completed", ~recorded,
                    \A k \in Kinds : damaged[k] \subseteq saved[k], CutCleanly, Publishable
             PROVE  Validates
  BY DEF CompletedValidates
<1>0. /\ cut = {} /\ ~leftover /\ opened
      /\ N = PilotSize /\ disk.pass \cap Uncounted = {} /\ report.chosen \cap Rowless = {}
  BY DEF CutCleanly, Publishable
<1>1. mode # "repair" /\ at = "off" /\ journal = {}
  BY <1>0 DEF FInv, Journalled, Reported
<1>2. disk.failed = None
  <2>1. disk.failed \in [Kinds -> SUBSET Codes]
    BY DEF FInv, CTypeOK, Progress
  <2>2. \A k \in Kinds : disk.failed[k] = {}
    BY <1>0, <1>1, <2>1 DEF FInv, Journalled, Written
  <2> QED
    BY <2>1, <2>2 DEF None
<1>3. /\ Codes \subseteq disk.done["price"]
      /\ disk.targets \subseteq disk.done["flow"]
      /\ disk.pass \cap saved["price"] \subseteq disk.targets
      /\ disk.targets \subseteq disk.pass
      /\ report.made /\ report.priced = disk.done["price"]
      /\ disk.pass \cap saved["price"] \subseteq report.codes
      /\ report.codes \subseteq disk.pass
      /\ report.chosen \subseteq report.codes
  BY <1>1, <1>2 DEF FInv, Reported, None, Kinds
<1>4. \A k \in Kinds : disk.done[k] \subseteq saved[k] /\ saved[k] \subseteq Codes
  BY DEF KInv, Backed, FInv, CTypeOK
<1>5. saved["price"] = Codes
  BY <1>3, <1>4 DEF Kinds
<1>6. disk.pass = Codes \cap Passing
  BY <1>0, <1>3, <1>4 DEF FInv, Filtered, Kinds
<1>7. saved["flow"] \subseteq disk.pass
  BY <1>4, <1>6 DEF FInv, Filtered, Kinds
<1>8. disk.targets = disk.pass /\ report.codes = disk.pass
  BY <1>3, <1>5, <1>6
<1>9. saved["flow"] = disk.pass /\ disk.done["flow"] = disk.pass
  BY <1>3, <1>4, <1>7, <1>8 DEF Kinds
<1>10. Cardinality(report.priced) = PilotSize
  <2>1. disk.done["price"] = 1 .. N
    BY <1>3 DEF FInv, CTypeOK, Progress, Kinds, Codes
  <2>2. Cardinality(1 .. N) = N
    <3>1. 1 \in Int /\ N \in Int /\ N - 1 + 1 = N /\ ~(1 > N)
      BY SessionAssumption
    <3> QED
      BY <3>1, FS_Interval
  <2> QED
    BY <1>0, <1>3, <2>1, <2>2
<1>11. report.codes \ Uncounted = disk.pass /\ report.chosen \subseteq disk.pass \ Rowless
  BY <1>0, <1>3, <1>8
<1> QED
  BY <1>0, <1>2, <1>3, <1>5, <1>8, <1>9, <1>10, <1>11 DEF Validates

\* Wherever an invocation was interrupted or killed: the checkpoint claims only
\* what it can show, no later invocation asks for what it lists, and between
\* invocations the failure journal holds its failures, but for codes whose turn
\* was cut in two.
THEOREM RecordsAgree == CSpec => []CheckpointHolds
<1>1. CInit => KInv /\ FInv
  BY InitKInv, InitFInv
<1>2. KInv /\ FInv /\ [CNext]_cvars => KInv' /\ FInv'
  BY StepKInv, StepFInv
<1>3. KInv /\ FInv => CheckpointHolds
  BY FInvHolds
<1> QED
  BY <1>1, <1>2, <1>3, PTL DEF CSpec

\* A session that completes has tried every code and every target, and its
\* report is of the codes that pass.
THEOREM CompletedAccounted == CSpec => []CompletedIsAccounted
<1>1. CInit => KInv /\ FInv
  BY InitKInv, InitFInv
<1>2. KInv /\ FInv /\ [CNext]_cvars => KInv' /\ FInv'
  BY StepKInv, StepFInv
<1>3. KInv /\ FInv => CompletedIsAccounted
  BY FInvAccounts
<1> QED
  BY <1>1, <1>2, <1>3, PTL DEF CSpec

\* A session that completes without a failure and without an unread damage passes
\* the validator, however often it was resumed, interrupted, killed or damaged, if
\* no cut turn, temporary file or missing journal was left and the answers have
\* the size, the days and the rows the validator asks for.
THEOREM CompletedPublishable == CSpec => []CompletedValidates
<1>1. CInit => KInv /\ FInv
  BY InitKInv, InitFInv
<1>2. KInv /\ FInv /\ [CNext]_cvars => KInv' /\ FInv'
  BY StepKInv, StepFInv
<1>3. KInv /\ FInv => CompletedValidates
  BY FInvValidates
<1> QED
  BY <1>1, <1>2, <1>3, PTL DEF CSpec
=============================================================================
