--------------------- MODULE NotificationDeliveryProofs ---------------------
(***************************************************************************)
(* Delivery without a lock, for any set of messages, any number of         *)
(* attempts and restarts, and every interleaving of the two threads.       *)
(*                                                                         *)
(* Each property is made inductive by what a thread knows while it is      *)
(* between two of its steps: which message it owes an attempt, what it has *)
(* been told of that message, and that it will still write the file.       *)
(***************************************************************************)
EXTENDS NotificationDelivery, SequenceTheorems, FiniteSetTheorems, TLAPS

WorkerSteps == {"idle", "sending", "sent", "noted", "kept", "saving",
                "failing", "saving_failure", "leaving"}
GuiSteps == {"idle", "submitting", "looping", "saving_mark", "checking",
             "enlisting", "saving_removal"}
NoneOrOne == {{}} \cup {{k} : k \in Keys}

WorkerStates == [at : WorkerSteps, key : NoneOrOne, list : Lists]
GuiStates == [at : GuiSteps, key : NoneOrOne, list : Lists, rest : SUBSET Keys]

\* The threads are records of the shape their steps update.
Shape ==
    /\ worker \in WorkerStates /\ gui \in GuiStates
    /\ items \in Lists /\ file \in Lists
    /\ jobs \in Seq(Keys)
    /\ history \subseteq Keys /\ recorded \subseteq Keys /\ inflight \subseteq Keys
    /\ resting \subseteq Keys /\ aged \subseteq Keys
    /\ known \subseteq Keys /\ whole \subseteq Keys
    /\ stopping \in BOOLEAN /\ behind \in BOOLEAN
    /\ starts \in 1 .. MaxStarts /\ refusals \in 0 .. MaxRefusals

Job(k) == \E i \in DOMAIN jobs : jobs[i] = k

\* A message has one job at most, queued or under way, and is marked as long.
Owned ==
    /\ IsFiniteSet(inflight)
    /\ \A k \in Keys : Job(k) \/ k \in worker.key => k \in inflight
    /\ \A k \in worker.key : ~ Job(k)
    /\ \A i, j \in DOMAIN jobs : jobs[i] = jobs[j] => i = j
    /\ worker.key = {} <=> worker.at = "idle"
    /\ gui.at = "submitting" => gui.key \cap inflight = {}
    /\ ~stopping => \A k \in inflight : Job(k) \/ k \in worker.key
    /\ ~stopping => Cardinality(inflight) = Len(jobs) + (IF worker.at = "idle" THEN 0 ELSE 1)

\* Attempts that the item will still be charged with: the job that has not
\* failed yet, and the place in the loop of the Qt thread, which listed the
\* item as due before that failure.
JobOwed(k) == IF k \in inflight /\ ~(k \in worker.key /\ worker.at \in {"saving_failure", "leaving"})
              THEN 1 ELSE 0
LoopOwed(k) == IF k \in gui.rest THEN 1 ELSE 0

\* So an item is never charged with more than one attempt too many.
Charged ==
    /\ \A k \in DOMAIN items : items[k].tries + JobOwed(k) + LoopOwed(k) <= MaxAttempts + 1
    /\ gui.at \in {"idle", "submitting"} => gui.rest = {}
    /\ gui.at \in {"saving_mark", "checking", "enlisting"} => gui.key \subseteq gui.rest
    /\ gui.at = "submitting" => \A k \in gui.key \cap DOMAIN items : items[k].tries = 0

\* Whoever is to send a message has asked the history of this process.
Asked ==
    /\ known \subseteq history
    /\ \A k \in known : ~ Job(k)
    /\ Doing("sending") => worker.key \cap known = {}
    /\ gui.at \in {"submitting", "enlisting"} => gui.key \cap known = {}

\* What is on record as delivered was received in all its parts.
Received ==
    /\ history \cup recorded \subseteq whole
    /\ worker.at \in {"sent", "noted", "kept"} => worker.key \subseteq whole

\* The file holds what the list holds, or a save is under way or has failed.
Filed == ~behind /\ ~Saving => DOMAIN file = DOMAIN items

NInv == Shape /\ Owned /\ Charged /\ Asked /\ Received /\ Filed

-----------------------------------------------------------------------------
\* A list of items is a function on some of the messages.
LEMMA IsList ==
    ASSUME NEW l
    PROVE  l \in Lists <=>
               /\ DOMAIN l \subseteq Keys
               /\ l \in [DOMAIN l -> [tries : 0 .. MaxAttempts + 1, late : BOOLEAN]]
  BY DEF Lists

\* What the operations on the list give.
LEMMA ListOps ==
    ASSUME items \in Lists, NEW k \in Keys
    PROVE  /\ Without(k) \in Lists /\ DOMAIN Without(k) = DOMAIN items \ {k}
           /\ \A x \in DOMAIN items \ {k} : Without(k)[x] = items[x]
           /\ Added(k) \in Lists /\ DOMAIN Added(k) = DOMAIN items \cup {k}
           /\ \A x \in DOMAIN items \ {k} : Added(k)[x] = items[x]
           /\ Added(k)[k].tries = 0
           /\ Empty \in Lists /\ DOMAIN Empty = {}
<1>1. /\ DOMAIN items \subseteq Keys
      /\ \A x \in DOMAIN items : items[x] \in [tries : 0 .. MaxAttempts + 1, late : BOOLEAN]
  BY IsList
<1>2. [tries |-> 0, late |-> FALSE] \in [tries : 0 .. MaxAttempts + 1, late : BOOLEAN]
  BY NotificationAssumption
<1>3. Without(k) \in [DOMAIN items \ {k} -> [tries : 0 .. MaxAttempts + 1, late : BOOLEAN]]
  BY <1>1 DEF Without
<1>4. Added(k) \in [DOMAIN items \cup {k} -> [tries : 0 .. MaxAttempts + 1, late : BOOLEAN]]
  BY <1>1, <1>2 DEF Added
<1>5. Empty \in Lists /\ DOMAIN Empty = {}
  BY IsList DEF Empty
<1>6. Without(k) \in Lists /\ DOMAIN Without(k) = DOMAIN items \ {k}
  BY <1>1, <1>3 DEF Lists
<1>7. Added(k) \in Lists /\ DOMAIN Added(k) = DOMAIN items \cup {k}
  BY <1>1, <1>4 DEF Lists
<1>8. \A x \in DOMAIN items \ {k} : Without(k)[x] = items[x]
  BY DEF Without
<1>9. \A x \in DOMAIN items \ {k} : Added(k)[x] = items[x]
  BY DEF Added
<1>10. Added(k)[k].tries = 0
  BY DEF Added
<1> QED
  BY <1>5, <1>6, <1>7, <1>8, <1>9, <1>10

\* Counting a failure and marking an item keep the others.
LEMMA CountOps ==
    ASSUME items \in Lists, NEW k \in Keys
    PROVE  /\ k \in DOMAIN items /\ items[k].tries <= MaxAttempts => CountedUp(k) \in Lists
           /\ DOMAIN CountedUp(k) = DOMAIN items
           /\ \A x \in DOMAIN items : CountedUp(k)[x].tries =
                  IF x = k THEN items[x].tries + 1 ELSE items[x].tries
           /\ k \notin DOMAIN items => CountedUp(k) = items
           /\ k \in DOMAIN items =>
                  /\ [items EXCEPT ![k].late = TRUE] \in Lists
                  /\ DOMAIN [items EXCEPT ![k].late = TRUE] = DOMAIN items
                  /\ \A x \in DOMAIN items : [items EXCEPT ![k].late = TRUE][x].tries = items[x].tries
<1> DEFINE R == [tries : 0 .. MaxAttempts + 1, late : BOOLEAN]
<1>1. /\ DOMAIN items \subseteq Keys
      /\ items \in [DOMAIN items -> R]
  BY IsList
<1>2. k \in DOMAIN items => CountedUp(k) = [items EXCEPT ![k] = [items[k] EXCEPT !.tries = @ + 1]]
  BY DEF CountedUp, Queued
<1>3. k \notin DOMAIN items => CountedUp(k) = items
  BY DEF CountedUp, Queued
<1>4. k \in DOMAIN items /\ items[k].tries <= MaxAttempts => [items[k] EXCEPT !.tries = @ + 1] \in R
  BY <1>1, NotificationAssumption
<1>5. k \in DOMAIN items => [items[k] EXCEPT !.late = TRUE] \in R
  BY <1>1
<1>6. k \in DOMAIN items => /\ [items[k] EXCEPT !.tries = @ + 1].tries = items[k].tries + 1
                            /\ [items[k] EXCEPT !.late = TRUE].tries = items[k].tries
  BY <1>1
<1> HIDE DEF R
<1>7. k \in DOMAIN items /\ items[k].tries <= MaxAttempts => CountedUp(k) \in [DOMAIN items -> R]
  BY <1>1, <1>2, <1>4
<1>8. DOMAIN CountedUp(k) = DOMAIN items
  BY <1>1, <1>2, <1>3
<1>9. \A x \in DOMAIN items : CountedUp(k)[x].tries =
          IF x = k THEN items[x].tries + 1 ELSE items[x].tries
  BY <1>1, <1>2, <1>3, <1>6
<1>10. k \in DOMAIN items => [items EXCEPT ![k].late = TRUE] = [items EXCEPT ![k] = [items[k] EXCEPT !.late = TRUE]]
  OBVIOUS
<1>11. k \in DOMAIN items => /\ [items EXCEPT ![k].late = TRUE] \in [DOMAIN items -> R]
                             /\ DOMAIN [items EXCEPT ![k].late = TRUE] = DOMAIN items
                             /\ \A x \in DOMAIN items : [items EXCEPT ![k].late = TRUE][x].tries = items[x].tries
  BY <1>1, <1>5, <1>6, <1>10
<1>12. \A l : l \in [DOMAIN items -> R] => l \in Lists
  BY <1>1 DEF Lists, R
<1> QED
  BY <1>3, <1>7, <1>8, <1>9, <1>11, <1>12

\* Handing a job to the executor.
LEMMA AppendJob ==
    ASSUME jobs \in Seq(Keys), NEW k \in Keys, jobs' = Append(jobs, k)
    PROVE  /\ jobs' \in Seq(Keys) /\ Len(jobs') = Len(jobs) + 1
           /\ \A x : Job(x)' <=> Job(x) \/ x = k
           /\ (\A i, j \in DOMAIN jobs : jobs[i] = jobs[j] => i = j) /\ ~ Job(k) =>
                  \A i, j \in DOMAIN jobs' : jobs'[i] = jobs'[j] => i = j
<1>1. /\ jobs' \in Seq(Keys) /\ Len(jobs') = Len(jobs) + 1
      /\ DOMAIN jobs = 1 .. Len(jobs) /\ DOMAIN jobs' = 1 .. Len(jobs) + 1
      /\ Len(jobs) \in Nat
      /\ \A i \in 1 .. Len(jobs) : jobs'[i] = jobs[i]
      /\ jobs'[Len(jobs) + 1] = k
  BY AppendProperties
<1>2. \A x : Job(x)' <=> Job(x) \/ x = k
  BY <1>1 DEF Job
<1>3. ASSUME \A i, j \in DOMAIN jobs : jobs[i] = jobs[j] => i = j, ~ Job(k)
      PROVE  \A i, j \in DOMAIN jobs' : jobs'[i] = jobs'[j] => i = j
  BY <1>1, <1>3 DEF Job
<1> QED
  BY <1>1, <1>2, <1>3

\* Taking one from it.
LEMMA TailJob ==
    ASSUME jobs \in Seq(Keys), jobs # <<>>, jobs' = Tail(jobs)
    PROVE  /\ Head(jobs) \in Keys /\ jobs' \in Seq(Keys) /\ Len(jobs') = Len(jobs) - 1
           /\ \A x : Job(x) <=> Job(x)' \/ x = Head(jobs)
           /\ (\A i, j \in DOMAIN jobs : jobs[i] = jobs[j] => i = j) =>
                  /\ \A i, j \in DOMAIN jobs' : jobs'[i] = jobs'[j] => i = j
                  /\ \A x : x = Head(jobs) => ~ Job(x)'
<1>1. /\ Head(jobs) \in Keys /\ Head(jobs) = jobs[1]
      /\ jobs' \in Seq(Keys) /\ Len(jobs') = Len(jobs) - 1
      /\ Len(jobs) \in Nat \ {0}
      /\ DOMAIN jobs = 1 .. Len(jobs) /\ DOMAIN jobs' = 1 .. Len(jobs) - 1
      /\ \A i \in 1 .. Len(jobs) - 1 : jobs'[i] = jobs[i + 1]
  BY HeadTailProperties
<1>2. \A i \in 1 .. Len(jobs) : i = 1 \/ (i - 1 \in 1 .. Len(jobs) - 1 /\ jobs'[i - 1] = jobs[i])
  BY <1>1
<1>3. \A x : Job(x) <=> Job(x)' \/ x = Head(jobs)
  <2> TAKE x
  <2>1. ASSUME NEW i \in DOMAIN jobs, jobs[i] = x PROVE Job(x)' \/ x = Head(jobs)
    BY <1>1, <1>2, <2>1 DEF Job
  <2>2. ASSUME NEW i \in DOMAIN jobs', jobs'[i] = x PROVE Job(x)
    <3>1. i + 1 \in DOMAIN jobs /\ jobs[i + 1] = x
      BY <1>1, <2>2
    <3> QED
      BY <3>1 DEF Job
  <2>3. x = Head(jobs) => Job(x)
    BY <1>1 DEF Job
  <2> QED
    BY <2>1, <2>2, <2>3 DEF Job
<1>4. ASSUME \A i, j \in DOMAIN jobs : jobs[i] = jobs[j] => i = j
      PROVE  /\ \A i, j \in DOMAIN jobs' : jobs'[i] = jobs'[j] => i = j
             /\ \A x : x = Head(jobs) => ~ Job(x)'
  <2>1. ASSUME NEW i \in DOMAIN jobs', NEW j \in DOMAIN jobs', jobs'[i] = jobs'[j] PROVE i = j
    BY <1>1, <1>4, <2>1
  <2>2. ASSUME NEW i \in DOMAIN jobs', jobs'[i] = Head(jobs) PROVE FALSE
    <3>1. i + 1 \in DOMAIN jobs /\ 1 \in DOMAIN jobs /\ jobs[i + 1] = jobs[1] /\ i + 1 # 1
      BY <1>1, <2>2
    <3> QED
      BY <1>4, <3>1
  <2> QED
    BY <2>1, <2>2 DEF Job
<1> QED
  BY <1>1, <1>3, <1>4

\* A thread has at most one message in hand.
LEMMA Hands ==
    /\ {} \in NoneOrOne
    /\ \A k \in Keys : {k} \in NoneOrOne
    /\ \A h \in NoneOrOne : h \subseteq Keys /\ (h = {} \/ \E k \in Keys : h = {k})
  BY DEF NoneOrOne

\* The steps of the threads.
LEMMA Threads ==
    ASSUME worker \in WorkerStates, gui \in GuiStates
    PROVE  /\ Idle \in WorkerStates /\ GuiIdle \in GuiStates
           /\ \A step \in WorkerSteps : [worker EXCEPT !.at = step] \in WorkerStates
           /\ \A step \in WorkerSteps, l \in Lists :
                  [worker EXCEPT !.at = step, !.list = l] \in WorkerStates
           /\ \A k \in Keys : [Idle EXCEPT !.at = "sending", !.key = {k}] \in WorkerStates
           /\ \A step \in GuiSteps : [gui EXCEPT !.at = step] \in GuiStates
           /\ \A step \in GuiSteps, l \in Lists : [gui EXCEPT !.at = step, !.list = l] \in GuiStates
           /\ \A step \in GuiSteps, k \in Keys, l \in Lists : Next(step, k, l) \in GuiStates
           /\ \A step \in GuiSteps, k \in Keys, l \in Lists : \A x :
                  [Next(step, k, l) EXCEPT !.rest = @ \ {x}] \in GuiStates
           /\ \A k \in Keys, l \in Lists :
                  [GuiIdle EXCEPT !.at = "submitting", !.key = {k}, !.list = l] \in GuiStates
           /\ \A rest \in SUBSET Keys : /\ LoopOn(rest) \in GuiStates
                                        /\ [GuiIdle EXCEPT !.at = "looping", !.rest = rest] \in GuiStates
<1>1. Empty \in Lists
  BY IsList DEF Empty
<1>2. Idle \in WorkerStates /\ GuiIdle \in GuiStates
  BY <1>1, Hands DEF Idle, GuiIdle, WorkerStates, GuiStates, WorkerSteps, GuiSteps
<1>3. \A step \in WorkerSteps : [worker EXCEPT !.at = step] \in WorkerStates
  BY DEF WorkerStates
<1>4. \A step \in WorkerSteps, l \in Lists : [worker EXCEPT !.at = step, !.list = l] \in WorkerStates
  BY DEF WorkerStates
<1>5. \A k \in Keys : [Idle EXCEPT !.at = "sending", !.key = {k}] \in WorkerStates
  BY <1>1, Hands DEF Idle, WorkerStates, WorkerSteps
<1>6. \A step \in GuiSteps : [gui EXCEPT !.at = step] \in GuiStates
  BY DEF GuiStates
<1>7. \A step \in GuiSteps, l \in Lists : [gui EXCEPT !.at = step, !.list = l] \in GuiStates
  BY DEF GuiStates
<1>8. \A step \in GuiSteps, k \in Keys, l \in Lists : Next(step, k, l) \in GuiStates
  BY Hands DEF Next, GuiStates
<1>9. \A step \in GuiSteps, k \in Keys, l \in Lists : \A x :
          [Next(step, k, l) EXCEPT !.rest = @ \ {x}] \in GuiStates
  BY <1>8 DEF GuiStates
<1>10. \A k \in Keys, l \in Lists :
          [GuiIdle EXCEPT !.at = "submitting", !.key = {k}, !.list = l] \in GuiStates
  BY Hands DEF GuiIdle, GuiStates, GuiSteps
<1>11. \A rest \in SUBSET Keys : /\ LoopOn(rest) \in GuiStates
                                 /\ [GuiIdle EXCEPT !.at = "looping", !.rest = rest] \in GuiStates
  BY <1>1, Hands DEF LoopOn, GuiIdle, GuiStates, GuiSteps
<1> QED
  BY <1>2, <1>3, <1>4, <1>5, <1>6, <1>7, <1>8, <1>9, <1>10, <1>11

\* What the steps of the threads leave in hand.
LEMMA Fields ==
    ASSUME worker \in WorkerStates, gui \in GuiStates
    PROVE  /\ \A step : Then(step) => worker'.at = step /\ worker'.key = worker.key
           /\ \A step : \A l : worker' = [worker EXCEPT !.at = step, !.list = l] =>
                  worker'.at = step /\ worker'.key = worker.key
           /\ worker' = Idle => worker'.at = "idle" /\ worker'.key = {}
           /\ \A k : worker' = [Idle EXCEPT !.at = "sending", !.key = {k}] =>
                  worker'.at = "sending" /\ worker'.key = {k}
           /\ gui' = GuiIdle => gui'.at = "idle" /\ gui'.key = {} /\ gui'.rest = {}
           /\ \A step : gui' = [gui EXCEPT !.at = step] =>
                  gui'.at = step /\ gui'.key = gui.key /\ gui'.rest = gui.rest
           /\ \A step : \A l : gui' = [gui EXCEPT !.at = step, !.list = l] =>
                  gui'.at = step /\ gui'.key = gui.key /\ gui'.rest = gui.rest
           /\ \A step : \A k : \A l : gui' = Next(step, k, l) =>
                  gui'.at = step /\ gui'.key = {k} /\ gui'.rest = gui.rest
           /\ \A k : \A l : gui' = [Next("saving_removal", k, l) EXCEPT !.rest = @ \ {k}] =>
                  gui'.at = "saving_removal" /\ gui'.key = {k} /\ gui'.rest = gui.rest \ {k}
           /\ \A k : \A l : gui' = [GuiIdle EXCEPT !.at = "submitting", !.key = {k}, !.list = l] =>
                  gui'.at = "submitting" /\ gui'.key = {k} /\ gui'.rest = {}
           /\ \A rest : gui' = [GuiIdle EXCEPT !.at = "looping", !.rest = rest] =>
                  gui'.at = "looping" /\ gui'.key = {} /\ gui'.rest = rest
           /\ \A rest : gui' = LoopOn(rest) =>
                  gui'.at \in {"idle", "looping"} /\ gui'.rest = rest /\ (gui'.at = "idle" <=> rest = {})
<1>1. \A step : Then(step) => worker'.at = step /\ worker'.key = worker.key
  BY DEF WorkerStates, Then
<1>2. \A step : \A l : worker' = [worker EXCEPT !.at = step, !.list = l] =>
          worker'.at = step /\ worker'.key = worker.key
  BY DEF WorkerStates
<1>3. worker' = Idle => worker'.at = "idle" /\ worker'.key = {}
  BY DEF Idle
<1>4. \A k : worker' = [Idle EXCEPT !.at = "sending", !.key = {k}] =>
          worker'.at = "sending" /\ worker'.key = {k}
  BY DEF Idle
<1>5. gui' = GuiIdle => gui'.at = "idle" /\ gui'.key = {} /\ gui'.rest = {}
  BY DEF GuiIdle
<1>6. \A step : gui' = [gui EXCEPT !.at = step] =>
          gui'.at = step /\ gui'.key = gui.key /\ gui'.rest = gui.rest
  BY DEF GuiStates
<1>7. \A step : \A l : gui' = [gui EXCEPT !.at = step, !.list = l] =>
          gui'.at = step /\ gui'.key = gui.key /\ gui'.rest = gui.rest
  BY DEF GuiStates
<1>8. \A step : \A k : \A l : gui' = Next(step, k, l) =>
          gui'.at = step /\ gui'.key = {k} /\ gui'.rest = gui.rest
  BY DEF GuiStates, Next
<1>9. \A k : \A l : gui' = [Next("saving_removal", k, l) EXCEPT !.rest = @ \ {k}] =>
          gui'.at = "saving_removal" /\ gui'.key = {k} /\ gui'.rest = gui.rest \ {k}
  BY DEF GuiStates, Next
<1>10. \A k : \A l : gui' = [GuiIdle EXCEPT !.at = "submitting", !.key = {k}, !.list = l] =>
           gui'.at = "submitting" /\ gui'.key = {k} /\ gui'.rest = {}
  BY DEF GuiIdle
<1>11. \A rest : gui' = [GuiIdle EXCEPT !.at = "looping", !.rest = rest] =>
           gui'.at = "looping" /\ gui'.key = {} /\ gui'.rest = rest
  BY DEF GuiIdle
<1>12. \A rest : gui' = LoopOn(rest) =>
           gui'.at \in {"idle", "looping"} /\ gui'.rest = rest /\ (gui'.at = "idle" <=> rest = {})
  BY DEF GuiIdle, LoopOn
<1> QED
  BY <1>1, <1>2, <1>3, <1>4, <1>5, <1>6, <1>7, <1>8, <1>9, <1>10, <1>11, <1>12

\* What each step of the loop of the Qt thread does to its hand.
LEMMA GuiMoves ==
    ASSUME Shape
    PROVE  /\ \A k \in Keys : GuiRemoves(k) =>
                  \/ /\ k \in DOMAIN items /\ items' = Without(k)
                     /\ gui'.at = "saving_removal" /\ gui'.rest = gui.rest \ {k}
                  \/ /\ items' = items /\ k \notin DOMAIN items
                     /\ gui'.at = "idle" /\ gui'.rest = {}
           /\ Submitted => /\ gui.at = "submitting" /\ gui'.at = "idle" /\ gui'.rest = {}
           /\ RetryDue => gui.at = "idle" /\ gui'.at = "looping" /\ gui'.rest = Due
           /\ RetryNext =>
                  /\ gui.at = "looping"
                  /\ \E k \in gui.rest :
                        \/ k \in aged \ Lasting /\ GuiRemoves(k)
                        \/ /\ items' = IF Queued(k) THEN [items EXCEPT ![k].late = TRUE] ELSE items
                           /\ gui'.at = "saving_mark" /\ gui'.key = {k} /\ gui'.rest = gui.rest
                        \/ /\ items' = items
                           /\ gui'.at = "checking" /\ gui'.key = {k} /\ gui'.rest = gui.rest
           /\ RetrySaves =>
                  /\ gui.at \in {"saving_mark", "saving_removal"}
                  /\ \/ /\ gui.at = "saving_mark" /\ gui'.at = "checking"
                        /\ gui'.key = gui.key /\ gui'.rest = gui.rest
                     \/ gui'.at \in {"idle", "looping"} /\ gui'.rest = gui.rest
                        /\ (gui'.at = "idle" => gui'.rest = {})
                     \/ gui'.at = "idle" /\ gui'.rest = {}
           /\ RetryChecks =>
                  /\ gui.at = "checking"
                  /\ \E k \in gui.key :
                        \/ k \in history /\ GuiRemoves(k)
                        \/ /\ k \notin history /\ items' = items
                           /\ gui'.at = "enlisting" /\ gui'.key = gui.key /\ gui'.rest = gui.rest
           /\ RetryEnlists =>
                  /\ gui.at = "enlisting"
                  /\ \E k \in gui.key :
                        /\ inflight' = inflight \cup {k}
                        /\ jobs' = IF k \in inflight THEN jobs ELSE Append(jobs, k)
                        /\ gui'.at \in {"idle", "looping"} /\ gui'.rest = gui.rest \ {k}
                        /\ (gui'.at = "idle" => gui'.rest = {})
<1>1. worker \in WorkerStates /\ gui \in GuiStates
  BY DEF Shape
<1>2. \A k \in Keys : GuiRemoves(k) =>
          \/ /\ k \in DOMAIN items /\ items' = Without(k)
             /\ gui'.at = "saving_removal" /\ gui'.rest = gui.rest \ {k}
          \/ /\ items' = items /\ k \notin DOMAIN items
             /\ gui'.at = "idle" /\ gui'.rest = {}
  BY <1>1, Fields DEF GuiRemoves, Queued
<1>3. Submitted => gui.at = "submitting" /\ gui'.at = "idle" /\ gui'.rest = {}
  BY <1>1, Fields DEF Submitted
<1>4. RetryDue => gui.at = "idle" /\ gui'.at = "looping" /\ gui'.rest = Due
  BY <1>1, Fields DEF RetryDue
<1>5. ASSUME RetryNext
      PROVE  /\ gui.at = "looping"
             /\ \E k \in gui.rest :
                   \/ k \in aged \ Lasting /\ GuiRemoves(k)
                   \/ /\ items' = IF Queued(k) THEN [items EXCEPT ![k].late = TRUE] ELSE items
                      /\ gui'.at = "saving_mark" /\ gui'.key = {k} /\ gui'.rest = gui.rest
                   \/ /\ items' = items
                      /\ gui'.at = "checking" /\ gui'.key = {k} /\ gui'.rest = gui.rest
  <2>1. PICK k \in gui.rest :
            \/ k \in aged \ Lasting /\ GuiRemoves(k)
            \/ /\ items' = IF Queued(k) THEN [items EXCEPT ![k].late = TRUE] ELSE items
               /\ gui' = Next("saving_mark", k, items')
            \/ gui' = Next("checking", k, Empty) /\ items' = items
    BY <1>5 DEF RetryNext
  <2>2. gui.at = "looping"
    BY <1>5 DEF RetryNext
  <2>3. CASE k \in aged \ Lasting /\ GuiRemoves(k)
    BY <2>2, <2>3
  <2>4. CASE /\ items' = IF Queued(k) THEN [items EXCEPT ![k].late = TRUE] ELSE items
             /\ gui' = Next("saving_mark", k, items')
    <3>1. gui'.at = "saving_mark" /\ gui'.key = {k} /\ gui'.rest = gui.rest
      BY <1>1, <2>4, Fields
    <3> QED
      BY <2>2, <2>4, <3>1
  <2>5. CASE gui' = Next("checking", k, Empty) /\ items' = items
    <3>1. gui'.at = "checking" /\ gui'.key = {k} /\ gui'.rest = gui.rest
      BY <1>1, <2>5, Fields
    <3> QED
      BY <2>2, <2>5, <3>1
  <2> QED
    BY <2>1, <2>3, <2>4, <2>5
<1>6. ASSUME RetrySaves
      PROVE  /\ gui.at \in {"saving_mark", "saving_removal"}
             /\ \/ /\ gui.at = "saving_mark" /\ gui'.at = "checking"
                   /\ gui'.key = gui.key /\ gui'.rest = gui.rest
                \/ gui'.at \in {"idle", "looping"} /\ gui'.rest = gui.rest
                   /\ (gui'.at = "idle" => gui'.rest = {})
                \/ gui'.at = "idle" /\ gui'.rest = {}
  <2>1. /\ gui.at \in {"saving_mark", "saving_removal"}
        /\ \/ gui.at = "saving_mark" /\ gui' = [gui EXCEPT !.at = "checking", !.list = Empty]
           \/ gui' = LoopOn(gui.rest)
           \/ gui' = GuiIdle
    BY <1>6 DEF RetrySaves
  <2>2. CASE gui.at = "saving_mark" /\ gui' = [gui EXCEPT !.at = "checking", !.list = Empty]
    BY <1>1, <2>1, <2>2, Fields
  <2>3. CASE gui' = LoopOn(gui.rest)
    BY <1>1, <2>1, <2>3, Fields
  <2>4. CASE gui' = GuiIdle
    BY <1>1, <2>1, <2>4, Fields
  <2> QED
    BY <2>1, <2>2, <2>3, <2>4
<1>7. ASSUME RetryChecks
      PROVE  /\ gui.at = "checking"
             /\ \E k \in gui.key :
                   \/ k \in history /\ GuiRemoves(k)
                   \/ /\ k \notin history /\ items' = items
                      /\ gui'.at = "enlisting" /\ gui'.key = gui.key /\ gui'.rest = gui.rest
  BY <1>1, <1>7, Fields DEF RetryChecks
<1>8. ASSUME RetryEnlists
      PROVE  /\ gui.at = "enlisting"
             /\ \E k \in gui.key :
                   /\ inflight' = inflight \cup {k}
                   /\ jobs' = IF k \in inflight THEN jobs ELSE Append(jobs, k)
                   /\ gui'.at \in {"idle", "looping"} /\ gui'.rest = gui.rest \ {k}
                   /\ (gui'.at = "idle" => gui'.rest = {})
  BY <1>1, <1>8, Fields DEF RetryEnlists
<1> QED
  BY <1>2, <1>3, <1>4, <1>5, <1>6, <1>7, <1>8

\* What the threads have in hand.
LEMMA InHand ==
    Shape => /\ worker.list \in Lists /\ worker.key \subseteq Keys /\ worker.at \in WorkerSteps
             /\ gui.list \in Lists /\ gui.key \subseteq Keys /\ gui.rest \subseteq Keys
  BY Hands DEF Shape, WorkerStates, GuiStates

\* A save.
LEMMA Saves ==
    ASSUME NEW l
    PROVE  /\ Install(l) => file' = l /\ behind' \in BOOLEAN /\ refusals' = refusals
           /\ Install(l) /\ ~behind' => DOMAIN file' = DOMAIN items
           /\ DiskRefuses => /\ file' = file /\ behind' = TRUE
                             /\ refusals < MaxRefusals /\ refusals' = refusals + 1
<1>1. Install(l) => behind' \in BOOLEAN
  BY Zenon DEF Install
<1> QED
  BY <1>1 DEF Install, DiskRefuses, Refuses

\* No step leaves the shape.
LEMMA ShapeKept == NInv /\ [NNext]_nvars => Shape'
<1> SUFFICES ASSUME NInv, [NNext]_nvars PROVE Shape'
  OBVIOUS
<1>0. /\ Shape
      /\ worker.list \in Lists /\ worker.key \subseteq Keys /\ worker.at \in WorkerSteps
      /\ gui.list \in Lists /\ gui.key \subseteq Keys /\ gui.rest \subseteq Keys
  BY InHand DEF NInv
<1> USE NotificationAssumption, <1>0 DEF Shape
<1>22. ASSUME NEW l \in Lists, Install(l) \/ DiskRefuses
      PROVE  file' \in Lists /\ behind' \in BOOLEAN /\ refusals' \in 0 .. MaxRefusals
  <2>1. CASE Install(l)
    <3>1. file' \in Lists /\ refusals' \in 0 .. MaxRefusals
      BY <1>22, <2>1 DEF Install
    <3>2. behind' \in BOOLEAN
      BY <2>1, Saves, Zenon
    <3> QED
      BY <3>1, <3>2
  <2>2. CASE DiskRefuses
    <3>1. file' \in Lists /\ refusals' \in 0 .. MaxRefusals
      BY <2>2 DEF DiskRefuses, Refuses
    <3>2. behind' \in BOOLEAN
      BY <2>2, Saves, Zenon
    <3> QED
      BY <3>1, <3>2
  <2> QED
    BY <1>22, <2>1, <2>2
<1>1. ASSUME NEW k \in Keys, Submit(k) PROVE Shape'
  <2>1. items' \in Lists
    BY <1>1, ListOps DEF Submit
  <2>2. gui' \in GuiStates
    BY <1>1, <2>1, Threads DEF Submit
  <2> QED
    BY <1>1, <2>1, <2>2 DEF Submit
<1>2. CASE Submitted
  <2>1. gui' \in GuiStates
    BY <1>2, Threads DEF Submitted
  <2>2. file' \in Lists /\ behind' \in BOOLEAN /\ refusals' \in 0 .. MaxRefusals
    <3>1. Install(gui.list) \/ DiskRefuses
      BY <1>2 DEF Submitted
    <3> QED
      BY <1>22, <3>1
  <2>3. inflight' \subseteq Keys
    BY <1>2 DEF Submitted
  <2>4. jobs' \in Seq(Keys)
    BY <1>2, AppendJob DEF Submitted
  <2> QED
    BY <1>2, <2>1, <2>2, <2>3, <2>4 DEF Submitted
<1>3. CASE RetryDue
  <2>1. Due \subseteq Keys
    BY IsList DEF Due
  <2>2. gui' \in GuiStates
    BY <1>3, <2>1, Threads DEF RetryDue
  <2> QED
    BY <1>3, <2>2 DEF RetryDue
<1>4. ASSUME NEW k \in Keys, GuiRemoves(k) PROVE items' \in Lists /\ gui' \in GuiStates
  <2>1. items' \in Lists
    BY <1>4, ListOps DEF GuiRemoves
  <2>2. gui' \in GuiStates
    <3>1. CASE Queued(k)
      <4>1. gui' = [Next("saving_removal", k, items') EXCEPT !.rest = @ \ {k}]
        BY <1>4, <3>1 DEF GuiRemoves
      <4>2. "saving_removal" \in GuiSteps
        BY DEF GuiSteps
      <4> QED
        BY <2>1, <4>1, <4>2, Threads
    <3>2. CASE ~Queued(k)
      BY <1>4, <3>2, Threads DEF GuiRemoves
    <3> QED
      BY <3>1, <3>2
  <2> QED
    BY <2>1, <2>2
<1>5. CASE RetryNext
  <2>1. items' \in Lists /\ gui' \in GuiStates
    <3>1. PICK k \in gui.rest :
              \/ GuiRemoves(k)
              \/ /\ items' = IF Queued(k) THEN [items EXCEPT ![k].late = TRUE] ELSE items
                 /\ gui' = Next("saving_mark", k, items')
              \/ gui' = Next("checking", k, Empty) /\ UNCHANGED items
      BY <1>5 DEF RetryNext
    <3>2. k \in Keys /\ Empty \in Lists
      BY ListOps
    <3>3. CASE GuiRemoves(k)
      BY <1>4, <3>2, <3>3
    <3>4. CASE /\ items' = IF Queued(k) THEN [items EXCEPT ![k].late = TRUE] ELSE items
               /\ gui' = Next("saving_mark", k, items')
      <4>1. items' \in Lists
        BY <3>2, <3>4, CountOps DEF Queued
      <4> QED
        BY <3>2, <3>4, <4>1, Threads DEF GuiSteps
    <3>5. CASE gui' = Next("checking", k, Empty) /\ UNCHANGED items
      BY <3>2, <3>5, Threads DEF GuiSteps
    <3> QED
      BY <3>1, <3>3, <3>4, <3>5
  <2> QED
    BY <1>5, <2>1 DEF RetryNext
<1>6. CASE RetrySaves
  <2>1. gui' \in GuiStates
    <3>1. \/ gui' = [gui EXCEPT !.at = "checking", !.list = Empty]
          \/ gui' = LoopOn(gui.rest)
          \/ gui' = GuiIdle
      BY <1>6 DEF RetrySaves
    <3>2. Empty \in Lists /\ "checking" \in GuiSteps
      BY IsList DEF Empty, GuiSteps
    <3>3. CASE gui' = [gui EXCEPT !.at = "checking", !.list = Empty]
      BY <3>2, <3>3, Threads
    <3>4. CASE gui' = LoopOn(gui.rest)
      BY <3>4, Threads
    <3>5. CASE gui' = GuiIdle
      BY <3>5, Threads
    <3> QED
      BY <3>1, <3>3, <3>4, <3>5
  <2>2. file' \in Lists /\ behind' \in BOOLEAN /\ refusals' \in 0 .. MaxRefusals
    <3>1. Install(gui.list) \/ DiskRefuses
      BY <1>6 DEF RetrySaves
    <3> QED
      BY <1>22, <3>1
  <2> QED
    BY <1>6, <2>1, <2>2 DEF RetrySaves
<1>7. CASE RetryChecks
  <2>1. items' \in Lists /\ gui' \in GuiStates
    BY <1>4, <1>7, Threads DEF RetryChecks, GuiSteps
  <2> QED
    BY <1>7, <2>1 DEF RetryChecks
<1>8. CASE RetryEnlists
  <2>1. PICK k \in gui.key :
            /\ inflight' = inflight \cup {k}
            /\ jobs' = IF k \in inflight THEN jobs ELSE Append(jobs, k)
            /\ gui' = LoopOn(gui.rest \ {k})
    BY <1>8 DEF RetryEnlists
  <2>2. gui' \in GuiStates
    BY <2>1, Threads
  <2>3. jobs' \in Seq(Keys) /\ inflight' \subseteq Keys
    BY <2>1, AppendJob
  <2> QED
    BY <1>8, <2>2, <2>3 DEF RetryEnlists
<1>9. CASE StopService
  BY <1>9 DEF StopService
<1>10. CASE TakeJob
  <2>1. worker' \in WorkerStates /\ jobs' \in Seq(Keys)
    BY <1>10, TailJob, Threads DEF TakeJob
  <2> QED
    BY <1>10, <2>1 DEF TakeJob
<1>11. ASSUME NEW step \in WorkerSteps, Then(step) PROVE worker' \in WorkerStates
  BY <1>11, Threads DEF Then
<1>12. CASE Send
  BY <1>11, <1>12 DEF Send, WorkerSteps
<1>13. CASE Note
  BY <1>11, <1>13 DEF Note, WorkerSteps
<1>14. CASE KeepHistory
  BY <1>11, <1>14 DEF KeepHistory, WorkerSteps, Refuses
<1>15. CASE RemoveItem
  <2>1. items' \in Lists
    BY <1>15, ListOps DEF RemoveItem
  <2>2. worker' \in WorkerStates
    BY <1>11, <1>15, <2>1, Threads DEF RemoveItem, WorkerSteps
  <2> QED
    BY <1>15, <2>1, <2>2 DEF RemoveItem
<1>16. CASE CountFailure
  <2>1. items' \in Lists
    <3>1. PICK k \in worker.key : items' = CountedUp(k)
      BY <1>16 DEF CountFailure
    <3>2. ASSUME k \in DOMAIN items PROVE items[k].tries <= MaxAttempts
      <4>1. JobOwed(k) = 1 /\ LoopOwed(k) \in {0, 1}
        BY <1>16 DEF NInv, Owned, JobOwed, LoopOwed, CountFailure, Doing
      <4>2. items[k].tries \in Nat
        BY <3>2, IsList
      <4> QED
        BY <3>2, <4>1, <4>2 DEF NInv, Charged
    <3> QED
      BY <3>1, <3>2, CountOps
  <2>2. worker' \in WorkerStates
    BY <1>16, <2>1, Threads DEF CountFailure, WorkerSteps
  <2>3. resting' \subseteq Keys
    BY <1>16 DEF CountFailure
  <2> QED
    BY <1>16, <2>1, <2>2, <2>3 DEF CountFailure
<1>17. CASE WorkerSaves
  <2>1. worker' \in WorkerStates
    BY <1>11, <1>17 DEF WorkerSaves, WorkerSteps
  <2>2. file' \in Lists /\ behind' \in BOOLEAN /\ refusals' \in 0 .. MaxRefusals
    <3>1. Install(worker.list) \/ DiskRefuses
      BY <1>17 DEF WorkerSaves
    <3> QED
      BY <1>22, <3>1
  <2> QED
    BY <1>17, <2>1, <2>2 DEF WorkerSaves
<1>18. CASE Leave
  BY <1>18, Threads DEF Leave
<1>19. CASE TimePasses
  BY <1>19 DEF TimePasses
<1>20. CASE Restart
  <2>1. DOMAIN file \subseteq Keys
    BY IsList
  <2>2. worker' \in WorkerStates /\ gui' \in GuiStates
    BY <1>20, Threads DEF Restart
  <2>3. resting' \subseteq Keys /\ aged' \subseteq Keys /\ starts' \in 1 .. MaxStarts
    BY <1>20, <2>1 DEF Restart
  <2>4. stopping' \in BOOLEAN /\ behind' \in BOOLEAN
    BY <1>20, Zenon DEF Restart
  <2>5. jobs' \in Seq(Keys)
    BY <1>20 DEF Restart
  <2> QED
    BY <1>20, <2>2, <2>3, <2>4, <2>5 DEF Restart
<1>21. CASE UNCHANGED nvars
  BY <1>21 DEF nvars
<1> QED
  BY <1>1, <1>2, <1>3, <1>5, <1>6, <1>7, <1>8, <1>9, <1>10, <1>12, <1>13, <1>14, <1>15, <1>16,
     <1>17, <1>18, <1>19, <1>20, <1>21 DEF NNext, RetryLoop, Worker

-----------------------------------------------------------------------------
\* What each step of the worker does to its hand.
LEMMA WorkerMoves ==
    ASSUME Shape
    PROVE  /\ TakeJob => /\ worker.at = "idle" /\ jobs # <<>> /\ jobs' = Tail(jobs)
                         /\ worker'.at = "sending" /\ worker'.key = {Head(jobs)}
           /\ Send => /\ worker.at = "sending" /\ worker'.key = worker.key
                      /\ \/ worker'.at = "sent" /\ whole' = whole \cup worker.key
                         \/ worker'.at = "failing" /\ whole' = whole
           /\ Note => /\ worker.at = "sent" /\ worker'.at = "noted" /\ worker'.key = worker.key
           /\ KeepHistory => /\ worker.at = "noted" /\ worker'.key = worker.key
                             /\ \/ worker'.at = "kept" /\ recorded' = history
                                \/ worker'.at = "failing" /\ recorded' = recorded
           /\ RemoveItem => /\ worker.at = "kept" /\ worker'.key = worker.key
                            /\ \E k \in worker.key :
                                  \/ worker'.at = "saving" /\ items' = Without(k)
                                  \/ worker'.at = "failing" /\ items' = items
           /\ CountFailure => /\ worker.at = "failing" /\ worker'.key = worker.key
                              /\ worker'.at = "saving_failure"
                              /\ \E k \in worker.key : items' = CountedUp(k)
           /\ WorkerSaves => /\ worker'.key = worker.key
                             /\ \/ worker.at = "saving" /\ worker'.at \in {"failing", "leaving"}
                                \/ worker.at = "saving_failure" /\ worker'.at = "leaving"
           /\ Leave => /\ worker.at = "leaving" /\ inflight' = inflight \ worker.key
                       /\ worker'.at = "idle" /\ worker'.key = {}
<1>1. worker \in WorkerStates /\ gui \in GuiStates
  BY DEF Shape
<1>2. TakeJob => /\ worker.at = "idle" /\ jobs # <<>> /\ jobs' = Tail(jobs)
                 /\ worker'.at = "sending" /\ worker'.key = {Head(jobs)}
  BY <1>1, Fields DEF TakeJob, Doing
<1>3. Send => /\ worker.at = "sending" /\ worker'.key = worker.key
              /\ \/ worker'.at = "sent" /\ whole' = whole \cup worker.key
                 \/ worker'.at = "failing" /\ whole' = whole
  BY <1>1, Fields DEF Send, Doing
<1>4. Note => /\ worker.at = "sent" /\ worker'.at = "noted" /\ worker'.key = worker.key
  BY <1>1, Fields DEF Note, Doing
<1>5. KeepHistory => /\ worker.at = "noted" /\ worker'.key = worker.key
                     /\ \/ worker'.at = "kept" /\ recorded' = history
                        \/ worker'.at = "failing" /\ recorded' = recorded
  BY <1>1, Fields DEF KeepHistory, Doing
<1>6. RemoveItem => /\ worker.at = "kept" /\ worker'.key = worker.key
                    /\ \E k \in worker.key :
                          \/ worker'.at = "saving" /\ items' = Without(k)
                          \/ worker'.at = "failing" /\ items' = items
  <2> SUFFICES ASSUME RemoveItem
               PROVE  /\ worker.at = "kept" /\ worker'.key = worker.key
                      /\ \E k \in worker.key :
                            \/ worker'.at = "saving" /\ items' = Without(k)
                            \/ worker'.at = "failing" /\ items' = items
    OBVIOUS
  <2>1. PICK k \in worker.key :
            \/ /\ items' = Without(k)
               /\ worker' = [worker EXCEPT !.at = "saving", !.list = items']
            \/ Then("failing") /\ items' = items
    BY DEF RemoveItem
  <2>2. worker.at = "kept"
    BY DEF RemoveItem, Doing
  <2>3. CASE /\ items' = Without(k)
             /\ worker' = [worker EXCEPT !.at = "saving", !.list = items']
    <3>1. worker'.at = "saving" /\ worker'.key = worker.key
      BY <1>1, <2>3, Fields
    <3> QED
      BY <2>2, <2>3, <3>1
  <2>4. CASE Then("failing") /\ items' = items
    BY <1>1, <2>2, <2>4, Fields
  <2> QED
    BY <2>1, <2>3, <2>4
<1>7. CountFailure => /\ worker.at = "failing" /\ worker'.key = worker.key
                      /\ worker'.at = "saving_failure"
                      /\ \E k \in worker.key : items' = CountedUp(k)
  BY <1>1, Fields DEF CountFailure, Doing
<1>8. WorkerSaves => /\ worker'.key = worker.key
                     /\ \/ worker.at = "saving" /\ worker'.at \in {"failing", "leaving"}
                        \/ worker.at = "saving_failure" /\ worker'.at = "leaving"
  BY <1>1, Fields DEF WorkerSaves, Doing
<1>9. Leave => /\ worker.at = "leaving" /\ inflight' = inflight \ worker.key
               /\ worker'.at = "idle" /\ worker'.key = {}
  BY <1>1, Fields DEF Leave, Doing
<1> QED
  BY <1>2, <1>3, <1>4, <1>5, <1>6, <1>7, <1>8, <1>9

\* Every message has one owner through every step.
LEMMA OwnedKept == NInv /\ [NNext]_nvars => Owned'
<1> SUFFICES ASSUME NInv, [NNext]_nvars PROVE Owned'
  OBVIOUS
<1>0. /\ Shape /\ Owned /\ worker.key \subseteq Keys /\ gui.key \subseteq Keys
      /\ jobs \in Seq(Keys) /\ inflight \subseteq Keys
      /\ worker \in WorkerStates /\ gui \in GuiStates
      /\ worker.key = {} \/ \E k \in Keys : worker.key = {k}
      /\ gui.key = {} \/ \E k \in Keys : gui.key = {k}
  BY InHand, Hands DEF NInv, Shape, WorkerStates, GuiStates
<1>1. ASSUME inflight' = inflight, jobs' = jobs, stopping' = stopping,
             worker'.key = worker.key, worker'.at = "idle" <=> worker.at = "idle",
             gui'.at = "submitting" => gui'.key \cap inflight = {}
      PROVE  Owned'
  BY <1>0, <1>1 DEF Owned, Job
<1>2. ASSUME NEW k \in Keys, k \notin inflight, inflight' = inflight \cup {k},
             jobs' = Append(jobs, k), worker' = worker, stopping' = stopping,
             gui'.at # "submitting"
      PROVE  Owned'
  <2>1. IsFiniteSet(inflight') /\ Cardinality(inflight') = Cardinality(inflight) + 1
    BY <1>0, <1>2, FS_AddElement DEF Owned
  <2>2. /\ Len(jobs') = Len(jobs) + 1 /\ Len(jobs) \in Nat
        /\ \A x : Job(x)' <=> Job(x) \/ x = k
    BY <1>0, <1>2, AppendJob, LenProperties
  <2>3. ~ Job(k) /\ k \notin worker.key
    BY <1>0, <1>2 DEF Owned
  <2>4. \A i, j \in DOMAIN jobs' : jobs'[i] = jobs'[j] => i = j
    BY <1>0, <1>2, <2>3, AppendJob DEF Owned
  <2>5. ~stopping' => Cardinality(inflight') = Len(jobs') + (IF worker'.at = "idle" THEN 0 ELSE 1)
    BY <1>0, <1>2, <2>1, <2>2 DEF Owned
  <2>6. \A x \in Keys : Job(x)' \/ x \in worker'.key => x \in inflight'
    BY <1>0, <1>2, <2>2 DEF Owned
  <2>7. \A x \in worker'.key : ~ Job(x)'
    BY <1>0, <1>2, <2>2, <2>3 DEF Owned
  <2>8. ~stopping' => \A x \in inflight' : Job(x)' \/ x \in worker'.key
    BY <1>0, <1>2, <2>2 DEF Owned
  <2>9. worker'.key = {} <=> worker'.at = "idle"
    BY <1>0, <1>2 DEF Owned
  <2> QED
    BY <1>2, <2>1, <2>4, <2>5, <2>6, <2>7, <2>8, <2>9 DEF Owned
<1>3. ASSUME NEW k \in Keys, Submit(k) PROVE Owned'
  <2>1. gui'.at = "submitting" /\ gui'.key = {k} /\ k \notin inflight
    BY <1>0, <1>3, Fields DEF Submit
  <2> QED
    BY <1>0, <1>1, <1>3, <2>1 DEF Submit
<1>4. CASE Submitted
  <2>1. gui.at = "submitting" /\ gui'.at = "idle"
    BY <1>0, <1>4, GuiMoves
  <2>2. CASE inflight' = inflight /\ jobs' = jobs
    BY <1>1, <1>4, <2>1, <2>2 DEF Submitted
  <2>3. ASSUME NEW k \in gui.key, jobs' = Append(jobs, k), inflight' = inflight \cup gui.key
        PROVE  Owned'
    <3>1. k \in Keys /\ gui.key = {k} /\ k \notin inflight
      BY <1>0, <2>1 DEF Owned
    <3> QED
      BY <1>2, <1>4, <2>1, <2>3, <3>1 DEF Submitted
  <2> QED
    BY <1>4, <2>2, <2>3 DEF Submitted
<1>5. CASE RetryDue
  BY <1>0, <1>1, <1>5, GuiMoves DEF RetryDue
<1>6. ASSUME NEW k \in Keys, GuiRemoves(k) PROVE gui'.at # "submitting"
  BY <1>0, <1>6, GuiMoves
<1>7. CASE RetryNext
  <2>1. gui'.at # "submitting"
    BY <1>0, <1>6, <1>7, InHand, GuiMoves
  <2> QED
    BY <1>0, <1>1, <1>7, <2>1 DEF RetryNext
<1>8. CASE RetrySaves
  <2>1. gui'.at # "submitting"
    BY <1>0, <1>8, GuiMoves
  <2> QED
    BY <1>0, <1>1, <1>8, <2>1 DEF RetrySaves
<1>9. CASE RetryChecks
  <2>1. gui'.at # "submitting"
    BY <1>0, <1>6, <1>9, InHand, GuiMoves
  <2> QED
    BY <1>0, <1>1, <1>9, <2>1 DEF RetryChecks
<1>10. CASE RetryEnlists
  <2>1. PICK k \in gui.key :
            /\ inflight' = inflight \cup {k}
            /\ jobs' = IF k \in inflight THEN jobs ELSE Append(jobs, k)
            /\ gui'.at \in {"idle", "looping"}
    BY <1>0, <1>10, GuiMoves
  <2>2. k \in Keys /\ gui'.at # "submitting" /\ worker' = worker /\ stopping' = stopping
    BY <1>0, <1>10, <2>1 DEF RetryEnlists
  <2>3. CASE k \in inflight
    BY <1>0, <1>1, <2>1, <2>2, <2>3
  <2>4. CASE k \notin inflight
    BY <1>2, <2>1, <2>2, <2>4
  <2> QED
    BY <2>3, <2>4
<1>11. CASE StopService
  <2>1. /\ jobs' = <<>> /\ inflight' = inflight /\ worker' = worker /\ gui' = gui
    BY <1>11 DEF StopService
  <2>2. stopping'
    BY <1>11, Zenon DEF StopService
  <2>3. \A x : ~ Job(x)'
    BY <2>1 DEF Job
  <2>4. \A i, j \in DOMAIN jobs' : jobs'[i] = jobs'[j] => i = j
    BY <2>1
  <2> QED
    BY <1>0, <2>1, <2>2, <2>3, <2>4 DEF Owned
<1>12. CASE TakeJob
  <2>1. /\ worker.at = "idle" /\ worker.key = {} /\ jobs # <<>> /\ jobs' = Tail(jobs)
        /\ worker'.at = "sending" /\ worker'.key = {Head(jobs)}
    BY <1>0, <1>12, WorkerMoves DEF Owned
  <2>2. /\ Head(jobs) \in Keys /\ Len(jobs') = Len(jobs) - 1 /\ Len(jobs) \in Nat
        /\ \A x : Job(x) <=> Job(x)' \/ x = Head(jobs)
    BY <1>0, <2>1, TailJob, LenProperties
  <2>3. /\ \A i, j \in DOMAIN jobs' : jobs'[i] = jobs'[j] => i = j
        /\ \A x : x = Head(jobs) => ~ Job(x)'
    BY <1>0, <2>1, TailJob DEF Owned
  <2>4. inflight' = inflight /\ gui' = gui /\ stopping' = stopping
    BY <1>12 DEF TakeJob
  <2>5. ~stopping' => Cardinality(inflight') = Len(jobs') + (IF worker'.at = "idle" THEN 0 ELSE 1)
    BY <1>0, <2>1, <2>2, <2>4 DEF Owned
  <2>6. \A x \in Keys : Job(x)' \/ x \in worker'.key => x \in inflight'
    BY <1>0, <2>1, <2>2, <2>4 DEF Owned
  <2>7. \A x \in worker'.key : ~ Job(x)'
    BY <2>1, <2>3
  <2>8. ~stopping' => \A x \in inflight' : Job(x)' \/ x \in worker'.key
    BY <1>0, <2>1, <2>2, <2>4 DEF Owned
  <2>9. worker'.key = {} <=> worker'.at = "idle"
    BY <2>1
  <2> QED
    BY <1>0, <2>3, <2>4, <2>5, <2>6, <2>7, <2>8, <2>9 DEF Owned
<1>13. ASSUME worker'.key = worker.key, worker'.at # "idle", worker.at # "idle",
              UNCHANGED <<inflight, jobs, gui, stopping>>
       PROVE  Owned'
  BY <1>0, <1>1, <1>13 DEF Owned
<1>14. CASE Send
  BY <1>0, <1>13, <1>14, WorkerMoves DEF Send
<1>15. CASE Note
  BY <1>0, <1>13, <1>15, WorkerMoves DEF Note
<1>16. CASE KeepHistory
  BY <1>0, <1>13, <1>16, WorkerMoves DEF KeepHistory
<1>17. CASE RemoveItem
  BY <1>0, <1>13, <1>17, WorkerMoves DEF RemoveItem
<1>18. CASE CountFailure
  BY <1>0, <1>13, <1>18, WorkerMoves DEF CountFailure
<1>19. CASE WorkerSaves
  BY <1>0, <1>13, <1>19, WorkerMoves DEF WorkerSaves
<1>20. CASE Leave
  <2>1. /\ worker.at = "leaving" /\ inflight' = inflight \ worker.key
        /\ worker'.at = "idle" /\ worker'.key = {}
        /\ jobs' = jobs /\ gui' = gui /\ stopping' = stopping
    BY <1>0, <1>20, WorkerMoves DEF Leave
  <2>2. PICK k \in Keys : worker.key = {k}
    BY <1>0, <2>1 DEF Owned
  <2>3. /\ IsFiniteSet(inflight') /\ Cardinality(inflight') = Cardinality(inflight) - 1
        /\ Cardinality(inflight) \in Nat
    BY <1>0, <2>1, <2>2, FS_RemoveElement, FS_CardinalityType DEF Owned
  <2>4. \A x : Job(x)' <=> Job(x)
    BY <2>1 DEF Job
  <2>5. Len(jobs) \in Nat
    BY <1>0, LenProperties
  <2>6. ~stopping' => Cardinality(inflight') = Len(jobs') + (IF worker'.at = "idle" THEN 0 ELSE 1)
    BY <1>0, <2>1, <2>3, <2>5 DEF Owned
  <2>7. \A x \in Keys : Job(x)' \/ x \in worker'.key => x \in inflight'
    BY <1>0, <2>1, <2>2, <2>4 DEF Owned
  <2>8. ~stopping' => \A x \in inflight' : Job(x)' \/ x \in worker'.key
    BY <1>0, <2>1, <2>2, <2>4 DEF Owned
  <2> QED
    BY <1>0, <2>1, <2>3, <2>4, <2>6, <2>7, <2>8 DEF Owned
<1>21. CASE TimePasses
  BY <1>0, <1>1, <1>21 DEF TimePasses, Owned
<1>22. CASE Restart
  <2>1. /\ inflight' = {} /\ jobs' = <<>> /\ worker'.at = "idle" /\ worker'.key = {}
        /\ gui'.at = "idle"
    BY <1>0, <1>22, Fields DEF Restart
  <2>2. \A x : ~ Job(x)'
    BY <2>1 DEF Job
  <2>3. IsFiniteSet(inflight') /\ Cardinality(inflight') = 0
    BY <2>1, FS_EmptySet
  <2>4. Len(jobs') = 0 /\ \A i, j \in DOMAIN jobs' : jobs'[i] = jobs'[j] => i = j
    BY <2>1
  <2> QED
    BY <2>1, <2>2, <2>3, <2>4 DEF Owned
<1>23. CASE UNCHANGED nvars
  BY <1>0, <1>1, <1>23 DEF nvars, Owned
<1> QED
  BY <1>3, <1>4, <1>5, <1>7, <1>8, <1>9, <1>10, <1>11, <1>12, <1>14, <1>15, <1>16, <1>17, <1>18,
     <1>19, <1>20, <1>21, <1>22, <1>23 DEF NNext, RetryLoop, Worker

\* No item is charged with more than one attempt too many.
LEMMA ChargedKept == NInv /\ [NNext]_nvars => Charged'
<1> SUFFICES ASSUME NInv, [NNext]_nvars PROVE Charged'
  OBVIOUS
<1> DEFINE Bounded(k) == items[k].tries + JobOwed(k) + LoopOwed(k) <= MaxAttempts + 1
<1> DEFINE Looping == /\ gui.at \in {"idle", "submitting"} => gui.rest = {}
                      /\ gui.at \in {"saving_mark", "checking", "enlisting"} => gui.key \subseteq gui.rest
<1> DEFINE Fresh == gui.at = "submitting" => \A k \in gui.key \cap DOMAIN items : items[k].tries = 0
<1>0. /\ Shape /\ Owned /\ Charged /\ items \in Lists /\ file \in Lists
      /\ worker.key \subseteq Keys /\ gui.key \subseteq Keys /\ gui.rest \subseteq Keys
      /\ worker \in WorkerStates /\ gui \in GuiStates /\ jobs \in Seq(Keys)
      /\ worker.key = {} \/ \E k \in Keys : worker.key = {k}
      /\ gui.key = {} \/ \E k \in Keys : gui.key = {k}
      /\ MaxAttempts \in Nat \ {0}
  BY InHand, Hands, NotificationAssumption DEF NInv, Shape, WorkerStates, GuiStates
<1>1. /\ DOMAIN items \subseteq Keys
      /\ \A k \in DOMAIN items : items[k].tries \in Nat
  BY <1>0, IsList
<1>2. /\ \A k : JobOwed(k) \in {0, 1} /\ JobOwed(k)' \in {0, 1}
      /\ \A k : LoopOwed(k) \in {0, 1} /\ LoopOwed(k)' \in {0, 1}
  BY DEF JobOwed, LoopOwed
<1>3. Shape'
  BY ShapeKept
<1>4. \A k \in DOMAIN items' : items'[k].tries \in Nat /\ items'[k].tries <= MaxAttempts + 1
  BY <1>0, <1>3, IsList DEF Shape
<1>5. ASSUME \A k \in DOMAIN items' : Bounded(k)', Looping', Fresh' PROVE Charged'
  BY <1>5 DEF Charged
<1>6. (\A k \in DOMAIN items : Bounded(k)) /\ Looping /\ Fresh
  BY <1>0 DEF Charged
<1>7. ASSUME NEW k \in DOMAIN items', k \in DOMAIN items, items'[k].tries <= items[k].tries,
             k \in gui'.rest => k \in gui.rest, JobOwed(k)' <= JobOwed(k)
      PROVE  Bounded(k)'
  <2>1. LoopOwed(k)' <= LoopOwed(k)
    BY <1>7 DEF LoopOwed
  <2>2. Bounded(k)
    BY <1>6, <1>7
  <2> QED
    BY <1>0, <1>1, <1>2, <1>4, <1>7, <2>1, <2>2
<1>8. ASSUME inflight' = inflight, worker'.key = worker.key,
             worker.at \in {"saving_failure", "leaving"} => worker'.at \in {"saving_failure", "leaving"}
      PROVE  \A k : JobOwed(k)' <= JobOwed(k)
  BY <1>8 DEF JobOwed
<1> HIDE DEF Bounded
\* The steps that leave the list as it is.
<1>9. ASSUME items' = items, gui'.rest \subseteq gui.rest,
             \A k \in DOMAIN items : JobOwed(k)' <= JobOwed(k)
      PROVE  \A k \in DOMAIN items' : Bounded(k)'
  BY <1>1, <1>7, <1>9
<1>10. ASSUME NEW k \in Keys, Submit(k) PROVE Charged'
  <2>1. /\ gui.at = "idle" /\ gui'.at = "submitting" /\ gui'.key = {k} /\ gui'.rest = {}
        /\ k \notin DOMAIN items /\ k \notin inflight /\ items' = Added(k)
        /\ inflight' = inflight /\ worker' = worker
    BY <1>0, <1>10, Fields DEF Submit
  <2>2. /\ DOMAIN items' = DOMAIN items \cup {k} /\ items'[k].tries = 0
        /\ \A x \in DOMAIN items : x # k /\ items'[x] = items[x]
    BY <1>0, <2>1, ListOps
  <2>3. JobOwed(k)' = 0 /\ LoopOwed(k)' = 0
    BY <2>1 DEF JobOwed, LoopOwed
  <2>4. Bounded(k)'
    BY <1>0, <2>2, <2>3 DEF Bounded
  <2>5. \A x : JobOwed(x)' <= JobOwed(x)
    BY <1>8, <2>1
  <2>6. \A x \in DOMAIN items : Bounded(x)'
    BY <1>1, <1>7, <2>1, <2>2, <2>5
  <2>7. Looping' /\ Fresh'
    BY <2>1, <2>2
  <2> QED
    BY <1>5, <2>2, <2>4, <2>6, <2>7
\* The executor takes over what the thread has charged no attempt for.
<1>11. ASSUME NEW k \in Keys, k \notin inflight, inflight' = inflight \cup {k}, worker' = worker
       PROVE  /\ JobOwed(k) = 0 /\ JobOwed(k)' = 1
              /\ \A x : x # k => JobOwed(x)' = JobOwed(x)
  BY <1>0, <1>11 DEF JobOwed, Owned
<1>12. CASE Submitted
  <2>1. /\ gui.at = "submitting" /\ gui'.at = "idle" /\ gui'.rest = {} /\ gui.rest = {}
        /\ items' = items /\ worker' = worker
    BY <1>0, <1>6, <1>12, GuiMoves DEF Submitted
  <2>2. Looping' /\ Fresh'
    BY <2>1
  <2>3. CASE inflight' = inflight
    BY <1>1, <1>5, <1>8, <1>9, <2>1, <2>2, <2>3
  <2>4. ASSUME NEW k \in gui.key, inflight' = inflight \cup gui.key PROVE Charged'
    <3>1. gui.key = {k} /\ k \in Keys /\ k \notin inflight
      BY <1>0, <2>1 DEF Owned
    <3>2. JobOwed(k)' = 1 /\ \A x : x # k => JobOwed(x)' = JobOwed(x)
      BY <1>11, <2>1, <2>4, <3>1
    <3>3. ASSUME k \in DOMAIN items PROVE Bounded(k)'
      <4>1. items'[k].tries = 0 /\ LoopOwed(k)' = 0
        BY <1>6, <2>1, <3>3 DEF LoopOwed
      <4> QED
        BY <1>0, <3>2, <4>1 DEF Bounded
    <3>4. \A x \in DOMAIN items' : x # k => Bounded(x)'
      BY <1>1, <1>2, <1>7, <2>1, <3>2
    <3> QED
      BY <1>5, <2>1, <2>2, <3>3, <3>4
  <2> QED
    BY <1>12, <2>3, <2>4 DEF Submitted
<1>13. CASE RetryDue
  <2>1. /\ gui'.at = "looping" /\ gui'.rest = Due /\ items' = items
        /\ inflight' = inflight /\ worker' = worker
    BY <1>0, <1>13, GuiMoves DEF RetryDue
  <2>2. Looping' /\ Fresh'
    BY <2>1
  <2>3. ASSUME NEW k \in DOMAIN items' PROVE Bounded(k)'
    <3>1. CASE k \in Due
      <4>1. items'[k].tries < MaxAttempts /\ items'[k].tries \in Nat
        BY <1>1, <2>1, <3>1 DEF Due
      <4> QED
        BY <1>0, <1>2, <4>1 DEF Bounded
    <3>2. CASE k \notin Due
      BY <1>1, <1>7, <1>8, <2>1, <3>2
    <3> QED
      BY <3>1, <3>2
  <2> QED
    BY <1>5, <2>2, <2>3
\* What the loop removes and what it marks.
<1>14. ASSUME NEW k \in Keys, GuiRemoves(k), inflight' = inflight, worker' = worker PROVE Charged'
  <2>1. Looping' /\ Fresh'
    BY <1>0, <1>14, GuiMoves
  <2>2. \A x : JobOwed(x)' <= JobOwed(x)
    BY <1>8, <1>14
  <2>3. CASE items' = Without(k) /\ gui'.rest = gui.rest \ {k}
    <3>1. \A x \in DOMAIN items' : x \in DOMAIN items /\ items'[x] = items[x]
      BY <1>0, <2>3, ListOps
    <3> QED
      BY <1>1, <1>5, <1>7, <2>1, <2>2, <2>3, <3>1
  <2>4. CASE items' = items /\ gui'.rest = {}
    BY <1>5, <1>9, <2>1, <2>2, <2>4
  <2> QED
    BY <1>0, <1>14, <2>3, <2>4, GuiMoves
<1>15. CASE RetryNext
  <2>1. inflight' = inflight /\ worker' = worker
    BY <1>15 DEF RetryNext
  <2>2. PICK k \in gui.rest :
            \/ GuiRemoves(k)
            \/ /\ items' = IF Queued(k) THEN [items EXCEPT ![k].late = TRUE] ELSE items
               /\ gui'.at = "saving_mark" /\ gui'.key = {k} /\ gui'.rest = gui.rest
            \/ /\ items' = items
               /\ gui'.at = "checking" /\ gui'.key = {k} /\ gui'.rest = gui.rest
    BY <1>0, <1>15, GuiMoves
  <2>3. k \in Keys
    BY <1>0
  <2>4. \A x : JobOwed(x)' <= JobOwed(x)
    BY <1>8, <2>1
  <2>5. CASE /\ items' = IF Queued(k) THEN [items EXCEPT ![k].late = TRUE] ELSE items
             /\ gui'.at = "saving_mark" /\ gui'.key = {k} /\ gui'.rest = gui.rest
    <3>1. \A x \in DOMAIN items' : x \in DOMAIN items /\ items'[x].tries = items[x].tries
      BY <1>0, <2>3, <2>5, CountOps DEF Queued
    <3>2. Looping' /\ Fresh'
      BY <2>5
    <3>3. \A x \in DOMAIN items' : Bounded(x)'
      BY <1>1, <1>7, <2>4, <2>5, <3>1
    <3> QED
      BY <1>5, <3>2, <3>3
  <2>6. CASE /\ items' = items
             /\ gui'.at = "checking" /\ gui'.key = {k} /\ gui'.rest = gui.rest
    <3>1. Looping' /\ Fresh'
      BY <2>6
    <3> QED
      BY <1>5, <1>9, <2>4, <2>6, <3>1
  <2> QED
    BY <1>14, <2>1, <2>2, <2>3, <2>5, <2>6
<1>16. CASE RetrySaves
  <2>1. items' = items /\ inflight' = inflight /\ worker' = worker
    BY <1>16 DEF RetrySaves
  <2>2. Looping' /\ Fresh' /\ gui'.rest \subseteq gui.rest
    BY <1>0, <1>6, <1>16, GuiMoves
  <2> QED
    BY <1>5, <1>8, <1>9, <2>1, <2>2
<1>17. CASE RetryChecks
  <2>1. inflight' = inflight /\ worker' = worker
    BY <1>17 DEF RetryChecks
  <2>2. PICK k \in gui.key :
            \/ GuiRemoves(k)
            \/ items' = items /\ gui'.at = "enlisting" /\ gui'.key = gui.key /\ gui'.rest = gui.rest
    BY <1>0, <1>17, GuiMoves
  <2>3. CASE items' = items /\ gui'.at = "enlisting" /\ gui'.key = gui.key /\ gui'.rest = gui.rest
    <3>1. gui.at = "checking"
      BY <1>17 DEF RetryChecks
    <3>2. Looping' /\ Fresh'
      BY <1>6, <2>3, <3>1
    <3> QED
      BY <1>5, <1>8, <1>9, <2>1, <2>3, <3>2
  <2> QED
    BY <1>0, <1>14, <2>1, <2>2, <2>3
<1>18. CASE RetryEnlists
  <2>1. PICK k \in gui.key :
            /\ inflight' = inflight \cup {k}
            /\ gui'.at \in {"idle", "looping"} /\ gui'.rest = gui.rest \ {k}
            /\ (gui'.at = "idle" => gui'.rest = {})
    BY <1>0, <1>18, GuiMoves
  <2>2. /\ items' = items /\ worker' = worker /\ k \in Keys /\ k \in gui.rest
    BY <1>0, <1>6, <1>18 DEF RetryEnlists
  <2>3. Looping' /\ Fresh'
    BY <2>1
  <2>4. CASE k \in inflight
    <3>1. inflight' = inflight
      BY <2>1, <2>4
    <3> QED
      BY <1>5, <1>8, <1>9, <2>1, <2>2, <2>3, <3>1
  <2>5. CASE k \notin inflight
    <3>1. /\ JobOwed(k) = 0 /\ JobOwed(k)' = 1
          /\ \A x : x # k => JobOwed(x)' = JobOwed(x)
      BY <1>11, <2>1, <2>2, <2>5
    <3>2. LoopOwed(k) = 1 /\ LoopOwed(k)' = 0
      BY <2>1, <2>2 DEF LoopOwed
    <3>3. k \in DOMAIN items => Bounded(k)'
      BY <1>1, <1>6, <2>2, <3>1, <3>2 DEF Bounded
    <3>4. \A x \in DOMAIN items' : x # k => Bounded(x)'
      BY <1>1, <1>2, <1>7, <2>1, <2>2, <3>1
    <3> QED
      BY <1>5, <2>2, <2>3, <3>3, <3>4
  <2> QED
    BY <2>4, <2>5
\* The worker: the Qt thread's hand stays as it is.
<1>19. ASSUME gui' = gui, items' = items, \A k \in DOMAIN items : JobOwed(k)' <= JobOwed(k)
       PROVE  Charged'
  <2>1. Looping' /\ Fresh'
    BY <1>6, <1>19
  <2> QED
    BY <1>5, <1>9, <1>19, <2>1
<1>20. CASE StopService
  BY <1>8, <1>19, <1>20 DEF StopService
<1>21. CASE TakeJob
  <2>1. /\ worker.key = {} /\ worker'.at = "sending"
        /\ inflight' = inflight /\ gui' = gui /\ items' = items
    BY <1>0, <1>21, WorkerMoves DEF TakeJob, Owned
  <2>2. \A k : JobOwed(k)' <= JobOwed(k)
    BY <2>1 DEF JobOwed
  <2> QED
    BY <1>19, <2>1, <2>2
<1>22. CASE Send
  BY <1>0, <1>8, <1>19, <1>22, WorkerMoves DEF Send
<1>23. CASE Note
  BY <1>0, <1>8, <1>19, <1>23, WorkerMoves DEF Note
<1>24. CASE KeepHistory
  BY <1>0, <1>8, <1>19, <1>24, WorkerMoves DEF KeepHistory
<1>25. CASE RemoveItem
  <2>1. /\ gui' = gui /\ inflight' = inflight /\ worker.at = "kept" /\ worker'.key = worker.key
    BY <1>0, <1>25, WorkerMoves DEF RemoveItem
  <2>2. PICK k \in worker.key : items' = Without(k) \/ items' = items
    BY <1>0, <1>25, WorkerMoves
  <2>3. \A x : JobOwed(x)' <= JobOwed(x)
    BY <1>8, <2>1
  <2>4. \A x \in DOMAIN items' : x \in DOMAIN items /\ items'[x] = items[x]
    <3>1. k \in Keys
      BY <1>0
    <3>2. CASE items' = Without(k)
      BY <1>0, <3>1, <3>2, ListOps
    <3>3. CASE items' = items
      BY <3>3
    <3> QED
      BY <2>2, <3>2, <3>3
  <2>5. Looping' /\ Fresh'
    BY <1>6, <2>1, <2>4
  <2>6. \A x \in DOMAIN items' : Bounded(x)'
    BY <1>1, <1>7, <2>1, <2>3, <2>4
  <2> QED
    BY <1>5, <2>5, <2>6
<1>26. CASE CountFailure
  <2>1. /\ gui' = gui /\ inflight' = inflight /\ worker.at = "failing" /\ worker'.key = worker.key
        /\ worker'.at = "saving_failure"
    BY <1>0, <1>26, WorkerMoves DEF CountFailure
  <2>2. PICK k \in worker.key : items' = CountedUp(k)
    BY <1>0, <1>26, WorkerMoves
  <2>3. k \in Keys /\ k \in inflight
    BY <1>0 DEF Owned
  <2>4. JobOwed(k) = 1 /\ JobOwed(k)' = 0 /\ \A x : JobOwed(x)' <= JobOwed(x)
    BY <2>1, <2>2, <2>3 DEF JobOwed
  <2>5. /\ DOMAIN items' = DOMAIN items
        /\ \A x \in DOMAIN items : items'[x].tries = IF x = k THEN items[x].tries + 1 ELSE items[x].tries
    BY <1>0, <2>2, <2>3, CountOps
  <2>6. LoopOwed(k)' = LoopOwed(k)
    BY <2>1 DEF LoopOwed
  <2>7. k \in DOMAIN items => Bounded(k)'
    BY <1>1, <1>2, <1>6, <2>4, <2>5, <2>6 DEF Bounded
  <2>8. \A x \in DOMAIN items' : x # k => Bounded(x)'
    BY <1>1, <1>7, <2>1, <2>4, <2>5
  <2>9. Looping' /\ Fresh'
    <3>1. Looping'
      BY <1>6, <2>1
    <3>2. gui.at = "submitting" => k \notin gui.key
      BY <1>0, <2>3 DEF Owned
    <3>3. Fresh'
      BY <1>6, <2>1, <2>5, <3>2
    <3> QED
      BY <3>1, <3>3
  <2> QED
    BY <1>5, <2>5, <2>7, <2>8, <2>9
<1>27. CASE WorkerSaves
  BY <1>0, <1>8, <1>19, <1>27, WorkerMoves DEF WorkerSaves
<1>28. CASE Leave
  <2>1. /\ worker.at = "leaving" /\ inflight' = inflight \ worker.key
        /\ worker'.key = {} /\ gui' = gui /\ items' = items
    BY <1>0, <1>28, WorkerMoves DEF Leave
  <2>2. \A k : JobOwed(k)' <= JobOwed(k)
    BY <2>1 DEF JobOwed
  <2> QED
    BY <1>19, <2>1, <2>2
<1>29. CASE TimePasses
  BY <1>8, <1>19, <1>29 DEF TimePasses
<1>30. CASE Restart
  <2>1. inflight' = {} /\ gui'.at = "idle" /\ gui'.rest = {}
    BY <1>0, <1>30, Fields DEF Restart
  <2>2. Looping' /\ Fresh'
    BY <2>1
  <2>3. \A k : JobOwed(k)' = 0 /\ LoopOwed(k)' = 0
    BY <2>1 DEF JobOwed, LoopOwed
  <2>4. \A k \in DOMAIN items' : Bounded(k)'
    BY <1>4, <2>3 DEF Bounded
  <2> QED
    BY <1>5, <2>2, <2>4
<1>31. CASE UNCHANGED nvars
  BY <1>8, <1>19, <1>31 DEF nvars
<1> QED
  BY <1>10, <1>12, <1>13, <1>15, <1>16, <1>17, <1>18, <1>20, <1>21, <1>22, <1>23, <1>24, <1>25,
     <1>26, <1>27, <1>28, <1>29, <1>30, <1>31 DEF NNext, RetryLoop, Worker

\* Whoever is to send a message has asked the history of its process.
LEMMA AskedKept == NInv /\ [NNext]_nvars => Asked'
<1> SUFFICES ASSUME NInv, [NNext]_nvars PROVE Asked'
  OBVIOUS
<1>0. /\ Shape /\ Asked /\ jobs \in Seq(Keys)
      /\ worker.key \subseteq Keys /\ gui.key \subseteq Keys /\ gui.rest \subseteq Keys
      /\ worker \in WorkerStates /\ gui \in GuiStates
      /\ gui.key = {} \/ \E k \in Keys : gui.key = {k}
  BY InHand, Hands DEF NInv, Shape, WorkerStates, GuiStates
<1> DEFINE Learnt == gui.at \in {"submitting", "enlisting"} => gui.key \cap known = {}
<1>1. ASSUME UNCHANGED <<known, history, jobs, worker>>, Learnt' PROVE Asked'
  BY <1>0, <1>1 DEF Asked, Job, Doing
<1>2. ASSUME UNCHANGED <<known, history, worker>>, NEW k \in Keys, k \notin known,
             jobs' = jobs \/ jobs' = Append(jobs, k), Learnt'
      PROVE  Asked'
  <2>1. \A x : Job(x)' => Job(x) \/ x = k
    <3>1. CASE jobs' = jobs
      BY <3>1 DEF Job
    <3>2. CASE jobs' = Append(jobs, k)
      BY <1>0, <3>2, AppendJob
    <3> QED
      BY <1>2, <3>1, <3>2
  <2> QED
    BY <1>0, <1>2, <2>1 DEF Asked, Doing
<1>3. ASSUME UNCHANGED <<known, jobs, gui>>, history \subseteq history',
             worker'.at # "sending"
      PROVE  Asked'
  BY <1>0, <1>3 DEF Asked, Job, Doing
<1>4. ASSUME NEW k \in Keys, Submit(k) PROVE Asked'
  <2>1. gui'.at = "submitting" /\ gui'.key = {k} /\ k \notin history
    BY <1>0, <1>4, Fields DEF Submit
  <2> QED
    BY <1>0, <1>1, <1>4, <2>1 DEF Submit, Asked
<1>5. CASE Submitted
  <2>1. gui.at = "submitting" /\ gui'.at = "idle"
    BY <1>0, <1>5, GuiMoves
  <2>2. UNCHANGED <<known, history, worker>>
    BY <1>5 DEF Submitted
  <2>3. CASE jobs' = jobs
    BY <1>1, <2>1, <2>2, <2>3
  <2>4. ASSUME NEW k \in gui.key, jobs' = Append(jobs, k) PROVE Asked'
    <3>1. k \in Keys /\ k \notin known
      BY <1>0, <2>1 DEF Asked
    <3> QED
      BY <1>2, <2>1, <2>2, <2>4, <3>1
  <2> QED
    BY <1>5, <2>3, <2>4 DEF Submitted
<1>6. CASE RetryDue
  BY <1>0, <1>1, <1>6, GuiMoves DEF RetryDue
<1>7. ASSUME NEW k \in Keys, GuiRemoves(k) PROVE Learnt'
  BY <1>0, <1>7, GuiMoves
<1>8. CASE RetryNext
  <2>1. Learnt'
    BY <1>0, <1>7, <1>8, GuiMoves
  <2> QED
    BY <1>1, <1>8, <2>1 DEF RetryNext
<1>9. CASE RetrySaves
  BY <1>0, <1>1, <1>9, GuiMoves DEF RetrySaves
<1>10. CASE RetryChecks
  <2>1. PICK k \in gui.key :
            \/ GuiRemoves(k)
            \/ k \notin history /\ gui'.at = "enlisting" /\ gui'.key = gui.key
    BY <1>0, <1>10, GuiMoves
  <2>2. k \in Keys /\ gui.key = {k} /\ known' = known
    BY <1>0, <1>10 DEF RetryChecks
  <2>3. Learnt'
    BY <1>0, <1>7, <2>1, <2>2 DEF Asked
  <2> QED
    BY <1>1, <1>10, <2>3 DEF RetryChecks
<1>11. CASE RetryEnlists
  <2>1. PICK k \in gui.key : jobs' = (IF k \in inflight THEN jobs ELSE Append(jobs, k))
    BY <1>11 DEF RetryEnlists
  <2>2. gui.at = "enlisting" /\ gui'.at \in {"idle", "looping"}
    BY <1>0, <1>11, GuiMoves
  <2>3. k \in Keys /\ k \notin known
    BY <1>0, <2>2 DEF Asked
  <2> QED
    BY <1>2, <1>11, <2>1, <2>2, <2>3 DEF RetryEnlists
<1>12. CASE StopService
  <2>1. UNCHANGED <<known, history, worker, gui>>
    BY <1>12 DEF StopService
  <2>2. \A x : ~ Job(x)'
    BY <1>12 DEF StopService, Job
  <2> QED
    BY <1>0, <2>1, <2>2 DEF Asked, Doing
<1>13. CASE TakeJob
  <2>1. /\ jobs # <<>> /\ jobs' = Tail(jobs) /\ worker'.key = {Head(jobs)}
        /\ known' = known /\ history' = history /\ gui' = gui
    BY <1>0, <1>13, WorkerMoves DEF TakeJob
  <2>2. Job(Head(jobs)) /\ \A x : Job(x)' => Job(x)
    BY <1>0, <2>1, TailJob
  <2> QED
    BY <1>0, <2>1, <2>2 DEF Asked
<1>14. CASE Send
  BY <1>0, <1>3, <1>14, WorkerMoves DEF Send
<1>15. CASE Note
  BY <1>0, <1>3, <1>15, WorkerMoves DEF Note
<1>16. CASE KeepHistory
  BY <1>0, <1>3, <1>16, WorkerMoves DEF KeepHistory
<1>17. CASE RemoveItem
  BY <1>0, <1>3, <1>17, WorkerMoves DEF RemoveItem
<1>18. CASE CountFailure
  BY <1>0, <1>3, <1>18, WorkerMoves DEF CountFailure
<1>19. CASE WorkerSaves
  BY <1>0, <1>3, <1>19, WorkerMoves DEF WorkerSaves
<1>20. CASE Leave
  BY <1>0, <1>3, <1>20, WorkerMoves DEF Leave
<1>21. CASE TimePasses
  BY <1>0, <1>1, <1>21 DEF TimePasses, Asked
<1>22. CASE Restart
  <2>1. /\ worker'.at = "idle" /\ gui'.at = "idle" /\ known' = recorded /\ history' = recorded
    BY <1>0, <1>22, Fields DEF Restart
  <2>2. \A x : ~ Job(x)'
    BY <1>22 DEF Restart, Job
  <2> QED
    BY <2>1, <2>2 DEF Asked, Doing
<1>23. CASE UNCHANGED nvars
  BY <1>0, <1>1, <1>23 DEF nvars, Asked
<1> QED
  BY <1>4, <1>5, <1>6, <1>8, <1>9, <1>10, <1>11, <1>12, <1>13, <1>14, <1>15, <1>16, <1>17, <1>18,
     <1>19, <1>20, <1>21, <1>22, <1>23 DEF NNext, RetryLoop, Worker

\* What is on record as delivered was received in all its parts.
LEMMA ReceivedKept == NInv /\ [NNext]_nvars => Received'
<1> SUFFICES ASSUME NInv, [NNext]_nvars PROVE Received'
  OBVIOUS
<1>0. Shape /\ Received /\ worker \in WorkerStates /\ gui \in GuiStates
  BY DEF NInv, Shape
<1>1. ASSUME UNCHANGED <<history, recorded, whole>>,
             worker' = worker \/ worker'.at \notin {"sent", "noted", "kept"}
      PROVE  Received'
  BY <1>0, <1>1 DEF Received
<1>2. ASSUME NEW k \in Keys, Submit(k) PROVE Received'
  BY <1>1, <1>2 DEF Submit
<1>3. CASE RetryDue \/ RetryLoop \/ StopService \/ TimePasses
  BY <1>1, <1>3 DEF RetryDue, RetryLoop, Submitted, RetryNext, RetrySaves, RetryChecks,
                    RetryEnlists, StopService, TimePasses
<1>4. CASE TakeJob
  BY <1>0, <1>1, <1>4, WorkerMoves DEF TakeJob
<1>5. CASE Send
  <2>1. history' = history /\ recorded' = recorded
    BY <1>5 DEF Send
  <2> QED
    BY <1>0, <1>5, <2>1, WorkerMoves DEF Received
<1>6. CASE Note
  <2>1. history' = history \cup worker.key /\ recorded' = recorded /\ whole' = whole
    BY <1>6 DEF Note
  <2> QED
    BY <1>0, <1>6, <2>1, WorkerMoves DEF Received
<1>7. CASE KeepHistory
  <2>1. history' = history /\ whole' = whole
    BY <1>7 DEF KeepHistory
  <2> QED
    BY <1>0, <1>7, <2>1, WorkerMoves DEF Received
<1>8. CASE RemoveItem
  BY <1>0, <1>1, <1>8, WorkerMoves DEF RemoveItem
<1>9. CASE CountFailure
  BY <1>0, <1>1, <1>9, WorkerMoves DEF CountFailure
<1>10. CASE WorkerSaves
  BY <1>0, <1>1, <1>10, WorkerMoves DEF WorkerSaves
<1>11. CASE Leave
  BY <1>0, <1>1, <1>11, WorkerMoves DEF Leave
<1>12. CASE Restart
  <2>1. worker'.at = "idle" /\ history' = recorded /\ recorded' = recorded /\ whole' = whole
    BY <1>0, <1>12, Fields DEF Restart
  <2> QED
    BY <1>0, <2>1 DEF Received
<1>13. CASE UNCHANGED nvars
  BY <1>1, <1>13 DEF nvars
<1> QED
  BY <1>2, <1>3, <1>4, <1>5, <1>6, <1>7, <1>8, <1>9, <1>10, <1>11, <1>12, <1>13 DEF NNext, Worker

\* The file holds what the list holds unless a save is to come or has failed.
LEMMA FiledKept == NInv /\ [NNext]_nvars => Filed'
<1> SUFFICES ASSUME NInv, [NNext]_nvars PROVE Filed'
  OBVIOUS
<1>0. Shape /\ Filed /\ worker \in WorkerStates /\ gui \in GuiStates /\ items \in Lists
  BY DEF NInv, Shape
<1>1. ASSUME file' = file, behind' = behind, DOMAIN items' = DOMAIN items, Saving => Saving'
      PROVE  Filed'
  BY <1>0, <1>1 DEF Filed
<1>2. ASSUME Saving' PROVE Filed'
  BY <1>2 DEF Filed
<1>3. ASSUME NEW l, Install(l) \/ DiskRefuses, items' = items PROVE Filed'
  <2>1. CASE Install(l)
    BY <1>3, <2>1, Saves DEF Filed
  <2>2. CASE DiskRefuses
    <3>1. behind'
      BY <2>2, Zenon DEF DiskRefuses
    <3> QED
      BY <3>1 DEF Filed
  <2> QED
    BY <1>3, <2>1, <2>2
<1>4. ASSUME NEW k \in Keys, Submit(k) PROVE Filed'
  BY <1>0, <1>2, <1>4, Fields DEF Submit, Saving
<1>5. CASE Submitted
  <2>1. (Install(gui.list) \/ DiskRefuses) /\ items' = items
    BY <1>5 DEF Submitted
  <2> QED
    BY <1>3, <2>1
<1>6. CASE RetryDue
  BY <1>1, <1>6 DEF RetryDue, Saving
<1>7. ASSUME NEW k \in Keys, GuiRemoves(k), ~ Saving \/ worker' = worker,
             gui.at \in {"looping", "checking"}, file' = file, behind' = behind
      PROVE  Filed'
  <2>1. CASE gui'.at = "saving_removal"
    BY <1>2, <2>1 DEF Saving
  <2>2. CASE items' = items
    BY <1>1, <1>7, <2>2 DEF Saving
  <2> QED
    BY <1>0, <1>7, <2>1, <2>2, GuiMoves
<1>8. CASE RetryNext
  <2>1. PICK k \in gui.rest :
            \/ GuiRemoves(k)
            \/ gui'.at = "saving_mark"
            \/ items' = items
    BY <1>0, <1>8, GuiMoves
  <2>2. /\ gui.at = "looping" /\ worker' = worker /\ file' = file /\ behind' = behind
        /\ k \in Keys
    BY <1>0, <1>8, InHand DEF RetryNext
  <2>3. CASE gui'.at = "saving_mark"
    BY <1>2, <2>3 DEF Saving
  <2>4. CASE items' = items
    BY <1>1, <2>2, <2>4 DEF Saving
  <2> QED
    BY <1>7, <2>1, <2>2, <2>3, <2>4
<1>9. CASE RetrySaves
  <2>1. (Install(gui.list) \/ DiskRefuses) /\ items' = items
    BY <1>9 DEF RetrySaves
  <2> QED
    BY <1>3, <2>1
<1>10. CASE RetryChecks
  <2>1. PICK k \in gui.key : GuiRemoves(k) \/ items' = items
    BY <1>0, <1>10, GuiMoves
  <2>2. /\ gui.at = "checking" /\ worker' = worker /\ file' = file /\ behind' = behind
        /\ k \in Keys
    BY <1>0, <1>10, InHand DEF RetryChecks
  <2>3. CASE items' = items
    BY <1>1, <2>2, <2>3 DEF Saving
  <2> QED
    BY <1>7, <2>1, <2>2, <2>3
<1>11. CASE RetryEnlists
  BY <1>1, <1>11 DEF RetryEnlists, Saving
<1>12. CASE StopService \/ TimePasses
  BY <1>1, <1>12 DEF StopService, TimePasses, Saving
<1>13. CASE TakeJob \/ Send \/ Note \/ KeepHistory \/ Leave
  BY <1>1, <1>13 DEF TakeJob, Send, Note, KeepHistory, Leave, Saving, Doing
<1>14. CASE RemoveItem
  <2>1. \/ worker'.at = "saving"
        \/ items' = items
    BY <1>0, <1>14, WorkerMoves
  <2>2. worker.at = "kept" /\ gui' = gui /\ file' = file /\ behind' = behind
    BY <1>14 DEF RemoveItem, Doing
  <2> QED
    BY <1>1, <1>2, <2>1, <2>2 DEF Saving
<1>15. CASE CountFailure
  BY <1>0, <1>2, <1>15, WorkerMoves DEF Saving
<1>16. CASE WorkerSaves
  <2>1. (Install(worker.list) \/ DiskRefuses) /\ items' = items
    BY <1>16 DEF WorkerSaves
  <2> QED
    BY <1>3, <2>1
<1>17. CASE Restart
  BY <1>17 DEF Restart, Filed
<1>18. CASE UNCHANGED nvars
  BY <1>1, <1>18 DEF nvars, Saving
<1> QED
  BY <1>4, <1>5, <1>6, <1>8, <1>9, <1>10, <1>11, <1>12, <1>13, <1>14, <1>15, <1>16, <1>17,
     <1>18 DEF NNext, RetryLoop, Worker

-----------------------------------------------------------------------------
\* A service that starts without a file has nothing to account for.
LEMMA InitNInv == NInit => NInv
<1> SUFFICES ASSUME NInit PROVE NInv
  OBVIOUS
<1>1. /\ items = Empty /\ file = Empty /\ worker = Idle /\ gui = GuiIdle /\ jobs = <<>>
      /\ history = {} /\ recorded = {} /\ inflight = {} /\ known = {} /\ whole = {}
      /\ resting = {} /\ aged = {} /\ starts = 1 /\ refusals = 0
  BY DEF NInit
<1>2. stopping \in BOOLEAN /\ behind \in BOOLEAN /\ ~stopping /\ ~behind
  BY Zenon DEF NInit
<1>3. Empty \in Lists /\ DOMAIN Empty = {}
  BY IsList DEF Empty
<1>4. worker \in WorkerStates /\ worker.at = "idle" /\ worker.key = {}
  BY <1>1, <1>3, Hands DEF Idle, WorkerStates, WorkerSteps
<1>5. gui \in GuiStates /\ gui.at = "idle" /\ gui.key = {} /\ gui.rest = {}
  BY <1>1, <1>3, Hands DEF GuiIdle, GuiStates, GuiSteps
<1>6. jobs \in Seq(Keys) /\ Len(jobs) = 0 /\ DOMAIN jobs = {}
  BY <1>1
<1>7. Shape
  BY <1>1, <1>2, <1>3, <1>4, <1>5, <1>6, NotificationAssumption DEF Shape
<1>8. IsFiniteSet(inflight) /\ Cardinality(inflight) = 0
  BY <1>1, FS_EmptySet
<1>9. Owned
  BY <1>1, <1>4, <1>5, <1>6, <1>8 DEF Owned, Job
<1>10. Charged
  BY <1>1, <1>3, <1>5 DEF Charged
<1>11. Asked
  BY <1>1, <1>4, <1>5 DEF Asked, Doing
<1>12. Received
  BY <1>1, <1>4 DEF Received
<1>13. Filed
  BY <1>1 DEF Filed
<1> QED
  BY <1>7, <1>9, <1>10, <1>11, <1>12, <1>13 DEF NInv

\* The invariant holds throughout.
LEMMA Inductive == NSpec => []NInv
<1>1. NInv /\ [NNext]_nvars => NInv'
  BY ShapeKept, OwnedKept, ChargedKept, AskedKept, ReceivedKept, FiledKept DEF NInv
<1> QED
  BY InitNInv, <1>1, PTL DEF NSpec

\* What the two threads update stays what it is meant to be, and a message is
\* marked in flight exactly as long as one job, and only one, is there to
\* deliver it: submit(), retry_due(), _deliver() and its finally clause, with
\* no lock, in any order and through any restarts.
THEOREM OneOwner == NSpec => []DeliveryOwned
<1>1. NInv => NTypeOK
  <2> SUFFICES ASSUME NInv PROVE NTypeOK
    OBVIOUS
  <2>0. Shape /\ worker \in WorkerStates /\ gui \in GuiStates
    BY DEF NInv, Shape
  <2>1. {items, file, worker.list, gui.list} \subseteq Lists
    BY <2>0, InHand DEF Shape
  <2>2. {history, recorded, inflight, resting, aged, known, whole, gui.rest} \subseteq SUBSET Keys
    BY <2>0, InHand DEF Shape
  <2>3. worker.at \in WorkerSteps /\ gui.at \in GuiSteps /\ {worker.key, gui.key} \subseteq NoneOrOne
    BY <2>0 DEF WorkerStates, GuiStates
  <2>4. stopping \in BOOLEAN /\ behind \in BOOLEAN
    BY <2>0, Zenon DEF Shape
  <2>5. jobs \in Seq(Keys) /\ starts \in 1 .. MaxStarts /\ refusals \in 0 .. MaxRefusals
    BY <2>0 DEF Shape
  <2> QED
    BY <2>1, <2>2, <2>3, <2>4, <2>5 DEF NTypeOK, WorkerSteps, GuiSteps, NoneOrOne
<1>2. NInv => InflightIsOwned
  <2> SUFFICES ASSUME NInv, ~stopping
               PROVE  /\ inflight = {jobs[i] : i \in DOMAIN jobs} \cup worker.key
                      /\ Cardinality(inflight) = Len(jobs) + Cardinality(worker.key)
    BY DEF InflightIsOwned
  <2>1. /\ Owned /\ jobs \in Seq(Keys) /\ inflight \subseteq Keys /\ worker.key \subseteq Keys
        /\ worker.key = {} \/ \E k \in Keys : worker.key = {k}
    BY InHand, Hands DEF NInv, Shape, WorkerStates
  <2>2. \A i \in DOMAIN jobs : jobs[i] \in Keys
    BY <2>1
  <2>3. inflight = {jobs[i] : i \in DOMAIN jobs} \cup worker.key
    BY <2>1, <2>2 DEF Owned, Job
  <2>4. Cardinality(worker.key) = IF worker.at = "idle" THEN 0 ELSE 1
    BY <2>1, FS_EmptySet, FS_Singleton DEF Owned
  <2> QED
    BY <2>1, <2>3, <2>4 DEF Owned
<1> QED
  BY Inductive, <1>1, <1>2, PTL DEF DeliveryOwned

\* What the history held when a process was started, that process never sends:
\* every path of submit() and retry_due() to the executor asks the history first.
THEOREM NothingTwice == NSpec => []RecordedNotSent
<1>1. NInv => RecordedNotSent
  BY DEF NInv, Asked, RecordedNotSent
<1> QED
  BY Inductive, <1>1, PTL

\* A message leaves the queue because it was received whole, because it was old
\* and no briefing, or because the process ended while the file lagged behind:
\* remove() of either thread, and load() of the next process.
THEOREM NoneDropped == NSpec => LeavesForAReason
<1> DEFINE Reason(k) == \/ k \in whole
                        \/ k \in aged \ Lasting
                        \/ starts' # starts /\ (behind \/ Saving)
<1> DEFINE Leaving == \A k \in DOMAIN items \ DOMAIN items' : Reason(k)
<1>1. NInv /\ [NNext]_nvars => Leaving
  <2> SUFFICES ASSUME NInv, [NNext]_nvars PROVE Leaving
    OBVIOUS
  <2>0. /\ Shape /\ Received /\ Filed /\ items \in Lists
        /\ worker.key \subseteq Keys /\ gui.key \subseteq Keys /\ gui.rest \subseteq Keys
    BY InHand DEF NInv, Shape
  <2>1. ASSUME DOMAIN items' = DOMAIN items PROVE Leaving
    BY <2>1
  <2>2. ASSUME NEW k \in Keys, items' = Without(k) \/ items' = items, Reason(k) PROVE Leaving
    <3>1. CASE items' = Without(k)
      <4>1. DOMAIN items \ DOMAIN items' \subseteq {k}
        BY <2>0, <3>1, ListOps
      <4> QED
        BY <2>2, <4>1
    <3> QED
      BY <2>1, <2>2, <3>1
  <2>3. ASSUME NEW k \in Keys, Submit(k) PROVE Leaving
    <3>1. DOMAIN items \subseteq DOMAIN items'
      BY <2>0, <2>3, ListOps DEF Submit
    <3> QED
      BY <3>1
  <2>4. CASE RetryNext
    <3>1. PICK k \in gui.rest :
              \/ k \in aged \ Lasting /\ GuiRemoves(k)
              \/ items' = IF Queued(k) THEN [items EXCEPT ![k].late = TRUE] ELSE items
              \/ items' = items
      BY <2>0, <2>4, GuiMoves
    <3>2. k \in Keys
      BY <2>0
    <3>3. CASE k \in aged \ Lasting /\ GuiRemoves(k)
      BY <2>0, <2>2, <3>2, <3>3, GuiMoves
    <3>4. CASE items' = IF Queued(k) THEN [items EXCEPT ![k].late = TRUE] ELSE items
      BY <2>0, <2>1, <3>2, <3>4, CountOps DEF Queued
    <3> QED
      BY <2>1, <3>1, <3>3, <3>4
  <2>5. CASE RetryChecks
    <3>1. PICK k \in gui.key : (k \in history /\ GuiRemoves(k)) \/ items' = items
      BY <2>0, <2>5, GuiMoves
    <3>2. k \in Keys
      BY <2>0
    <3>3. CASE k \in history /\ GuiRemoves(k)
      BY <2>0, <2>2, <3>2, <3>3, GuiMoves DEF Received
    <3> QED
      BY <2>1, <3>1, <3>3
  <2>6. CASE RemoveItem
    <3>1. PICK k \in worker.key : items' = Without(k) \/ items' = items
      BY <2>0, <2>6, WorkerMoves
    <3>2. k \in Keys /\ k \in whole
      BY <2>0, <2>6, WorkerMoves DEF Received
    <3> QED
      BY <2>2, <3>1, <3>2
  <2>7. CASE CountFailure
    <3>1. PICK k \in worker.key : items' = CountedUp(k)
      BY <2>0, <2>7, WorkerMoves
    <3>2. k \in Keys
      BY <2>0
    <3> QED
      BY <2>0, <2>1, <3>1, <3>2, CountOps
  <2>8. CASE Restart
    <3>1. items' = file /\ starts' # starts
      BY <2>0, <2>8 DEF Restart, Shape
    <3>2. behind \/ Saving \/ DOMAIN items' = DOMAIN items
      BY <2>0, <3>1 DEF Filed
    <3> QED
      BY <2>1, <3>1, <3>2
  <2>9. CASE Submitted \/ RetryDue \/ RetrySaves \/ RetryEnlists \/ StopService \/ TimePasses
    BY <2>1, <2>9 DEF Submitted, RetryDue, RetrySaves, RetryEnlists, StopService, TimePasses
  <2>10. CASE TakeJob \/ Send \/ Note \/ KeepHistory \/ WorkerSaves \/ Leave \/ UNCHANGED nvars
    BY <2>1, <2>10 DEF TakeJob, Send, Note, KeepHistory, WorkerSaves, Leave, nvars
  <2> QED
    BY <2>3, <2>4, <2>5, <2>6, <2>7, <2>8, <2>9, <2>10 DEF NNext, RetryLoop, Worker
<1> QED
  BY Inductive, <1>1, PTL DEF NSpec, LeavesForAReason
=============================================================================
