------------------------ MODULE NotificationDelivery ------------------------
(***************************************************************************)
(* NotificationService and PersistentNotificationQueue: messages are       *)
(* accepted by the Qt thread, kept in a file until they are delivered, and *)
(* sent by the one thread of an executor.  No lock protects the list of    *)
(* items, the history or _inflight, which both threads read and change.    *)
(*                                                                         *)
(* A message is its deduplication key.  Each save of the list is two       *)
(* steps, the list is read and the file replaced, so one thread may        *)
(* install what it read before the other thread changed the list.          *)
(*                                                                         *)
(* Left out: the entries of the history live 30 days, longer than a        *)
(* behaviour here; due items are taken in any order.                       *)
(***************************************************************************)
EXTENDS Naturals, Sequences, FiniteSets

CONSTANTS
    Keys,         \* the messages
    Lasting,      \* those that are worth sending a day later: the briefings
    MaxAttempts,  \* failures after which an item is never due again: 8
    MaxStarts,    \* bound: processes in one behaviour
    MaxRefusals   \* bound: saves that the disk refuses

ASSUME NotificationAssumption ==
    /\ Lasting \subseteq Keys
    /\ MaxAttempts \in Nat \ {0}
    /\ MaxStarts \in Nat \ {0}
    /\ MaxRefusals \in Nat

VARIABLES
    items,     \* queue.items: the attempts of each item, and whether it is marked late
    file,      \* notification_queue.json
    history,   \* service.history, in memory
    recorded,  \* the history file
    inflight,  \* service._inflight
    jobs,      \* what the executor has still to run
    worker,    \* the step of _deliver, its message, and the list it is saving
    gui,       \* the same for the Qt thread, and the rest of its due items
    resting,   \* messages whose next_attempt_at lies ahead
    aged,      \* messages created more than a day ago
    stopping,  \* service.stopping
    \* history
    starts,    \* processes so far
    refusals,  \* saves refused so far
    known,     \* the deliveries this process has read from the history file
    whole,     \* messages that have been received in all their parts
    behind     \* the file does not hold the list although no save is under way

nvars == <<items, file, history, recorded, inflight, jobs, worker, gui, resting,
           aged, stopping, starts, refusals, known, whole, behind>>

Lists == UNION {[K -> [tries : 0 .. MaxAttempts + 1, late : BOOLEAN]] : K \in SUBSET Keys}
Empty == [k \in {} |-> 0]
Queued(k) == k \in DOMAIN items

\* A thread that is not at work.
Idle == [at |-> "idle", key |-> {}, list |-> Empty]
GuiIdle == [at |-> "idle", key |-> {}, list |-> Empty, rest |-> {}]

NTypeOK ==
    /\ {items, file, worker.list, gui.list} \subseteq Lists
    /\ {history, recorded, inflight, resting, aged, known, whole, gui.rest} \subseteq SUBSET Keys
    /\ jobs \in Seq(Keys)
    /\ worker.at \in {"idle", "sending", "sent", "noted", "kept", "saving",
                      "failing", "saving_failure", "leaving"}
    /\ gui.at \in {"idle", "submitting", "looping", "saving_mark", "checking",
                   "enlisting", "saving_removal"}
    /\ {worker.key, gui.key} \subseteq {{}} \cup {{k} : k \in Keys}
    /\ stopping \in BOOLEAN /\ behind \in BOOLEAN
    /\ starts \in 1 .. MaxStarts /\ refusals \in 0 .. MaxRefusals

NInit ==
    /\ items = Empty /\ file = Empty
    /\ history = {} /\ recorded = {} /\ inflight = {}
    /\ jobs = <<>>
    /\ worker = Idle /\ gui = GuiIdle
    /\ resting = {} /\ aged = {}
    /\ stopping = FALSE
    /\ starts = 1 /\ refusals = 0 /\ known = {} /\ whole = {}
    /\ behind = FALSE

-----------------------------------------------------------------------------
(***************************************************************************)
(* The list and its file.                                                  *)
(***************************************************************************)

\* list.remove(item) on a list that holds it.
Without(k) == [x \in DOMAIN items \ {k} |-> items[x]]

\* items.append: a new item, due at once.
Added(k) == [x \in DOMAIN items \cup {k} |->
               IF x = k THEN [tries |-> 0, late |-> FALSE] ELSE items[x]]

\* fail(): one more attempt is counted, on the item if it is still listed.
CountedUp(k) == IF Queued(k) THEN [items EXCEPT ![k].tries = @ + 1] ELSE items

\* Mutant of Due: an item that has failed is not tried again.
DueOnlyOnce == {k \in DOMAIN items : k \notin resting /\ items[k].tries = 0}

\* due()
Due == {k \in DOMAIN items : k \notin resting /\ items[k].tries < MaxAttempts}

\* save(): the file is replaced by what was read, or the disk refuses it.
Install(list) ==
    /\ file' = list
    /\ behind' = (DOMAIN list # DOMAIN items)
    /\ UNCHANGED refusals
Refuses == refusals < MaxRefusals /\ refusals' = refusals + 1
DiskRefuses == Refuses /\ behind' = TRUE /\ UNCHANGED file

-----------------------------------------------------------------------------
(***************************************************************************)
(* The Qt thread: submit(), retry_due(), stop().                           *)
(***************************************************************************)

\* submit(): a message that is in flight, delivered or queued is refused.
\* Otherwise it is appended, and the list is about to be saved.
Submit(k) ==
    /\ gui.at = "idle" /\ ~stopping
    /\ k \notin inflight \cup history \cup DOMAIN items
    /\ items' = Added(k)
    /\ gui' = [GuiIdle EXCEPT !.at = "submitting", !.key = {k}, !.list = items']
    /\ resting' = resting \ {k}
    /\ aged' = aged \ {k}
    /\ UNCHANGED <<file, history, recorded, inflight, jobs, worker, stopping,
                   starts, refusals, known, whole, behind>>

\* The save of the new item: then it is handed to the executor.  If the save
\* raises, so does submit(), and the item waits for the retry timer.
Submitted ==
    /\ gui.at = "submitting"
    /\ gui' = GuiIdle
    /\ \/ /\ Install(gui.list)
          /\ inflight' = inflight \cup gui.key
          /\ \E k \in gui.key : jobs' = Append(jobs, k)
       \/ DiskRefuses /\ UNCHANGED <<inflight, jobs>>
    /\ UNCHANGED <<items, history, recorded, worker, resting, aged, stopping,
                   starts, known, whole>>

\* The retry timer: the due items are listed, once.
RetryDue ==
    /\ gui.at = "idle" /\ ~stopping /\ Due # {}
    /\ gui' = [GuiIdle EXCEPT !.at = "looping", !.rest = Due]
    /\ UNCHANGED <<items, file, history, recorded, inflight, jobs, worker, resting,
                   aged, stopping, starts, refusals, known, whole, behind>>

Next(at, k, list) == [gui EXCEPT !.at = at, !.key = {k}, !.list = list]
LoopOn(rest) == IF rest = {} THEN GuiIdle
                ELSE [GuiIdle EXCEPT !.at = "looping", !.rest = rest]

\* queue.remove(item) on the Qt thread: ValueError ends the slot when the
\* worker has removed the item.
GuiRemoves(k) ==
    IF Queued(k)
    THEN items' = Without(k) /\ gui' = [Next("saving_removal", k, items') EXCEPT !.rest = @ \ {k}]
    ELSE gui' = GuiIdle /\ UNCHANGED items

\* Mutant of RetryNext: whatever is a day old is discarded.
DiscardAll ==
    /\ gui.at = "looping"
    /\ \E k \in gui.rest :
        IF k \in aged THEN GuiRemoves(k)
        ELSE gui' = Next("checking", k, Empty) /\ UNCHANGED items
    /\ UNCHANGED <<file, history, recorded, inflight, jobs, worker, resting, aged,
                   stopping, starts, refusals, known, whole, behind>>

\* The next due item: a day later only briefings are worth sending, and marked.
RetryNext ==
    /\ gui.at = "looping"
    /\ \E k \in gui.rest :
        \/ /\ k \in aged \ Lasting
           /\ GuiRemoves(k)
        \/ /\ k \in aged \cap Lasting
           /\ Queued(k) => ~items[k].late
           /\ items' = IF Queued(k) THEN [items EXCEPT ![k].late = TRUE] ELSE items
           /\ gui' = Next("saving_mark", k, items')
        \/ /\ k \notin aged \/ (k \in Lasting /\ Queued(k) /\ items[k].late)
           /\ gui' = Next("checking", k, Empty)
           /\ UNCHANGED items
    /\ UNCHANGED <<file, history, recorded, inflight, jobs, worker, resting, aged,
                   stopping, starts, refusals, known, whole, behind>>

\* A save of the loop; if it raises, the slot is left.
RetrySaves ==
    /\ gui.at \in {"saving_mark", "saving_removal"}
    /\ \/ /\ Install(gui.list)
          /\ gui' = IF gui.at = "saving_mark" THEN [gui EXCEPT !.at = "checking", !.list = Empty]
                    ELSE LoopOn(gui.rest)
       \/ DiskRefuses /\ gui' = GuiIdle
    /\ UNCHANGED <<items, history, recorded, inflight, jobs, worker, resting, aged,
                   stopping, starts, known, whole>>

\* Mutant of RetryChecks: the history is not asked.
CheckNothing ==
    /\ gui.at = "checking"
    /\ gui' = [gui EXCEPT !.at = "enlisting"]
    /\ UNCHANGED <<items, file, history, recorded, inflight, jobs, worker, resting,
                   aged, stopping, starts, refusals, known, whole, behind>>

\* An item that is in the history is removed, not sent.
RetryChecks ==
    /\ gui.at = "checking"
    /\ \E k \in gui.key :
        IF k \in history THEN GuiRemoves(k)
        ELSE gui' = [gui EXCEPT !.at = "enlisting"] /\ UNCHANGED items
    /\ UNCHANGED <<file, history, recorded, inflight, jobs, worker, resting, aged,
                   stopping, starts, refusals, known, whole, behind>>

\* The item is handed to the executor, unless it is in flight.
RetryEnlists ==
    /\ gui.at = "enlisting"
    /\ \E k \in gui.key :
        /\ inflight' = inflight \cup {k}
        /\ jobs' = IF k \in inflight THEN jobs ELSE Append(jobs, k)
        /\ gui' = LoopOn(gui.rest \ {k})
    /\ UNCHANGED <<items, file, history, recorded, worker, resting, aged, stopping,
                   starts, refusals, known, whole, behind>>

\* stop(): the timer and the executor; what the worker is sending goes on.
StopService ==
    /\ gui.at = "idle" /\ ~stopping
    /\ stopping' = TRUE
    /\ jobs' = <<>>
    /\ UNCHANGED <<items, file, history, recorded, inflight, worker, gui, resting,
                   aged, starts, refusals, known, whole, behind>>

-----------------------------------------------------------------------------
(***************************************************************************)
(* The worker: _deliver().                                                 *)
(***************************************************************************)

Doing(step) == worker.at = step
Then(step) == worker' = [worker EXCEPT !.at = step]

\* The executor's thread takes the next job.
TakeJob ==
    /\ Doing("idle") /\ jobs # <<>>
    /\ worker' = [Idle EXCEPT !.at = "sending", !.key = {Head(jobs)}]
    /\ jobs' = Tail(jobs)
    /\ UNCHANGED <<items, file, history, recorded, inflight, gui, resting, aged,
                   stopping, starts, refusals, known, whole, behind>>

\* Text, as Markdown or else plain, and documents: all parts are accepted, or
\* one call raises.  (What the server received of a failed attempt, which the
\* next one sends again, is left out.)
Send ==
    /\ Doing("sending")
    /\ \/ Then("sent") /\ whole' = whole \cup worker.key
       \/ Then("failing") /\ UNCHANGED whole
    /\ UNCHANGED <<items, file, history, recorded, inflight, jobs, gui, resting,
                   aged, stopping, starts, refusals, known, behind>>

\* history.append: the Qt thread sees the delivery before any file holds it.
Note ==
    /\ Doing("sent")
    /\ history' = history \cup worker.key
    /\ Then("noted")
    /\ UNCHANGED <<items, file, recorded, inflight, jobs, gui, resting, aged,
                   stopping, starts, refusals, known, whole, behind>>

\* _trim_history: the history file is written.
KeepHistory ==
    /\ Doing("noted")
    /\ \/ recorded' = history /\ Then("kept") /\ UNCHANGED refusals
       \/ Refuses /\ Then("failing") /\ UNCHANGED recorded
    /\ UNCHANGED <<items, file, history, inflight, jobs, gui, resting, aged,
                   stopping, starts, known, whole, behind>>

\* queue.remove(item): ValueError when the Qt thread has removed it.
RemoveItem ==
    /\ Doing("kept")
    /\ \E k \in worker.key :
        IF Queued(k)
        THEN /\ items' = Without(k)
             /\ worker' = [worker EXCEPT !.at = "saving", !.list = items']
        ELSE Then("failing") /\ UNCHANGED items
    /\ UNCHANGED <<file, history, recorded, inflight, jobs, gui, resting, aged,
                   stopping, starts, refusals, known, whole, behind>>

\* queue.fail(item), for every exception, also one that came after the message
\* was sent.
CountFailure ==
    /\ Doing("failing")
    /\ \E k \in worker.key :
        /\ items' = CountedUp(k)
        /\ resting' = resting \cup {k}
        /\ worker' = [worker EXCEPT !.at = "saving_failure", !.list = items']
    /\ UNCHANGED <<file, history, recorded, inflight, jobs, gui, aged, stopping,
                   starts, refusals, known, whole, behind>>

\* The save of either; an error of the first is a failure of the delivery.
WorkerSaves ==
    /\ worker.at \in {"saving", "saving_failure"}
    /\ \/ Install(worker.list) /\ Then("leaving")
       \/ DiskRefuses /\ Then(IF Doing("saving") THEN "failing" ELSE "leaving")
    /\ UNCHANGED <<items, history, recorded, inflight, jobs, gui, resting, aged,
                   stopping, starts, known, whole>>

\* Mutant of Leave: only a delivery that succeeds ends.
LeaveInflight ==
    /\ Doing("leaving")
    /\ inflight' = inflight \ (worker.key \cap history)
    /\ worker' = Idle
    /\ UNCHANGED <<items, file, history, recorded, jobs, gui, resting, aged,
                   stopping, starts, refusals, known, whole, behind>>

\* The finally clause.
Leave ==
    /\ Doing("leaving")
    /\ inflight' = inflight \ worker.key
    /\ worker' = Idle
    /\ UNCHANGED <<items, file, history, recorded, jobs, gui, resting, aged,
                   stopping, starts, refusals, known, whole, behind>>

-----------------------------------------------------------------------------
(***************************************************************************)
(* Time, the end of a process and the start of the next one.               *)
(***************************************************************************)

\* The backoff of every item is over.
TimePasses ==
    /\ resting # {}
    /\ resting' = {}
    /\ UNCHANGED <<items, file, history, recorded, inflight, jobs, worker, gui, aged,
                   stopping, starts, refusals, known, whole, behind>>

Saving == gui.at \in {"submitting", "saving_mark", "saving_removal"}
          \/ worker.at \in {"saving", "saving_failure"}

\* The process ends, after the worker or by a crash, and a new service reads
\* the two files, on the same day or later: a process lives less than a day.
Restart ==
    /\ starts < MaxStarts
    /\ starts' = starts + 1
    /\ items' = file /\ history' = recorded /\ known' = recorded
    /\ inflight' = {} /\ jobs' = <<>>
    /\ worker' = Idle /\ gui' = GuiIdle
    /\ stopping' = FALSE /\ behind' = FALSE
    /\ \/ resting' = resting \cap DOMAIN file /\ UNCHANGED aged
       \/ resting' = {} /\ aged' = aged \cup DOMAIN file
    /\ UNCHANGED <<file, recorded, refusals, whole>>

Worker == TakeJob \/ Send \/ Note \/ KeepHistory \/ RemoveItem \/ CountFailure
          \/ WorkerSaves \/ Leave
RetryLoop == Submitted \/ RetryNext \/ RetrySaves \/ RetryChecks \/ RetryEnlists

NNext ==
    \/ \E k \in Keys : Submit(k)
    \/ RetryDue \/ RetryLoop
    \/ StopService
    \/ Worker
    \/ TimePasses
    \/ Restart

\* The worker and the Qt thread go on, time passes, and the retry timer is
\* served although the Qt thread has other work.  No message need get through,
\* none need be submitted, and no process need be stopped or started.
NFairness ==
    /\ WF_nvars(Worker)
    /\ WF_nvars(RetryLoop)
    /\ WF_nvars(TimePasses)
    /\ SF_nvars(RetryDue)

NSpec == NInit /\ [][NNext]_nvars /\ NFairness

-----------------------------------------------------------------------------
(***************************************************************************)
(* Properties.                                                             *)
(***************************************************************************)

\* A message leaves the queue for a reason: all of it was received, it was old
\* and no briefing, or the process ended with a file that lagged behind, for a
\* save was under way, was refused, or installed an older list than another.
LeavesForAReason ==
    [][\A k \in DOMAIN items \ DOMAIN items' :
          \/ k \in whole
          \/ k \in aged \ Lasting
          \/ starts' # starts /\ (behind \/ Saving)]_nvars

\* What the history held when a process was started, that process never sends,
\* whatever the queue file still holds of it.  A message that it has noted since
\* may be sent once more, if retry_due() has checked it before.
RecordedNotSent == Doing("sending") => worker.key \cap known = {}

\* A message is marked in flight exactly as long as the executor has it to
\* deliver: nothing is delivered by two jobs, and nothing stays marked, which
\* would keep it from ever being retried or submitted again.
InflightIsOwned ==
    ~stopping =>
        /\ inflight = {jobs[i] : i \in DOMAIN jobs} \cup worker.key
        /\ Cardinality(inflight) = Len(jobs) + Cardinality(worker.key)

\* No message waits for ever: it leaves the queue or is given up after the
\* last attempt, unless the service is stopped.  (With a disk that refuses
\* every save, messages that are submitted again and again could keep the loop
\* from those behind them here, where the order of the list is left out.)
Settles ==
    <>[][~\E k \in Keys : Submit(k)]_nvars =>
        \A k \in Keys :
            Queued(k) ~> \/ ~Queued(k) \/ items[k].tries >= MaxAttempts \/ stopping

\* Each message has one owner, through submissions, retries, saves and restarts
\* that the two threads make at any time.
DeliveryOwned == NTypeOK /\ InflightIsOwned
=============================================================================
