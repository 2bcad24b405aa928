------------------------- MODULE BriefingDispatcher -------------------------
(***************************************************************************)
(* How a scheduled briefing comes to run: the scheduler's timers and the   *)
(* recovery of missing briefings ask for it, and the dispatcher runs it    *)
(* once the connection is confirmed.                                       *)
(*                                                                         *)
(* A briefing waits for its data in nested Qt loops, in which all of this  *)
(* may happen again.  The calls under way form a stack of frames: a frame  *)
(* is one dispatch or one pass over the pending briefings, and holds the   *)
(* key it is running and the rest of its snapshot of _pending.  Only the   *)
(* frame on top can return.                                                *)
(***************************************************************************)
EXTENDS Naturals, Sequences, SequencesExt

CONSTANT Keys   \* the day's (date, briefing type) pairs

VARIABLES
    connected,      \* whether the manager's state is CONNECTED
    stopping,       \* _stopped, or the shutdown has started
    stack,          \* the frames: _running is the keys they run
    pending,        \* _pending, in order
    dispatched,     \* _dispatched
    retries,        \* _retry_counts
    retryTimers,    \* the keys whose retry timer has not fired
    states,         \* _states
    executed,       \* BriefingScheduler._executed
    recovered,      \* MissingBriefingRecovery.recovered
    activeBriefing, \* RuntimeMonitor.active_briefing
    saved,          \* the briefings with a complete result file
    \* history
    asked,          \* how often each key was taken up by dispatch()
    runs            \* how often each callback was started

ops == <<stopping, stack, pending, dispatched, retries, retryTimers, states,
         executed, recovered, activeBriefing, saved, asked, runs>>
dvars == <<connected, ops>>

NoBriefing == "none"
Frames == [key : Keys, rest : Seq(Keys)]
BriefingStates == {"unknown", "waiting_for_connection", "running", "completed",
                   "retry_wait", "failed"}

DTypeOK ==
    /\ connected \in BOOLEAN
    /\ stopping \in BOOLEAN
    /\ stack \in Seq(Frames)
    /\ pending \in Seq(Keys)
    /\ dispatched \subseteq Keys
    /\ retries \in [Keys -> {0, 1}]
    /\ retryTimers \subseteq Keys
    /\ states \in [Keys -> BriefingStates]
    /\ executed \subseteq Keys
    /\ recovered \subseteq Keys
    /\ activeBriefing \in Keys \cup {NoBriefing}
    /\ saved \subseteq Keys
    /\ asked \in [Keys -> Nat]
    /\ runs \in [Keys -> Nat]

\* A restarted process finds the results an earlier one has saved.
DInit ==
    /\ connected = FALSE
    /\ stopping = FALSE
    /\ stack = <<>>
    /\ pending = <<>>
    /\ dispatched = {}
    /\ retries = [k \in Keys |-> 0]
    /\ retryTimers = {}
    /\ states = [k \in Keys |-> "unknown"]
    /\ executed = {}
    /\ recovered = {}
    /\ activeBriefing = NoBriefing
    /\ saved \in SUBSET Keys
    /\ asked = [k \in Keys |-> 0]
    /\ runs = [k \in Keys |-> 0]

-----------------------------------------------------------------------------
RunningIn(frames) == {frames[i].key : i \in DOMAIN frames}
Running == RunningIn(stack)
Snapshots == UNION {ToSet(stack[i].rest) : i \in DOMAIN stack}

\* Mutant of Runnable: a briefing that has succeeded may be started again.
RunnableIfNotRunning(k, frames, done) == ~stopping /\ k \notin RunningIn(frames)

\* The guard of _run_once and of dispatch().
Runnable(k, frames, done) ==
    ~stopping /\ k \notin done /\ k \notin RunningIn(frames)

\* _run_once for one key of todo after the other, on top of the frames below:
\* the first n return at once, the next one runs, the others are its rest.
Enter(todo, below, done, told) ==
    \E n \in 0 .. Len(todo) :
        /\ \A i \in 1 .. n : ~Runnable(todo[i], below, done)
        /\ IF n = Len(todo)
           THEN stack' = below /\ states' = told /\ UNCHANGED <<activeBriefing, runs>>
           ELSE LET k == todo[n + 1] IN
                /\ Runnable(k, below, done)
                /\ stack' = Append(below, [key |-> k, rest |-> SubSeq(todo, n + 2, Len(todo))])
                /\ states' = [told EXCEPT ![k] = "running"]
                /\ activeBriefing' = k
                /\ runs' = [runs EXCEPT ![k] = @ + 1]

\* dispatch(): run it now, or keep it until the connection is confirmed.
Dispatch(k) ==
    \/ /\ ~Runnable(k, stack, dispatched)
       /\ UNCHANGED <<stack, pending, states, activeBriefing, asked, runs>>
    \/ /\ Runnable(k, stack, dispatched) /\ ~connected
       /\ states' = [states EXCEPT ![k] = "waiting_for_connection"]
       /\ IF k \in ToSet(pending)
          THEN UNCHANGED <<pending, asked>>
          ELSE /\ pending' = Append(pending, k)
               /\ asked' = [asked EXCEPT ![k] = @ + 1]
       /\ UNCHANGED <<stack, activeBriefing, runs>>
    \/ /\ Runnable(k, stack, dispatched) /\ connected
       /\ Enter(<<k>>, stack, dispatched, states)
       /\ asked' = [asked EXCEPT ![k] = @ + 1]
       /\ UNCHANGED pending

\* A timer of the BriefingScheduler: _execute_once.
Scheduled(k) ==
    /\ ~stopping
    /\ k \notin executed
    /\ executed' = executed \cup {k}
    /\ Dispatch(k)
    /\ UNCHANGED <<stopping, dispatched, retries, retryTimers, recovered, saved>>

\* RuntimeMonitor.beat: MissingBriefingRecovery.check finds a result missing
\* after its deadline.
Recover(k) ==
    /\ k \notin recovered
    /\ k \notin saved
    /\ activeBriefing # k
    /\ k \notin ToSet(pending)
    /\ recovered' = recovered \cup {k}
    /\ Dispatch(k)
    /\ UNCHANGED <<stopping, dispatched, retries, retryTimers, executed, saved>>

\* Mutant of OnConnectionState: only the oldest pending briefing is run.
OnConnectionStateFirst ==
    /\ ~stopping /\ pending # <<>>
    /\ pending' = <<>>
    /\ Enter(<<Head(pending)>>, stack, dispatched, states)
    /\ UNCHANGED <<stopping, dispatched, retries, retryTimers, executed,
                   recovered, saved, asked>>

\* on_connection_state(CONNECTED): run what is pending.
OnConnectionState ==
    /\ ~stopping /\ pending # <<>>
    /\ pending' = <<>>
    /\ Enter(pending, stack, dispatched, states)
    /\ UNCHANGED <<stopping, dispatched, retries, retryTimers, executed,
                   recovered, saved, asked>>

\* The pipeline saves the result of the briefing on top and tells the monitor.
Save ==
    /\ stack # <<>>
    /\ LET k == Last(stack).key IN
       /\ k \notin saved
       /\ saved' = saved \cup {k}
       /\ activeBriefing' = NoBriefing
    /\ UNCHANGED <<stopping, stack, pending, dispatched, retries, retryTimers,
                   states, executed, recovered, asked, runs>>

\* The rest of _run_once and of the pass over the snapshot, once the callback
\* on top has ended.
GoOn(told, done) == Enter(Last(stack).rest, Front(stack), done, told)

\* The callback returns: it has saved a result, or found one and skipped.
Succeeds ==
    /\ stack # <<>>
    /\ LET k == Last(stack).key IN
       /\ k \in saved
       /\ dispatched' = dispatched \cup {k}
       /\ GoOn([states EXCEPT ![k] = "completed"], dispatched')
    /\ UNCHANGED <<stopping, pending, retries, retryTimers, executed, recovered,
                   saved, asked>>

\* The callback raises: a transient error is retried once.
Fails(transient) ==
    /\ stack # <<>>
    /\ LET k == Last(stack).key IN
       /\ k \notin saved
       /\ IF transient /\ retries[k] < 1 /\ ~stopping
          THEN /\ retries' = [retries EXCEPT ![k] = @ + 1]
               /\ retryTimers' = retryTimers \cup {k}
               /\ pending' = IF k \in ToSet(pending) THEN pending ELSE Append(pending, k)
               /\ GoOn([states EXCEPT ![k] = "retry_wait"], dispatched)
          ELSE /\ GoOn([states EXCEPT ![k] = "failed"], dispatched)
               /\ UNCHANGED <<retries, retryTimers, pending>>
    /\ UNCHANGED <<stopping, dispatched, executed, recovered, saved, asked>>

\* Mutant of RetryDue: the key it runs stays pending.
RetryDueKeeps(k) ==
    /\ k \in retryTimers
    /\ retryTimers' = retryTimers \ {k}
    /\ IF connected /\ k \in ToSet(pending) /\ Runnable(k, stack, dispatched)
       THEN Enter(<<k>>, stack, dispatched, states)
       ELSE UNCHANGED <<stack, states, activeBriefing, runs>>
    /\ UNCHANGED <<stopping, pending, dispatched, retries, executed, recovered, saved, asked>>

\* _retry_due: the retry timer fires; offline, the briefing stays pending.
RetryDue(k) ==
    /\ k \in retryTimers
    /\ retryTimers' = retryTimers \ {k}
    /\ IF connected /\ k \in ToSet(pending)
       THEN /\ \E i \in DOMAIN pending : pending[i] = k /\ pending' = RemoveAt(pending, i)
            /\ IF Runnable(k, stack, dispatched)
               THEN Enter(<<k>>, stack, dispatched, states)
               ELSE UNCHANGED <<stack, states, activeBriefing, runs>>
       ELSE UNCHANGED <<pending, stack, states, activeBriefing, runs>>
    /\ UNCHANGED <<stopping, dispatched, retries, executed, recovered, saved, asked>>

\* The shutdown has started: stop().
StopDispatcher ==
    /\ ~stopping
    /\ stopping' = TRUE
    /\ pending' = <<>>
    /\ retryTimers' = {}
    /\ UNCHANGED <<stack, dispatched, retries, states, executed, recovered,
                   activeBriefing, saved, asked, runs>>

-----------------------------------------------------------------------------
ConnectionChanges ==
    /\ connected' = ~connected
    /\ UNCHANGED ops

Triggered == \E k \in Keys : Scheduled(k) \/ Recover(k) \/ RetryDue(k)
Reported == connected /\ OnConnectionState
CallbackReturns == Succeeds \/ \E transient \in BOOLEAN : Fails(transient)

DNext ==
    \/ Triggered /\ UNCHANGED connected
    \/ Reported /\ UNCHANGED connected
    \/ Save /\ UNCHANGED connected
    \/ CallbackReturns /\ UNCHANGED connected
    \/ StopDispatcher /\ UNCHANGED connected
    \/ ConnectionChanges

\* The runtime reports the state every second, and a callback ends.
DFairness ==
    /\ WF_dvars(Reported /\ UNCHANGED connected)
    /\ WF_dvars(CallbackReturns /\ UNCHANGED connected)

DSpec == DInit /\ [][DNext]_dvars /\ DFairness

-----------------------------------------------------------------------------
(***************************************************************************)
(* Properties.                                                             *)
(***************************************************************************)

\* No briefing is started while an earlier run of it waits in a nested loop.
NeverReentered ==
    \A i, j \in DOMAIN stack : i # j => stack[i].key # stack[j].key

\* A briefing that has succeeded is never started again that day, whatever
\* still holds its key: a snapshot, a retry timer, the recovery.  After stop()
\* no briefing is, though frames below still have some to run.
NotRunAfterSuccess ==
    [][\A k \in Keys : k \in dispatched \/ stopping => runs'[k] = runs[k]]_dvars

\* However the timer, the recovery and the retry interleave, a briefing runs
\* at most once for each time it was taken up, and once more for its retry.
\* It is taken up at most twice, by its timer and by the recovery.
RunsBounded ==
    \A k \in Keys : runs[k] <= asked[k] + retries[k] /\ asked[k] <= 2

\* What the dispatcher says of a briefing is true of where its key is.
StatesTold ==
    \A k \in Keys :
        /\ states[k] = "running" => k \in Running
        /\ states[k] = "completed" <=> k \in dispatched
        /\ states[k] \in {"waiting_for_connection", "retry_wait"} /\ ~stopping
             => k \in ToSet(pending) \cup Snapshots

\* Online for good, every waiting briefing gets its run.
WaitingIsRun ==
    <>[]connected =>
        \A k \in Keys :
            states[k] \in {"waiting_for_connection", "retry_wait"}
              ~> \/ states[k] \in {"running", "completed", "failed"}
                 \/ stopping

\* A briefing is started offline only when it was pending behind another: the
\* pass over the pending ones asks for the connection before the first of them.
OfflineOnlyBehind ==
    [][\A k \in Keys : runs'[k] # runs[k] /\ ~connected
         => stack # <<>> /\ k \in ToSet(Last(stack).rest)]_dvars

\* A briefing is not started without need, nor offline but in that one case.
StartsWhenItMay == NotRunAfterSuccess /\ OfflineOnlyBehind

\* Whatever timers, retries, snapshots and the recovery ask for, a briefing runs
\* as often as it was taken up and never inside itself, and the states that are
\* shown to the user are true of it.
RunsAccounted == DTypeOK /\ NeverReentered /\ RunsBounded /\ StatesTold
=============================================================================
