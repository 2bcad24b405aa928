---------------------------- MODULE BriefingDay ----------------------------
(***************************************************************************)
(* One trading day of the process as main() wires it: the scheduler and    *)
(* its catch-up, the 09:05 grace, the dispatcher's waiting list, the       *)
(* pipeline, the heartbeat with its recovery of missing briefings and its  *)
(* watchdog, the pre-open observation, shutdown, death and restart.        *)
(*                                                                         *)
(* The Qt thread is a stack of frames.  A briefing that collects waits in  *)
(* a nested event loop, which serves every other timer and event, so       *)
(* briefings, heartbeats and reconnects may pile up on it; only the top    *)
(* frame goes on.  The clock moves at any time: timers fire late.          *)
(*                                                                         *)
(* Left out, each modelled elsewhere or immaterial here: the steps of a    *)
(* save (BriefingStorage), requests (TrRequestQueue), the dispatcher's one *)
(* retry, which needs a connection error that the pipeline would not have  *)
(* isolated (BriefingDispatcher), a refused real-time registration, the    *)
(* manual validation run.                                                  *)
(***************************************************************************)
EXTENDS Naturals, Sequences, FiniteSets, SequencesExt

CONSTANTS
    Types,      \* the briefings looked at: all three, or some of them
    Periods,    \* the periods of the day that are told apart
    None,
    MaxStarts   \* bound: processes in the behaviour

PRE == "pre_market"
TEN == "intraday_10am"
CLOSE == "market_close"
PREOPEN == "preopen_monitoring"

ASSUME BriefingDayAssumption ==
    /\ PRE \in Types /\ Types \subseteq {PRE, TEN, CLOSE}
    /\ Periods \subseteq 0 .. 9 /\ 9 \in Periods
    /\ None \notin {PRE, TEN, CLOSE, PREOPEN}
    /\ MaxStarts \in Nat \ {0}

Names == Types \cup {PREOPEN}

VARIABLES
    proc,       \* "down", "running" or "closing"
    clock,      \* the periods between the times of day below
    link,       \* manager.state is CONNECTED
    stack,      \* the frames of the Qt thread
    timers,     \* the scheduler's running timers
    executed,   \* scheduler._executed
    grace,      \* the 09:05 timer runs
    waiting,    \* dispatcher._pending, in order
    dispatched, \* dispatcher._dispatched
    completed,  \* pipeline._completed
    disk,       \* what the day's directory holds of each briefing
    active,     \* runtime_monitor.active_briefing
    handled,    \* runtime_monitor._watchdog_handled
    recovered,  \* recovery.recovered
    marker,     \* running.json
    preopen,    \* the observation: its requests, states and flags
    signal,     \* the source has seen the market open
    failed,     \* history: briefings whose pipeline raised in this process
    starts

dispatching == <<waiting, dispatched, completed>>
monitoring == <<active, handled, recovered>>
scheduling == <<timers, executed, grace>>
vars == <<proc, clock, link, stack, scheduling, dispatching, disk, monitoring,
          marker, preopen, signal, failed, starts>>

----------------------------------------------------------------------------
\* The day: 1 from 08:00, 2 from 09:00, 3 from 09:05, 4 from 09:10,
\* 5 from 10:00, 6 from 10:10, 7 from 15:40, 8 from 15:55, 9 from 20:00.
At == PREOPEN :> 1 @@ PRE :> 2 @@ TEN :> 5 @@ CLOSE :> 7
Deadline == PRE :> 4 @@ TEN :> 6 @@ CLOSE :> 8
GraceEnd == 3
Closing == 9

\* The tasks of S in the order of their times.
Listed(S) ==
    LET If(n) == IF n \in S THEN <<n>> ELSE <<>>
    IN If(PREOPEN) \o If(PRE) \o If(TEN) \o If(CLOSE)

\* What a start at this time leaves to run, in order: the last task that is
\* due, but only the pre-open one between 08:00 and 09:00, and all later ones.
Plan(now) ==
    LET overdue == {n \in Names : At[n] <= now}
        latest == {n \in overdue : \A m \in overdue : At[m] <= At[n]}
    IN IF now >= Closing THEN <<>>
       ELSE Listed({n \in Names : n \in latest \/ At[n] > now})

\* What a file says: "half" is the JSON alone, "weak" the pre-market statuses
\* incomplete and degraded.
Final == {"whole", "errors", "holiday"}
Contents == Final \cup {"none", "half", "weak"}

\* _validate_existing_result, and the recovery's own idea of a result.
Valid(t) == disk[t] \in Final
Counted(t) == disk[t] \in Final \cup {"half"}

----------------------------------------------------------------------------
\* Frames
Briefing(t, holiday) == [job |-> "collect", type |-> t, holiday |-> holiday]
Told(t) == [job |-> "told", type |-> t]
Loop(job, todo) == [job |-> job, todo |-> todo, at |-> clock]

Rest == Tail(stack)
Running == {stack[i].type : i \in {j \in 1 .. Len(stack) : stack[j].job \in {"collect", "told"}}}

\* The event loop serves timers and events: at the bottom, or while the
\* top frame waits for its collectors.
Spins ==
    /\ proc = "running"
    /\ stack # <<>> => Head(stack).job = "collect" /\ ~Head(stack).holiday

\* The frame's list, with its first entry taken.
Taken == <<[Head(stack) EXCEPT !.todo = Tail(@)]>> \o Rest

\* Mutant of Rerun: the files of an earlier process are not looked at.
RerunUnchecked(t) == t \notin completed

\* The pipeline makes the briefing, or finds it made.
Rerun(t) == t \notin completed /\ ~Valid(t)

\* Mutant of Admitted: a briefing that is running is admitted again.
AdmittedAgain(t) == proc = "running" /\ t \notin dispatched

Admitted(t) == proc = "running" /\ t \notin dispatched /\ t \notin Running

\* execute() on top of the frames `below`; opened is the flag it finds.
Run(t, below, opened) ==
    /\ active' = t /\ handled' = FALSE
    /\ IF Rerun(t)
       THEN LET holiday == ~opened /\ clock >= GraceEnd
            IN /\ stack' = <<Briefing(t, holiday)>> \o below
               /\ UNCHANGED <<dispatched, completed>>
       ELSE /\ completed' = completed \cup {t}
            /\ dispatched' = dispatched \cup {t}
            /\ stack' = below

NoRun(below) ==
    /\ stack' = below
    /\ UNCHANGED <<dispatched, completed, active, handled>>

Refreshed == preopen.opened \/ signal

\* stop() of the observation and of its source.
PreopenOver(p) == [p EXCEPT !.stopped = TRUE, !.sampling = FALSE, !.listening = FALSE]

\* run_briefing: the pre-market one ends the observation.
RunBriefing(t, below) ==
    /\ LET fresh == [preopen EXCEPT !.opened = Refreshed]
       IN preopen' = IF t = PRE THEN PreopenOver(fresh) ELSE fresh
    /\ IF Admitted(t) /\ link
       THEN Run(t, below, Refreshed) /\ waiting' = waiting
       ELSE /\ waiting' = IF Admitted(t) /\ ~Contains(waiting, t)
                          THEN Append(waiting, t) ELSE waiting
            /\ NoRun(below)

\* Mutant of MayStartEarly: the grace has no effect.
MayStartAtOnce == TRUE

MayStartEarly == Refreshed \/ clock >= GraceEnd

RequestPreMarket(below) ==
    IF MayStartEarly THEN RunBriefing(PRE, below) /\ grace' = grace
    ELSE /\ grace' = TRUE /\ preopen' = [preopen EXCEPT !.opened = Refreshed]
         /\ NoRun(below) /\ waiting' = waiting

\* The observation as it is once start_preopen_monitoring has run: the source
\* registers even when the monitor, once stopped, no longer starts.
PreopenAsked ==
    LET begins == link /\ ~preopen.stopped /\ ~preopen.started
    IN [preopen EXCEPT !.wanted = TRUE,
                       !.listening = @ \/ link,
                       !.started = @ \/ begins,
                       !.sampling = @ \/ (begins /\ clock <= 1),
                       !.opened = @ \/ (begins /\ clock = 1 /\ signal)]

StartPreopen(below) ==
    /\ preopen' = PreopenAsked
    /\ grace' = grace /\ waiting' = waiting /\ NoRun(below)

\* The callbacks of the scheduler and of the recovery.
Call(n, below) ==
    CASE n = PREOPEN -> StartPreopen(below)
      [] n = PRE -> RequestPreMarket(below)
      [] OTHER -> RunBriefing(n, below) /\ grace' = grace

----------------------------------------------------------------------------
\* The process

NoPreopen == [wanted |-> FALSE, started |-> FALSE, stopped |-> FALSE,
              sampling |-> FALSE, listening |-> FALSE, opened |-> FALSE]

DayFrame == Loop("beat", Listed(Types))

\* The day may have begun with processes that ended before this behaviour.
Init ==
    /\ proc = "down" /\ clock \in Periods \ {Closing} /\ link = FALSE /\ stack = <<>>
    /\ timers = {} /\ executed = {} /\ grace = FALSE
    /\ waiting = <<>> /\ dispatched = {} /\ completed = {}
    /\ disk \in [Types -> {"none", "half", "weak", "whole"}]
    /\ \A t \in Types : At[t] > clock => disk[t] = "none"
    /\ \A t \in Types \ {PRE} : disk[t] # "weak"
    /\ active = None /\ handled = FALSE /\ recovered = {}
    /\ marker = FALSE /\ preopen = NoPreopen /\ signal = FALSE
    /\ failed = {} /\ starts = 0

\* Time only matters to a process that runs or will be started.
Advance ==
    /\ proc # "running" => proc = "down" /\ starts < MaxStarts
    /\ \E later \in {p \in Periods : p > clock} :
         /\ \A p \in Periods : p > clock => p >= later
         /\ clock' = later
    /\ UNCHANGED <<proc, link, stack, scheduling, dispatching, disk, monitoring,
                   marker, preopen, signal, failed, starts>>

\* schedule(): a process that is started after the time of the shutdown ends.
TooLate == clock >= Closing

\* runtime.start, whose control is not connected yet, then the first
\* heartbeat, then the plan.
Launch ==
    /\ proc = "down" /\ ~TooLate /\ starts < MaxStarts
    /\ proc' = "running" /\ link' = FALSE /\ starts' = starts + 1
    /\ stack' = <<DayFrame, Loop("plan", Plan(clock))>>
    /\ UNCHANGED <<clock, scheduling, dispatching, disk, monitoring, marker,
                   preopen, signal, failed>>

Top(job) == stack # <<>> /\ Head(stack).job = job

\* What a process had in memory is gone with it.
Gone ==
    /\ proc' = "down" /\ link' = FALSE /\ stack' = <<>>
    /\ timers' = {} /\ executed' = {} /\ grace' = FALSE
    /\ waiting' = <<>> /\ dispatched' = {} /\ completed' = {}
    /\ active' = None /\ handled' = FALSE /\ recovered' = {}
    /\ preopen' = NoPreopen /\ signal' = FALSE /\ failed' = {}
    /\ UNCHANGED <<clock, starts>>

\* The process dies; a save under way leaves nothing, the JSON or all of it.
Kill ==
    /\ proc = "running" \/ stack # <<>>
    /\ Gone /\ marker' = marker
    /\ \/ disk' = disk
       \/ /\ Top("collect") /\ ~Head(stack).holiday
          /\ \E c \in Contents \ {"holiday"} : disk' = [disk EXCEPT ![Head(stack).type] = c]

\* At 20:00, or from the tray: every attached resource is stopped.
Shutdown ==
    /\ Spins
    /\ proc' = "closing" /\ link' = FALSE /\ marker' = FALSE
    /\ timers' = {} /\ grace' = FALSE /\ waiting' = <<>>
    /\ preopen' = PreopenOver(preopen)
    /\ UNCHANGED <<clock, stack, executed, dispatched, completed, disk, monitoring,
                   signal, failed, starts>>

Exit ==
    /\ proc = "closing" /\ stack = <<>>
    /\ Gone /\ UNCHANGED <<disk, marker>>

----------------------------------------------------------------------------
\* The scheduler and its timers

\* A task that is due runs before the timers of the later ones are started.
PlanStep ==
    /\ Top("plan") /\ Head(stack).todo # <<>>
    /\ LET n == Head(Head(stack).todo)
       IN \/ /\ At[n] <= Head(stack).at /\ n \notin executed /\ proc = "running"
             /\ executed' = executed \cup {n} /\ timers' = timers
             /\ Call(n, Taken)
          \/ /\ ~(At[n] <= Head(stack).at /\ n \notin executed /\ proc = "running")
             /\ timers' = IF At[n] <= Head(stack).at THEN timers ELSE timers \cup {n}
             /\ stack' = Taken
             /\ UNCHANGED <<executed, grace, dispatching, active, handled, preopen>>
    /\ UNCHANGED <<proc, clock, link, disk, recovered, marker, signal, failed, starts>>

PlanEnd ==
    /\ Top("plan") /\ Head(stack).todo = <<>>
    /\ stack' = Rest
    /\ UNCHANGED <<proc, clock, link, scheduling, dispatching, disk, monitoring,
                   marker, preopen, signal, failed, starts>>

FireTimer(n) ==
    /\ Spins /\ n \in timers /\ clock >= At[n]
    /\ timers' = timers \ {n} /\ executed' = executed \cup {n}
    /\ IF n \notin executed THEN Call(n, stack)
       ELSE NoRun(stack) /\ UNCHANGED <<waiting, grace, preopen>>
    /\ UNCHANGED <<proc, clock, link, disk, recovered, marker, signal, failed, starts>>

FireGrace ==
    /\ Spins /\ grace /\ clock >= GraceEnd
    /\ grace' = FALSE /\ RunBriefing(PRE, stack)
    /\ UNCHANGED <<proc, clock, link, timers, executed, disk, recovered, marker,
                   signal, failed, starts>>

----------------------------------------------------------------------------
\* The heartbeat

\* A briefing the check made at `now` asks for: its grace is over and it is
\* neither made nor known to run or to wait.
Missing(t, now) ==
    /\ now >= Deadline[t] /\ now < Closing
    /\ t \notin recovered /\ ~Counted(t) /\ active # t /\ ~Contains(waiting, t)

Stalling == active # None \/ \E i \in 1 .. Len(stack) : stack[i].job = "collect"

\* A beat that would find nothing to do and the marker in place is left out.
Beat ==
    /\ Spins
    /\ \/ \E t \in Types : Missing(t, clock)
       \/ Stalling /\ ~handled
       \/ ~marker
    /\ stack' = <<DayFrame>> \o stack
    /\ UNCHANGED <<proc, clock, link, scheduling, dispatching, disk, monitoring,
                   marker, preopen, signal, failed, starts>>

MissingAt(i) == Missing(Head(stack).todo[i], Head(stack).at)

\* The first missing briefing is noted and asked for; the rest of the list
\* is looked at when the call has returned.
Recover ==
    /\ Top("beat")
    /\ LET todo == Head(stack).todo
       IN \E i \in 1 .. Len(todo) :
            /\ MissingAt(i) /\ \A j \in 1 .. i - 1 : ~MissingAt(j)
            /\ recovered' = recovered \cup {todo[i]}
            /\ Call(todo[i], <<[Head(stack) EXCEPT !.todo = SubSeq(todo, i + 1, Len(todo))]>> \o Rest)
    /\ UNCHANGED <<proc, clock, link, timers, executed, disk, marker, signal, failed, starts>>

\* The watchdog takes a briefing that is active for 300 s, or a request that
\* is active for 60 s, for a stall, once, and has the connection rechecked.
BeatEnd ==
    /\ Top("beat") /\ \A i \in 1 .. Len(Head(stack).todo) : ~MissingAt(i)
    /\ \/ UNCHANGED <<handled, link>>
       \/ /\ Stalling /\ ~handled /\ proc = "running"
          /\ handled' = TRUE /\ link' = FALSE
    /\ marker' = TRUE /\ stack' = Rest
    /\ UNCHANGED <<proc, clock, scheduling, dispatching, disk, active, recovered,
                   preopen, signal, failed, starts>>

----------------------------------------------------------------------------
\* The connection and the market

\* Mutant of Released: the list is cleared before it is copied.
ReleasedLate == <<>>

Released == waiting

\* CONNECTED: the waiting briefings are released one after the other.
Connect ==
    /\ Spins /\ ~link
    /\ link' = TRUE /\ waiting' = <<>>
    /\ stack' = <<[job |-> "release", todo |-> Released]>> \o stack
    /\ UNCHANGED <<proc, clock, scheduling, dispatched, completed, disk, monitoring,
                   marker, preopen, signal, failed, starts>>

Release ==
    /\ Top("release") /\ Head(stack).todo # <<>>
    /\ LET t == Head(Head(stack).todo)
       IN IF Admitted(t) THEN Run(t, Taken, preopen.opened) ELSE NoRun(Taken)
    /\ UNCHANGED <<proc, clock, link, scheduling, waiting, disk, recovered, marker,
                   preopen, signal, failed, starts>>

\* The observation that was asked for without a connection begins now.
Restarts == preopen.wanted /\ ~preopen.started

ReleaseEnd ==
    /\ Top("release") /\ Head(stack).todo = <<>>
    /\ preopen' = IF Restarts THEN PreopenAsked ELSE preopen
    /\ stack' = Rest
    /\ UNCHANGED <<proc, clock, link, scheduling, dispatching, disk, monitoring,
                   marker, signal, failed, starts>>

Drop ==
    /\ Spins /\ link
    /\ link' = FALSE
    /\ UNCHANGED <<proc, clock, stack, scheduling, dispatching, disk, monitoring,
                   marker, preopen, signal, failed, starts>>

\* The market's state turns to open, or a stock is traded.
Opens ==
    /\ Spins /\ clock >= 2 /\ ~signal
    /\ signal' = TRUE
    /\ UNCHANGED <<proc, clock, link, stack, scheduling, dispatching, disk, monitoring,
                   marker, preopen, failed, starts>>

Sample ==
    /\ Spins /\ preopen.sampling /\ clock >= 1
    /\ \E more \in (IF clock = 1 THEN BOOLEAN ELSE {FALSE}) :
         preopen' = [preopen EXCEPT !.opened = Refreshed, !.sampling = more]
    /\ UNCHANGED <<proc, clock, link, stack, scheduling, dispatching, disk, monitoring,
                   marker, signal, failed, starts>>

----------------------------------------------------------------------------
\* The pipeline

\* The status that is saved.  A collector that fails is an error of the
\* briefing; the quality of a pre-market one overrides that.
Outcomes(f) == IF f.type = PRE THEN {"whole", "weak"} ELSE {"whole", "errors"}

\* Saved: the completion listeners end the monitor's briefing and beat.
Finish ==
    /\ Top("collect") /\ ~Head(stack).holiday
    /\ LET f == Head(stack)
       IN /\ \E c \in Outcomes(f) : disk' = [disk EXCEPT ![f.type] = c]
          /\ completed' = completed \cup {f.type}
          /\ stack' = <<DayFrame, Told(f.type)>> \o Rest
    /\ active' = None /\ handled' = FALSE
    /\ UNCHANGED <<proc, clock, link, scheduling, waiting, dispatched, recovered,
                   marker, preopen, signal, failed, starts>>

\* The save is refused; or the market was not seen to open, and the analysis
\* raises before there is anything to save: run() uses market_decision() above
\* the line that makes it a local name.  Nobody tells the monitor.
Fail ==
    /\ Top("collect")
    /\ failed' = failed \cup {Head(stack).type} /\ stack' = Rest
    /\ UNCHANGED <<proc, clock, link, scheduling, dispatching, disk, monitoring,
                   marker, preopen, signal, starts>>

Return ==
    /\ Top("told")
    /\ dispatched' = dispatched \cup {Head(stack).type} /\ stack' = Rest
    /\ UNCHANGED <<proc, clock, link, scheduling, waiting, completed, disk, monitoring,
                   marker, preopen, signal, failed, starts>>

Frames == PlanStep \/ PlanEnd \/ Recover \/ BeatEnd \/ Release \/ ReleaseEnd \/ Return
Ends == Finish \/ Fail
Timeouts == FireGrace \/ \E n \in Names : FireTimer(n)

Next ==
    \/ Advance \/ Launch \/ Kill \/ Shutdown \/ Exit
    \/ Frames \/ Ends
    \/ Timeouts \/ Beat
    \/ Connect \/ Drop \/ Opens \/ Sample

\* A call that has returned lets its caller go on, and the event loop serves
\* every event and timer that keeps being due, the answers that a briefing
\* waits for among them, although others are served between.  Each timer of
\* the day fires once, so fairness to all of them is fairness to each.
Fairness ==
    /\ WF_vars(Frames)
    /\ SF_vars(Ends)
    /\ SF_vars(Beat)
    /\ SF_vars(Timeouts)

Spec == Init /\ [][Next]_vars /\ Fairness

----------------------------------------------------------------------------
\* The domains of the state; what is dispatched is made or was found made, and
\* nothing waits twice.
DayTypeOK ==
    /\ proc \in {"down", "running", "closing"} /\ clock \in Periods
    /\ link \in BOOLEAN /\ grace \in BOOLEAN /\ marker \in BOOLEAN
    /\ timers \subseteq Names /\ executed \subseteq Names
    /\ waiting \in Seq(Types) /\ IsInjective(waiting)
    /\ dispatched \subseteq completed /\ completed \subseteq Types
    /\ disk \in [Types -> Contents]
    /\ active \in Types \cup {None} /\ handled \in BOOLEAN /\ recovered \subseteq Types
    /\ preopen \in [{"wanted", "started", "stopped", "sampling", "listening", "opened"} -> BOOLEAN]
    /\ signal \in BOOLEAN /\ failed \subseteq Types
    /\ starts \in 0 .. MaxStarts

\* A result that the pipeline takes for complete is never made again, whatever
\* of the catch-up, the recovery, a reconnect or a restart asks for it.
FinalKept == [][\A t \in Types : Valid(t) => disk'[t] = disk[t]]_vars

\* No briefing is on the stack twice, although the monitor takes a briefing
\* for ended when another one, nested in its waits, has ended, and the
\* recovery then asks for it.
NotTwiceAtOnce ==
    \A i, j \in 1 .. Len(stack) :
        /\ i # j /\ stack[i].job \in {"collect", "told"}
        /\ stack[j].job \in {"collect", "told"}
        => stack[i].type # stack[j].type

\* A pre-market briefing that begins before 09:05 has seen the market open,
\* also when it had to wait for the connection.
GraceKept ==
    [][PRE \notin Running /\ PRE \in Running' =>
       clock >= GraceEnd \/ preopen'.opened]_vars

\* Real-time data stays registered after the observation was ended only when
\* the observation never began: a reconnect does not register it again.
ListensForAReason ==
    preopen.listening /\ preopen.stopped => ~preopen.started

\* Each briefing whose grace is over is made or has failed in the end, whenever
\* the process was started, unless it ends or loses its connection.
EveryBriefingComes ==
    \A t \in Types :
        (proc = "running" /\ link /\ clock >= Deadline[t]) ~>
        (disk[t] # "none" \/ t \in failed \/ ~link)

\* Stated by pipeline.py:188 and relied on by unattended.py:25: a briefing that
\* finds the market closed is recorded as such.
ClosedDayRecorded ==
    [][Top("collect") /\ Head(stack).holiday /\ proc' = "running" /\ stack' = Rest
         => disk'[Head(stack).type] = "holiday"]_vars

\* Through catch-up, recovery, nesting and restarts no briefing is on the stack
\* twice and no observation outlives its end.
DayInv == DayTypeOK /\ NotTwiceAtOnce /\ ListensForAReason
=============================================================================
