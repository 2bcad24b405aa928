-------------------------- MODULE BriefingRuntime --------------------------
(***************************************************************************)
(* The daily process on its Qt thread: the connection manager, the adapter *)
(* and the runtime that ticks it, with the TR queue and the briefings as   *)
(* far as they act on one another.                                         *)
(*                                                                         *)
(* One thread runs everything, so what matters is what is on its stack.  A *)
(* briefing waits for each TR answer in a nested Qt loop, from which every *)
(* timer and event may be handled, a further briefing among them.  The     *)
(* runtime handles no tick while it is still inside one (_checking), and a *)
(* tick ends only when the briefings it has reported the state to end.     *)
(*                                                                         *)
(* Briefings are not told apart here (BriefingDispatcher does), nor are    *)
(* their TR requests (TrRequestQueue does): the oldest waiting frame, the  *)
(* lowest, holds the active request.                                       *)
(***************************************************************************)
EXTENDS ConnectionManager, SequencesExt, FiniteSetsExt

CONSTANTS
    Briefings,     \* how many briefings fall due in one run
    AsksEach,      \* TR requests of one briefing
    TimeoutLimit,  \* consecutive timeouts before the observer pauses the queue
    EventsInCall   \* whether the OCX may send OnEventConnect within CommConnect

ASSUME RuntimeAssumption ==
    /\ Briefings \in Nat
    /\ AsksEach \in Nat
    /\ TimeoutLimit \in Nat \ {0}
    /\ EventsInCall \in BOOLEAN

VARIABLES
    requests,   \* the adapter's _connect_request_count
    refused,    \* the call on the stack was refused by the adapter
    callBase,   \* frames on the stack below request_connect()
    checking,   \* QtConnectionRuntime._checking
    owes,       \* the handler that has yet to notify of the state
    stack,      \* briefing frames: where from, the rest of the snapshot, TR state
    toCome,     \* briefings whose timer has not fired
    waiting,    \* the dispatcher's _pending, counted
    paused,     \* the queue's _paused
    timeouts,   \* the queue's _consecutive_timeouts, up to TimeoutLimit
    stopping    \* the shutdown has been requested

tasks == <<stack, toCome, waiting, paused, timeouts, stopping>>
control == <<requests, refused, callBase, checking, owes>>
rvars == <<vars, tasks, control>>

Origins == {"start", "tick", "event", "timer"}
Frames == [origin : Origins, rest : Nat, tr : {"busy", "waiting", "answered"},
           left : 0 .. AsksEach]

RTypeOK ==
    /\ requests \in {0, 1}
    /\ refused \in BOOLEAN
    /\ callBase \in Nat
    /\ checking \in BOOLEAN
    /\ owes \in {"none", "start", "tick", "event"}
    /\ stack \in Seq(Frames)
    /\ toCome \in 0 .. Briefings
    /\ waiting \in 0 .. Briefings
    /\ paused \in BOOLEAN
    /\ timeouts \in 0 .. TimeoutLimit
    /\ stopping \in BOOLEAN

RInit ==
    /\ Init
    /\ requests = 0
    /\ refused = FALSE
    /\ callBase = 0
    /\ checking = FALSE
    /\ owes = "none"
    /\ stack = <<>>
    /\ toCome = Briefings
    /\ waiting = 0
    /\ paused = FALSE
    /\ timeouts = 0
    /\ stopping = FALSE

-----------------------------------------------------------------------------
(***************************************************************************)
(* The stack.                                                              *)
(***************************************************************************)

InCall == call # "none" /\ Len(stack) = callBase

\* A Qt loop runs: the main one, or the nested one of the frame on top.
LoopRuns ==
    /\ owes = "none"
    /\ ~InCall
    /\ stack # <<>> => Last(stack).tr = "waiting"

Computes(i) == i = Len(stack) /\ owes = "none" /\ ~InCall
Waiters == {i \in DOMAIN stack : stack[i].tr = "waiting"}

\* What is answered when the requests of the frames in I end.
Answered(I) == [i \in DOMAIN stack |->
                  IF i \in I THEN [stack[i] EXCEPT !.tr = "answered"] ELSE stack[i]]
Oldest(I) == IF I = {} THEN {} ELSE {Min(I)}

NewFrame(origin, rest) ==
    [origin |-> origin, rest |-> rest, tr |-> "busy", left |-> AsksEach]

-----------------------------------------------------------------------------
(***************************************************************************)
(* The runtime, the manager and the adapter.                               *)
(***************************************************************************)

\* The adapter's request_connect() as a step of the manager enters it: the
\* first call reaches the OCX and starts the confirmation monitor, every
\* other one raises.
RequestConnect ==
    IF call = "none" /\ call' = "asked"
    THEN /\ callBase' = Len(stack)
         /\ refused' = (requests >= 1)
         /\ requests' = IF requests >= 1 THEN requests ELSE requests + 1
         /\ confirming' = ~refused'
    ELSE UNCHANGED <<requests, refused, callBase>>

\* start(): the manager is started before the timer, and the state reported.
RuntimeStart ==
    /\ owes = "none" /\ stack = <<>> /\ ~stopping
    /\ Start
    /\ RequestConnect
    /\ owes' = IF call' = "asked" THEN "none" ELSE "start"
    /\ UNCHANGED <<checking, tasks>>

\* tick() has nothing to do.
Undue ==
    /\ state = "RECONNECT_WAIT" => waitIn # 0
    /\ state = "RECHECKING" => recheckIn # 0
    /\ state \in Attempting => loginIn # 0
    /\ state = "CONNECTED" => checkIn # 0

\* Mutant of HandleTimeout: a tick may interrupt a tick.
HandleTimeoutReentrant ==
    /\ LoopRuns /\ started /\ call = "none" /\ ~stopping
    /\ checking' = TRUE
    /\ Tick \/ (Undue /\ UNCHANGED vars)
    /\ RequestConnect
    /\ owes' = IF call' = "asked" THEN "none" ELSE "tick"
    /\ UNCHANGED tasks

\* _handle_timeout: a tick, and a report of the state whatever it has done.
HandleTimeout ==
    /\ LoopRuns /\ started /\ call = "none" /\ ~stopping
    /\ ~checking
    /\ checking' = TRUE
    /\ Tick \/ (Undue /\ UNCHANGED vars)
    /\ RequestConnect
    /\ owes' = IF call' = "asked" THEN "none" ELSE "tick"
    /\ UNCHANGED tasks

\* OnEventConnect, from a Qt loop or from within CommConnect.
HandleLoginEvent ==
    /\ \/ LoopRuns
       \/ EventsInCall /\ owes = "none" /\ InCall /\ ~refused
    /\ ~stopping
    /\ AnyLoginEvent
    /\ owes' = "event"
    /\ UNCHANGED <<requests, refused, callBase, checking, tasks>>

\* request_connect() returns or raises: a refused call only raises.
ConnectReturns ==
    /\ owes = "none" /\ InCall
    /\ \E accepted \in BOOLEAN : (refused => ~accepted) /\ CallReturns(accepted)
    /\ refused' = FALSE /\ callBase' = 0
    /\ owes' = IF checking THEN "tick" ELSE "start"
    /\ UNCHANGED <<requests, checking, tasks>>

Recovering == {"RECHECKING", "RECONNECT_WAIT", "RECONNECTING", "FAILED"}

\* Mutant of QueuePaused: the queue is never resumed.
NeverResumed == paused \/ (~stopping /\ state \in Recovering)

\* report_connection_state: resume() or pause() of the queue, until it closes.
QueuePaused ==
    IF stopping THEN paused
    ELSE state # "CONNECTED" /\ (paused \/ state \in Recovering)

\* _notify_state_change with report_connection_state: resume or pause the
\* queue, then run what is pending.  A tick with nothing to run is over.
Notify ==
    /\ owes # "none"
    /\ owes' = "none"
    /\ paused' = QueuePaused
    /\ LET told == IF paused' /\ ~paused
                   THEN Answered(Oldest(Waiters)) ELSE stack
       IN  IF state = "CONNECTED" /\ waiting > 0
           THEN /\ stack' = Append(told, NewFrame(owes, waiting - 1))
                /\ waiting' = 0
                /\ UNCHANGED checking
           ELSE /\ stack' = told
                /\ checking' = (checking /\ owes # "tick")
                /\ UNCHANGED waiting
    /\ UNCHANGED <<vars, requests, refused, callBase, toCome, timeouts, stopping>>

-----------------------------------------------------------------------------
(***************************************************************************)
(* The briefings and their TR requests.                                    *)
(***************************************************************************)

\* A briefing falls due: run_briefing and dispatch().
FallsDue ==
    /\ LoopRuns /\ started /\ ~stopping
    /\ toCome > 0
    /\ toCome' = toCome - 1
    /\ IF state = "CONNECTED"
       THEN stack' = Append(stack, NewFrame("timer", 0)) /\ UNCHANGED waiting
       ELSE waiting' = waiting + 1 /\ UNCHANGED stack
    /\ UNCHANGED <<vars, control, paused, timeouts, stopping>>

\* request(): the frame on top waits in its own loop; a closed queue raises.
Ask ==
    /\ stack # <<>> /\ Computes(Len(stack))
    /\ LET top == Last(stack) IN
       /\ top.tr = "busy" /\ top.left > 0
       /\ stack' = Append(Front(stack),
              [top EXCEPT !.tr = IF stopping THEN "busy" ELSE "waiting", !.left = @ - 1])
    /\ UNCHANGED <<vars, control, toCome, waiting, paused, timeouts, stopping>>

\* The loop of the frame on top has quit, and the briefing goes on.
Resumes ==
    /\ stack # <<>> /\ Computes(Len(stack))
    /\ Last(stack).tr = "answered"
    /\ stack' = Append(Front(stack), [Last(stack) EXCEPT !.tr = "busy"])
    /\ UNCHANGED <<vars, control, toCome, waiting, paused, timeouts, stopping>>

\* The briefing on top ends; the next of its snapshot follows, or its handler
\* returns.
Ends ==
    /\ stack # <<>> /\ Computes(Len(stack))
    /\ LET top == Last(stack) IN
       /\ top.tr = "busy"
       /\ IF top.rest > 0 /\ ~stopping
          THEN /\ stack' = Append(Front(stack), NewFrame(top.origin, top.rest - 1))
               /\ UNCHANGED checking
          ELSE /\ stack' = Front(stack)
               /\ checking' = (checking /\ top.origin # "tick")
    /\ UNCHANGED <<vars, requests, refused, callBase, owes, toCome, waiting,
                   paused, timeouts, stopping>>

\* The active request is answered, or refused by the OCX.
TrAnswered ==
    /\ LoopRuns /\ ~paused /\ Waiters # {}
    /\ stack' = Answered(Oldest(Waiters))
    /\ timeouts' \in {0, timeouts}
    /\ UNCHANGED <<vars, control, toCome, waiting, paused, stopping>>

\* Mutant of TrTimesOut: below the limit the caller is not told.
TimesOutUntold ==
    /\ LoopRuns /\ ~paused /\ Waiters # {}
    /\ timeouts' = IF timeouts < TimeoutLimit THEN timeouts + 1 ELSE timeouts
    /\ UNCHANGED <<vars, paused, stack, control, toCome, waiting, stopping>>

\* The active request times out.  At the limit observe_tr_timeout pauses the
\* queue, which fails the request started meanwhile, and asks the manager for
\* a recheck.
TrTimesOut ==
    /\ LoopRuns /\ ~paused /\ Waiters # {}
    /\ timeouts' = IF timeouts < TimeoutLimit THEN timeouts + 1 ELSE timeouts
    /\ IF timeouts' < TimeoutLimit
       THEN stack' = Answered(Oldest(Waiters)) /\ UNCHANGED <<vars, paused>>
       ELSE /\ paused' = TRUE
            /\ stack' = Answered(Oldest(Waiters) \cup Oldest(Waiters \ Oldest(Waiters)))
            /\ IF state = "CONNECTED" THEN RequestRecheck ELSE UNCHANGED vars
    /\ UNCHANGED <<control, toCome, waiting, stopping>>

\* RuntimeMonitor.beat: the watchdog suspects a briefing that takes long.
Watchdog ==
    /\ LoopRuns /\ stack # <<>> /\ ~stopping
    /\ RequestRecheck
    /\ UNCHANGED <<control, tasks>>

\* request_shutdown: the queue fails whoever waits, the dispatcher drops what
\* is pending, the runtime stops the manager and closes the adapter.
Shutdown ==
    /\ LoopRuns /\ ~stopping
    /\ stopping' = TRUE
    /\ stack' = Answered(Waiters)
    /\ waiting' = 0 /\ toCome' = 0
    /\ Stop
    /\ UNCHANGED <<control, paused, timeouts>>

-----------------------------------------------------------------------------
World ==
    /\ LinkChanges \/ ReadabilityChanges \/ TimePasses
    /\ UNCHANGED <<tasks, control>>

Briefing == Ask \/ Resumes \/ Ends
TrEnds == TrAnswered \/ TrTimesOut

RNext ==
    \/ RuntimeStart
    \/ HandleTimeout
    \/ HandleLoginEvent
    \/ ConnectReturns
    \/ Notify
    \/ FallsDue
    \/ Briefing
    \/ TrEnds
    \/ Watchdog
    \/ Shutdown
    \/ World

\* Time passes and every call, computation and handler ends.  A timer, of the
\* runtime or of a TR request, and the return from CommConnect are events that
\* computations and other events only put off: strong fairness, for they are
\* served when a loop runs again and again, if not always.  No answer of the
\* OCX is assumed.
RFairness ==
    /\ WF_rvars(TimePasses /\ UNCHANGED <<tasks, control>>)
    /\ WF_rvars(Notify)
    /\ WF_rvars(Briefing)
    /\ SF_rvars(ConnectReturns)
    /\ SF_rvars(TrTimesOut)
    /\ SF_rvars(HandleTimeout)

RSpec == RInit /\ [][RNext]_rvars /\ RFairness

-----------------------------------------------------------------------------
(***************************************************************************)
(* Properties.                                                             *)
(***************************************************************************)

\* However loops nest, at most one tick is on the stack, and _checking says
\* whether one is: it cannot stay set after a tick.
OneTickAtATime ==
    /\ Cardinality({i \in DOMAIN stack : stack[i].origin = "tick"}) <= 1
    /\ checking => \/ \E i \in DOMAIN stack : stack[i].origin = "tick"
                   \/ owes = "tick" \/ call # "none"

\* Whenever a Qt loop runs, the queue knows of a lost connection: no handler
\* leaves the manager waiting for a reconnect with the queue dispatching.
NotServedWhenDown ==
    LoopRuns /\ ~stopping /\ state \in {"RECONNECT_WAIT", "RECONNECTING", "FAILED"}
      => paused

\* A tick is on the stack below a briefing, which keeps all others away.
TickHeld ==
    \/ \E i \in DOMAIN stack : stack[i].origin = "tick"
    \/ checking /\ call # "none" /\ Len(stack) > callBase

\* A briefing waits forever in two situations only: its queue stays paused
\* because the manager has given up, or because the recheck or reconnect that
\* would resume it needs a tick, and a tick is below it on the stack.  (Login
\* events without end could re-arm the reconnect wait each time.)
WaitEndsUnlessHeld ==
    <>[](Waiters # {}) /\ <>[][~HandleLoginEvent]_rvars =>
        <>[](paused /\ (state = "FAILED" \/ TickHeld))

\* The queue does not stay paused on a connection that stays confirmed.
ResumedWhenConnected ==
    <>[](state = "CONNECTED" /\ ~TickHeld) => <>[]~paused

\* The shutdown gets every briefing off the stack, however deep it is nested.
ShutdownUnwinds == stopping ~> stack = <<>>

\* The manager, the queue and the timer stay in step, although each of them is
\* entered from loops that nest inside the others.
LoopsInOrder == RTypeOK /\ OneTickAtATime /\ NotServedWhenDown

\* A pause ends with its cause, and the shutdown ends everything.
RuntimeSettles == ResumedWhenConnected /\ ShutdownUnwinds
=============================================================================
