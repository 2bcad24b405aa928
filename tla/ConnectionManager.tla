------------------------- MODULE ConnectionManager -------------------------
(***************************************************************************)
(* KiwoomConnectionManager: the recoverable connection state machine.      *)
(*                                                                         *)
(* Every method is one action and runs to completion on the Qt thread,     *)
(* with one exception.  request_connect() enters the OCX, which may        *)
(* deliver OnEventConnect before it returns, and the event's listeners may *)
(* run briefings in nested Qt loops.  So the call has a beginning          *)
(* (IssueInitialRequest, AttemptReconnect) and an end (CallReturns), and   *)
(* events, recheck requests and stop() may fall in between.                *)
(*                                                                         *)
(* A deadline is the time left until it: Off when the code holds None, and *)
(* 0 when the clock has reached it.                                        *)
(***************************************************************************)
EXTENDS Integers, Sequences

CONSTANTS
    MaxAttempts,    \* max_reconnect_attempts
    Backoff,        \* reconnect_backoff_seconds
    RecheckDelays,  \* recheck_delays_seconds, a pair
    LoginTimeout,   \* login_timeout_seconds
    CheckInterval   \* check_interval_seconds

ASSUME ConfigAssumption ==
    /\ MaxAttempts \in Nat \ {0}
    /\ Backoff \in Seq(Nat) /\ Len(Backoff) > 0
    /\ RecheckDelays \in Nat \X Nat
    /\ LoginTimeout \in Nat \ {0}
    /\ CheckInterval \in Nat

VARIABLES
    state,         \* _state
    started,       \* _started
    attempts,      \* _reconnect_attempts
    inFlight,      \* _request_in_flight
    askedOnce,     \* _login_request_attempted
    waitIn,        \* time left until _reconnect_due_at
    loginIn,       \* time left until _login_deadline
    recheckIn,     \* time left until _recheck_due_at
    recheckIndex,  \* _recheck_index
    checkIn,       \* time left until the next periodic check (_last_check_at)
    \* the other side of the KiwoomConnection boundary
    linked,        \* whether the OCX is logged in to the server
    readable,      \* whether GetConnectState answers with a valid state
    confirming,    \* whether the confirmation monitor of a request runs
    call,          \* request_connect() on the stack
    \* history
    asks           \* requests since the last confirmed connection

recovery == <<state, attempts, inFlight, waitIn, loginIn, recheckIn>>
world == <<linked, readable>>
vars == <<recovery, started, askedOnce, recheckIndex, checkIn, world,
          confirming, call, asks>>

States == {"DISCONNECTED", "CONNECTING", "CONNECTED", "RECHECKING",
           "RECONNECT_WAIT", "RECONNECTING", "FAILED", "STOPPED"}
Attempting == {"CONNECTING", "RECONNECTING"}
Off == -1
TimeLeft == Nat \cup {Off}

TypeOK ==
    /\ state \in States
    /\ started \in BOOLEAN
    /\ attempts \in Nat
    /\ inFlight \in BOOLEAN
    /\ askedOnce \in BOOLEAN
    /\ waitIn \in TimeLeft
    /\ loginIn \in TimeLeft
    /\ recheckIn \in TimeLeft
    /\ recheckIndex \in Nat
    /\ checkIn \in TimeLeft
    /\ linked \in BOOLEAN
    /\ readable \in BOOLEAN
    /\ confirming \in BOOLEAN
    /\ call \in {"none", "asked", "answered"}
    /\ asks \in Nat

Init ==
    /\ state = "DISCONNECTED"
    /\ started = FALSE
    /\ attempts = 0
    /\ inFlight = FALSE
    /\ askedOnce = FALSE
    /\ waitIn = Off
    /\ loginIn = Off
    /\ recheckIn = Off
    /\ recheckIndex = 0
    /\ checkIn = Off
    /\ linked \in BOOLEAN
    /\ readable \in BOOLEAN
    /\ confirming = FALSE
    /\ call = "none"
    /\ asks = 0

-----------------------------------------------------------------------------
(***************************************************************************)
(* Helpers: what the private methods do to the recovery state.             *)
(***************************************************************************)

\* What get_connect_state() lets the manager conclude.
ReadsConnected == readable /\ linked
ReadsDisconnected == readable /\ ~linked

\* _fail: give up, with nothing left armed.
Fail ==
    /\ state' = "FAILED"
    /\ inFlight' = FALSE
    /\ waitIn' = Off
    /\ loginIn' = Off
    /\ recheckIn' = Off
    /\ confirming' = FALSE
    /\ UNCHANGED <<attempts, asks>>

\* _mark_connected, but for _last_check_at: a confirmed connection ends the
\* outage.
MarkConnected ==
    /\ state' = "CONNECTED"
    /\ attempts' = 0
    /\ inFlight' = FALSE
    /\ waitIn' = Off
    /\ loginIn' = Off
    /\ recheckIn' = Off
    /\ confirming' = FALSE
    /\ asks' = 0

BackoffAfter(n) ==
    Backoff[(IF n < Len(Backoff) THEN n ELSE Len(Backoff) - 1) + 1]

\* Mutant of ScheduleReconnect: gives up one attempt early.
ScheduleOneFewer ==
    IF attempts + 1 >= MaxAttempts
    THEN Fail
    ELSE /\ state' = "RECONNECT_WAIT"
         /\ inFlight' = FALSE
         /\ waitIn' = BackoffAfter(attempts)
         /\ loginIn' = Off
         /\ recheckIn' = Off
         /\ confirming' = FALSE
         /\ UNCHANGED <<attempts, asks>>

\* _schedule_reconnect: wait before the next attempt, or give up.
ScheduleReconnect ==
    IF attempts >= MaxAttempts
    THEN Fail
    ELSE /\ state' = "RECONNECT_WAIT"
         /\ inFlight' = FALSE
         /\ waitIn' = BackoffAfter(attempts)
         /\ loginIn' = Off
         /\ recheckIn' = Off
         /\ confirming' = FALSE
         /\ UNCHANGED <<attempts, asks>>

\* A request that enters the OCX.  confirming' is left to the connection: it
\* may refuse the request before it starts to watch for the dialog.
BeginRequest ==
    /\ inFlight' = TRUE
    /\ loginIn' = LoginTimeout
    /\ call' = "asked"
    /\ confirming' \in BOOLEAN
    /\ asks' = asks + 1

\* Mutant of BeginRecheck: the recheck is never scheduled.
BeginRecheckUnscheduled ==
    /\ state' = "RECHECKING"
    /\ recheckIndex' = 0
    /\ UNCHANGED recheckIn

\* _begin_recheck, without the fields a login event has cleared before it.
BeginRecheck ==
    /\ state' = "RECHECKING"
    /\ recheckIndex' = 0
    /\ recheckIn' = RecheckDelays[1]

-----------------------------------------------------------------------------
(***************************************************************************)
(* The methods.                                                            *)
(***************************************************************************)

\* _issue_initial_request.
IssueInitialRequest ==
    /\ ReadsDisconnected
    /\ ~inFlight /\ ~askedOnce
    /\ state' = "CONNECTING"
    /\ askedOnce' = TRUE
    /\ BeginRequest
    /\ UNCHANGED <<attempts, waitIn, recheckIn>>

\* start(): the runtime calls it once.
Start ==
    /\ ~started /\ state = "DISCONNECTED"
    /\ started' = TRUE
    /\ checkIn' = CheckInterval
    /\ \/ IssueInitialRequest
       \/ ReadsConnected /\ MarkConnected /\ UNCHANGED <<askedOnce, call>>
       \/ ~readable /\ Fail /\ UNCHANGED <<askedOnce, call>>
    /\ UNCHANGED <<recheckIndex, world>>

\* tick() in RECONNECT_WAIT: _attempt_reconnect.
AttemptReconnect ==
    /\ state = "RECONNECT_WAIT" /\ waitIn = 0
    /\ ~inFlight
    /\ IF attempts >= MaxAttempts
       THEN Fail /\ UNCHANGED call
       ELSE /\ state' = "RECONNECTING"
            /\ attempts' = attempts + 1
            /\ BeginRequest
            /\ UNCHANGED <<waitIn, recheckIn>>
    /\ UNCHANGED <<recheckIndex, checkIn>>

\* tick() in RECHECKING: _perform_recheck.
PerformRecheck ==
    /\ state = "RECHECKING" /\ recheckIn = 0
    /\ UNCHANGED call
    /\ \/ ReadsDisconnected /\ ScheduleReconnect /\ UNCHANGED <<recheckIndex, checkIn>>
       \/ ~readable /\ Fail /\ UNCHANGED <<recheckIndex, checkIn>>
       \/ /\ ReadsConnected
          /\ recheckIndex' = recheckIndex + 1
          /\ IF recheckIndex' < Len(RecheckDelays)
             THEN /\ recheckIn' =
                       LET gap == RecheckDelays[2] - RecheckDelays[1]
                       IN  IF gap > 0 THEN gap ELSE 0
                  /\ UNCHANGED <<state, attempts, inFlight, waitIn, loginIn,
                                 checkIn, confirming, asks>>
             ELSE MarkConnected /\ checkIn' = CheckInterval

\* Mutant of LoginTimesOut: only a reconnect has a deadline.
OnlyReconnectTimesOut ==
    /\ state = "RECONNECTING" /\ loginIn = 0
    /\ ScheduleReconnect
    /\ UNCHANGED <<recheckIndex, checkIn, call>>

\* tick() in CONNECTING or RECONNECTING: no OnEventConnect within the timeout.
LoginTimesOut ==
    /\ state \in Attempting /\ loginIn = 0
    /\ ScheduleReconnect
    /\ UNCHANGED <<recheckIndex, checkIn, call>>

\* tick() in CONNECTED: the periodic check.
PeriodicCheck ==
    /\ state = "CONNECTED" /\ checkIn = 0
    /\ checkIn' = CheckInterval
    /\ \/ ReadsConnected /\ UNCHANGED <<recovery, confirming, asks>>
       \/ ReadsDisconnected /\ ScheduleReconnect
       \/ ~readable /\ Fail
    /\ UNCHANGED <<recheckIndex, call>>

\* tick(): the runtime's timer calls it, never while request_connect() is on
\* the stack (the timer is not started yet, or _checking is set).
Tick ==
    /\ started /\ call = "none"
    /\ AttemptReconnect \/ PerformRecheck \/ LoginTimesOut \/ PeriodicCheck
    /\ UNCHANGED <<started, askedOnce, world>>

\* Mutant of LoginEvent: a successful event is believed without a read.
LoginEventBelieved(code) ==
    /\ started /\ state \notin {"STOPPED", "FAILED"} /\ code = "ok"
    /\ call' = IF call = "none" THEN "none" ELSE "answered"
    /\ MarkConnected /\ checkIn' = CheckInterval
    /\ UNCHANGED <<started, askedOnce, recheckIndex, world>>

\* Mutant of LoginEvent: a negative event reconnects at once, not debounced.
LoginEventUndebounced(code) ==
    /\ started /\ state \notin {"STOPPED", "FAILED"} /\ code = "error"
    /\ call' = IF call = "none" THEN "none" ELSE "answered"
    /\ ScheduleReconnect
    /\ UNCHANGED <<started, askedOnce, recheckIndex, checkIn, world>>

\* handle_login_event(error_code).  The adapter stops the confirmation monitor
\* before it tells the listeners.
LoginEvent(code) ==
    /\ started /\ state \notin {"STOPPED", "FAILED"}
    /\ call' = IF call = "none" THEN "none" ELSE "answered"
    /\ UNCHANGED <<started, askedOnce, world>>
    /\ \/ ~readable /\ Fail /\ UNCHANGED <<recheckIndex, checkIn>>
       \/ ReadsDisconnected /\ ScheduleReconnect /\ UNCHANGED <<recheckIndex, checkIn>>
       \/ /\ ReadsConnected /\ code = "ok"
          /\ MarkConnected
          /\ checkIn' = CheckInterval
          /\ UNCHANGED recheckIndex
       \/ /\ ReadsConnected /\ code = "error"
          /\ inFlight' = FALSE /\ loginIn' = Off /\ confirming' = FALSE
          /\ IF state = "RECHECKING"
             THEN UNCHANGED <<state, recheckIn, recheckIndex>>
             ELSE BeginRecheck
          /\ UNCHANGED <<attempts, waitIn, checkIn, asks>>

\* request_connection_recheck(): asked for by the TR timeout observer and the
\* runtime watchdog.
RequestRecheck ==
    /\ started /\ state = "CONNECTED" /\ call # "asked"
    /\ BeginRecheck
    /\ UNCHANGED <<started, attempts, inFlight, waitIn, loginIn, askedOnce,
                   checkIn, world, confirming, call, asks>>

\* stop(): through SHUTTING_DOWN to STOPPED in one call.
Stop ==
    /\ state # "STOPPED" /\ call # "asked"
    /\ state' = "STOPPED"
    /\ started' = FALSE
    /\ inFlight' = FALSE
    /\ waitIn' = Off
    /\ loginIn' = Off
    /\ recheckIn' = Off
    /\ confirming' = FALSE
    /\ UNCHANGED <<attempts, askedOnce, recheckIndex, checkIn, world, call, asks>>

\* request_connect() returns to _call_request_connect, which looks at the
\* result only, never at what events have done to the state meanwhile.
CallReturns(accepted) ==
    /\ call # "none"
    /\ call' = "none"
    /\ IF accepted THEN UNCHANGED <<recovery, confirming, asks>>
                   ELSE ScheduleReconnect
    /\ UNCHANGED <<started, askedOnce, recheckIndex, checkIn, world>>

-----------------------------------------------------------------------------
(***************************************************************************)
(* The environment.                                                        *)
(***************************************************************************)

LinkChanges ==
    /\ linked' = ~linked
    /\ UNCHANGED <<recovery, started, askedOnce, recheckIndex, checkIn,
                   readable, confirming, call, asks>>

ReadabilityChanges ==
    /\ readable' = ~readable
    /\ UNCHANGED <<recovery, started, askedOnce, recheckIndex, checkIn,
                   linked, confirming, call, asks>>

Elapse(t) == IF t > 0 THEN t - 1 ELSE t

TimePasses ==
    /\ waitIn' = Elapse(waitIn)
    /\ loginIn' = Elapse(loginIn)
    /\ recheckIn' = Elapse(recheckIn)
    /\ checkIn' = Elapse(checkIn)
    /\ UNCHANGED <<state, attempts, inFlight, started, askedOnce, recheckIndex,
                   world, confirming, call, asks>>

AnyLoginEvent == \E code \in {"ok", "error"} : LoginEvent(code)
AnyReturn == \E accepted \in BOOLEAN : CallReturns(accepted)

Next ==
    \/ Start
    \/ Tick
    \/ AnyLoginEvent
    \/ RequestRecheck
    \/ Stop
    \/ AnyReturn
    \/ LinkChanges
    \/ ReadabilityChanges
    \/ TimePasses

\* The clock runs, the runtime's 1 s QTimer ticks, and a call into the OCX
\* comes back.  Nothing is assumed of the server or of its events.
Fairness ==
    /\ WF_vars(TimePasses)
    /\ WF_vars(Tick)
    /\ WF_vars(AnyReturn)

Spec == Init /\ [][Next]_vars
FairSpec == Spec /\ Fairness

-----------------------------------------------------------------------------
(***************************************************************************)
(* Properties.                                                             *)
(***************************************************************************)

\* A started manager that has not given up always has the one timer armed that
\* its state waits for, and a request is in flight exactly while it logs in:
\* no sequence of events, rejections and timeouts strands it.
WakeupArmed ==
    /\ inFlight => state \in Attempting
    /\ state \in Attempting => inFlight
    /\ started =>
        /\ state # "DISCONNECTED"
        /\ state = "CONNECTED" => checkIn # Off
        /\ state = "RECHECKING" => recheckIn # Off
        /\ state = "RECONNECT_WAIT" => waitIn # Off
        /\ state \in Attempting => loginIn # Off

\* DECISIONS D-009, no endless reconnecting: between two confirmed connections
\* the server is asked at most max_reconnect_attempts times after the first.
AsksBounded == attempts <= MaxAttempts /\ asks <= MaxAttempts + 1

\* The thread that clicks the login confirmation away runs only while a login
\* is awaited: an event, a failure, a timeout or stop() ends it.
ConfirmsOnlyWhileAttempting == confirming => state \in Attempting

\* DECISIONS D-008: CONNECTED is entered only on a read that says so, however
\* many events claim success.
ConnectedIsConfirmed ==
    [][state' = "CONNECTED" /\ state # "CONNECTED" => ReadsConnected]_vars

\* A negative event alone never ends a connection: it is left for good only
\* when a read says disconnected or fails.  This says nothing of the time in which
\* a request_connect() is on the stack: an event inside the call may have
\* connected the manager, and the return value may then reject the request.
LiveLinkKept ==
    [][/\ state \in {"CONNECTED", "RECHECKING"}
       /\ state' \notin {"CONNECTED", "RECHECKING", "STOPPED"}
       => ~ReadsConnected \/ call # "none"]_vars

\* FAILED is for an unreadable state or a spent budget, never for less.
GivesUpOnlyWhenSpent ==
    [][state' = "FAILED" /\ state # "FAILED"
       => ~readable \/ attempts = MaxAttempts]_vars

Unsettled ==
    started /\ state \in {"CONNECTING", "RECHECKING", "RECONNECT_WAIT", "RECONNECTING"}

\* Once the server stops sending login events, every outage ends: confirmed
\* connected, given up, or stopped.  (Each negative event re-arms the wait.)
OutageSettles == <>[][~AnyLoginEvent]_vars => (Unsettled ~> ~Unsettled)

\* A link that is down and stays down does not leave the manager CONNECTED.
DropDetected ==
    (state = "CONNECTED" /\ ~linked) ~> (linked \/ state # "CONNECTED")

\* However events, rejections, timeouts and stop() follow one another, the
\* manager is never stranded, never asks the server too often and never leaves
\* the clicking thread behind.
ManagerInv == TypeOK /\ WakeupArmed /\ AsksBounded /\ ConfirmsOnlyWhileAttempting

\* No outage is missed and none lasts: a link that stays down is noticed, and
\* what begins then comes to an end once the server is silent.
OutagesEnd == OutageSettles /\ DropDetected
=============================================================================
