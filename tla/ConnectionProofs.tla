-------------------------- MODULE ConnectionProofs --------------------------
(***************************************************************************)
(* The connection manager by itself, for any retry limits and delays, and  *)
(* the Qt runtime that drives it, for any number of briefings, requests    *)
(* and attempts: its nested loops stay in order, and it uses the manager   *)
(* as the manager expects, so that what is proved of the manager holds in  *)
(* the runtime.                                                            *)
(*                                                                         *)
(* OneTickAtATime is kept by _checking, which says where the tick is: in   *)
(* request_connect(), about to report, or below a briefing (Ticking).  The *)
(* queue is told of a lost connection by whoever saw it lost, before a     *)
(* loop runs again (Told).                                                 *)
(***************************************************************************)
EXTENDS BriefingRuntime, FiniteSets, FiniteSetTheorems, SequenceTheorems, TLAPS

Safe ==
    /\ TypeOK
    /\ WakeupArmed
    /\ AsksBounded
    /\ ConfirmsOnlyWhileAttempting
    /\ asks <= attempts + 1
    /\ state = "DISCONNECTED" => asks = 0 /\ attempts = 0

\* The delay _schedule_reconnect computes is one of the configured backoffs,
\* whatever the number of attempts.
LEMMA BackoffType == \A n \in Nat : BackoffAfter(n) \in Nat
<1> SUFFICES ASSUME NEW n \in Nat PROVE BackoffAfter(n) \in Nat
  OBVIOUS
<1> DEFINE i == (IF n < Len(Backoff) THEN n ELSE Len(Backoff) - 1) + 1
<1>1. Len(Backoff) \in Nat \ {0} /\ Backoff \in Seq(Nat)
  BY ConfigAssumption
<1>2. i \in 1 .. Len(Backoff)
  BY <1>1
<1>3. Backoff[i] \in Nat
  BY <1>1, <1>2
<1> QED BY <1>3 DEF BackoffAfter

\* A running timer keeps running when time passes, down to zero.
LEMMA ElapseType == \A t \in TimeLeft : Elapse(t) \in TimeLeft /\ (t # Off => Elapse(t) # Off)
  BY DEF Elapse, TimeLeft, Off

\* The two recheck delays are natural numbers.
LEMMA RecheckDelayType ==
    /\ RecheckDelays[1] \in Nat /\ RecheckDelays[2] \in Nat
    /\ Len(RecheckDelays) = 2
  BY ConfigAssumption

\* The first state satisfies the invariant.
LEMMA InitSafe == Init => Safe
<1> SUFFICES ASSUME Init PROVE Safe
  OBVIOUS
<1> USE ConfigAssumption DEF Init
<1>1. TypeOK
  BY DEF TypeOK, States, TimeLeft, Off
<1>2. WakeupArmed
  BY DEF WakeupArmed, Attempting
<1>3. AsksBounded
  BY DEF AsksBounded
<1>4. ConfirmsOnlyWhileAttempting
  BY DEF ConfirmsOnlyWhileAttempting
<1>5. asks <= attempts + 1
  OBVIOUS
<1> QED BY <1>1, <1>2, <1>3, <1>4, <1>5 DEF Safe

\* No action of the manager or of the world breaks it.
LEMMA StepSafe == Safe /\ [Next]_vars => Safe'
<1> SUFFICES ASSUME Safe, [Next]_vars PROVE Safe'
  OBVIOUS
<1> USE ConfigAssumption
<1> USE DEF Safe, TypeOK, WakeupArmed, AsksBounded, ConfirmsOnlyWhileAttempting,
            States, Attempting, TimeLeft, Off, world, recovery
<1>b. BackoffAfter(attempts) \in Nat
  BY BackoffType
<1> DEFINE Rest == /\ started' \in BOOLEAN /\ askedOnce' \in BOOLEAN
                   /\ recheckIndex' \in Nat /\ checkIn' \in TimeLeft
                   /\ linked' \in BOOLEAN /\ readable' \in BOOLEAN
                   /\ call' \in {"none", "asked", "answered"}
<1>f. ASSUME Fail, Rest PROVE Safe'
  BY <1>f DEF Fail
<1>c. ASSUME MarkConnected, Rest, checkIn' # Off PROVE Safe'
  <2>1. TypeOK'
    BY <1>c DEF MarkConnected
  <2>2. WakeupArmed'
    BY <1>c DEF MarkConnected
  <2> QED BY <1>c, <2>1, <2>2 DEF MarkConnected
<1>w. ASSUME ScheduleReconnect, Rest PROVE Safe'
  <2>1. CASE attempts >= MaxAttempts
    BY <1>w, <1>f, <2>1 DEF ScheduleReconnect
  <2>2. CASE ~(attempts >= MaxAttempts)
    <3>1. /\ state' = "RECONNECT_WAIT" /\ waitIn' \in Nat
          /\ ~inFlight' /\ inFlight' \in BOOLEAN
          /\ ~confirming' /\ confirming' \in BOOLEAN
          /\ loginIn' = Off /\ recheckIn' = Off
          /\ attempts' = attempts /\ asks' = asks
      BY <1>w, <1>b, <2>2 DEF ScheduleReconnect
    <3> QED BY <1>w, <3>1
  <2> QED BY <2>1, <2>2
<1>1. CASE Start
  <2>1. CASE IssueInitialRequest
    BY <1>1, <2>1 DEF Start, IssueInitialRequest, BeginRequest
  <2>2. CASE ReadsConnected /\ MarkConnected /\ UNCHANGED <<askedOnce, call>>
    BY <1>1, <2>2, <1>c DEF Start
  <2>3. CASE ~readable /\ Fail /\ UNCHANGED <<askedOnce, call>>
    BY <1>1, <2>3, <1>f DEF Start
  <2> QED BY <1>1, <2>1, <2>2, <2>3 DEF Start
<1>2. CASE Tick
  <2> USE <1>2 DEF Tick
  <2>1. CASE AttemptReconnect
    <3>1. CASE attempts >= MaxAttempts
      BY <2>1, <3>1, <1>f DEF AttemptReconnect
    <3>2. CASE ~(attempts >= MaxAttempts)
      BY <2>1, <3>2 DEF AttemptReconnect, BeginRequest
    <3> QED BY <3>1, <3>2
  <2>2. CASE PerformRecheck
    <3>1. CASE ReadsDisconnected /\ ScheduleReconnect /\ UNCHANGED <<recheckIndex, checkIn>>
      BY <2>2, <3>1, <1>w DEF PerformRecheck
    <3>2. CASE ~readable /\ Fail /\ UNCHANGED <<recheckIndex, checkIn>>
      BY <2>2, <3>2, <1>f DEF PerformRecheck
    <3>3. CASE ReadsConnected
      <4>1. recheckIndex' = recheckIndex + 1 /\ recheckIndex' \in Nat
        BY <2>2, <3>3 DEF PerformRecheck, ReadsConnected, ReadsDisconnected
      <4>2. CASE recheckIndex' < Len(RecheckDelays)
        <5>1. recheckIn' \in Nat
          BY <2>2, <3>3, <4>2, RecheckDelayType
          DEF PerformRecheck, ReadsConnected, ReadsDisconnected
        <5>2. UNCHANGED <<state, attempts, inFlight, waitIn, loginIn, checkIn,
                          confirming, asks, call>>
          BY <2>2, <3>3, <4>2 DEF PerformRecheck, ReadsConnected, ReadsDisconnected
        <5> QED BY <4>1, <5>1, <5>2
      <4>3. CASE ~(recheckIndex' < Len(RecheckDelays))
        BY <2>2, <3>3, <4>1, <4>3, <1>c
        DEF PerformRecheck, ReadsConnected, ReadsDisconnected
      <4> QED BY <4>2, <4>3
    <3> QED BY <2>2, <3>1, <3>2, <3>3 DEF PerformRecheck
  <2>3. CASE LoginTimesOut
    BY <2>3, <1>w DEF LoginTimesOut
  <2>4. CASE PeriodicCheck
    <3>1. CASE ReadsConnected /\ UNCHANGED <<recovery, confirming, asks>>
      BY <2>4, <3>1 DEF PeriodicCheck
    <3>2. CASE ReadsDisconnected /\ ScheduleReconnect
      BY <2>4, <3>2, <1>w DEF PeriodicCheck
    <3>3. CASE ~readable /\ Fail
      BY <2>4, <3>3, <1>f DEF PeriodicCheck
    <3> QED BY <2>4, <3>1, <3>2, <3>3 DEF PeriodicCheck
  <2> QED BY <2>1, <2>2, <2>3, <2>4
<1>3. CASE AnyLoginEvent
  <2>1. PICK code \in {"ok", "error"} : LoginEvent(code)
    BY <1>3 DEF AnyLoginEvent
  <2>0. call' \in {"none", "asked", "answered"}
    BY <2>1 DEF LoginEvent
  <2>2. CASE ~readable /\ Fail /\ UNCHANGED <<recheckIndex, checkIn>>
    BY <2>0, <2>1, <2>2, <1>f DEF LoginEvent
  <2>3. CASE ReadsDisconnected /\ ScheduleReconnect /\ UNCHANGED <<recheckIndex, checkIn>>
    BY <2>0, <2>1, <2>3, <1>w DEF LoginEvent
  <2>4. CASE MarkConnected /\ checkIn' = CheckInterval /\ UNCHANGED recheckIndex
    BY <2>0, <2>1, <2>4, <1>c DEF LoginEvent
  <2>5. CASE /\ inFlight' = FALSE /\ loginIn' = Off /\ confirming' = FALSE
             /\ IF state = "RECHECKING"
                THEN UNCHANGED <<state, recheckIn, recheckIndex>>
                ELSE BeginRecheck
             /\ UNCHANGED <<attempts, waitIn, checkIn, asks>>
    <3>1. CASE state = "RECHECKING"
      BY <2>0, <2>1, <2>5, <3>1 DEF LoginEvent
    <3>2. CASE state # "RECHECKING"
      <4>1. /\ state' = "RECHECKING" /\ recheckIn' \in Nat /\ recheckIndex' = 0
            /\ ~inFlight' /\ inFlight' \in BOOLEAN
            /\ ~confirming' /\ confirming' \in BOOLEAN
            /\ loginIn' = Off /\ UNCHANGED <<attempts, waitIn, checkIn, asks>>
        BY <2>5, <3>2, RecheckDelayType DEF BeginRecheck
      <4>2. UNCHANGED <<started, askedOnce, linked, readable>>
        BY <2>1 DEF LoginEvent
      <4> QED BY <2>0, <4>1, <4>2
    <3> QED BY <3>1, <3>2
  <2> QED BY <2>1, <2>2, <2>3, <2>4, <2>5 DEF LoginEvent
<1>4. CASE RequestRecheck
  BY <1>4, RecheckDelayType DEF RequestRecheck, BeginRecheck
<1>5. CASE Stop
  BY <1>5 DEF Stop
<1>6. CASE AnyReturn
  <2>1. PICK accepted \in BOOLEAN : CallReturns(accepted)
    BY <1>6 DEF AnyReturn
  <2>2. CASE accepted
    BY <2>1, <2>2 DEF CallReturns
  <2>3. CASE ~accepted
    BY <2>1, <2>3, <1>w DEF CallReturns
  <2> QED BY <2>2, <2>3
<1>7. CASE LinkChanges
  BY <1>7 DEF LinkChanges
<1>8. CASE ReadabilityChanges
  BY <1>8 DEF ReadabilityChanges
<1>9. CASE TimePasses
  BY <1>9, ElapseType DEF TimePasses
<1>10. CASE UNCHANGED vars
  BY <1>10 DEF vars
<1> QED
  BY <1>1, <1>2, <1>3, <1>4, <1>5, <1>6, <1>7, <1>8, <1>9, <1>10 DEF Next

\* In every configuration the manager's state is well typed, the timer its state
\* waits for is armed, the reconnect budget holds and the confirmation thread
\* runs only while a login is awaited.
THEOREM Safety == Spec => []ManagerInv
<1>1. Safe => ManagerInv
  BY DEF Safe, ManagerInv
<1> QED BY <1>1, InitSafe, StepSafe, PTL DEF Spec

\* So it holds in every state.
LEMMA InvariantSafe == Spec => []Safe
  BY InitSafe, StepSafe, PTL DEF Spec

\* FAILED is entered only on an unreadable connection state or with the
\* reconnect budget spent, in every configuration.
THEOREM GiveUp == Spec => GivesUpOnlyWhenSpent
<1> DEFINE Justified ==
      state' = "FAILED" /\ state # "FAILED" => ~readable \/ attempts = MaxAttempts
<1>1. Safe /\ [Next]_vars => [Justified]_vars
  <2> SUFFICES ASSUME Safe, Next, state' = "FAILED", state # "FAILED", readable
               PROVE  attempts = MaxAttempts
    OBVIOUS
  <2>s. attempts \in Nat /\ MaxAttempts \in Nat /\ attempts <= MaxAttempts
    BY ConfigAssumption DEF Safe, TypeOK, AsksBounded
  <2>w. ScheduleReconnect => attempts = MaxAttempts
    BY <2>s DEF ScheduleReconnect
  <2>1. ~Start
    BY DEF Start, IssueInitialRequest, MarkConnected
  <2>2. Tick => attempts = MaxAttempts
    <3>1. AttemptReconnect => attempts = MaxAttempts
      BY <2>s DEF AttemptReconnect
    <3>2. PerformRecheck => attempts = MaxAttempts
      BY <2>w DEF PerformRecheck, MarkConnected
    <3>3. LoginTimesOut => attempts = MaxAttempts
      BY <2>w DEF LoginTimesOut
    <3>4. PeriodicCheck => attempts = MaxAttempts
      BY <2>w DEF PeriodicCheck, recovery
    <3> QED BY <3>1, <3>2, <3>3, <3>4 DEF Tick
  <2>3. AnyLoginEvent => attempts = MaxAttempts
    BY <2>w DEF AnyLoginEvent, LoginEvent, MarkConnected, BeginRecheck
  <2>4. ~RequestRecheck /\ ~Stop
    BY DEF RequestRecheck, BeginRecheck, Stop
  <2>5. AnyReturn => attempts = MaxAttempts
    BY <2>w DEF AnyReturn, CallReturns, recovery
  <2>6. ~LinkChanges /\ ~ReadabilityChanges /\ ~TimePasses
    BY DEF LinkChanges, ReadabilityChanges, TimePasses, recovery
  <2> QED BY <2>1, <2>2, <2>3, <2>4, <2>5, <2>6 DEF Next
<1> QED BY <1>1, InvariantSafe, PTL DEF Spec, GivesUpOnlyWhenSpent

\* CONNECTED is entered only on a read that says so, in every configuration.
THEOREM Confirmed == Spec => ConnectedIsConfirmed
<1> DEFINE Justified == state' = "CONNECTED" /\ state # "CONNECTED" => ReadsConnected
<1>1. [Next]_vars => [Justified]_vars
  <2> SUFFICES ASSUME Next, state' = "CONNECTED", state # "CONNECTED"
               PROVE  ReadsConnected
    OBVIOUS
  <2>f. ~Fail /\ ~ScheduleReconnect
    BY DEF Fail, ScheduleReconnect
  <2>1. Start => ReadsConnected
    BY <2>f DEF Start, IssueInitialRequest
  <2>2. Tick => ReadsConnected
    <3>1. ~AttemptReconnect
      BY <2>f DEF AttemptReconnect
    <3>2. PerformRecheck => ReadsConnected
      BY <2>f DEF PerformRecheck
    <3>3. ~LoginTimesOut
      BY <2>f DEF LoginTimesOut
    <3>4. ~PeriodicCheck
      BY DEF PeriodicCheck
    <3> QED BY <3>1, <3>2, <3>3, <3>4 DEF Tick
  <2>3. AnyLoginEvent => ReadsConnected
    BY <2>f DEF AnyLoginEvent, LoginEvent
  <2>4. ~RequestRecheck /\ ~Stop
    BY DEF RequestRecheck, BeginRecheck, Stop
  <2>5. ~AnyReturn
    BY <2>f DEF AnyReturn, CallReturns, recovery
  <2>6. ~LinkChanges /\ ~ReadabilityChanges /\ ~TimePasses
    BY DEF LinkChanges, ReadabilityChanges, TimePasses, recovery
  <2> QED BY <2>1, <2>2, <2>3, <2>4, <2>5, <2>6 DEF Next
<1> QED BY <1>1, PTL DEF Spec, ConnectedIsConfirmed

\* A connection that reads as live is left only by stop(), or by the rejection
\* of the request whose event came first, in every configuration.
THEOREM LinkKept == Spec => LiveLinkKept
<1> DEFINE Left ==
      /\ state \in {"CONNECTED", "RECHECKING"}
      /\ state' \notin {"CONNECTED", "RECHECKING", "STOPPED"}
<1> DEFINE Justified == Left => ~ReadsConnected \/ call # "none"
<1>1. [Next]_vars => [Justified]_vars
  <2> SUFFICES ASSUME Next, Left, readable, linked
               PROVE  call # "none"
    BY DEF ReadsConnected
  <2>1. ~Start
    BY DEF Start
  <2>2. ~Tick
    <3>1. ~AttemptReconnect /\ ~LoginTimesOut
      BY DEF AttemptReconnect, LoginTimesOut, Attempting
    <3>2. ~PerformRecheck
      BY DEF PerformRecheck, ReadsConnected, ReadsDisconnected, MarkConnected
    <3>3. ~PeriodicCheck
      BY DEF PeriodicCheck, ReadsConnected, ReadsDisconnected, recovery
    <3> QED BY <3>1, <3>2, <3>3 DEF Tick
  <2>3. ~AnyLoginEvent
    BY DEF AnyLoginEvent, LoginEvent, ReadsConnected, ReadsDisconnected,
           MarkConnected, BeginRecheck
  <2>4. ~RequestRecheck /\ ~Stop
    BY DEF RequestRecheck, BeginRecheck, Stop
  <2>5. AnyReturn => call # "none"
    BY DEF AnyReturn, CallReturns
  <2>6. ~LinkChanges /\ ~ReadabilityChanges /\ ~TimePasses
    BY DEF LinkChanges, ReadabilityChanges, TimePasses, recovery
  <2> QED BY <2>1, <2>2, <2>3, <2>4, <2>5, <2>6 DEF Next
<1> QED BY <1>1, PTL DEF Spec, LiveLinkKept

-----------------------------------------------------------------------------
HasTick(frames) == \E i \in DOMAIN frames : frames[i].origin = "tick"
OneTick(frames) ==
    \A i, j \in DOMAIN frames :
        frames[i].origin = "tick" /\ frames[j].origin = "tick" => i = j

Down == {"RECONNECT_WAIT", "RECONNECTING", "FAILED"}

Ticking ==
    /\ OneTick(stack)
    /\ HasTick(stack) => checking /\ call = "none" /\ owes # "tick"
    /\ owes = "tick" => checking /\ call = "none"
    /\ checking => HasTick(stack) \/ owes = "tick" \/ call # "none"

Expected == waiting + toCome <= Briefings

Told ==
    /\ state = "DISCONNECTED" => call = "none"
    /\ owes = "none" /\ ~InCall /\ ~stopping /\ state \in Down => paused

RInv == RTypeOK /\ Ticking /\ Expected /\ Told

-----------------------------------------------------------------------------
\* A stack that is not empty is what is below its top, and the top.
LEMMA TopFrame ==
    ASSUME NEW frames \in Seq(Frames), frames # <<>>
    PROVE  /\ Front(frames) \in Seq(Frames) /\ Last(frames) \in Frames
           /\ frames = Append(Front(frames), Last(frames))
<1>1. Len(frames) \in Nat /\ Len(frames) > 0
  OBVIOUS
<1>2. PICK n \in Nat : n + 1 = Len(frames)
  BY <1>1
<1>3. Front(frames) = SubSeq(frames, 1, n) /\ Last(frames) = frames[n + 1]
  BY <1>2 DEF Front, Last
<1>4. /\ Front(frames) \in Seq(Frames) /\ Len(Front(frames)) = n
      /\ \A i \in 1 .. n : Front(frames)[i] = frames[i]
  BY <1>2, <1>3
<1>5. Last(frames) \in Frames
  BY <1>2, <1>3
<1>6. frames = Append(Front(frames), Last(frames))
  BY <1>2, <1>3, <1>4, <1>5
<1> QED
  BY <1>4, <1>5, <1>6

\* What a further frame says of ticks.
LEMMA PushedFrame ==
    ASSUME NEW frames \in Seq(Frames), NEW f \in Frames
    PROVE  /\ Append(frames, f) \in Seq(Frames)
           /\ HasTick(Append(frames, f)) <=> (HasTick(frames) \/ f.origin = "tick")
           /\ OneTick(Append(frames, f)) <=>
                OneTick(frames) /\ ~(HasTick(frames) /\ f.origin = "tick")
<1>1. PICK n \in Nat : n = Len(frames)
  OBVIOUS
<1> DEFINE more == Append(frames, f)
<1>2. /\ more \in Seq(Frames) /\ DOMAIN frames = 1 .. n /\ DOMAIN more = 1 .. n + 1
      /\ \A i \in 1 .. n : more[i] = frames[i]
      /\ more[n + 1] = f
  BY <1>1
<1>3. \A i \in 1 .. n + 1 : i \in 1 .. n \/ i = n + 1
  BY <1>1
<1>4. n + 1 \notin 1 .. n /\ 1 .. n \subseteq 1 .. n + 1 /\ n + 1 \in 1 .. n + 1
  BY <1>1
<1> HIDE DEF more
<1>5. HasTick(more) <=> (HasTick(frames) \/ f.origin = "tick")
  BY <1>2, <1>3, <1>4 DEF HasTick
<1>6. OneTick(more) <=> OneTick(frames) /\ ~(HasTick(frames) /\ f.origin = "tick")
  BY <1>2, <1>3, <1>4 DEF HasTick, OneTick
<1> QED
  BY <1>2, <1>5, <1>6 DEF more

\* Another frame in the place of the top one.
LEMMA ReplacedFrame ==
    ASSUME NEW frames \in Seq(Frames), frames # <<>>, NEW f \in Frames,
           f.origin = Last(frames).origin
    PROVE  /\ Append(Front(frames), f) \in Seq(Frames)
           /\ HasTick(Append(Front(frames), f)) <=> HasTick(frames)
           /\ OneTick(Append(Front(frames), f)) <=> OneTick(frames)
<1> DEFINE below == Front(frames)   top == Last(frames)
<1>1. below \in Seq(Frames) /\ top \in Frames /\ frames = Append(below, top)
  BY TopFrame
<1> HIDE DEF below, top
<1>2. /\ HasTick(frames) <=> (HasTick(below) \/ top.origin = "tick")
      /\ OneTick(frames) <=> OneTick(below) /\ ~(HasTick(below) /\ top.origin = "tick")
  BY <1>1, PushedFrame
<1>3. /\ Append(below, f) \in Seq(Frames)
      /\ HasTick(Append(below, f)) <=> (HasTick(below) \/ f.origin = "tick")
      /\ OneTick(Append(below, f)) <=> OneTick(below) /\ ~(HasTick(below) /\ f.origin = "tick")
  BY <1>1, PushedFrame
<1>4. f.origin = top.origin
  BY DEF top
<1> QED
  BY <1>2, <1>3, <1>4 DEF below

\* Answers reach the frames where they are.
LEMMA AnsweredFrames ==
    ASSUME stack \in Seq(Frames), NEW I
    PROVE  /\ Answered(I) \in Seq(Frames) /\ Len(Answered(I)) = Len(stack)
           /\ HasTick(Answered(I)) <=> HasTick(stack)
           /\ OneTick(Answered(I)) <=> OneTick(stack)
<1>1. PICK n \in Nat : n = Len(stack)
  OBVIOUS
<1> DEFINE told == Answered(I)
<1>2. DOMAIN stack = 1 .. n /\ \A i \in 1 .. n : stack[i] \in Frames
  BY <1>1
<1>3. DOMAIN told = 1 .. n
      /\ \A i \in 1 .. n : told[i] = IF i \in I THEN [stack[i] EXCEPT !.tr = "answered"] ELSE stack[i]
  BY <1>2 DEF Answered
<1>4. ASSUME NEW i \in 1 .. n
      PROVE  told[i] \in Frames /\ told[i].origin = stack[i].origin
  BY <1>2, <1>3 DEF Frames
<1>5. told = [i \in 1 .. n |-> told[i]]
  BY <1>2, <1>3 DEF Answered
<1> HIDE DEF told
<1>6. told \in Seq(Frames) /\ Len(told) = n
  BY <1>3, <1>4, <1>5
<1>7. HasTick(told) <=> HasTick(stack)
  BY <1>2, <1>3, <1>4 DEF HasTick
<1>8. OneTick(told) <=> OneTick(stack)
  BY <1>2, <1>3, <1>4 DEF OneTick
<1> QED
  BY <1>1, <1>6, <1>7, <1>8 DEF told

\* A frame that a report or a timer pushes.
LEMMA NewFrameType ==
    ASSUME NEW origin \in Origins, NEW rest \in Nat
    PROVE  NewFrame(origin, rest) \in Frames /\ NewFrame(origin, rest).origin = origin
  BY RuntimeAssumption DEF NewFrame, Frames

-----------------------------------------------------------------------------
\* What the manager's methods may do to its state and to request_connect().
LEMMA StartMoves ==
    ASSUME Start
    PROVE  state = "DISCONNECTED" /\ state' # "DISCONNECTED" /\ (call' = "asked" \/ call' = call)
  BY DEF Start, IssueInitialRequest, BeginRequest, MarkConnected, Fail

\* A tick runs only while no request_connect() is on the stack.
LEMMA TickMoves ==
    ASSUME Tick
    PROVE  call = "none" /\ state' # "DISCONNECTED" /\ (call' = "asked" \/ call' = call)
<1>0. ScheduleReconnect => state' # "DISCONNECTED"
  BY DEF ScheduleReconnect, Fail
<1>1. CASE AttemptReconnect
  BY <1>1 DEF Tick, AttemptReconnect, BeginRequest, Fail
<1>2. CASE PerformRecheck
  BY <1>0, <1>2 DEF Tick, PerformRecheck, MarkConnected, Fail
<1>3. CASE LoginTimesOut
  BY <1>0, <1>3 DEF Tick, LoginTimesOut
<1>4. CASE PeriodicCheck
  BY <1>0, <1>4 DEF Tick, PeriodicCheck, Fail, recovery
<1> QED
  BY <1>1, <1>2, <1>3, <1>4 DEF Tick

\* A login event neither begins nor ends a request_connect().
LEMMA LoginMoves ==
    ASSUME AnyLoginEvent
    PROVE  state' # "DISCONNECTED" /\ (call' = "none" <=> call = "none")
<1>0. ScheduleReconnect => state' # "DISCONNECTED"
  BY DEF ScheduleReconnect, Fail
<1>1. PICK code \in {"ok", "error"} : LoginEvent(code)
  BY DEF AnyLoginEvent
<1> QED
  BY <1>0, <1>1 DEF LoginEvent, Fail, MarkConnected, BeginRecheck

\* request_connect() returns once.
LEMMA ReturnMoves ==
    ASSUME NEW accepted \in BOOLEAN, CallReturns(accepted)
    PROVE  call # "none" /\ call' = "none"
  BY DEF CallReturns

\* A recheck asked for waits.
LEMMA RecheckMoves ==
    ASSUME RequestRecheck PROVE state' = "RECHECKING" /\ call' = call
  BY DEF RequestRecheck, BeginRecheck

\* stop() leaves a request_connect() on the stack.
LEMMA StopMoves ==
    ASSUME Stop PROVE state' = "STOPPED" /\ call' = call
  BY DEF Stop

\* The world outside moves neither the state nor the stack.
LEMMA WorldMoves ==
    ASSUME LinkChanges \/ ReadabilityChanges \/ TimePasses
    PROVE  state' = state /\ call' = call
  BY DEF LinkChanges, ReadabilityChanges, TimePasses, recovery

\* The adapter's counter and what it remembers of the call.
LEMMA RequestConnectType ==
    ASSUME RTypeOK, RequestConnect
    PROVE  /\ requests' \in {0, 1} /\ refused' \in BOOLEAN /\ callBase' \in Nat
           /\ call = "none" /\ call' = "asked" => callBase' = Len(stack)
<1>1. requests \in {0, 1} /\ refused \in BOOLEAN /\ callBase \in Nat /\ Len(stack) \in Nat
  BY DEF RTypeOK
<1>2. CASE call = "none" /\ call' = "asked"
  BY <1>1, <1>2 DEF RequestConnect
<1>3. CASE ~(call = "none" /\ call' = "asked")
  BY <1>1, <1>3 DEF RequestConnect
<1> QED
  BY <1>2, <1>3

-----------------------------------------------------------------------------
\* The process begins with an empty stack.
LEMMA InitRInv == RInit => RInv
<1> SUFFICES ASSUME RInit PROVE RInv
  OBVIOUS
<1>1. stack = <<>> /\ stack \in Seq(Frames)
  BY DEF RInit
<1>2. RTypeOK
  <2>1. Briefings \in 0 .. Briefings /\ 0 \in 0 .. Briefings /\ 0 \in 0 .. TimeoutLimit
    BY RuntimeAssumption
  <2>2. refused \in BOOLEAN /\ checking \in BOOLEAN /\ paused \in BOOLEAN /\ stopping \in BOOLEAN
    BY DEF RInit
  <2> QED
    BY <1>1, <2>1, <2>2 DEF RInit, RTypeOK
<1>3. Ticking
  BY <1>1 DEF RInit, Ticking, HasTick, OneTick
<1>4. Expected
  BY RuntimeAssumption DEF RInit, Expected
<1>5. Told
  BY DEF RInit, Init, Told, Down
<1> QED
  BY <1>2, <1>3, <1>4, <1>5 DEF RInv

\* start() finds no tick, and may leave the first request on the stack.
LEMMA RuntimeStartRInv == ASSUME RInv, RuntimeStart PROVE RInv'
<1> USE DEF RuntimeStart
<1>1. state = "DISCONNECTED" /\ state' # "DISCONNECTED" /\ (call' = "asked" \/ call' = call)
  BY StartMoves
<1>2. call = "none"
  BY <1>1 DEF RInv, Told
<1>3. /\ requests' \in {0, 1} /\ refused' \in BOOLEAN /\ callBase' \in Nat
      /\ call = "none" /\ call' = "asked" => callBase' = Len(stack)
  BY RequestConnectType DEF RInv
<1>4. /\ UNCHANGED <<stack, toCome, waiting, paused, timeouts, stopping, checking>>
      /\ owes' = IF call' = "asked" THEN "none" ELSE "start"
      /\ stack = <<>> /\ owes = "none"
  BY DEF tasks
<1>5. RTypeOK'
  BY <1>3, <1>4 DEF RInv, RTypeOK
<1>6. Ticking'
  <2>1. ~HasTick(stack)
    BY <1>4 DEF HasTick
  <2>2. ~checking
    BY <1>2, <1>4, <2>1 DEF RInv, Ticking
  <2> QED
    BY <1>4, <2>1, <2>2 DEF RInv, Ticking
<1>7. Expected'
  BY <1>4 DEF RInv, Expected
<1>8. Told'
  BY <1>1, <1>2, <1>3, <1>4 DEF Told, InCall
<1> QED
  BY <1>5, <1>6, <1>7, <1>8 DEF RInv

\* A tick begins only when _checking is clear, so it is the only one.
LEMMA HandleTimeoutRInv == ASSUME RInv, HandleTimeout PROVE RInv'
<1> USE DEF HandleTimeout
<1>1. /\ state' = "DISCONNECTED" => state = "DISCONNECTED" /\ call' = call
      /\ call' = "asked" \/ call' = call
  <2>1. CASE Tick
    BY <2>1, TickMoves
  <2>2. CASE UNCHANGED vars
    BY <2>2 DEF vars, recovery
  <2> QED
    BY <2>1, <2>2
<1>2. call = "none" /\ ~checking /\ checking' = TRUE /\ owes = "none"
  BY DEF LoopRuns
<1>3. /\ requests' \in {0, 1} /\ refused' \in BOOLEAN /\ callBase' \in Nat
      /\ call = "none" /\ call' = "asked" => callBase' = Len(stack)
  BY RequestConnectType DEF RInv
<1>4. /\ UNCHANGED <<stack, toCome, waiting, paused, timeouts, stopping>>
      /\ owes' = IF call' = "asked" THEN "none" ELSE "tick"
  BY DEF tasks
<1>5. RTypeOK'
  BY <1>2, <1>3, <1>4 DEF RInv, RTypeOK
<1>6. Ticking'
  BY <1>1, <1>2, <1>4 DEF RInv, Ticking
<1>7. Expected'
  BY <1>4 DEF RInv, Expected
<1>8. Told'
  BY <1>1, <1>2, <1>3, <1>4 DEF RInv, Told, InCall
<1> QED
  BY <1>5, <1>6, <1>7, <1>8 DEF RInv

\* A login event may come inside any loop; it owes a report of its own.
LEMMA HandleLoginEventRInv == ASSUME RInv, HandleLoginEvent PROVE RInv'
<1> USE DEF HandleLoginEvent
<1>1. state' # "DISCONNECTED" /\ (call' = "none" <=> call = "none")
  BY LoginMoves
<1>2. /\ UNCHANGED <<stack, toCome, waiting, paused, timeouts, stopping,
                     requests, refused, callBase, checking>>
      /\ owes = "none" /\ owes' = "event"
  BY DEF tasks, LoopRuns
<1>3. RTypeOK'
  BY <1>2 DEF RInv, RTypeOK
<1>4. Ticking'
  BY <1>1, <1>2 DEF RInv, Ticking
<1>5. Expected'
  BY <1>2 DEF RInv, Expected
<1>6. Told'
  BY <1>1, <1>2 DEF Told
<1> QED
  BY <1>3, <1>4, <1>5, <1>6 DEF RInv

\* The tick, or start(), that called request_connect() goes on where it was.
LEMMA ConnectReturnsRInv == ASSUME RInv, ConnectReturns PROVE RInv'
<1> USE DEF ConnectReturns
<1>1. call # "none" /\ call' = "none"
  BY ReturnMoves
<1>2. /\ UNCHANGED <<stack, toCome, waiting, paused, timeouts, stopping, requests, checking>>
      /\ refused' = FALSE /\ callBase' = 0
      /\ owes = "none" /\ owes' = IF checking THEN "tick" ELSE "start"
  BY DEF tasks
<1>3. RTypeOK'
  <2>1. owes' \in {"none", "start", "tick", "event"} /\ callBase' \in Nat
    BY <1>2
  <2>2. refused' \in BOOLEAN
    BY <1>2
  <2> QED
    BY <1>2, <2>1, <2>2 DEF RInv, RTypeOK
<1>4. Ticking'
  BY <1>1, <1>2 DEF RInv, Ticking
<1>5. Expected'
  BY <1>2 DEF RInv, Expected
<1>6. Told'
  BY <1>1, <1>2 DEF Told
<1> QED
  BY <1>3, <1>4, <1>5, <1>6 DEF RInv

\* The report pauses or resumes the queue, and runs what is pending.
LEMMA NotifyRInv == ASSUME RInv, Notify PROVE RInv'
<1> DEFINE told == IF paused' /\ ~paused THEN Answered(Oldest(Waiters)) ELSE stack
<1>1. /\ owes # "none" /\ owes' = "none" /\ paused' = QueuePaused
      /\ IF state = "CONNECTED" /\ waiting > 0
         THEN /\ stack' = Append(told, NewFrame(owes, waiting - 1))
              /\ waiting' = 0
              /\ UNCHANGED checking
         ELSE /\ stack' = told
              /\ checking' = (checking /\ owes # "tick")
              /\ UNCHANGED waiting
  BY DEF Notify
<1>2. /\ UNCHANGED <<requests, refused, callBase, toCome, timeouts, stopping>>
      /\ UNCHANGED <<state, call>>
  BY DEF Notify, vars, recovery
<1>3. /\ stack \in Seq(Frames) /\ waiting \in 0 .. Briefings /\ toCome \in 0 .. Briefings
      /\ owes \in {"none", "start", "tick", "event"} /\ Briefings \in Nat
      /\ checking \in BOOLEAN /\ paused \in BOOLEAN /\ stopping \in BOOLEAN
  BY RuntimeAssumption DEF RInv, RTypeOK
<1>4. /\ told \in Seq(Frames)
      /\ HasTick(told) <=> HasTick(stack)
      /\ OneTick(told) <=> OneTick(stack)
  BY <1>3, AnsweredFrames
<1> HIDE DEF told
<1>5. paused' \in BOOLEAN /\ (~stopping /\ state \in Down => paused')
  <2>1. ~stopping /\ state \in Down => QueuePaused
    BY DEF QueuePaused, Down, Recovering
  <2>2. QueuePaused \in BOOLEAN
    BY <1>3 DEF QueuePaused
  <2> QED
    BY <1>1, <2>1, <2>2
<1>6. /\ OneTick(stack)
      /\ HasTick(stack) => checking /\ call = "none" /\ owes # "tick"
      /\ owes = "tick" => checking /\ call = "none"
      /\ checking => HasTick(stack) \/ owes = "tick" \/ call # "none"
  BY DEF RInv, Ticking
<1>7. Told'
  BY <1>1, <1>2, <1>5 DEF RInv, Told
<1>8. CASE state = "CONNECTED" /\ waiting > 0
  <2> DEFINE f == NewFrame(owes, waiting - 1)
  <2>1. stack' = Append(told, f) /\ waiting' = 0 /\ checking' = checking
    BY <1>1, <1>8
  <2>2. f \in Frames /\ f.origin = owes
    <3>1. owes \in Origins /\ waiting - 1 \in Nat
      BY <1>1, <1>3, <1>8 DEF Origins
    <3> QED
      BY <3>1, NewFrameType
  <2> HIDE DEF f
  <2>3. /\ stack' \in Seq(Frames)
        /\ HasTick(stack') <=> (HasTick(stack) \/ owes = "tick")
        /\ OneTick(stack') <=> OneTick(stack) /\ ~(HasTick(stack) /\ owes = "tick")
    BY <1>4, <2>1, <2>2, PushedFrame
  <2>4. RTypeOK'
    BY <1>1, <1>2, <1>3, <1>5, <2>1, <2>3 DEF RInv, RTypeOK
  <2>5. Ticking'
    BY <1>1, <1>2, <1>6, <2>1, <2>3 DEF Ticking
  <2>6. Expected'
    BY <1>2, <1>3, <2>1 DEF Expected
  <2> QED
    BY <1>7, <2>4, <2>5, <2>6 DEF RInv
<1>9. CASE ~(state = "CONNECTED" /\ waiting > 0)
  <2>1. stack' = told /\ checking' = (checking /\ owes # "tick") /\ waiting' = waiting
    BY <1>1, <1>9
  <2>2. RTypeOK'
    BY <1>1, <1>2, <1>3, <1>4, <1>5, <2>1 DEF RInv, RTypeOK
  <2>3. Ticking'
    BY <1>1, <1>2, <1>4, <1>6, <2>1 DEF Ticking
  <2>4. Expected'
    BY <1>2, <2>1 DEF RInv, Expected
  <2> QED
    BY <1>7, <2>2, <2>3, <2>4 DEF RInv
<1> QED
  BY <1>8, <1>9

-----------------------------------------------------------------------------
\* A briefing that falls due waits, or pushes a frame that is no tick.
LEMMA FallsDueRInv == ASSUME RInv, FallsDue PROVE RInv'
<1>1. /\ UNCHANGED <<state, call, requests, refused, callBase, checking, owes,
                     paused, timeouts, stopping>>
      /\ toCome > 0 /\ toCome' = toCome - 1
  BY DEF FallsDue, vars, recovery, control
<1>2. /\ stack \in Seq(Frames) /\ waiting \in 0 .. Briefings /\ toCome \in 0 .. Briefings
      /\ Briefings \in Nat /\ waiting + toCome <= Briefings
  BY RuntimeAssumption DEF RInv, RTypeOK, Expected
<1>3. owes = "none" /\ ~InCall
  BY DEF FallsDue, LoopRuns
<1>4. \/ stack' = Append(stack, NewFrame("timer", 0)) /\ waiting' = waiting
      \/ waiting' = waiting + 1 /\ stack' = stack
  BY DEF FallsDue
<1>5. /\ stack' \in Seq(Frames)
      /\ HasTick(stack') <=> HasTick(stack)
      /\ OneTick(stack') <=> OneTick(stack)
  <2> DEFINE f == NewFrame("timer", 0)
  <2>1. f \in Frames /\ f.origin = "timer"
    BY NewFrameType DEF Origins
  <2> HIDE DEF f
  <2>2. CASE stack' = Append(stack, f)
    BY <1>2, <2>1, <2>2, PushedFrame
  <2>3. CASE stack' = stack
    BY <1>2, <2>3
  <2> QED
    BY <1>4, <2>2, <2>3 DEF f
<1>6. waiting' \in 0 .. Briefings /\ toCome' \in 0 .. Briefings /\ waiting' + toCome' <= Briefings
  BY <1>1, <1>2, <1>4
<1>7. RTypeOK'
  BY <1>1, <1>5, <1>6 DEF RInv, RTypeOK
<1>8. Ticking'
  BY <1>1, <1>5 DEF RInv, Ticking
<1>9. Told'
  BY <1>1, <1>3 DEF RInv, Told
<1> QED
  BY <1>6, <1>7, <1>8, <1>9 DEF RInv, Expected

\* A step that leaves the ticks where they are and the queue no less paused.
LEMMA QuietRInv ==
    ASSUME RInv, owes = "none", ~InCall,
           UNCHANGED <<state, call, requests, refused, callBase, checking, owes,
                       toCome, waiting, stopping>>,
           stack' \in Seq(Frames), HasTick(stack') <=> HasTick(stack),
           OneTick(stack') <=> OneTick(stack),
           paused' \in BOOLEAN, paused => paused', timeouts' \in 0 .. TimeoutLimit
    PROVE  RInv'
<1>1. RTypeOK'
  BY DEF RInv, RTypeOK
<1>2. Ticking'
  BY DEF RInv, Ticking
<1>3. Expected'
  BY DEF RInv, Expected
<1>4. Told'
  BY DEF RInv, Told
<1> QED
  BY <1>1, <1>2, <1>3, <1>4 DEF RInv

\* The frame on top asks, and goes on.
LEMMA AskRInv == ASSUME RInv, Ask \/ Resumes PROVE RInv'
<1>1. /\ UNCHANGED <<state, call, requests, refused, callBase, checking, owes,
                     toCome, waiting, stopping, paused, timeouts>>
      /\ owes = "none" /\ ~InCall /\ stack # <<>>
  BY DEF Ask, Resumes, Computes, vars, recovery, control
<1>2. stack \in Seq(Frames) /\ paused \in BOOLEAN /\ timeouts \in 0 .. TimeoutLimit
  BY DEF RInv, RTypeOK
<1>3. Last(stack) \in Frames /\ AsksEach \in Nat
  BY <1>1, <1>2, TopFrame, RuntimeAssumption
<1>4. \E f \in Frames : f.origin = Last(stack).origin /\ stack' = Append(Front(stack), f)
  <2> DEFINE top == Last(stack)
  <2>1. CASE Ask
    <3> DEFINE g == [top EXCEPT !.tr = IF stopping THEN "busy" ELSE "waiting", !.left = @ - 1]
    <3>1. stack' = Append(Front(stack), g) /\ top.left > 0
      BY <2>1 DEF Ask
    <3>2. g \in Frames /\ g.origin = top.origin
      <4>1. top \in Frames
        BY <1>3
      <4> HIDE DEF top
      <4>2. top.left \in 0 .. AsksEach /\ top.left > 0
        BY <3>1, <4>1 DEF Frames, top
      <4>3. top.left - 1 \in 0 .. AsksEach
        BY <1>3, <4>2
      <4> QED
        BY <4>1, <4>3 DEF Frames
    <3> QED
      BY <3>1, <3>2
  <2>2. CASE Resumes
    <3> DEFINE g == [top EXCEPT !.tr = "busy"]
    <3>1. stack' = Append(Front(stack), g)
      BY <2>2 DEF Resumes
    <3>2. g \in Frames /\ g.origin = top.origin
      <4>1. top \in Frames
        BY <1>3
      <4> HIDE DEF top
      <4> QED
        BY <4>1 DEF Frames
    <3> QED
      BY <3>1, <3>2
  <2> QED
    BY <2>1, <2>2
<1>5. /\ stack' \in Seq(Frames)
      /\ HasTick(stack') <=> HasTick(stack)
      /\ OneTick(stack') <=> OneTick(stack)
  BY <1>1, <1>2, <1>4, ReplacedFrame
<1> QED
  BY <1>1, <1>2, <1>5, QuietRInv

\* The briefing on top ends.
LEMMA EndsRInv == ASSUME RInv, Ends PROVE RInv'
<1> DEFINE top == Last(stack)   below == Front(stack)
<1>1. /\ UNCHANGED <<state, call, requests, refused, callBase, owes,
                     toCome, waiting, stopping, paused, timeouts>>
      /\ owes = "none" /\ ~InCall /\ stack # <<>>
      /\ IF top.rest > 0 /\ ~stopping
         THEN /\ stack' = Append(below, NewFrame(top.origin, top.rest - 1))
              /\ UNCHANGED checking
         ELSE /\ stack' = below
              /\ checking' = (checking /\ top.origin # "tick")
  BY DEF Ends, Computes, vars, recovery
<1>2. stack \in Seq(Frames) /\ paused \in BOOLEAN /\ timeouts \in 0 .. TimeoutLimit
  BY DEF RInv, RTypeOK
<1>3. top \in Frames /\ below \in Seq(Frames) /\ stack = Append(below, top)
  BY <1>1, <1>2, TopFrame
<1>4. CASE top.rest > 0 /\ ~stopping
  <2>1. top.origin \in Origins /\ top.rest - 1 \in Nat
    <3>1. top.origin \in Origins /\ top.rest \in Nat
      BY <1>3 DEF Frames
    <3> QED
      BY <1>4, <3>1
  <2> DEFINE f == NewFrame(top.origin, top.rest - 1)
  <2>2. f \in Frames /\ f.origin = top.origin
    BY <2>1, NewFrameType
  <2>3. stack' = Append(below, f) /\ checking' = checking
    BY <1>1, <1>4
  <2> HIDE DEF f
  <2>4. /\ stack' \in Seq(Frames)
        /\ HasTick(stack') <=> HasTick(stack)
        /\ OneTick(stack') <=> OneTick(stack)
    BY <1>1, <1>2, <2>2, <2>3, ReplacedFrame
  <2> QED
    BY <1>1, <1>2, <2>3, <2>4, QuietRInv
<1>5. CASE ~(top.rest > 0 /\ ~stopping)
  <2>1. stack' = below /\ checking' = (checking /\ top.origin # "tick")
    BY <1>1, <1>5
  <2> HIDE DEF top, below
  <2>2. /\ HasTick(stack) <=> (HasTick(below) \/ top.origin = "tick")
        /\ OneTick(stack) <=> OneTick(below) /\ ~(HasTick(below) /\ top.origin = "tick")
    BY <1>3, PushedFrame
  <2>3. RTypeOK'
    BY <1>1, <1>3, <2>1 DEF RInv, RTypeOK
  <2>4. Ticking'
    BY <1>1, <2>1, <2>2 DEF RInv, Ticking
  <2>5. Expected'
    BY <1>1 DEF RInv, Expected
  <2>6. Told'
    BY <1>1 DEF RInv, Told
  <2> QED
    BY <2>3, <2>4, <2>5, <2>6 DEF RInv
<1> QED
  BY <1>4, <1>5

\* A request is answered, or times out.
LEMMA TrEndsRInv == ASSUME RInv, TrEnds PROVE RInv'
<1>1. /\ UNCHANGED <<requests, refused, callBase, checking, owes, toCome, waiting, stopping>>
      /\ owes = "none" /\ ~InCall
  BY DEF TrEnds, TrAnswered, TrTimesOut, LoopRuns, control
<1>2. stack \in Seq(Frames) /\ paused \in BOOLEAN /\ timeouts \in 0 .. TimeoutLimit
      /\ TimeoutLimit \in Nat
  BY RuntimeAssumption DEF RInv, RTypeOK
<1>3. /\ stack' \in Seq(Frames)
      /\ HasTick(stack') <=> HasTick(stack)
      /\ OneTick(stack') <=> OneTick(stack)
  <2>1. \E I : stack' = Answered(I)
    BY DEF TrEnds, TrAnswered, TrTimesOut
  <2> QED
    BY <1>2, <2>1, AnsweredFrames
<1>4. timeouts' \in 0 .. TimeoutLimit
  <2>1. timeouts' \in {0, timeouts, timeouts + 1} /\ (timeouts' = timeouts + 1 => timeouts < TimeoutLimit)
    BY <1>2 DEF TrEnds, TrAnswered, TrTimesOut
  <2> QED
    BY <1>2, <2>1
<1>5. CASE UNCHANGED vars /\ (paused' = paused \/ paused' = TRUE)
  <2>1. UNCHANGED <<state, call>> /\ paused' \in BOOLEAN /\ (paused => paused')
    BY <1>2, <1>5 DEF vars, recovery
  <2> QED
    BY <1>1, <1>3, <1>4, <2>1, QuietRInv
<1>6. CASE RequestRecheck /\ paused' = TRUE
  <2>1. state' = "RECHECKING" /\ call' = call
    BY <1>6, RecheckMoves
  <2>2. RTypeOK'
    BY <1>1, <1>3, <1>4, <1>6 DEF RInv, RTypeOK
  <2>3. Ticking'
    BY <1>1, <1>3, <2>1 DEF RInv, Ticking
  <2>4. Expected'
    BY <1>1 DEF RInv, Expected
  <2>5. Told'
    BY <1>6, <2>1 DEF Told
  <2> QED
    BY <2>2, <2>3, <2>4, <2>5 DEF RInv
<1> QED
  <2>1. CASE TrAnswered
    <3>1. UNCHANGED vars /\ paused' = paused
      BY <2>1 DEF TrAnswered
    <3> QED
      BY <1>5, <3>1
  <2>2. CASE TrTimesOut
    <3>1. CASE timeouts' < TimeoutLimit
      <4>1. UNCHANGED vars /\ paused' = paused
        BY <2>2, <3>1 DEF TrTimesOut
      <4> QED
        BY <1>5, <4>1
    <3>2. CASE ~(timeouts' < TimeoutLimit)
      <4>1. paused' = TRUE /\ (RequestRecheck \/ UNCHANGED vars)
        BY <2>2, <3>2 DEF TrTimesOut
      <4> QED
        BY <1>5, <1>6, <4>1
    <3> QED
      BY <3>1, <3>2
  <2> QED
    BY <2>1, <2>2 DEF TrEnds

\* The watchdog, the shutdown, and the world outside.
LEMMA OthersRInv == ASSUME RInv, Watchdog \/ Shutdown \/ World \/ UNCHANGED rvars PROVE RInv'
<1>1. CASE Watchdog
  <2>1. state' = "RECHECKING" /\ call' = call
    BY <1>1, RecheckMoves DEF Watchdog
  <2>2. UNCHANGED <<requests, refused, callBase, checking, owes, stack, toCome, waiting,
                    paused, timeouts, stopping>>
    BY <1>1 DEF Watchdog, control, tasks
  <2>3. RTypeOK'
    BY <2>2 DEF RInv, RTypeOK
  <2>4. Ticking' /\ Expected' /\ Told'
    BY <2>1, <2>2 DEF RInv, Ticking, Expected, Told, Down
  <2> QED
    BY <2>3, <2>4 DEF RInv
<1>2. CASE Shutdown
  <2>1. state' = "STOPPED" /\ call' = call
    BY <1>2, StopMoves DEF Shutdown
  <2>2. /\ UNCHANGED <<requests, refused, callBase, checking, owes, paused, timeouts>>
        /\ stopping' = TRUE /\ waiting' = 0 /\ toCome' = 0 /\ stack' = Answered(Waiters)
    BY <1>2 DEF Shutdown, control
  <2>3. /\ stack' \in Seq(Frames)
        /\ HasTick(stack') <=> HasTick(stack)
        /\ OneTick(stack') <=> OneTick(stack)
    BY <2>2, AnsweredFrames DEF RInv, RTypeOK
  <2>4. Briefings \in Nat
    BY RuntimeAssumption
  <2>5. RTypeOK'
    BY <2>2, <2>3, <2>4 DEF RInv, RTypeOK
  <2>6. Ticking'
    BY <2>1, <2>2, <2>3 DEF RInv, Ticking
  <2>7. Expected' /\ Told'
    BY <2>1, <2>2, <2>4 DEF Expected, Told
  <2> QED
    BY <2>5, <2>6, <2>7 DEF RInv
<1>3. CASE World \/ UNCHANGED rvars
  <2>1. /\ UNCHANGED <<state, call>>
        /\ UNCHANGED <<requests, refused, callBase, checking, owes, stack, toCome, waiting,
                       paused, timeouts, stopping>>
    <3>1. CASE World
      BY <3>1, WorldMoves DEF World, control, tasks
    <3>2. CASE UNCHANGED rvars
      BY <3>2 DEF rvars, vars, recovery, control, tasks
    <3> QED
      BY <1>3, <3>1, <3>2
  <2>2. RTypeOK'
    BY <2>1 DEF RInv, RTypeOK
  <2>3. Ticking' /\ Expected'
    BY <2>1 DEF RInv, Ticking, Expected
  <2>4. Told'
    BY <2>1 DEF RInv, Told, InCall
  <2> QED
    BY <2>2, <2>3, <2>4 DEF RInv
<1> QED
  BY <1>1, <1>2, <1>3

\* Every step of the process keeps the invariant.
LEMMA StepRInv == RInv /\ [RNext]_rvars => RInv'
  BY RuntimeStartRInv, HandleTimeoutRInv, HandleLoginEventRInv, ConnectReturnsRInv,
     NotifyRInv, FallsDueRInv, AskRInv, EndsRInv, TrEndsRInv, OthersRInv
  DEF RNext, Briefing

-----------------------------------------------------------------------------
\* The frames of a tick are one or none.
LEMMA OneTickCounted ==
    ASSUME NEW frames \in Seq(Frames), OneTick(frames)
    PROVE  Cardinality({i \in DOMAIN frames : frames[i].origin = "tick"}) <= 1
<1> DEFINE T == {i \in DOMAIN frames : frames[i].origin = "tick"}
<1>1. CASE T = {}
  <2> HIDE DEF T
  <2>1. Cardinality(T) = 0
    BY <1>1, FS_EmptySet
  <2> QED
    BY <2>1 DEF T
<1>2. CASE T # {}
  <2>1. PICK i \in T : TRUE
    BY <1>2
  <2>2. T = {i}
    BY <2>1 DEF OneTick
  <2> HIDE DEF T
  <2>3. Cardinality(T) = 1
    BY <2>2, FS_Singleton
  <2> QED
    BY <2>3 DEF T
<1> QED
  BY <1>1, <1>2

\* For any number of briefings, requests and attempts, and however deep the
\* loops nest: at most one tick is on the stack, _checking never outlives it,
\* and no loop runs with the queue dispatching on a connection known lost.
THEOREM LoopsKept == RSpec => []LoopsInOrder
<1>1. RInv => LoopsInOrder
  <2> SUFFICES ASSUME RInv PROVE LoopsInOrder
    OBVIOUS
  <2>1. stack \in Seq(Frames) /\ OneTick(stack)
    BY DEF RInv, RTypeOK, Ticking
  <2>2. OneTickAtATime
    BY <2>1, OneTickCounted DEF RInv, Ticking, HasTick, OneTickAtATime
  <2>3. NotServedWhenDown
    BY DEF RInv, Told, NotServedWhenDown, LoopRuns, Down
  <2> QED
    BY <2>2, <2>3 DEF RInv, LoopsInOrder
<1> QED
  BY <1>1, InitRInv, StepRInv, PTL DEF RSpec

\* The runtime, with its queue, briefings and shutdown, implements the manager's
\* specification: nothing it does asks of the manager a step that the manager
\* does not have, so every theorem about the manager holds of it in there.
THEOREM ManagerImplemented == RSpec => Spec
<1>1. RInit => Init
  BY DEF RInit
<1>2. [RNext]_rvars => [Next]_vars
  <2>1. CASE RuntimeStart
    BY <2>1 DEF RuntimeStart, Next
  <2>2. CASE HandleTimeout
    BY <2>2 DEF HandleTimeout, Next
  <2>3. CASE HandleLoginEvent
    BY <2>3 DEF HandleLoginEvent, Next
  <2>4. CASE ConnectReturns
    BY <2>4 DEF ConnectReturns, AnyReturn, Next
  <2>5. CASE Notify \/ FallsDue \/ Briefing
    BY <2>5 DEF Notify, FallsDue, Briefing, Ask, Resumes, Ends
  <2>6. CASE TrEnds
    BY <2>6 DEF TrEnds, TrAnswered, TrTimesOut, Next
  <2>7. CASE Watchdog \/ Shutdown
    BY <2>7 DEF Watchdog, Shutdown, Next
  <2>8. CASE World
    BY <2>8 DEF World, Next
  <2>9. CASE UNCHANGED rvars
    BY <2>9 DEF rvars
  <2> QED
    BY <2>1, <2>2, <2>3, <2>4, <2>5, <2>6, <2>7, <2>8, <2>9 DEF RNext
<1> QED
  BY <1>1, <1>2, PTL DEF RSpec, Spec

\* So the manager's invariants hold in the running process: it is never
\* stranded by an event that comes out of a nested loop or out of its own
\* request, and never asks the server more often than the budget allows.
THEOREM ManagerSafeInRuntime == RSpec => []ManagerInv
  BY ManagerImplemented, Safety, PTL

=============================================================================
