-------------------------- MODULE TrRequestQueue --------------------------
(***************************************************************************)
(* KiwoomTrRequestQueue: sequential TR calls, correlated by screen number  *)
(* and request name, with overload retries, pagination, a response timeout *)
(* and pause/resume for connection recovery.                               *)
(*                                                                         *)
(* Every method and every timer or OCX callback is one action on the Qt    *)
(* thread.  A dispatch due at once is the same as one whose timer has run  *)
(* out: Dispatch follows as a step of its own.  The callbacks of request() *)
(* and request_rows() only quit the caller's nested loop, so an answer is  *)
(* recorded here and the caller goes on in a later step.                   *)
(***************************************************************************)
EXTENDS Integers, Sequences, FiniteSets

CONSTANTS
    Requests,       \* the requests submitted in one run, each once
    NameOf,         \* request_name and tr_code, which requests may share
    Paginated,      \* the requests with paginate=True
    MaxPages,       \* max_pages
    Screens,        \* how many screen numbers the pool holds
    MinInterval,    \* minimum_interval_ms
    OverloadBackoff,\* overload_backoff_ms
    ResponseTimeout,\* timeout_ms
    TimeoutLimit    \* consecutive timeouts before the observer pauses the queue

ASSUME QueueAssumption ==
    /\ Paginated \subseteq Requests
    /\ MaxPages \in Nat \ {0}
    /\ Screens \in Nat \ {0}
    /\ MinInterval \in Nat
    /\ OverloadBackoff \in Seq(Nat)
    /\ ResponseTimeout \in Nat \ {0}
    /\ TimeoutLimit \in Nat \ {0}

VARIABLES
    pending,       \* _pending: a sequence of requests
    active,        \* _active: a record, or Nothing
    free,          \* ScreenNumberPool._available, the next to acquire first
    gapIn,         \* time left until MinInterval has passed since the last dispatch
    timeouts,      \* _consecutive_timeouts
    paused,        \* _paused
    closed,        \* _closed
    observing,     \* _handle_timeout has yet to call the timeout observer
    \* the OCX
    owed,          \* replies the OCX may still deliver: [screen, req]
    \* history
    submitted,     \* requests in the order of submit()
    answers        \* the callbacks each request has had

qvars == <<pending, active, free, gapIn, timeouts, paused, closed, observing,
           owed, submitted, answers>>

Off == -1
TimeLeft == Nat \cup {Off}
Nothing == [req |-> "none"]
ScreenNumbers == 1 .. Screens
Answer == {"success", "error"}

Actives ==
    [req : Requests, screen : ScreenNumbers, dispatchIn : TimeLeft,
     timeoutIn : TimeLeft, retries : 0 .. Len(OverloadBackoff), pages : Nat]

QTypeOK ==
    /\ pending \in Seq(Requests)
    /\ active \in Actives \cup {Nothing}
    /\ free \in Seq(ScreenNumbers)
    /\ gapIn \in Nat
    /\ timeouts \in Nat
    /\ paused \in BOOLEAN
    /\ closed \in BOOLEAN
    /\ observing \in BOOLEAN
    /\ owed \subseteq [screen : ScreenNumbers, req : Requests]
    /\ submitted \in Seq(Requests)
    /\ answers \in [Requests -> Seq(Answer)]

QInit ==
    /\ pending = <<>>
    /\ active = Nothing
    /\ free = [i \in ScreenNumbers |-> i]
    /\ gapIn = 0
    /\ timeouts = 0
    /\ paused = FALSE
    /\ closed = FALSE
    /\ observing = FALSE
    /\ owed = {}
    /\ submitted = <<>>
    /\ answers = [r \in Requests |-> <<>>]

-----------------------------------------------------------------------------
\* Mutant of Released: the screen that is returned is the next one used.
ReleaseOnTop == IF active = Nothing THEN free ELSE <<active.screen>> \o free

\* _take_active with _cleanup: the timers stop and the screen goes back.
Released == IF active = Nothing THEN free ELSE Append(free, active.screen)

\* on_success or on_error of the requests in R.
AnswerAll(R, a) ==
    answers' = [r \in Requests |-> IF r \in R THEN Append(answers[r], a)
                                             ELSE answers[r]]

\* _start_next, from pool f and no active request: take up the oldest pending
\* request, which waits out the interval since the last dispatch.
StartNext(queue, f, gap) ==
    IF queue = <<>>
    THEN active' = Nothing /\ pending' = queue /\ free' = f
    ELSE /\ active' = [req |-> Head(queue), screen |-> Head(f), dispatchIn |-> gap,
                       timeoutIn |-> Off, retries |-> 0, pages |-> 0]
         /\ pending' = Tail(queue)
         /\ free' = Tail(f)

\* submit(), from request() or request_rows().
Submit(r) ==
    /\ ~closed /\ ~observing
    /\ \A i \in DOMAIN submitted : submitted[i] # r
    /\ submitted' = Append(submitted, r)
    /\ IF paused \/ active # Nothing
       THEN pending' = Append(pending, r) /\ UNCHANGED <<active, free>>
       ELSE StartNext(Append(pending, r), free, gapIn)
    /\ UNCHANGED <<gapIn, timeouts, paused, closed, observing, owed, answers>>

\* _finish_error
FinishError(gap) ==
    /\ AnswerAll({active.req}, "error")
    /\ StartNext(pending, Released, gap)

\* Mutant of Larger: a backoff shorter than the interval is taken as it is.
LargerIgnored(m, n) == m

Larger(m, n) == IF m > n THEN m ELSE n

\* _dispatch: CommRqData and its immediate result.
Dispatch(result) ==
    /\ active # Nothing
    /\ active.dispatchIn = 0
    /\ gapIn' = MinInterval
    /\ \/ /\ result = "ok"
          /\ active' = [active EXCEPT !.dispatchIn = Off, !.timeoutIn = ResponseTimeout]
          /\ owed' = owed \cup {[screen |-> active.screen, req |-> active.req]}
          /\ UNCHANGED <<pending, free, answers>>
       \/ /\ result = "overload"
          /\ active.retries < Len(OverloadBackoff)
          /\ active' = [active EXCEPT
                 !.retries = @ + 1,
                 !.dispatchIn = Larger(OverloadBackoff[active.retries + 1], MinInterval)]
          /\ UNCHANGED <<pending, free, owed, answers>>
       \/ /\ \/ result = "overload" /\ active.retries = Len(OverloadBackoff)
             \/ result = "rejected"
          /\ FinishError(MinInterval)
          /\ UNCHANGED owed
    /\ UNCHANGED <<timeouts, paused, closed, observing, submitted>>

\* _handle_tr_data: a reply for the active request ends it, or asks for the
\* next page; fields that cannot be read end it with an error.
Matches(reply) ==
    /\ active # Nothing
    /\ reply.screen = active.screen
    /\ NameOf[reply.req] = NameOf[active.req]

LastPage(reply) ==
    /\ Matches(reply)
    /\ AnswerAll({active.req}, "success")
    /\ timeouts' = 0
    /\ StartNext(pending, Released, gapIn)

MorePages(reply) ==
    /\ Matches(reply)
    /\ active.req \in Paginated
    /\ active.pages + 1 < MaxPages
    /\ active' = [active EXCEPT !.pages = @ + 1, !.retries = 0,
                                !.timeoutIn = Off, !.dispatchIn = gapIn]
    /\ UNCHANGED <<pending, free, answers, timeouts>>

BadPage(reply) ==
    /\ Matches(reply)
    /\ FinishError(gapIn)
    /\ UNCHANGED timeouts

Ignored(reply) ==
    /\ ~Matches(reply)
    /\ UNCHANGED <<pending, active, free, answers, timeouts>>

Reply(reply) ==
    /\ ~observing
    /\ reply \in owed
    /\ owed' = owed \ {reply}
    /\ LastPage(reply) \/ MorePages(reply) \/ BadPage(reply) \/ Ignored(reply)
    /\ UNCHANGED <<gapIn, paused, closed, observing, submitted>>

\* _handle_timeout up to the observer: the next request is started, and its
\* dispatch made if it is due, before the observer hears of the timeout.
TimesOut ==
    /\ ~observing
    /\ active # Nothing
    /\ active.timeoutIn = 0
    /\ timeouts' = timeouts + 1
    /\ FinishError(gapIn)
    /\ observing' = (timeouts' >= TimeoutLimit)
    /\ UNCHANGED <<gapIn, paused, closed, owed, submitted>>

\* Mutant of PauseEffect: the caller of the active request is not told.
PauseSilently ==
    /\ paused' = TRUE
    /\ active' = Nothing
    /\ free' = Released
    /\ UNCHANGED <<answers, pending, gapIn, timeouts, closed, owed, submitted>>

\* pause(): the active request fails and nothing is started.
PauseEffect ==
    /\ paused' = TRUE
    /\ active' = Nothing
    /\ free' = Released
    /\ IF active = Nothing THEN UNCHANGED answers
                           ELSE AnswerAll({active.req}, "error")
    /\ UNCHANGED <<pending, gapIn, timeouts, closed, owed, submitted>>

\* observe_tr_timeout: enough timeouts in a row pause the queue.
Observe ==
    /\ observing
    /\ active # Nothing => active.dispatchIn # 0
    /\ observing' = FALSE
    /\ PauseEffect

Pause ==
    /\ ~closed /\ ~paused /\ ~observing
    /\ PauseEffect
    /\ UNCHANGED observing

\* Mutant of Resume: the preserved requests are not started.
ResumeStartsNothing ==
    /\ ~closed /\ paused /\ ~observing
    /\ paused' = FALSE
    /\ UNCHANGED <<pending, active, free>>
    /\ UNCHANGED <<gapIn, timeouts, closed, observing, owed, submitted, answers>>

\* resume()
Resume ==
    /\ ~closed /\ paused /\ ~observing
    /\ paused' = FALSE
    /\ StartNext(pending, free, gapIn)
    /\ UNCHANGED <<gapIn, timeouts, closed, observing, owed, submitted, answers>>

\* close(): the active request and all pending ones fail.
Close ==
    /\ ~closed /\ ~observing
    /\ closed' = TRUE
    /\ active' = Nothing
    /\ pending' = <<>>
    /\ free' = Released
    /\ AnswerAll({pending[i] : i \in DOMAIN pending}
                   \cup (IF active = Nothing THEN {} ELSE {active.req}), "error")
    /\ UNCHANGED <<gapIn, timeouts, paused, observing, owed, submitted>>

-----------------------------------------------------------------------------
\* The OCX loses a reply.
ReplyLost(reply) ==
    /\ reply \in owed
    /\ owed' = owed \ {reply}
    /\ UNCHANGED <<pending, active, free, gapIn, timeouts, paused, closed,
                   observing, submitted, answers>>

Elapse(t) == IF t > 0 THEN t - 1 ELSE t

QTimePasses ==
    /\ ~observing
    /\ gapIn' = Elapse(gapIn)
    /\ active' = IF active = Nothing THEN Nothing
                 ELSE [active EXCEPT !.dispatchIn = Elapse(@), !.timeoutIn = Elapse(@)]
    /\ UNCHANGED <<pending, free, timeouts, paused, closed, observing, owed,
                   submitted, answers>>

AnyDispatch == \E result \in {"ok", "overload", "rejected"} : Dispatch(result)

QNext ==
    \/ \E r \in Requests : Submit(r)
    \/ AnyDispatch
    \/ \E reply \in owed : Reply(reply) \/ ReplyLost(reply)
    \/ TimesOut
    \/ Observe
    \/ Pause
    \/ Resume
    \/ Close
    \/ QTimePasses

\* Qt fires the queue's timers, and time passes.  Nothing is assumed of the
\* OCX, nor that anybody resumes the queue.
QFairness ==
    /\ WF_qvars(QTimePasses)
    /\ WF_qvars(AnyDispatch)
    /\ WF_qvars(TimesOut)
    /\ WF_qvars(Observe)

QSpec == QInit /\ [][QNext]_qvars /\ QFairness

-----------------------------------------------------------------------------
Answered == {r \in Requests : answers[r] # <<>>}
WaitingOnes == {pending[i] : i \in DOMAIN pending}
                 \cup (IF active = Nothing THEN {} ELSE {active.req})

\* Whatever times out, fails, is paused or closed: a caller gets exactly one
\* answer, and as long as it has none the queue still holds its request.
ExactlyOneAnswer ==
    /\ \A r \in Requests : Len(answers[r]) <= 1
    /\ {submitted[i] : i \in DOMAIN submitted} = Answered \cup WaitingOnes
    /\ Answered \cap WaitingOnes = {}

\* Calls are answered in the order they were submitted, through retries,
\* pages, pauses and shutdown.
AnsweredInOrder ==
    \A i, j \in DOMAIN submitted :
        i < j /\ submitted[j] \in Answered => submitted[i] \in Answered

\* No screen number is lost or handed out twice.
ScreensConserved ==
    /\ Len(Released) = Screens
    /\ {Released[i] : i \in DOMAIN Released} = ScreenNumbers

\* A dispatch never comes due before the interval since the last one is over.
IntervalKept ==
    active # Nothing => (active.dispatchIn = Off \/ active.dispatchIn >= gapIn)

\* A paused or closed queue has nothing under way: recovery does not compete
\* with a TR call.
PausedIsIdle == paused \/ closed => active = Nothing

\* A reply that arrives after its request was given up never passes for the
\* answer to a later request of the same name.
NoForeignAnswer ==
    [][\A r \in Requests :
         answers[r] = <<>> /\ answers'[r] = <<"success">>
           => \E reply \in owed \ owed' : reply.req = r]_qvars

\* An orderly queue that is not left paused for good answers every call.
AnsweredIfResumed ==
    []<>~paused => \A r \in Requests : r \in WaitingOnes ~> r \in Answered

\* Every request that request() has accepted is answered exactly once, with a
\* value or an error, and in the order of the queue, whatever timers, late
\* events, pauses and the shutdown do.
AnswersAccounted == QTypeOK /\ ExactlyOneAnswer /\ AnsweredInOrder

\* The server's limits hold over all of that: a screen per request in flight,
\* the interval between requests, and silence while paused.
QueueDisciplined == ScreensConserved /\ IntervalKept /\ PausedIsIdle
=============================================================================
