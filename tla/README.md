# QZ Briefing: a TLA+ model of the unattended briefing runtime

QZ Briefing logs in to the Kiwoom OpenAPI+ through a QAx control, keeps the
connection alive through a trading day, and writes three briefings (before the
market, at 10:00, after the close) with data it asks for by TR requests. One
process runs all day with nobody watching, on one Qt thread whose event loops
nest: a briefing waits for each TR answer in a loop of its own, in which every
timer and event of the program may be handled, a further briefing among them.
Beside it a worker thread sends messages, other processes collect the whole
market over hours or days, and everything that must outlast a process is kept
in files that are written one after the other. Nesting, and what a stop between
two writes leaves, are where its hard behaviour is.

Paths below are relative to `src/src/qz_briefing/`.

## The system

| Component | State | Operations | Works with |
|---|---|---|---|
| Connection manager `kiwoom/connection_manager.py` | state, attempts, request in flight, the deadlines of login, reconnect, recheck and periodic check | start, tick, handle_login_event, request_connection_recheck, stop | calls the adapter; ticked by the runtime |
| QAx adapter `kiwoom/qax_adapter.py` | request count, confirmation monitor, signal connections | get_connect_state, request_connect, CommRqData, events, close | emits OnEventConnect, possibly inside CommConnect |
| Confirmation monitor `kiwoom/connection_confirmation.py` | a polling thread | start, stop | reports a login dialog to the adapter |
| Qt runtime `runtime/qt_connection_runtime.py` | started, checking | start, stop, timer and login handlers | ticks the manager every second, reports its state |
| TR queue `kiwoom/tr_requests.py` | pending and active requests, screens, interval, timeouts in a row, paused, closed | submit, request (nested loop), pause, resume, close, reply, timeout | used by every collector; paused and resumed by state reports |
| Dispatcher `scheduling/connection_dispatcher.py` | pending, running, dispatched, retries, retry timers | dispatch, on_connection_state, retry, stop | runs briefings when connected |
| Scheduler `scheduling/briefing_scheduler.py` | executed keys, timers | schedule, stop | calls run_briefing at its times |
| Runtime monitor, recovery `runtime/unattended.py` | active briefing, recovered keys, heartbeat, marker | beat, started, completed, check, stop | asks for missing briefings, suspects stalls |
| Graceful shutdown `runtime/automatic_shutdown.py` | attached resources, started flag | schedule, request_shutdown | stops everything at 20:00 |
| Process wiring `__main__.py` | the 09:05 grace timer, flags of its closures | run_briefing, request_pre_market, report_connection_state | connects all of the above |
| Pipeline `briefing/pipeline.py` | completed types, market-open flag | run, completion listeners | collectors, storage |
| Storage `briefing/storage.py` | result pairs on disk | save, load | pipeline, recovery, dashboard |
| Pre-open monitoring `briefing/preopen_monitoring.py` | samples, timer, registration | start, refresh, stop | started when connected |
| Collectors and rules `briefing/` | none | collect, judge, compare, advise | one briefing |
| Notifications `notifications/` | item list, history, in-flight set, worker thread | submit, deliver, retry_due, stop | fed by listeners and the shutdown summary |
| Collection session `recommendations/full_universe_collection.py` | checkpoint, failure journal, artifacts, report | run, resume, repair, validate | a process of its own over manager and queue |
| Partitioned collection `recommendations/partitioned_full_universe.py` | batches of both phases in one file | create, next, resume, repair, finalize | over sessions' requests |
| Report store, publish `recommendations/daily_service.py`, `operational_publish.py` | version directories, latest pointers | save, load, publish | dashboard, briefings, notifications |
| Recommendation rules `recommendations/` | none | normalise, aggregate, filter, score, select, plan | sessions and the daily service |
| Dashboard `ui/` | none of its own | look for the latest report | report store |

Every component, those left out too, is in `PROJECT.json` with what is modelled
of it, and every hazard with its line and the properties that watch it.

What makes each part correct, in a word: the manager never strands itself and
never asks without bound; the queue answers every call once and confuses no
replies; the dispatcher runs a briefing once, and again only to retry; the
whole process keeps serving while loops nest, and unwinds at shutdown; each
briefing of the day comes, and none that is complete is made again; a stored
result is one complete version or none; a message leaves the queue for a reason
and no later process sends what the history holds; a collection asks for nothing twice, forgets nothing and
claims no more than it has; a pointer leads to a whole report; a rule judges on
the data it has, and on no later data.

## The modules

| Module | Models | Actions and the code |
|---|---|---|
| `ConnectionManager` | the manager over any adapter | one action per public method; `Tick` is the branches of `tick()` in their order; `call` is a request_connect() on the stack, so that events may come before `CallReturns` |
| `TrRequestQueue` | the queue | `Submit`, `Dispatch`, `Reply` (last page, further page, bad page, ignored), `TimesOut` then `Observe`, `Pause`, `Resume`, `Close` |
| `BriefingDispatcher` | the dispatcher, with the scheduler and the recovery as its callers | the stack of `_run_once` frames; `Scheduled`, `Recover`, `RetryDue`, `OnConnectionState`, the two ends of a callback, `StopDispatcher` |
| `BriefingRuntime` | manager, adapter, Qt runtime, report_connection_state, queue and briefings composed | extends `ConnectionManager`; one stack of nested briefings, `checking`, the one-shot adapter, a queue with as much state as the others see |
| `BriefingDay` | a day as main() wires it: scheduler, catch-up, 09:05 grace, waiting list, pipeline, heartbeat, recovery, watchdog, pre-open observation, shutdown, death and restart | a stack of frames `plan`, `beat`, `release`, `collect`, `told`, one per call that may wait or go on later |
| `ResultRegister` | abstract: what a stored result promises its readers | publish, withdraw, restore |
| `BriefingStorage` | `_save_paths`, one file operation per step | implements `ResultRegister` |
| `NotificationDelivery` | service and queue, two threads | each read and write of what they share is a step: `Submit`, `RetryDue` and its loop on one side, `TakeJob` to `Leave` on the other, saves in two steps, `StopService`, `Restart` |
| `CollectionSession` | one session over its invocations | `CreateSession` then `StartSession`, `ResumeSession`, `RepairSession`; a turn is `Collect`, `Clear`, `List`, `Settle`, or `Fail`, `Journal`, then `Checkpoint`; `SelectFlows`, `MakeReport`, `Complete`; `Interrupt`, `Kill`, `JournalMissing`, `Damage` |
| `PartitionedCollection` | the batches of a collection over the whole market | `progress` is progress.json, `saved` the artifacts; a live invocation is `BeginLive`, `Reuse`, `Fetch`, `FetchFails`, `Checkpoint`, `FinishBatch`, `Conclude`, and may be `Killed`; an offline one is `MockBatch`, `FinalizePrices` or `FinalizeReport` |
| `ReportPublication` | reports on disk, their writers and readers | `Generate` and `Publish` begin a list of steps, `Save`, `WriteFile`, `MovePointer`, `Verify`, `Notify`, that may `Stop` anywhere; readers are operators |
| `RuleValues` | values the rules share | |
| `MarketRules` | market quality, score and decision, the market close | operators, one per function |
| `HoldingRules` | accounts, positions, technical state, advice | operators |
| `RecommendationRules` | universe, bars and weeks, flows, request planner, orchestrator, filter, scores, selectors | operators |
| `RuleCases` | the references the rules are checked against | each initial state is a case, one step judges it |
| `ConnectionProofs` | theorems about `ConnectionManager` and `BriefingRuntime` | one lemma per action of the module it is about |
| `BriefingProofs` | theorems about `BriefingDispatcher` and `BriefingStorage` | the same |
| `RequestProofs` | theorems about `TrRequestQueue` and `CollectionSession` | the same |
| `BriefingDayProofs`, `NotificationDeliveryProofs`, `PartitionedCollectionProofs`, `ReportPublicationProofs` | theorems about the module each is named after | the same |
| `RuleProofs` | theorems about the rules, through `RuleCases` | a part for each kind of case |

`MC*` modules give the constants small values; each `.cfg` is a run.

Conventions. A deadline is a countdown (`Off` when the attribute is None) and
`TimePasses` lets all of them fall, never below zero; an expired deadline acts
when the code next looks at it. `BriefingDay` needs no lengths, so its clock is
one of nine periods between the times of the day. History variables, which no
guard reads, are marked as such. Definitions called mutants are slips the code
could contain; nothing refers to them, they exist to show that a property can
fail.

### Connection manager
`linked` and `readable` are the world: what GetConnectState would return and
whether it can be called. Both change freely. `asks` counts calls of
request_connect since the connection was last confirmed.

### TR queue
Requests are model values with a name; `NameOf` is the same for all, so replies
can be confused as far as the code allows. `owed` is what the OCX may still
send, at any time, also after the timeout. Screens are kept as the pool's list,
for the order of reuse decides whether a late reply meets a new request.
`observing` is the moment between `_finish_error`, which starts the next
request, and the observer, which may pause the queue and so fail it.

### Dispatcher
A frame is one call of `_run_once` with the rest of the snapshot taken from
`_pending`, as it was taken; the keys in it that have run or are running in the
meantime are passed over when their turn comes, as the code does. Everything
else may happen while a frame waits.

### Runtime
The composition counts briefings and requests instead of naming them. The order
of the frames is what matters: only the top one computes, a Qt loop runs when
the top one waits, and `_checking` stays set until the frame a tick has started
ends. The oldest waiting frame has the active request.

### Day
What the modules above leave out, they leave to this one: why a briefing is
asked for. The catch-up of the scheduler, its timers, the grace timer, the
release of waiting briefings on CONNECTED and the recovery from the heartbeat
all end in `RunBriefing`, from inside one another. `disk` says what a day's
directory holds as the validators read it: nothing, the JSON alone (`half`),
incomplete and degraded pre-market data (`weak`), or a final result. The first
state has any clock and any disk an earlier process can have left, so a restart
is in every behaviour, and a death is an action. Left out: the dispatcher's one
retry, which needs a connection error that the pipeline would not have isolated
(`BriefingDispatcher` has it), a refused real-time registration, the manual
validation run, the last beat and the summary of stop().

### Storage
The contents of a file are the number of the save that wrote it; 0 is no file.
A save is a plan of operations; any may raise, and the process may die between
any two. Errors of the error path and of the clean-up are included. A save here
may replace a complete pair: manual validations and results found invalid do.

### Notifications
A message is its key. The list, the history and `_inflight` are shared without
a lock, so each access is a step. A save reads the list in one step and
replaces the file in another; either thread may change the list in between, and
the disk may refuse. `behind` says that the file lags behind the list with no
save under way, which is what a restart loses.

### Collection session
Nothing runs beside a session; the hazard is where it stops. `mem` is the
progress in memory and `disk` the file. A kill loses `mem`; SIGINT raises
between any two statements and then saves `mem` as it is, so `cut` remembers
codes of which one list or the journal was changed and another list not. Both
may fall inside `atomic_write_json` and leave its temporary file (`leftover`),
which nothing removes; a kill between progress.json and failures.json leaves a
session without the latter (`opened`), which can be resumed until a code fails.
An artifact may be damaged between invocations, and the day may end.
`Validates` is the validator of publish with all its checks of what a session
writes: no temporary file, the size of the pilot, the lists, the artifacts, the
counts of the report and the flows of what it recommends. Which codes the
evaluation for the report does not let pass (`Uncounted`) and whose flows come
without rows (`Rowless`) are constants. Left out: counters for the printout, the
weekly list, attempts in the journal, hashes, disk errors, the quarantine of
damaged caches; a restore from earlier sessions is one step, and a damage hits a
part of the artifact that a resume reads.

### Partitioned collection
Invocations follow one another (one at a time, the process lock is taken as
working) and share only what is on disk. A live invocation writes at every
code, so it may be killed between any two writes; an offline one writes once.
A live invocation takes its batch from a second reading of the file, unless it
repairs or resumes, and so never advances a batch. Live runs alone therefore
stay in the first batch, and `PSpec` mixes both kinds over one file: what one
kind leaves, the other must carry on. `told` is what an invocation returned to
its caller. The universe has no code twice, which `verify_parent_collection`
enforces. Scores choose any candidates up to the limit, in any order. What an
invocation has left of its batch is kept as positions in it (`Targets`), so that
the next code is the one at the least of them.

### Report publication
A version is three files named after a hash of the report; files hold the
number of the run that wrote them. `user` is fixed by the first state: below one
root either the daily service writes or publications do, because at this commit
no provider connects the daily service to the operational root. Two
publications may run at once and nothing locks. Left out: what refuses a
session or a root before the first write, temporary files of killed writers,
texts.

### Rules
They are functions, and are compared with what they promise, never with
themselves: over sources that fail, answer nonsense or late, over accounts that
are missing or disagree, over weeks that run, over lists in any order. Rates,
scores and prices are small integers on both sides of each threshold. Three of
the six parts of a recommendation's score (weekly, bottom, daily) are inputs;
of the collectors whose values are not judged only the number of errors counts
(`others`);
leaders and changes of holdings at the close, and all texts, are left out. Two
states of `review_state` cannot be reached as it is coded, `reduce_risk` and
`conditional_add_review`: earlier conditions take all their cases. The operators
keep the code's order of conditions, so they are unreachable here too.

## The runs

| Run | Shows | Bounds and why they are enough |
|---|---|---|
| `connection_manager` | `ManagerInv`: typed, never stranded, the budget holds, confirms only during a login. `ConnectedIsConfirmed`, `GivesUpOnlyWhenSpent`, `LiveLinkKept`: a good link survives bad events. `OutagesEnd`: an outage settles, a drop is noticed | 2 attempts with different backoffs: the budget runs out and the last backoff repeats; 2 recheck delays; time-outs longer than one step |
| `tr_request_queue` | `AnswersAccounted`: one answer per call, in order. `QueueDisciplined`: screens and interval kept, a paused queue idle. `NoForeignAnswer`; `AnsweredIfResumed` | 3 requests of one name, 2 pages, 3 screens, 2 overload retries: a late reply, a next request and a waiting one at a time |
| `briefing_dispatcher` | `RunsAccounted`: no re-entry, runs bounded, states true. `StartsWhenItMay`: none after success or stop, none offline but in one case. `WaitingIsRun` | 2 briefings: one on the stack, one in a snapshot, pending or retried |
| `briefing_runtime` | `LoopsInOrder`: ticks do not nest, the queue follows the state. `WaitEndsUnlessHeld`: a wait ends but in two situations. `RuntimeSettles`: a pause ends with its cause, shutdown unwinds the stack | 2 briefings of 2 requests, observer limit 2, 1 reconnect attempt, timers due at once: their lengths are `ConnectionManager`'s business, here their order counts |
| `briefing_day` | `DayInv`: typed, no briefing twice at once, no observation outlives its end. `FinalKept`: what is complete is never made again. `GraceKept`: no pre-market briefing before 09:05 in a market not seen open. `EveryBriefingComes` | 2 briefings and the observation, 5 of the 9 periods: the observation, the minutes before 09:05, the end of either briefing's grace, the shutdown; one process after any earlier ones. The safety properties were also checked once with periods 1-6 and 9 and 2 processes |
| `briefing_storage` | `DiskSound`: no torn pair, no content lost, a failed save changes nothing, nothing left behind. `ImplementsRegister` | 3 saves: one complete, one failing, one over what it left |
| `notification_delivery` | `DeliveryOwned`: one owner per message. `RecordedNotSent`; `LeavesForAReason`; `Settles`: no message waits for ever | a briefing and an alert, 2 attempts, 2 processes, 1 refused save: one is discarded when old and one is not, both can be given up, a restart reads any two files |
| `collection_session` | `CheckpointHolds`: checkpoint, artifacts and journal agree, nothing is asked for twice. `CompletedIsAccounted`: a completed session has tried everything and reports what passes. `CompletedValidates`: what completes can be published, but for the cases listed below; `NothingForgotten` | 3 codes, as many as the pilot has, of which 2 pass, one without rows of flows, and one is not counted; 3 invocations, 1 damage, breaker at 2, threshold of 40 % from 3 attempts: a start, a resume and a repair in any order, an abort and a trip |
| `partitioned_collection` | `BatchesSound`: batches partition the universe and are taken in order, flow phase only on all prices, listed codes saved, stuck only at the end, reports true. `NeverFetchedAgain` | 4 codes in price batches of 3 and 1, breaker at 2, 2 flow batches: the breaker and an interrupt cut a batch off inside, and there is a next batch in both phases |
| `report_publication` | `ReportsWhole`: a pointer, and the dashboard, lead to a whole version by one run. `NotifiedIsStored`; `ReadersAgree`; `HistoricalKeepsLatest` | 2 days, 3 reports, 2 writers, 3 runs: two versions of one day, a past one, and a third writer over what two left. 4 runs were checked once |
| `pure_rules` | `BriefingJudged`, `HoldingsAdvised`, `ChosenAreBest`, `NoLookAhead`, `PlanIsExact` | answers of every source the rules tell apart, 2 accounts, 6 weeks and the current one, up to 9 stocks for 3 places; rankings of 4 stocks of which 3 are looked at (30 in the code) and 2 may lead |
| `closed_day_recorded` | expected to fail: see the finding | as `briefing_day` |

Deadlock is checked except where the system really stops: a number of saves,
invocations, processes or runs is spent, a collection is complete, a day is
over, a case is judged.

### Fairness
- The clock runs, and the 1 s timer of the runtime ticks (`TimePasses`, `Tick`).
- Qt timers of the queue fire and handlers end (`AnyDispatch`, `TimesOut`,
  `Observe`, `Notify`, `Briefing`): they run on the thread that is not blocked.
- A call into the OCX returns (`AnyReturn`, `ConnectReturns`).
- In `BriefingRuntime` ticks, TR time-outs and the return from CommConnect are
  strongly fair: computations only interrupt the loops that serve them.
- In `BriefingDay` a call that has returned lets its caller go on (`Frames`,
  weak); the end of a briefing, the beat and the timers are events that others
  put off and a loop serves when it runs again (`Ends`, `Beat`, `Timeouts`,
  strong). Neither the clock nor the connection is fair.
- In `NotificationDelivery` both threads go on and time passes (weak); the
  retry timer is an event among others of the Qt thread (strong). No message
  need get through.
- Nothing is assumed of the server: no login event, no reply, no link ever.
  Where an unbounded stream of negative login events would defer a reconnect
  for ever, the property says so in its premise. `AnsweredIfResumed` assumes a
  queue that is not left paused; who resumes it is `BriefingRuntime`'s question.

## What the runs found
`closed_day_recorded`: a briefing that finds the market closed is not recorded.
`run()` calls `market_decision` above the line at which the same function
assigns that name, so Python raises there and nothing is saved, although
`briefing/pipeline.py:188` prepares the message and `runtime/unattended.py:25`
counts such a result as final. The briefing counts as failed, as
`EveryBriefingComes` allows, and the monitor goes on taking it for active.

What else the models had to follow the code in, and how a property says so:
- `WaitEndsUnlessHeld`: two TR time-outs in a briefing that a tick has started
  pause the queue and ask for a recheck, which needs a tick; ticks return at
  once while that briefing is on the stack. The next request waits until 20:00.
- The adapter makes one CommConnect in its life, so automatic reconnects only
  spend attempts: `BriefingRuntime` is built on that.
- `OfflineOnlyBehind`: the second briefing of a snapshot is started without a
  new look at the connection.
- `ContentSurvives`: an existing pair is moved away before the new one is
  installed, and nothing looks for the backups after a crash; a reader then
  finds no pair, and only the contents survive.
- `ReportIsTrue`: what a live invocation writes to the batch that `next_batch`
  returned is not saved, and a repair of an interrupted batch calls it complete
  whatever the interruption left untried; the property excepts both. The price
  phase is saved from the second by a count (`FlowNeedsPrices`), the report is
  not.
- `CompletedValidates`: a repair leaves the entries it resolves in
  failures.json, and the validator accepts only an empty one, so a session that
  failed once is never published; the premise excludes it (`recorded`). It also
  excludes what a kill or an interrupt may leave (`CutCleanly`): a temporary file
  of `atomic_write_json`, for which the validator refuses the session for ever
  although it was resumed to completion; a session without failures.json; a turn
  cut in two. And it excludes answers that no session can be published with
  (`Publishable`): other than 100 codes, a code that passes the weekly filter and
  not the evaluation for the report, a recommendation whose flows have no row.
- `ChosenAreBest`: the leaders are the best of the first 30 stocks that the
  three rankings name, in that order (`briefing/leadership.py:152`). A better one
  that only a later ranking names is not looked at, and a row that cannot be
  parsed takes a place.
- `RecordedNotSent`: a message that `retry_due` has found unsent, and that the
  worker notes before `retry_due` enlists it, is sent a second time; the property
  is about what the history held at the start of the process.
- `LiveLinkKept` says nothing of the time in which a request_connect() is on the
  stack.
- `ListensForAReason`: an observation that was ended before it began registers
  its real-time data after a reconnect.

Read in the code, and outside what the properties say: a breached stop with
fewer than 60 bars gets `insufficient_data` (`briefing/decision_guidance.py:86`);
losing a source that disagrees raises the confidence of a decision (`:54`); a
briefing that ends after stop() beats once more and writes the marker that
stop() has removed (`runtime/unattended.py:162`); a briefing that a shutdown cuts short is saved as
final, with the refused requests as its errors (`briefing/pipeline.py:154`);
a restart forgets that the market was open (`:111`); failures.json of a day is
never removed (`recommendations/daily_service.py:103`); a repair that dies
between saving a flow and its checkpoint leaves a failed code with a valid cache,
which no later repair asks for again (`recommendations/full_universe_collection.py:183`);
a TR request that raises when a timer dispatches it, and not in submit(), is
answered only by pause() or close() (`kiwoom/tr_requests.py:330`); a missing notification
service is reported after the report was written (`operational_publish.py`),
while `__main__.py:724` then prints that nothing was; the publish command and
the briefing process write the same notification_queue.json without a lock.

## What is proved
Each theorem holds for every value of the constants that satisfies the named
assumption of its module, which says no more than their types or, where noted,
what the code enforces. Each has an inductive invariant, stronger than the
property the run checks; it was model-checked on that run's instance before it
was proved. `Spec => []Inv` then rests on three facts: the first states satisfy
it, each action keeps it (a lemma per action), and it implies the property.

### Connection manager
`ConfigAssumption` is what `ConnectionConfig.__post_init__` enforces.

- `Safety`: `ManagerInv`, that is, the state is well typed; a started manager
  always has the timer armed that its state waits for (`WakeupArmed`); the
  reconnect budget holds (`AsksBounded`); the confirmation thread runs only
  during a login.
- `GiveUp`: FAILED only on an unreadable state or with the budget spent.
- `Confirmed`: CONNECTED is entered only on a read that says so.
- `LinkKept`: a link that reads as live is left only by stop(), or by the
  rejection of the request whose event came first.

The checked invariants are not inductive together: that `asks` stays within the
budget needs `asks <= attempts + 1`, for every reconnect raises both, and that
needs both to be zero before the start (`Safe`). Time only lowers armed timers
(`ElapseType`) and a backoff is always one of the configured ones
(`BackoffType`). The action properties follow from the same invariant.

### TR queue
- `Disciplined`: no screen lost or handed out twice, the interval kept, a
  paused or closed queue idle.
- `EveryCallAnswered`: one answer per call, in the order of submission, held by
  the queue until then.
- `RepliesNotMistaken`: a late reply never passes for another request's answer,
  as long as there are no more requests than screen numbers. The theorem has
  this as a hypothesis because a number that comes round again would break it;
  `ScreenNumberPool` has 9000.

The argument (`QInv`) is the order of submission: the queue is a suffix of what
was submitted, the active request is the one before it, and exactly those before
that have been answered. While no screen has come round, a screen is the place
of its request in that order.

### Dispatcher
- `RunsCounted`: no briefing inside itself, no more runs than it was taken up
  and retried, states true.
- `NoneStartsInVain`: none after success or stop, none offline but behind
  another of its snapshot.

`runs <= asked + retries` is not inductive, for a run is counted when it starts
and was owed before. `DInv` counts claims: a key that is pending, or in the
snapshot of a frame, is a run that may still come, and runs and claims together
stay within what was asked for. That no list holds a key twice, and that the
state of a briefing says where its key is, keep the count right when a claim
moves from the list to a snapshot, from a snapshot to the stack, or back.

### Runtime
- `LoopsKept`: one tick on the stack at most, `_checking` does not outlive it,
  no loop serves the queue on a connection known lost.
- `ManagerImplemented`: the composed process implements the specification of
  `ConnectionManager`: no queue, briefing, watchdog or shutdown makes it take a
  step that the manager does not have.
- `ManagerSafeInRuntime`: so `ManagerInv` holds in the running process.

`RInv` says where the tick is as long as `_checking` is set (inside
request_connect(), about to report, or below a briefing), and that whoever saw
the connection lost has told the queue before a loop runs again.

### Day
For any briefings, any choice of the nine periods and any number of processes:

- `DayKept`: no briefing is made inside itself, whoever asks for it from inside
  whatever wait, and no observation listens on without a reason.
- `FinalResultKept`: what the pipeline takes for complete is never made again.
- `GraceRespected`: the pre-market briefing starts at 09:05 or when the market
  was seen open, on each of the paths that lead to it: catch-up, timer, grace,
  recovery, release of the waiting list.

What makes a step right was decided when a frame was pushed, perhaps hours and
many nested loops ago. So each frame vouches for what its caller had checked
(`Vouched`): a frame that collects, that its result is not complete; one that
tells, that its briefing is completed; one that releases the pre-market
briefing, that it may run. `DInv` says that the whole stack vouches truly and
holds no briefing twice, that the waiting list holds the pre-market briefing
only when it may run (`WaitsLong`), and that the observation is asked for once
in a process (`AskedOnce`). Nothing makes a frame untrue while it waits: a
result can only be completed by its own frame, of which there is one, and a
grace that has ended, or a market that was seen open, stays so until the process
ends.

### Storage
- `DiskKept`: all or nothing for a reader, for a save that raises and for what a
  restart finds.
- `RegisterImplemented`: the file operations implement `ResultRegister`. Each
  operation publishes, withdraws or restores a version, or changes nothing that
  a reader sees.

What a file holds depends on how far the plan has come. `SInv` lists the points
of the three clauses of `_save_paths` and the stage of both files at each.

### Notifications
- `OneOwner`: one job at most for a message, marked in flight exactly as long.
- `NothingTwice`: no process sends what the history held when it was started.
- `NoneDropped`: a message leaves the queue only received, old and no briefing,
  or in a restart from a file that lagged.

Without a lock every step is interleaved with every other. `NInv` states what
each thread may count on between two of its own steps: which message it owes an
attempt, what it was told of it, and that it will still write the file.

### Collection session
For every universe, set of codes that pass, limit of the breaker and of
failures, number of invocations and of damages:

- `Forgotten`: a completed code leaves the checkpoint only if its artifacts were
  damaged or hold no row, a failure only if the code is completed or SIGINT fell
  between the two lists of its turn.
- `BackedAlways`: what the checkpoint lists as completed, and what SIGINT would
  save, has its artifacts, unless they were damaged.
- `RecordsAgree`: checkpoint, artifacts and journal agree, and nothing answered
  is asked for again.
- `CompletedAccounted`: what says completed has tried everything and reports
  what passes.
- `CompletedPublishable`: what was completed without a recorded failure passes
  the validator, if its answers allow it (`Publishable`) and nothing was left
  behind by what cut an invocation short (`CutCleanly`).

The file is what the properties are about, but the next file is written from
memory, in the middle of a turn too. For the first two, `KInv` adds that the
memory of the invocation under way has lost nothing the file holds (`Kept`), but
for the code that is being moved from one list to the other, and
lists nothing without artifacts (`Backed`), that a session without a file lists
nothing (`Begun`), and the shape of the records; it needs no assumption on the
constants. For the others `FInv` says, for every point of a turn, about which
code the records may disagree (`Halfway`, and `cut` once the turn was
interrupted), and keeps, in terms that survive later damage, what a completed
session had tried (`Reported`). It needs `SessionAssumption`.

### Partitioned collection
For every universe, both batch sizes, every limit of candidates and breaker:

- `BatchesKept`: batches partition the universe, are taken in order, the flow
  phase rests on all prices, what is listed is saved, reports are true, and the
  collection is stuck in the two named situations only.
- `FetchedOnce`: no live invocation requests a code that the file lists as done.

First that `split_batches` partitions a list without repetitions, which is
arithmetic: the m-th code of batch i stands at place (i - 1) * size + m, and
each place is that of one batch and position (`Quotient`, `SamePlace`,
`SplitPlaces`). Then `CInv`: what the file says of itself (`ProgressOK`), what a
live invocation holds between the file and the artifacts (`Holds`: all it counts
as completed was completed in the file or is on disk, and no code that is left
is), and what was reported last (`ToldOK`). A batch is written in place, so every
save rests on one lemma (`ReplacedRow`): the batches stay in order when the
changed one has only complete ones before it and was not complete itself. That
a partial batch has a failed code (`RowOK`), with which a repair can begin, is
what keeps a collection from being stuck (`SomeoneCanTake`).

### Report publication
- `NobodySeesHalf`: a pointer leads to a whole version of its day by one run,
  and the dashboard, which looks for two files of three, shows no other.
- `MessagesNameFiles`: a message names a whole report, a daily one a day with a
  pointer.
- `SameNews`: the dashboard shows no older day than a briefing of today, nor
  another report of the same day.
- `PastLeavesLatest`: a pointer moves only to a report of a run of its day.

`PInv` holds for any number of days, reports, writers and runs. The metadata is
written last and nothing is ever taken away, so it stands for the whole
(`Complete`). That one run has written all of it has two reasons (`Stamped`):
what publications write depends on the report only, and the daily service is
alone. What a writer may rely on at each step (`OrderedFor`) is kept by the
steps of the others.

### Rules
For any answers of the server, accounts, files, stocks, rankings, states and
records that the named assumptions of `RuleCases` admit:

- `BriefingsJudged`: a briefing says of the market what its data carry, the
  opposite market gets the opposite state, a source that fails moves the score
  by its own direction and makes nothing more confident; a market close is fair.
- `HoldingsAreAdvised`: all positions are accounted for, nothing is bought
  because it fell.
- `BestAreChosen`: recommendations, universe and leaders are the best of what is
  evaluated (of the leaders, of the first `MaxCandidates` that are named) and as
  many as there is room for; a snapshot that is written loads.
- `PlansExact`: requests for what is due, once; bars or a failure for each
  stock of a run.
- `NothingAhead`: no signal or flow depends on days to come, on the prices of a
  week that is not over, or on the order of the rows.

That a case is judged by the rules of its kind is the invariant (`RInv`); the
work is in the rules, and rests on two arguments. What is sorted has a key of
numbers that tells its elements apart (`KeysOrder`), so the place of an element
is the number of those below it (`Ranks`): the sorted sequence lists its set
(`RankedLists`) and its first n are the best (`BestOf`), without induction over
a sorting algorithm. And a score is the number of components that rise less the
number of those that fall (`ScoreTurns`, `ScoreLoses`), so that turning the
market swaps two sets and a source that fails takes an element or two out of
them. What a signal or a flow looks at is a set: a signal is made of the weeks
that have ended (`SignalOfEnded`), a flow of the first rows of their days
(`FlowOfRows`). So it is enough that the other rows leave that set as it is: a
changed price leaves the choice of the bars alone (`ChangeChooses`), and the
week under way has not ended, whatever its prices are (`RunningWeek`).

The assumptions are what the code gets from elsewhere: a stock is evaluated and
is a candidate once; bars bear the code of their stock; the strong list fits
into all recommendations, as the defaults of the policy have it; what the server
says of a code does not depend on the market it is asked about; and an average
of 60 days comes with the shorter ones.

### Model-checked only
- All liveness (`OutagesEnd`, `AnsweredIfResumed`, `WaitingIsRun`,
  `WaitEndsUnlessHeld`, `RuntimeSettles`, `Settles`, `EveryBriefingComes`) and
  ENABLED: beyond the proof system.
- The hazards of `PROJECT.json` without a property.

Every safety property that a passing run checks is the property of a theorem.
What the code filters, sorts and adds up in loops is said with sets, quantifiers
and sums in the modules with theorems: about a recursive definition nothing
could be proved for all inputs.

## Not modelled
- Texts, formats, logs, printing and arguments of commands; renderers; the
  dashboard's drawing and the tray; HTTP and DPAPI.
- The market calendar, a stateless lookup, and diagnostics that probe an
  installation once.
- Manual validation mode (`recoverable=False`), which only drops the retry.
- In the TR queue, calls of the adapter that raise
  (`kiwoom/tr_requests.py:292-298`, `330`) instead of returning a code. In the
  storage of results, faults inside one file operation: one that raises between
  mkstemp, close and unlink, or between creating and closing a temporary file
  (`briefing/storage.py:172-203`), may leave an empty or unfinished file with a
  name of its own, which no reader looks for.
- COM details of the adapter: signal wiring, its close, and the thread of the
  confirmation monitor, of which the manager reads nothing.
- Two briefing processes at once: the process lock is taken as working.
- The order of the resources within request_shutdown, which is one step here.
  The notification service is stopped before the monitor submits its summary,
  in every shutdown: there is nothing to search for.
- Of the collections: hash checks, which stop the program, the quarantine of
  damaged caches, the failure journal of offline batches.
- The features of a stock and three parts of its score, which are formulas
  without a decision.

## Plan
1. Two processes over notification_queue.json, the publish command and the
   briefing process, as a composition of `NotificationDelivery` with itself.
2. The order of resources at shutdown with the failures of each.
