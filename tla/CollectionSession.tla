-------------------------- MODULE CollectionSession --------------------------
(***************************************************************************)
(* run_full_collection_live: one session collects the prices and then the  *)
(* flows of its codes in a directory, over several invocations that start  *)
(* it, resume it or repair it.                                             *)
(*                                                                         *)
(* Nothing runs beside it; the hazard is where it stops.  Artifacts, the   *)
(* failure journal and the checkpoint are files of their own, written one  *)
(* after the other, and the lists of the checkpoint are changed one by     *)
(* one: a kill loses what is in memory, and SIGINT raises between any two  *)
(* statements and then saves what it finds.  Either may leave more behind  *)
(* than a state to resume: a temporary file, which nothing removes, and a  *)
(* session without its failure journal.                                    *)
(*                                                                         *)
(* Left out: counters of the progress that only the printout uses, the     *)
(* weekly list, which is kept like the list of codes that pass, the        *)
(* attempts in the journal, disk errors, and scores, of which the report   *)
(* chooses any codes.  What earlier sessions have is taken over in one     *)
(* step; the four files of a price are one artifact, of which a damage     *)
(* hits a part that a resume reads.                                        *)
(***************************************************************************)
EXTENDS Integers, FiniteSets, FiniteSetsExt

CONSTANTS
    N,              \* the codes are 1 .. N, in the order of the universe
    Passing,        \* codes whose weekly close is above its average
    Uncounted,      \* codes that the evaluation for the report does not let pass: less
                    \* than 120 days, or a last week that closes after its master data
    Rowless,        \* codes of whose flows the answer has no row
    PilotSize,      \* the number of codes that the validator asks for: 100
    MinAttempts,    \* failure_abort_minimum_attempts: 10
    LimitPercent,   \* failure_rate_limit: 25
    BreakerLimit,   \* consecutive timeouts that end an invocation: 3
    MaxInvocations, \* bound: invocations
    MaxDamages      \* bound: artifacts that are damaged between invocations

ASSUME SessionAssumption ==
    /\ N \in Nat \ {0}
    /\ Passing \cup Uncounted \cup Rowless \subseteq 1 .. N
    /\ PilotSize \in Nat
    /\ MinAttempts \in Nat \ {0}
    /\ LimitPercent \in 0 .. 100
    /\ BreakerLimit \in Nat \ {0}
    /\ MaxInvocations \in Nat
    /\ MaxDamages \in Nat

Codes == 1 .. N
Kinds == {"price", "flow"}

VARIABLES
    disk,      \* progress.json
    saved,     \* the codes whose artifacts are there and can be read
    opened,    \* whether failures.json is there
    journal,   \* its unresolved entries
    recorded,  \* whether it has entries at all, those that are resolved too
    report,    \* reports/recommendations.json
    leftover,  \* whether a temporary file has been left in the directory
    today,     \* whether it is still the session's target date
    at,        \* the step of the invocation
    mode,      \* what the invocation does, or the last one did
    mem,       \* its CollectionProgress
    kind,      \* the loop it is in
    todo,      \* the codes of that loop still to come
    why,       \* how the last request has failed
    \* history
    invocations,
    damaged,   \* artifacts that were damaged
    cut        \* codes of which a list or the journal was changed and another list not

cvars == <<disk, saved, opened, journal, recorded, report, leftover, today, at, mode, mem,
           kind, todo, why, invocations, damaged, cut>>

\* What only the beginning and the end of an invocation change.
settled == <<opened, leftover, today, invocations, damaged, cut>>

None == [k \in Kinds |-> {}]
Phases == {"absent", "planned", "price", "flow", "connection_lost", "interrupted", "aborted", "completed"}
Progress == [phase : Phases, done : [Kinds -> SUBSET Codes],
             failed : [Kinds -> SUBSET Codes], pass : SUBSET Codes,
             targets : SUBSET Codes, timeouts : 0 .. BreakerLimit]
NoReport == [made |-> FALSE, priced |-> {}, codes |-> {}, chosen |-> {}]

CTypeOK ==
    /\ {disk, mem} \subseteq Progress
    /\ {saved, damaged} \subseteq [Kinds -> SUBSET Codes]
    /\ journal \subseteq Codes \X Kinds
    /\ {opened, recorded, leftover, today} \subseteq BOOLEAN
    /\ report \in [made : BOOLEAN, priced : SUBSET Codes, codes : SUBSET Codes,
                   chosen : SUBSET Codes]
    /\ at \in {"off", "created", "loop", "saved", "cleared", "listed", "failed", "tried",
              "completing"}
    /\ mode \in {"new", "resume", "repair"}
    /\ kind \in Kinds
    /\ todo \subseteq Codes
    /\ why \in {"timeout", "error"}
    /\ invocations \in 0 .. MaxInvocations
    /\ cut \subseteq Codes

Fresh == [phase |-> "absent", done |-> None, failed |-> None, pass |-> {},
          targets |-> {}, timeouts |-> 0]

CInit ==
    /\ disk = Fresh /\ mem = Fresh
    /\ saved = None /\ opened = FALSE /\ journal = {} /\ recorded = FALSE
    /\ report = NoReport /\ leftover = FALSE /\ today = TRUE
    /\ at = "off" /\ mode = "new" /\ kind = "price"
    /\ todo = {} /\ why = "error"
    /\ invocations = 0 /\ damaged = None /\ cut = {}

-----------------------------------------------------------------------------
(***************************************************************************)
(* What the loops ask.                                                     *)
(***************************************************************************)

\* The code whose turn it is, or that is being handled.
Current == Min(todo)

\* pending_price_codes
PendingPrices(p) == Codes \ (p.done["price"] \cup p.failed["price"])

\* failed_price_repair_targets
PriceRepairTargets(p) == p.failed["price"] \ p.done["price"]

\* The artifacts that a later invocation accepts: _valid_flow_cache takes a flow
\* without a row for a corrupt one.
Accepted(k) == IF k = "flow" THEN saved[k] \ Rowless ELSE saved[k]

\* Mutant of FlowTargets: only those still to be asked for.
FlowTargetsPending(p) == (p.pass \cap saved["price"]) \ p.done["flow"]

\* The candidates of the flow phase, all within flow_candidate_limit.
FlowTargets(p) == p.pass \cap saved["price"]

\* failed_flow_repair_targets
FlowRepairTargets(p) ==
    (p.failed["flow"] \cup FlowTargets(p)) \ (FlowTargets(p) \cap Accepted("flow"))

\* should_abort_for_failures
TooManyFailures(completed, failed) ==
    /\ completed + failed >= MinAttempts
    /\ failed * 100 > LimitPercent * (completed + failed)

\* The counts at the end of a turn: the flow loop counts both kinds.
Aborts(p) ==
    LET Count(lists) == Cardinality(lists["price"])
                        + (IF kind = "flow" THEN Cardinality(lists["flow"]) ELSE 0)
    IN  TooManyFailures(Count(p.done), Count(p.failed))

-----------------------------------------------------------------------------
(***************************************************************************)
(* The start of an invocation.                                             *)
(***************************************************************************)

Begins ==
    /\ at = "off" /\ invocations < MaxInvocations
    /\ invocations' = invocations + 1

\* The checkpoint with which the price loop begins.
Enter(m, p, codes) ==
    /\ at' = "loop" /\ kind' = "price"
    /\ mode' = m
    /\ mem' = [p EXCEPT !.phase = "price", !.timeouts = 0]
    /\ disk' = mem'
    /\ todo' = codes
    /\ UNCHANGED <<journal, recorded, report, leftover, today, why, damaged, cut>>

\* restore_compatible_prices, restore_compatible_flows: what completed sessions
\* have of the same date, with 120 days or more, may be any of the codes.
Restorable(codes) == SUBSET codes

\* A new session: its directory, and the last but one of its files.
CreateSession ==
    /\ Begins
    /\ disk.phase = "absent" /\ today
    /\ disk' = [Fresh EXCEPT !.phase = "planned"]
    /\ at' = "created"
    /\ UNCHANGED <<saved, opened, journal, recorded, report, leftover, today, mode, mem, kind,
                   todo, why, damaged, cut>>

\* Its last file, and what earlier sessions have.
StartSession ==
    /\ at = "created"
    /\ opened' = TRUE
    /\ \E restored \in Restorable(Codes) :
        LET p == [Fresh EXCEPT !.done["price"] = restored, !.pass = restored \cap Passing]
        IN  /\ saved' = [None EXCEPT !["price"] = restored]
            /\ Enter("new", p, PendingPrices(p))
    /\ UNCHANGED invocations

\* What a resumed session still has: a code whose artifacts are not accepted is
\* taken out of the lists.
Reread(p) ==
    LET have == p.done["price"] \cap Accepted("price")
    IN  [p EXCEPT !.done = [k \in Kinds |-> @[k] \cap Accepted(k)],
                  !.pass = @ \ (p.done["price"] \ have)]

\* The checks of a resume: the same universe and tier, and the same date.
MayResume == disk.phase # "absent" /\ today

\* The checks of a repair: some code has failed; any day will do.
MayRepair ==
    /\ disk.phase # "absent"
    /\ disk.failed["price"] \cup disk.failed["flow"] # {}

\* --resume
ResumeSession ==
    /\ Begins /\ MayResume
    /\ LET p == Reread(disk) IN Enter("resume", p, PendingPrices(p))
    /\ UNCHANGED <<saved, opened>>

\* --repair-failed
RepairSession ==
    /\ Begins /\ MayRepair
    /\ LET p == Reread(disk) IN Enter("repair", p, PriceRepairTargets(p))
    /\ UNCHANGED <<saved, opened>>

\* The login fails: the invocation leaves a session of its own, which nothing
\* resumes, and ends before it has looked at this one.
LoginFails ==
    /\ Begins
    /\ UNCHANGED <<disk, saved, opened, journal, recorded, report, leftover, today, at, mode,
                   mem, kind, todo, why, damaged, cut>>

-----------------------------------------------------------------------------
(***************************************************************************)
(* One turn of a loop: a request, the lists, the journal, the checkpoint.  *)
(***************************************************************************)

\* The flow loop passes over what is done, and over failures unless it repairs.
Skipped(c) ==
    kind = "flow" /\ (c \in mem.done["flow"] \/ (mode # "repair" /\ c \in mem.failed["flow"]))

Skip ==
    /\ at = "loop" /\ todo # {} /\ Skipped(Current)
    /\ todo' = todo \ {Current}
    /\ UNCHANGED <<disk, saved, journal, recorded, report, at, mode, mem, kind, why, settled>>

\* Mutant of Collect: the artifacts stay in memory.
CollectUnsaved ==
    /\ at = "loop" /\ todo # {} /\ ~Skipped(Current)
    /\ at' = "saved"
    /\ UNCHANGED <<disk, saved, journal, recorded, report, mode, mem, kind, todo, why, settled>>

\* An answer: its artifacts are saved,
Collect ==
    /\ at = "loop" /\ todo # {} /\ ~Skipped(Current)
    /\ saved' = [saved EXCEPT ![kind] = @ \cup {Current}]
    /\ at' = "saved"
    /\ UNCHANGED <<disk, journal, recorded, report, mode, mem, kind, todo, why, settled>>

\* the code is no failure any more,
Clear ==
    /\ at = "saved"
    /\ mem' = [mem EXCEPT !.failed[kind] = @ \ {Current}]
    /\ at' = "cleared"
    /\ UNCHANGED <<disk, saved, journal, recorded, report, mode, kind, todo, why, settled>>

\* and is listed as completed.
List ==
    /\ at = "cleared"
    /\ mem' = [mem EXCEPT !.done[kind] = @ \cup {Current}, !.timeouts = 0]
    /\ at' = "listed"
    /\ UNCHANGED <<disk, saved, journal, recorded, report, mode, kind, todo, why, settled>>

\* A repair resolves the failure; a price is put through the hard filter.
Settle ==
    /\ at = "listed" /\ (mode = "repair" => opened)
    /\ journal' = IF mode = "repair" THEN journal \ {<<Current, kind>>} ELSE journal
    /\ mem' = IF kind = "price"
              THEN [mem EXCEPT !.pass = (IF mode = "repair" THEN @ \ {Current} ELSE @)
                                        \cup ({Current} \cap Passing)]
              ELSE mem
    /\ at' = "tried"
    /\ UNCHANGED <<disk, saved, recorded, report, mode, kind, todo, why, settled>>

\* No answer, or none that can be used.
Fail ==
    /\ at = "loop" /\ todo # {} /\ ~Skipped(Current)
    /\ mem' = [mem EXCEPT !.failed[kind] = @ \cup {Current}]
    /\ why' \in {"timeout", "error"}
    /\ at' = "failed"
    /\ UNCHANGED <<disk, saved, journal, recorded, report, mode, kind, todo, settled>>

\* append_failure and _record_attempt_result; the connection may be lost.
Journal ==
    /\ at = "failed" /\ opened
    /\ journal' = journal \cup {<<Current, kind>>} /\ recorded' = TRUE
    /\ \E lost \in BOOLEAN :
        mem' = [mem EXCEPT !.timeouts = IF why = "timeout" THEN @ + 1 ELSE 0,
                           !.phase = IF lost THEN "connection_lost" ELSE @]
    /\ at' = "tried"
    /\ UNCHANGED <<disk, saved, report, mode, kind, todo, why, settled>>

\* The phase in which the turn leaves the session: _interrupt_for_timeouts for
\* the breaker.
Verdict(p) ==
    IF p.phase = "connection_lost" THEN p.phase
    ELSE IF p.timeouts >= BreakerLimit THEN "interrupted"
    ELSE IF Aborts(p) THEN "aborted"
    ELSE p.phase

\* checkpoint(), and the end of the turn or of the invocation.
Checkpoint ==
    /\ at = "tried"
    /\ mem' = [mem EXCEPT !.phase = Verdict(mem)]
    /\ disk' = mem'
    /\ todo' = todo \ {Current}
    /\ at' = IF mem'.phase \in Kinds THEN "loop" ELSE "off"
    /\ UNCHANGED <<saved, journal, recorded, report, mode, kind, why, settled>>

-----------------------------------------------------------------------------
(***************************************************************************)
(* Between the loops and after them.                                       *)
(***************************************************************************)

\* Mutant of SelectFlows: what has failed is forgotten, as it is not retried.
SelectFlowsAfresh ==
    /\ at = "loop" /\ kind = "price" /\ todo = {}
    /\ kind' = "flow"
    /\ mem' = [mem EXCEPT !.phase = "flow", !.targets = FlowTargets(mem), !.failed["flow"] = {}]
    /\ todo' = FlowTargets(mem)
    /\ UNCHANGED <<disk, saved, journal, recorded, report, at, mode, why, settled>>

\* The targets of the flow phase; a new session takes what there is of them.
SelectFlows ==
    /\ at = "loop" /\ kind = "price" /\ todo = {}
    /\ kind' = "flow"
    /\ LET targets == IF mode = "repair" THEN mem.targets \cup FlowTargets(mem)
                      ELSE FlowTargets(mem)
       IN  \E restored \in (IF mode = "new" THEN Restorable(targets \ Rowless) ELSE {{}}) :
            /\ saved' = [saved EXCEPT !["flow"] = @ \cup restored]
            /\ mem' = [mem EXCEPT !.phase = "flow", !.targets = targets,
                                  !.done["flow"] = @ \cup restored]
            /\ disk' = IF mode = "new" THEN mem' ELSE disk
            /\ todo' = IF mode = "repair" THEN FlowRepairTargets(mem) ELSE targets
    /\ UNCHANGED <<journal, recorded, report, at, mode, why, settled>>

\* A report of what there is, which recommends some of the codes that it lets pass.
Reports ==
    LET codes == mem.pass \cap saved["price"]
    IN  {[made |-> TRUE, priced |-> mem.done["price"], codes |-> codes, chosen |-> chosen] :
            chosen \in SUBSET (codes \ Uncounted)}

\* Mutant of MakeReport: a repair leaves the report as it is.
ReportOnce ==
    /\ at = "loop" /\ kind = "flow" /\ todo = {}
    /\ IF report.made THEN UNCHANGED report ELSE report' \in Reports
    /\ at' = "completing"
    /\ UNCHANGED <<disk, saved, journal, recorded, mode, mem, kind, todo, why, settled>>

\* The report: not when a repair leaves a failure.
MakeReport ==
    /\ at = "loop" /\ kind = "flow" /\ todo = {}
    /\ IF mode = "repair" /\ mem.failed["price"] \cup mem.failed["flow"] # {}
       THEN UNCHANGED report
       ELSE report' \in Reports
    /\ at' = "completing"
    /\ UNCHANGED <<disk, saved, journal, recorded, mode, mem, kind, todo, why, settled>>

Complete ==
    /\ at = "completing"
    /\ mem' = [mem EXCEPT !.phase = "completed"]
    /\ disk' = mem'
    /\ at' = "off"
    /\ UNCHANGED <<saved, journal, recorded, report, mode, kind, todo, why, settled>>

-----------------------------------------------------------------------------
(***************************************************************************)
(* What cuts an invocation short, and what happens between two.            *)
(***************************************************************************)

\* What SIGINT saves by halves: one list is changed and another not yet, or the
\* journal is not.
HalfListed == IF at \in {"cleared", "listed", "failed"} THEN {Current} ELSE {}

\* What the death of the process leaves by halves: the journal is written, and
\* the checkpoint is not.
HalfWritten ==
    IF at = "tried" /\ (mode = "repair" \/ Current \in mem.failed[kind]) THEN {Current} ELSE {}

\* atomic_write_json: what stops it between mkstemp and replace may leave its
\* temporary file behind, and nothing removes one.
Leftovers == {leftover, TRUE}

\* SIGINT: what the memory holds is saved, in the middle of a turn too.
Interrupt ==
    /\ at \notin {"off", "created"}
    /\ mem' = [mem EXCEPT !.phase = "interrupted"]
    /\ disk' = mem'
    /\ at' = "off"
    /\ cut' = cut \cup HalfListed
    /\ leftover' \in Leftovers
    /\ UNCHANGED <<saved, opened, journal, recorded, report, today, mode, kind, todo, why,
                   invocations, damaged>>

\* The invocation ends where it is, and its memory is lost.
Dies ==
    /\ at' = "off"
    /\ mem' = disk
    /\ cut' = cut \cup HalfWritten
    /\ UNCHANGED <<disk, saved, opened, journal, recorded, report, today, mode, kind, todo,
                   why, invocations, damaged>>

\* The process dies; so does it at SIGINT while the session is created.
Kill == at # "off" /\ Dies /\ leftover' \in Leftovers

\* failures.json is not there to be read, and its exception ends the invocation.
JournalMissing ==
    /\ at = "failed" \/ (at = "listed" /\ mode = "repair")
    /\ ~opened
    /\ Dies
    /\ UNCHANGED leftover

\* An artifact is damaged.
Damage ==
    /\ at = "off"
    /\ Cardinality(damaged["price"]) + Cardinality(damaged["flow"]) < MaxDamages
    /\ \E k \in Kinds : \E c \in saved[k] :
        /\ saved' = [saved EXCEPT ![k] = @ \ {c}]
        /\ damaged' = [damaged EXCEPT ![k] = @ \cup {c}]
    /\ UNCHANGED <<disk, opened, journal, recorded, report, leftover, today, at, mode, mem,
                   kind, todo, why, invocations, cut>>

NextDay ==
    /\ at = "off" /\ today /\ disk.phase # "absent"
    /\ today' = FALSE
    /\ UNCHANGED <<disk, saved, opened, journal, recorded, report, leftover, at, mode, mem,
                   kind, todo, why, invocations, damaged, cut>>

Turn == Skip \/ Collect \/ Clear \/ List \/ Settle \/ Fail \/ Journal \/ Checkpoint

CNext ==
    \/ CreateSession \/ StartSession \/ ResumeSession \/ RepairSession \/ LoginFails
    \/ Turn
    \/ SelectFlows \/ MakeReport \/ Complete
    \/ Interrupt \/ Kill \/ JournalMissing
    \/ Damage \/ NextDay

(***************************************************************************)
(* validate_full_collection_session, before a session is published.        *)
(***************************************************************************)

\* What publish accepts: every file can be read and none is temporary, the pilot
\* has its size, nothing has failed, not even what was resolved, and lists,
\* artifacts and report name the same codes.
Validates ==
    /\ opened /\ ~leftover
    /\ N = PilotSize
    /\ disk.phase = "completed"
    /\ ~recorded /\ disk.failed = None
    /\ saved["price"] = Codes
    /\ saved["flow"] = disk.pass /\ disk.targets = disk.pass /\ disk.done["flow"] = disk.pass
    /\ report.made /\ Cardinality(report.priced) = PilotSize
    /\ Cardinality(report.codes) = Cardinality(disk.pass)
    /\ Cardinality(report.codes \ Uncounted) = Cardinality(disk.pass)
    /\ report.chosen \subseteq disk.pass \ Rowless

CSpec == CInit /\ [][CNext]_cvars

-----------------------------------------------------------------------------
(***************************************************************************)
(* Properties.                                                             *)
(***************************************************************************)

\* The checkpoint claims nothing it cannot show: a completed code has its
\* artifacts, wherever the process died, and is a target of the flow phase
\* exactly if it passes, unless SIGINT cut its turn in two.
CheckpointIsBacked ==
    /\ \A k \in Kinds : disk.done[k] \subseteq saved[k] \cup damaged[k]
    /\ disk.pass \subseteq disk.done["price"] \cap Passing
    /\ disk.done["price"] \cap Passing \subseteq disk.pass \cup cut

\* No request is spent twice: what the checkpoint lists as completed, and can
\* be read, is not asked for by any later invocation.
NeverAskedAgain ==
    at = "loop" /\ todo # {} /\ ~Skipped(Current)
        => Current \notin disk.done[kind] \cap saved[kind]

\* Over all invocations a code is forgotten only if its artifacts are damaged or
\* hold no row, and a failure only if the code is completed, unless SIGINT cut
\* its turn between the two lists.
NothingForgotten ==
    [][\A k \in Kinds :
          /\ disk.done[k] \ disk'.done[k] \subseteq damaged[k] \cup (saved[k] \ Accepted(k))
          /\ disk.failed[k] \ disk'.failed[k] \subseteq disk'.done[k] \cup cut']_cvars

\* Between invocations the failure journal holds the failures of the
\* checkpoint, but for codes whose turn was cut in two.
JournalAgrees ==
    at = "off" =>
        \A c \in Codes \ cut, k \in Kinds :
            c \in disk.failed[k] <=> <<c, k>> \in journal

\* A session that completes, other than by a repair, has tried every code and
\* every target.
CompletedIsTried ==
    disk.phase = "completed" /\ mode # "repair" =>
        /\ Codes = disk.done["price"] \cup disk.failed["price"]
        /\ disk.targets \subseteq disk.done["flow"] \cup disk.failed["flow"]

\* Nothing is left of an invocation that was cut short, but what is resumed: no
\* turn in two, no temporary file, no session without its failure journal.
CutCleanly == cut = {} /\ ~leftover /\ opened

\* The answers allow a publication: as many codes as the pilot has, the report
\* counts those that pass, and what it recommends has flows.
Publishable ==
    /\ N = PilotSize
    /\ disk.pass \cap Uncounted = {}
    /\ report.chosen \cap Rowless = {}

\* A session that completes without a failure and without an unread damage can be
\* published if its answers allow it and the invocations that were cut short
\* left nothing behind: however often it was resumed, interrupted, killed or
\* damaged before, its files, lists and report name the same codes.
CompletedValidates ==
    disk.phase = "completed" /\ ~recorded /\ (\A k \in Kinds : damaged[k] \subseteq saved[k])
        /\ CutCleanly /\ Publishable
        => Validates

\* After repairs too, which replace the report only then, the report of a
\* completed session without an unresolved failure is of the codes that pass.
ReportMatches ==
    disk.phase = "completed" /\ disk.failed = None =>
        /\ report.made
        /\ disk.pass \ damaged["price"] \subseteq report.codes
        /\ report.codes \subseteq disk.pass

\* The three records of a session, its checkpoint, its artifacts and its failure
\* journal, agree wherever the process died, and save every request that has
\* been spent.
CheckpointHolds == CTypeOK /\ CheckpointIsBacked /\ NeverAskedAgain /\ JournalAgrees

\* What a completed session says is what it has done.
CompletedIsAccounted == CompletedIsTried /\ ReportMatches
=============================================================================
