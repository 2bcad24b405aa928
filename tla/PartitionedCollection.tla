----------------------- MODULE PartitionedCollection -----------------------
(***************************************************************************)
(* A collection over the whole market, split into batches, of which every  *)
(* invocation of the program advances one.  All that invocations share is  *)
(* on disk: progress.json, which names the batches and what is done, and   *)
(* one set of artifacts for each collected code.                           *)
(*                                                                         *)
(* An invocation is either live (run_partitioned_live_batch), step by step *)
(* and possibly killed, or offline (apply_mock_batch and its finalizers),  *)
(* which the validation and the tests use, in one step.  A live invocation *)
(* without repair or resume takes its batch from next_batch(path), a       *)
(* second reading of the file: what it writes to that batch is not part of *)
(* the progress it saves.                                                  *)
(***************************************************************************)
EXTENDS Naturals, Sequences, FiniteSets, SequencesExt

CONSTANTS
    Universe,        \* the codes of the frozen universe, in order
    PriceBatchSize,
    FlowBatchSize,
    FlowLimit,       \* FLOW_CANDIDATE_LIMIT
    BreakerLimit     \* timeouts in a row that interrupt a batch

\* The universe is sorted by market and code, and has no code twice.
ASSUME CollectionAssumption ==
    /\ Universe \in Seq(ToSet(Universe)) /\ Len(Universe) > 0
    /\ IsInjective(Universe)
    /\ PriceBatchSize \in Nat \ {0}
    /\ FlowBatchSize \in Nat \ {0}
    /\ FlowLimit \in Nat
    /\ BreakerLimit \in Nat \ {0}

VARIABLES
    progress,  \* progress.json
    saved,     \* the codes with a whole set of artifacts, of each kind
    run,       \* the live invocation under way
    told       \* what the last invocation has reported, and whether it saved its batch

pvars == <<progress, saved, run, told>>

Kinds == {"price", "flow"}
Codes == ToSet(Universe)
Modes == {"next", "repair", "resume"}
NoRun == [mode |-> "none"]
Silent == [status |-> "none"]

Row(codes) == [codes |-> codes, status |-> "pending", completed |-> {}, failed |-> {}]

SplitBatches(codes, size) ==
    [i \in 1 .. (Len(codes) + size - 1) \div size |->
        SubSeq(codes, (i - 1) * size + 1,
               IF i * size < Len(codes) THEN i * size ELSE Len(codes))]

Rows(codes, size) ==
    LET batches == SplitBatches(codes, size) IN [i \in DOMAIN batches |-> Row(batches[i])]

\* create_parent_collection.
PInit ==
    /\ progress = [phase |-> "planned",
                   rows |-> [k \in Kinds |-> IF k = "price"
                                             THEN Rows(Universe, PriceBatchSize) ELSE <<>>],
                   done |-> [k \in Kinds |-> {}],
                   bad  |-> [k \in Kinds |-> {}]]
    /\ saved = [k \in Kinds |-> {}]
    /\ run = NoRun
    /\ told = Silent

RowType(row) ==
    /\ row.status \in {"pending", "running", "partial", "interrupted", "complete"}
    /\ row.completed \subseteq ToSet(row.codes)
    /\ row.failed \subseteq ToSet(row.codes) \ row.completed

PTypeOK ==
    /\ progress.phase \in {"planned", "price_collection", "flow_collection", "complete"}
    /\ \A k \in Kinds : \A i \in DOMAIN progress.rows[k] : RowType(progress.rows[k][i])
    /\ progress.done \in [Kinds -> SUBSET Codes]
    /\ progress.bad \in [Kinds -> SUBSET Codes]
    /\ saved \in [Kinds -> SUBSET Codes]
    /\ run.mode \in Modes \cup {"none"}

-----------------------------------------------------------------------------
(***************************************************************************)
(* Progress.                                                               *)
(***************************************************************************)

\* The first invocation leaves the planned phase.
Started(p) == IF p.phase = "planned" THEN [p EXCEPT !.phase = "price_collection"] ELSE p

Collecting(p) == p.phase \in {"price_collection", "flow_collection"}
KindOf(p) == IF p.phase = "price_collection" THEN "price" ELSE "flow"
Whole(rows) == \A i \in DOMAIN rows : rows[i].status = "complete"

First(I) == {i \in I : \A j \in I : i <= j}
WithStatus(rows, S) == {i \in DOMAIN rows : rows[i].status \in S}

\* next_batch: the first pending batch, if all before it are complete.
NextRows(rows) ==
    {i \in WithStatus(rows, {"pending"}) : \A j \in 1 .. i - 1 : rows[j].status = "complete"}

\* The batch, if any, that a live invocation works on.
LiveRows(mode, rows) ==
    CASE mode = "next"   -> NextRows(rows)
      [] mode = "repair" -> First({i \in WithStatus(rows, {"partial", "interrupted"}) :
                                     rows[i].failed # {}})
      [] mode = "resume" -> First(WithStatus(rows, {"interrupted"}))

\* The parent's lists follow what is known of one batch.
Listed(p, kind, completed, failed) ==
    [p EXCEPT !.done[kind] = @ \cup completed,
              !.bad[kind] = (@ \cup failed) \ completed]

Recorded(p, kind, i, status, completed, failed) ==
    [Listed(p, kind, completed, failed) EXCEPT
        !.rows[kind][i] = [codes |-> @.codes, status |-> status,
                           completed |-> completed, failed |-> failed]]

Outcome(failed) == IF failed = {} THEN "complete" ELSE "partial"

\* Mutant of PricesFinal: the batches are believed.
BatchesFinal(p) == Whole(p.rows.price) /\ p.bad["price"] = {}

\* What finalize_price_phase asks for before it starts the flow phase.
PricesFinal(p) ==
    /\ Whole(p.rows.price)
    /\ p.bad["price"] = {}
    /\ Cardinality(p.done["price"]) = Len(Universe)

\* Scores choose the candidates and order them.
StartsFlow(p) ==
    {[p EXCEPT !.phase = "flow_collection", !.rows["flow"] = Rows(chosen, FlowBatchSize)] :
        chosen \in {s \in BoundedSeq(Codes, FlowLimit) : IsInjective(s)}}

-----------------------------------------------------------------------------
(***************************************************************************)
(* Offline invocations.                                                    *)
(***************************************************************************)

\* The codes of a batch that an invocation goes through, by their positions.
Targets(row, repair) ==
    {j \in DOMAIN row.codes :
        row.codes[j] \notin row.completed /\ (repair => row.codes[j] \in row.failed)}

At(codes, J) == {codes[j] : j \in J}

\* The last BreakerLimit of the codes tried have timed out.
Broken(codes, tried, failing) ==
    \E j \in tried : LET last == {m \in tried : m >= j} IN
        Cardinality(last) = BreakerLimit /\ At(codes, last) \subseteq failing

\* apply_mock_batch: the codes of failing time out, and after `stop` codes the
\* user interrupts, if there are more.
MockBatch(repair) ==
    LET p == Started(progress)
        kind == KindOf(p)
        rows == p.rows[kind]
    IN
    /\ run = NoRun
    /\ repair \/ Collecting(p)
    /\ \E i \in IF repair THEN First(WithStatus(rows, {"partial", "interrupted"}))
                          ELSE NextRows(rows) :
        LET row == rows[i]
            targets == Targets(row, repair)
        IN
        \E failing \in SUBSET At(row.codes, targets), stop \in 0 .. Cardinality(targets) :
            LET ends == {J \in {{m \in targets : m <= j} : j \in 0 .. Len(row.codes)} :
                           \/ J = targets
                           \/ Cardinality(J) = stop
                           \/ Broken(row.codes, J, failing)}
            IN
            \E tried \in ends :
                LET completed == row.completed \cup (At(row.codes, tried) \ failing)
                    failed == (row.failed \cup At(row.codes, tried)) \ completed
                    status == IF tried # targets \/ Broken(row.codes, tried, failing)
                              THEN "interrupted" ELSE Outcome(failed)
                IN  /\ \A J \in ends : tried \subseteq J
                    /\ progress' = Recorded(p, kind, i, status, completed, failed)
                    /\ told' = [repair |-> repair, batch |-> TRUE,
                                status |-> status, kind |-> kind, index |-> i]
    /\ UNCHANGED <<saved, run>>

\* finalize_price_phase, called between the phases.
FinalizePrices ==
    /\ run = NoRun /\ progress.phase = "price_collection"
    /\ PricesFinal(progress)
    /\ progress' \in StartsFlow(progress)
    /\ told' = Silent
    /\ UNCHANGED <<saved, run>>

\* finalize_mock_report; the file it reads is there once the flow phase is.
FinalizeReport ==
    /\ run = NoRun /\ progress.phase = "flow_collection"
    /\ progress.bad = [k \in Kinds |-> {}]
    /\ Whole(progress.rows.flow)
    /\ progress' = [progress EXCEPT !.phase = "complete"]
    /\ told' = Silent
    /\ UNCHANGED <<saved, run>>

-----------------------------------------------------------------------------
(***************************************************************************)
(* Live invocations.                                                       *)
(***************************************************************************)

\* The invocation reads the progress, picks a batch and logs in.
BeginLive(mode) ==
    LET p == Started(progress)
        kind == KindOf(p)
    IN
    /\ run = NoRun /\ Collecting(p)
    /\ progress' = p
    /\ told' = Silent
    /\ \/ LiveRows(mode, p.rows[kind]) = {} /\ UNCHANGED run
       \/ \E i \in LiveRows(mode, p.rows[kind]) :
            LET row == p.rows[kind][i] IN
            run' = [mode |-> mode, kind |-> kind, index |-> i, step |-> "collect",
                    codes |-> row.codes, left |-> Targets(row, mode = "repair"),
                    completed |-> row.completed, failed |-> row.failed,
                    streak |-> 0, cut |-> FALSE]
    /\ UNCHANGED saved

\* The code at position j is the next one.
Collects(j) == run # NoRun /\ run.step = "collect" /\ j \in First(run.left)

\* What becomes of it when it is known to be on disk.
Has(j) == [run EXCEPT !.left = @ \ {j}, !.completed = @ \cup {run.codes[j]},
                      !.failed = @ \ {run.codes[j]}, !.streak = 0]

\* The artifacts of the next code are there, or are copied from an older
\* session.  No checkpoint follows.
Reuse(j) ==
    /\ Collects(j)
    /\ saved' \in {saved, [saved EXCEPT ![run.kind] = @ \cup {run.codes[j]}]}
    /\ run.codes[j] \in saved'[run.kind]
    /\ run' = Has(j)
    /\ UNCHANGED <<progress, told>>

\* Mutant of Fetch: the artifacts on disk are not looked at.
FetchAnyway(j) ==
    /\ Collects(j)
    /\ saved' = [saved EXCEPT ![run.kind] = @ \cup {run.codes[j]}]
    /\ run' = [Has(j) EXCEPT !.step = "checkpoint"]
    /\ UNCHANGED <<progress, told>>

\* The next code is requested, and its artifacts are saved.
Fetch(j) ==
    /\ Collects(j) /\ run.codes[j] \notin saved[run.kind]
    /\ saved' = [saved EXCEPT ![run.kind] = @ \cup {run.codes[j]}]
    /\ run' = [Has(j) EXCEPT !.step = "checkpoint"]
    /\ UNCHANGED <<progress, told>>

\* The request fails.  A lost link, or timeouts in a row, cut the batch off.
FetchFails(j, timeout, linkLost) ==
    /\ Collects(j) /\ run.codes[j] \notin saved[run.kind]
    /\ LET streak == IF timeout THEN run.streak + 1 ELSE 0
           cut == linkLost \/ streak >= BreakerLimit
       IN  run' = [run EXCEPT !.failed = @ \cup {run.codes[j]}, !.streak = streak,
                              !.left = IF cut THEN {} ELSE @ \ {j}, !.cut = cut,
                              !.step = IF cut THEN "collect" ELSE "checkpoint"]
    /\ UNCHANGED <<progress, saved, told>>

\* What the invocation saves: the batch of next_batch() is not in it.
Saves(status) ==
    IF run.mode = "next"
    THEN Listed(progress, run.kind, run.completed, run.failed)
    ELSE Recorded(progress, run.kind, run.index, status, run.completed, run.failed)

Checkpoint ==
    /\ run # NoRun /\ run.step = "checkpoint"
    /\ progress' = Saves("running")
    /\ run' = [run EXCEPT !.step = "collect"]
    /\ UNCHANGED <<saved, told>>

\* Every code has been tried: the batch gets its status.
FinishBatch ==
    LET status == IF run.cut THEN "interrupted" ELSE Outcome(run.failed) IN
    /\ run # NoRun /\ run.step = "collect" /\ run.left = {}
    /\ progress' = Saves(status)
    /\ told' = [repair |-> run.mode = "repair", batch |-> run.mode # "next",
                status |-> status, kind |-> run.kind, index |-> run.index]
    /\ run' = IF status = "complete" /\ Whole(progress'.rows[run.kind])
              THEN [run EXCEPT !.step = "conclude"] ELSE NoRun
    /\ UNCHANGED saved

\* The last batch of a phase concludes it, unless finalize_price_phase raises.
Conclude ==
    /\ run # NoRun /\ run.step = "conclude"
    /\ \/ /\ run.kind = "price"
          /\ IF PricesFinal(progress)
             THEN progress' \in StartsFlow(progress)
             ELSE UNCHANGED progress
       \/ /\ run.kind = "flow"
          /\ progress' = [progress EXCEPT !.phase = "complete"]
    /\ run' = NoRun
    /\ UNCHANGED <<saved, told>>

\* The process is killed, or fails to log in.
Killed ==
    /\ run # NoRun
    /\ run' = NoRun
    /\ told' = Silent
    /\ UNCHANGED <<progress, saved>>

Offline ==
    \/ \E repair \in BOOLEAN : MockBatch(repair)
    \/ FinalizePrices
    \/ FinalizeReport

Live ==
    \/ \E mode \in Modes : BeginLive(mode)
    \/ \E j \in 1 .. Len(Universe) :
        \/ Reuse(j)
        \/ Fetch(j)
        \/ \E timeout, linkLost \in BOOLEAN : FetchFails(j, timeout, linkLost)
    \/ Checkpoint
    \/ FinishBatch
    \/ Killed

PNext == Offline \/ Live \/ Conclude

PSpec == PInit /\ [][PNext]_pvars

-----------------------------------------------------------------------------
(***************************************************************************)
(* Properties.                                                             *)
(***************************************************************************)

\* The price batches hold every code of the universe, and no batch of either
\* kind holds a code that it or another one holds already.
Partitioned ==
    /\ Codes = UNION {ToSet(progress.rows["price"][i].codes) : i \in DOMAIN progress.rows["price"]}
    /\ \A k \in Kinds : \A i \in DOMAIN progress.rows[k] :
         /\ IsInjective(progress.rows[k][i].codes)
         /\ \A j \in DOMAIN progress.rows[k] \ {i} :
              ToSet(progress.rows[k][i].codes) \cap ToSet(progress.rows[k][j].codes) = {}

\* A batch is touched only when all before it are complete, whoever runs,
\* repairs, resumes and is killed.
InOrder ==
    \A k \in Kinds : \A i, j \in DOMAIN progress.rows[k] :
        i < j /\ progress.rows[k][j].status # "pending"
          => progress.rows[k][i].status = "complete"

\* The flow phase builds on the prices of the whole universe, also when a
\* repaired batch claims more than it holds.
FlowNeedsPrices ==
    progress.phase \in {"flow_collection", "complete"}
      => progress.done["price"] = Codes /\ progress.bad["price"] = {}

\* A collection that no live invocation can carry on has a batch that a killed
\* process left as running, or only complete batches and a last step missing.
StuckOnlyAtEnd ==
    run = NoRun /\ Collecting(progress) =>
        LET rows == progress.rows[KindOf(progress)] IN
        \/ \E mode \in Modes : LiveRows(mode, rows) # {}
        \/ WithStatus(rows, {"running"}) # {}
        \/ Whole(rows)

\* A listed code that its batch does not hold, as a live invocation leaves it,
\* has its artifacts: files first, then the checkpoint that names them, with
\* kills in between.  Offline invocations have no artifacts.
DoneIsSaved ==
    \A k \in Kinds :
        progress.done[k] \subseteq
            saved[k] \cup UNION {progress.rows[k][i].completed : i \in DOMAIN progress.rows[k]}

\* tests/test_full_universe_collection.py, "resume never requests completed
\* symbols twice", here over kills and repeated invocations.
NeverFetchedAgain ==
    [][\A j \in 1 .. Len(Universe) :
        Fetch(j) => run.codes[j] \notin progress.done[run.kind]]_pvars

\* What an invocation reports of its batch is what the next one finds, but for a
\* live one that resumes and repairs nothing: it saves its codes and not its
\* batch.  A batch reported complete has all its codes listed, but for a repair:
\* it leaves out those that an interruption has kept from being tried.
ReportIsTrue ==
    run = NoRun /\ told # Silent =>
        LET row == progress.rows[told.kind][told.index] IN
        /\ told.batch => row.status = told.status
        /\ told.status = "complete" /\ ~told.repair
             => ToSet(row.codes) \subseteq progress.done[told.kind]

\* Whoever runs, repairs, resumes or is killed: batches are taken in order, each
\* phase rests on the whole of the one before, what is listed is saved, reports
\* are true, and the collection is stuck in two named situations only.
BatchesSound ==
    PTypeOK /\ Partitioned /\ InOrder /\ FlowNeedsPrices /\ StuckOnlyAtEnd /\ DoneIsSaved /\ ReportIsTrue
=============================================================================
