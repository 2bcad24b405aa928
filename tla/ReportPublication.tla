-------------------------- MODULE ReportPublication --------------------------
(***************************************************************************)
(* Recommendation reports on disk: RecommendationReportStore, what saves   *)
(* reports through it (the daily service at the close of the market, and   *)
(* the publication of a collection session from the command line), and     *)
(* what reads them while they are saved (the briefings and the dashboard). *)
(*                                                                         *)
(* A version is a directory of three files named after a hash, and a day   *)
(* has a pointer to one of its versions.  Each file is replaced atomically *)
(* and nothing is locked: a writer can die, or raise, between any two      *)
(* files; two publications can run at once; a reader looks at any time.    *)
(*                                                                         *)
(* Left out: what refuses a session or a production root before anything   *)
(* is written, the unnamed temporary file a killed writer leaves, which    *)
(* no reader opens, and the texts.                                         *)
(***************************************************************************)
EXTENDS Integers, Sequences, SequencesExt, FiniteSets

CONSTANTS
    Days,       \* bound: the days are 1 .. Days
    Sources,    \* reports that can be saved: [day, session, strong, review]
    Writers,    \* processes that save
    None,
    MaxRuns     \* bound: runs that get as far as saving

Reports == [day : 1 .. Days, session : Nat, strong : Seq(Nat), review : Seq(Nat)]

ASSUME PublicationAssumption ==
    /\ Days \in Nat \ {0}
    /\ Sources \subseteq Reports /\ None \notin Reports
    /\ MaxRuns \in Nat

VARIABLES
    user,       \* what saves below this root: the daily service or publications
    clock,      \* half days: even before the close, odd after it
    files,      \* the files of each version: which run has written it, or 0
    touched,    \* the versions, the one last written to first
    latest,     \* latest.json of each day
    failed,     \* the days with a failures.json
    run,        \* of each writer: what it still has to do, and for which report
    notified,   \* what was handed to the notification service
    runs

vars == <<user, clock, files, touched, latest, failed, run, notified, runs>>

Names == {"json", "md", "metadata"}
Today == clock \div 2 + 1

\* convert_operational_report: at most three of each group, under a hash that
\* covers the session too.
Convert(s) ==
    LET First3(group) == SubSeq(group, 1, IF Len(group) < 3 THEN Len(group) ELSE 3)
    IN  [s EXCEPT !.strong = First3(@), !.review = First3(@)]

Versions == Sources \cup {Convert(s) : s \in Sources}
Events == {"daily_recommendation", "historical_daily_recommendation_test"}
Steps == {"save", "latest", "verify", "notify"} \cup Names
Idle == [todo |-> <<>>, version |-> None, began |-> 1, stamp |-> 0]

PubTypeOK ==
    /\ user \in {"daily", "publish"}
    /\ clock \in 0 .. 2 * Days - 1
    /\ files \in [Versions -> [Names -> 0 .. MaxRuns]]
    /\ ToSet(touched) \subseteq Versions /\ IsInjective(touched)
    /\ latest \in [1 .. Days -> Versions \cup {None}]
    /\ failed \subseteq 1 .. Days
    /\ \A w \in Writers :
        /\ ToSet(run[w].todo) \subseteq Steps
        /\ run[w].version \in Versions \cup {None}
        /\ run[w].began \in 1 .. Days /\ run[w].stamp \in 0 .. MaxRuns
    /\ notified \subseteq Events \X Versions
    /\ runs \in 0 .. MaxRuns

Init ==
    /\ user \in {"daily", "publish"}
    /\ clock = 0
    /\ files = [v \in Versions |-> [n \in Names |-> 0]]
    /\ touched = <<>> /\ latest = [d \in 1 .. Days |-> None] /\ failed = {}
    /\ run = [w \in Writers |-> Idle]
    /\ notified = {} /\ runs = 0

-----------------------------------------------------------------------------
(***************************************************************************)
(* What readers find.                                                      *)
(***************************************************************************)

\* save() and publish look for all three files.
Whole(v) == \A n \in Names : files[v][n] # 0

\* The store: the JSON the pointer of the day leads to.
Load(d) ==
    IF latest[d] # None /\ files[latest[d]]["json"] # 0 THEN latest[d] ELSE None

\* load_latest_before, for a briefing before the market opens
LoadLatestBefore(d) ==
    LET found == {e \in 1 .. d - 1 : Load(e) # None}
    IN  IF found = {} THEN None ELSE Load(Max(found))

\* What a briefing of the day shows before the close.
LoadIntraday(d) == IF Load(d) # None THEN Load(d) ELSE LoadLatestBefore(d)

\* The dashboard: _load_version needs no Markdown.
Loadable(v) == files[v]["json"] # 0 /\ files[v]["metadata"] # 0

FromPointer(d) == IF latest[d] # None /\ Loadable(latest[d]) THEN latest[d] ELSE None

\* _from_versions: the directory last changed comes first.
FromVersions(d) ==
    LET found == {i \in DOMAIN touched : touched[i].day = d /\ Loadable(touched[i])}
    IN  IF found = {} THEN None ELSE touched[Min(found)]

\* Mutant of ForDate: the version last changed, pointer or not.
ForDateNewest(d) == FromVersions(d)

\* recommendation_for_date
ForDate(d) == IF FromPointer(d) # None THEN FromPointer(d) ELSE FromVersions(d)

\* latest_recommendation
LatestShown ==
    LET found == {d \in 1 .. Days : ForDate(d) # None}
    IN  IF found = {} THEN None ELSE ForDate(Max(found))

-----------------------------------------------------------------------------
(***************************************************************************)
(* Runs that save.                                                         *)
(***************************************************************************)

Free(w) == run[w].todo = <<>> /\ runs < MaxRuns

Begin(w, v, todo, stamp) ==
    /\ run' = [run EXCEPT ![w] = [todo |-> todo, version |-> v, began |-> Today, stamp |-> stamp]]
    /\ runs' = runs + 1
    /\ UNCHANGED <<user, clock, files, touched, latest, failed, notified>>

\* generate_market_close after 15:40, on an open day and with input; the report
\* of the same input is used again and nothing is saved.
Generate(w) ==
    /\ user = "daily" /\ \A other \in Writers : Free(other)
    /\ clock % 2 = 1
    /\ \E v \in Sources :
        /\ v.day = Today /\ v # Load(Today)
        /\ Begin(w, v, <<"save", "latest">>, runs + 1)

\* The options that let a publication write.
Permitted(o, historical) ==
    /\ ~o.dry /\ o.confirm
    /\ historical => o.historical
    /\ historical /\ o.telegram => o.test

Options == [dry : BOOLEAN, confirm : BOOLEAN, historical : BOOLEAN, telegram : BOOLEAN, test : BOOLEAN]

\* Mutant of PublishSteps: the message is handed over before the report is saved.
PublishStepsSentFirst(historical, telegram) ==
    (IF telegram THEN <<"notify">> ELSE <<>>)
        \o <<"save">> \o (IF historical THEN <<>> ELSE <<"latest">>) \o <<"verify">>

\* Mutant of PublishSteps: each publication becomes the latest of its day.
PublishStepsLatest(historical, telegram) ==
    <<"save", "latest", "verify">> \o (IF telegram THEN <<"notify">> ELSE <<>>)

\* A past report leaves the pointer alone.
PublishSteps(historical, telegram) ==
    <<"save">> \o (IF historical THEN <<>> ELSE <<"latest">>)
        \o <<"verify">> \o (IF telegram THEN <<"notify">> ELSE <<>>)

\* publish_full_collection_session; what it writes depends on the report only.
Publish(w) ==
    /\ user = "publish" /\ Free(w)
    /\ \E s \in Sources, o \in Options :
        LET historical == s.day # Today
        IN  /\ Permitted(o, historical)
            /\ Begin(w, Convert(s), PublishSteps(historical, o.telegram), 1)

-----------------------------------------------------------------------------
(***************************************************************************)
(* The steps of a run.                                                     *)
(***************************************************************************)

At(w, steps) == run[w].todo # <<>> /\ Head(run[w].todo) \in steps

Then(w, todo) == run' = [run EXCEPT ![w] = IF todo = <<>> THEN Idle ELSE [@ EXCEPT !.todo = todo]]

\* Mutant of SaveOrder: the metadata, by which the dashboard knows a version,
\* before the Markdown.
SaveOrderMetadata(v) == IF Whole(v) THEN <<>> ELSE <<"json", "metadata", "md">>

\* The files that save() writes, in its order: all of them, or none.
SaveOrder(v) == IF Whole(v) THEN <<>> ELSE <<"json", "md", "metadata">>

Save(w) ==
    /\ At(w, {"save"})
    /\ Then(w, SaveOrder(run[w].version) \o Tail(run[w].todo))
    /\ UNCHANGED <<user, clock, files, touched, latest, failed, notified, runs>>

\* _atomic, into the directory of the version
WriteFile(w) ==
    /\ At(w, Names)
    /\ LET v == run[w].version
       IN  /\ files' = [files EXCEPT ![v][Head(run[w].todo)] = run[w].stamp]
           /\ \/ v \notin ToSet(touched) /\ touched' = <<v>> \o touched
              \/ \E i \in DOMAIN touched :
                    touched[i] = v /\ touched' = <<v>> \o RemoveAt(touched, i)
    /\ Then(w, Tail(run[w].todo))
    /\ UNCHANGED <<user, clock, latest, failed, notified, runs>>

\* _atomic, on latest.json
MovePointer(w) ==
    /\ At(w, {"latest"})
    /\ latest' = [latest EXCEPT ![run[w].version.day] = run[w].version]
    /\ Then(w, Tail(run[w].todo))
    /\ UNCHANGED <<user, clock, files, touched, failed, notified, runs>>

\* What was saved is read again, as the dashboard would; else publish raises.
Verify(w) ==
    /\ At(w, {"verify"})
    /\ Then(w, IF Loadable(run[w].version) THEN Tail(run[w].todo) ELSE <<>>)
    /\ UNCHANGED <<user, clock, files, touched, latest, failed, notified, runs>>

\* A request of the same event and hash is refused by submit().
Notify(w) ==
    /\ At(w, {"notify"})
    /\ LET v == run[w].version
           event == IF v.day = run[w].began THEN "daily_recommendation"
                    ELSE "historical_daily_recommendation_test"
       IN  notified' = notified \cup {<<event, v>>}
    /\ Then(w, Tail(run[w].todo))
    /\ UNCHANGED <<user, clock, files, touched, latest, failed, runs>>

\* A step raises, or the process dies; the daily service tries to say so.
Stop(w) ==
    /\ run[w].todo # <<>>
    /\ Then(w, <<>>)
    /\ \/ failed' = failed
       \/ user = "daily" /\ failed' = failed \cup {run[w].version.day}
    /\ UNCHANGED <<user, clock, files, touched, latest, notified, runs>>

Advance ==
    /\ clock < 2 * Days - 1 /\ clock' = clock + 1
    /\ UNCHANGED <<user, files, touched, latest, failed, run, notified, runs>>

Next ==
    \/ \E w \in Writers :
        \/ Generate(w) \/ Publish(w)
        \/ Save(w) \/ WriteFile(w) \/ MovePointer(w) \/ Verify(w) \/ Notify(w)
        \/ Stop(w)
    \/ Advance

Spec == Init /\ [][Next]_vars

-----------------------------------------------------------------------------
(***************************************************************************)
(* Properties.                                                             *)
(***************************************************************************)

\* All files of v are there, and one run has written them.
OneRun(v) == files[v]["json"] # 0 /\ \A n \in Names : files[v][n] = files[v]["json"]

\* Whatever stops a writer, and whoever else writes, nobody is shown a report
\* that was left half written or completed by another run: the pointer of a day
\* leads to a version of that day with its three files, and the dashboard, which
\* looks for two of them only, shows no version that lacks the third.
ReportsWhole ==
    /\ PubTypeOK
    /\ \A d \in 1 .. Days :
        /\ latest[d] # None => latest[d].day = d /\ OneRun(latest[d])
        /\ ForDate(d) # None => OneRun(ForDate(d))

\* The pointer of a day is moved only to a report saved by a run that began on
\* that day: a past session that is published never replaces what the briefings
\* took for the latest.
HistoricalKeepsLatest ==
    [][\A d \in 1 .. Days : latest'[d] # latest[d] =>
        \E w \in Writers : run[w].began = d /\ run[w].version = latest'[d]]_vars

\* A message names files that exist: it is handed over only once the report is
\* saved, and as a daily recommendation only once its day has a pointer.
NotifiedIsStored ==
    \A n \in notified :
        /\ OneRun(n[2])
        /\ n[1] = "daily_recommendation" => latest[n[2].day] # None

\* A briefing and the dashboard follow different rules, and look at different
\* files; the dashboard never shows an older day than the briefing, nor another
\* report of the same day.
ReadersAgree ==
    LET briefing == LoadIntraday(Today)
    IN  briefing # None =>
            /\ LatestShown # None /\ LatestShown.day >= briefing.day
            /\ LatestShown.day = briefing.day => LatestShown = briefing
=============================================================================
