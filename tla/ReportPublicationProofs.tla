----------------------- MODULE ReportPublicationProofs -----------------------
(***************************************************************************)
(* What readers find while reports are saved, for any number of days,      *)
(* reports, writers and runs.                                              *)
(*                                                                         *)
(* The files of a version are written in one order, and none is ever taken *)
(* away, so its last file, the metadata, stands for the whole (Complete).  *)
(* That one run has written it has two reasons (Stamped): what             *)
(* publications write depends on the report only, and the daily service    *)
(* is alone.  Ordered says what a writer may rely on at each of its steps, *)
(* the pointer included: the day has one unless it is a past report's.     *)
(***************************************************************************)
EXTENDS ReportPublication, SequenceTheorems, FiniteSetTheorems, NaturalsInduction,
        WellFoundedInduction, TLAPS

\* What may be left to do once the report is saved, and at all.
Ready == {<<>>, <<"notify">>, <<"verify">>, <<"verify", "notify">>,
          <<"latest">>, <<"latest", "verify">>, <<"latest", "verify", "notify">>}
Before(step, rest) == <<step>> \o rest
FromMetadata == {Before("metadata", r) : r \in Ready}
FromMarkdown == {Before("md", r) : r \in FromMetadata}
FromJson == {Before("json", r) : r \in FromMarkdown}
Plans == Ready \cup {Before("save", r) : r \in Ready}
               \cup FromMetadata \cup FromMarkdown \cup FromJson

Runs == [todo : Plans, version : Versions \cup {None}, began : 1 .. Days, stamp : 0 .. MaxRuns]
Busy(w) == run[w].todo # <<>>

Shape ==
    /\ user \in {"daily", "publish"} /\ clock \in 0 .. 2 * Days - 1
    /\ files \in [Versions -> [Names -> 0 .. MaxRuns]]
    /\ touched \in Seq(Versions) /\ IsInjective(touched)
    /\ latest \in [1 .. Days -> Versions \cup {None}]
    /\ failed \subseteq 1 .. Days
    /\ run \in [Writers -> Runs]
    /\ notified \subseteq Events \X Versions /\ runs \in 0 .. MaxRuns

Stamped ==
    /\ user = "publish" => \A v \in Versions, n \in Names : files[v][n] \in {0, 1}
    /\ \A w \in Writers : Busy(w) => run[w].stamp # 0 /\ (user = "publish" => run[w].stamp = 1)
    /\ user = "daily" => \A w, u \in Writers : Busy(w) /\ Busy(u) => w = u

Complete == \A v \in Versions : files[v]["metadata"] # 0 => OneRun(v)

\* What the next step of run r relies on, of the files, the pointers and the
\* kind of writer there is.
OrderedFor(r, disk, pointers, who) ==
    /\ r.version \in Versions
    /\ Head(r.todo) \in {"md", "metadata"} => disk[r.version]["json"] = r.stamp
    /\ Head(r.todo) = "metadata" => disk[r.version]["md"] = r.stamp
    /\ Head(r.todo) \in {"latest", "verify", "notify"} => disk[r.version]["metadata"] # 0
    /\ Head(r.todo) \in Names /\ who = "daily" => disk[r.version]["metadata"] = 0
    /\ "latest" \in ToSet(r.todo) => r.version.day = r.began
    /\ "latest" \notin ToSet(r.todo) /\ r.version.day = r.began =>
         pointers[r.version.day] # None

Ordered == \A w \in Writers : Busy(w) => OrderedFor(run[w], files, latest, user)

Pointed ==
    /\ \A d \in 1 .. Days : latest[d] # None =>
         latest[d].day = d /\ files[latest[d]]["metadata"] # 0
    /\ \A n \in notified :
         /\ files[n[2]]["metadata"] # 0
         /\ n[1] = "daily_recommendation" => latest[n[2].day] # None

PInv == Shape /\ Stamped /\ Complete /\ Ordered /\ Pointed

-----------------------------------------------------------------------------
(***************************************************************************)
(* Reports, and lists of steps.                                            *)
(***************************************************************************)

\* A published report is a report of the same day.
LEMMA Converted ==
    ASSUME NEW s \in Sources
    PROVE  Convert(s) \in Reports /\ Convert(s).day = s.day /\ Convert(s) \in Versions
<1> DEFINE First3(group) == SubSeq(group, 1, IF Len(group) < 3 THEN Len(group) ELSE 3)
<1>1. s \in Reports
  BY PublicationAssumption
<1>2. ASSUME NEW group \in Seq(Nat) PROVE First3(group) \in Seq(Nat)
  <2>1. PICK n \in Nat : n = Len(group)
    OBVIOUS
  <2>2. \A i \in 1 .. (IF n < 3 THEN n ELSE 3) : group[i] \in Nat
    BY <2>1
  <2>3. (IF n < 3 THEN n ELSE 3) \in Int /\ 1 \in Int
    BY <2>1
  <2>4. SubSeq(group, 1, IF n < 3 THEN n ELSE 3) \in Seq(Nat)
    BY <2>2, <2>3, SubSeqProperties
  <2> QED
    BY <2>1, <2>4
<1>3. s.strong \in Seq(Nat) /\ s.review \in Seq(Nat)
  BY <1>1 DEF Reports
<1>4. First3(s.strong) \in Seq(Nat) /\ First3(s.review) \in Seq(Nat)
  BY <1>2, <1>3
<1>5. Convert(s) = [s EXCEPT !.strong = First3(@), !.review = First3(@)]
  BY DEF Convert
<1> HIDE DEF First3
<1>6. Convert(s) = [day |-> s.day, session |-> s.session,
                    strong |-> First3(s.strong), review |-> First3(s.review)]
  BY <1>1, <1>5 DEF Reports
<1>7. Convert(s) \in Reports /\ Convert(s).day = s.day
  BY <1>1, <1>4, <1>6 DEF Reports
<1> QED
  BY <1>7 DEF Versions

\* Every version is a report of one of the days, and none is None.
LEMMA VersionDays ==
    /\ Versions \subseteq Reports /\ None \notin Versions
    /\ \A v \in Versions : v.day \in 1 .. Days
<1>1. Versions \subseteq Reports
  BY Converted, PublicationAssumption DEF Versions
<1> QED
  BY <1>1, PublicationAssumption DEF Reports

\* Today is one of the days.
LEMMA TodayType == ASSUME Shape PROVE Today \in 1 .. Days
  BY PublicationAssumption DEF Shape, Today

\* A step before others is the head, and they are the tail.
LEMMA BeforeSteps ==
    ASSUME NEW step \in Steps, NEW rest \in Seq(Steps)
    PROVE  /\ Before(step, rest) \in Seq(Steps) /\ Before(step, rest) # <<>>
           /\ Head(Before(step, rest)) = step /\ Tail(Before(step, rest)) = rest
           /\ \A e : e \in ToSet(Before(step, rest)) <=> (e = step \/ e \in ToSet(rest))
<1>1. PICK n \in Nat : n = Len(rest)
  OBVIOUS
<1> DEFINE todo == Before(step, rest)
<1>2. <<step>> \in Seq(Steps) /\ Len(<<step>>) = 1 /\ <<step>>[1] = step
  OBVIOUS
<1>3. /\ todo \in Seq(Steps) /\ Len(todo) = n + 1
      /\ \A i \in 1 .. n + 1 : todo[i] = IF i <= 1 THEN step ELSE rest[i - 1]
  <2>1. /\ <<step>> \o rest \in Seq(Steps)
        /\ Len(<<step>> \o rest) = Len(<<step>>) + Len(rest)
        /\ \A i \in 1 .. Len(<<step>>) + Len(rest) :
             (<<step>> \o rest)[i] =
               IF i <= Len(<<step>>) THEN <<step>>[i] ELSE rest[i - Len(<<step>>)]
    BY <1>2, ConcatProperties
  <2> DEFINE cat == <<step>> \o rest
  <2>2. todo = cat
    BY DEF Before
  <2> HIDE DEF cat, todo
  <2>3. Len(cat) = n + 1
    BY <1>1, <1>2, <2>1 DEF cat
  <2>4. ASSUME NEW i \in 1 .. n + 1 PROVE cat[i] = IF i <= 1 THEN step ELSE rest[i - 1]
    <3>1. i \in 1 .. Len(<<step>>) + Len(rest)
      BY <1>1, <1>2
    <3>2. cat[i] = IF i <= Len(<<step>>) THEN <<step>>[i] ELSE rest[i - Len(<<step>>)]
      BY <2>1, <3>1 DEF cat
    <3>3. i <= 1 => i = 1
      BY <1>1
    <3> QED
      BY <1>2, <3>2, <3>3
  <2>5. cat \in Seq(Steps)
    BY <2>1 DEF cat
  <2> QED
    BY <2>2, <2>3, <2>4, <2>5
<1> HIDE DEF todo
<1>4. todo # <<>> /\ Head(todo) = step
  <2>1. todo[1] = step /\ Len(todo) # 0
    BY <1>1, <1>3
  <2> QED
    BY <1>3, <2>1
<1>5. Tail(todo) = rest
  <2>1. Tail(todo) \in Seq(Steps) /\ Len(Tail(todo)) = n
        /\ \A i \in 1 .. n : Tail(todo)[i] = todo[i + 1]
    BY <1>1, <1>3, <1>4
  <2>2. ASSUME NEW i \in 1 .. n PROVE todo[i + 1] = rest[i]
    <3>1. i + 1 \in 1 .. n + 1 /\ ~(i + 1 <= 1) /\ (i + 1) - 1 = i
      BY <1>1
    <3> QED
      BY <1>3, <3>1
  <2> QED
    BY <1>1, <2>1, <2>2
<1>6. ASSUME NEW e PROVE e \in ToSet(todo) <=> (e = step \/ e \in ToSet(rest))
  <2>1. DOMAIN todo = 1 .. n + 1 /\ DOMAIN rest = 1 .. n
    BY <1>1, <1>3
  <2>2. ASSUME NEW i \in 1 .. n + 1 PROVE todo[i] = step \/ todo[i] \in ToSet(rest)
    <3>1. CASE i <= 1
      BY <1>3, <3>1
    <3>2. CASE ~(i <= 1)
      <4>1. i - 1 \in 1 .. n
        BY <1>1, <3>2
      <4> QED
        BY <1>3, <2>1, <3>2, <4>1 DEF ToSet
    <3> QED
      BY <3>1, <3>2
  <2>3. 1 \in 1 .. n + 1 /\ todo[1] = step
    BY <1>1, <1>3
  <2>4. ASSUME NEW i \in 1 .. n PROVE rest[i] \in ToSet(todo)
    <3>1. i + 1 \in 1 .. n + 1 /\ ~(i + 1 <= 1) /\ (i + 1) - 1 = i
      BY <1>1
    <3> QED
      BY <1>3, <2>1, <3>1 DEF ToSet
  <2> QED
    BY <2>1, <2>2, <2>3, <2>4 DEF ToSet
<1> QED
  BY <1>3, <1>4, <1>5, <1>6 DEF todo

\* What is left after a step, once the report is saved.
LEMMA ReadyTail ==
    ASSUME NEW todo \in Ready, todo # <<>>
    PROVE  /\ Head(todo) \in {"latest", "verify", "notify"} /\ Tail(todo) \in Ready
           /\ "latest" \in ToSet(todo) <=> Head(todo) = "latest"
           /\ "latest" \notin ToSet(Tail(todo))
<1>1. CASE todo = <<"notify">>
  BY <1>1 DEF Ready, ToSet
<1>2. CASE todo = <<"verify">>
  BY <1>2 DEF Ready, ToSet
<1>3. CASE todo = <<"latest">>
  BY <1>3 DEF Ready, ToSet
<1>4. CASE todo = <<"verify", "notify">>
  BY <1>4 DEF Ready, ToSet
<1>5. CASE todo = <<"latest", "verify">>
  BY <1>5 DEF Ready, ToSet
<1>6. CASE todo = <<"latest", "verify", "notify">>
  BY <1>6 DEF Ready, ToSet
<1> QED
  BY <1>1, <1>2, <1>3, <1>4, <1>5, <1>6 DEF Ready

\* What is left once the report is saved is a list of steps.
LEMMA ReadySteps == \A todo \in Ready : todo \in Seq(Steps)
<1>0. "latest" \in Steps /\ "verify" \in Steps /\ "notify" \in Steps
  BY DEF Steps
<1>1. <<>> \in Seq(Steps) /\ <<"notify">> \in Seq(Steps) /\ <<"verify">> \in Seq(Steps)
      /\ <<"latest">> \in Seq(Steps)
  BY <1>0
<1>2. <<"verify", "notify">> \in Seq(Steps) /\ <<"latest", "verify">> \in Seq(Steps)
  BY <1>0
<1>3. <<"latest", "verify", "notify">> \in Seq(Steps)
  BY <1>0
<1> QED
  BY <1>1, <1>2, <1>3 DEF Ready

\* What is left after a step of any run.
LEMMA PlanTail ==
    ASSUME NEW todo \in Plans, todo # <<>>
    PROVE  /\ todo \in Seq(Steps) /\ Head(todo) \in Steps /\ Tail(todo) \in Plans
           /\ Head(todo) \in {"latest", "verify", "notify"} =>
                ("latest" \in ToSet(todo) <=> Head(todo) = "latest")
           /\ Head(todo) = "json" => Tail(todo) # <<>> /\ Head(Tail(todo)) = "md"
           /\ Head(todo) = "md" => Tail(todo) # <<>> /\ Head(Tail(todo)) = "metadata"
           /\ Head(todo) \notin {"json", "md"} => Tail(todo) \in Ready
           /\ "latest" \in ToSet(Tail(todo)) <=>
                "latest" \in ToSet(todo) /\ Head(todo) # "latest"
<1>0. {"save", "json", "md", "metadata", "latest", "verify", "notify"} \subseteq Steps
  BY DEF Steps, Names
<1>1. CASE todo \in Ready
  <2>1. Head(todo) \in {"latest", "verify", "notify"} /\ Tail(todo) \in Ready
        /\ ("latest" \in ToSet(todo) <=> Head(todo) = "latest")
        /\ "latest" \notin ToSet(Tail(todo))
    BY <1>1, ReadyTail
  <2> QED
    BY <1>0, <1>1, <2>1, ReadySteps DEF Plans
<1>2. ASSUME NEW r \in Ready
      PROVE  /\ Before("metadata", r) \in Seq(Steps) /\ Before("metadata", r) # <<>>
             /\ Head(Before("metadata", r)) = "metadata" /\ Tail(Before("metadata", r)) = r
             /\ Before("save", r) \in Seq(Steps)
             /\ Head(Before("save", r)) = "save" /\ Tail(Before("save", r)) = r
             /\ "latest" \in ToSet(Before("metadata", r)) <=> "latest" \in ToSet(r)
             /\ "latest" \in ToSet(Before("save", r)) <=> "latest" \in ToSet(r)
  <2>1. r \in Seq(Steps) /\ "metadata" \in Steps /\ "save" \in Steps
    BY <1>0, ReadySteps
  <2> QED
    BY <2>1, BeforeSteps
<1>3. ASSUME NEW r \in FromMetadata
      PROVE  /\ r # <<>> /\ Head(r) = "metadata" /\ r \in Seq(Steps)
             /\ Before("md", r) \in Seq(Steps) /\ Before("md", r) # <<>>
             /\ Head(Before("md", r)) = "md" /\ Tail(Before("md", r)) = r
             /\ "latest" \in ToSet(Before("md", r)) <=> "latest" \in ToSet(r)
  <2>1. r # <<>> /\ Head(r) = "metadata" /\ r \in Seq(Steps) /\ "md" \in Steps
    BY <1>0, <1>2 DEF FromMetadata
  <2> QED
    BY <2>1, BeforeSteps
<1>4. ASSUME NEW r \in FromMarkdown
      PROVE  /\ r # <<>> /\ Head(r) = "md" /\ r \in Seq(Steps)
             /\ Before("json", r) \in Seq(Steps)
             /\ Head(Before("json", r)) = "json" /\ Tail(Before("json", r)) = r
             /\ "latest" \in ToSet(Before("json", r)) <=> "latest" \in ToSet(r)
  <2>1. r # <<>> /\ Head(r) = "md" /\ r \in Seq(Steps) /\ "json" \in Steps
    BY <1>0, <1>3 DEF FromMarkdown
  <2> QED
    BY <2>1, BeforeSteps
<1>5. CASE \E r \in Ready : todo = Before("metadata", r) \/ todo = Before("save", r)
  <2>1. PICK r \in Ready : todo = Before("metadata", r) \/ todo = Before("save", r)
    BY <1>5
  <2>2. Tail(todo) = r /\ Head(todo) \in {"metadata", "save"} /\ todo \in Seq(Steps)
        /\ ("latest" \in ToSet(todo) <=> "latest" \in ToSet(r))
    BY <1>2, <2>1
  <2> QED
    BY <1>0, <2>2 DEF Plans
<1>6. CASE \E r \in FromMetadata : todo = Before("md", r)
  <2>1. PICK r \in FromMetadata : todo = Before("md", r)
    BY <1>6
  <2>2. /\ r # <<>> /\ Head(r) = "metadata" /\ Head(todo) = "md" /\ Tail(todo) = r
        /\ todo \in Seq(Steps)
        /\ "latest" \in ToSet(todo) <=> "latest" \in ToSet(r)
    BY <1>3, <2>1
  <2> QED
    BY <1>0, <2>2 DEF Plans
<1>7. CASE \E r \in FromMarkdown : todo = Before("json", r)
  <2>1. PICK r \in FromMarkdown : todo = Before("json", r)
    BY <1>7
  <2>2. /\ r # <<>> /\ Head(r) = "md" /\ Head(todo) = "json" /\ Tail(todo) = r
        /\ todo \in Seq(Steps)
        /\ "latest" \in ToSet(todo) <=> "latest" \in ToSet(r)
    BY <1>4, <2>1
  <2> QED
    BY <1>0, <2>2 DEF Plans
<1> QED
  BY <1>1, <1>5, <1>6, <1>7 DEF Plans, FromMetadata, FromMarkdown, FromJson

\* What is to be done of a report that is not there yet.
LEMMA SavePlan ==
    ASSUME NEW rest \in Ready
    PROVE  LET todo == <<"json", "md", "metadata">> \o rest IN
           /\ todo \in Plans /\ todo # <<>> /\ Head(todo) = "json"
           /\ "latest" \in ToSet(todo) <=> "latest" \in ToSet(rest)
<1>0. {"json", "md", "metadata"} \subseteq Steps /\ rest \in Seq(Steps)
  BY ReadySteps DEF Steps, Names
<1> DEFINE r1 == Before("metadata", rest)   r2 == Before("md", r1)   r3 == Before("json", r2)
<1>1. r1 \in Seq(Steps) /\ ("latest" \in ToSet(r1) <=> "latest" \in ToSet(rest))
  BY <1>0, BeforeSteps
<1> HIDE DEF r1
<1>2. r2 \in Seq(Steps) /\ ("latest" \in ToSet(r2) <=> "latest" \in ToSet(r1))
  BY <1>0, <1>1, BeforeSteps
<1> HIDE DEF r2
<1>3. /\ r3 # <<>> /\ Head(r3) = "json"
      /\ "latest" \in ToSet(r3) <=> "latest" \in ToSet(r2)
  BY <1>0, <1>2, BeforeSteps
<1>4. r3 = <<"json", "md", "metadata">> \o rest
  BY <1>0 DEF r1, r2, Before
<1>5. r3 \in Plans
  BY DEF r1, r2, Plans, FromJson, FromMarkdown, FromMetadata
<1> HIDE DEF r3
<1> QED
  BY <1>1, <1>2, <1>3, <1>4, <1>5

\* What a publication has to do, a past report leaving the pointer alone.
LEMMA PublishPlan ==
    ASSUME NEW historical \in BOOLEAN, NEW telegram \in BOOLEAN
    PROVE  /\ \E r \in Ready : PublishSteps(historical, telegram) = Before("save", r)
           /\ "latest" \in ToSet(PublishSteps(historical, telegram)) <=> ~historical
<1>1. \E r \in Ready : /\ PublishSteps(historical, telegram) = Before("save", r)
                       /\ "latest" \in ToSet(r) <=> ~historical
  <2>1. CASE historical /\ telegram
    <3> DEFINE r == <<"verify", "notify">>
    <3>1. r \in Ready /\ "latest" \notin ToSet(r)
      BY DEF Ready, ToSet
    <3>2. PublishSteps(historical, telegram) = Before("save", r)
      BY <2>1 DEF PublishSteps, Before
    <3> QED
      BY <2>1, <3>1, <3>2
  <2>2. CASE historical /\ ~telegram
    <3> DEFINE r == <<"verify">>
    <3>1. r \in Ready /\ "latest" \notin ToSet(r)
      BY DEF Ready, ToSet
    <3>2. PublishSteps(historical, telegram) = Before("save", r)
      BY <2>2 DEF PublishSteps, Before
    <3> QED
      BY <2>2, <3>1, <3>2
  <2>3. CASE ~historical /\ telegram
    <3> DEFINE r == <<"latest", "verify", "notify">>
    <3>1. r \in Ready /\ "latest" \in ToSet(r)
      BY DEF Ready, ToSet
    <3>2. PublishSteps(historical, telegram) = Before("save", r)
      BY <2>3 DEF PublishSteps, Before
    <3> QED
      BY <2>3, <3>1, <3>2
  <2>4. CASE ~historical /\ ~telegram
    <3> DEFINE r == <<"latest", "verify">>
    <3>1. r \in Ready /\ "latest" \in ToSet(r)
      BY DEF Ready, ToSet
    <3>2. PublishSteps(historical, telegram) = Before("save", r)
      BY <2>4 DEF PublishSteps, Before
    <3> QED
      BY <2>4, <3>1, <3>2
  <2> QED
    BY <2>1, <2>2, <2>3, <2>4
<1>2. ASSUME NEW r \in Ready
      PROVE  "latest" \in ToSet(Before("save", r)) <=> "latest" \in ToSet(r)
  <2>1. r \in Seq(Steps) /\ "save" \in Steps
    BY ReadySteps DEF Steps
  <2> QED
    BY <2>1, BeforeSteps
<1> QED
  BY <1>1, <1>2

\* What saving begins with.
LEMMA NewPlan ==
    ASSUME NEW r \in Ready
    PROVE  /\ Before("save", r) \in Plans /\ Before("save", r) # <<>>
           /\ Head(Before("save", r)) = "save"
<1>1. r \in Seq(Steps) /\ "save" \in Steps
  BY ReadySteps DEF Steps
<1> QED
  BY <1>1, BeforeSteps DEF Plans

-----------------------------------------------------------------------------
(***************************************************************************)
(* The steps.                                                              *)
(***************************************************************************)

\* The empty directory satisfies the invariant.
LEMMA InitPInv == Init => PInv
<1> SUFFICES ASSUME Init PROVE PInv
  OBVIOUS
<1>1. Idle \in Runs /\ Idle.todo = <<>>
  BY PublicationAssumption DEF Idle, Runs, Plans, Ready
<1> HIDE DEF Idle
<1>2. /\ files \in [Versions -> [Names -> 0 .. MaxRuns]]
      /\ \A v \in Versions : files[v]["metadata"] = 0
      /\ \A v \in Versions, n \in Names : files[v][n] = 0
  BY PublicationAssumption DEF Init, Names
<1>3. Shape
  <2>1. touched \in Seq(Versions) /\ IsInjective(touched)
    BY DEF Init, IsInjective
  <2>2. latest \in [1 .. Days -> Versions \cup {None}] /\ failed \subseteq 1 .. Days
        /\ run \in [Writers -> Runs] /\ notified \subseteq Events \X Versions
    BY <1>1 DEF Init
  <2>3. user \in {"daily", "publish"} /\ clock \in 0 .. 2 * Days - 1 /\ runs \in 0 .. MaxRuns
    BY PublicationAssumption DEF Init
  <2> QED
    BY <1>2, <2>1, <2>2, <2>3 DEF Shape
<1>4. \A w \in Writers : ~Busy(w)
  BY <1>1 DEF Init, Busy
<1>5. Stamped /\ Complete /\ Ordered
  BY <1>2, <1>4 DEF Stamped, Complete, Ordered
<1>6. Pointed
  BY DEF Init, Pointed
<1> QED
  BY <1>3, <1>5, <1>6 DEF PInv

\* The record of a run that goes on, or ends.
LEMMA ThenRun ==
    ASSUME Shape, NEW w \in Writers, NEW todo \in Plans, Then(w, todo)
    PROVE  /\ run' \in [Writers -> Runs] /\ run'[w].todo = todo
           /\ \A u \in Writers : u # w => run'[u] = run[u]
           /\ todo # <<>> => /\ run'[w].version = run[w].version
                             /\ run'[w].began = run[w].began
                             /\ run'[w].stamp = run[w].stamp
<1>1. Idle \in Runs /\ Idle.todo = <<>>
  BY PublicationAssumption DEF Idle, Runs, Plans, Ready
<1> DEFINE r == run[w]   next == IF todo = <<>> THEN Idle ELSE [r EXCEPT !.todo = todo]
<1>2. run \in [Writers -> Runs] /\ r \in Runs
  BY DEF Shape
<1>3. run' = [run EXCEPT ![w] = next]
  BY DEF Then
<1> HIDE DEF r
<1>4. /\ next \in Runs /\ next.todo = todo
      /\ todo # <<>> => next.version = r.version /\ next.began = r.began /\ next.stamp = r.stamp
  <2>1. CASE todo = <<>>
    BY <1>1, <2>1
  <2>2. CASE todo # <<>>
    BY <1>2, <2>2 DEF Runs
  <2> QED
    BY <2>1, <2>2
<1> HIDE DEF next
<1> QED
  BY <1>2, <1>3, <1>4 DEF r

\* What a busy writer may rely on.
LEMMA OfRun ==
    ASSUME PInv, NEW w \in Writers, Busy(w)
    PROVE  /\ OrderedFor(run[w], files, latest, user)
           /\ run[w].version \in Versions /\ run[w].todo \in Plans /\ run[w].todo # <<>>
           /\ run[w].began \in 1 .. Days
           /\ run[w].stamp \in 1 .. MaxRuns
           /\ user = "publish" => run[w].stamp = 1
           /\ run[w].version.day \in 1 .. Days
<1>1. OrderedFor(run[w], files, latest, user)
  BY DEF PInv, Ordered
<1>2. run[w] \in Runs
  BY DEF PInv, Shape
<1>3. run[w].stamp # 0 /\ (user = "publish" => run[w].stamp = 1)
  BY DEF PInv, Stamped
<1>4. run[w].version \in Versions
  BY <1>1 DEF OrderedFor
<1>5. run[w].stamp \in 0 .. MaxRuns /\ run[w].todo \in Plans /\ run[w].began \in 1 .. Days
  BY <1>2 DEF Runs
<1>6. run[w].stamp \in 1 .. MaxRuns
  BY <1>3, <1>5, PublicationAssumption
<1> QED
  BY <1>1, <1>3, <1>4, <1>5, <1>6, VersionDays DEF Busy

\* A step that writes no file: the run goes on with what its next step needs,
\* days only gain pointers, and messages name reports that are there.
LEMMA MoveOn ==
    ASSUME PInv, NEW w \in Writers, Busy(w), NEW todo \in Plans, Then(w, todo),
           UNCHANGED <<user, clock, files, touched, runs>>, failed' \subseteq 1 .. Days,
           latest' \in [1 .. Days -> Versions \cup {None}],
           \A d \in 1 .. Days : latest[d] # None => latest'[d] # None,
           \A d \in 1 .. Days : latest'[d] # None =>
              latest'[d].day = d /\ files[latest'[d]]["metadata"] # 0,
           notified' \subseteq Events \X Versions,
           \A n \in notified' :
              /\ files[n[2]]["metadata"] # 0
              /\ n[1] = "daily_recommendation" => latest'[n[2].day] # None,
           todo # <<>> => OrderedFor([run[w] EXCEPT !.todo = todo], files, latest', user)
    PROVE  PInv'
<1>1. /\ run' \in [Writers -> Runs] /\ run'[w].todo = todo
      /\ \A u \in Writers : u # w => run'[u] = run[u]
      /\ todo # <<>> => /\ run'[w].version = run[w].version
                        /\ run'[w].began = run[w].began
                        /\ run'[w].stamp = run[w].stamp
  BY ThenRun DEF PInv
<1>2. /\ Busy(w)' => todo # <<>>
      /\ \A u \in Writers : u # w => (Busy(u)' <=> Busy(u))
  BY <1>1 DEF Busy
<1>3. Shape'
  BY <1>1 DEF PInv, Shape
<1>4. Stamped'
  <2>1. ASSUME NEW u \in Writers, Busy(u)'
        PROVE  Busy(u) /\ run'[u].stamp = run[u].stamp
    BY <1>1, <1>2, <2>1
  <2>2. \A u \in Writers : Busy(u)' => run'[u].stamp # 0 /\ (user' = "publish" => run'[u].stamp = 1)
    BY <2>1 DEF PInv, Stamped
  <2>3. user' = "daily" => \A u, x \in Writers : Busy(u)' /\ Busy(x)' => u = x
    BY <2>1 DEF PInv, Stamped
  <2>4. user' = "publish" => \A v \in Versions, n \in Names : files'[v][n] \in {0, 1}
    BY DEF PInv, Stamped
  <2> QED
    BY <2>2, <2>3, <2>4 DEF Stamped
<1>5. Complete'
  BY DEF PInv, Complete, OneRun
<1>6. Ordered'
  <2>1. ASSUME NEW u \in Writers, Busy(u)'
        PROVE  OrderedFor(run'[u], files, latest', user)
    <3>1. CASE u = w
      <4>1. todo # <<>>
        BY <1>2, <2>1, <3>1
      <4>2. run[w] \in Runs /\ run'[w] \in Runs
        BY <1>1 DEF PInv, Shape
      <4> DEFINE r == run[w]   next == run'[w]
      <4>3. next.todo = todo /\ next.version = r.version /\ next.began = r.began
            /\ next.stamp = r.stamp /\ r \in Runs /\ next \in Runs
        BY <1>1, <4>1, <4>2
      <4> HIDE DEF r, next
      <4>4. next = [r EXCEPT !.todo = todo]
        BY <4>3 DEF Runs
      <4>5. run'[w] = [run[w] EXCEPT !.todo = todo]
        BY <4>4 DEF r, next
      <4> QED
        BY <3>1, <4>1, <4>5
    <3>2. CASE u # w
      <4>1. Busy(u) /\ run'[u] = run[u]
        BY <1>1, <1>2, <2>1, <3>2
      <4>2. OrderedFor(run[u], files, latest, user) /\ run[u].version.day \in 1 .. Days
        BY <4>1, OfRun
      <4> QED
        BY <4>1, <4>2 DEF OrderedFor
    <3> QED
      BY <3>1, <3>2
  <2> QED
    BY <2>1 DEF Ordered
<1>7. Pointed'
  BY DEF Pointed
<1> QED
  BY <1>3, <1>4, <1>5, <1>6, <1>7 DEF PInv

\* The same, of a step that moves no pointer and hands nothing over.
LEMMA GoOn ==
    ASSUME PInv, NEW w \in Writers, Busy(w), NEW todo \in Plans, Then(w, todo),
           UNCHANGED <<user, clock, files, touched, latest, notified, runs>>,
           failed' \subseteq 1 .. Days,
           todo # <<>> => OrderedFor([run[w] EXCEPT !.todo = todo], files, latest, user)
    PROVE  PInv'
<1>1. /\ latest' \in [1 .. Days -> Versions \cup {None}]
      /\ notified' \subseteq Events \X Versions
  BY DEF PInv, Shape
<1>2. \A d \in 1 .. Days : latest'[d] # None =>
         latest'[d].day = d /\ files[latest'[d]]["metadata"] # 0
  BY DEF PInv, Pointed
<1>3. \A n \in notified' :
         /\ files[n[2]]["metadata"] # 0
         /\ n[1] = "daily_recommendation" => latest'[n[2].day] # None
  BY DEF PInv, Pointed
<1>4. \A d \in 1 .. Days : latest[d] # None => latest'[d] # None
  OBVIOUS
<1>5. todo # <<>> => OrderedFor([run[w] EXCEPT !.todo = todo], files, latest', user)
  OBVIOUS
<1> QED
  BY <1>1, <1>2, <1>3, <1>4, <1>5, MoveOn

\* A report that is there once a step is done is all the next one relies on,
\* and the pointer after the step that moves it.
LEMMA AfterSaved ==
    ASSUME NEW r \in Runs, r.todo # <<>>, Tail(r.todo) # <<>>,
           Head(r.todo) \notin {"json", "md"}, r.version \in Versions,
           NEW disk, NEW pointers, NEW who, disk[r.version]["metadata"] # 0,
           "latest" \in ToSet(r.todo) => r.version.day = r.began,
           \/ Head(r.todo) = "latest" /\ pointers[r.version.day] # None
           \/ /\ Head(r.todo) # "latest"
              /\ "latest" \notin ToSet(r.todo) /\ r.version.day = r.began =>
                   pointers[r.version.day] # None
    PROVE  OrderedFor([r EXCEPT !.todo = Tail(r.todo)], disk, pointers, who)
<1> DEFINE rest == Tail(r.todo)   next == [r EXCEPT !.todo = rest]
<1>1. r.todo \in Plans
  BY DEF Runs
<1>2. /\ rest \in Ready
      /\ "latest" \in ToSet(rest) <=> "latest" \in ToSet(r.todo) /\ Head(r.todo) # "latest"
  BY <1>1, PlanTail
<1>3. Head(rest) \in {"latest", "verify", "notify"}
  BY <1>2, ReadyTail
<1>4. next.todo = rest /\ next.version = r.version /\ next.began = r.began
  BY DEF Runs
<1> HIDE DEF rest, next
<1>5. OrderedFor(next, disk, pointers, who)
  BY <1>2, <1>3, <1>4 DEF OrderedFor, Names
<1> QED
  BY <1>5 DEF rest, next

\* save() finds the report whole, or has all of it to write.
LEMMA SaveSafe ==
    ASSUME PInv, NEW w \in Writers, Save(w)
    PROVE  PInv'
<1> DEFINE r == run[w]   rest == Tail(r.todo)
<1>1. Busy(w) /\ Head(r.todo) = "save"
  BY DEF Save, At, Busy
<1>2. /\ OrderedFor(r, files, latest, user) /\ r.version \in Versions
      /\ r.todo \in Plans /\ r.todo # <<>> /\ r \in Runs
  BY <1>1, OfRun DEF PInv, Shape
<1>3. /\ rest \in Ready
      /\ "latest" \in ToSet(rest) <=> "latest" \in ToSet(r.todo)
  BY <1>1, <1>2, PlanTail
<1>4. failed' \subseteq 1 .. Days
  BY DEF Save, PInv, Shape
<1>5. UNCHANGED <<user, clock, files, touched, latest, notified, runs>>
  BY DEF Save
<1>6. Then(w, SaveOrder(r.version) \o rest)
  BY DEF Save
<1>7. /\ "latest" \in ToSet(r.todo) => r.version.day = r.began
      /\ "latest" \notin ToSet(r.todo) /\ r.version.day = r.began => latest[r.version.day] # None
  BY <1>2 DEF OrderedFor
<1>8. CASE Whole(r.version)
  <2>1. Then(w, rest)
    <3>1. SaveOrder(r.version) = <<>>
      BY <1>8 DEF SaveOrder
    <3>2. rest \in Seq(Steps)
      BY <1>3, ReadySteps
    <3>3. <<>> \o rest = rest
      BY <3>2
    <3> QED
      BY <1>6, <3>1, <3>3
  <2>2. files[r.version]["metadata"] # 0
    BY <1>8 DEF Whole, Names
  <2>3. rest # <<>> => OrderedFor([r EXCEPT !.todo = rest], files, latest, user)
    <3> HIDE DEF r
    <3> QED
      BY <1>1, <1>2, <1>7, <2>2, AfterSaved
  <2> QED
    BY <1>1, <1>3, <1>4, <1>5, <2>1, <2>3, GoOn DEF Plans
<1>9. CASE ~Whole(r.version)
  <2> DEFINE todo == <<"json", "md", "metadata">> \o rest   next == [r EXCEPT !.todo = todo]
  <2>1. Then(w, todo)
    BY <1>6, <1>9 DEF SaveOrder
  <2>2. /\ todo \in Plans /\ todo # <<>> /\ Head(todo) = "json"
        /\ "latest" \in ToSet(todo) <=> "latest" \in ToSet(rest)
    BY <1>3, SavePlan
  <2>3. files[r.version]["metadata"] = 0
    <3>1. SUFFICES ASSUME files[r.version]["metadata"] # 0 PROVE FALSE
      OBVIOUS
    <3>2. OneRun(r.version)
      BY <1>2, <3>1 DEF PInv, Complete
    <3> QED
      BY <1>9, <3>2 DEF OneRun, Whole
  <2>4. next.todo = todo /\ next.version = r.version /\ next.began = r.began
    BY <1>2 DEF Runs
  <2> HIDE DEF todo, next, r
  <2>5. OrderedFor(next, files, latest, user)
    BY <1>2, <1>3, <1>7, <2>2, <2>3, <2>4 DEF OrderedFor, Names
  <2> QED
    BY <1>1, <1>4, <1>5, <2>1, <2>2, <2>5, GoOn DEF next, r
<1> QED
  BY <1>8, <1>9

\* What was saved is read again.
LEMMA VerifySafe ==
    ASSUME PInv, NEW w \in Writers, Verify(w)
    PROVE  PInv'
<1> DEFINE r == run[w]   rest == Tail(r.todo)
<1>1. Busy(w) /\ Head(r.todo) = "verify"
  BY DEF Verify, At, Busy
<1>2. /\ OrderedFor(r, files, latest, user) /\ r.version \in Versions
      /\ r.todo \in Plans /\ r.todo # <<>> /\ r \in Runs
  BY <1>1, OfRun DEF PInv, Shape
<1>3. rest \in Plans /\ <<>> \in Plans
  BY <1>2, PlanTail DEF Plans, Ready
<1>4. failed' \subseteq 1 .. Days
  BY DEF Verify, PInv, Shape
<1>5. UNCHANGED <<user, clock, files, touched, latest, notified, runs>>
  BY DEF Verify
<1>6. /\ files[r.version]["metadata"] # 0
      /\ "latest" \in ToSet(r.todo) => r.version.day = r.began
      /\ "latest" \notin ToSet(r.todo) /\ r.version.day = r.began => latest[r.version.day] # None
  BY <1>1, <1>2 DEF OrderedFor
<1>7. rest # <<>> => OrderedFor([r EXCEPT !.todo = rest], files, latest, user)
  <2> HIDE DEF r
  <2> QED
    BY <1>1, <1>2, <1>6, AfterSaved
<1>8. CASE Loadable(r.version)
  <2>1. Then(w, rest)
    BY <1>8 DEF Verify
  <2> QED
    BY <1>1, <1>3, <1>4, <1>5, <1>7, <2>1, GoOn
<1>9. CASE ~Loadable(r.version)
  <2>1. Then(w, <<>>)
    BY <1>9 DEF Verify
  <2> QED
    BY <1>1, <1>3, <1>4, <1>5, <2>1, GoOn
<1> QED
  BY <1>8, <1>9

\* A run that stops relies on nothing.
LEMMA StopSafe ==
    ASSUME PInv, NEW w \in Writers, Stop(w)
    PROVE  PInv'
<1>1. Busy(w) /\ <<>> \in Plans /\ Then(w, <<>>)
  BY DEF Stop, Busy, Plans, Ready
<1>2. failed' \subseteq 1 .. Days
  BY <1>1, OfRun DEF Stop, PInv, Shape
<1>3. UNCHANGED <<user, clock, files, touched, latest, notified, runs>>
  BY DEF Stop
<1> QED
  BY <1>1, <1>2, <1>3, GoOn

\* The pointer is moved by a run of the day, to the report that it has saved.
LEMMA MovePointerSafe ==
    ASSUME PInv, NEW w \in Writers, MovePointer(w)
    PROVE  /\ PInv' /\ run[w].version.day = run[w].began
           /\ run[w].began \in 1 .. Days
           /\ latest' = [latest EXCEPT ![run[w].began] = run[w].version]
<1> DEFINE r == run[w]   rest == Tail(r.todo)
<1>1. Busy(w) /\ Head(r.todo) = "latest"
  BY DEF MovePointer, At, Busy
<1>2. /\ OrderedFor(r, files, latest, user) /\ r.version \in Versions
      /\ r.todo \in Plans /\ r.todo # <<>> /\ r \in Runs
      /\ r.began \in 1 .. Days /\ r.version.day \in 1 .. Days
  BY <1>1, OfRun DEF PInv, Shape
<1>3. /\ rest \in Plans
      /\ "latest" \in ToSet(r.todo)
  BY <1>1, <1>2, PlanTail
<1>4. /\ files[r.version]["metadata"] # 0
      /\ r.version.day = r.began
  BY <1>1, <1>2, <1>3 DEF OrderedFor
<1>5. /\ UNCHANGED <<user, clock, files, touched, runs>> /\ failed' = failed /\ notified' = notified
      /\ latest' = [latest EXCEPT ![r.version.day] = r.version] /\ Then(w, rest)
  BY DEF MovePointer
<1>6. r.version # None
  BY <1>2, VersionDays
<1> HIDE DEF r
<1>7. latest \in [1 .. Days -> Versions \cup {None}]
  BY DEF PInv, Shape
<1>8. /\ latest' \in [1 .. Days -> Versions \cup {None}]
      /\ latest'[r.version.day] = r.version
      /\ \A d \in 1 .. Days : d # r.version.day => latest'[d] = latest[d]
  BY <1>2, <1>5, <1>7
<1>9. \A d \in 1 .. Days : latest[d] # None => latest'[d] # None
  BY <1>6, <1>8
<1>10. \A d \in 1 .. Days : latest'[d] # None =>
         latest'[d].day = d /\ files[latest'[d]]["metadata"] # 0
  BY <1>4, <1>8 DEF PInv, Pointed
<1>11. /\ notified' \subseteq Events \X Versions
       /\ failed' \subseteq 1 .. Days
  BY <1>5 DEF PInv, Shape
<1>12. \A n \in notified' :
         /\ files[n[2]]["metadata"] # 0
         /\ n[1] = "daily_recommendation" => latest'[n[2].day] # None
  <2>1. ASSUME NEW n \in notified
        PROVE  n[2].day \in 1 .. Days /\ files[n[2]]["metadata"] # 0
               /\ (n[1] = "daily_recommendation" => latest[n[2].day] # None)
    <3>1. n[2] \in Versions
      BY DEF PInv, Shape
    <3> QED
      BY <3>1, VersionDays DEF PInv, Pointed
  <2> QED
    BY <1>5, <1>9, <2>1
<1>13. rest # <<>> => OrderedFor([r EXCEPT !.todo = rest], files, latest', user)
  <2>1. latest'[r.version.day] # None
    BY <1>6, <1>8
  <2>2. Head(r.todo) \notin {"json", "md"}
    BY <1>1
  <2> QED
    BY <1>1, <1>2, <1>4, <2>1, <2>2, AfterSaved
<1>14. PInv'
  BY <1>1, <1>3, <1>5, <1>8, <1>9, <1>10, <1>11, <1>12, <1>13, MoveOn DEF r
<1> QED
  BY <1>2, <1>4, <1>5, <1>14 DEF r

\* A message is handed over for a report that is there, and as a daily one for
\* a day that has a pointer.
LEMMA NotifySafe ==
    ASSUME PInv, NEW w \in Writers, Notify(w)
    PROVE  PInv'
<1> DEFINE r == run[w]   rest == Tail(r.todo)
           event == IF r.version.day = r.began THEN "daily_recommendation"
                    ELSE "historical_daily_recommendation_test"
<1>1. Busy(w) /\ Head(r.todo) = "notify"
  BY DEF Notify, At, Busy
<1>2. /\ OrderedFor(r, files, latest, user) /\ r.version \in Versions
      /\ r.todo \in Plans /\ r.todo # <<>> /\ r \in Runs
      /\ r.began \in 1 .. Days /\ r.version.day \in 1 .. Days
  BY <1>1, OfRun DEF PInv, Shape
<1>3. rest \in Plans /\ "latest" \notin ToSet(r.todo)
  BY <1>1, <1>2, PlanTail
<1>4. /\ files[r.version]["metadata"] # 0
      /\ "latest" \in ToSet(r.todo) => r.version.day = r.began
      /\ r.version.day = r.began => latest[r.version.day] # None
  BY <1>1, <1>2, <1>3 DEF OrderedFor
<1>5. /\ UNCHANGED <<user, clock, files, touched, runs>> /\ failed' = failed /\ latest' = latest
      /\ notified' = notified \cup {<<event, r.version>>} /\ Then(w, rest)
  BY DEF Notify
<1>6. event \in Events /\ (event = "daily_recommendation" => r.version.day = r.began)
  BY DEF Events
<1>7. rest # <<>> => OrderedFor([r EXCEPT !.todo = rest], files, latest', user)
  <2> HIDE DEF r, event
  <2> QED
    BY <1>1, <1>2, <1>3, <1>4, <1>5, AfterSaved
<1> HIDE DEF r, event
<1>8. /\ latest' \in [1 .. Days -> Versions \cup {None}] /\ failed' \subseteq 1 .. Days
      /\ notified' \subseteq Events \X Versions
  BY <1>2, <1>5, <1>6 DEF PInv, Shape
<1>9. \A d \in 1 .. Days : latest'[d] # None =>
         latest'[d].day = d /\ files[latest'[d]]["metadata"] # 0
  BY <1>5 DEF PInv, Pointed
<1>10. ASSUME NEW n \in notified'
       PROVE  /\ files[n[2]]["metadata"] # 0
              /\ n[1] = "daily_recommendation" => latest'[n[2].day] # None
  <2>1. CASE n \in notified
    BY <1>5, <2>1 DEF PInv, Pointed
  <2>2. CASE n = <<event, r.version>>
    BY <1>4, <1>5, <1>6, <2>2
  <2> QED
    BY <1>5, <2>1, <2>2
<1>11. \A d \in 1 .. Days : latest[d] # None => latest'[d] # None
  BY <1>5
<1> QED
  BY <1>1, <1>3, <1>5, <1>7, <1>8, <1>9, <1>10, <1>11, MoveOn DEF r

\* The versions without one of them.
LEMMA RemoveVersion ==
    ASSUME NEW s \in Seq(Versions), IsInjective(s), NEW i \in DOMAIN s
    PROVE  /\ RemoveAt(s, i) \in Seq(Versions)
           /\ ToSet(RemoveAt(s, i)) = ToSet(s) \ {s[i]}
           /\ IsInjective(RemoveAt(s, i))
<1>1. PICK n \in Nat : n = Len(s)
  OBVIOUS
<1>2. i \in 1 .. n /\ DOMAIN s = 1 .. n
  BY <1>1
<1> DEFINE a == SubSeq(s, 1, i - 1)
           b == SubSeq(s, i + 1, n)
           less == RemoveAt(s, i)
<1>3. a \in Seq(Versions) /\ Len(a) = i - 1 /\ \A j \in 1 .. i - 1 : a[j] = s[j]
  <2>1. 1 \in Int /\ i - 1 \in Int /\ \A j \in 1 .. i - 1 : s[j] \in Versions
    BY <1>1, <1>2
  <2>2. /\ a \in Seq(Versions)
        /\ Len(a) = IF 1 <= i - 1 THEN (i - 1) - 1 + 1 ELSE 0
        /\ \A j \in 1 .. (i - 1) - 1 + 1 : a[j] = s[1 + j - 1]
    BY <2>1, SubSeqProperties
  <2> HIDE DEF a
  <2>3. (i - 1) - 1 + 1 = i - 1 /\ \A j \in 1 .. i - 1 : 1 + j - 1 = j
    BY <1>2
  <2> QED
    BY <1>2, <2>2, <2>3
<1>4. b \in Seq(Versions) /\ Len(b) = n - i /\ \A j \in 1 .. n - i : b[j] = s[j + i]
  <2>1. i + 1 \in Int /\ n \in Int /\ \A j \in i + 1 .. n : s[j] \in Versions
    BY <1>1, <1>2
  <2>2. /\ b \in Seq(Versions)
        /\ Len(b) = IF i + 1 <= n THEN n - (i + 1) + 1 ELSE 0
        /\ \A j \in 1 .. n - (i + 1) + 1 : b[j] = s[(i + 1) + j - 1]
    BY <2>1, SubSeqProperties
  <2> HIDE DEF b
  <2>3. n - (i + 1) + 1 = n - i /\ \A j \in 1 .. n - i : (i + 1) + j - 1 = j + i
    BY <1>1, <1>2
  <2> QED
    BY <1>1, <1>2, <2>2, <2>3
<1>5. less = a \o b
  BY <1>1 DEF RemoveAt
<1> HIDE DEF a, b
<1>6. /\ less \in Seq(Versions) /\ Len(less) = Len(a) + Len(b)
      /\ \A j \in 1 .. Len(a) + Len(b) :
            less[j] = IF j <= Len(a) THEN a[j] ELSE b[j - Len(a)]
  BY <1>3, <1>4, <1>5, ConcatProperties
<1> HIDE DEF less
<1>7. DOMAIN less = 1 .. n - 1
  BY <1>1, <1>2, <1>3, <1>4, <1>6
<1>8. \A j \in 1 .. n - 1 : less[j] = IF j < i THEN s[j] ELSE s[j + 1]
  <2> SUFFICES ASSUME NEW j \in 1 .. n - 1 PROVE less[j] = IF j < i THEN s[j] ELSE s[j + 1]
    OBVIOUS
  <2>1. j \in 1 .. Len(a) + Len(b)
    BY <1>1, <1>2, <1>3, <1>4
  <2>2. CASE j < i
    BY <1>2, <1>3, <1>6, <2>1, <2>2
  <2>3. CASE ~(j < i)
    <3>1. ~(j <= Len(a)) /\ j - Len(a) = j - (i - 1) /\ j - (i - 1) \in 1 .. n - i
      BY <1>1, <1>2, <1>3, <2>3
    <3>2. less[j] = b[j - (i - 1)]
      BY <1>6, <2>1, <3>1
    <3>3. (j - (i - 1)) + i = j + 1
      BY <1>2
    <3> QED
      BY <1>4, <2>3, <3>1, <3>2, <3>3
  <2> QED
    BY <2>2, <2>3
<1>9. ToSet(less) = ToSet(s) \ {s[i]}
  <2>1. ASSUME NEW j \in 1 .. n - 1 PROVE less[j] \in ToSet(s) \ {s[i]}
    <3>1. j \in 1 .. n /\ j + 1 \in 1 .. n /\ (j < i => j # i) /\ (~(j < i) => j + 1 # i)
      BY <1>1, <1>2
    <3> QED
      BY <1>2, <1>8, <3>1 DEF IsInjective, ToSet
  <2>2. ASSUME NEW j \in 1 .. n, s[j] # s[i] PROVE s[j] \in ToSet(less)
    <3>1. CASE j < i
      <4>1. j \in 1 .. n - 1
        BY <1>1, <1>2, <3>1
      <4> QED
        BY <1>7, <1>8, <3>1, <4>1 DEF ToSet
    <3>2. CASE j > i
      <4>1. j - 1 \in 1 .. n - 1 /\ ~(j - 1 < i) /\ (j - 1) + 1 = j
        BY <1>1, <1>2, <3>2
      <4> QED
        BY <1>7, <1>8, <4>1 DEF ToSet
    <3> QED
      BY <1>2, <2>2, <3>1, <3>2
  <2> QED
    BY <1>2, <1>7, <2>1, <2>2 DEF ToSet
<1>10. IsInjective(less)
  <2> SUFFICES ASSUME NEW j \in 1 .. n - 1, NEW l \in 1 .. n - 1, less[j] = less[l] PROVE j = l
    BY <1>7 DEF IsInjective
  <2>1. j \in 1 .. n /\ j + 1 \in 1 .. n /\ l \in 1 .. n /\ l + 1 \in 1 .. n
    BY <1>1
  <2>2. (IF j < i THEN j ELSE j + 1) = (IF l < i THEN l ELSE l + 1)
    BY <1>2, <1>8, <2>1 DEF IsInjective
  <2> QED
    BY <1>1, <1>2, <2>2
<1> QED
  BY <1>6, <1>9, <1>10 DEF less

\* A version put in front of the others.
LEMMA FrontVersion ==
    ASSUME NEW v \in Versions, NEW s \in Seq(Versions), IsInjective(s), v \notin ToSet(s)
    PROVE  <<v>> \o s \in Seq(Versions) /\ IsInjective(<<v>> \o s)
<1>1. PICK n \in Nat : n = Len(s)
  OBVIOUS
<1> DEFINE one == <<v>>   all == one \o s
<1>2. one \in Seq(Versions) /\ Len(one) = 1 /\ one[1] = v
  OBVIOUS
<1> HIDE DEF one
<1>3. /\ all \in Seq(Versions) /\ Len(all) = Len(one) + Len(s)
      /\ \A i \in 1 .. Len(one) + Len(s) :
           all[i] = IF i <= Len(one) THEN one[i] ELSE s[i - Len(one)]
  BY <1>2, ConcatProperties
<1> HIDE DEF all
<1>4. /\ DOMAIN all = 1 .. n + 1 /\ DOMAIN s = 1 .. n
      /\ all[1] = v
      /\ \A i \in 1 .. n + 1 : i # 1 => all[i] = s[i - 1] /\ i - 1 \in 1 .. n
  <2>1. Len(one) + Len(s) = n + 1
    BY <1>1, <1>2
  <2>2. all[1] = v
    <3>1. 1 \in 1 .. n + 1 /\ 1 <= 1
      BY <1>1
    <3> QED
      BY <1>2, <1>3, <2>1, <3>1
  <2>3. ASSUME NEW i \in 1 .. n + 1, i # 1 PROVE all[i] = s[i - 1] /\ i - 1 \in 1 .. n
    <3>1. ~(i <= 1) /\ i - 1 \in 1 .. n
      BY <1>1, <2>3
    <3> QED
      BY <1>2, <1>3, <2>1, <3>1
  <2> QED
    BY <1>1, <1>3, <2>1, <2>2, <2>3
<1>5. ASSUME NEW i \in 1 .. n + 1, NEW j \in 1 .. n + 1, all[i] = all[j] PROVE i = j
  <2>1. ASSUME NEW l \in 1 .. n + 1, l # 1 PROVE all[l] # v
    <3>1. all[l] = s[l - 1] /\ l - 1 \in DOMAIN s
      BY <1>4, <2>1
    <3> QED
      BY <3>1 DEF ToSet
  <2>2. CASE i = 1 \/ j = 1
    BY <1>4, <1>5, <2>1, <2>2
  <2>3. CASE i # 1 /\ j # 1
    <3>1. s[i - 1] = s[j - 1] /\ i - 1 \in DOMAIN s /\ j - 1 \in DOMAIN s
      BY <1>4, <1>5, <2>3
    <3>2. i - 1 = j - 1
      BY <3>1 DEF IsInjective
    <3> QED
      BY <3>2
  <2> QED
    BY <2>2, <2>3
<1>6. IsInjective(all)
  BY <1>4, <1>5 DEF IsInjective
<1> QED
  BY <1>3, <1>6 DEF all, one

\* A file is written by the only run there is, or as each publication of the
\* report writes it.
LEMMA WriteFileSafe ==
    ASSUME PInv, NEW w \in Writers, WriteFile(w)
    PROVE  PInv'
<1> DEFINE r == run[w]   name == Head(r.todo)   rest == Tail(r.todo)   v == r.version
<1>1. Busy(w) /\ name \in Names
  BY DEF WriteFile, At, Busy
<1>2. /\ OrderedFor(r, files, latest, user) /\ v \in Versions
      /\ r.todo \in Plans /\ r.todo # <<>> /\ r \in Runs
      /\ r.stamp \in 1 .. MaxRuns /\ (user = "publish" => r.stamp = 1)
  BY <1>1, OfRun DEF PInv, Shape
<1>3. /\ rest \in Plans
      /\ "latest" \in ToSet(rest) <=> "latest" \in ToSet(r.todo)
      /\ name = "json" => Head(rest) = "md" /\ rest # <<>>
      /\ name = "md" => Head(rest) = "metadata" /\ rest # <<>>
  <2>1. name # "latest"
    BY <1>1 DEF Names
  <2> QED
    BY <1>2, <2>1, PlanTail
<1>4. /\ UNCHANGED <<user, clock, latest, failed, notified, runs>>
      /\ Then(w, rest)
      /\ files' = [files EXCEPT ![v][name] = r.stamp]
  BY DEF WriteFile
<1>5. /\ run' \in [Writers -> Runs] /\ run'[w].todo = rest
      /\ \A u \in Writers : u # w => run'[u] = run[u]
      /\ rest # <<>> => /\ run'[w].version = v
                        /\ run'[w].began = r.began
                        /\ run'[w].stamp = r.stamp
  BY <1>3, <1>4, ThenRun DEF PInv
<1>6. touched' \in Seq(Versions) /\ IsInjective(touched')
  <2>1. touched \in Seq(Versions) /\ IsInjective(touched)
    BY DEF PInv, Shape
  <2>2. CASE v \notin ToSet(touched) /\ touched' = <<v>> \o touched
    <3> HIDE DEF v
    <3> QED
      BY <1>2, <2>1, <2>2, FrontVersion
  <2>3. CASE \E i \in DOMAIN touched :
               touched[i] = v /\ touched' = <<v>> \o RemoveAt(touched, i)
    <3>1. PICK i \in DOMAIN touched :
               touched[i] = v /\ touched' = <<v>> \o RemoveAt(touched, i)
      BY <2>3
    <3> DEFINE less == RemoveAt(touched, i)
    <3>2. less \in Seq(Versions) /\ ToSet(less) = ToSet(touched) \ {v} /\ IsInjective(less)
      BY <2>1, <3>1, RemoveVersion
    <3>3. touched' = <<v>> \o less
      BY <3>1
    <3> HIDE DEF v, less
    <3> QED
      BY <1>2, <3>2, <3>3, FrontVersion
  <2>4. \/ v \notin ToSet(touched) /\ touched' = <<v>> \o touched
        \/ \E i \in DOMAIN touched :
             touched[i] = v /\ touched' = <<v>> \o RemoveAt(touched, i)
    BY DEF WriteFile
  <2> QED
    BY <2>2, <2>3, <2>4
<1>7. files \in [Versions -> [Names -> 0 .. MaxRuns]] /\ MaxRuns \in Nat
  BY PublicationAssumption DEF PInv, Shape
<1> HIDE DEF v, name, rest, r
<1>8. /\ files' \in [Versions -> [Names -> 0 .. MaxRuns]]
      /\ files'[v][name] = r.stamp
      /\ \A x \in Versions, n \in Names : ~(x = v /\ n = name) => files'[x][n] = files[x][n]
  <2> DEFINE own == [files[v] EXCEPT ![name] = r.stamp]
  <2>1. /\ own \in [Names -> 0 .. MaxRuns] /\ own[name] = r.stamp
        /\ \A n \in Names : n # name => own[n] = files[v][n]
    <3>1. r.stamp \in 0 .. MaxRuns /\ files[v] \in [Names -> 0 .. MaxRuns]
      BY <1>2, <1>7
    <3> QED
      BY <1>1, <3>1
  <2>2. files' = [files EXCEPT ![v] = own]
    BY <1>4
  <2> HIDE DEF own
  <2> QED
    BY <1>2, <1>7, <2>1, <2>2
<1>9. \A x \in Versions, n \in Names : files[x][n] # 0 => files'[x][n] # 0
  <2>1. r.stamp # 0
    BY <1>2, <1>7
  <2> QED
    BY <1>8, <2>1
<1>10. {"json", "md", "metadata"} = Names
  BY DEF Names
<1>11. Shape'
  BY <1>4, <1>5, <1>6, <1>8 DEF PInv, Shape
<1>12. \A u \in Writers : Busy(u)' => Busy(u) /\ run'[u].stamp = run[u].stamp
  BY <1>1, <1>5 DEF Busy, r
<1>13. Stamped'
  <2>1. user' = "publish" => \A x \in Versions, n \in Names : files'[x][n] \in {0, 1}
    BY <1>2, <1>4, <1>8 DEF PInv, Stamped
  <2>2. \A u \in Writers : Busy(u)' =>
           run'[u].stamp # 0 /\ (user' = "publish" => run'[u].stamp = 1)
    BY <1>4, <1>12 DEF PInv, Stamped
  <2>3. user' = "daily" => \A u, x \in Writers : Busy(u)' /\ Busy(x)' => u = x
    BY <1>4, <1>12 DEF PInv, Stamped
  <2> QED
    BY <2>1, <2>2, <2>3 DEF Stamped
<1>14. Complete'
  <2> SUFFICES ASSUME NEW x \in Versions, files'[x]["metadata"] # 0
               PROVE  files'[x]["json"] # 0 /\ \A n \in Names : files'[x][n] = files'[x]["json"]
    BY DEF Complete, OneRun
  <2>1. CASE x # v
    <3>1. OneRun(x)
      BY <1>8, <1>10, <2>1 DEF PInv, Complete
    <3> QED
      BY <1>8, <1>10, <2>1, <3>1 DEF OneRun
  <2>2. CASE x = v /\ name = "metadata"
    <3>1. files[v]["json"] = r.stamp /\ files[v]["md"] = r.stamp
      BY <1>2, <2>2 DEF OrderedFor, v, name
    <3>2. files'[v]["json"] = r.stamp /\ files'[v]["md"] = r.stamp
          /\ files'[v]["metadata"] = r.stamp
      BY <1>2, <1>8, <1>10, <2>2, <3>1
    <3> QED
      BY <1>2, <1>10, <2>2, <3>2
  <2>3. CASE x = v /\ name # "metadata"
    <3>1. files[v]["metadata"] # 0
      BY <1>2, <1>8, <1>10, <2>3
    <3>2. user = "publish"
      <4>1. user \in {"daily", "publish"}
        BY DEF PInv, Shape
      <4>2. user = "daily" => files[v]["metadata"] = 0
        BY <1>1, <1>2 DEF OrderedFor, v, name
      <4> QED
        BY <3>1, <4>1, <4>2
    <3>3. OneRun(v) /\ \A n \in Names : files[v][n] \in {0, 1}
      BY <1>2, <3>1, <3>2 DEF PInv, Complete, Stamped
    <3>4. \A n \in Names : files[v][n] = 1
      BY <1>10, <3>3 DEF OneRun
    <3>5. \A n \in Names : files'[v][n] = 1
      BY <1>2, <1>8, <3>2, <3>4
    <3> QED
      BY <1>10, <2>3, <3>5
  <2> QED
    BY <2>1, <2>2, <2>3
<1>15. Ordered'
  <2>1. ASSUME NEW u \in Writers, Busy(u)'
        PROVE  OrderedFor(run'[u], files', latest', user')
    <3>1. CASE u = w
      <4>1. /\ rest # <<>> /\ run'[w].todo = rest /\ run'[w].version = v
            /\ run'[w].began = r.began /\ run'[w].stamp = r.stamp
        BY <1>5, <2>1, <3>1 DEF Busy
      <4>2. /\ "latest" \in ToSet(r.todo) => v.day = r.began
            /\ "latest" \notin ToSet(r.todo) /\ v.day = r.began => latest[v.day] # None
            /\ user = "daily" => files[v]["metadata"] = 0
        BY <1>1, <1>2 DEF OrderedFor, v, name
      <4>3. CASE name = "json"
        <5>1. files'[v]["json"] = r.stamp /\ files'[v]["metadata"] = files[v]["metadata"]
          BY <1>2, <1>8, <1>10, <4>3
        <5>2. Head(rest) = "md"
          BY <1>3, <4>3
        <5> QED
          BY <1>2, <1>3, <1>4, <3>1, <4>1, <4>2, <5>1, <5>2 DEF OrderedFor
      <4>4. CASE name = "md"
        <5>1. /\ files'[v]["json"] = files[v]["json"] /\ files'[v]["md"] = r.stamp
              /\ files'[v]["metadata"] = files[v]["metadata"]
          BY <1>2, <1>8, <1>10, <4>4
        <5>2. Head(rest) = "metadata" /\ files[v]["json"] = r.stamp
          BY <1>2, <1>3, <4>4 DEF OrderedFor, v, name
        <5> QED
          BY <1>2, <1>3, <1>4, <3>1, <4>1, <4>2, <5>1, <5>2 DEF OrderedFor
      <4>5. CASE name = "metadata"
        <5>1. files'[v]["metadata"] # 0
          BY <1>2, <1>8, <4>5
        <5>2. Head(r.todo) = "metadata" /\ Tail(r.todo) # <<>> /\ r.todo # <<>>
          BY <1>2, <4>1, <4>5 DEF name, rest
        <5>3. OrderedFor([r EXCEPT !.todo = Tail(r.todo)], files', latest', user')
          <6> DEFINE disk == files'   pointers == latest'   who == user'
          <6>1. disk[r.version]["metadata"] # 0
                /\ ("latest" \notin ToSet(r.todo) /\ r.version.day = r.began =>
                      pointers[r.version.day] # None)
                /\ ("latest" \in ToSet(r.todo) => r.version.day = r.began)
            BY <1>4, <4>2, <5>1 DEF v
          <6> HIDE DEF disk, pointers, who
          <6>2. OrderedFor([r EXCEPT !.todo = Tail(r.todo)], disk, pointers, who)
            BY <1>2, <5>2, <6>1, AfterSaved DEF v
          <6> QED
            BY <6>2 DEF disk, pointers, who
        <5>4. run'[w] = [r EXCEPT !.todo = Tail(r.todo)]
          <6> DEFINE next == run'[w]
          <6>1. /\ next \in Runs /\ next.todo = rest /\ next.version = r.version
                /\ next.began = r.began /\ next.stamp = r.stamp
            BY <1>5, <4>1 DEF v
          <6> HIDE DEF next
          <6>2. next = [r EXCEPT !.todo = rest]
            BY <1>2, <6>1 DEF Runs
          <6> QED
            BY <6>2 DEF next, rest
        <5> QED
          BY <3>1, <5>3, <5>4
      <4> QED
        BY <1>1, <1>10, <4>3, <4>4, <4>5
    <3>2. CASE u # w
      <4>1. Busy(u) /\ run'[u] = run[u]
        BY <1>5, <1>12, <2>1, <3>2
      <4>2. /\ OrderedFor(run[u], files, latest, user) /\ run[u].version \in Versions
            /\ user = "publish" => run[u].stamp = 1
        BY <4>1, OfRun
      <4>3. user = "publish"
        BY <1>1, <3>2, <4>1 DEF PInv, Shape, Stamped
      <4> DEFINE x == run[u].version
      <4>4. \A n \in Names : files[x][n] = 1 => files'[x][n] = 1
        BY <1>2, <1>8, <4>2, <4>3
      <4>5. files[x]["metadata"] # 0 => files'[x]["metadata"] # 0
        BY <1>9, <1>10, <4>2
      <4> QED
        BY <1>4, <1>10, <4>1, <4>2, <4>3, <4>4, <4>5 DEF OrderedFor
    <3> QED
      BY <3>1, <3>2
  <2> QED
    BY <2>1 DEF Ordered
<1>16. Pointed'
  <2>1. ASSUME NEW d \in 1 .. Days, latest'[d] # None
        PROVE  latest'[d].day = d /\ files'[latest'[d]]["metadata"] # 0
    <3>1. latest'[d] = latest[d] /\ latest[d] \in Versions
      BY <1>4, <2>1 DEF PInv, Shape
    <3> QED
      BY <1>9, <1>10, <2>1, <3>1 DEF PInv, Pointed
  <2>2. ASSUME NEW n \in notified'
        PROVE  /\ files'[n[2]]["metadata"] # 0
               /\ n[1] = "daily_recommendation" => latest'[n[2].day] # None
    <3>1. n \in notified /\ n[2] \in Versions
      BY <1>4 DEF PInv, Shape
    <3> QED
      BY <1>4, <1>9, <1>10, <3>1 DEF PInv, Pointed
  <2> QED
    BY <2>1, <2>2 DEF Pointed
<1> QED
  BY <1>11, <1>13, <1>14, <1>15, <1>16 DEF PInv

\* A run begins with a report of its own to save, on its own if it is the daily
\* service's.
LEMMA BeginSafe ==
    ASSUME PInv, NEW w \in Writers, NEW v \in Versions, NEW rest \in Ready,
           NEW stamp \in 1 .. MaxRuns, runs < MaxRuns,
           Begin(w, v, Before("save", rest), stamp),
           user = "publish" => stamp = 1,
           user = "daily" => \A other \in Writers : ~Busy(other),
           "latest" \in ToSet(Before("save", rest)) <=> v.day = Today
    PROVE  PInv'
<1> DEFINE todo == Before("save", rest)
           r == [todo |-> todo, version |-> v, began |-> Today, stamp |-> stamp]
<1>1. todo \in Plans /\ todo # <<>> /\ Head(todo) = "save"
  BY NewPlan
<1>2. /\ run' = [run EXCEPT ![w] = r] /\ runs' = runs + 1
      /\ UNCHANGED <<user, clock, files, touched, latest, failed, notified>>
  BY DEF Begin
<1>3. "latest" \in ToSet(todo) <=> v.day = Today
  OBVIOUS
<1> HIDE DEF todo
<1>4. r \in Runs
  <2>1. Today \in 1 .. Days /\ stamp \in 0 .. MaxRuns
    BY TodayType, PublicationAssumption DEF PInv
  <2> QED
    BY <1>1, <2>1 DEF Runs
<1>5. /\ r.todo = todo /\ r.version = v /\ r.began = Today /\ r.stamp = stamp
  OBVIOUS
<1> HIDE DEF r
<1>6. /\ run \in [Writers -> Runs] /\ run' \in [Writers -> Runs] /\ run'[w] = r
      /\ \A u \in Writers : u # w => run'[u] = run[u]
  BY <1>2, <1>4 DEF PInv, Shape
<1>7. \A u \in Writers : u # w => (Busy(u)' <=> Busy(u))
  BY <1>6 DEF Busy
<1>8. Shape'
  <2>1. runs' \in 0 .. MaxRuns
    BY <1>2, PublicationAssumption DEF PInv, Shape
  <2> QED
    BY <1>2, <1>6, <2>1 DEF PInv, Shape
<1>9. Stamped'
  <2>1. user' = "publish" => \A x \in Versions, n \in Names : files'[x][n] \in {0, 1}
    BY <1>2 DEF PInv, Stamped
  <2>2. ASSUME NEW u \in Writers, Busy(u)'
        PROVE  run'[u].stamp # 0 /\ (user' = "publish" => run'[u].stamp = 1)
    <3>1. CASE u = w
      <4>1. stamp # 0
        BY PublicationAssumption
      <4> QED
        BY <1>2, <1>5, <1>6, <3>1, <4>1
    <3>2. CASE u # w
      <4>1. Busy(u) /\ run'[u] = run[u]
        BY <1>6, <1>7, <2>2, <3>2
      <4> QED
        BY <1>2, <4>1 DEF PInv, Stamped
    <3> QED
      BY <3>1, <3>2
  <2>3. user' = "daily" => \A u, x \in Writers : Busy(u)' /\ Busy(x)' => u = x
    BY <1>2, <1>7
  <2> QED
    BY <2>1, <2>2, <2>3 DEF Stamped
<1>10. Complete'
  BY <1>2 DEF PInv, Complete, OneRun
<1>11. Ordered'
  <2>1. ASSUME NEW u \in Writers, Busy(u)'
        PROVE  OrderedFor(run'[u], files', latest', user')
    <3>1. CASE u = w
      <4>1. OrderedFor(r, files, latest, user)
        BY <1>1, <1>3, <1>5 DEF OrderedFor, Names
      <4> QED
        BY <1>2, <1>6, <3>1, <4>1
    <3>2. CASE u # w
      <4>1. Busy(u) /\ run'[u] = run[u]
        BY <1>6, <1>7, <2>1, <3>2
      <4>2. OrderedFor(run[u], files, latest, user)
        BY <4>1 DEF PInv, Ordered
      <4> QED
        BY <1>2, <4>1, <4>2
    <3> QED
      BY <3>1, <3>2
  <2> QED
    BY <2>1 DEF Ordered
<1>12. Pointed'
  BY <1>2 DEF PInv, Pointed
<1> QED
  BY <1>8, <1>9, <1>10, <1>11, <1>12 DEF PInv

\* The daily service begins when no run goes on.
LEMMA GenerateSafe ==
    ASSUME PInv, NEW w \in Writers, Generate(w)
    PROVE  PInv'
<1> DEFINE rest == <<"latest">>   todo == Before("save", rest)
<1>1. PICK v \in Sources : v.day = Today /\ Begin(w, v, <<"save", "latest">>, runs + 1)
  BY DEF Generate
<1>2. todo = <<"save", "latest">> /\ rest \in Ready
  <2>1. rest \in Ready
    BY DEF Ready
  <2> DEFINE one == <<"save">>   cat == one \o rest   both == <<"save", "latest">>
  <2>2. /\ one \in Seq(Steps) /\ Len(one) = 1 /\ one[1] = "save"
        /\ rest \in Seq(Steps) /\ Len(rest) = 1 /\ rest[1] = "latest"
        /\ both \in Seq(Steps) /\ Len(both) = 2 /\ both[1] = "save" /\ both[2] = "latest"
    BY DEF Steps
  <2>3. cat = both
    <3> HIDE DEF one, rest, both
    <3>1. /\ cat \in Seq(Steps) /\ Len(cat) = Len(one) + Len(rest)
          /\ \A i \in 1 .. Len(one) + Len(rest) :
               cat[i] = IF i <= Len(one) THEN one[i] ELSE rest[i - Len(one)]
      BY <2>2, ConcatProperties
    <3> HIDE DEF cat
    <3>2. Len(cat) = 2 /\ cat[1] = "save" /\ cat[2] = "latest"
      BY <2>2, <3>1
    <3> QED
      BY <2>2, <3>1, <3>2
  <2> QED
    BY <2>1, <2>3 DEF Before
<1>3. /\ user = "daily" /\ runs < MaxRuns
      /\ \A other \in Writers : ~Busy(other)
  BY DEF Generate, Free, Busy
<1>4. runs + 1 \in 1 .. MaxRuns
  BY <1>3, PublicationAssumption DEF PInv, Shape
<1>5. v \in Versions
  BY DEF Versions
<1>6. "latest" \in ToSet(todo)
  <2>1. rest \in Seq(Steps) /\ "save" \in Steps /\ "latest" \in ToSet(rest)
    BY DEF Steps, ToSet
  <2> HIDE DEF rest
  <2> QED
    BY <2>1, BeforeSteps
<1>7. Begin(w, v, todo, runs + 1)
  BY <1>1, <1>2
<1> HIDE DEF rest
<1> QED
  BY <1>1, <1>2, <1>3, <1>4, <1>5, <1>6, <1>7, BeginSafe

\* A publication begins whatever the others do.
LEMMA PublishSafe ==
    ASSUME PInv, NEW w \in Writers, Publish(w)
    PROVE  PInv'
<1>1. PICK s \in Sources, o \in Options :
         Begin(w, Convert(s), PublishSteps(s.day # Today, o.telegram), 1)
  BY DEF Publish
<1> DEFINE historical == s.day # Today   telegram == o.telegram
<1>2. historical \in BOOLEAN /\ telegram \in BOOLEAN
  BY DEF Options
<1>3. /\ \E r \in Ready : PublishSteps(historical, telegram) = Before("save", r)
      /\ "latest" \in ToSet(PublishSteps(historical, telegram)) <=> ~historical
  <2> HIDE DEF historical, telegram
  <2> QED
    BY <1>2, PublishPlan
<1>4. PICK rest \in Ready : PublishSteps(historical, telegram) = Before("save", rest)
  BY <1>3
<1>5. Convert(s) \in Versions /\ Convert(s).day = s.day
  BY Converted
<1>6. "latest" \in ToSet(Before("save", rest)) <=> Convert(s).day = Today
  BY <1>3, <1>4, <1>5
<1>7. user = "publish" /\ runs < MaxRuns /\ 1 \in 1 .. MaxRuns
  BY PublicationAssumption DEF Publish, Free, PInv, Shape
<1>8. Begin(w, Convert(s), Before("save", rest), 1)
  BY <1>1, <1>4
<1> QED
  BY <1>5, <1>6, <1>7, <1>8, BeginSafe

\* Time passing, and nothing at all, disturb nothing.
LEMMA QuietSafe ==
    ASSUME PInv,
           UNCHANGED <<user, files, touched, latest, failed, run, notified, runs>>,
           clock' \in 0 .. 2 * Days - 1
    PROVE  PInv'
<1>1. Shape'
  BY DEF PInv, Shape
<1>2. \A w \in Writers : Busy(w)' <=> Busy(w)
  BY DEF Busy
<1>3. Stamped'
  BY <1>2 DEF PInv, Stamped
<1>4. Complete' /\ Pointed'
  BY DEF PInv, Complete, OneRun, Pointed
<1>5. Ordered'
  BY <1>2 DEF PInv, Ordered
<1> QED
  BY <1>1, <1>3, <1>4, <1>5 DEF PInv

\* The invariant is inductive.
LEMMA StepPInv == PInv /\ [Next]_vars => PInv'
<1> SUFFICES ASSUME PInv, [Next]_vars PROVE PInv'
  OBVIOUS
<1>1. ASSUME NEW w \in Writers, Generate(w) PROVE PInv'
  BY <1>1, GenerateSafe
<1>2. ASSUME NEW w \in Writers, Publish(w) PROVE PInv'
  BY <1>2, PublishSafe
<1>3. ASSUME NEW w \in Writers, Save(w) PROVE PInv'
  BY <1>3, SaveSafe
<1>4. ASSUME NEW w \in Writers, WriteFile(w) PROVE PInv'
  BY <1>4, WriteFileSafe
<1>5. ASSUME NEW w \in Writers, MovePointer(w) PROVE PInv'
  BY <1>5, MovePointerSafe
<1>6. ASSUME NEW w \in Writers, Verify(w) PROVE PInv'
  BY <1>6, VerifySafe
<1>7. ASSUME NEW w \in Writers, Notify(w) PROVE PInv'
  BY <1>7, NotifySafe
<1>8. ASSUME NEW w \in Writers, Stop(w) PROVE PInv'
  BY <1>8, StopSafe
<1>9. CASE Advance
  <2>1. clock' \in 0 .. 2 * Days - 1
    BY <1>9, PublicationAssumption DEF Advance, PInv, Shape
  <2> QED
    BY <1>9, <2>1, QuietSafe DEF Advance
<1>10. CASE UNCHANGED vars
  <2>1. clock' \in 0 .. 2 * Days - 1
    BY <1>10 DEF vars, PInv, Shape
  <2> QED
    BY <1>10, <2>1, QuietSafe DEF vars
<1> QED
  BY <1>1, <1>2, <1>3, <1>4, <1>5, <1>6, <1>7, <1>8, <1>9, <1>10 DEF Next

\* The invariant holds in every state.
LEMMA AlwaysPInv == Spec => []PInv
  BY InitPInv, StepPInv, PTL DEF Spec

-----------------------------------------------------------------------------
(***************************************************************************)
(* What readers find.                                                      *)
(***************************************************************************)

\* The least of some numbers is one of them.
LEMMA MinIn ==
    ASSUME NEW T \in SUBSET Nat, T # {}
    PROVE  Min(T) \in T /\ \A y \in T : Min(T) =< y
<1> DEFINE R == OpToRel(<, Nat)
<1>1. \A y, x \in Nat : y < x => <<y, x>> \in R
  BY DEF OpToRel
<1>2. IsWellFoundedOn(R, Nat)
  BY NatLessThanWellFounded
<1> HIDE DEF R
<1>3. PICK x \in T : \A y \in T : ~ (<<y, x>> \in R)
  BY <1>2, WFMin
<1>4. ASSUME NEW y \in T PROVE x =< y
  <2>1. x \in Nat /\ y \in Nat
    OBVIOUS
  <2>2. ~(y < x)
    BY <1>1, <1>3, <2>1
  <2> QED
    BY <2>1, <2>2
<1> QED
  BY <1>4 DEF Min

\* The last of some days is one of them.
LEMMA MaxIn ==
    ASSUME NEW T \in SUBSET (1 .. Days), T # {}
    PROVE  Max(T) \in T /\ \A y \in T : Max(T) >= y
<1> DEFINE U == {Days - x : x \in T}
<1>1. U \in SUBSET Nat /\ U # {}
  <2>1. ASSUME NEW x \in T PROVE Days - x \in Nat
    <3>1. x \in 1 .. Days /\ Days \in Nat
      BY PublicationAssumption
    <3> QED
      BY <3>1
  <2> QED
    BY <2>1
<1>2. PICK least \in U : \A y \in U : least =< y
  <2> HIDE DEF U
  <2> QED
    BY <1>1, MinIn
<1>3. PICK x \in T : least = Days - x
  BY <1>2
<1>4. \A y \in T : x >= y
  <2> SUFFICES ASSUME NEW y \in T PROVE x >= y
    OBVIOUS
  <2>1. Days - x =< Days - y
    BY <1>2, <1>3
  <2>2. x \in 1 .. Days /\ y \in 1 .. Days /\ Days \in Nat
    BY PublicationAssumption
  <2> QED
    BY <2>1, <2>2
<1> QED
  BY <1>4 DEF Max

\* Where the pointer of a day leads, all three readers look.
LEMMA FollowPointer ==
    ASSUME PInv, NEW d \in 1 .. Days
    PROVE  /\ Load(d) = latest[d] /\ (latest[d] # None => ForDate(d) = latest[d])
           /\ latest[d] # None => latest[d] \in Versions /\ latest[d].day = d
                                  /\ OneRun(latest[d])
<1>1. CASE latest[d] = None
  BY <1>1 DEF Load
<1>2. CASE latest[d] # None
  <2>1. latest[d] \in Versions
    BY <1>2 DEF PInv, Shape
  <2>2. latest[d].day = d /\ files[latest[d]]["metadata"] # 0
    BY <1>2 DEF PInv, Pointed
  <2>3. OneRun(latest[d]) /\ Loadable(latest[d])
    BY <2>1, <2>2 DEF PInv, Complete, OneRun, Loadable
  <2>4. Load(d) = latest[d]
    BY <1>2, <2>3 DEF Load, OneRun
  <2>5. ForDate(d) = latest[d]
    BY <1>2, <2>3 DEF ForDate, FromPointer
  <2> QED
    BY <2>1, <2>2, <2>3, <2>4, <2>5
<1> QED
  BY <1>1, <1>2

\* What the dashboard shows of a day is a report of it, all of it there.
LEMMA ShownWhole ==
    ASSUME PInv, NEW d \in 1 .. Days, ForDate(d) # None
    PROVE  ForDate(d) \in Versions /\ ForDate(d).day = d /\ OneRun(ForDate(d))
<1>1. CASE latest[d] # None
  BY <1>1, FollowPointer
<1>2. CASE latest[d] = None
  <2> DEFINE found == {i \in DOMAIN touched : touched[i].day = d /\ Loadable(touched[i])}
  <2>1. ForDate(d) = FromVersions(d)
    BY <1>2 DEF ForDate, FromPointer
  <2>2. FromVersions(d) = IF found = {} THEN None ELSE touched[Min(found)]
    BY DEF FromVersions
  <2>3. touched \in Seq(Versions)
    BY DEF PInv, Shape
  <2>4. found \in SUBSET Nat
    BY <2>3
  <2>5. found # {}
    BY <2>1, <2>2
  <2>6. Min(found) \in found
    <3> HIDE DEF found
    <3> QED
      BY <2>4, <2>5, MinIn
  <2> DEFINE first == Min(found)
  <2>7. first \in DOMAIN touched /\ touched[first].day = d /\ Loadable(touched[first])
    <3> HIDE DEF first
    <3>1. first \in found
      BY <2>6 DEF first
    <3> QED
      BY <3>1
  <2>8. ForDate(d) = touched[first]
    <3> HIDE DEF found
    <3> QED
      BY <2>1, <2>2, <2>5
  <2> HIDE DEF first, found
  <2>9. touched[first] \in Versions
    BY <2>3, <2>7
  <2> QED
    BY <2>7, <2>8, <2>9 DEF PInv, Complete, Loadable
<1> QED
  BY <1>1, <1>2

\* The dashboard shows no older day than any that has a pointer, and of the same
\* day the report of the pointer.
LEMMA ShowsPointed ==
    ASSUME PInv, NEW d \in 1 .. Days, latest[d] # None
    PROVE  /\ LatestShown # None /\ LatestShown.day >= d
           /\ LatestShown.day = d => LatestShown = latest[d]
<1> DEFINE found == {e \in 1 .. Days : ForDate(e) # None}
           last == Max(found)
<1>1. LatestShown = IF found = {} THEN None ELSE ForDate(last)
  BY DEF LatestShown
<1>2. d \in found /\ ForDate(d) = latest[d]
  BY FollowPointer
<1>3. found \in SUBSET (1 .. Days) /\ found # {}
  BY <1>2
<1>4. last \in found /\ last >= d
  <2> HIDE DEF found
  <2> QED
    BY <1>2, <1>3, MaxIn
<1>5. last \in 1 .. Days /\ ForDate(last) # None
  <2> HIDE DEF last
  <2> QED
    BY <1>4
<1> HIDE DEF found, last
<1>6. LatestShown = ForDate(last)
  BY <1>1, <1>3
<1>7. ForDate(last).day = last
  BY <1>5, ShownWhole
<1> QED
  BY <1>2, <1>4, <1>5, <1>6, <1>7

\* Whatever stops a writer, and whoever else writes, nobody is shown a report
\* that was left half written or completed by another run.
THEOREM NobodySeesHalf == Spec => []ReportsWhole
<1>1. ASSUME PInv PROVE ReportsWhole
  <2>1. PubTypeOK
    <3>1. touched \in Seq(Versions) /\ IsInjective(touched)
      BY <1>1 DEF PInv, Shape
    <3>2. ToSet(touched) \subseteq Versions
      BY <3>1 DEF ToSet
    <3>3. ASSUME NEW w \in Writers
          PROVE  /\ ToSet(run[w].todo) \subseteq Steps
                 /\ run[w].version \in Versions \cup {None}
                 /\ run[w].began \in 1 .. Days /\ run[w].stamp \in 0 .. MaxRuns
      <4>1. run[w] \in Runs
        BY <1>1 DEF PInv, Shape
      <4> DEFINE todo == run[w].todo
      <4>2. todo \in Plans /\ run[w].version \in Versions \cup {None}
            /\ run[w].began \in 1 .. Days /\ run[w].stamp \in 0 .. MaxRuns
        BY <4>1 DEF Runs
      <4> HIDE DEF todo
      <4>3. todo \in Seq(Steps)
        <5>1. CASE todo = <<>>
          BY <5>1
        <5>2. CASE todo # <<>>
          BY <4>2, <5>2, PlanTail
        <5> QED
          BY <5>1, <5>2
      <4>4. ToSet(todo) \subseteq Steps
        BY <4>3 DEF ToSet
      <4> QED
        BY <4>2, <4>4 DEF todo
    <3> QED
      BY <1>1, <3>1, <3>2, <3>3 DEF PInv, Shape, PubTypeOK
  <2>2. ASSUME NEW d \in 1 .. Days
        PROVE  /\ latest[d] # None => latest[d].day = d /\ OneRun(latest[d])
               /\ ForDate(d) # None => OneRun(ForDate(d))
    BY <1>1, FollowPointer, ShownWhole
  <2> QED
    BY <2>1, <2>2 DEF ReportsWhole
<1> QED
  BY <1>1, AlwaysPInv, PTL

\* A message names files that exist, and as a daily recommendation a day that
\* has a pointer.
THEOREM MessagesNameFiles == Spec => []NotifiedIsStored
<1>1. ASSUME PInv PROVE NotifiedIsStored
  <2>1. ASSUME NEW n \in notified
        PROVE  OneRun(n[2]) /\ (n[1] = "daily_recommendation" => latest[n[2].day] # None)
    <3>1. n[2] \in Versions
      BY <1>1 DEF PInv, Shape
    <3> QED
      BY <1>1, <3>1 DEF PInv, Pointed, Complete
  <2> QED
    BY <2>1 DEF NotifiedIsStored
<1> QED
  BY <1>1, AlwaysPInv, PTL

\* The dashboard never shows an older day than a briefing of today, nor another
\* report of the same day.
THEOREM SameNews == Spec => []ReadersAgree
<1>1. ASSUME PInv PROVE ReadersAgree
  <2> DEFINE now == Today
             briefing == LoadIntraday(now)
             found == {e \in 1 .. now - 1 : Load(e) # None}
             last == Max(found)
  <2>1. now \in 1 .. Days
    BY <1>1, TodayType DEF PInv
  <2> HIDE DEF now
  <2>2. ASSUME briefing # None
        PROVE  \E d \in 1 .. Days : latest[d] # None /\ briefing = latest[d]
    <3>1. CASE Load(now) # None
      <4>1. briefing = Load(now)
        BY <3>1 DEF LoadIntraday
      <4> QED
        BY <1>1, <2>1, <3>1, <4>1, FollowPointer
    <3>2. CASE Load(now) = None
      <4>1. briefing = LoadLatestBefore(now)
        BY <3>2 DEF LoadIntraday
      <4>2. LoadLatestBefore(now) = IF found = {} THEN None ELSE Load(last)
        BY DEF LoadLatestBefore
      <4>3. found # {}
        <5> HIDE DEF found, last
        <5> QED
          BY <2>2, <4>1, <4>2
      <4>4. found \in SUBSET (1 .. Days)
        <5>1. \A e \in 1 .. now - 1 : e \in 1 .. Days
          BY <2>1, PublicationAssumption
        <5> QED
          BY <5>1
      <4>5. last \in found
        <5> HIDE DEF found
        <5> QED
          BY <4>3, <4>4, MaxIn
      <4>6. last \in 1 .. Days /\ Load(last) # None
        <5> HIDE DEF last
        <5> QED
          BY <4>4, <4>5
      <4> HIDE DEF found, last
      <4>7. briefing = latest[last] /\ Load(last) = latest[last]
        BY <1>1, <4>1, <4>2, <4>3, <4>6, FollowPointer
      <4> QED
        BY <4>6, <4>7
    <3> QED
      BY <3>1, <3>2
  <2> HIDE DEF briefing
  <2>3. ASSUME briefing # None
        PROVE  /\ LatestShown # None /\ LatestShown.day >= briefing.day
               /\ LatestShown.day = briefing.day => LatestShown = briefing
    <3>1. PICK d \in 1 .. Days : latest[d] # None /\ briefing = latest[d]
      BY <2>2, <2>3
    <3>2. briefing.day = d
      BY <1>1, <3>1, FollowPointer
    <3>3. LatestShown # None /\ LatestShown.day >= d
          /\ (LatestShown.day = d => LatestShown = latest[d])
      BY <1>1, <3>1, ShowsPointed
    <3> QED
      BY <3>1, <3>2, <3>3
  <2> QED
    BY <2>3 DEF ReadersAgree, briefing, now
<1> QED
  BY <1>1, AlwaysPInv, PTL

\* A past session that is published never replaces what the briefings took for
\* the latest.
THEOREM PastLeavesLatest == Spec => HistoricalKeepsLatest
<1> DEFINE Own == \A d \in 1 .. Days : latest'[d] # latest[d] =>
                    \E w \in Writers : run[w].began = d /\ run[w].version = latest'[d]
<1>1. ASSUME PInv, [Next]_vars PROVE [Own]_vars
  <2>1. ASSUME NEW w \in Writers, MovePointer(w) PROVE Own
    <3>1. /\ run[w].began \in 1 .. Days
          /\ latest' = [latest EXCEPT ![run[w].began] = run[w].version]
      BY <1>1, <2>1, MovePointerSafe
    <3>2. latest \in [1 .. Days -> Versions \cup {None}]
      BY <1>1 DEF PInv, Shape
    <3> QED
      BY <3>1, <3>2
  <2>2. latest' = latest => Own
    OBVIOUS
  <2> HIDE DEF Own
  <2>3. ASSUME NEW w \in Writers,
               Generate(w) \/ Publish(w) \/ Save(w) \/ WriteFile(w) \/ Verify(w)
                 \/ Notify(w) \/ Stop(w)
        PROVE  latest' = latest
    BY <2>3 DEF Generate, Publish, Begin, Save, WriteFile, Verify, Notify, Stop
  <2>4. CASE Advance
    BY <2>2, <2>4 DEF Advance
  <2>5. CASE UNCHANGED vars
    BY <2>5
  <2> QED
    BY <1>1, <2>1, <2>2, <2>3, <2>4, <2>5 DEF Next
<1>2. ASSUME PInv, [Next]_vars
      PROVE  [\A d \in 1 .. Days : latest'[d] # latest[d] =>
                \E w \in Writers : run[w].began = d /\ run[w].version = latest'[d]]_vars
  BY <1>1, <1>2
<1> QED
  BY <1>2, AlwaysPInv, PTL DEF Spec, HistoricalKeepsLatest
=============================================================================
