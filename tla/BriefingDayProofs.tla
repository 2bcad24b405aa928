------------------------- MODULE BriefingDayProofs -------------------------
(***************************************************************************)
(* The day's safety for any choice of briefings and periods and any number *)
(* of restarts.                                                            *)
(*                                                                         *)
(* The stack is looked at as a frame pushed on what is below it: what each *)
(* frame vouches for (Vouched) and the briefings that are on it (Busy) are *)
(* told by that alone.  A frame that collects vouches that its result is   *)
(* not complete yet, which makes FinalKept inductive; the waiting list and *)
(* the lists being released vouch for the grace, which does the same for   *)
(* GraceKept; and the observation is asked for once in a process, by the   *)
(* task that is noted as executed (AskedOnce).                             *)
(***************************************************************************)
EXTENDS BriefingDay, FiniteSetTheorems, SequenceTheorems, TLAPS

Frame ==
    [job : {"collect"}, type : Types, holiday : BOOLEAN] \cup
    [job : {"told"}, type : Types] \cup
    [job : {"plan"}, todo : Seq(Names), at : Periods] \cup
    [job : {"beat"}, todo : Seq(Types), at : Periods] \cup
    [job : {"release"}, todo : Seq(Types)]

\* The briefing a frame is about, and those on a stack.
Held(f) == IF f.job \in {"collect", "told"} THEN {f.type} ELSE {}
Busy(s) == UNION {Held(s[i]) : i \in 1 .. Len(s)}

\* What a frame stands for: a briefing told of is completed, one that collects
\* has no complete result, and a pre-market one that is released may run.
Vouched(f, made, files, may) ==
    /\ f.job = "told" => f.type \in made
    /\ f.job = "collect" => files[f.type] \notin Final
    /\ f.job = "release" /\ Contains(f.todo, PRE) => may

Alone(s) ==
    \A i, j \in 1 .. Len(s) : i # j => Held(s[i]) \cap Held(s[j]) = {}

StackOK(s, made, files, may) ==
    /\ s \in Seq(Frame) /\ Alone(s)
    /\ \A i \in 1 .. Len(s) : Vouched(s[i], made, files, may)

MayRun == clock >= GraceEnd \/ preopen.opened

WaitsLong == Contains(waiting, PRE) => MayRun

AskedOnce ==
    /\ preopen.started => preopen.wanted
    /\ preopen.wanted => PREOPEN \in executed

DInv ==
    /\ DayTypeOK
    /\ StackOK(stack, completed, disk, MayRun)
    /\ ListensForAReason
    /\ WaitsLong
    /\ AskedOnce

-----------------------------------------------------------------------------
\* A frame pushed on a stack.
LEMMA PushedFrame ==
    ASSUME NEW s \in Seq(Frame), NEW f \in Frame
    PROVE  /\ <<f>> \o s \in Seq(Frame)
           /\ Len(<<f>> \o s) = Len(s) + 1
           /\ (<<f>> \o s)[1] = f
           /\ \A i \in 1 .. Len(s) : (<<f>> \o s)[i + 1] = s[i]
           /\ Tail(<<f>> \o s) = s /\ Head(<<f>> \o s) = f
           /\ \A j \in 1 .. Len(s) + 1 : j = 1 \/ \E i \in 1 .. Len(s) : j = i + 1
<1>1. PICK n \in Nat : n = Len(s)
  OBVIOUS
<1> DEFINE more == <<f>> \o s
<1>2. /\ more \in Seq(Frame) /\ Len(more) = n + 1
      /\ \A j \in 1 .. n + 1 : more[j] = IF j <= 1 THEN <<f>>[j] ELSE s[j - 1]
  BY <1>1
<1>3. more[1] = f /\ \A i \in 1 .. n : more[i + 1] = s[i]
  <2>1. 1 \in 1 .. n + 1 /\ \A i \in 1 .. n : i + 1 \in 1 .. n + 1 /\ ~(i + 1 <= 1) /\ (i + 1) - 1 = i
    BY <1>1
  <2> QED
    BY <1>2, <2>1
<1>4. \A j \in 1 .. n + 1 : j = 1 \/ \E i \in 1 .. n : j = i + 1
  <2> SUFFICES ASSUME NEW j \in 1 .. n + 1, j # 1 PROVE \E i \in 1 .. n : j = i + 1
    OBVIOUS
  <2> WITNESS j - 1 \in 1 .. n
  <2> QED
    BY <1>1
<1> HIDE DEF more
<1>5. Head(more) = f
  BY <1>2, <1>3, HeadTailProperties
<1>6. Tail(more) = s
  <2>1. more # <<>>
    BY <1>1, <1>2
  <2>2. Tail(more) \in Seq(Frame) /\ Len(Tail(more)) = n /\ \A i \in 1 .. n : Tail(more)[i] = more[i + 1]
    BY <1>1, <1>2, <2>1, HeadTailProperties
  <2> QED
    BY <1>1, <1>3, <2>2, SeqEqual
<1> QED
  BY <1>1, <1>2, <1>3, <1>4, <1>5, <1>6 DEF more

\* A stack that is not empty is its top frame on the rest.
LEMMA TopFrame ==
    ASSUME NEW s \in Seq(Frame), s # <<>>
    PROVE  /\ Head(s) \in Frame /\ Tail(s) \in Seq(Frame)
           /\ s = <<Head(s)>> \o Tail(s)
<1>1. PICK n \in Nat : n + 1 = Len(s)
  <2>1. Len(s) \in Nat /\ Len(s) # 0
    BY EmptySeq
  <2>2. Len(s) - 1 \in Nat /\ (Len(s) - 1) + 1 = Len(s)
    BY <2>1
  <2> QED
    BY <2>2
<1>2. /\ Head(s) = s[1] /\ Head(s) \in Frame
      /\ Tail(s) \in Seq(Frame) /\ Len(Tail(s)) = n
      /\ \A i \in 1 .. n : Tail(s)[i] = s[i + 1]
  BY <1>1, HeadTailProperties, ElementOfSeq
<1> DEFINE top == Head(s)   rest == Tail(s)   more == <<top>> \o rest
<1>3. /\ more \in Seq(Frame) /\ Len(more) = n + 1 /\ more[1] = top
      /\ \A i \in 1 .. n : more[i + 1] = rest[i]
      /\ \A j \in 1 .. n + 1 : j = 1 \/ \E i \in 1 .. n : j = i + 1
  BY <1>2, PushedFrame
<1> HIDE DEF more
<1>4. ASSUME NEW j \in 1 .. n + 1 PROVE more[j] = s[j]
  <2>1. CASE j = 1
    BY <1>2, <1>3, <2>1
  <2>2. CASE \E i \in 1 .. n : j = i + 1
    <3>1. PICK i \in 1 .. n : j = i + 1
      BY <2>2
    <3>2. more[i + 1] = rest[i] /\ rest[i] = s[i + 1]
      BY <1>2, <1>3
    <3> QED
      BY <3>1, <3>2
  <2> QED
    BY <1>3, <2>1, <2>2
<1>5. more = s
  BY <1>1, <1>3, <1>4, SeqEqual
<1> QED
  BY <1>2, <1>5 DEF more

\* What is busy, alone and vouched for on a stack with one frame more.
LEMMA PushedBusy ==
    ASSUME NEW s \in Seq(Frame), NEW f \in Frame
    PROVE  /\ Busy(<<f>> \o s) = Held(f) \cup Busy(s)
           /\ Alone(<<f>> \o s) <=> Alone(s) /\ Held(f) \cap Busy(s) = {}
<1>1. PICK n \in Nat : n = Len(s)
  OBVIOUS
<1> DEFINE more == <<f>> \o s
<1>2. /\ Len(more) = n + 1 /\ more[1] = f
      /\ \A i \in 1 .. n : more[i + 1] = s[i]
      /\ \A j \in 1 .. n + 1 : j = 1 \/ \E i \in 1 .. n : j = i + 1
  BY <1>1, PushedFrame
<1>3. 1 \in 1 .. n + 1 /\ \A i \in 1 .. n : i + 1 \in 1 .. n + 1 /\ i + 1 # 1
  BY <1>1
<1>4. \A i, j \in 1 .. n : i # j => i + 1 # j + 1
  BY <1>1
<1> HIDE DEF more
<1>5. Busy(more) = Held(f) \cup Busy(s)
  BY <1>1, <1>2, <1>3 DEF Busy
<1>6. ASSUME Alone(more) PROVE Alone(s) /\ Held(f) \cap Busy(s) = {}
  BY <1>1, <1>2, <1>3, <1>4, <1>6 DEF Alone, Busy
<1>7. ASSUME Alone(s), Held(f) \cap Busy(s) = {} PROVE Alone(more)
  <2> SUFFICES ASSUME NEW i \in 1 .. n + 1, NEW j \in 1 .. n + 1, i # j
               PROVE  Held(more[i]) \cap Held(more[j]) = {}
    BY <1>2 DEF Alone
  <2>1. \A k \in 1 .. n : Held(s[k]) \subseteq Busy(s)
    BY <1>1 DEF Busy
  <2>2. CASE i = 1
    <3>1. PICK k \in 1 .. n : j = k + 1
      BY <1>2, <2>2
    <3> QED
      BY <1>2, <1>7, <2>1, <2>2, <3>1
  <2>3. CASE j = 1
    <3>1. PICK k \in 1 .. n : i = k + 1
      BY <1>2, <2>3
    <3> QED
      BY <1>2, <1>7, <2>1, <2>3, <3>1
  <2>4. CASE i # 1 /\ j # 1
    <3>1. PICK k \in 1 .. n, l \in 1 .. n : i = k + 1 /\ j = l + 1
      BY <1>2, <2>4
    <3> QED
      BY <1>1, <1>2, <1>7, <3>1 DEF Alone
  <2> QED
    BY <2>2, <2>3, <2>4
<1> QED
  BY <1>5, <1>6, <1>7 DEF more

\* A stack is sound when its top frame is and what is below it is.
LEMMA PushedOK ==
    ASSUME NEW s \in Seq(Frame), NEW f \in Frame, NEW made, NEW files, NEW may
    PROVE  StackOK(<<f>> \o s, made, files, may) <=>
             /\ StackOK(s, made, files, may)
             /\ Vouched(f, made, files, may)
             /\ Held(f) \cap Busy(s) = {}
<1>1. PICK n \in Nat : n = Len(s)
  OBVIOUS
<1> DEFINE more == <<f>> \o s
<1>2. /\ more \in Seq(Frame) /\ Len(more) = n + 1 /\ more[1] = f
      /\ \A i \in 1 .. n : more[i + 1] = s[i]
      /\ \A j \in 1 .. n + 1 : j = 1 \/ \E i \in 1 .. n : j = i + 1
  BY <1>1, PushedFrame
<1>3. 1 \in 1 .. n + 1 /\ \A i \in 1 .. n : i + 1 \in 1 .. n + 1
  BY <1>1
<1>4. Alone(more) <=> Alone(s) /\ Held(f) \cap Busy(s) = {}
  BY PushedBusy
<1> HIDE DEF more
<1>5. (\A j \in 1 .. n + 1 : Vouched(more[j], made, files, may)) <=>
        /\ \A i \in 1 .. n : Vouched(s[i], made, files, may)
        /\ Vouched(f, made, files, may)
  BY <1>2, <1>3
<1> QED
  BY <1>1, <1>2, <1>4, <1>5 DEF StackOK, more

\* A stack stays sound while more is completed, the grace ends and no file of a
\* briefing that is on it changes.
LEMMA KeptOK ==
    ASSUME NEW s, NEW made, NEW files, NEW may, NEW made2, NEW files2, NEW may2,
           StackOK(s, made, files, may),
           made \subseteq made2, may => may2,
           \A t \in Busy(s) : files2[t] = files[t]
    PROVE  StackOK(s, made2, files2, may2)
<1> SUFFICES ASSUME NEW i \in 1 .. Len(s)
             PROVE  Vouched(s[i], made2, files2, may2)
  BY DEF StackOK
<1>1. Vouched(s[i], made, files, may)
  BY DEF StackOK
<1>2. s[i].job = "collect" => s[i].type \in Busy(s)
  BY DEF Busy, Held
<1> QED
  BY <1>1, <1>2 DEF Vouched

\* Nothing is on an empty stack.
LEMMA EmptyOK ==
    ASSUME NEW made, NEW files, NEW may
    PROVE  StackOK(<<>>, made, files, may) /\ Busy(<<>>) = {}
<1>1. <<>> \in Seq(Frame) /\ Len(<<>>) = 0 /\ 1 .. 0 = {}
  OBVIOUS
<1> QED
  BY <1>1 DEF StackOK, Alone, Busy

\* The names on a stack are the briefings that run.
LEMMA RunningBusy ==
    /\ Running = Busy(stack)
    /\ NotTwiceAtOnce <=> Alone(stack)
<1>1. Running = Busy(stack)
  BY DEF Running, Busy, Held
<1>2. NotTwiceAtOnce <=> Alone(stack)
  BY DEF NotTwiceAtOnce, Alone, Held
<1> QED
  BY <1>1, <1>2

-----------------------------------------------------------------------------
\* A list of tasks holds nothing but tasks that were to be listed.
LEMMA ListedType == ASSUME NEW S PROVE Listed(S) \in Seq(S)
<1> DEFINE If(n) == IF n \in S THEN <<n>> ELSE <<>>
<1>1. /\ If(PREOPEN) \in Seq(S) /\ If(PRE) \in Seq(S)
      /\ If(TEN) \in Seq(S) /\ If(CLOSE) \in Seq(S)
  OBVIOUS
<1> HIDE DEF If
<1>2. If(PREOPEN) \o If(PRE) \o If(TEN) \o If(CLOSE) \in Seq(S)
  BY <1>1
<1> QED
  BY <1>2 DEF Listed, If

\* The frames that are pushed, none of which but a briefing's is about one.
LEMMA NewFrames ==
    ASSUME DayTypeOK
    PROVE  /\ DayFrame \in Frame /\ DayFrame.job = "beat"
           /\ Loop("plan", Plan(clock)) \in Frame /\ Loop("plan", Plan(clock)).job = "plan"
           /\ \A t \in Types, h \in BOOLEAN : Briefing(t, h) \in Frame
           /\ \A t \in Types : Told(t) \in Frame
           /\ \A todo \in Seq(Types) : [job |-> "release", todo |-> todo] \in Frame
<1>1. Listed(Types) \in Seq(Types) /\ clock \in Periods
  BY ListedType DEF DayTypeOK
<1>2. Plan(clock) \in Seq(Names)
  <2>1. \A S \in SUBSET Names : Listed(S) \in Seq(Names)
    BY ListedType
  <2>2. <<>> \in Seq(Names)
    OBVIOUS
  <2> QED
    BY <2>1, <2>2 DEF Plan
<1>3. DayFrame \in Frame /\ DayFrame.job = "beat"
  BY <1>1 DEF DayFrame, Loop, Frame
<1>4. Loop("plan", Plan(clock)) \in Frame /\ Loop("plan", Plan(clock)).job = "plan"
  BY <1>1, <1>2 DEF Loop, Frame
<1>5. \A t \in Types, h \in BOOLEAN : Briefing(t, h) \in Frame
  BY DEF Briefing, Frame
<1>6. /\ \A t \in Types : Told(t) \in Frame
      /\ \A todo \in Seq(Types) : [job |-> "release", todo |-> todo] \in Frame
  BY DEF Told, Frame
<1> QED
  BY <1>3, <1>4, <1>5, <1>6

\* What of a list is on a shorter one.
LEMMA ShorterList ==
    ASSUME NEW S, NEW todo \in Seq(S), NEW k \in 1 .. Len(todo)
    PROVE  /\ SubSeq(todo, k + 1, Len(todo)) \in Seq(S)
           /\ \A x : Contains(SubSeq(todo, k + 1, Len(todo)), x) => Contains(todo, x)
           /\ todo[k] \in S /\ Contains(todo, todo[k])
           /\ Head(todo) = todo[1] /\ Tail(todo) = SubSeq(todo, 2, Len(todo))
<1>1. PICK n \in Nat : n = Len(todo)
  OBVIOUS
<1> DEFINE short == SubSeq(todo, k + 1, n)
<1>2. /\ short \in Seq(S)
      /\ Len(short) = n - k
      /\ \A i \in 1 .. n - k : short[i] = todo[i + k]
  BY <1>1
<1> HIDE DEF short
<1>3. ASSUME NEW x, Contains(short, x) PROVE Contains(todo, x)
  <2>1. PICK i \in 1 .. n - k : short[i] = x
    BY <1>2, <1>3 DEF Contains
  <2>2. i + k \in 1 .. n /\ todo[i + k] = x
    BY <1>1, <1>2, <2>1
  <2> QED
    BY <1>1, <2>2 DEF Contains
<1>4. todo[k] \in S /\ Contains(todo, todo[k])
  BY DEF Contains
<1>5. Head(todo) = todo[1] /\ Tail(todo) = SubSeq(todo, 2, Len(todo))
  <2>1. todo # <<>>
    BY <1>1
  <2> QED
    BY <2>1
<1> QED
  BY <1>1, <1>2, <1>3, <1>4, <1>5 DEF short

\* The top frame goes on with a shorter list.
LEMMA GoesOn ==
    ASSUME NEW s \in Seq(Frame), s # <<>>, Head(s).job \in {"plan", "beat", "release"},
           NEW k \in 1 .. Len(Head(s).todo),
           NEW made, NEW files, NEW may, StackOK(s, made, files, may)
    PROVE  /\ Head(s).todo \in Seq(Names)
           /\ Head(s).job # "plan" => Head(s).todo \in Seq(Types)
           /\ LET left == SubSeq(Head(s).todo, k + 1, Len(Head(s).todo))
                  next == <<[Head(s) EXCEPT !.todo = left]>> \o Tail(s)
              IN StackOK(next, made, files, may) /\ Busy(next) = Busy(s)
<1> DEFINE top == Head(s)   left == SubSeq(top.todo, k + 1, Len(top.todo))
           other == [top EXCEPT !.todo = left]
<1>1. top \in Frame /\ Tail(s) \in Seq(Frame) /\ s = <<top>> \o Tail(s)
  BY TopFrame
<1>2. /\ top.todo \in Seq(Names)
      /\ top.job # "plan" => top.todo \in Seq(Types)
  <2>1. Seq(Types) \subseteq Seq(Names)
    BY DEF Names
  <2> HIDE DEF top
  <2> QED
    BY <1>1, <2>1 DEF Frame, top
<1>3. /\ left \in Seq(Names)
      /\ top.job # "plan" => left \in Seq(Types)
      /\ Contains(left, PRE) => Contains(top.todo, PRE)
  <2> HIDE DEF top
  <2>1. k \in 1 .. Len(top.todo)
    BY DEF top
  <2> QED
    BY <1>2, <2>1, ShorterList
<1>4. StackOK(Tail(s), made, files, may) /\ Vouched(top, made, files, may)
  BY <1>1, PushedOK
<1>5. other \in Frame /\ other.job = top.job /\ other.todo = left
  <2> HIDE DEF left
  <2>1. CASE top.job = "plan"
    BY <1>1, <1>3, <2>1 DEF Frame
  <2>2. CASE top.job = "beat"
    BY <1>1, <1>3, <2>2 DEF Frame
  <2>3. CASE top.job = "release"
    BY <1>1, <1>3, <2>3 DEF Frame
  <2> QED
    BY <2>1, <2>2, <2>3
<1>6. Held(top) = {} /\ Held(other) = {}
  BY <1>5 DEF Held
<1>7. Vouched(other, made, files, may)
  <2> HIDE DEF other, left, top
  <2>1. top.job \in {"plan", "beat", "release"}
    BY DEF top
  <2> QED
    BY <1>3, <1>4, <1>5, <2>1 DEF Vouched
<1> HIDE DEF other
<1>8. StackOK(<<other>> \o Tail(s), made, files, may)
  BY <1>1, <1>4, <1>5, <1>6, <1>7, PushedOK
<1>9. Busy(<<other>> \o Tail(s)) = Busy(s)
  <2> DEFINE rest == Tail(s)
  <2> HIDE DEF rest, top
  <2>1. rest \in Seq(Frame) /\ s = <<top>> \o rest
    BY <1>1 DEF rest
  <2>2. Busy(<<other>> \o rest) = Held(other) \cup Busy(rest)
    BY <1>5, <2>1, PushedBusy
  <2>3. Busy(<<top>> \o rest) = Held(top) \cup Busy(rest)
    BY <1>1, <2>1, PushedBusy
  <2> QED
    BY <1>6, <2>1, <2>2, <2>3 DEF rest
<1> QED
  BY <1>2, <1>8, <1>9 DEF other

-----------------------------------------------------------------------------
ObservationStates ==
    [{"wanted", "started", "stopped", "sampling", "listening", "opened"} -> BOOLEAN]

\* How the observation changes: its flag is only ever raised, its end stops it,
\* and asking for one that has not begun never registers a stopped one that has.
LEMMA ObservationMoves ==
    ASSUME DayTypeOK
    PROVE  /\ LET fresh == [preopen EXCEPT !.opened = Refreshed]
              IN /\ fresh \in ObservationStates
                 /\ fresh.opened <=> Refreshed
                 /\ \A k \in {"wanted", "started", "stopped", "sampling", "listening"} :
                      fresh[k] = preopen[k]
           /\ \A p \in ObservationStates :
                /\ PreopenOver(p) \in ObservationStates
                /\ ~PreopenOver(p).listening
                /\ PreopenOver(p).wanted = p.wanted
                /\ PreopenOver(p).started = p.started
                /\ PreopenOver(p).opened = p.opened
           /\ PreopenAsked \in ObservationStates
           /\ PreopenAsked.wanted
           /\ preopen.opened => PreopenAsked.opened
           /\ ~preopen.started /\ PreopenAsked.stopped => ~PreopenAsked.started
<1>1. preopen \in ObservationStates /\ signal \in BOOLEAN /\ link \in BOOLEAN
  BY DEF DayTypeOK, ObservationStates
<1>2. LET fresh == [preopen EXCEPT !.opened = Refreshed]
      IN /\ fresh \in ObservationStates
         /\ fresh.opened <=> Refreshed
         /\ \A k \in {"wanted", "started", "stopped", "sampling", "listening"} :
              fresh[k] = preopen[k]
  <2>1. Refreshed \in BOOLEAN
    BY DEF Refreshed
  <2> QED
    BY <1>1, <2>1 DEF ObservationStates
<1>3. ASSUME NEW p \in ObservationStates
      PROVE  /\ PreopenOver(p) \in ObservationStates
             /\ ~PreopenOver(p).listening
             /\ PreopenOver(p).wanted = p.wanted
             /\ PreopenOver(p).started = p.started
             /\ PreopenOver(p).opened = p.opened
  BY DEF PreopenOver, ObservationStates
<1>4. /\ PreopenAsked \in ObservationStates
      /\ PreopenAsked.wanted
      /\ preopen.opened => PreopenAsked.opened
      /\ ~preopen.started /\ PreopenAsked.stopped => ~PreopenAsked.started
  BY <1>1 DEF PreopenAsked, ObservationStates
<1> QED
  BY <1>2, <1>3, <1>4

\* What a call leaves that the scheduler, the recovery or a timer makes: a sound
\* state, in which the pre-market briefing runs or waits only when it may.
Served ==
    /\ StackOK(stack', completed', disk, MayRun')
    /\ dispatched' \subseteq completed' /\ completed' \subseteq Types
    /\ waiting' \in Seq(Types) /\ IsInjective(waiting')
    /\ active' \in Types \cup {None} /\ handled' \in BOOLEAN /\ grace' \in BOOLEAN
    /\ preopen' \in ObservationStates
    /\ WaitsLong' /\ ListensForAReason'
    /\ preopen'.started => preopen'.wanted
    /\ PRE \in Busy(stack') => PRE \in Running \/ MayRun'

\* The pipeline is begun, or the result found: a briefing that runs has no
\* complete result, and one that does not is completed.
LEMMA RunSound ==
    ASSUME DayTypeOK, NEW below, NEW t \in Types, NEW opened \in BOOLEAN, NEW may,
           StackOK(below, completed, disk, may), t \notin Busy(below),
           Run(t, below, opened)
    PROVE  /\ StackOK(stack', completed', disk, may)
           /\ dispatched' \subseteq completed' /\ completed' \subseteq Types
           /\ active' \in Types \cup {None} /\ handled' \in BOOLEAN
           /\ Busy(stack') \subseteq Busy(below) \cup {t}
<1>1. active' = t /\ handled' = FALSE
  BY DEF Run
<1>2. CASE Rerun(t)
  <2> DEFINE f == Briefing(t, ~opened /\ clock >= GraceEnd)
  <2>1. /\ stack' = <<f>> \o below
        /\ dispatched' = dispatched /\ completed' = completed
    BY <1>2 DEF Run
  <2>2. f \in Frame /\ f.job = "collect" /\ f.type = t
    <3>1. (~opened /\ clock >= GraceEnd) \in BOOLEAN
      OBVIOUS
    <3>2. f \in Frame
      BY <3>1, NewFrames
    <3> QED
      BY <3>2 DEF Briefing
  <2>3. Held(f) = {t}
    BY <2>2 DEF Held
  <2>4. Vouched(f, completed, disk, may)
    BY <1>2, <2>2 DEF Vouched, Rerun, Valid
  <2>5. below \in Seq(Frame)
    BY DEF StackOK
  <2> HIDE DEF f
  <2>6. StackOK(<<f>> \o below, completed, disk, may)
    BY <2>2, <2>3, <2>4, <2>5, PushedOK
  <2>7. Busy(<<f>> \o below) = {t} \cup Busy(below)
    BY <2>2, <2>3, <2>5, PushedBusy
  <2> QED
    BY <1>1, <2>1, <2>6, <2>7 DEF DayTypeOK
<1>3. CASE ~Rerun(t)
  <2>1. /\ completed' = completed \cup {t}
        /\ dispatched' = dispatched \cup {t}
        /\ stack' = below
    BY <1>3 DEF Run
  <2>2. StackOK(below, completed \cup {t}, disk, may)
    <3>1. completed \subseteq completed \cup {t}
      OBVIOUS
    <3> QED
      BY <3>1, KeptOK
  <2> QED
    BY <1>1, <2>1, <2>2 DEF DayTypeOK
<1> QED
  BY <1>2, <1>3

\* A briefing that is let wait is not waiting twice.
LEMMA WaitsOnce ==
    ASSUME NEW s \in Seq(Types), IsInjective(s), NEW t \in Types, ~Contains(s, t)
    PROVE  /\ Append(s, t) \in Seq(Types) /\ IsInjective(Append(s, t))
           /\ \A x : Contains(Append(s, t), x) => Contains(s, x) \/ x = t
<1>1. PICK n \in Nat : n = Len(s)
  OBVIOUS
<1> DEFINE more == Append(s, t)
<1>2. /\ more \in Seq(Types) /\ Len(more) = n + 1 /\ DOMAIN more = 1 .. n + 1
      /\ \A i \in 1 .. n : more[i] = s[i]
      /\ more[n + 1] = t /\ DOMAIN s = 1 .. n
  BY <1>1
<1>3. \A i \in 1 .. n + 1 : i \in 1 .. n \/ i = n + 1
  BY <1>1
<1> HIDE DEF more
<1>4. \A i \in 1 .. n : s[i] # t
  BY <1>1 DEF Contains
<1>5. \A i, j \in 1 .. n : s[i] = s[j] => i = j
  BY <1>2 DEF IsInjective
<1>6. \A i, j \in 1 .. n + 1 : more[i] = more[j] => i = j
  BY <1>2, <1>3, <1>4, <1>5
<1>7. IsInjective(more)
  BY <1>2, <1>6 DEF IsInjective
<1>8. \A x : Contains(more, x) => Contains(s, x) \/ x = t
  BY <1>1, <1>2, <1>3 DEF Contains
<1> QED
  BY <1>2, <1>7, <1>8 DEF more

-----------------------------------------------------------------------------
\* run_briefing, whoever calls it: what it is called for runs, waits or is left.
LEMMA RunBriefingServed ==
    ASSUME DInv, UNCHANGED <<clock, disk>>, grace' \in BOOLEAN,
           NEW below, StackOK(below, completed, disk, MayRun), Busy(below) = Running,
           NEW t \in Types, t = PRE => MayStartEarly,
           RunBriefing(t, below)
    PROVE  Served /\ (preopen'.wanted => preopen.wanted)
<1> DEFINE fresh == [preopen EXCEPT !.opened = Refreshed]
           may == MayRun'
<1>1. DayTypeOK
  BY DEF DInv
<1>2. preopen' = IF t = PRE THEN PreopenOver(fresh) ELSE fresh
  BY DEF RunBriefing
<1>3. /\ fresh \in ObservationStates
      /\ fresh.opened <=> Refreshed
      /\ fresh.wanted = preopen.wanted /\ fresh.started = preopen.started
      /\ fresh.stopped = preopen.stopped /\ fresh.listening = preopen.listening
  BY <1>1, ObservationMoves
<1> HIDE DEF fresh
<1>4. /\ PreopenOver(fresh) \in ObservationStates
      /\ ~PreopenOver(fresh).listening
      /\ PreopenOver(fresh).wanted = fresh.wanted
      /\ PreopenOver(fresh).started = fresh.started
      /\ PreopenOver(fresh).opened = fresh.opened
  BY <1>1, <1>3, ObservationMoves
<1>5. /\ preopen' \in ObservationStates
      /\ preopen'.opened <=> Refreshed
      /\ preopen'.wanted = preopen.wanted /\ preopen'.started = preopen.started
      /\ preopen'.listening /\ preopen'.stopped => preopen.listening /\ preopen.stopped
  <2>1. CASE t = PRE
    BY <1>2, <1>3, <1>4, <2>1
  <2>2. CASE t # PRE
    BY <1>2, <1>3, <2>2
  <2> QED
    BY <2>1, <2>2
<1>6. ListensForAReason' /\ (preopen'.started => preopen'.wanted)
  BY <1>5 DEF DInv, ListensForAReason, AskedOnce
<1>7. /\ may <=> clock >= GraceEnd \/ Refreshed
      /\ MayRun => may
      /\ t = PRE => may
  BY <1>5 DEF MayRun, Refreshed, MayStartEarly, GraceEnd
<1> HIDE DEF may
<1>8. StackOK(below, completed, disk, may)
  BY <1>7, KeptOK
<1>9. waiting \in Seq(Types) /\ IsInjective(waiting) /\ (Contains(waiting, PRE) => MayRun)
  BY <1>1 DEF DayTypeOK, DInv, WaitsLong
<1>10. CASE Admitted(t) /\ link
  <2>1. Run(t, below, Refreshed) /\ waiting' = waiting
    BY <1>10 DEF RunBriefing
  <2>2. Refreshed \in BOOLEAN
    BY <1>1 DEF Refreshed, DayTypeOK
  <2>3. t \notin Busy(below)
    BY <1>10 DEF Admitted
  <2>4. /\ StackOK(stack', completed', disk, may)
        /\ dispatched' \subseteq completed' /\ completed' \subseteq Types
        /\ active' \in Types \cup {None} /\ handled' \in BOOLEAN
        /\ Busy(stack') \subseteq Busy(below) \cup {t}
    BY <1>1, <1>8, <2>1, <2>2, <2>3, RunSound
  <2>5. PRE \in Busy(stack') => PRE \in Running \/ may
    BY <1>7, <2>4
  <2>6. WaitsLong'
    BY <1>7, <1>9, <2>1 DEF WaitsLong, may
  <2> QED
    BY <1>5, <1>6, <1>9, <2>1, <2>4, <2>5, <2>6 DEF Served, may
<1>11. CASE ~(Admitted(t) /\ link)
  <2>1. /\ waiting' = IF Admitted(t) /\ ~Contains(waiting, t)
                      THEN Append(waiting, t) ELSE waiting
        /\ NoRun(below)
    BY <1>11 DEF RunBriefing
  <2>2. /\ stack' = below /\ dispatched' = dispatched /\ completed' = completed
        /\ active' = active /\ handled' = handled
    BY <2>1 DEF NoRun
  <2>3. /\ waiting' \in Seq(Types) /\ IsInjective(waiting')
        /\ Contains(waiting', PRE) => Contains(waiting, PRE) \/ t = PRE
    <3>1. CASE Admitted(t) /\ ~Contains(waiting, t)
      BY <1>9, <2>1, <3>1, WaitsOnce
    <3>2. CASE ~(Admitted(t) /\ ~Contains(waiting, t))
      BY <1>9, <2>1, <3>2
    <3> QED
      BY <3>1, <3>2
  <2>4. WaitsLong'
    <3>1. Contains(waiting', PRE) => may
      BY <1>7, <1>9, <2>3
    <3> QED
      BY <3>1 DEF WaitsLong, may
  <2>5. /\ dispatched' \subseteq completed' /\ completed' \subseteq Types
        /\ active' \in Types \cup {None} /\ handled' \in BOOLEAN
    BY <1>1, <2>2 DEF DayTypeOK
  <2> QED
    BY <1>5, <1>6, <1>8, <2>2, <2>3, <2>4, <2>5 DEF Served, may
<1> QED
  BY <1>10, <1>11

\* A callback of the scheduler or of the recovery.
LEMMA CallServed ==
    ASSUME DInv, UNCHANGED <<clock, disk>>,
           NEW below, StackOK(below, completed, disk, MayRun), Busy(below) = Running,
           NEW n \in Names, n = PREOPEN => ~preopen.started,
           Call(n, below)
    PROVE  Served /\ (preopen'.wanted => preopen.wanted \/ n = PREOPEN)
<1>1. /\ DayTypeOK /\ PREOPEN \notin Types /\ PREOPEN # PRE /\ PRE \in Types
      /\ grace \in BOOLEAN
  BY BriefingDayAssumption DEF DInv, DayTypeOK, PRE, PREOPEN, TEN, CLOSE
<1>2. CASE n = PREOPEN
  <2>1. /\ preopen' = PreopenAsked /\ grace' = grace /\ waiting' = waiting
        /\ stack' = below /\ dispatched' = dispatched /\ completed' = completed
        /\ active' = active /\ handled' = handled
    BY <1>1, <1>2 DEF Call, StartPreopen, NoRun
  <2>2. /\ PreopenAsked \in ObservationStates
        /\ PreopenAsked.wanted
        /\ preopen.opened => PreopenAsked.opened
        /\ PreopenAsked.stopped => ~PreopenAsked.started
    BY <1>1, <1>2, ObservationMoves
  <2>3. /\ preopen' \in ObservationStates
        /\ preopen'.wanted /\ ListensForAReason'
        /\ preopen.opened => preopen'.opened
    <3>1. preopen' \in ObservationStates /\ preopen'.wanted /\ (preopen.opened => preopen'.opened)
      BY <2>1, <2>2
    <3>2. preopen'.stopped => ~preopen'.started
      BY <2>1, <2>2
    <3> QED
      BY <3>1, <3>2 DEF ListensForAReason
  <2>4. MayRun => MayRun'
    BY <2>3 DEF MayRun
  <2>5. StackOK(below, completed, disk, MayRun')
    <3> DEFINE may == MayRun'
    <3>1. MayRun => may
      BY <2>4
    <3> HIDE DEF may
    <3>2. StackOK(below, completed, disk, may)
      BY <3>1, KeptOK
    <3> QED
      BY <3>2 DEF may
  <2>6. WaitsLong'
    BY <2>1, <2>4 DEF DInv, WaitsLong
  <2>7. /\ dispatched' \subseteq completed' /\ completed' \subseteq Types
        /\ waiting' \in Seq(Types) /\ IsInjective(waiting')
        /\ active' \in Types \cup {None} /\ handled' \in BOOLEAN /\ grace' \in BOOLEAN
    BY <1>1, <2>1 DEF DayTypeOK
  <2> QED
    BY <1>2, <2>1, <2>3, <2>5, <2>6, <2>7 DEF Served
<1>3. CASE n = PRE
  <2>1. RequestPreMarket(below)
    BY <1>1, <1>3 DEF Call
  <2>2. CASE MayStartEarly
    <3>1. RunBriefing(PRE, below) /\ grace' = grace
      BY <2>1, <2>2 DEF RequestPreMarket
    <3> QED
      BY <1>1, <2>2, <3>1, RunBriefingServed
  <2>3. CASE ~MayStartEarly
    <3> DEFINE fresh == [preopen EXCEPT !.opened = Refreshed]
    <3>1. /\ grace' = TRUE /\ preopen' = fresh
          /\ stack' = below /\ dispatched' = dispatched /\ completed' = completed
          /\ active' = active /\ handled' = handled /\ waiting' = waiting
      BY <2>1, <2>3 DEF RequestPreMarket, NoRun
    <3>2. /\ fresh \in ObservationStates /\ (fresh.opened <=> Refreshed)
          /\ fresh.wanted = preopen.wanted /\ fresh.started = preopen.started
          /\ fresh.stopped = preopen.stopped /\ fresh.listening = preopen.listening
      BY <1>1, ObservationMoves
    <3> HIDE DEF fresh
    <3>3. /\ preopen' \in ObservationStates
          /\ preopen'.wanted = preopen.wanted /\ preopen'.started = preopen.started
          /\ ListensForAReason' /\ (preopen'.started => preopen'.wanted)
      BY <3>1, <3>2 DEF DInv, ListensForAReason, AskedOnce
    <3>4. MayRun => MayRun'
      BY <3>1, <3>2 DEF MayRun, Refreshed
    <3>5. StackOK(below, completed, disk, MayRun')
      <4> DEFINE may == MayRun'
      <4>1. MayRun => may
        BY <3>4
      <4> HIDE DEF may
      <4>2. StackOK(below, completed, disk, may)
        BY <4>1, KeptOK
      <4> QED
        BY <4>2 DEF may
    <3>6. WaitsLong'
      BY <3>1, <3>4 DEF DInv, WaitsLong
    <3>7. /\ dispatched' \subseteq completed' /\ completed' \subseteq Types
          /\ waiting' \in Seq(Types) /\ IsInjective(waiting')
          /\ active' \in Types \cup {None} /\ handled' \in BOOLEAN /\ grace' \in BOOLEAN
      BY <1>1, <3>1 DEF DayTypeOK
    <3> QED
      BY <3>1, <3>3, <3>5, <3>6, <3>7 DEF Served
  <2> QED
    BY <2>2, <2>3
<1>4. CASE n # PREOPEN /\ n # PRE
  <2>1. RunBriefing(n, below) /\ grace' = grace /\ n \in Types
    BY <1>4 DEF Call, Names
  <2> QED
    BY <1>1, <1>4, <2>1, RunBriefingServed
<1> QED
  BY <1>2, <1>3, <1>4

-----------------------------------------------------------------------------
\* What GraceKept and FinalKept say of one step.
GraceStep ==
    PRE \notin Running /\ PRE \in Running' =>
    clock >= GraceEnd \/ preopen'.opened

FinalStep == \A t \in Types : Valid(t) => disk'[t] = disk[t]

\* The same of the stack.
LEMMA GraceBusy ==
    GraceStep <=> (PRE \notin Busy(stack) /\ PRE \in Busy(stack') =>
                   clock >= GraceEnd \/ preopen'.opened)
<1>1. Running = Busy(stack)
  BY RunningBusy
<1>2. Running' = Busy(stack')
  BY DEF Running, Busy, Held
<1> QED
  BY <1>1, <1>2 DEF GraceStep

\* A process has not asked for the observation yet.
LEMMA NoObservation ==
    /\ NoPreopen \in ObservationStates
    /\ ~NoPreopen.listening /\ ~NoPreopen.started /\ ~NoPreopen.wanted
<1> DEFINE K == {"wanted", "started", "stopped", "sampling", "listening", "opened"}
<1>1. DOMAIN NoPreopen = K
  BY DEF NoPreopen
<1>2. NoPreopen = [k \in K |-> NoPreopen[k]]
  BY <1>1 DEF NoPreopen
<1>3. /\ NoPreopen.wanted = FALSE /\ NoPreopen.started = FALSE
      /\ NoPreopen.stopped = FALSE /\ NoPreopen.sampling = FALSE
      /\ NoPreopen.listening = FALSE /\ NoPreopen.opened = FALSE
  BY DEF NoPreopen
<1>4. \A k \in K : NoPreopen[k] \in BOOLEAN
  BY <1>3, Zenon
<1>5. NoPreopen \in [K -> BOOLEAN]
  BY <1>2, <1>4
<1> QED
  BY <1>3, <1>5 DEF ObservationStates

\* The beginning of the day is sound.
LEMMA InitDInv == Init => DInv
<1> SUFFICES ASSUME Init PROVE DInv
  OBVIOUS
<1>1. DayTypeOK
  <2>1. waiting \in Seq(Types) /\ IsInjective(waiting)
    BY DEF Init, IsInjective
  <2>2. disk \in [Types -> Contents]
    <3>1. disk \in [Types -> {"none", "half", "weak", "whole"}]
      BY DEF Init
    <3>2. {"none", "half", "weak", "whole"} \subseteq Contents
      BY DEF Contents, Final
    <3> QED
      BY <3>1, <3>2
  <2>3. preopen \in ObservationStates
    BY NoObservation DEF Init
  <2>4. starts \in 0 .. MaxStarts
    BY BriefingDayAssumption DEF Init
  <2> QED
    BY <2>1, <2>2, <2>3, <2>4 DEF Init, DayTypeOK, ObservationStates
<1>2. StackOK(stack, completed, disk, MayRun)
  <2> DEFINE may == MayRun
  <2> HIDE DEF may
  <2>1. StackOK(<<>>, completed, disk, may)
    BY EmptyOK
  <2> QED
    BY <2>1 DEF Init, may
<1>3. ~preopen.listening /\ ~preopen.started /\ ~preopen.wanted
  BY NoObservation DEF Init
<1>4. ~Contains(waiting, PRE)
  BY DEF Init, Contains
<1> QED
  BY <1>1, <1>2, <1>3, <1>4 DEF DInv, ListensForAReason, WaitsLong, AskedOnce

\* A step that serves a call and leaves the rest of the state keeps it sound.
LEMMA ServedKept ==
    ASSUME DInv, Served,
           UNCHANGED <<proc, clock, link, disk, marker, signal, failed, starts>>,
           timers' \subseteq Names, executed' \subseteq Names, recovered' \subseteq Types,
           preopen'.wanted => PREOPEN \in executed'
    PROVE  DInv' /\ GraceStep
<1>1. DayTypeOK'
  BY DEF DInv, DayTypeOK, Served, ObservationStates
<1>2. StackOK(stack', completed', disk', MayRun')
  BY DEF Served
<1>3. DInv'
  BY <1>1, <1>2 DEF DInv, Served, AskedOnce
<1>4. PRE \in Busy(stack') => PRE \in Busy(stack) \/ clock >= GraceEnd \/ preopen'.opened
  BY RunningBusy DEF Served, MayRun
<1> QED
  BY <1>3, <1>4, GraceBusy

\* What the scheduler and the recovery find on top of the stack, and leave there.
LEMMA TakenSound ==
    ASSUME DInv, stack # <<>>, Head(stack).job \in {"plan", "release"},
           Head(stack).todo # <<>>
    PROVE  /\ StackOK(Taken, completed, disk, MayRun) /\ Busy(Taken) = Running
           /\ Head(Head(stack).todo) \in Names
           /\ Head(stack).job = "release" =>
                /\ Head(Head(stack).todo) \in Types
                /\ Head(Head(stack).todo) = PRE => MayRun
<1> DEFINE todo == Head(stack).todo   may == MayRun
<1>1. stack \in Seq(Frame) /\ StackOK(stack, completed, disk, may)
  BY DEF DInv, StackOK
<1>2. Head(stack) \in Frame /\ stack = <<Head(stack)>> \o Tail(stack) /\ Tail(stack) \in Seq(Frame)
  BY <1>1, TopFrame
<1>3. /\ todo \in Seq(Names)
      /\ Head(stack).job = "release" => todo \in Seq(Types)
  <2>1. Seq(Types) \subseteq Seq(Names)
    BY DEF Names
  <2> QED
    BY <1>2, <2>1 DEF Frame
<1> HIDE DEF may
<1>4. 1 \in 1 .. Len(todo)
  <2>1. Len(todo) \in Nat /\ Len(todo) # 0
    BY <1>3, EmptySeq
  <2> QED
    BY <2>1
<1>5. /\ todo[1] \in Names /\ Contains(todo, todo[1])
      /\ Head(todo) = todo[1] /\ Tail(todo) = SubSeq(todo, 2, Len(todo))
      /\ Head(stack).job = "release" => todo[1] \in Types
  <2> HIDE DEF todo
  <2>1. /\ todo[1] \in Names /\ Contains(todo, todo[1])
        /\ Head(todo) = todo[1] /\ Tail(todo) = SubSeq(todo, 2, Len(todo))
    BY <1>3, <1>4, ShorterList
  <2>2. Head(stack).job = "release" => todo[1] \in Types
    BY <1>3, <1>4, ShorterList
  <2> QED
    BY <2>1, <2>2
<1>6. LET left == SubSeq(todo, 1 + 1, Len(todo))
          next == <<[Head(stack) EXCEPT !.todo = left]>> \o Tail(stack)
      IN StackOK(next, completed, disk, may) /\ Busy(next) = Busy(stack)
  BY <1>1, <1>4, GoesOn
<1>7. Taken = <<[Head(stack) EXCEPT !.todo = SubSeq(todo, 1 + 1, Len(todo))]>> \o Tail(stack)
  <2>1. Tail(todo) = SubSeq(todo, 1 + 1, Len(todo))
    BY <1>5
  <2>2. Taken = <<[Head(stack) EXCEPT !.todo = Tail(todo)]>> \o Tail(stack)
    BY DEF Taken, Rest
  <2> HIDE DEF todo
  <2> QED
    BY <2>1, <2>2
<1>8. StackOK(Taken, completed, disk, may) /\ Busy(Taken) = Running
  BY <1>6, <1>7, RunningBusy
<1>9. Head(stack).job = "release" /\ Head(todo) = PRE => may
  <2>1. Vouched(Head(stack), completed, disk, may)
    BY <1>1, <1>2, PushedOK
  <2> QED
    BY <1>5, <2>1 DEF Vouched
<1> QED
  BY <1>5, <1>8, <1>9 DEF may

\* The scheduler's plan.
LEMMA PlanStepDInv == ASSUME DInv, PlanStep PROVE DInv' /\ GraceStep
<1> DEFINE n == Head(Head(stack).todo)
           due == At[n] <= Head(stack).at /\ n \notin executed /\ proc = "running"
<1>1. /\ stack # <<>> /\ Head(stack).job = "plan" /\ Head(stack).todo # <<>>
      /\ UNCHANGED <<proc, clock, link, disk, recovered, marker, signal, failed, starts>>
      /\ \/ /\ due
            /\ executed' = executed \cup {n} /\ timers' = timers
            /\ Call(n, Taken)
         \/ /\ ~due
            /\ timers' = IF At[n] <= Head(stack).at THEN timers ELSE timers \cup {n}
            /\ stack' = Taken
            /\ UNCHANGED <<executed, grace, dispatching, active, handled, preopen>>
  BY DEF PlanStep, Top
<1>2. StackOK(Taken, completed, disk, MayRun) /\ Busy(Taken) = Running /\ n \in Names
  BY <1>1, TakenSound
<1>3. DayTypeOK /\ timers \subseteq Names /\ executed \subseteq Names /\ recovered \subseteq Types
  BY DEF DInv, DayTypeOK
<1>4. CASE due
  <2> HIDE DEF n
  <2>1. executed' = executed \cup {n} /\ timers' = timers /\ Call(n, Taken) /\ n \notin executed
    BY <1>1, <1>4
  <2>2. n = PREOPEN => ~preopen.started
    BY <2>1 DEF DInv, AskedOnce
  <2>3. Served /\ (preopen'.wanted => preopen.wanted \/ n = PREOPEN)
    BY <1>1, <1>2, <2>1, <2>2, CallServed
  <2>4. preopen'.wanted => PREOPEN \in executed'
    BY <2>1, <2>3 DEF DInv, AskedOnce
  <2> QED
    BY <1>1, <1>2, <1>3, <2>1, <2>3, <2>4, ServedKept
<1>5. CASE ~due
  <2>1. /\ timers' \subseteq Names /\ stack' = Taken
        /\ UNCHANGED <<executed, grace, dispatching, active, handled, preopen>>
    <3>1. timers' = IF At[n] <= Head(stack).at THEN timers ELSE timers \cup {n}
      BY <1>1, <1>5
    <3>2. timers' \subseteq Names
      BY <1>2, <1>3, <3>1
    <3> QED
      BY <1>1, <1>5, <3>2
  <2>2. DayTypeOK'
    BY <1>1, <1>3, <2>1 DEF DayTypeOK, dispatching
  <2>3. MayRun' = MayRun
    BY <1>1, <2>1 DEF MayRun
  <2>4. DInv'
    BY <1>1, <1>2, <2>1, <2>2, <2>3
       DEF DInv, dispatching, ListensForAReason, WaitsLong, AskedOnce
  <2>5. GraceStep
    BY <1>2, <2>1, RunningBusy, GraceBusy
  <2> QED
    BY <2>4, <2>5
<1> QED
  BY <1>4, <1>5

\* A timer of the scheduler, and the one of the grace.
LEMMA FireTimerDInv == ASSUME DInv, NEW n \in Names, FireTimer(n) PROVE DInv' /\ GraceStep
<1>1. /\ timers' = timers \ {n} /\ executed' = executed \cup {n}
      /\ UNCHANGED <<proc, clock, link, disk, recovered, marker, signal, failed, starts>>
      /\ IF n \notin executed THEN Call(n, stack)
         ELSE NoRun(stack) /\ UNCHANGED <<waiting, grace, preopen>>
  BY DEF FireTimer
<1>2. DayTypeOK /\ timers \subseteq Names /\ executed \subseteq Names /\ recovered \subseteq Types
  BY DEF DInv, DayTypeOK
<1>3. StackOK(stack, completed, disk, MayRun) /\ Busy(stack) = Running
  BY RunningBusy DEF DInv
<1>4. CASE n \notin executed
  <2>1. n = PREOPEN => ~preopen.started
    BY <1>4 DEF DInv, AskedOnce
  <2>2. Served /\ (preopen'.wanted => preopen.wanted \/ n = PREOPEN)
    BY <1>1, <1>3, <1>4, <2>1, CallServed
  <2>3. preopen'.wanted => PREOPEN \in executed'
    BY <1>1, <2>2 DEF DInv, AskedOnce
  <2> QED
    BY <1>1, <1>2, <2>2, <2>3, ServedKept
<1>5. CASE n \in executed
  <2>1. /\ stack' = stack
        /\ UNCHANGED <<dispatched, completed, active, handled, waiting, grace, preopen>>
        /\ executed' = executed
    BY <1>1, <1>5 DEF NoRun
  <2>2. DayTypeOK'
    BY <1>1, <1>2, <2>1 DEF DayTypeOK
  <2>3. DInv'
    BY <1>1, <2>1, <2>2 DEF DInv, MayRun, ListensForAReason, WaitsLong, AskedOnce
  <2> QED
    BY <2>1, <2>3, GraceBusy
<1> QED
  BY <1>4, <1>5

\* The grace ends, and the pre-market briefing may start.
LEMMA FireGraceDInv == ASSUME DInv, FireGrace PROVE DInv' /\ GraceStep
<1>1. /\ clock >= GraceEnd /\ grace' = FALSE /\ RunBriefing(PRE, stack)
      /\ UNCHANGED <<proc, clock, link, timers, executed, disk, recovered, marker,
                     signal, failed, starts>>
  BY DEF FireGrace
<1>2. DayTypeOK /\ timers \subseteq Names /\ executed \subseteq Names /\ recovered \subseteq Types
  BY DEF DInv, DayTypeOK
<1>3. StackOK(stack, completed, disk, MayRun) /\ Busy(stack) = Running
  BY RunningBusy DEF DInv
<1>4. PRE \in Types /\ MayStartEarly
  BY <1>1, BriefingDayAssumption DEF MayStartEarly
<1>5. Served /\ (preopen'.wanted => preopen.wanted)
  BY <1>1, <1>3, <1>4, RunBriefingServed
<1>6. preopen'.wanted => PREOPEN \in executed'
  BY <1>1, <1>5 DEF DInv, AskedOnce
<1> QED
  BY <1>1, <1>2, <1>5, <1>6, ServedKept

\* The recovery of a missing briefing.
LEMMA RecoverDInv == ASSUME DInv, Recover PROVE DInv' /\ GraceStep
<1> DEFINE todo == Head(stack).todo
<1>1. PICK i \in 1 .. Len(todo) :
        /\ recovered' = recovered \cup {todo[i]}
        /\ Call(todo[i], <<[Head(stack) EXCEPT !.todo = SubSeq(todo, i + 1, Len(todo))]>> \o Tail(stack))
  BY DEF Recover, Rest
<1>2. /\ stack # <<>> /\ Head(stack).job = "beat"
      /\ UNCHANGED <<proc, clock, link, timers, executed, disk, marker, signal, failed, starts>>
  BY DEF Recover, Top
<1>3. DayTypeOK /\ timers \subseteq Names /\ executed \subseteq Names /\ recovered \subseteq Types
  BY DEF DInv, DayTypeOK
<1>4. stack \in Seq(Frame) /\ StackOK(stack, completed, disk, MayRun)
  BY DEF DInv, StackOK
<1> DEFINE below == <<[Head(stack) EXCEPT !.todo = SubSeq(todo, i + 1, Len(todo))]>> \o Tail(stack)
           may == MayRun
<1>5. /\ todo \in Seq(Types)
      /\ StackOK(below, completed, disk, may) /\ Busy(below) = Busy(stack)
  <2> HIDE DEF may
  <2>1. StackOK(stack, completed, disk, may)
    BY <1>4 DEF may
  <2> QED
    BY <1>2, <1>4, <2>1, GoesOn
<1> HIDE DEF below
<1>6. todo[i] \in Types
  <2> HIDE DEF todo
  <2> QED
    BY <1>5
<1>7. Busy(below) = Running /\ Call(todo[i], below)
  BY <1>1, <1>5, RunningBusy DEF below
<1>8. todo[i] \in Names /\ todo[i] # PREOPEN
  BY <1>6, BriefingDayAssumption DEF Names, PREOPEN, PRE, TEN, CLOSE
<1>9. Served /\ (preopen'.wanted => preopen.wanted)
  <2> HIDE DEF todo
  <2> QED
    BY <1>2, <1>5, <1>7, <1>8, CallServed
<1>10. preopen'.wanted => PREOPEN \in executed'
  BY <1>2, <1>9 DEF DInv, AskedOnce
<1>11. timers' \subseteq Names /\ executed' \subseteq Names /\ recovered' \subseteq Types
  BY <1>1, <1>2, <1>3, <1>6
<1> QED
  BY <1>2, <1>9, <1>10, <1>11, ServedKept

\* A waiting briefing is released.
LEMMA ReleaseDInv == ASSUME DInv, Release PROVE DInv' /\ GraceStep
<1> DEFINE t == Head(Head(stack).todo)
           may == MayRun
<1>1. /\ stack # <<>> /\ Head(stack).job = "release" /\ Head(stack).todo # <<>>
      /\ IF Admitted(t) THEN Run(t, Taken, preopen.opened) ELSE NoRun(Taken)
      /\ UNCHANGED <<proc, clock, link, scheduling, waiting, disk, recovered, marker,
                     preopen, signal, failed, starts>>
  BY DEF Release, Top
<1>2. /\ StackOK(Taken, completed, disk, may) /\ Busy(Taken) = Running
      /\ t \in Types /\ (t = PRE => may)
  BY <1>1, TakenSound
<1>3. DayTypeOK
  BY DEF DInv
<1>4. MayRun' = MayRun
  BY <1>1 DEF MayRun
<1> HIDE DEF t, may
<1>5. /\ StackOK(stack', completed', disk, may)
      /\ dispatched' \subseteq completed' /\ completed' \subseteq Types
      /\ active' \in Types \cup {None} /\ handled' \in BOOLEAN
      /\ Busy(stack') \subseteq Running \cup (IF may THEN Types ELSE Types \ {PRE})
  <2>1. CASE Admitted(t)
    <3>1. t \notin Busy(Taken)
      BY <1>2, <2>1 DEF Admitted
    <3>2. preopen.opened \in BOOLEAN
      BY <1>3 DEF DayTypeOK
    <3>3. Run(t, Taken, preopen.opened)
      BY <1>1, <2>1
    <3>4. /\ StackOK(stack', completed', disk, may)
          /\ dispatched' \subseteq completed' /\ completed' \subseteq Types
          /\ active' \in Types \cup {None} /\ handled' \in BOOLEAN
          /\ Busy(stack') \subseteq Busy(Taken) \cup {t}
      BY <1>2, <1>3, <3>1, <3>2, <3>3, RunSound
    <3> QED
      BY <1>2, <3>4
  <2>2. CASE ~Admitted(t)
    BY <1>1, <1>2, <1>3, <2>2 DEF NoRun, DayTypeOK
  <2> QED
    BY <2>1, <2>2
<1>6. DayTypeOK'
  BY <1>1, <1>3, <1>5 DEF DayTypeOK, scheduling
<1>7. DInv'
  BY <1>1, <1>4, <1>5, <1>6 DEF DInv, ListensForAReason, WaitsLong, AskedOnce, scheduling, may
<1>8. PRE \in Busy(stack') => PRE \in Busy(stack) \/ may
  BY <1>5, RunningBusy
<1>9. GraceStep
  BY <1>1, <1>8, GraceBusy DEF may, MayRun
<1> QED
  BY <1>7, <1>9

\* The frames that return, the beats, the connection and the market.
LEMMA ReturnsDInv ==
    ASSUME DInv, PlanEnd \/ BeatEnd \/ ReleaseEnd \/ Fail \/ Return
    PROVE  DInv' /\ GraceStep
<1> DEFINE f == Head(stack)   may == MayRun
<1>1. /\ stack # <<>> /\ stack' = Tail(stack)
      /\ UNCHANGED <<proc, clock, scheduling, waiting, completed, disk, active, recovered, signal, starts>>
  BY DEF PlanEnd, BeatEnd, ReleaseEnd, Fail, Return, Top, Rest, dispatching, monitoring
<1>2. DayTypeOK /\ stack \in Seq(Frame) /\ StackOK(stack, completed, disk, may)
  BY DEF DInv, StackOK
<1> HIDE DEF may
<1>3. /\ f \in Frame /\ Tail(stack) \in Seq(Frame) /\ stack = <<f>> \o Tail(stack)
  BY <1>1, <1>2, TopFrame
<1> HIDE DEF f
<1>4. /\ StackOK(Tail(stack), completed, disk, may) /\ Vouched(f, completed, disk, may)
      /\ Busy(Tail(stack)) \subseteq Busy(stack)
  <2> DEFINE rest == Tail(stack)
  <2> HIDE DEF rest
  <2>1. rest \in Seq(Frame) /\ stack = <<f>> \o rest
    BY <1>3 DEF rest
  <2>2. StackOK(<<f>> \o rest, completed, disk, may)
    BY <1>2, <2>1
  <2>3. StackOK(rest, completed, disk, may) /\ Vouched(f, completed, disk, may)
    BY <1>3, <2>1, <2>2, PushedOK
  <2>4. Busy(<<f>> \o rest) = Held(f) \cup Busy(rest)
    BY <1>3, <2>1, PushedBusy
  <2> QED
    BY <2>1, <2>3, <2>4 DEF rest
<1>5. /\ preopen' \in ObservationStates
      /\ preopen.opened => preopen'.opened
      /\ ListensForAReason' /\ AskedOnce'
  <2>1. executed' = executed
    BY <1>1 DEF scheduling
  <2>2. CASE ReleaseEnd /\ Restarts
    <3>1. preopen' = PreopenAsked /\ preopen.wanted /\ ~preopen.started
      BY <2>2 DEF ReleaseEnd, Restarts
    <3>2. /\ PreopenAsked \in ObservationStates
          /\ preopen.opened => PreopenAsked.opened
          /\ PreopenAsked.stopped => ~PreopenAsked.started
          /\ PreopenAsked.wanted
      BY <1>2, <3>1, ObservationMoves
    <3> QED
      BY <2>1, <3>1, <3>2 DEF DInv, ListensForAReason, AskedOnce
  <2>3. CASE ~(ReleaseEnd /\ Restarts)
    <3>1. preopen' = preopen
      BY <2>3 DEF PlanEnd, BeatEnd, ReleaseEnd, Fail, Return
    <3> QED
      BY <1>2, <2>1, <3>1 DEF DInv, ListensForAReason, AskedOnce, DayTypeOK, ObservationStates
  <2> QED
    BY <2>2, <2>3
<1>6. MayRun => MayRun'
  BY <1>1, <1>5 DEF MayRun
<1>7. StackOK(stack', completed', disk', MayRun')
  <2> DEFINE may2 == MayRun'
  <2>1. may => may2
    BY <1>6 DEF may
  <2> HIDE DEF may2
  <2>2. StackOK(Tail(stack), completed, disk, may2)
    BY <1>4, <2>1, KeptOK
  <2> QED
    BY <1>1, <2>2 DEF may2
<1>8. /\ dispatched' \subseteq completed' /\ failed' \subseteq Types
      /\ link' \in BOOLEAN /\ handled' \in BOOLEAN /\ marker' \in BOOLEAN
  <2>1. CASE Fail
    <3>1. f.job = "collect" /\ failed' = failed \cup {f.type}
          /\ UNCHANGED <<link, handled, marker, dispatched>>
      BY <2>1 DEF Fail, Top, f, monitoring, dispatching
    <3>2. f.type \in Types
      BY <1>3, <3>1 DEF Frame
    <3> QED
      BY <1>1, <1>2, <3>1, <3>2 DEF DayTypeOK
  <2>2. CASE Return
    <3>1. f.job = "told" /\ dispatched' = dispatched \cup {f.type}
          /\ UNCHANGED <<link, handled, marker, failed>>
      BY <2>2 DEF Return, Top, f, monitoring
    <3>2. f.type \in completed
      BY <1>4, <3>1 DEF Vouched
    <3> QED
      BY <1>1, <1>2, <3>1, <3>2 DEF DayTypeOK
  <2>3. CASE BeatEnd
    <3>1. /\ UNCHANGED <<dispatched, failed>> /\ marker' = TRUE
          /\ \/ handled' = handled /\ link' = link
             \/ handled' = TRUE /\ link' = FALSE
      BY <2>3 DEF BeatEnd, dispatching
    <3> QED
      BY <1>1, <1>2, <3>1 DEF DayTypeOK
  <2>4. CASE PlanEnd \/ ReleaseEnd
    <3>1. UNCHANGED <<dispatched, failed, link, handled, marker>>
      BY <2>4 DEF PlanEnd, ReleaseEnd, dispatching, monitoring
    <3> QED
      BY <1>1, <1>2, <3>1 DEF DayTypeOK
  <2> QED
    BY <2>1, <2>2, <2>3, <2>4
<1>9. DayTypeOK'
  BY <1>1, <1>2, <1>5, <1>8 DEF DayTypeOK, scheduling, ObservationStates
<1>10. WaitsLong'
  BY <1>1, <1>6 DEF DInv, WaitsLong
<1>11. DInv'
  BY <1>5, <1>7, <1>9, <1>10 DEF DInv
<1>12. GraceStep
  BY <1>1, <1>4, GraceBusy
<1> QED
  BY <1>11, <1>12

\* A beat and a connection put their lists on the stack.
LEMMA PushesDInv ==
    ASSUME DInv, Beat \/ Connect
    PROVE  DInv' /\ GraceStep
<1> DEFINE may == MayRun
<1>1. DayTypeOK /\ stack \in Seq(Frame) /\ StackOK(stack, completed, disk, may)
  BY DEF DInv, StackOK
<1>2. /\ UNCHANGED <<proc, clock, scheduling, dispatched, completed, disk, monitoring,
                     marker, preopen, signal, failed, starts>>
      /\ \/ link' = link /\ waiting' = waiting
         \/ link' = TRUE /\ waiting' = <<>>
  BY DEF Beat, Connect, dispatching
<1>3. PICK f \in Frame : /\ stack' = <<f>> \o stack /\ Held(f) = {}
                         /\ Vouched(f, completed, disk, may)
  <2>1. CASE Beat
    <3>1. DayFrame \in Frame /\ DayFrame.job = "beat"
      BY <1>1, NewFrames
    <3>2. Held(DayFrame) = {} /\ Vouched(DayFrame, completed, disk, may)
      BY <3>1 DEF Held, Vouched
    <3>3. stack' = <<DayFrame>> \o stack
      BY <2>1 DEF Beat
    <3> QED
      BY <3>1, <3>2, <3>3
  <2>2. CASE Connect
    <3> DEFINE f == [job |-> "release", todo |-> waiting]
    <3>1. stack' = <<f>> \o stack
      BY <2>2 DEF Connect, Released
    <3>2. f \in Frame /\ f.job = "release" /\ f.todo = waiting
      BY <1>1, NewFrames DEF DayTypeOK
    <3>3. Held(f) = {} /\ Vouched(f, completed, disk, may)
      BY <3>2 DEF Held, Vouched, DInv, WaitsLong
    <3> QED
      BY <3>1, <3>2, <3>3
  <2> QED
    BY <2>1, <2>2
<1> HIDE DEF may
<1>4. StackOK(stack', completed, disk, may) /\ Busy(stack') = Busy(stack)
  <2>1. StackOK(<<f>> \o stack, completed, disk, may)
    BY <1>1, <1>3, PushedOK
  <2>2. Busy(<<f>> \o stack) = Held(f) \cup Busy(stack)
    BY <1>1, PushedBusy
  <2> QED
    BY <1>3, <2>1, <2>2
<1>5. MayRun' = MayRun
  BY <1>2 DEF MayRun
<1>6. waiting' \in Seq(Types) /\ IsInjective(waiting') /\ WaitsLong'
  <2>1. CASE waiting' = waiting
    BY <1>1, <1>5, <2>1 DEF DInv, DayTypeOK, WaitsLong
  <2>2. CASE waiting' = <<>>
    <3>1. ~Contains(waiting', PRE)
      BY <2>2 DEF Contains
    <3> QED
      BY <2>2, <3>1 DEF IsInjective, WaitsLong
  <2> QED
    BY <1>2, <2>1, <2>2
<1>7. DayTypeOK'
  BY <1>1, <1>2, <1>6 DEF DayTypeOK, scheduling, monitoring
<1>8. DInv'
  BY <1>2, <1>4, <1>5, <1>6, <1>7
     DEF DInv, ListensForAReason, AskedOnce, scheduling, may
<1>9. GraceStep
  BY <1>4, GraceBusy
<1> QED
  BY <1>8, <1>9

\* The clock, the market, the connection lost, and the shutdown.
LEMMA WorldDInv ==
    ASSUME DInv, Advance \/ Shutdown \/ Drop \/ Opens \/ Sample \/ UNCHANGED vars
    PROVE  DInv' /\ GraceStep
<1> DEFINE may == MayRun
<1>1. /\ DayTypeOK /\ StackOK(stack, completed, disk, may) /\ preopen \in ObservationStates
      /\ Periods \subseteq Nat
  BY BriefingDayAssumption DEF DInv, DayTypeOK, ObservationStates
<1>2. /\ UNCHANGED <<stack, executed, dispatched, completed, disk, monitoring, failed, starts>>
      /\ proc' \in {"down", "running", "closing"} /\ timers' \subseteq Names
      /\ link' \in BOOLEAN /\ grace' \in BOOLEAN /\ marker' \in BOOLEAN /\ signal' \in BOOLEAN
      /\ waiting' = waiting \/ waiting' = <<>>
  <2>1. CASE Shutdown
    BY <1>1, <2>1 DEF Shutdown, DayTypeOK
  <2>2. CASE Advance \/ Drop \/ Opens \/ Sample \/ UNCHANGED vars
    BY <1>1, <2>2 DEF Advance, Drop, Opens, Sample, vars, DayTypeOK, scheduling, dispatching
  <2> QED
    BY <2>1, <2>2
<1>3. clock' \in Periods /\ clock \in Periods /\ clock' >= clock
  <2>1. CASE Advance
    BY <1>1, <2>1 DEF Advance, DayTypeOK
  <2>2. CASE Shutdown \/ Drop \/ Opens \/ Sample \/ UNCHANGED vars
    <3>1. clock' = clock
      BY <2>2 DEF Shutdown, Drop, Opens, Sample, vars
    <3> QED
      BY <1>1, <3>1 DEF DayTypeOK
  <2> QED
    BY <2>1, <2>2
<1>4. /\ preopen' \in ObservationStates
      /\ preopen'.wanted = preopen.wanted /\ preopen'.started = preopen.started
      /\ preopen.opened => preopen'.opened
      /\ preopen'.listening /\ preopen'.stopped => preopen.listening /\ preopen.stopped
  <2>1. CASE Shutdown
    <3>1. preopen' = PreopenOver(preopen)
      BY <2>1 DEF Shutdown
    <3>2. /\ PreopenOver(preopen) \in ObservationStates
          /\ ~PreopenOver(preopen).listening
          /\ PreopenOver(preopen).wanted = preopen.wanted
          /\ PreopenOver(preopen).started = preopen.started
          /\ PreopenOver(preopen).opened = preopen.opened
      BY <1>1, ObservationMoves
    <3> QED
      BY <3>1, <3>2
  <2>2. CASE Sample
    <3>1. PICK more \in BOOLEAN : preopen' = [preopen EXCEPT !.opened = Refreshed, !.sampling = more]
      BY <2>2 DEF Sample
    <3>2. Refreshed \in BOOLEAN /\ (preopen.opened => Refreshed)
      BY <1>1 DEF Refreshed, DayTypeOK
    <3> QED
      BY <1>1, <3>1, <3>2 DEF ObservationStates
  <2>3. CASE Advance \/ Drop \/ Opens \/ UNCHANGED vars
    <3>1. preopen' = preopen
      BY <2>3 DEF Advance, Drop, Opens, vars
    <3> QED
      BY <1>1, <3>1
  <2> QED
    BY <2>1, <2>2, <2>3
<1>5. may => MayRun'
  BY <1>1, <1>3, <1>4 DEF MayRun, GraceEnd
<1>6. waiting' \in Seq(Types) /\ IsInjective(waiting') /\ WaitsLong'
  <2>1. CASE waiting' = waiting
    BY <1>1, <1>5, <2>1 DEF DInv, DayTypeOK, WaitsLong
  <2>2. CASE waiting' = <<>>
    <3>1. ~Contains(waiting', PRE)
      BY <2>2 DEF Contains
    <3> QED
      BY <2>2, <3>1 DEF IsInjective, WaitsLong
  <2> QED
    BY <1>2, <2>1, <2>2
<1>7. StackOK(stack', completed', disk', MayRun')
  <2> DEFINE may2 == MayRun'
  <2>1. may => may2
    BY <1>5
  <2> HIDE DEF may, may2
  <2>2. StackOK(stack, completed, disk, may2)
    BY <1>1, <2>1, KeptOK
  <2> QED
    BY <1>2, <2>2 DEF may2
<1>8. DayTypeOK'
  BY <1>1, <1>2, <1>3, <1>4, <1>6 DEF DayTypeOK, monitoring, ObservationStates
<1>9. ListensForAReason' /\ AskedOnce'
  BY <1>2, <1>4 DEF DInv, ListensForAReason, AskedOnce
<1>10. DInv'
  BY <1>6, <1>7, <1>8, <1>9 DEF DInv
<1>11. GraceStep
  BY <1>2, GraceBusy
<1> QED
  BY <1>10, <1>11

\* A process begins, and ends or dies.
LEMMA ProcessDInv ==
    ASSUME DInv, Launch \/ Kill \/ Exit
    PROVE  DInv' /\ GraceStep
<1>1. DayTypeOK
  BY DEF DInv
<1>2. CASE Launch
  <2> DEFINE f == Loop("plan", Plan(clock))   may == MayRun
  <2>1. /\ stack' = <<DayFrame, f>> /\ proc' = "running" /\ link' = FALSE
        /\ starts < MaxStarts /\ starts' = starts + 1
        /\ UNCHANGED <<clock, scheduling, dispatching, disk, monitoring, marker,
                       preopen, signal, failed>>
    BY <1>2 DEF Launch
  <2>2. /\ DayFrame \in Frame /\ DayFrame.job = "beat" /\ f \in Frame /\ f.job = "plan"
    BY <1>1, NewFrames
  <2> HIDE DEF f, may
  <2>3. /\ Held(DayFrame) = {} /\ Vouched(DayFrame, completed, disk, may)
        /\ Held(f) = {} /\ Vouched(f, completed, disk, may)
    BY <2>2 DEF Held, Vouched
  <2>4. <<>> \in Seq(Frame) /\ <<f>> \in Seq(Frame) /\ <<f>> = <<f>> \o <<>>
    BY <2>2
  <2>5. StackOK(<<>>, completed, disk, may) /\ Busy(<<>>) = {}
    BY EmptyOK
  <2>6. StackOK(<<f>>, completed, disk, may) /\ Busy(<<f>>) = {}
    <3>1. StackOK(<<f>> \o <<>>, completed, disk, may)
      BY <2>2, <2>3, <2>4, <2>5, PushedOK
    <3>2. Busy(<<f>> \o <<>>) = Held(f) \cup Busy(<<>>)
      BY <2>2, <2>4, PushedBusy
    <3> QED
      BY <2>3, <2>4, <2>5, <3>1, <3>2
  <2>7. /\ StackOK(<<DayFrame>> \o <<f>>, completed, disk, may)
        /\ Busy(<<DayFrame>> \o <<f>>) = {}
    <3>1. StackOK(<<DayFrame>> \o <<f>>, completed, disk, may)
      BY <2>2, <2>3, <2>4, <2>6, PushedOK
    <3>2. Busy(<<DayFrame>> \o <<f>>) = Held(DayFrame) \cup Busy(<<f>>)
      BY <2>2, <2>4, PushedBusy
    <3> QED
      BY <2>3, <2>6, <3>1, <3>2
  <2>8. <<DayFrame, f>> = <<DayFrame>> \o <<f>>
    OBVIOUS
  <2>9. MayRun' = MayRun
    BY <2>1 DEF MayRun
  <2>10. starts' \in 0 .. MaxStarts
    BY <1>1, <2>1, BriefingDayAssumption DEF DayTypeOK
  <2>11. DayTypeOK'
    BY <1>1, <2>1, <2>10 DEF DayTypeOK, scheduling, dispatching, monitoring
  <2>12. StackOK(stack', completed', disk', MayRun')
    BY <2>1, <2>7, <2>8, <2>9 DEF dispatching, may
  <2>13. DInv'
    BY <2>1, <2>9, <2>11, <2>12
       DEF DInv, ListensForAReason, WaitsLong, AskedOnce, scheduling, dispatching
  <2>14. GraceStep
    BY <2>1, <2>7, <2>8, GraceBusy
  <2> QED
    BY <2>13, <2>14
<1>3. CASE Kill \/ Exit
  <2>1. /\ Gone /\ marker' = marker
    BY <1>3 DEF Kill, Exit
  <2>2. /\ proc' = "down" /\ link' = FALSE /\ stack' = <<>>
        /\ timers' = {} /\ executed' = {} /\ grace' = FALSE
        /\ waiting' = <<>> /\ dispatched' = {} /\ completed' = {}
        /\ active' = None /\ handled' = FALSE /\ recovered' = {}
        /\ preopen' = NoPreopen /\ signal' = FALSE /\ failed' = {}
        /\ UNCHANGED <<clock, starts>>
    BY <2>1 DEF Gone
  <2>3. disk' \in [Types -> Contents]
    <3>1. CASE disk' = disk
      BY <1>1, <3>1 DEF DayTypeOK
    <3>2. CASE \E c \in Contents \ {"holiday"} : disk' = [disk EXCEPT ![Head(stack).type] = c]
      BY <1>1, <3>2 DEF DayTypeOK
    <3> QED
      BY <1>3, <3>1, <3>2 DEF Kill, Exit
  <2>4. /\ NoPreopen \in ObservationStates
        /\ ~NoPreopen.listening /\ ~NoPreopen.started /\ ~NoPreopen.wanted
    BY NoObservation
  <2>5. waiting' \in Seq(Types) /\ IsInjective(waiting') /\ ~Contains(waiting', PRE)
    BY <2>2 DEF IsInjective, Contains
  <2>6. DayTypeOK'
    BY <1>1, <2>1, <2>2, <2>3, <2>4, <2>5 DEF DayTypeOK, ObservationStates
  <2>7. StackOK(stack', completed', disk', MayRun') /\ Busy(stack') = {}
    <3> DEFINE may2 == MayRun'   files2 == disk'   made2 == completed'
    <3> HIDE DEF may2, files2, made2
    <3>1. StackOK(<<>>, made2, files2, may2) /\ Busy(<<>>) = {}
      BY EmptyOK
    <3> QED
      BY <2>2, <3>1 DEF may2, files2, made2
  <2>8. DInv'
    BY <2>2, <2>4, <2>5, <2>6, <2>7 DEF DInv, ListensForAReason, WaitsLong, AskedOnce
  <2> QED
    BY <2>7, <2>8, GraceBusy
<1> QED
  BY <1>2, <1>3

\* A briefing is made: the one file that changes is that of the top frame.
LEMMA FinishDInv == ASSUME DInv, Finish PROVE DInv' /\ GraceStep
<1> DEFINE f == Head(stack)   rest == Tail(stack)   may == MayRun
           told == Told(f.type)   made2 == completed \cup {f.type}   files2 == disk'
<1>1. /\ stack # <<>> /\ f.job = "collect"
      /\ stack' = <<DayFrame, told>> \o rest /\ completed' = made2
      /\ active' = None /\ handled' = FALSE
      /\ UNCHANGED <<proc, clock, link, scheduling, waiting, dispatched, recovered,
                     marker, preopen, signal, failed, starts>>
  BY DEF Finish, Top, Rest
<1>2. PICK c \in Outcomes(f) : disk' = [disk EXCEPT ![f.type] = c]
  BY DEF Finish
<1>3. DayTypeOK /\ stack \in Seq(Frame) /\ StackOK(stack, completed, disk, may)
  BY DEF DInv, StackOK
<1> HIDE DEF may
<1>4. f \in Frame /\ rest \in Seq(Frame) /\ stack = <<f>> \o rest
  BY <1>1, <1>3, TopFrame
<1> HIDE DEF f, rest, files2
<1>5. f.type \in Types /\ Held(f) = {f.type}
  BY <1>1, <1>4 DEF Frame, Held
<1>6. StackOK(rest, completed, disk, may) /\ f.type \notin Busy(rest)
  <2>1. StackOK(<<f>> \o rest, completed, disk, may)
    BY <1>3, <1>4
  <2> QED
    BY <1>4, <1>5, <2>1, PushedOK
<1>7. Busy(stack) = {f.type} \cup Busy(rest)
  <2>1. Busy(<<f>> \o rest) = Held(f) \cup Busy(rest)
    BY <1>4, PushedBusy
  <2> QED
    BY <1>4, <1>5, <2>1
<1>8. disk' \in [Types -> Contents] /\ \A t \in Types : t # f.type => disk'[t] = disk[t]
  <2>1. c \in Contents
    BY DEF Outcomes, Contents, Final
  <2> QED
    BY <1>2, <1>3, <1>5, <2>1 DEF DayTypeOK
<1>9. Busy(rest) \subseteq Types
  <2>1. \A i \in 1 .. Len(rest) : rest[i] \in Frame
    BY <1>4
  <2>2. \A g \in Frame : Held(g) \subseteq Types
    BY DEF Frame, Held
  <2> QED
    BY <2>1, <2>2 DEF Busy
<1>10. StackOK(rest, made2, files2, may)
  <2>1. \A t \in Busy(rest) : files2[t] = disk[t]
    BY <1>6, <1>8, <1>9 DEF files2
  <2>2. completed \subseteq made2
    OBVIOUS
  <2> HIDE DEF made2
  <2> QED
    BY <1>6, <2>1, <2>2, KeptOK
<1>11. /\ told \in Frame /\ Held(told) = {f.type}
       /\ DayFrame \in Frame /\ Held(DayFrame) = {}
       /\ Vouched(told, made2, files2, may) /\ Vouched(DayFrame, made2, files2, may)
  <2>1. told \in Frame /\ DayFrame \in Frame /\ DayFrame.job = "beat"
    BY <1>3, <1>5, NewFrames
  <2>2. told.job = "told" /\ told.type = f.type
    BY DEF Told
  <2> HIDE DEF told
  <2> QED
    BY <2>1, <2>2 DEF Held, Vouched
<1> HIDE DEF told, made2
<1> DEFINE mid == <<told>> \o rest
<1>12. /\ mid \in Seq(Frame)
       /\ StackOK(mid, made2, files2, may) /\ Busy(mid) = Busy(stack)
  <2>1. mid \in Seq(Frame)
    BY <1>4, <1>11
  <2>2. StackOK(mid, made2, files2, may)
    BY <1>4, <1>6, <1>10, <1>11, PushedOK
  <2>3. Busy(mid) = Held(told) \cup Busy(rest)
    BY <1>4, <1>11, PushedBusy
  <2> QED
    BY <1>7, <1>11, <2>1, <2>2, <2>3
<1>13. <<DayFrame, told>> \o rest = <<DayFrame>> \o mid
  <2> DEFINE d == DayFrame
  <2> HIDE DEF d
  <2>1. d \in Frame
    BY <1>11 DEF d
  <2>2. <<d>> \in Seq(Frame) /\ <<told>> \in Seq(Frame) /\ <<d, told>> = <<d>> \o <<told>>
    BY <1>11, <2>1
  <2>3. (<<d>> \o <<told>>) \o rest = <<d>> \o (<<told>> \o rest)
    BY <1>4, <2>2, ConcatAssociative
  <2> QED
    BY <2>2, <2>3 DEF d
<1> HIDE DEF mid
<1>14. StackOK(stack', made2, files2, may) /\ Busy(stack') = Busy(stack)
  <2>1. StackOK(<<DayFrame>> \o mid, made2, files2, may)
    BY <1>11, <1>12, PushedOK
  <2>2. Busy(<<DayFrame>> \o mid) = Held(DayFrame) \cup Busy(mid)
    BY <1>11, <1>12, PushedBusy
  <2> QED
    BY <1>1, <1>11, <1>12, <1>13, <2>1, <2>2
<1>15. MayRun' = MayRun
  BY <1>1 DEF MayRun
<1>16. StackOK(stack', completed', disk', MayRun')
  BY <1>1, <1>14, <1>15 DEF may, files2
<1>17. DayTypeOK'
  BY <1>1, <1>3, <1>5, <1>8 DEF DayTypeOK, scheduling, made2
<1>18. DInv'
  BY <1>1, <1>15, <1>16, <1>17
     DEF DInv, ListensForAReason, WaitsLong, AskedOnce, scheduling
<1>19. GraceStep
  BY <1>14, GraceBusy
<1> QED
  BY <1>18, <1>19

\* Every step keeps the day sound and the grace.
LEMMA StepDInv == DInv /\ [Next]_vars => DInv' /\ GraceStep
<1> SUFFICES ASSUME DInv, [Next]_vars PROVE DInv' /\ GraceStep
  OBVIOUS
<1>1. CASE \E n \in Names : FireTimer(n)
  BY <1>1, FireTimerDInv
<1> QED
  BY <1>1, PlanStepDInv, FireGraceDInv, RecoverDInv, ReleaseDInv, ReturnsDInv, PushesDInv,
     WorldDInv, ProcessDInv, FinishDInv
  DEF Next, Frames, Ends, Timeouts

\* Only the briefing on top of the stack is written, and its result was not
\* complete, whether it is finished or the process dies while it is saved.
LEMMA StepFinal == DInv /\ [Next]_vars => FinalStep
<1> SUFFICES ASSUME DInv, [Next]_vars PROVE FinalStep
  OBVIOUS
<1>1. CASE disk' = disk
  BY <1>1 DEF FinalStep
<1>2. ASSUME Top("collect"), NEW c, disk' = [disk EXCEPT ![Head(stack).type] = c]
      PROVE  FinalStep
  <2>1. stack \in Seq(Frame) /\ stack # <<>> /\ Head(stack).job = "collect"
    BY <1>2 DEF Top, DInv, StackOK
  <2>2. 1 \in 1 .. Len(stack) /\ Head(stack) = stack[1]
    <3>1. Len(stack) \in Nat /\ Len(stack) # 0
      BY <2>1, EmptySeq
    <3> QED
      BY <2>1, <3>1
  <2>3. disk[Head(stack).type] \notin Final
    <3>1. Vouched(stack[1], completed, disk, MayRun)
      BY <2>2 DEF DInv, StackOK
    <3> QED
      BY <2>1, <2>2, <3>1 DEF Vouched
  <2>4. disk \in [Types -> Contents]
    BY DEF DInv, DayTypeOK
  <2> QED
    BY <1>2, <2>3, <2>4 DEF FinalStep, Valid
<1>3. CASE Finish
  <2>1. Top("collect") /\ \E c : disk' = [disk EXCEPT ![Head(stack).type] = c]
    BY <1>3 DEF Finish
  <2> QED
    BY <1>2, <2>1
<1>4. CASE Kill
  <2>1. disk' = disk \/ (Top("collect") /\ \E c : disk' = [disk EXCEPT ![Head(stack).type] = c])
    BY <1>4 DEF Kill
  <2> QED
    BY <1>1, <1>2, <2>1
<1>5. CASE Advance \/ Launch \/ Shutdown \/ Exit \/ Beat \/ Connect \/ Drop \/ Opens \/ Sample
  BY <1>1, <1>5 DEF Advance, Launch, Shutdown, Exit, Beat, Connect, Drop, Opens, Sample
<1>6. CASE Frames \/ Fail
  BY <1>1, <1>6 DEF Frames, Fail, PlanStep, PlanEnd, Recover, BeatEnd, Release, ReleaseEnd, Return
<1>7. CASE Timeouts
  BY <1>1, <1>7 DEF Timeouts, FireTimer, FireGrace
<1>8. CASE UNCHANGED vars
  BY <1>1, <1>8 DEF vars
<1> QED
  BY <1>3, <1>4, <1>5, <1>6, <1>7, <1>8 DEF Next, Ends

-----------------------------------------------------------------------------
\* The day stays sound.
LEMMA InvariantDInv == Spec => []DInv
<1>1. Init => DInv
  BY InitDInv
<1>2. DInv /\ [Next]_vars => DInv'
  BY StepDInv
<1> QED
  BY <1>1, <1>2, PTL DEF Spec

\* Whatever of the scheduler, the catch-up, the recovery and a reconnect asks
\* for a briefing, in whatever nesting of their waits, none is made twice at
\* once, nothing waits twice, what is dispatched is made, and a stopped
\* observation that had begun listens to nothing.
THEOREM DayKept == Spec => []DayInv
<1>1. DInv => DayInv
  BY RunningBusy DEF DInv, DayInv, StackOK
<1> QED
  BY <1>1, InvariantDInv, PTL

\* The complete result of a day is never made again, by a recovery, a reconnect
\* or a process that is started later, and a death never damages it.
THEOREM FinalResultKept == Spec => FinalKept
<1>1. DInv /\ [Next]_vars => [\A t \in Types : Valid(t) => disk'[t] = disk[t]]_vars
  BY StepFinal DEF FinalStep
<1> QED
  BY <1>1, InvariantDInv, PTL DEF Spec, FinalKept

\* The pre-market briefing begins before 09:05 only in a market that was seen
\* to open, whether a timer, the recovery, or a connection that it had to wait
\* for lets it run.
THEOREM GraceRespected == Spec => GraceKept
<1>1. DInv /\ [Next]_vars => [PRE \notin Running /\ PRE \in Running' =>
                              clock >= GraceEnd \/ preopen'.opened]_vars
  BY StepDInv DEF GraceStep
<1> QED
  BY <1>1, InvariantDInv, PTL DEF Spec, GraceKept

=============================================================================
