------------------------------ MODULE RuleCases ------------------------------
(***************************************************************************)
(* The pure rules, each judging one case: a case is an input that the      *)
(* collectors, the user's file or the server can produce, the verdict what *)
(* the rules make of it.  The properties compare the verdict with what the *)
(* rules owe to the input, or with the verdict of a related one.           *)
(***************************************************************************)
EXTENDS MarketRules, HoldingRules, RecommendationRules

CONSTANTS
    MarketCases,   \* rounds of collection
    CloseCases,    \* pairs of a round and an earlier one, None or Bad
    HoldingCases,  \* what accounts and the file answer
    AdviceCases,   \* technical states of a position
    LeaderCases,   \* answers of the rankings
    WeekCases,     \* daily bars, and the time they are read at
    FlowCases,     \* rows of flows
    PlanCases,     \* states and candidates to plan for
    RunCases,      \* what a run of the orchestrator is answered
    StockCases,    \* stocks to select from
    UniverseCases, \* master records
    Policy         \* RecommendationPolicy

CacheStates == [code : Nat, kind : {"daily", "flow"}, retries : Nat,
                status : {"fresh", "stale", "missing", "failed"}]
PlanInputs == [states : Seq(CacheStates), candidates : SUBSET FlowCandidate, codes : SUBSET Nat,
               mode : {"bootstrap", "daily_incremental", "repair"},
               checkpoint : Nat, retryLimit : Nat, limit : Nat]

\* Each stock is a candidate once.
ASSUME PlanAssumption ==
    \A p \in PlanCases :
        /\ p \in PlanInputs /\ IsFiniteSet(p.candidates)
        /\ \A c, d \in p.candidates : c.code = d.code => c = d

\* The exchanges list a code once between them, and what is made of the bars
\* of a stock bears its code.
ASSUME RunAssumption ==
    \A o \in RunCases :
        /\ IsFiniteSet(o.records) /\ \A r \in o.records : r.code \in Nat
        /\ \A r, s \in o.records : r.code = s.code => r = s
        /\ \A r \in o.records :
             o.daily[r.code] # Fails =>
               o.daily[r.code] \in FlowCandidate /\ o.daily[r.code].code = r.code
        /\ o.mode \in {"bootstrap", "daily_incremental", "repair"} /\ o.max \in Nat /\ o.limit \in Nat

\* What the collectors of a briefing are answered, and what is decided on it.
Answers == Int \cup {Fails, Bad}
Rounds == [index : [Indices -> Answers], cap : [Caps -> Answers],
           spot : [Investors -> Int \cup {Bad}] \cup {Fails}, contract : BOOLEAN,
           futures : Answers, program : Answers, premarket : BOOLEAN, zero : BOOLEAN,
           others : Nat, warnings : Nat, began : Int, took : Int]
Decisions == [state : {"capitulation", "strong_decline", "weak_decline", "strong_uptrend",
                       "gradual_uptrend", "mixed", "technical_rebound", "directionless",
                       "insufficient_data"},
              risk : {"high", "medium", "low"}, confidence : Int]

\* What stands for a missing value is none of the values.
ASSUME ValueAssumption ==
    /\ None # Fails /\ None # Bad /\ Fails # Bad
    /\ {None, Fails, Bad} \cap Int = {}
    /\ {None, Bad} \cap Rounds = {} /\ None \notin Decisions
    /\ Fails \notin [Investors -> Int \cup {Bad}]

ASSUME RoundAssumption ==
    /\ MarketCases \subseteq Rounds
    /\ \A p \in CloseCases :
         p.now \in Rounds /\ p.before \in Rounds \cup {None, Bad} /\ p.premarket \in BOOLEAN

\* The user's file is a list of rows.
ASSUME HoldingAssumption ==
    \A h \in HoldingCases : h.file \in Seq([code : Stocks, quantity : Int, average : Int])

\* The average of 60 days has all that shorter ones and the low of 20 need.
ASSUME AdviceAssumption ==
    \A t \in AdviceCases : t.ma60 # None => None \notin {t.ma5, t.ma20, t.low}

Evaluated == [code : Nat, listed : BOOLEAN, hard : BOOLEAN, bars : Nat, verified : BOOLEAN,
              signal : [above : BOOLEAN, rising : BOOLEAN, weeks : Nat, end : Int] \cup {None},
              parts : [weekly : Int, bottom : Int, daily : Int, catalyst : Int], risks : Int,
              value : Int, recent : Int, surge : BOOLEAN, odd : BOOLEAN, prices : Int, reasons : Nat,
              flow : [status : {"complete", "partial", "data_unavailable"},
                      score : Int, confidence : Int] \cup {None}]

\* A stock is evaluated once; the defaults of the policy have room for the
\* strong ones.
ASSUME StockAssumption ==
    /\ \A s \in StockCases : /\ s \subseteq Evaluated /\ IsFiniteSet(s)
                             /\ \A c, d \in s : c.code = d.code => c = d
    /\ Policy \in [strong : Int, review : Int, strongLimit : Nat, reviewLimit : Nat, totalLimit : Nat]
    /\ Policy.strongLimit <= Policy.totalLimit

\* What is known of the stocks that the rankings name.
ASSUME LeaderAssumption ==
    \A l \in LeaderCases :
        /\ l.limit \in Nat /\ l.market \in Int \cup {None}
        /\ \A k \in 1 .. 3 : l.ranks[k] # Fails => l.ranks[k] \in Seq(Nat)
        /\ \A c \in Candidates(l) :
             l.stocks[c] \in [rate : Int, open : Int \cup {None}, high : Int \cup {None}]

\* What the server says of a code does not depend on the market it is asked
\* about.
ASSUME UniverseAssumption ==
    \A u \in UniverseCases :
        /\ u.limit \in Nat /\ IsFiniteSet(u.answers)
        /\ \A a \in u.answers : /\ a.code \in Nat \cup {Bad} /\ a.market \in Range(Markets)
                               /\ a.name \in Nat /\ a.halted \in BOOLEAN
        /\ \A a, b \in u.answers : a.code = b.code => a.labels = b.labels /\ a.halted = b.halted

\* What the server answers for a stock; a bar is read at a time, in whole numbers.
BarRows == [day : Int \cup {Bad}, close : Int \cup {None, Bad}, low : Int \cup {None, Bad},
            high : Int \cup {None, Bad}, adjusted : BOOLEAN, read : Int]
FieldRows == [day : Int \cup {Bad}, foreign : Int \cup {None, Bad}, institution : Int \cup {None, Bad}]
ASSUME RowAssumption ==
    /\ \A w \in WeekCases : w.bars \in Seq(BarRows) /\ w.now \in [day : Int, closed : BOOLEAN]
    /\ \A f \in FlowCases : f.rows \in Seq(FieldRows) /\ f.target \in Int

VARIABLES
    case,     \* the input, with its kind
    verdict   \* what the rules say of it, empty before

Tagged(kind, inputs) == {[kind |-> kind, in |-> x] : x \in inputs}

\* What the answers of the server say of the stocks.
Masters(u) == {MasterRecord(a) : a \in u.answers}

Init ==
    /\ \/ case \in Tagged("market", MarketCases)     \/ case \in Tagged("close", CloseCases)
       \/ case \in Tagged("positions", HoldingCases) \/ case \in Tagged("advice", AdviceCases)
       \/ case \in Tagged("leaders", LeaderCases)    \/ case \in Tagged("weeks", WeekCases)
       \/ case \in Tagged("flow", FlowCases)         \/ case \in Tagged("plan", PlanCases)
       \/ case \in Tagged("run", RunCases)           \/ case \in Tagged("stocks", StockCases)
       \/ case \in Tagged("universe", UniverseCases)
    /\ verdict = <<>>

Judge(kind, result(_)) ==
    /\ case.kind = kind /\ verdict = <<>>
    /\ verdict' = <<result(case.in)>>
    /\ UNCHANGED case

JudgeMarket == Judge("market", LAMBDA m : Briefing(m, None))
JudgeClose == Judge("close", LAMBDA p : CloseEvaluation(p.now, SameDayResult(p.before), p.premarket))
FindPositions == Judge("positions", Positions)
Advise == Judge("advice", LAMBDA t : Advice(t, t.market))
ChooseLeaders == Judge("leaders", LAMBDA l : Leaders(l, l.limit, l.market))
ReadWeeks == Judge("weeks", LAMBDA w : SignalOf(w.bars, w.now))
ReadFlow == Judge("flow", LAMBDA f : FlowOf(f.rows, f.target))
PlanRequests == Judge("plan", RequestPlan)
RunOnce == Judge("run", Orchestrate)
Recommend == Judge("stocks", LAMBDA s : Recommendations(s, Policy))
ChooseUniverse == Judge("universe", LAMBDA u : BalancedUniverse(Masters(u), u.limit))

Next ==
    \/ JudgeMarket \/ JudgeClose \/ FindPositions \/ Advise \/ ChooseLeaders \/ ReadWeeks
    \/ ReadFlow \/ PlanRequests \/ RunOnce \/ Recommend \/ ChooseUniverse

RuleSpec == Init /\ [][Next]_<<case, verdict>>

Judged(kind) == case.kind = kind /\ verdict # <<>>
said == verdict[1]

-----------------------------------------------------------------------------
(***************************************************************************)
(* Markets                                                                 *)
(***************************************************************************)

Sources == {"KOSPI", "KOSDAQ", "KOSPI200", "005930", "000660", "spot", "futures", "program"}

\* The round in which one more source fails.
Losing(m, s) ==
    CASE s \in Indices -> [m EXCEPT !.index[s] = Fails]
      [] s \in Caps -> [m EXCEPT !.cap[s] = Fails]
      [] s = "spot" -> [m EXCEPT !.spot = Fails]
      [] s = "futures" -> [m EXCEPT !.futures = Fails]
      [] s = "program" -> [m EXCEPT !.program = Fails]

\* The round of the opposite market.
Opposite(m) ==
    LET turn(a) == IF a \in {Fails, Bad} THEN a ELSE -a IN
    [m EXCEPT !.index = [i \in Indices |-> turn(m.index[i])],
              !.cap = [c \in Caps |-> turn(m.cap[c])],
              !.spot = IF m.spot = Fails THEN Fails ELSE [i \in Investors |-> turn(m.spot[i])],
              !.futures = turn(m.futures), !.program = turn(m.program)]

Turned == [strong_bullish |-> "strong_bearish", bullish |-> "bearish", neutral |-> "neutral",
           bearish |-> "bullish", strong_bearish |-> "strong_bullish",
           insufficient_data |-> "insufficient_data"]
Confident == [low |-> 0, medium |-> 1, high |-> 2]
Size(v) == IF v < 0 THEN -v ELSE v

\* A briefing says something of the market only from data that carry it: a
\* pre-market briefing that counts as completed or may be judged has a state
\* and a decision, one that may not be judged has none (evaluate_pre_market_
\* quality, unavailable_analysis, analyze_briefing); the opposite round gets
\* the opposite state with the same confidence; and a source that fails moves
\* the score by its own direction at most and makes no state more confident
\* (score_market, _lower_confidence).
JudgedOnData ==
    Judged("market") =>
        LET m == case.in   a == said.analysis IN
        /\ m.premarket => /\ said.status = "completed" => a.state # "insufficient_data"
                          /\ a.decision # None => /\ a.state # "insufficient_data"
                                                  /\ a.decision.state # "insufficient_data"
                          /\ a.decision = None => a.signals = {} /\ a.score = None
        /\ LET o == Analyze(Opposite(m), None)   same == Analyze(m, None) IN
           /\ o.score = -same.score /\ o.state = Turned[same.state]
           /\ o.confidence = same.confidence
        /\ \A s \in Sources :
             LET less == Analyze(Losing(m, s), None)   all == Analyze(m, None) IN
             /\ Size(less.score - all.score) <= (IF s = "spot" THEN 2 ELSE 1)
             /\ Confident[less.confidence] <= Confident[all.confidence]

\* A market close is compared with what was said earlier in the day: nothing
\* is said when the earlier file could not be read, the opposite day gets the
\* same verdict, and a state that has not changed is a hit or no change
\* (evaluate_market_close, _state_evaluation, _changes).
CloseIsFair ==
    Judged("close") =>
        LET p == case.in IN
        /\ p.before \in {None, Bad} => said.verdict = "no data" /\ said.changes = <<>>
        /\ p.before \notin {None, Bad} =>
             LET states == {Briefing(p.now, None).analysis.state, Briefing(p.before, None).analysis.state} IN
             /\ said.verdict = CloseEvaluation(Opposite(p.now), Opposite(p.before), p.premarket).verdict
             /\ "insufficient_data" \in states <=> said.verdict = "no data"
             /\ Cardinality(states) = 1 <=> said.verdict \in {"hit", "flat"}
                  \/ states = {"insufficient_data"}
             /\ \A i \in Indices : said.changes[i] = None
                                     <=> None \in {IndexRates(p.now)[i], IndexRates(p.before)[i]}

-----------------------------------------------------------------------------
(***************************************************************************)
(* Stocks                                                                  *)
(***************************************************************************)

\* The shares of a stock in each account that holds it and could be read.
Shares(h, c) ==
    [a \in {a \in DOMAIN Answered(h) : Answered(h)[a] # Fails /\ c \in DOMAIN Answered(h)[a]} |->
       Answered(h)[a][c].quantity]

\* No position is lost in silence: every share of an account that could be
\* read is in the one position of its stock, or the stock is named as missing;
\* every account that could not be read is named; and the user's file counts
\* only when no account could be read (HoldingsCollector.collect,
\* consolidate_holdings, _load_accounts).
PositionsAccounted ==
    Judged("positions") =>
        LET h == case.in
            of(c) == {p \in said.found : p.code = c}
        IN /\ \A c \in Stocks : Cardinality(of(c)) <= 1 /\ (of(c) # {} => c \notin said.missing)
           /\ \A a \in DOMAIN Answered(h) : Answered(h)[a] = Fails => <<"account", a>> \in said.unread
           /\ said.source = "kiwoom_accounts" =>
                \A c \in Stocks : DOMAIN Shares(h, c) # {} =>
                    c \in said.missing \/ \E p \in of(c) : p.quantity = SumOf(Shares(h, c))
           /\ said.source # "kiwoom_accounts" =>
                /\ \A a \in DOMAIN Answered(h) : Answered(h)[a] = Fails
                /\ \A r \in DOMAIN h.file :
                     \/ h.file[r].code \in {p.code : p \in said.found} \cup said.missing
                     \/ <<"row", r>> \in said.unread

\* A fall is never a reason to buy: more is bought of a stock only at a profit
\* and above its average, as the comment of review_state says that a
\* technical bottom alone justifies nothing; a breached stop or a failed low
\* comes before everything else once there are bars to judge; and a strong
\* downward trend is never advised to be held (review_state,
\* holding_decision, priority).
CautiousAdvice ==
    Judged("advice") =>
        LET t == case.in IN
        /\ said.review \in {"averaging_down_candidate", "add_on_strength_candidate"} =>
             t.profit > 0 /\ t.price > t.ma20 /\ ~Breached(t)
        /\ (t.bars /\ t.ma60 # None /\ (Breached(t) \/ t.price < t.low)) => said.priority = 1
        /\ (t.bars /\ TrendState(t) = "strong_downtrend") => said.priority <= 3

\* The best are chosen and no more of them than there is room for: no stock
\* that is evaluated and qualifies is left out while a worse one is in, none is
\* in two lists, losing the flows of a stock never lifts it; of the leaders this
\* is said only of the stocks that are looked at, the first that the rankings
\* name; a universe of both markets is as
\* large as it may be, without a stock that one label excludes; and what the
\* builder of the snapshot writes is what the collection accepts, with all the
\* listed stocks that have a name (select_integrated_recommendations,
\* select_balanced_universe, snapshot_payload, load_universe_snapshot,
\* KiwoomLeadershipCollector.collect).
ChosenAreBest ==
    /\ Judged("stocks") =>
         LET strong == Range(said.strong)   review == Range(said.review)
             blind(c) == [c EXCEPT !.flow = None]
         IN /\ Len(said.ranked) <= Policy.totalLimit
            /\ strong \cap review = {}
            /\ \A c \in case.in \ strong, d \in strong :
                 (Passed(c) /\ Convincing(c, Policy)) => BetterStock(d, c)
            /\ \A c \in case.in \ (strong \cup review) :
                 (Passed(c) /\ Promising(c, Policy)) =>
                     /\ \A d \in review : BetterStock(d, c)
                     /\ Len(said.ranked) = Policy.totalLimit \/ Cardinality(review) = Policy.reviewLimit
            /\ \A c \in strong \cup review :
                 /\ TotalScore(blind(c)) <= TotalScore(c) /\ ~Convincing(blind(c), Policy)
                 /\ c \in strong => c.flow # None
    /\ Judged("universe") =>
         LET codes == {r.code : r \in {r \in Masters(case.in) : Listed(r)}}
             excluded == {a.code : a \in {a \in case.in.answers : a.halted \/ Range(Excluding) \cap a.labels # {}}}
             named == {a.code : a \in {a \in case.in.answers : a.name # 0}}
             rows == Snapshot(Masters(case.in))
         IN /\ Len(said) = Min({case.in.limit, Cardinality(codes)})
            /\ Cardinality({r.code : r \in Range(said)}) = Len(said)
            /\ codes \cap excluded = {}
            /\ Loads(rows)
            /\ {r.code : r \in Range(rows)} = codes \cap named
    /\ Judged("leaders") =>
         /\ Len(said) <= case.in.limit
         /\ \A c \in Range(said), d \in Candidates(case.in) \ Range(said) :
              /\ case.in.stocks[c].rate > 0
              /\ (case.in.stocks[d].rate > 0 /\ LeaderScore(case.in, d, None) >= 300) =>
                   Before(case.in, None, c, d)

-----------------------------------------------------------------------------
(***************************************************************************)
(* Recommendations                                                         *)
(***************************************************************************)

\* The rows of which those that are bars of a week have other prices.
Changed(rows, week) ==
    [k \in DOMAIN rows |-> IF k \in BarsOf(rows) /\ Sound(rows[k]) /\ WeekOf(rows[k]) = week
                           THEN [rows[k] EXCEPT !.close = rows[k].high] ELSE rows[k]]
OneADay(rows) == \A j, k \in DOMAIN rows : rows[j].day = rows[k].day => j = k

\* The signal looks at nothing that was not known: bars of later days change
\* nothing, and as long as the exchange trades in a week, or before its close
\* on Friday, nor do the prices of that week; the flows do not depend on later
\* days; and neither depends on the order the rows come in
\* (KiwoomDailyDataSource.collect, normalize_daily_bars,
\* aggregate_weekly_bars, completed_weekly_signal, collect_with_rows).
NoLookAhead ==
    /\ Judged("weeks") =>
        LET bars == case.in.bars   now == case.in.now IN
        /\ OneADay(bars) => said = SignalOf(Reverse(bars), now)
        /\ (now.day % 7 < 4 \/ (now.day % 7 = 4 /\ ~now.closed)) =>
             said = SignalOf(Changed(bars, now.day \div 7), now)
        /\ said = SignalOf(Changed(bars, now.day \div 7 + 1), now)
        /\ said \notin {None, Fails} => said.end <= now.day
    /\ Judged("flow") =>
        LET rows == case.in.rows
            later == [day |-> case.in.target + 1, foreign |-> 9, institution |-> 9]
        IN /\ said = FlowOf(rows \o <<later>>, case.in.target)
           /\ OneADay(rows) => said = FlowOf(Reverse(rows), case.in.target)

\* Requests are made for what is needed, once: a plan asks for no code twice,
\* a repair and a first collection ask for nothing in common and between them
\* for all prices that are not fresh and have a retry left, a state that is
\* told twice counts as the worse; and a run has either the bars of a stock or
\* a failure for it, and flows only for stocks with bars (build_request_plan,
\* RecommendationCollectionOrchestrator.run).
PlanIsExact ==
    /\ Judged("plan") =>
         LET asked(mode) == RequestPlan([case.in EXCEPT !.mode = mode, !.checkpoint = 0]).network IN
         /\ IsInjective(said.network)
         /\ Range(asked("bootstrap")) \cap Range(asked("repair")) = {}
         /\ \A s \in Range(case.in.states) :
              (/\ s.kind = "daily" /\ s.status # "fresh" /\ s.retries < case.in.retryLimit
               /\ \A u \in Range(case.in.states) \ {s} :
                    (u.code = s.code /\ u.kind = "daily") => u.status = "fresh")
              => <<"daily", s.code>> \in Range(asked("bootstrap")) \cup Range(asked("repair"))
    /\ Judged("run") =>
         /\ \A r \in case.in.records :
              (Listed(r) /\ Cardinality(case.in.records) <= case.in.max) =>
                  r.code \in said.bundles \/ <<"daily", r.code>> \in said.failures
         /\ said.asked \subseteq said.bundles
         /\ \A c \in said.asked : c \in said.flows \/ <<"flow", c>> \in said.failures

\* What a briefing says of the market rests on its data, also when it looks back
\* on what was said before.
BriefingJudged == JudgedOnData /\ CloseIsFair

\* What it says of the user's holdings is about all of them, and cautious.
HoldingsAdvised == PositionsAccounted /\ CautiousAdvice
=============================================================================
