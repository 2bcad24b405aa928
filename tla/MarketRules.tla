---------------------------- MODULE MarketRules ----------------------------
(***************************************************************************)
(* What a briefing says of the market: the collectors turn answers of the  *)
(* server into values, the pre-market quality decides whether they may be  *)
(* judged, and the rules turn them into a state, signals, a confidence and *)
(* a decision.  The operators are pure, as the code is.                    *)
(*                                                                         *)
(* An input m is one round of collection.  Rates are tenths of a percent,  *)
(* flows are signed amounts, times are seconds from 09:00.  Of the fields  *)
(* of a row only the one that is judged is kept; m.others is the number of *)
(* errors of the collectors whose values are not judged here.  Texts are   *)
(* left out, and so is the rounding of binary fractions.                   *)
(***************************************************************************)
EXTENDS Integers, Sequences, FiniteSets, SequencesExt, RuleValues

Indices == {"KOSPI", "KOSDAQ", "KOSPI200"}
Caps == {"005930", "000660"}
Investors == {"individual", "foreigner", "institution"}

-----------------------------------------------------------------------------
(***************************************************************************)
(* The collectors.  A request that raises costs its own row only, text     *)
(* that is no number its own field.                                        *)
(***************************************************************************)

\* The field of a row, as the normalizers leave it.
Value(a) == IF a \in {Fails, Bad} THEN None ELSE a

\* KiwoomMarketIndexCollector and KiwoomCoreMarketCollector.  Only the
\* latter reports text that is no number as an error.
IndexRates(m) == [i \in Indices |-> Value(m.index[i])]
StockRates(m) == [c \in Caps |-> Value(m.cap[c])]
IndexErrors(m) == {i \in Indices : m.index[i] = Fails}
StockErrors(m) == {c \in Caps : m.cap[c] \in {Fails, Bad}}

\* KiwoomInvestorFlowCollector: all investors come from one row.
SpotFlows(m) ==
    IF m.spot = Fails THEN [i \in {} |-> None]
    ELSE [i \in Investors |-> Value(m.spot[i])]
Spot(m, i) == IF i \in DOMAIN SpotFlows(m) THEN SpotFlows(m)[i] ELSE None
SpotErrors(m) == IF m.spot = Fails THEN {"spot"} ELSE {}

\* KiwoomDerivativesFlowCollector.  Nothing is asked for futures without a
\* contract, and the flows of institutions are documented as unavailable.
FuturesForeign(m) == IF m.contract THEN Value(m.futures) ELSE None
FuturesInstitution(m) == None
Program(m) == Value(m.program)
DerivativesErrors(m) ==
    {x \in {"futures", "program"} :
        \/ x = "futures" /\ m.contract /\ m.futures = Fails
        \/ x = "program" /\ m.program = Fails}

\* The errors of the collectors, which the pipeline gathers: also those of the
\* leadership, the holdings, the flow of KOSDAQ and the single stock futures.
Errors(m) == Cardinality(IndexErrors(m)) + Cardinality(StockErrors(m))
               + Cardinality(SpotErrors(m)) + Cardinality(DerivativesErrors(m)) + m.others

-----------------------------------------------------------------------------
(***************************************************************************)
(* rules.py                                                                *)
(***************************************************************************)

Direction(v) == IF v > 0 THEN 1 ELSE IF v < 0 THEN -1 ELSE 0
Known(s) == {k \in DOMAIN s : s[k] # None}
Rising(s) == {k \in Known(s) : s[k] > 0}
Falling(s) == {k \in Known(s) : s[k] < 0}
Total(s) == SumOf([k \in Known(s) |-> s[k]])
Score(s) == Cardinality(Rising(s)) - Cardinality(Falling(s))
Both(a, b, d) == a # None /\ b # None /\ Direction(a) = d /\ Direction(b) = d

Rates(m) == <<IndexRates(m)["KOSPI"], IndexRates(m)["KOSDAQ"], IndexRates(m)["KOSPI200"],
              StockRates(m)["005930"], StockRates(m)["000660"]>>
Flows(m) == <<Spot(m, "foreigner"), Spot(m, "institution"), Program(m), FuturesForeign(m)>>
Components(m) == Rates(m) \o Flows(m)

\* The state a score stands for when n components are known.
StateOf(score, n) ==
    IF n < 3 THEN "insufficient_data"
    ELSE IF score >= 6 THEN "strong_bullish" ELSE IF score >= 2 THEN "bullish"
    ELSE IF score <= -6 THEN "strong_bearish" ELSE IF score <= -2 THEN "bearish"
    ELSE "neutral"

\* Its confidence: high needs eight components and no error.
ConfidenceOf(n, errors) ==
    IF n < 5 THEN "low" ELSE IF n >= 8 /\ errors = 0 THEN "high" ELSE "medium"

ScoreMarket(m) ==
    LET n == Cardinality(Known(Components(m))) IN
    [state |-> StateOf(Score(Components(m)), n), score |-> Score(Components(m)),
     confidence |-> ConfidenceOf(n, Errors(m))]

Signals(m) ==
    LET s == StockRates(m)["005930"]   h == StockRates(m)["000660"]
        kospi == IndexRates(m)["KOSPI"]   kosdaq == IndexRates(m)["KOSDAQ"]
        foreign == Spot(m, "foreigner")
        stocks == <<s, h>>
        flow == Score(<<foreign, Spot(m, "institution"), Program(m)>>)
        holds(signal) ==
            CASE signal = "caps up" -> Both(s, h, 1)
              [] signal = "caps down" -> Both(s, h, -1)
              [] signal = "index and caps agree" ->
                   /\ kospi # None /\ Known(stocks) # {}
                   /\ \A k \in Known(stocks) : Direction(stocks[k]) = Direction(kospi)
              [] signal = "foreigners buy both" -> Both(foreign, FuturesForeign(m), 1)
              [] signal = "foreigners sell both" -> Both(foreign, FuturesForeign(m), -1)
              [] signal = "program agrees" ->
                   /\ foreign # None /\ Program(m) # None
                   /\ Direction(foreign) = Direction(Program(m))
              [] signal = "indices differ" ->
                   kospi # None /\ kosdaq # None /\ Direction(kospi) * Direction(kosdaq) = -1
              [] signal = "flows up, index down" ->
                   kospi # None /\ Direction(kospi) < 0 /\ flow >= 2
              [] signal = "index up, flows down" ->
                   kospi # None /\ Direction(kospi) > 0 /\ flow <= -2
              [] signal = "few data" ->
                   Cardinality(Known(Rates(m) \o <<foreign, FuturesForeign(m), Program(m)>>)) < 5
    IN {signal \in {"caps up", "caps down", "index and caps agree", "foreigners buy both",
                    "foreigners sell both", "program agrees", "indices differ",
                    "flows up, index down", "index up, flows down", "few data"} : holds(signal)}

-----------------------------------------------------------------------------
(***************************************************************************)
(* quality.py: is a pre-market collection fit to be judged?  The first     *)
(* four collectors are stamped as they begin, the leadership as it ends.   *)
(***************************************************************************)

MaxSpan == 45

Phase(second) == IF second < 0 THEN "preopen" ELSE "opening_live"
Consistent(m) == Phase(m.began) = Phase(m.began + m.took) /\ m.took <= MaxSpan

\* Opening, high, low and volume are zero, and no rate says otherwise.
ZeroSnapshot(m) == m.zero /\ \A k \in 1 .. 5 : Rates(m)[k] \in {0, None}

\* The collector names no unit for the whole row, so flows that are all zero
\* cannot be told from missing ones.
FlowUsable(m) ==
    /\ \E i \in DOMAIN SpotFlows(m) : SpotFlows(m)[i] # None
    /\ \E i \in DOMAIN SpotFlows(m) : SpotFlows(m)[i] # 0

\* Mutant of Quality: a result is judged as soon as the indices are there.
QualityOfIndices(m) ==
    LET fit == Consistent(m) /\ \A i \in {"KOSPI", "KOSDAQ"} : IndexRates(m)[i] # None
    IN [status |-> IF ~fit THEN "incomplete" ELSE "completed", allowed |-> fit]

Quality(m) ==
    LET fit == /\ ~ZeroSnapshot(m) /\ Consistent(m)
               /\ \A i \in {"KOSPI", "KOSDAQ"} : IndexRates(m)[i] # None
               /\ \A c \in Caps : StockRates(m)[c] # None
    IN [status |-> IF ~fit THEN "incomplete"
                   ELSE IF Program(m) # None /\ FlowUsable(m) THEN "completed" ELSE "degraded",
        allowed |-> fit /\ FlowUsable(m)]

\* What a result keeps: a pre-market one that may not be judged says nothing.
Judgeable(m) == ~m.premarket \/ Quality(m).allowed
StoredState(m) == IF Judgeable(m) THEN ScoreMarket(m).state ELSE "insufficient_data"
StoredSignals(m) == IF Judgeable(m) THEN Signals(m) ELSE {}

-----------------------------------------------------------------------------
(***************************************************************************)
(* analysis.py and decision_guidance.py                                    *)
(***************************************************************************)

\* Without futures flows of foreigners the confidence falls by a step,
\* without those of institutions it is not high.
Lowered(confidence, m) ==
    LET seen == IF FuturesForeign(m) # None THEN confidence
                ELSE IF confidence = "high" THEN "medium" ELSE "low"
    IN IF FuturesInstitution(m) = None /\ seen = "high" THEN "medium" ELSE seen

Rounded(num, den) ==
    LET q == num \div den   r == 2 * (num % den) IN
    IF r > den \/ (r = den /\ q % 2 = 1) THEN q + 1 ELSE q
Between(lo, hi, v) == IF v < lo THEN lo ELSE IF v > hi THEN hi ELSE v

\* market_decision() of an open market.
MarketDecision(m) ==
    LET rates == Rates(m)   flows == Flows(m)
        n == Cardinality(Known(rates))
        noted == Errors(m) + m.warnings
        positive == Cardinality(Rising(rates))
        negative == Cardinality(Falling(rates))
        sum == Total(rates)
        foreign == Spot(m, "foreigner")
        conflicts == {c \in {"spot and futures", "weak flows", "weak index"} :
            \/ /\ c = "spot and futures" /\ foreign # None /\ FuturesForeign(m) # None
               /\ foreign * FuturesForeign(m) < 0
            \/ c = "weak flows" /\ sum > 0 /\ Known(flows) # {} /\ Total(flows) < 0
            \/ c = "weak index" /\ sum < 0 /\ Known(flows) # {} /\ Total(flows) > 0}
        agreeing == IF positive > negative THEN positive ELSE negative
        complete == n + Cardinality(Known(flows))
        confidence == Between(15, 95, Rounded(
            9 * n * (35 - 12 * Cardinality(conflicts) - 3 * noted)
              + 315 * agreeing + 25 * n * complete, 9 * n))
        state == IF sum <= -30 * n /\ negative = n THEN "capitulation"
                 ELSE IF sum <= -15 * n THEN "strong_decline"
                 ELSE IF sum < -3 * n THEN "weak_decline"
                 ELSE IF sum >= 15 * n /\ positive = n THEN "strong_uptrend"
                 ELSE IF sum >= 5 * n THEN "gradual_uptrend"
                 ELSE IF sum > 0 /\ negative > 0 THEN "mixed"
                 ELSE IF sum < 0 /\ positive > 0
                      THEN IF rates[Max(Known(rates))] > 0 THEN "technical_rebound" ELSE "mixed"
                 ELSE "directionless"
    IN IF n < 2
       THEN [state |-> "insufficient_data", risk |-> "high",
             confidence |-> IF 35 - 5 * noted > 10 THEN 35 - 5 * noted ELSE 10]
       ELSE [state |-> state, confidence |-> confidence,
             risk |-> IF state \in {"capitulation", "strong_decline"} THEN "high"
                      ELSE IF conflicts # {} \/ confidence < 60 THEN "medium" ELSE "low"]

\* compare_with_pre_market(): the rates that both results have, and the
\* signals that are new.  None stands for a file that could not be read.
Compared(m) == [KOSPI |-> IndexRates(m)["KOSPI"], samsung |-> StockRates(m)["005930"],
                hynix |-> StockRates(m)["000660"]]
CompareWithPreMarket(m, previous) ==
    IF previous = None THEN [available |-> FALSE, changes |-> {}, signals |-> {}]
    ELSE [available |-> TRUE,
          changes |-> {<<k, Compared(m)[k] - Compared(previous)[k]>> :
              k \in {k \in DOMAIN Compared(m) :
                       Compared(m)[k] # None /\ Compared(previous)[k] # None}},
          signals |-> Signals(m) \ StoredSignals(previous)]

Analyze(m, previous) ==
    [state |-> ScoreMarket(m).state, score |-> ScoreMarket(m).score,
     confidence |-> Lowered(ScoreMarket(m).confidence, m), signals |-> Signals(m),
     decision |-> MarketDecision(m), comparison |-> CompareWithPreMarket(m, previous)]

\* unavailable_analysis()
Unavailable == [state |-> "insufficient_data", score |-> None, confidence |-> "low",
                signals |-> {}, decision |-> None,
                comparison |-> [available |-> FALSE, changes |-> {}, signals |-> {}]]

\* What the pipeline makes of it: the pre-market briefing is judged only when
\* its quality allows it.
Briefing(m, previous) ==
    IF m.premarket
    THEN [status |-> Quality(m).status,
          analysis |-> IF Judgeable(m) THEN Analyze(m, previous) ELSE Unavailable]
    ELSE [status |-> IF Errors(m) > 0 THEN "completed_with_errors" ELSE "completed",
          analysis |-> Analyze(m, previous)]

-----------------------------------------------------------------------------
(***************************************************************************)
(* market_close.py: how the states of the day compare.                     *)
(***************************************************************************)

StateScore == [strong_bullish |-> 2, bullish |-> 1, neutral |-> 0,
               bearish |-> -1, strong_bearish |-> -2]

StateEvaluation(previous, current, premarket) ==
    IF previous \notin DOMAIN StateScore \/ current \notin DOMAIN StateScore THEN "no data"
    ELSE LET now == StateScore[current]   before == StateScore[previous]
             step == IF now > before THEN now - before ELSE before - now
             size(v) == IF v < 0 THEN -v ELSE v
         IN IF premarket
            THEN IF step = 0 THEN "hit" ELSE IF now * before < 0 THEN "turned"
                 ELSE IF step = 1 THEN "partly" ELSE "missed"
            ELSE IF step = 0 THEN "flat" ELSE IF now * before < 0 THEN "reversed"
                 ELSE IF size(now) > size(before) THEN "stronger" ELSE "weaker"

\* _changes(): a difference only where both results have the value.
Changes(current, previous) ==
    [k \in DOMAIN current \cup DOMAIN previous |->
       IF /\ k \in DOMAIN current /\ k \in DOMAIN previous
          /\ current[k] # None /\ previous[k] # None
       THEN current[k] - previous[k] ELSE None]

\* _load_same_day_result(): a file that is missing, or cannot be read, is none.
SameDayResult(file) == IF file = Bad THEN None ELSE file

\* evaluate_market_close(), with compare_market_close() for one earlier result.
CloseEvaluation(m, previous, premarket) ==
    IF previous = None THEN [available |-> FALSE, verdict |-> "no data", changes |-> <<>>]
    ELSE [available |-> TRUE,
          verdict |-> StateEvaluation(StoredState(previous), StoredState(m), premarket),
          changes |-> Changes(IndexRates(m), IndexRates(previous))]
=============================================================================
