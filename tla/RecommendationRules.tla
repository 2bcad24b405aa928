------------------------- MODULE RecommendationRules -------------------------
(***************************************************************************)
(* How stocks become recommendations: the universe, the daily bars and the *)
(* weeks made of them, the flows, the plan of requests, one run of the     *)
(* orchestrator, the score and the selection.  The operators are pure, as  *)
(* the code is.                                                            *)
(*                                                                         *)
(* Days are numbers: 7 of them make a week, 0 is a Monday.  Scores are     *)
(* whole, confidences are percent.  Left out: what three of the six parts  *)
(* of a score are computed from; they are inputs.                          *)
(***************************************************************************)
EXTENDS Integers, Sequences, FiniteSets, FiniteSetsExt, SequencesExt, RuleValues

Markets == <<"KOSPI", "KOSDAQ">>
MarketOrder == [KOSPI |-> 0, KOSDAQ |-> 1]

-----------------------------------------------------------------------------
(***************************************************************************)
(* The universe.  A master record is [code, market, type, trades, name];   *)
(* the answers it is made of are [code, market, labels, halted, name]; the *)
(* empty name is 0.                                                        *)
(***************************************************************************)

\* resolve_security_type(): the first label that excludes a stock decides.
Excluding == <<"etf", "etn", "reit", "spac", "preferred">>
SecurityType(labels) ==
    LET found == {k \in DOMAIN Excluding : Excluding[k] \in labels} IN
    IF found # {} THEN Excluding[Min(found)] ELSE IF "common" \in labels THEN "common_stock" ELSE "unknown"

\* KiwoomMasterDataSource.collect_market()
MasterRecord(a) ==
    [code |-> a.code, market |-> a.market, type |-> SecurityType(a.labels), trades |-> ~a.halted, name |-> a.name]

Listed(r) == r.market \in Range(Markets) /\ r.code # Bad /\ r.type = "common_stock" /\ r.trades

\* deterministic_parent_universe(): one record of each code, by market and code.
RecordKey(r) == <<MarketOrder[r.market], r.code, r.name>>
EarlierRecord(r, s) == Below(RecordKey(r), RecordKey(s))
FirstOfCode(records) ==
    {r \in records : ~\E s \in records : s.code = r.code /\ EarlierRecord(s, r)}
OneOfEach(records) == Ordered(FirstOfCode(records), EarlierRecord)

\* deterministic_universe()
Universe(records) == OneOfEach({r \in records : Listed(r)})

\* snapshot_payload(): the listed records with a name, which is no longer empty.
Snapshot(records) == OneOfEach({r \in records : r.name # 0 /\ Listed(r)})

\* load_universe_snapshot(): what a collection of the whole universe accepts.
Loads(rows) ==
    /\ \A r \in Range(rows) : r.name # 0
    /\ rows = OneOfEach({r \in Range(rows) : r.market \in Range(Markets) /\ r.code # Bad})

Upto(n, s) == SubSeq(s, 1, IF Len(s) < n THEN Len(s) ELSE n)
Of(market, s) == Ordered({r \in Range(s) : r.market = market}, EarlierRecord)

\* select_balanced_universe(): half of each market, and a short one is
\* filled up from the other.
BalancedUniverse(records, limit) ==
    LET halves == Upto((limit + 1) \div 2, Of("KOSPI", Universe(records)))
                    \o Upto(limit \div 2, Of("KOSDAQ", Universe(records)))
        others == Ordered(Range(Universe(records)) \ Range(halves), EarlierRecord)
    IN Upto(limit, halves \o Upto(limit - Len(halves), others))

-----------------------------------------------------------------------------
(***************************************************************************)
(* Bars.  A daily bar is [day, close, low, high, adjusted, read]: whether  *)
(* its prices are adjusted, and when it was read.                          *)
(***************************************************************************)

\* KiwoomDailyDataSource.collect(): a row without a date or a price is passed
\* over; text that is no number costs the whole answer.
Prices(r) == {r.close, r.low, r.high}
Dated(rows) == {k \in DOMAIN rows : rows[k].day # Bad}
Garbled(rows) == \E k \in Dated(rows) : Bad \in Prices(rows[k])
BarsOf(rows) == {k \in Dated(rows) : {None, Bad} \cap Prices(rows[k]) = {}}

Sound(bar) == bar.low >= 0 /\ bar.low <= bar.close /\ bar.close <= bar.high

\* normalize_daily_bars(): one sound bar of each day that has come, the one
\* read last; adjusted and other prices do not mix.
KnownBars(rows, now) == {k \in BarsOf(rows) : rows[k].day <= now.day}
Mixed(rows, now) == Cardinality({rows[k].adjusted : k \in KnownBars(rows, now)}) > 1
Later(rows, j, k) ==
    rows[j].day = rows[k].day
      /\ (rows[j].read > rows[k].read \/ (rows[j].read = rows[k].read /\ j > k))
Chosen(rows, now) ==
    LET sound == {k \in KnownBars(rows, now) : Sound(rows[k])}
    IN {k \in sound : ~\E j \in sound : Later(rows, j, k)}
DailyBars(rows, now) == {rows[k] : k \in Chosen(rows, now)}

\* The last week is over with its Friday, after the close of the market.
WeekOver(last, now) == last % 7 = 4 /\ (now.day > last \/ now.closed)

\* aggregate_weekly_bars(); no calendar names the last trading days.
WeekOf(bar) == bar.day \div 7
Week(bars, w, now) ==
    LET days == {b \in bars : WeekOf(b) = w}
        last == CHOOSE b \in days : \A c \in days : c.day <= b.day
    IN [end |-> last.day, close |-> last.close,
        low |-> Min({b.low : b \in days}), high |-> Max({b.high : b \in days}),
        complete |-> (\E b \in bars : WeekOf(b) > w) \/ WeekOver(last.day, now)]
Weeks(bars, now) == {Week(bars, WeekOf(b), now) : b \in bars}

\* Mutant of Ended: the candle of a running week counts.
EndedRunning(week, asOf) == week.end < asOf.day \/ (week.end = asOf.day /\ asOf.closed)

\* completed_weekly_signal(): the weeks whose end had come at asOf, at least
\* five; how long the close has been above the average of five.
Ended(week, asOf) == week.complete /\ (week.end < asOf.day \/ (week.end = asOf.day /\ asOf.closed))
WeeklySignal(weeks, asOf) ==
    LET done == Ordered({w \in weeks : Ended(w, asOf)}, LAMBDA v, w : v.end < w.end)
        n == Len(done)
        sum(k) == SumOf([j \in k - 4 .. k |-> done[j].close])
        above(k) == 5 * done[k].close > sum(k)
    IN IF n < 5 THEN None
       ELSE [above |-> above(n), rising |-> n > 5 /\ sum(n) > sum(n - 1),
             weeks |-> n - Max({4} \cup {k \in 5 .. n : ~above(k)}), end |-> done[n].end]

\* What a run makes of the rows of one stock.
SignalOf(rows, now) ==
    IF Garbled(rows) \/ Mixed(rows, now) THEN Fails
    ELSE WeeklySignal(Weeks(DailyBars(rows, now), now), now)

-----------------------------------------------------------------------------
(***************************************************************************)
(* Flows: KiwoomInvestorFlowDataSource and compute_fund_flow_score().  A   *)
(* row is [day, foreign, institution]; a field may be empty, None, or no   *)
(* number, which costs the whole answer.                                   *)
(***************************************************************************)

FirstOfDay(rows, target) ==
    {k \in {k \in DOMAIN rows : rows[k].day # Bad /\ rows[k].day <= target} :
        ~\E j \in 1 .. k - 1 : rows[j].day = rows[k].day}
FlowRows(rows, target) == {rows[k] : k \in FirstOfDay(rows, target)}

FlowStatus(n) == IF n = 0 THEN "data_unavailable" ELSE IF n >= 20 THEN "complete" ELSE "partial"
FlowOf(rows, target) ==
    LET read == FlowRows(rows, target)
        full == {r \in read : None \notin {r.foreign, r.institution}}
        order == Ordered(full, LAMBDA q, r : q.day < r.day)
        n == Len(order)
    IN IF \E r \in read : Bad \in {r.foreign, r.institution} THEN Fails
       ELSE [status |-> FlowStatus(n), confidence |-> IF full # read THEN 80 ELSE 100,
             joint |-> /\ n >= 5
                       /\ SumOf([k \in n - 4 .. n |-> order[k].foreign]) > 0
                       /\ SumOf([k \in n - 4 .. n |-> order[k].institution]) > 0]

-----------------------------------------------------------------------------
(***************************************************************************)
(* Requests.  A state is [code, kind, status, retries], a candidate        *)
(* [code, score, confidence, above, tradable, liquidity, value].           *)
(***************************************************************************)

FlowCandidate == [code : Nat, score : Int, confidence : Int, value : Int, above : BOOLEAN,
                  tradable : BOOLEAN, liquidity : Int \cup {None}]

CandidateKey(c) == <<-c.score, -c.confidence, -c.value, c.code>>
BetterCandidate(a, b) == Below(CandidateKey(a), CandidateKey(b))

\* select_flow_candidates()
FlowCandidates(candidates, limit) ==
    Upto(limit, Ordered(
        {c \in candidates : c.tradable /\ c.above /\ c.confidence >= 40
                              /\ (c.liquidity = None \/ c.liquidity > 0)}, BetterCandidate))

\* Of several states of one code and kind the first counts that is not fresh;
\* if all are, the first.
Told(states, code, kind) ==
    {k \in DOMAIN states : states[k].code = code /\ states[k].kind = kind}
StateFor(states, code, kind) ==
    LET told == Told(states, code, kind)
        due == {k \in told : states[k].status # "fresh"}
    IN states[Min(IF due = {} THEN told ELSE due)]

\* Mutant of Due: what has failed is asked for again by every plan.
DueAlways(status, mode) == status \in {"missing", "stale", "failed"}

Due(status, mode) == IF mode = "repair" THEN status = "failed" ELSE status \in {"missing", "stale"}

DueState(p, code, kind) ==
    LET s == StateFor(p.states, code, kind) IN Due(s.status, p.mode) /\ s.retries < p.retryLimit

\* The codes whose prices a plan asks for, and those of the best candidates
\* whose flows it asks for.
DailyCodes(p) ==
    {c \in {s.code : s \in Range(p.states)} :
        Told(p.states, c, "daily") # {} /\ DueState(p, c, "daily")}
FlowCodes(p) ==
    {c \in {k.code : k \in Range(FlowCandidates(p.candidates, p.limit))} :
        IF Told(p.states, c, "flow") = {} THEN Due("missing", p.mode) ELSE DueState(p, c, "flow")}

\* build_request_plan(): prices, then flows; the checkpoint drops what comes
\* first of both.
RequestPlan(p) ==
    LET daily == Ordered(DailyCodes(p), <)
        flow == Ordered(FlowCodes(p), <)
        network == [k \in DOMAIN daily |-> <<"daily", daily[k]>>]
                     \o [k \in DOMAIN flow |-> <<"flow", flow[k]>>]
    IN [master |-> IF p.codes # {} THEN p.codes ELSE {s.code : s \in Range(p.states)},
        network |-> SubSeq(network, p.checkpoint + 1, Len(network))]

\* RecommendationCollectionOrchestrator.run(): o.daily and o.flow answer for
\* each code, Fails or a value; the cache fails for the codes of o.unsaved
\* (after their bars were kept) and o.unsavedFlow.
MastersOf(o) ==
    {r.code : r \in Range(Upto(o.max, Ordered(
        {r \in o.records : Listed(r)}, LAMBDA r, s : r.code < s.code)))}
WithBars(o) == {c \in MastersOf(o) : o.daily[c] # Fails}
PlanOf(o) ==
    LET order == Ordered(MastersOf(o), <)
        status == IF o.mode = "repair" THEN "failed" ELSE "missing"
        of(kind) == [k \in DOMAIN order |->
                       [code |-> order[k], kind |-> kind, status |-> status, retries |-> 0]]
    IN [states |-> of("daily") \o of("flow"), mode |-> o.mode, codes |-> MastersOf(o),
        retryLimit |-> 2, limit |-> o.limit, checkpoint |-> 0,
        candidates |-> {o.daily[c] : c \in {c \in WithBars(o) \ o.unsaved : o.daily[c].above}}]
Orchestrate(o) ==
    LET asked == {r[2] : r \in {r \in Range(RequestPlan(PlanOf(o)).network) : r[1] = "flow"}}
        unread == (MastersOf(o) \ WithBars(o)) \cup (MastersOf(o) \cap o.unsaved)
    IN [bundles |-> WithBars(o), flows |-> {c \in asked : o.flow[c] # Fails}, asked |-> asked,
        failures |-> {<<"daily", c>> : c \in unread}
                       \cup {<<"flow", c>> : c \in {c \in asked : o.flow[c] = Fails \/ c \in o.unsavedFlow}}]

-----------------------------------------------------------------------------
(***************************************************************************)
(* Scores and selection.  A stock is [code, listed, hard, bars, signal,    *)
(* parts, verified, risks, value, recent, surge, odd, flow, prices,        *)
(* reasons]: value and recent are what was traded on average in 20 days    *)
(* and in 5.                                                               *)
(***************************************************************************)

Within(lo, hi, v) == IF v < lo THEN lo ELSE IF v > hi THEN hi ELSE v

\* evaluate_preliminary_candidate(): a stock that may be traded, with bars
\* and a close above the average of five finished weeks.
Passed(c) ==
    /\ c.listed /\ ~c.hard /\ c.bars >= 120
    /\ c.signal # None /\ c.signal.above
Fund(c) == IF c.flow = None THEN 0 ELSE Within(0, 25, c.flow.score)

\* _liquidity_score()
Liquidity(c) ==
    (IF c.value < 100 THEN 0 ELSE IF c.value < 500 THEN 1 ELSE IF c.value < 2000 THEN 2
     ELSE IF c.value < 10000 THEN 3 ELSE 4)
      + (IF c.value > 0 /\ 4 * c.recent >= 5 * c.value THEN 1 ELSE 0)

Catalyst(c) == IF c.verified THEN Within(0, 15, c.parts.catalyst) ELSE 0
Penalty(c) ==
    c.risks + (IF c.value < 100 THEN 5 ELSE 0) + (IF c.surge THEN 5 ELSE 0)
      + (IF c.bars < 120 THEN 5 ELSE 0) + (IF c.odd THEN 10 ELSE 0)
TotalScore(c) ==
    Within(0, 100, c.parts.weekly + c.parts.bottom + Fund(c) + c.parts.daily + Liquidity(c)
                     + Catalyst(c) - Penalty(c))

EvaluationStatus(c) ==
    IF c.flow # None /\ c.flow.status = "complete" /\ c.bars >= 260 /\ c.verified
    THEN "complete" ELSE "partial"

\* to_recommendation_features(): the least confidence of the sources.
Confidence(c) == Min({100, c.prices, IF c.flow = None THEN 70 ELSE c.flow.confidence})

StockKey(c) == <<-TotalScore(c), -Fund(c), -c.parts.bottom, -c.value, -Confidence(c),
                 Within(0, 100, Penalty(c)), c.code>>
BetterStock(a, b) == Below(StockKey(a), StockKey(b))

Convincing(c, policy) ==
    /\ TotalScore(c) >= policy.strong /\ Confidence(c) >= 70
    /\ Within(0, 100, Penalty(c)) < 15
    /\ EvaluationStatus(c) = "complete" /\ c.reasons >= 2
    /\ c.signal.weeks >= 1 \/ c.signal.rising
Promising(c, policy) ==
    /\ TotalScore(c) >= policy.review
    /\ Max({c.parts.bottom, Fund(c), c.parts.daily, Liquidity(c)}) > 0

\* Mutant of Recommendations: the review list has room of its own.
RecommendationsApart(stocks, policy) ==
    LET passed == {c \in stocks : Passed(c)}
        strong == Upto(policy.strongLimit, Ordered({c \in passed : Convincing(c, policy)}, BetterStock))
        review == Upto(policy.reviewLimit, Ordered(
                    {c \in passed \ Range(strong) : Promising(c, policy)}, BetterStock))
    IN [strong |-> strong, review |-> review,
        ranked |-> Ordered(Range(strong) \cup Range(review), BetterStock)]

\* select_integrated_recommendations()
Recommendations(stocks, policy) ==
    LET passed == {c \in stocks : Passed(c)}
        strong == Upto(policy.strongLimit, Ordered({c \in passed : Convincing(c, policy)}, BetterStock))
        review == Upto(Min({policy.reviewLimit, policy.totalLimit - Len(strong)}), Ordered(
                    {c \in passed \ Range(strong) : Promising(c, policy)}, BetterStock))
    IN [strong |-> strong, review |-> review,
        ranked |-> Ordered(Range(strong) \cup Range(review), BetterStock)]
=============================================================================
