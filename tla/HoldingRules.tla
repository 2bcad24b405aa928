---------------------------- MODULE HoldingRules ----------------------------
(***************************************************************************)
(* What a briefing says of the stocks: the positions it finds in the       *)
(* accounts or in the file of the user, what it advises for each, and the  *)
(* leading stocks of a market.  The operators are pure, as the code is.    *)
(*                                                                         *)
(* Codes are numbers, prices are whole amounts near 100, a score is a      *)
(* hundredth of the code's.  Left out: names and texts, RSI and MACD,      *)
(* which only add reasons to a position, and the rebound candidates.       *)
(***************************************************************************)
EXTENDS Integers, Sequences, FiniteSets, FiniteSetsExt, SequencesExt, RuleValues

CONSTANTS
    Stocks,        \* codes of stocks
    MaxCandidates  \* how many stocks of a market are looked at, 30 in the code

ASSUME StocksAssumption == Stocks \subseteq Nat

-----------------------------------------------------------------------------
(***************************************************************************)
(* Positions.  h.accounts is None without an account source, Fails when    *)
(* the list of accounts cannot be read, or one answer for each account:    *)
(* Fails, or the rows of the stocks it holds.  h.file is the manual file,  *)
(* h.quotes what the server answers for the stocks in it.                  *)
(***************************************************************************)

\* _load_accounts(): an account that fails is named in the errors.
Answered(h) == IF h.accounts \in {None, Fails} THEN <<>> ELSE h.accounts
Completed(h) == {a \in DOMAIN Answered(h) : Answered(h)[a] # Fails}
AccountErrors(h) ==
    IF h.accounts = Fails THEN {<<"accounts", 0>>}
    ELSE {<<"account", a>> : a \in {a \in DOMAIN Answered(h) : Answered(h)[a] = Fails}}

\* The accounts count as soon as one of them could be read.
FromAccounts(h) == Completed(h) # {}

Holders(h, c) == {a \in Completed(h) : c \in DOMAIN Answered(h)[a]}

\* Mutant of Consolidated: a stock is taken from the first account only.
ConsolidatedFirst(h) ==
    [c \in {c \in Stocks : Holders(h, c) # {}} |-> Answered(h)[Min(Holders(h, c))][c]]

\* consolidate(): amounts are added up, the price is that of the first
\* account that holds the stock.
Consolidated(h) ==
    [c \in {c \in Stocks : Holders(h, c) # {}} |->
       [quantity |-> SumOf([a \in Holders(h, c) |-> Answered(h)[a][c].quantity]),
        invested |-> SumOf([a \in Holders(h, c) |-> Answered(h)[a][c].invested]),
        price |-> Answered(h)[Min(Holders(h, c))][c].price]]

\* load_holdings(): rows with a quantity and an average price, the first of
\* each code; every other row is an error.
Accepted(h) ==
    {r \in DOMAIN h.file :
        /\ h.file[r].quantity > 0 /\ h.file[r].average > 0
        /\ ~\E q \in 1 .. r - 1 : /\ h.file[q].code = h.file[r].code
                                  /\ h.file[q].quantity > 0 /\ h.file[q].average > 0}
FileErrors(h) == {<<"row", r>> : r \in DOMAIN h.file \ Accepted(h)}

\* _analyze_one(): without a price, or with an average that does not exist,
\* the position is an error of its own.
AccountPositions(h) ==
    {[code |-> c, quantity |-> Consolidated(h)[c].quantity, invested |-> Consolidated(h)[c].invested] :
        c \in {c \in DOMAIN Consolidated(h) :
                 /\ Consolidated(h)[c].price # None
                 /\ Consolidated(h)[c].quantity # 0 /\ Consolidated(h)[c].invested # 0}}
FilePositions(h) ==
    {[code |-> h.file[r].code, quantity |-> h.file[r].quantity,
      invested |-> h.file[r].quantity * h.file[r].average] :
        r \in {r \in Accepted(h) : h.quotes[h.file[r].code] \notin {None, Fails}}}

\* HoldingsCollector.collect()
Positions(h) ==
    LET found == IF FromAccounts(h) THEN AccountPositions(h) ELSE FilePositions(h)
        named == IF FromAccounts(h) THEN DOMAIN Consolidated(h)
                 ELSE {h.file[r].code : r \in Accepted(h)}
    IN [source |-> IF FromAccounts(h) THEN "kiwoom_accounts"
                   ELSE IF Accepted(h) # {} THEN "manual_fallback" ELSE "none",
        found |-> found,
        missing |-> named \ {p.code : p \in found},
        unread |-> AccountErrors(h) \cup (IF FromAccounts(h) THEN {} ELSE FileErrors(h))]

-----------------------------------------------------------------------------
(***************************************************************************)
(* Advice.  t is the technical state of one position: its price, the       *)
(* moving averages, the low of 20 days and the last three closes, as far   *)
(* as there are bars; the stop of the user, the sign of the profit.        *)
(***************************************************************************)

TrendState(t) ==
    IF None \in {t.ma5, t.ma20, t.ma60} THEN "insufficient_data"
    ELSE IF t.price > t.ma5 /\ t.ma5 > t.ma20 /\ t.ma20 > t.ma60 THEN "strong_uptrend"
    ELSE IF t.price > t.ma20 /\ t.ma5 >= t.ma20 THEN "uptrend"
    ELSE IF t.price < t.ma5 /\ t.ma5 < t.ma20 /\ t.ma20 < t.ma60 THEN "strong_downtrend"
    ELSE IF t.price < t.ma20 /\ t.ma5 <= t.ma20 THEN "downtrend"
    ELSE "sideways"

\* The rebound from the low is compared in percent.
BottomState(t) ==
    LET rose == t.closes[3] > t.closes[2]
        rebound(p) == 100 * t.price >= (100 + p) * t.low
    IN IF None \in {t.low, t.ma20} THEN "insufficient_data"
       ELSE IF t.price < t.low THEN "failed"
       ELSE IF rose /\ t.closes[2] > t.closes[1] /\ t.price >= t.ma20 /\ rebound(5) THEN "confirmed"
       ELSE IF rose /\ rebound(3) THEN "partially_confirmed"
       ELSE IF rose THEN "attempting_bottom"
       ELSE "not_confirmed"

Breached(t) == t.stop # None /\ t.price <= t.stop

ReviewState(t) ==
    LET above == t.ma20 # None /\ t.price > t.ma20 IN
    IF Breached(t) \/ BottomState(t) = "failed" THEN "exit_review"
    ELSE IF TrendState(t) = "strong_downtrend"
         THEN IF t.profit < 0 THEN "averaging_down_high_risk" ELSE "reduce_risk"
    ELSE IF TrendState(t) = "downtrend" THEN "wait"
    ELSE IF t.profit < 0 /\ BottomState(t) \in {"partially_confirmed", "confirmed"} /\ above
         THEN IF t.volume THEN "hold_and_monitor" ELSE "additional_data_required"
    ELSE IF t.profit > 0 /\ TrendState(t) \in {"uptrend", "strong_uptrend"} /\ above
              /\ t.volume /\ t.leader
         THEN "add_on_strength_candidate"
    ELSE "no_action"

\* holding_decision(): the action and the confidence.  The bars that could not
\* be read are a warning, a strong decline of the market against an upward
\* trend is a conflict.
ActionFor(review, trend, bottom) ==
    IF trend = "insufficient_data" THEN "insufficient_data"
    ELSE IF review = "exit_review" \/ bottom = "failed" THEN "exit_condition_check"
    ELSE IF review = "averaging_down_high_risk" \/ trend = "strong_downtrend" THEN "do_not_add"
    ELSE IF review \in {"reduce_risk", "reduce_position_review"} THEN "reduce_risk"
    ELSE IF review = "averaging_down_candidate" THEN "conditional_add_review"
    ELSE IF review \in {"add_on_strength_candidate", "adding_to_winner_candidate"}
         THEN "protect_profit"
    ELSE "hold_and_monitor"
HoldingConfidence(t, market) ==
    LET conflict == TrendState(t) \in {"uptrend", "strong_uptrend"}
                      /\ market \in {"strong_decline", "capitulation"}
        raw == 75 - (IF conflict THEN 15 ELSE 0)
                 + (IF BottomState(t) \in {"confirmed", "partially_confirmed"} THEN 8 ELSE 0)
    IN IF TrendState(t) = "insufficient_data" THEN 20 ELSE raw

Priority == [exit_condition_check |-> 1, reduce_risk |-> 2, do_not_add |-> 3,
             conditional_add_review |-> 5, protect_profit |-> 6, hold_and_monitor |-> 7,
             insufficient_data |-> 8]

\* apply_technical(), or what is left when the daily bars cannot be read, and
\* holding_decision() with the decision for the market.
Advice(t, market) ==
    LET action == IF t.bars THEN ActionFor(ReviewState(t), TrendState(t), BottomState(t))
                  ELSE "insufficient_data"
    IN [action |-> action, priority |-> Priority[action],
        review |-> IF t.bars THEN ReviewState(t) ELSE "insufficient_data",
        confidence |-> IF t.bars THEN HoldingConfidence(t, market) ELSE 20]

-----------------------------------------------------------------------------
(***************************************************************************)
(* Leaders.  l.ranks are the answers of the three ranking requests of a    *)
(* market, in the order of the code: Fails or a sequence of codes.  The    *)
(* third one ranks by traded value.  l.stocks has the fields of each       *)
(* stock, in percent, or Bad when its row holds text that is no number;    *)
(* without daily bars the opening and the high lack.                       *)
(***************************************************************************)

RankingOf(l, k) == IF l.ranks[k] = Fails THEN <<>> ELSE l.ranks[k]

\* merge_rankings(): the stocks in the order in which they are first named.
Merged(l) == RankingOf(l, 1) \o RankingOf(l, 2) \o RankingOf(l, 3)

\* Only the first of them are looked at; one that cannot be parsed is skipped,
\* but has taken its place among them.
Candidates(l) ==
    LET first == {r \in DOMAIN Merged(l) :
                    Cardinality({Merged(l)[q] : q \in 1 .. r}) <= MaxCandidates}
    IN {c \in {Merged(l)[r] : r \in first} : l.stocks[c] # Bad}

ValueRank(l, c) ==
    IF c \in Range(RankingOf(l, 3)) THEN CHOOSE r \in DOMAIN RankingOf(l, 3) : RankingOf(l, 3)[r] = c
    ELSE None

Clip(lo, hi, v) == IF v < lo THEN lo ELSE IF v > hi THEN hi ELSE v
Farther(s) == s.high # None /\ s.high < -5

\* score_leader(): rate and ranking, the way from the opening and the high,
\* and the strength relative to the market; each warning costs half a point.
LeaderScore(l, c, market) ==
    LET s == l.stocks[c]   r == ValueRank(l, c)
        warnings == Cardinality({w \in 1 .. 2 : IF w = 1 THEN r = None ELSE Farther(s)})
    IN 30 * Clip(-5, 15, s.rate)
         + (IF r = None THEN 0 ELSE Clip(0, 400, 400 - 15 * (r - 1)))
         + (IF s.open = None THEN 0 ELSE Clip(-200, 200, 30 * s.open))
         + (IF s.high = None THEN 0 ELSE IF Farther(s) THEN -200 ELSE 100)
         + (IF market = None THEN 0 ELSE Clip(-200, 200, 25 * (s.rate - market)))
         - 50 * warnings

\* The order of leaders: score, traded value, code.
LeaderKey(l, market, c) ==
    <<-LeaderScore(l, c, market), IF ValueRank(l, c) = None THEN 9999 ELSE ValueRank(l, c), c>>
Before(l, market, a, b) == Below(LeaderKey(l, market, a), LeaderKey(l, market, b))
Sorted(l, market, S) == Ordered(S, LAMBDA a, b : Before(l, market, a, b))
First(n, s) == SubSeq(s, 1, IF Len(s) < n THEN Len(s) ELSE n)

\* KiwoomLeadershipCollector.collect(): of the stocks it looks at, the best n
\* that rise and score three points.  The rate of the market is not known to it.
Selected(l, n) ==
    First(n, Sorted(l, None, {c \in Candidates(l) :
                                LeaderScore(l, c, None) >= 300 /\ l.stocks[c].rate > 0}))

\* build_leadership_output(): scored again with the rate of the market.
Leaders(l, n, market) == Sorted(l, market, Range(Selected(l, n)))
=============================================================================
