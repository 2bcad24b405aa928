----------------------------- MODULE MCRuleCases -----------------------------
(***************************************************************************)
(* The cases: every answer of every source that the rules tell apart, in   *)
(* combinations; two accounts; six weeks and a current one; up to nine     *)
(* stocks for three places.                                                *)
(***************************************************************************)
EXTENDS RuleCases

Round(k, q, p, s, h, spot, f, g, w) ==
    [index |-> [KOSPI |-> k, KOSDAQ |-> q, KOSPI200 |-> p],
     cap |-> [c \in Caps |-> IF c = "005930" THEN s ELSE h],
     spot |-> spot, contract |-> f # None, futures |-> IF f = None THEN Fails ELSE f, program |-> g,
     premarket |-> w # "later", others |-> IF q = -8 THEN 1 ELSE 0, warnings |-> 0, zero |-> w = "early",
     began |-> IF w = "across" THEN -10 ELSE 60, took |-> 20]

Flow(a, b) == [individual |-> 0, foreigner |-> a, institution |-> b]

MCMarketCases ==
    {Round(k, q, p, s, h, spot, f, g, w) :
        k \in {Fails, 8, -32}, q \in {Fails, 8, -8}, p \in {Bad, 8}, s \in {Fails, 9}, h \in {Bad, 9, -9},
        spot \in {Fails, Flow(7, 7), Flow(-7, 0), Flow(Bad, -7)}, f \in {None, Fails, 5, -5},
        g \in {Fails, 4}, w \in {"later", "live", "across"}}
      \cup {Round(k, 0, 0, s, 0, Flow(0, 0), None, 4, "early") : k \in {0, 8, Fails}, s \in {0, Bad}}

MCCloseCases ==
    LET some == {Round(k, q, 8, 9, h, Flow(f, 7), f, 4, "later") :
                    k \in {Fails, 8, -8}, q \in {Fails, -8}, h \in {Fails, -9}, f \in {7, -7}}
                \cup {Round(-8, -8, -8, -9, h, Flow(-7, f), -5, -4, "later") : h \in {Bad, -9}, f \in {7, -7}}
                \cup {Round(Fails, Fails, Bad, Fails, 3, Fails, None, Fails, "later")}
        early == {Round(k, q, 8, 9, 9, Flow(f, 7), 5, 4, w) :
                    k \in {Fails, 8}, q \in {8, -8}, f \in {7, -7}, w \in {"live", "across"}}
    IN [now : some, before : some \cup {None, Bad}, premarket : BOOLEAN]
         \cup [now : some, before : early, premarket : {TRUE}]

Row(q, i, p) == [quantity |-> q, invested |-> i, price |-> p]
Line(c, q, a) == [code |-> c, quantity |-> q, average |-> a]
MCHoldingCases ==
    LET rows == {Row(2, 200, 100), Row(3, 330, None), Row(0, 0, 100)}
        account == UNION {[S -> rows] : S \in SUBSET Stocks} \cup {Fails}
    IN {[accounts |-> a, file |-> f, quotes |-> q] :
          a \in {None, Fails} \cup {<<x>> : x \in account} \cup {<<x, y>> : x \in account, y \in account},
          f \in {<<>>, <<Line(1, 2, 90), Line(1, 3, 80), Line(2, 1, 50)>>, <<Line(1, 0, 90), Line(2, 4, 70)>>},
          q \in {[c \in Stocks |-> 100], [c \in Stocks |-> IF c = 1 THEN Fails ELSE None]}}

MCAdviceCases ==
    {[price |-> p, ma5 |-> a, ma20 |-> b, ma60 |-> c, low |-> 90, closes |-> s, stop |-> x,
      profit |-> g, volume |-> v, leader |-> l, bars |-> TRUE, market |-> "strong_decline"] :
        p \in {88, 96, 103, 108}, a \in {98, 104}, b \in {97, 102, 106}, c \in {None, 96, 107},
        s \in {<<100, 99, 98>>, <<98, 99, 100>>, <<99, 98, 99>>}, x \in {None, 96},
        g \in {-1, 0, 1}, v \in BOOLEAN, l \in BOOLEAN}
      \cup {[price |-> p, ma5 |-> None, ma20 |-> None, ma60 |-> None, low |-> None, closes |-> <<1, 1, 1>>,
             stop |-> x, profit |-> 0, volume |-> FALSE, leader |-> FALSE, bars |-> b, market |-> "mixed"] :
               p \in {88, 103}, x \in {None, 96}, b \in BOOLEAN}

MCLeaderCases ==
    {[ranks |-> r, limit |-> 2, market |-> m,
      stocks |-> [c \in 1 .. 4 |-> IF c = b THEN Bad ELSE [rate |-> s[c], open |-> o, high |-> h]]] :
        r \in [1 .. 3 -> {Fails, <<1, 2>>, <<2, 4, 3>>}], m \in {None, 5},
        s \in [1 .. 4 -> {-2, 4, 12}], o \in {None, 3}, h \in {-8, -1}, b \in {0, 2}}

Bar(d, c, r) == [day |-> d, close |-> c, low |-> 9, high |-> 13, adjusted |-> TRUE, read |-> r]
MCWeekCases ==
    LET past(s) == [k \in 1 .. 6 |-> Bar(7 * k - 3, s[k], 1)]
        current == {<<>>, <<Bar(45, 12, 1)>>, <<Bar(45, 12, 1), Bar(46, 10, 1)>>,
                    <<Bar(46, 10, 2), Bar(46, 12, 1), Bar(50, 10, 2)>>,
                    <<Bar(46, None, 1), Bar(46, 12, 1), Bar(Bad, Bad, 1)>>, <<Bar(46, 12, 1), Bar(45, Bad, 1)>>,
                 <<Bar(46, 8, 1), [Bar(50, 12, 1) EXCEPT !.adjusted = FALSE]>>}
    IN {[bars |-> past(s) \o c, now |-> [day |-> d, closed |-> z]] :
          s \in [1 .. 6 -> {10, 12}], c \in current, d \in {45, 46, 49, 50}, z \in BOOLEAN}

MCFlowCases ==
    {[target |-> 10, rows |-> [k \in 1 .. 6 |-> [day |-> d[k], foreign |-> f[k], institution |-> i]]] :
        d \in {<<4, 5, 6, 7, 8, 9>>, <<9, 8, 7, 6, 11, Bad>>, <<4, 5, 6, 7, 8, 8>>},
        f \in [1 .. 6 -> {3, -2, None}], i \in {2, None}}
      \cup {[target |-> 10, rows |-> [k \in 1 .. 6 |-> [day |-> k + d, foreign |-> IF k = b THEN Bad ELSE 3, institution |-> 2]]] :
               d \in {0, 5}, b \in 0 .. 6}

Candidate(c, s, a) == [code |-> c, score |-> s, confidence |-> 90, above |-> a, tradable |-> TRUE,
                       liquidity |-> 1, value |-> s]
MCPlanCases ==
    LET state == [code : 1 .. 2, kind : {"daily", "flow"}, status : {"fresh", "missing", "failed"}, retries : {0, 2}]
    IN {[states |-> s, candidates |-> c, mode |-> m, checkpoint |-> n, codes |-> {}, retryLimit |-> 2, limit |-> 2] :
          s \in {<<x, y>> : x \in state, y \in state},
          c \in {{}, {Candidate(1, 5, TRUE), Candidate(2, 7, TRUE), Candidate(3, 6, TRUE)}},
          m \in {"bootstrap", "daily_incremental", "repair"}, n \in 0 .. 1}

Record(c, m, t) == [code |-> c, market |-> m, type |-> t, trades |-> TRUE, name |-> c]
MCRunCases ==
    [records : SUBSET {Record(1, "KOSPI", "common_stock"), Record(2, "KOSDAQ", "common_stock"),
                       Record(3, "KOSPI", "etf")},
     daily : {f \in [1 .. 3 -> {Fails} \cup {Candidate(c, 5 + c, a) : c \in 1 .. 3, a \in BOOLEAN}] :
                \A c \in 1 .. 3 : f[c] = Fails \/ f[c].code = c},
     flow : {[c \in 1 .. 3 |-> 1], [c \in 1 .. 3 |-> IF c = 1 THEN Fails ELSE 1]},
     unsaved : {{}, {1}}, unsavedFlow : {{}, {2}}, mode : {"bootstrap", "repair"}, limit : 1 .. 2, max : {1, 9}]

Stock(c, total, flow, verified) ==
    [code |-> c, listed |-> TRUE, hard |-> FALSE, bars |-> 260, verified |-> verified, risks |-> 0,
     signal |-> [above |-> TRUE, weeks |-> 1, rising |-> TRUE, end |-> 4],
     parts |-> [weekly |-> total, bottom |-> 1, daily |-> 1, catalyst |-> 10],
     value |-> 1000, recent |-> 1000, surge |-> FALSE, odd |-> FALSE, prices |-> 95, reasons |-> 2,
     flow |-> IF flow = 0 THEN None
              ELSE [status |-> IF flow > 5 THEN "complete" ELSE "partial", score |-> flow, confidence |-> 100]]
Pool == {Stock(1, 60, 20, TRUE), Stock(2, 60, 20, TRUE), Stock(3, 70, 0, TRUE), Stock(4, 50, 4, FALSE),
         [Stock(5, 52, 4, TRUE) EXCEPT !.recent = 1250], [Stock(6, 90, 25, TRUE) EXCEPT !.hard = TRUE, !.value = 20000],
         [Stock(7, 80, 20, TRUE) EXCEPT !.signal.above = FALSE],
         [Stock(8, 80, 20, TRUE) EXCEPT !.surge = TRUE, !.odd = TRUE, !.value = 50],
         [Stock(9, 45, 6, TRUE) EXCEPT !.signal.weeks = 0, !.signal.rising = FALSE]}
MCStockCases == SUBSET Pool
Answer(c, m, l, h, n) == [code |-> c, market |-> m, labels |-> l, halted |-> h, name |-> n]
MCUniverseCases ==
    [answers : SUBSET {Answer(1, "KOSPI", {"common"}, FALSE, 1), Answer(2, "KOSPI", {"common"}, FALSE, 2),
                       Answer(3, "KOSPI", {"common"}, FALSE, 0), Answer(4, "KOSDAQ", {"common"}, FALSE, 4),
                       Answer(2, "KOSDAQ", {"common"}, FALSE, 7), Answer(5, "KOSDAQ", {"common"}, TRUE, 5),
                       Answer(6, "KOSPI", {"common", "spac"}, FALSE, 6), Answer(7, "KOSPI", {}, FALSE, 7),
                       Answer(Bad, "KOSDAQ", {"common"}, FALSE, 8)},
     limit : 1 .. 4]

MCPolicy == [strong |-> 72, review |-> 52, strongLimit |-> 2, reviewLimit |-> 2, totalLimit |-> 3]
MCStocks == 1 .. 2
=============================================================================
