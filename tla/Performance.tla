----------------------------- MODULE Performance -----------------------------
(***************************************************************************)
(* PerformanceEngine (app/analytics/performance.py): the metrics over the  *)
(* closed trades, all in one and per strategy.  Every trade is for one     *)
(* unit, so its volume is its prices.  Money is in ticks, Cent to the cent. *)
(***************************************************************************)
EXTENDS Stats

CONSTANT Cent

ASSUME CentAssumption == Cent \in Nat \ {0}

Nets(trades) == [k \in DOMAIN trades |-> trades[k].net]
TotalNet(trades) == SumOf(Nets(trades))

\* PerformanceEngine.compute, the metrics of the trades alone.
Compute(trades) ==
  LET wins == SelectSeq(Nets(trades), LAMBDA x : x > 0)
      losses == SelectSeq(Nets(trades), LAMBDA x : x < 0)
  IN  [count |-> Len(trades), wins |-> Len(wins), losses |-> Len(losses),
       net |-> TotalNet(trades),
       grossProfit |-> SumOf(wins), grossLoss |-> - SumOf(losses),
       fees |-> SumOf([k \in DOMAIN trades |-> trades[k].fees]),
       volume |-> SumOf([k \in DOMAIN trades |-> trades[k].entry + trades[k].exit]),
       bestStreak |-> MaxStreak(Nets(trades), TRUE),
       worstStreak |-> MaxStreak(Nets(trades), FALSE)]

\* _d: to the cent, half to even.
Cents(x) ==
  LET down == x \div Cent
      rest == x % Cent
  IN  IF 2 * rest < Cent \/ (2 * rest = Cent /\ down % 2 = 0) THEN down ELSE down + 1

Ranking(trades, s) ==
  LET group == SelectSeq(trades, LAMBDA t : t.strategy = s)
  IN  [strategy |-> s, count |-> Len(group), net |-> Cents(TotalNet(group)),
       wins |-> Len(SelectSeq(Nets(group), LAMBDA x : x > 0)),
       volume |-> SumOf([k \in DOMAIN group |-> group[k].entry])]

\* Mutant of StrategyRankings: ranked by the number of trades.
RankedByCount(trades) ==
  SetToSortSeq({Ranking(trades, s) : s \in {trades[k].strategy : k \in DOMAIN trades}},
               LAMBDA a, b : a.count > b.count)

\* strategy_rankings: one row per strategy, the largest net first, as rounded.
StrategyRankings(trades) ==
  SetToSortSeq({Ranking(trades, s) : s \in {trades[k].strategy : k \in DOMAIN trades}},
               LAMBDA a, b : a.net > b.net)
=============================================================================
