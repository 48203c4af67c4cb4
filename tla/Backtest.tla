------------------------------ MODULE Backtest ------------------------------
(***************************************************************************)
(* BacktestEngine.run (app/backtesting/engine.py): one step per candle,    *)
(* the forced close, and compute_metrics (metrics.py) over what the run    *)
(* leaves.                                                                 *)
(*                                                                         *)
(* Rates are fractions of Unit, a fill price is in ticks / Unit and money  *)
(* in ticks / Unit^2, so every amount is an exact integer; quantities      *)
(* count the quantum the code rounds to.  Half spread and slippage are one *)
(* rate.  Sharpe, Sortino and CAGR (roots of averages) are left out.       *)
(***************************************************************************)
EXTENDS Strategies

CONSTANTS
  Candidates,   \* the strategies to test
  Bars,         \* what a candle may be: high, low, close, volume
  MaxBars,      \* bound: candles of a run
  InitialCash,  \* in ticks
  Unit,         \* what the rates below are fractions of
  SizeRate,     \* position_size_fraction
  ImpactRate,   \* spread_rate / 2 + slippage_rate
  FeeRate

ASSUME BacktestAssumption ==
  /\ Candidates \subseteq Registry
  /\ {MaxBars, InitialCash, SizeRate, ImpactRate, FeeRate} \subseteq Nat
  /\ Unit \in Nat \ {0}

\* A Candle refuses prices that are not positive and a negative volume.
ASSUME BarsAssumption == Bars \subseteq [high : Nat, low : Nat, close : Nat, volume : Nat]

\* A sale pays: what it costs is a fraction of the price.  The code does not check it;
\* BacktestConfig's defaults, which the application keeps, are 0.1% and below.
ASSUME CostsAssumption == ImpactRate <= Unit /\ FeeRate <= Unit

StartCash == Unit * Unit * InitialCash

VARIABLES
  strategy,
  candles,  \* the window: candles[: i + 1]
  account,  \* cash, position, held (bars_held) and trades
  curve,    \* equity_curve, the values
  report    \* the metrics, once the run is over

vars == <<strategy, candles, account, curve, report>>

---------------------------------------------------------------------------
(* Fills *)

\* _apply_costs.
Fill(price, side) ==
  LET p == price * (IF side = "buy" THEN Unit + ImpactRate ELSE Unit - ImpactRate)
  IN  [price |-> p, fee |-> p * FeeRate]

\* quantize: to the nearest, ties to even.
RoundHalfEven(a, b) ==
  LET q == a \div b
      r == a % b
  IN  IF 2 * r > b \/ (2 * r = b /\ q % 2 = 1) THEN q + 1 ELSE q

\* _size_position.
SizePosition(cash, price) ==
  IF price <= 0 THEN 0 ELSE RoundHalfEven(cash * SizeRate, Unit * Unit * Unit * price)

\* Mutant of CheckStopTake: the target before the stop.
TargetFirst(p, bar) ==
  IF \E t \in p.target : bar.high >= t THEN {[price |-> CHOOSE t \in p.target : TRUE, reason |-> "take-profit"]}
  ELSE IF \E s \in p.stop : bar.low <= s THEN {[price |-> CHOOSE s \in p.stop : TRUE, reason |-> "stop-loss"]}
  ELSE {}

\* _check_stop_take: the level hit, the stop before the target.
CheckStopTake(p, bar) ==
  LET stopped == {s \in p.stop : bar.low <= s}
      taken   == {t \in p.target : bar.high >= t}
  IN  IF stopped # {} THEN {[price |-> s, reason |-> "stop-loss"] : s \in stopped}
      ELSE {[price |-> t, reason |-> "take-profit"] : t \in taken}

\* Mutant of Closed: the exit fee is not paid.
ClosedFree(a, price, t, reason) ==
  LET p == CHOOSE p \in a.position : TRUE
      fill == Fill(price, "sell")
  IN  [cash |-> a.cash + Unit * fill.price * p.quantity,
       position |-> {}, held |-> 0,
       trades |-> Append(a.trades,
         [entry |-> p.opened, exit |-> t, quantity |-> p.quantity, reason |-> reason,
          pnl |-> (fill.price - p.price) * Unit * p.quantity - fill.fee * p.quantity,
          fees |-> p.fees + fill.fee * p.quantity,
          stop |-> p.stop, target |-> p.target, entryFees |-> p.fees])]

\* The position sold at a price, and its trade completed.  stop, target and
\* entryFees of a trade are kept for the properties only.
Closed(a, price, t, reason) ==
  LET p == CHOOSE p \in a.position : TRUE
      fill == Fill(price, "sell")
      fees == fill.fee * p.quantity
  IN  [cash |-> a.cash + Unit * fill.price * p.quantity - fees,
       position |-> {}, held |-> 0,
       trades |-> Append(a.trades,
         [entry |-> p.opened, exit |-> t, quantity |-> p.quantity, reason |-> reason,
          pnl |-> (fill.price - p.price) * Unit * p.quantity - fees,
          fees |-> p.fees + fees,
          stop |-> p.stop, target |-> p.target, entryFees |-> p.fees])]

---------------------------------------------------------------------------
(* One candle *)

\* Stop and target of a position opened on an earlier candle.
StopTake(a, bar) ==
  LET hits == UNION {CheckStopTake(p, bar) : p \in {q \in a.position : q.opened < bar.t}}
  IN  IF hits = {} THEN a
      ELSE LET hit == CHOOSE h \in hits : TRUE IN Closed(a, hit.price, bar.t, hit.reason)

\* The position marked: one more bar held.
Marked(a) == IF a.position = {} THEN a ELSE [a EXCEPT !.held = @ + 1]

Equity(a, mark) ==
  a.cash + Unit * Unit * mark * (IF a.position = {} THEN 0 ELSE (CHOOSE p \in a.position : TRUE).quantity)

\* A BUY when flat, if the sized position can be paid with its costs.
Bought(a, bar, signal) ==
  LET qty == SizePosition(a.cash, bar.close)
      fill == Fill(bar.close, "buy")
      cost == (Unit * fill.price + fill.fee) * qty
  IN  IF qty > 0 /\ cost <= a.cash
      THEN [a EXCEPT !.cash = @ - cost, !.held = 0,
              !.position = {[quantity |-> qty, price |-> fill.price, opened |-> bar.t,
                             stop |-> signal.stop, target |-> signal.target,
                             fees |-> fill.fee * qty]}]
      ELSE a

\* The signal acted on.
Acted(a, bar, signal) ==
  CASE signal.direction = "BUY" /\ a.position = {} -> Bought(a, bar, signal)
    [] signal.direction \in {"EXIT", "SELL"} /\ a.position # {} ->
         Closed(a, bar.close, bar.t, "signal")
    [] OTHER -> a

\* A candle of the series: a bar and its time.
Candle(b, t) ==
  [t |-> t, high |-> b.high, low |-> b.low, close |-> b.close, volume |-> b.volume]

ProcessBar(b) ==
  /\ report = {}
  /\ Len(candles) < MaxBars
  /\ LET bar == Candle(b, Len(candles) + 1)
         window == Append(candles, bar)
         open == Marked(StopTake(account, bar))
         signal == Evaluate(strategy, window, open.position, open.held)
     IN  /\ candles' = window
         /\ curve' = Append(curve, Equity(open, bar.close))
         /\ account' = Acted(open, bar, signal)
  /\ UNCHANGED <<strategy, report>>

---------------------------------------------------------------------------
(* Metrics *)

\* in_trade: the candles inside each trade's interval, ends included.
InTrade(trades, n) ==
  SumOf([k \in DOMAIN trades |-> Cardinality({t \in 1..n : trades[k].entry <= t /\ t <= trades[k].exit})])

ComputeMetrics(a, equities) ==
  LET pnls == [k \in DOMAIN a.trades |-> a.trades[k].pnl]
      wins == [k \in DOMAIN pnls |-> IF pnls[k] > 0 THEN pnls[k] ELSE 0]
      losses == [k \in DOMAIN pnls |-> IF pnls[k] < 0 THEN pnls[k] ELSE 0]
  IN  [net |-> a.cash - StartCash,
       count |-> Len(pnls), wins |-> Cardinality({k \in DOMAIN pnls : pnls[k] > 0}),
       grossProfit |-> SumOf(wins), grossLoss |-> - SumOf(losses),
       fees |-> SumOf([k \in DOMAIN a.trades |-> a.trades[k].fees]),
       maxDrawdown |-> MaxDrawdown(StartCash, equities),
       inTrade |-> InTrade(a.trades, Len(equities)),
       bestStreak |-> MaxStreak(pnls, TRUE),
       worstStreak |-> MaxStreak(pnls, FALSE)]

\* The forced close, at the last close.
ForceClosed(a) ==
  IF a.position = {} THEN a
  ELSE LET bar == candles[Len(candles)] IN Closed(a, bar.close, bar.t, "end-of-data")

\* The end of the series.
Finish ==
  /\ report = {}
  /\ candles # <<>>
  /\ account' = ForceClosed(account)
  /\ report' = {ComputeMetrics(ForceClosed(account), curve)}
  /\ UNCHANGED <<strategy, candles, curve>>

Init ==
  /\ strategy \in Candidates
  /\ candles = <<>>
  /\ account = [cash |-> StartCash, position |-> {}, held |-> 0, trades |-> <<>>]
  /\ curve = <<>>
  /\ report = {}

Next == \/ \E b \in Bars : ProcessBar(b)
        \/ Finish

Spec == Init /\ [][Next]_vars

---------------------------------------------------------------------------
(* Properties *)

EntryFees(trades) == SumOf([k \in DOMAIN trades |-> trades[k].entryFees])
Pnls(trades) == SumOf([k \in DOMAIN trades |-> trades[k].pnl])

\* What the open position cost, its fees included.
OpenCost(a) ==
  IF a.position = {} THEN 0
  ELSE LET p == CHOOSE p \in a.position : TRUE IN Unit * p.price * p.quantity + p.fees

\* Whichever of its three exits closed a trade, the cash is what the run
\* started with, plus the trades' pnl, less the fees of their entries (which
\* pnl leaves out) and less what the open position cost.
CashExplained ==
  account.cash =
    StartCash + Pnls(account.trades) - EntryFees(account.trades) - OpenCost(account)

\* A position is closed on the first candle after its own that touches its
\* stop or target, at the stop if it touches both, and never on the candle it
\* was opened on: no touch between is overlooked and none is used early.
FirstTouch ==
  \A k \in DOMAIN account.trades :
    LET tr == account.trades[k]
        stopped == {i \in (tr.entry + 1)..tr.exit : \E s \in tr.stop : candles[i].low <= s}
        taken   == {i \in (tr.entry + 1)..tr.exit : \E g \in tr.target : candles[i].high >= g}
    IN  /\ stopped \cup taken \subseteq {tr.exit}
        /\ tr.reason = "stop-loss" <=> tr.exit \in stopped
        /\ tr.reason = "take-profit" <=> tr.exit \in taken \ stopped

\* A strategy that leaves on the cross under never sits long with the fast
\* average below the slow one: no sequence of closes, touching averages
\* included, slips past both cross tests.
NeverAgainstTrend ==
  (account.position # {} /\ strategy \in {"ema_crossover", "ema_rsi", "ema_trend"})
    => LET n == Len(candles)
           closes == Closes(candles)
       IN  AtMost(Ema(closes, SlowPeriod)[n], Ema(closes, FastPeriod)[n])

\* The trades entered on the candle the one before was closed on.
Reentries(trades) == Cardinality({k \in 2..Len(trades) : trades[k].entry = trades[k - 1].exit})

\* The candles of a series of n on which a position was held at some point.
InPosition(trades, n) ==
  {t \in 1..n : \E k \in DOMAIN trades : trades[k].entry <= t /\ t <= trades[k].exit}

\* The metrics, computed afterwards from trades and curve, are what they are
\* defined to be: the streaks are the longest runs; the drawdown is the worst
\* fall from an earlier equity, one that the curve really took, or zero; the
\* exposure counts the candles with a position, a candle twice exactly where one
\* was left and the next entered on it; net is gross less the fees of entries.
ReportFaithful ==
  \A r \in report :
    LET pnls == [k \in DOMAIN account.trades |-> account.trades[k].pnl]
        all == <<StartCash>> \o curve
    IN  /\ r.bestStreak = LongestRun(pnls, TRUE)
        /\ r.worstStreak = LongestRun(pnls, FALSE)
        /\ \A i \in DOMAIN all : \A j \in i..Len(all) :
             AtMost(<<all[i] - all[j], all[i]>>, r.maxDrawdown)
        /\ \/ r.maxDrawdown = <<0, 1>>
           \/ \E i \in DOMAIN all : \E j \in i..Len(all) :
                all[i] > 0 /\ r.maxDrawdown = <<all[i] - all[j], all[i]>>
        /\ r.inTrade = Cardinality(InPosition(account.trades, Len(curve)))
                         + Reentries(account.trades)
        /\ r.net = r.grossProfit - r.grossLoss - EntryFees(account.trades)
=============================================================================
