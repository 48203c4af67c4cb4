----------------------------- MODULE Strategies -----------------------------
(***************************************************************************)
(* The indicators (app/indicators) and the five strategies of the registry *)
(* (app/strategies).  A strategy is a function of a window of closed       *)
(* candles and of the long position held, if any.                          *)
(*                                                                         *)
(* Averages are exact rationals.  Prices are whole ticks, and a suggested  *)
(* stop or target is rounded to one.  A price that may be absent is a      *)
(* set of at most one price.  Texts, confidences and fingerprints, which   *)
(* no caller decides on, are left out.                                     *)
(***************************************************************************)
EXTENDS Stats

CONSTANTS
  FastPeriod, SlowPeriod, RsiPeriod, AtrPeriod, VolumePeriod, Lookback,
  Warmup,               \* warmup_margin
  UseRsiFilter, RsiBuyMin, RsiMin, RsiMax, Oversold, Overbought,
  MinAtr,
  StopMult, TargetMult, \* of the ATR
  StopPct, TakePct,     \* of the close
  MaxHoldingBars

ASSUME PeriodsAssumption ==
  /\ {FastPeriod, SlowPeriod, RsiPeriod, AtrPeriod, VolumePeriod, Lookback} \subseteq Nat \ {0}
  /\ {Warmup, MinAtr, StopMult, TargetMult, StopPct, TakePct} \subseteq Nat
  /\ UseRsiFilter \in BOOLEAN

Closes(candles) == [i \in DOMAIN candles |-> candles[i].close]

---------------------------------------------------------------------------
(* Indicators.  A series is a function on the indices where the code's is  *)
(* not None.                                                               *)

\* volume_ma, the simple average of the last `period` values.
VolumeMa(candles, i) ==
  <<SumFromTo([k \in DOMAIN candles |-> candles[k].volume], i - VolumePeriod + 1, i), VolumePeriod>>

\* ema: seeded with the average of the first `period` values.
Ema(values, period) ==
  LET e[i \in period..Len(values)] ==
        IF i = period
        THEN <<SumFromTo(values, 1, period), period>>
        ELSE <<2 * values[i] * e[i - 1][2] + (period - 1) * e[i - 1][1],
               (period + 1) * e[i - 1][2]>>
  IN  e

\* Wilder's smoothing of a series of which the first average ends at `first`.
Smoothed(values, period, first) ==
  LET a[i \in first..Len(values)] ==
        IF i = first
        THEN <<SumFromTo(values, first - period + 1, first), period>>
        ELSE <<(period - 1) * a[i - 1][1] + values[i] * a[i - 1][2], period * a[i - 1][2]>>
  IN  a

\* rsi, as a rational: 100 when nothing was lost.
Rsi(values, period) ==
  LET change(i) == IF i = 1 THEN 0 ELSE values[i] - values[i - 1]
      gains  == Smoothed([i \in DOMAIN values |-> Max({change(i), 0})], period, period + 1)
      losses == Smoothed([i \in DOMAIN values |-> Max({-change(i), 0})], period, period + 1)
  IN  [i \in (period + 1)..Len(values) |->
         IF losses[i][1] = 0 THEN <<100, 1>>
         ELSE <<100 * gains[i][1], gains[i][1] + losses[i][1]>>]

TrueRange(candles, i) ==
  LET high == candles[i].high
      low == candles[i].low
      gap(x) == LET d == x - candles[i - 1].close IN Max({d, -d})
  IN  IF i = 1 THEN high - low ELSE Max({high - low, gap(high), gap(low)})

Atr(candles) ==
  Smoothed([i \in DOMAIN candles |-> TrueRange(candles, i)], AtrPeriod, AtrPeriod)

---------------------------------------------------------------------------
(* Signals *)

Signal(direction, stop, target) ==
  [direction |-> direction, stop |-> stop, target |-> target]
Hold == Signal("HOLD", {}, {})

\* price - atr * mult and price + atr * mult, in whole ticks.
Below(price, atr, mult) == price - (mult * atr[1]) \div atr[2]
Above(price, atr, mult) == price + (mult * atr[1]) \div atr[2]

\* The averages of candles n - 1 and n are on different sides.
CrossedUp(closes) ==
  LET n == Len(closes)
      fast == Ema(closes, FastPeriod)
      slow == Ema(closes, SlowPeriod)
  IN  AtMost(fast[n - 1], slow[n - 1]) /\ Less(slow[n], fast[n])

\* Mutant of CrossedDown: averages that touched are not a cross.
CrossedDownStrictly(closes) ==
  LET n == Len(closes)
      fast == Ema(closes, FastPeriod)
      slow == Ema(closes, SlowPeriod)
  IN  Less(slow[n - 1], fast[n - 1]) /\ Less(fast[n], slow[n])

CrossedDown(closes) ==
  LET n == Len(closes)
      fast == Ema(closes, FastPeriod)
      slow == Ema(closes, SlowPeriod)
  IN  AtMost(slow[n - 1], fast[n - 1]) /\ Less(fast[n], slow[n])

\* Both averages exist for the last candle and the one before.
AveragesReady(n) == n - 1 >= Max({FastPeriod, SlowPeriod})

Ordered(candles) == \A i \in 1..(Len(candles) - 1) : candles[i].t < candles[i + 1].t

EmaCrossover(candles, position, held) ==
  LET n == Len(candles)
      closes == Closes(candles)
      price == closes[n]
      weak == UseRsiFilter /\ n > RsiPeriod /\ Less(Rsi(closes, RsiPeriod)[n], <<RsiBuyMin, 1>>)
      protected == n >= AtrPeriod /\ Atr(candles)[n][1] > 0
      risk == Atr(candles)[n]
  IN  CASE n < SlowPeriod + Warmup \/ ~ Ordered(candles) \/ ~ AveragesReady(n) -> Hold
        [] OTHER ->
             IF position = {} /\ CrossedUp(closes) /\ ~ weak
             THEN IF protected
                  THEN Signal("BUY", {Below(price, risk, StopMult)},
                              {Above(price, risk, StopMult * TargetMult)})
                  ELSE Signal("BUY", {}, {})
             ELSE IF position # {} /\ CrossedDown(closes) THEN Signal("SELL", {}, {})
             ELSE Hold

EmaRsi(candles, position, held) ==
  LET n == Len(candles)
      closes == Closes(candles)
      price == closes[n]
      strong == Less(<<RsiBuyMin, 1>>, Rsi(closes, RsiPeriod)[n])
  IN  CASE n < Max({SlowPeriod, RsiPeriod}) + Warmup + 1 \/ ~ AveragesReady(n) -> Hold
        [] OTHER ->
             IF CrossedUp(closes) /\ strong /\ position = {}
             THEN Signal("BUY", {(price * (100 - StopPct)) \div 100},
                         {(price * (100 + TakePct)) \div 100})
             ELSE IF CrossedDown(closes) /\ position # {} THEN Signal("SELL", {}, {})
             ELSE Hold

EmaTrendReady(n) == /\ n >= SlowPeriod + 2
                    /\ AveragesReady(n)
                    /\ n > RsiPeriod
                    /\ n >= AtrPeriod
                    /\ n >= VolumePeriod

\* The exit rules of a position: the cross under, the position's own stop and
\* target at the close, and the longest time it may be held.
EmaTrendExits(closes, position, held) ==
  LET price == closes[Len(closes)]
  IN  \/ CrossedDown(closes)
      \/ \E p \in position : \E s \in p.stop : price <= s
      \/ \E p \in position : \E t \in p.target : price >= t
      \/ held >= MaxHoldingBars

\* The entry filters.
EmaTrendEnters(candles) ==
  LET n == Len(candles)
      closes == Closes(candles)
      slow == Ema(closes, SlowPeriod)[n]
      rsi == Rsi(closes, RsiPeriod)[n]
  IN  /\ Less(slow, Ema(closes, FastPeriod)[n])
      /\ Less(slow, <<closes[n], 1>>)
      /\ AtMost(<<RsiMin, 1>>, rsi) /\ AtMost(rsi, <<RsiMax, 1>>)
      /\ AtMost(<<MinAtr, 1>>, Atr(candles)[n])
      /\ Less(VolumeMa(candles, n), <<candles[n].volume, 1>>)

EmaTrend(candles, position, held) ==
  LET n == Len(candles)
      closes == Closes(candles)
      levels == <<{Below(closes[n], Atr(candles)[n], StopMult)},
                  {Above(closes[n], Atr(candles)[n], TargetMult)}>>
  IN  CASE ~ EmaTrendReady(n) -> Hold
        [] OTHER ->
             IF position # {}
             THEN IF EmaTrendExits(closes, position, held)
                  THEN Signal("EXIT", levels[1], levels[2]) ELSE Hold
             ELSE IF EmaTrendEnters(candles)
                  THEN Signal("BUY", levels[1], levels[2]) ELSE Hold

RsiMeanReversion(candles, position, held) ==
  LET n == Len(candles)
      rsi == Rsi(Closes(candles), RsiPeriod)
  IN  CASE n < RsiPeriod + Warmup + 1 \/ n - 1 <= RsiPeriod -> Hold
        [] OTHER ->
             IF /\ position = {}
                /\ AtMost(rsi[n - 1], <<Oversold, 1>>) /\ Less(<<Oversold, 1>>, rsi[n])
             THEN Signal("BUY", {}, {})
             ELSE IF /\ position # {}
                     /\ AtMost(<<Overbought, 1>>, rsi[n - 1]) /\ Less(rsi[n], <<Overbought, 1>>)
             THEN Signal("SELL", {}, {})
             ELSE Hold

\* The channel of the Lookback candles before the last.
Breakout(candles, position, held) ==
  LET n == Len(candles)
      prior == (n - Lookback)..(n - 1)
      close == candles[n].close
      stop == IF n >= AtrPeriod /\ Atr(candles)[n][1] > 0
              THEN {Below(close, Atr(candles)[n], StopMult)} ELSE {}
  IN  CASE n < Lookback + Warmup + 1 -> Hold
        [] OTHER ->
             IF position = {} /\ \A i \in prior : close > candles[i].high
             THEN Signal("BUY", stop, {})
             ELSE IF position # {} /\ \A i \in prior : close < candles[i].low
             THEN Signal("SELL", {}, {})
             ELSE Hold

\* get_strategy: the registry filled by bootstrap_default_strategies.
Registry == {"ema_crossover", "ema_rsi", "ema_trend", "rsi_mean_reversion", "breakout"}

Evaluate(strategy, candles, position, held) ==
  CASE strategy = "ema_crossover" -> EmaCrossover(candles, position, held)
    [] strategy = "ema_rsi" -> EmaRsi(candles, position, held)
    [] strategy = "ema_trend" -> EmaTrend(candles, position, held)
    [] strategy = "rsi_mean_reversion" -> RsiMeanReversion(candles, position, held)
    [] strategy = "breakout" -> Breakout(candles, position, held)
=============================================================================
