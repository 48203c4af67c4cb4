----------------------------- MODULE MarketHub -----------------------------
(***************************************************************************)
(* MarketDataHub (app/market_data/hub.py) over the facade                  *)
(* (facade.py): it loads candles, validates them (validators/candles.py)   *)
(* and reports whether market data is healthy.                             *)
(***************************************************************************)
EXTENDS Integers, FiniteSets, SequencesExt

CONSTANTS
  Candles,     \* what a provider may return, one by one
  MaxCandles,  \* bound: candles of one response
  MaxLoads,    \* bound: calls of the hub
  Delta        \* the timeframe

ASSUME MarketHubAssumption == MaxCandles \in Nat /\ MaxLoads \in Nat /\ Delta \in Nat \ {0}

ASSUME CandlesAssumption ==
  Candles \subseteq [time : Int, open : Int, high : Int, low : Int, close : Int, volume : Int,
                     closed : BOOLEAN]

VARIABLES
  hub,    \* _last_error, and whether _last_success_at is too long ago
  good,   \* history: the last candles asked for were a whole series
  loads   \* calls so far

hubVars == <<hub, good, loads>>

---------------------------------------------------------------------------
(* Candle validation *)

\* validate_ohlc_sanity; the candles given include negative volumes and prices.
Sane(c) ==
  /\ c.low <= c.open /\ c.low <= c.close
  /\ c.high >= c.open /\ c.high >= c.close
  /\ c.high >= c.low
  /\ c.volume >= 0
  /\ \A v \in {c.open, c.high, c.low, c.close} : v >= 0

\* Mutant of Continuous: a later candle is as good as the next one.
ContinuousUpward(before, after) == after >= before + Delta

\* MISSING_CANDLE above the expected time, CONTINUITY_REGRESSION below it.
Continuous(before, after) == after = before + Delta

\* sorted_candles: by time.  Which of equal times comes first makes no
\* difference, as they do not validate.
SortedByTime(candles) ==
  LET n == Len(candles)
      p == CHOOSE p \in Bijection(1..n, 1..n) :
             \A i, j \in 1..n : i < j => candles[p[i]].time <= candles[p[j]].time
  IN  [k \in 1..n |-> candles[p[k]]]

\* validate_candles: each candle sane and where the one before it leads to
\* expect it.  An equal time is both a duplicate and a regression.  No candles
\* are valid candles.
Validated(candles) ==
  LET sorted == SortedByTime(candles)
  IN  /\ \A k \in 1..Len(candles) : Sane(sorted[k])
      /\ \A k \in 1..(Len(candles) - 1) : Continuous(sorted[k].time, sorted[k + 1].time)

\* load_closed_validated of the facade: the open candle is put aside first.
Closed(candles) ==
  LET kept[k \in 0..Len(candles)] ==
        IF k = 0 THEN <<>>
        ELSE IF candles[k].closed THEN Append(kept[k - 1], candles[k]) ELSE kept[k - 1]
  IN  kept[Len(candles)]

\* What validation is for, as a definition: each time once, none between the
\* first and the last missing, every candle sane.
Whole(candles) ==
  LET times == {candles[k].time : k \in DOMAIN candles}
  IN  /\ Cardinality(times) = Len(candles)
      /\ \A a, b \in times : a < b => \A d \in 1..(b - a) :
            (d % Delta = 0) = (a + d \in times)
      /\ \A k \in DOMAIN candles : Sane(candles[k])

---------------------------------------------------------------------------
(* The hub *)

Batches == BoundedSeq(Candles, MaxCandles)

\* load_closed_validated: an error of the provider and candles that do not
\* validate are the same failure.
HubLoads(batch, raised) ==
  /\ loads < MaxLoads
  /\ loads' = loads + 1
  /\ good' = (~ raised /\ Whole(Closed(batch)))
  /\ hub' = IF ~ raised /\ Validated(Closed(batch))
            THEN [error |-> FALSE, stale |-> FALSE]
            ELSE [hub EXCEPT !.error = TRUE]

\* get_latest_price: a price is a success, but clears no error; a failure
\* leaves no trace.
HubPrices ==
  /\ loads < MaxLoads
  /\ loads' = loads + 1
  /\ hub' = [hub EXCEPT !.stale = FALSE]
  /\ UNCHANGED good

\* market_data_stale_seconds pass without a success.
HubAges ==
  /\ ~ hub.stale
  /\ hub' = [hub EXCEPT !.stale = TRUE]
  /\ UNCHANGED <<good, loads>>

\* status()["healthy"].
Healthy == ~ hub.error /\ ~ hub.stale

---------------------------------------------------------------------------
(* The specification *)

HubInit ==
  /\ hub = [error |-> FALSE, stale |-> TRUE]
  /\ good = TRUE
  /\ loads = 0

HubNext ==
  \/ \E batch \in Batches, raised \in BOOLEAN : HubLoads(batch, raised)
  \/ HubPrices
  \/ HubAges

HubSpec == HubInit /\ [][HubNext]_hubVars

---------------------------------------------------------------------------
(* Properties *)

\* The hub is healthy only if the last candles it was asked for were a whole
\* series, however many prices came in since; and a whole series clears what
\* was wrong before.
HubHonest == (Healthy => good) /\ (good => ~ hub.error)
=============================================================================
