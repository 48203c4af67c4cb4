------------------------------ MODULE RiskGate ------------------------------
(***************************************************************************)
(* RiskEngine.evaluate (app/risk/engine.py) and what reaches it: the       *)
(* settings a process may start with, the manual orders and closes of      *)
(* PaperSession, and the signals of the trading orchestrators.  All share  *)
(* one risk engine and one account; loss streak and peak equity are kept   *)
(* by each of them for itself.  Manual orders may rest and fill later, as  *)
(* the mark moves, past evaluate and past every count.                     *)
(*                                                                         *)
(* Money and quantities are whole units and limits are per cent; an order  *)
(* fills whole.  (Partial fills, rounding and cancels: PaperEngine.)       *)
(* Whether an exit realises a loss or a gain is a choice: no check         *)
(* compares the amount.                                                    *)
(***************************************************************************)
EXTENDS Integers, FiniteSets, FiniteSetsExt, Sequences

CONSTANTS
  Symbols, Prices,
  Allowed,       \* allowed_symbols; empty allows all
  Tickets,       \* what manual orders ask for, but for the symbol; 0 is no price
  Cyclers,       \* the orchestrators, one per strategy
  Environments,  \* the environments a process may be started in
  Outages,       \* health flags and switches that may close the gate
  InitialCash,
  SlipBps, FeeBps,  \* slippage with half the spread, and fee, in 1/10000
  MaxClock,      \* bound: the clock stops here
  MaxAccepted,   \* bound: orders risk accepts
  MaxEvents,     \* bound: market moves, outages and failed writes
  Window, MaxPerWindow,  \* max_orders_per_minute
  StaleAfter,    \* market_data_stale_seconds
  RiskPct, PositionPct, PortfolioPct, DailyPct, DrawdownPct,
  MaxLosses, MaxOpen, MinNotional,
  EntryPct       \* entry_size_fraction of the orchestrators

Paths == {"session"} \cup Cyclers

ASSUME PathsAssumption == IsFiniteSet(Cyclers) /\ "session" \notin Cyclers
ASSUME SymbolsAssumption == IsFiniteSet(Symbols)
ASSUME PricesAssumption == Prices \subseteq Nat \ {0}
ASSUME TicketsAssumption ==
  Tickets \subseteq [side : {"BUY", "SELL"}, type : {"MARKET", "LIMIT", "STOP_LOSS", "TAKE_PROFIT"},
                     qty : Nat, price : Nat, stop : Nat, target : Nat]
ASSUME EnvironmentsAssumption == \A e \in Environments : e.cooldown \in Nat
\* Slippage, spread and fee are fractions of the price below one.
ASSUME RatesAssumption == {SlipBps, FeeBps} \subseteq 0..10000
ASSUME BoundsAssumption == /\ {InitialCash, MaxClock, MaxAccepted, MaxEvents, Window,
                               StaleAfter, MaxLosses, MaxOpen, MinNotional} \subseteq Nat
                           /\ MaxPerWindow \in Nat \ {0}
ASSUME LimitsAssumption == {RiskPct, PositionPct, PortfolioPct, DailyPct, DrawdownPct,
                            EntryPct} \subseteq 0..100

VARIABLES
  settings,  \* trading_mode and the rest of Settings, and whether the process is up
  cash, reserved,  \* the account: available and reserved cash,
  qty, current,    \* positions and their current_price
  resting,   \* the orders that wait for their price, in the order they were placed
  mark,      \* mark prices
  clock,     \* utc_now()
  dataTs,    \* last_market_data_ts()
  closed,    \* the outages under way
  seen,      \* seen_idempotency_keys
  recent,    \* recent_order_times
  peak, losses,  \* _peak_equity and _consecutive_losses of each path
  booking,   \* per orchestrator: outcomes of sales between its exit and its count
  closing,   \* the close_position under way: its symbol and the passes left
  events,    \* market moves, outages and failed writes so far
  accepted,  \* history: the times of all accepted orders
  streak     \* history: losing exits since the last gaining sale, on any path

account == <<cash, reserved, qty, current, resting>>
gate    == <<clock, dataTs, closed, seen, recent, events, accepted>>
counts  == <<losses, booking, streak>>
vars == <<settings, account, mark, gate, peak, counts, closing>>

---------------------------------------------------------------------------
(* Settings and startup *)

\* _normalize_trading_mode: a typo is never live.
TradingMode(raw) == IF raw = "live" THEN "live" ELSE "paper"

\* _normalize_exchange_env, EXCHANGE_TESTNET=true included.
ExchangeEnv(raw) ==
  CASE raw \in {"paper", "testnet", "live", "backtest"} -> raw
    [] raw = "true" -> "testnet"
    [] OTHER -> "paper"

\* derive_runtime_mode: an explicit mode wins, and an invalid one is PAPER.
RuntimeMode(explicit, mode, env) ==
  CASE explicit # "" -> IF explicit \in {"BACKTEST", "PAPER", "TESTNET", "LIVE"}
                        THEN explicit ELSE "PAPER"
    [] explicit = "" /\ mode = "live" -> "LIVE"
    [] explicit = "" /\ mode # "live" /\ env = "testnet" -> "TESTNET"
    [] explicit = "" /\ mode # "live" /\ env = "backtest" -> "BACKTEST"
    [] OTHER -> "PAPER"

\* assert_startup_safe, with assert_paper_only.
StartupSafe(mode, live, env, runtime) ==
  mode = "paper" /\ ~live /\ runtime # "LIVE" /\ env # "live"

\* A leverage other than 1 is no Settings at all.  The application refuses to start
\* on unsafe settings; the command line runs an orchestrator on whatever they are.
Settings(e) ==
  LET mode == TradingMode(e.mode)
      env  == ExchangeEnv(e.env)
  IN  [mode |-> mode, live |-> e.live, keys |-> e.keys,
       leverage |-> e.leverage, cooldown |-> e.cooldown,
       up |-> /\ e.leverage = 1
              /\ e.cli \/ StartupSafe(mode, e.live, env, RuntimeMode(e.runtime, mode, env))]

---------------------------------------------------------------------------
(* Portfolio math *)

Sum(Op(_)) == MapThenSumSet(Op, Symbols)

\* _equity: positions at their current_price, which a fill sets to its own price
\* and a mark update to the mark.
Equity == LET Worth(s) == qty[s] * current[s] IN cash + reserved + Sum(Worth)

\* The notional of all positions as evaluate computes it: at ONE mark, the mark
\* of the symbol that is being ordered.
NotionalAt(m) == LET Worth(s) == qty[s] * m IN Sum(Worth)

\* What the positions are worth, each at its own mark.
Exposure(q) == LET Worth(s) == q[s] * mark[s] IN Sum(Worth)

Held == {s \in Symbols : qty[s] > 0}

Event == events < MaxEvents /\ events' = events + 1

Greater(a, b) == IF a >= b THEN a ELSE b
Lesser(a, b)  == IF a <= b THEN a ELSE b

---------------------------------------------------------------------------
(* RiskEngine.evaluate *)

\* Mutant of LiveGating: the approval token is not asked for.
LiveGatingUnapproved(approval) == settings.live /\ settings.keys

\* _check_live_gating, in so far as evaluate has not asked the same before.
LiveGating(approval) == settings.live /\ settings.keys /\ approval

\* Mutant of InWindow: the pruned list forgets the oldest tick of the window.
InWindowShort(t) == t > clock - Window

\* The times the pruning of recent_order_times keeps.
InWindow(t) == t >= clock - Window

\* The pruned list, one time after the other.
Pruned(times) ==
  LET Kept[k \in 0..Len(times)] ==
        IF k = 0 THEN <<>>
        ELSE IF InWindow(times[k]) THEN Append(Kept[k - 1], times[k]) ELSE Kept[k - 1]
  IN  Kept[Len(times)]

Recent == Pruned(recent)

\* Mutant of Cooled: the time elapsed is rounded up.
CooledRoundedUp(times) ==
  settings.cooldown > 0 => \A i \in DOMAIN times : clock - times[i] + 1 >= settings.cooldown

\* order_cooldown_seconds, since the last of the times that are kept.
Cooled(times) ==
  settings.cooldown > 0 => \A i \in DOMAIN times : clock - times[i] >= settings.cooldown

\* _portfolio_state: the figures of the path that orders, its peak moved up to
\* the equity of the moment.
PortfolioState(path) ==
  LET e == Equity
      p == Greater(peak[path], e)
  IN  [peak |-> p, drawdown |-> p - e, daily |-> e - InitialCash,
       losses |-> losses[path], open |-> Held]

\* The loss limits.  They do not ask for the side: an exit is refused, too.
WithinLosses(portfolio) ==
  /\ portfolio.peak > 0 => /\ -100 * Lesser(portfolio.daily, 0) < DailyPct * portfolio.peak
                           /\ 100 * portfolio.drawdown < DrawdownPct * portfolio.peak
  /\ portfolio.losses < MaxLosses

\* _risk_context: the session passes on the time of the last market data, an
\* orchestrator the present, since a candle has just reached it.
MarketDataTs(path) == IF path = "session" THEN dataTs ELSE clock

\* a or b, where 0 stands for None.
OrElse(a, b) == IF a # 0 THEN a ELSE b

\* The price evaluate sizes an order by: its own, for a MARKET order too.
Price(req) == OrElse(req.price, mark[req.symbol])

\* A LIMIT order needs a price and a trigger order something to trigger it.
Priced(req) ==
  /\ req.type = "LIMIT" => req.price > 0
  /\ req.type \in {"STOP_LOSS", "TAKE_PROFIT"} => OrElse(OrElse(req.price, req.stop), req.target) > 0
  /\ mark[req.symbol] > 0 /\ Price(req) > 0

\* The checks of evaluate that refuse an order whatever its size may become.  No
\* caller ever presents a live approval or a symbol_info.
Admissible(path, req) ==
  LET portfolio == PortfolioState(path) IN
  /\ closed = {}
  /\ settings.mode = "live" => LiveGating(FALSE)
  /\ Allowed # {} => req.symbol \in Allowed
  /\ req.side = "SELL" /\ ~req.reduce => qty[req.symbol] > 0
  /\ settings.leverage = 1
  /\ clock - MarketDataTs(path) <= StaleAfter
  /\ req.key \notin seen
  /\ req.qty > 0 /\ Priced(req)
  /\ req.qty * Price(req) >= MinNotional
  /\ Len(Recent) < MaxPerWindow /\ Cooled(Recent)
  /\ WithinLosses(portfolio)
  /\ req.reduce \/ req.symbol \in portfolio.open \/ Cardinality(portfolio.open) < MaxOpen

\* Risk per trade: the loss down to the stop, or the whole notional without one.
ByRisk(equity, q, p, stop) ==
  CASE stop = 0 -> Lesser(q, (equity * RiskPct) \div (100 * p))
    [] stop = p -> q
    [] OTHER    -> Lesser(q, (equity * RiskPct) \div (100 * Greater(p - stop, stop - p)))

ByPosition(equity, q, p) ==
  IF 100 * q * p > equity * PositionPct THEN (equity * PositionPct) \div (100 * p) ELSE q

\* Mutant of ByPortfolio: what is held already is not added.
ByPortfolioAlone(equity, q, p, m) ==
  IF 100 * q * p > equity * PortfolioPct THEN (equity * PortfolioPct) \div (100 * p) ELSE q

\* The order at its price p, what is held at the mark m.
ByPortfolio(equity, q, p, m) ==
  LET room == equity * PortfolioPct - 100 * NotionalAt(m)
  IN  IF 100 * q * p > room THEN room \div (100 * p) ELSE q

\* The approved quantity; zero or less is a refusal.
Sized(req) ==
  LET e == Equity
      p == Price(req)
  IN  ByPortfolio(e, ByPosition(e, ByRisk(e, req.qty, p, req.stop), p), p, mark[req.symbol])

Approved(path, req) ==
  /\ Admissible(path, req)
  /\ Sized(req) > 0
  /\ req.side = "BUY" => Sized(req) * Price(req) <= cash

---------------------------------------------------------------------------
(* The engine *)

Slip(m) == (m * SlipBps) \div 10000
Fee(notional) == (notional * FeeBps) \div 10000

\* _fill_price
FillPrice(o) ==
  LET m == mark[o.symbol] IN
  CASE o.type = "LIMIT" -> o.price
    [] o.type # "LIMIT" /\ o.side = "BUY" -> m + Slip(m)
    [] OTHER -> m - Slip(m)

\* _apply_fill, with what the order held back in free: a buy that is not paid for
\* with its fee, and a sell of more than the position, fail.
Fill(o, q, free) ==
  LET s == o.symbol
      p == FillPrice(o)
      n == q * p
      bought == o.side = "BUY" /\ n + Fee(n) <= free
      sold == o.side = "SELL" /\ q <= qty[s]
  IN
  /\ cash' = CASE bought -> free - (n + Fee(n)) [] sold -> free + (n - Fee(n)) [] OTHER -> free
  /\ qty' = [qty EXCEPT ![s] = CASE bought -> @ + q [] sold -> @ - q [] OTHER -> @]
  /\ current' = [current EXCEPT ![s] = IF ~ (bought \/ sold) THEN @
                                       ELSE IF sold /\ q = qty[s] THEN 0 ELSE p]

\* The condition under which an order waits for its trigger: LIMIT and TAKE_PROFIT
\* for a better mark, STOP_LOSS for a worse one.
Waits(o, trigger) ==
  LET m == mark[o.symbol] IN
  /\ o.type # "MARKET"
  /\ IF (o.side = "BUY") = (o.type = "STOP_LOSS") THEN m < trigger ELSE m > trigger

\* What triggers an order as it is submitted.
TriggerOf(req) ==
  CASE req.type = "STOP_LOSS" -> OrElse(req.price, req.stop)
    [] req.type = "TAKE_PROFIT" -> OrElse(req.price, req.target)
    [] OTHER -> Price(req)

\* _reserve_price
ReservePrice(req) ==
  CASE req.type = "MARKET" -> mark[req.symbol]
    [] req.type = "LIMIT" -> req.price
    [] OTHER -> OrElse(OrElse(req.price, req.stop), req.target)

\* submit: a buy must reserve its notional; then the order is refused for want of
\* a trigger, or rests, or fills at once out of what it has reserved.
EngineSubmit(req, q) ==
  LET amount == IF req.side = "BUY" THEN q * ReservePrice(req) ELSE 0 IN
  IF amount > cash \/ TriggerOf(req) = 0
  THEN UNCHANGED account
  ELSE IF Waits(req, TriggerOf(req))
  THEN /\ resting' = Append(resting, [symbol |-> req.symbol, side |-> req.side, type |-> req.type,
                                      qty |-> q, price |-> req.price, held |-> amount])
       /\ cash' = cash - amount /\ reserved' = reserved + amount
       /\ UNCHANGED <<qty, current>>
  ELSE Fill(req, q, cash) /\ UNCHANGED <<reserved, resting>>

\* _try_trigger_resting looks at the price of the order alone: an order that had
\* only a stop_loss or take_profit, never.  No order is due but in a mark update.
Due == {i \in DOMAIN resting : resting[i].price # 0 /\ ~ Waits(resting[i], resting[i].price)}

Without(i) == [j \in 1..(Len(resting) - 1) |-> IF j < i THEN resting[j] ELSE resting[j + 1]]

\* The process runs, and no mark update is at work on its resting orders.
Ready == settings.up /\ Due = {}

---------------------------------------------------------------------------
(* OrderGateway.submit *)

\* evaluate, and the engine or the refusal.
Submit(path, req) ==
  LET approved == Approved(path, req) IN
  /\ approved => Len(accepted) < MaxAccepted
  /\ IF approved
     THEN /\ seen' = seen \cup {req.key}
          /\ recent' = Append(Recent, clock)
          /\ accepted' = Append(accepted, clock)
          /\ EngineSubmit(req, Sized(req))
     ELSE UNCHANGED <<seen, recent, accepted, account>>

\* The order is a sale that was filled.
Sold(req) == req.side = "SELL" /\ qty' # qty

Outcomes == {"loss", "even", "gain"}

\* _consecutive_losses after an exit.
Counted(n, outcome) ==
  CASE outcome = "loss" -> n + 1 [] outcome = "gain" -> 0 [] OTHER -> n

\* The realised P&L of a sale enters the delta of every orchestrator that has
\* read realized_pnl before and not yet counted.
Booked(outcome) == [c \in Cyclers |-> IF booking[c] = {} THEN {} ELSE booking[c] \cup {outcome}]

---------------------------------------------------------------------------
(* PaperSession *)

\* Mutant of SessionCounts: losing exits are not counted.
SessionCountsNothing(outcome) == UNCHANGED losses

SessionCounts(outcome) == losses' = [losses EXCEPT !["session"] = Counted(@, outcome)]

\* _submit: the order, the count of its outcome if it was a sale that filled at
\* once, and the equity point, without an await in between.
SessionSubmits(req) ==
  /\ Submit("session", req)
  /\ peak' = [peak EXCEPT !["session"] = Greater(PortfolioState("session").peak, Equity')]
  /\ IF Sold(req)
     THEN \E outcome \in Outcomes :
            /\ SessionCounts(outcome)
            /\ booking' = Booked(outcome) /\ streak' = Counted(streak, outcome)
     ELSE UNCHANGED counts

\* Idempotency keys of manual orders are random: a new one each time.
FreshKey == <<"uuid", Cardinality(seen)>>

\* The durable write behind an order or a close shuts the gate if it fails.
Persist ==
  \/ UNCHANGED <<closed, events>>
  \/ closed' = closed \cup {"database"} /\ Event

\* The order of a ticket.
Request(s, ticket) ==
  [symbol |-> s, side |-> ticket.side, type |-> ticket.type, qty |-> ticket.qty,
   price |-> ticket.price, stop |-> ticket.stop, target |-> ticket.target,
   reduce |-> FALSE, key |-> FreshKey]

\* place_order
PlaceOrder(s, ticket) ==
  /\ Ready
  /\ SessionSubmits(Request(s, ticket))
  /\ Persist
  /\ UNCHANGED <<settings, mark, clock, dataTs, closing>>

\* The stop of an exit: 0.999 of the mark, to the tick.
TightStop(s) == (2 * 999 * mark[s] + 1000) \div 2000

NoClose == [symbol |-> "none", passes |-> 0]

CloseBegins(s) ==
  /\ Ready /\ closing = NoClose /\ qty[s] > 0
  /\ closing' = [symbol |-> s, passes |-> 4]
  /\ UNCHANGED <<settings, account, mark, gate, peak, counts>>

\* Mutant of CloseRequest: without the tight stop.
CloseRequestPlain(s) ==
  [symbol |-> s, side |-> "SELL", type |-> "MARKET", qty |-> qty[s], price |-> 0,
   stop |-> 0, target |-> 0, reduce |-> TRUE, key |-> FreshKey]

CloseRequest(s) ==
  [symbol |-> s, side |-> "SELL", type |-> "MARKET", qty |-> qty[s], price |-> 0,
   stop |-> TightStop(s), target |-> 0, reduce |-> TRUE, key |-> FreshKey]

\* One pass of _close_symbol; between the passes the closed trade is written.  The
\* loop ends when the position is gone or a pass made no progress.
ClosePass ==
  /\ Ready /\ closing # NoClose
  /\ LET s == closing.symbol IN
       IF qty[s] > 0
       THEN /\ SessionSubmits(CloseRequest(s))
            /\ closing' = IF qty'[s] >= qty[s] \/ closing.passes = 1 THEN NoClose
                          ELSE [closing EXCEPT !.passes = @ - 1]
       ELSE /\ closing' = NoClose
            /\ UNCHANGED <<account, seen, recent, accepted, peak, counts>>
  /\ IF closing' = NoClose THEN Persist ELSE UNCHANGED <<closed, events>>
  /\ UNCHANGED <<settings, mark, clock, dataTs>>

---------------------------------------------------------------------------
(* The orchestrators *)

\* _client_order_id: one key per candle and direction; a candle is a clock tick.
SignalRequest(c, s, side) ==
  LET buy == side = "BUY" IN
  [symbol |-> s, side |-> side, type |-> "MARKET", price |-> 0, target |-> 0,
   key |-> <<c, s, clock, side>>, reduce |-> ~buy,
   qty  |-> IF buy THEN (cash * EntryPct) \div (100 * mark[s]) ELSE qty[s],
   stop |-> IF buy THEN (95 * mark[s]) \div 100 ELSE TightStop(s)]

\* _act_on_signal, up to the journal's awaits: enter when flat, exit when long.  Its
\* look at trading_paused is in module ControlPlane.
SignalActs(c, s, side) ==
  /\ Ready /\ booking[c] = {}
  /\ mark[s] > 0
  /\ IF side = "BUY" THEN qty[s] = 0 ELSE qty[s] > 0
  /\ LET req == SignalRequest(c, s, side) IN
       /\ Submit(c, req)
       /\ IF Sold(req)
          THEN \E outcome \in Outcomes :
                 /\ booking' = [Booked(outcome) EXCEPT ![c] = {outcome}]
                 /\ streak' = Counted(streak, outcome)
          ELSE UNCHANGED <<booking, streak>>
  /\ peak' = [peak EXCEPT ![c] = PortfolioState(c).peak]
  /\ UNCHANGED <<settings, mark, clock, dataTs, closed, losses, closing, events>>

\* The sign of a sum of realised results, as far as their signs decide it.
Signs(outcomes) ==
  IF {"loss", "gain"} \subseteq outcomes THEN Outcomes
  ELSE IF "loss" \in outcomes THEN {"loss"}
  ELSE IF "gain" \in outcomes THEN {"gain"} ELSE {"even"}

\* Behind the journal's awaits: realized_pnl is read again, and the difference
\* counted as the outcome of this exit.
ExitCounted(c) ==
  /\ Ready /\ booking[c] # {}
  /\ \E outcome \in Signs(booking[c]) : losses' = [losses EXCEPT ![c] = Counted(@, outcome)]
  /\ booking' = [booking EXCEPT ![c] = {}]
  /\ peak' = [peak EXCEPT ![c] = PortfolioState(c).peak]
  /\ UNCHANGED <<settings, account, mark, gate, streak, closing>>

\* A path takes its portfolio state for something else than an order: at the
\* signal of a candle and at its end, and at the equity points of the dashboard.
Appraises(path) ==
  /\ Ready
  /\ peak' = [peak EXCEPT ![path] = PortfolioState(path).peak]
  /\ UNCHANGED <<settings, account, mark, gate, counts, closing>>

---------------------------------------------------------------------------
(* Market, clock and outages *)

\* A candle arrives: the mark moves, the position is valued at it, and the one
\* timestamp of the feed moves with it.  The orders that are now due follow.
MarketMoves(s, m) ==
  /\ Ready /\ Event
  /\ mark' = [mark EXCEPT ![s] = m] /\ dataTs' = clock
  /\ current' = [current EXCEPT ![s] = IF qty[s] > 0 THEN m ELSE @]
  /\ UNCHANGED <<settings, cash, reserved, qty, resting, clock, closed, seen, recent,
                 accepted, peak, counts, closing>>

\* The loop of _try_trigger_resting, one order a step and nothing in between: the
\* order fills or fails out of what it held.  No path counts what a sale realises.
Trigger ==
  /\ Due # {}
  /\ LET i == CHOOSE j \in Due : \A k \in Due : j <= k
         o == resting[i]
         freed == Lesser(o.held, reserved)
     IN  /\ resting' = Without(i)
         /\ reserved' = reserved - freed
         /\ Fill(o, o.qty, cash + freed)
         /\ IF Sold(o)
            THEN \E outcome \in Outcomes :
                   /\ booking' = Booked(outcome)
                   /\ streak' = IF outcome = "gain" THEN 0 ELSE streak
            ELSE UNCHANGED <<booking, streak>>
  /\ UNCHANGED <<settings, mark, gate, peak, losses, closing>>

Tick ==
  /\ Ready /\ clock < MaxClock
  /\ clock' = clock + 1
  /\ UNCHANGED <<settings, account, mark, dataTs, closed, seen, recent, events, accepted,
                 peak, counts, closing>>

\* Kill switch, circuit breaker and the four health flags: evaluate refuses alike.
OutageChanges(o) ==
  /\ Ready /\ Event
  /\ closed' = IF o \in closed THEN closed \ {o} ELSE closed \cup {o}
  /\ UNCHANGED <<settings, account, mark, clock, dataTs, seen, recent, accepted, peak,
                 counts, closing>>

---------------------------------------------------------------------------

Init ==
  /\ \E e \in Environments : settings = Settings(e)
  /\ cash = InitialCash /\ reserved = 0 /\ resting = <<>>
  /\ qty = [s \in Symbols |-> 0] /\ current = [s \in Symbols |-> 0]
  /\ \E m \in Prices : mark = [s \in Symbols |-> m]
  /\ clock = 0 /\ dataTs = 0 /\ closed = {}
  /\ seen = {} /\ recent = <<>>
  /\ peak = [p \in Paths |-> InitialCash] /\ losses = [p \in Paths |-> 0]
  /\ booking = [c \in Cyclers |-> {}]
  /\ closing = NoClose
  /\ events = 0 /\ accepted = <<>> /\ streak = 0

Next ==
  \/ \E s \in Symbols, ticket \in Tickets : PlaceOrder(s, ticket)
  \/ \E s \in Symbols : CloseBegins(s)
  \/ ClosePass
  \/ \E c \in Cyclers :
       \/ \E s \in Symbols, side \in {"BUY", "SELL"} : SignalActs(c, s, side)
       \/ ExitCounted(c)
  \/ \E path \in Paths : Appraises(path)
  \/ \E s \in Symbols, m \in Prices : MarketMoves(s, m)
  \/ Trigger
  \/ Tick
  \/ \E o \in Outages : OutageChanges(o)

Spec == Init /\ [][Next]_vars

---------------------------------------------------------------------------
(* Properties *)

\* The account is never overdrawn or short, and the lists of the risk engine
\* stay within their limits.
TypeOK ==
  /\ cash \in Nat /\ reserved \in Nat /\ resting \in Seq([symbol : Symbols,
        side : {"BUY", "SELL"}, type : {"LIMIT", "STOP_LOSS", "TAKE_PROFIT"},
        qty : Nat \ {0}, price : Nat, held : Nat])
  /\ qty \in [Symbols -> Nat] /\ current \in [Symbols -> Nat] /\ mark \in [Symbols -> Prices]
  /\ clock \in 0..MaxClock /\ dataTs \in 0..clock
  /\ closed \subseteq Outages \cup {"database"}
  /\ recent \in Seq(0..clock) /\ Len(recent) <= MaxPerWindow
  /\ losses \in [Paths -> 0..MaxLosses] /\ peak \in [Paths -> Nat]
  /\ booking \in [Cyclers -> SUBSET Outcomes] /\ closing.passes \in 0..4
  /\ Len(accepted) <= MaxAccepted /\ events \in 0..MaxEvents /\ streak \in Nat

\* However manual orders and signals interleave, no window of a minute, not only
\* those the pruned list was looked at in, has more accepted orders than
\* max_orders_per_minute.
RateLimited ==
  \A t \in 0..clock :
    Cardinality({i \in DOMAIN accepted : accepted[i] \in t..(t + Window)}) <= MaxPerWindow

\* order_cooldown_seconds keeps any two orders apart, whichever paths they come by,
\* as far as the list reaches that the rate limit prunes: two that are farther
\* apart than its minute may be closer than a longer cooldown.
CooldownKept ==
  \A i, j \in DOMAIN accepted :
    i < j => accepted[j] - accepted[i] >= Lesser(settings.cooldown, Window + 1)

\* max_consecutive_losses holds per path, and for the exits that were filled as the
\* paths submitted them: a run of losing ones with no gaining sale in between,
\* however the count of one overlaps other sales, is at most that limit times the
\* number of paths.  What resting orders lose is in no count and not in this run.
LossesBounded == streak <= MaxLosses * Cardinality(Paths)

\* No order is accepted in live mode, whichever way the process was started and
\* whatever else the environment says.
NeverLive == accepted # <<>> => settings.mode # "live"

\* An order that fills as it is submitted leaves the portfolio within
\* max_portfolio_exposure of the equity, whatever is held and whatever rests, if it
\* was sized by no less than the mark and no held symbol is marked higher than the
\* one bought.  (evaluate values all positions at the mark of the latter.)  A resting
\* buy may pass the limit when it fills: nothing looks at its size again.
ExposureCapped ==
  [][\A s \in Symbols :
       (/\ qty'[s] > qty[s] /\ \A u \in Held : mark[u] <= mark[s]
        /\ \/ \E ticket \in Tickets :
                Price(Request(s, ticket)) >= mark[s] /\ PlaceOrder(s, ticket)
           \/ \E c \in Cyclers : SignalActs(c, s, "BUY"))
         => 100 * Exposure(qty') <= PortfolioPct * Equity]_vars

\* An exit is not sliced as long as the position is within max_position_exposure
\* and leaves the portfolio room: if risk accepts the pass at all, it sells it all.
ExitsWhole ==
  [][\A s \in Symbols :
       (/\ closing.symbol = s /\ closing' # closing /\ qty'[s] < qty[s]
        /\ 100 * qty[s] * mark[s] <= PositionPct * Equity
        /\ 100 * (NotionalAt(mark[s]) + qty[s] * mark[s]) <= PortfolioPct * Equity)
         => qty'[s] = 0]_vars
=============================================================================
