# Verification of the paper-trading core

TLA+ modules for the trading core of this repository (`src/app`): a paper-trading
service that evaluates a strategy on every closed candle, passes its orders through
a risk engine to a simulated execution engine, and keeps ledger, journal and operator
controls in a database so that a restart continues where the process stopped. Live
trading is switched off in the code; everything below is about the paper path.

Paths are relative to `src/app/` unless they start with `src/`.

## 1. Inventory

The service is one asyncio event loop (FastAPI handlers, a scheduler task, a
reconciliation task, background persist tasks, a websocket task), so code interleaves only
at `await`s. State lives in module-level singletons (`PaperSession`, one orchestrator per
strategy, `_PROCESSED_CYCLE_KEYS`, `risk_engine`, `_TASK`) and in the database.

| Component | State | Operations | Talks to | What is hard | What makes it correct |
|---|---|---|---|---|---|
| Execution engine `execution/paper/engine.py` | cash, reserved cash, positions, orders, fill list, marks | `submit`, `set_mark_price`, `cancel`, `expire` | called by the gateway | a reservation is made once and released piecemeal by many paths; a fill is listed before it is applied | solvency, reservations = sum of holdings, fills explain the account |
| Accounting invariants `accounting/invariants.py` | none | checks | called after a cycle | a violation stops trading | must be implied by the engine |
| Reconciliation `services/reconciliation.py` | `reconciliation_healthy`, last report | `run_paper_reconciliation`, reset | reads the ledger, gates the risk engine | rebuilds the cash from a fill list that may be incomplete | halts only for a real discrepancy |
| Paper cycle `services/paper_cycle.py` | `_PROCESSED_CYCLE_KEYS` | `run_paper_trading_cycle` | orchestrator, lock, journal, persistence, reconciliation | some fifteen awaits; each may interleave, fail, or be the last | one trade per candle, in order; fail closed |
| Orchestrator `services/trading_orchestrator.py` | last candle, seen candles, buffer, copy of the kill switch, loss counter | `prime_history`, `process_candle` | strategy, risk engine, gateway, journal | shared between cycles | no replayed candle is acted on |
| Cycle lock `services/cycle_lock.py` | table `cycle_locks` | `acquire`, `release` | paper cycle | expiry, takeover, release by key | must not be what safety rests on |
| Journal `journal/store.py` | tables of signals, orders, fills | `record_*`, `list_*` | orchestrator; read by hydration | commits before the cycle key; reads are limited | fills survive a crash |
| Durable state `services/paper_persistence.py`, `db/base.py` | `system_state`, `risk_state`, checkpoint, balances, snapshots | `save_*`, `load_*` | session, cycle, scheduler | several transactions describe one moment | a restart sees a consistent moment |
| Session and controls `services/paper_session.py` | kill switch, pause, trading enabled, engine | `set_*`, `place_order`, `close_position`, `run_strategy_tick`, `persist`, `hydrate`, `bootstrap`, `reset` | everything | memory, two database copies and a copy in the orchestrator | a control holds, and survives a restart |
| Lifecycle, health `main.py` | `database_healthy` | startup, shutdown, probes, reconciliation timer | risk engine, scheduler | a probe clears a flag that something else relies on | no trading on an unhydrated ledger |
| Risk engine `risk/engine.py` | seen keys, rate window | `evaluate` | gateway, orchestrator | limits at the boundary, shared by two paths with loss counters of their own | no order past a halt or a limit |
| Gateway `execution/gateway.py` | none | `submit` | risk engine, engine | | every order was evaluated |
| Scheduler `services/trading_scheduler.py` | task, stop event, overlap guard, failure counter | `start`, `stop`, `pause`, `resume`, loop | paper cycle, session | cancellation in the middle of a cycle, start during stop, liveness | keeps trying, stops when told, never two cycles at once |
| Market data `market_data/*`, `services/market_sources.py` | subscriptions, ids, last sequence, last success | connect, receive, fall back, validate | paper cycle, views | reconnects, lost and reordered messages, staleness | subscriptions agree, holes are noticed, health is honest |
| Backtesting `backtesting/*` | cash, position, trades, equity curve | `run`, `compute_metrics` | strategies | order of stop, target and signal within a candle | trades explain the cash, metrics agree with their definitions |
| Strategies, indicators | none | `evaluate` | orchestrator, backtest | comparisons at the edge | never long against the averages |
| Analytics `analytics/*` | `closed_trades` | record, `compute`, `strategy_rankings` | session, orchestrator | written apart from the ledger | closed trades explain the account |
| Live gate, safety `core/*`, `execution/live_gate.py` | settings | predicates | startup, risk engine | each setting has its own normalisation | live trading unreachable |
| Portfolio views, API, auth, AI, news, front end | requests | handlers | session, cycle | which handler checks what | |

`PROJECT.json` lists the same components with their status, and under `hazards` what
is hard to test in them, each at its line.

## 2. Modules

| Module | Models | Run(s) |
|---|---|---|
| `Sums` | the sum of a function over `1..n`, as a recursive function | |
| `PaperEngine` | the execution engine | `engine` |
| `Reconciliation` | composes `PaperEngine` (extends it, adds a variable) with reconciliation, the risk engine's halt and cash checks, the gateway and the operator's reset | `reconciliation` |
| `TradeLog` | abstract: one trader that walks through the candles once | `cycle` |
| `PaperCycle` | cycles in one event loop with lock table, journal, durable keys and checkpoint, reconciliation, crashes and hydration; implements `TradeLog` | `cycle`, `cycle_faults`, `double_fill` |
| `ControlPlane` | kill switch, pause and `trading_enabled`: operators, background writes, requests, overlapping transactions, crashes | `controls`, `kill_orders` |
| `Scheduler` | the loop tasks, their guard and failure pause, start, stop and cancellation | `scheduler` |
| `RiskGate` | `RiskEngine.evaluate` for the contexts its callers build, with the gateway, manual orders that fill or rest, closes and signals that share it, and the settings a process may start with | `risk` |
| `Ledger` | journal, checkpoint and closed trades of the same orders, written at different moments, and what a restart makes of them | `ledger` |
| `Performance`, `Stats` | the performance engine over the closed trades; sums, streaks, drawdown, rationals | `ledger`, `backtest` |
| `Strategies`, `Backtest` | the five strategies with their indicators; the backtest's bar loop and metrics | `backtest` |
| `Feed`, `MarketHub` | the websocket client; candle validation and the hub's health | `market_data` |
| `MC*` | instances for TLC | |
| `SumTheorems` | theorems on sums | |
| `PaperEngineProofs`, `PaperCycleProofs`, `ControlPlaneProofs`, `RiskGateProofs`, `LedgerProofs`, `BacktestProofs` | theorems and proofs about the module they are named after; the first also about `Reconciliation` | |
| `TaskProofs` | theorems and proofs about the background tasks: `Scheduler`, `Feed` and `MarketHub` | |

### PaperEngine

`state` is `PaperState`; `mark` is `config.mark_prices`; `count` is the number of
orders created; `due` holds the orders that the running loop of `_try_trigger_resting`
has still to look at. `Submit` and `SubmitRefused` are `submit` (accepted path and
early `REJECTED`s), `SetMarkPrice` with `TriggerResting` is `set_mark_price`,
`Cancel` and `Expire` are the methods of those names. Helpers keep the shape of the
code's: `ReserveBuy`, `Release`, `ApplyFill` (= `BookFill` then `ApplyBuy` or
`ApplySell`), `ExecuteFill`.

Abstractions. Quantities, prices and money are integers, so that a price times a quantity is
exact, as it is in the code's Decimals. `Tick` of these units make the `0.00000001` of `quantize`:
`Rounded` takes an amount to the next tick, ties to even, as `_reserve_buy` does with the reserve
(`engine.py:121`) and `_apply_fill` with the share a fill consumes (`:455`) and with its fee. A live buy
therefore holds the share of its unfilled rest only up to half a tick per fill (`Drift`), which is what
`LiveBuysStayReserved` says. Rates are per cent. Price 0 is `None`: the code tests prices with `or`.
The fill list is kept as three figures per order (how many fills, the quantity and the cash they
attribute to it), written where the code appends to `state.fills`
and not where it moves the cash. Every method is one action: `latency_ms` is 0 in each
configuration the application builds. Realised P&L and average prices are left out.
`cancel` and `expire` have no caller in the application and `partial_fill_fraction`
below 1 is only configured by tests; both are modelled since they are the engine's
interface.

### Reconciliation

`Reconcile` is `run_paper_reconciliation`: sanity of cash and positions, whether the
fill list is complete (`LedgerComplete`), and the drift between the rebuilt and the
actual cash (`DriftOk`, with the code's tolerance). `Approves` is the part of
`RiskEngine.evaluate` that consults the ledger and the halt; `ClearHalt` is the
operator's reset. The accounting check of a cycle,
`check_cycle_invariants`, asks of a ledger what `Solvent`, `ReservationsBalance` and
`NoStaleReservation` state of the engine, so it has no definition of its own here; in `Ledger` it is a step.

### PaperCycle and TradeLog

A cycle's `pc` names the await it is at; an action is what runs between two awaits:

| Action | Code |
|---|---|
| `Start`, `Fetch`, `FetchFails`, `Loaded` | halt check, candles, the replay check against `_PROCESSED_CYCLE_KEYS` |
| `LockGet`, `LockTake`, `LockFails` | `acquire_cycle_lock`: read the row, then insert or take over an expired one |
| `Process`, `StrategyRaises`, `EvaluateRaises` | priming and `process_candle`: acceptance, verdict (a strategy that raises is none), pause, risk, fill |
| `Journal`, `JournalFails` | the journal's commit, whose errors `_guarded` drops |
| `Mark` | `_PROCESSED_CYCLE_KEYS` in memory |
| `ExportKeys`, `CommitKeys` | the keys are read, and committed some awaits later |
| `StageSession`, `CommitSession` | `persist_paper_session`: pause and checkpoint staged, then committed |
| `PersistFails` | `_fail_closed_persistence` |
| `Reconcile`, `ReconcileFails`, `ReconcileTimer` | reconciliation at the end of a cycle and on the timer |
| `ReleaseGet`, `ReleaseDelete`, `ReleaseFails` | `release_cycle_lock`, by primary key after a separate read |
| `LockExpires`, `CandleCloses`, `HealDatabase` | time, the market, a health probe |
| `Crash`, `Boot`, `BootFails` | process death; `bootstrap_paper_runtime` to its end, and one that raises on the way |

One symbol, strategy and timeframe. A candle is its position in time; the strategy is
one fixed verdict per candle, chosen initially, since evaluating a window again gives
the same signal. An order is a MARKET order of one unit that fills at once, as such
orders do in `PaperEngine` with full fills (`engine`); for the same reason the cycle's
call of `check_cycle_invariants` is not a step of its own here (see `Ledger`). The
operator's resume is not part of this module, so `FailClosed` reads "until an operator resumes".

A start may fail in three ways. A journal that cannot be read is swallowed and the checkpoint stands in
(`Hydrated`); a reconciliation that raises pauses trading; any other exception leaves whatever was
hydrated by then (`HalfHydrated`, the whole ledger included) without the cycle keys, with `database_healthy` cleared
until a probe sets it again (`BootFails`). `mem.keyed` says whether the start loaded the keys.

`TradeLog` knows no cycles, locks or keys: trades come on ever later candles, entries and
exits take turns, and each moves the account of its moment. `ImplementsTradeLog` is the
refinement (`INSTANCE TradeLog WITH cash <- ledger.cash, ...`), for the life of one process.

### ControlPlane

`kill`, `paused`, `enabled` are the session's flags, `orchKill` the copy in the orchestrator,
`db` the durable places (`system_state` for all three, `risk_state` for the switch). `tasks`
are the background writes, each a transaction of its own that may commit in any order or fail.
A request is a cycle started by one of the handlers (`RunCycle`, `TradingCycle`; which of
them ask for the switch, the pause and `trading_enabled` is in their guards), a cycle of
`run_strategy_tick`, which does not check the switch before it starts, or a manual order.
`persist_paper_session` is `StageControls`, `Flush` (from here on the transaction
keeps other writers out), `StageRisk`, `Commit`. `database_healthy` is not part of
it: it only refuses more orders.

### Scheduler

`loop[t]` is where task `t` running `_loop` stands; `task` is `_TASK`, `stop` is `_STOP`,
`guard` the holder of `_OVERLAP_GUARD`, `failures` and `tripped` the failure counter and
`_PAUSED_BY_FAILURES`. `LoopTop` is one turn up to the cycle's first await;
`CycleReturns`, `CycleRaises`, `FailureRecorded` (the row of the failed run, then the look at
the threshold), `Disposed` (the `finally`) are the rest of it. `Cancelled` and `Unwound` are
a `CancelledError` delivered at whatever await the task is at and on its way through the `finally`.
`StopBegins` (by `TradingStop` or `Shutdown`), `StopTimesOut`, `StopReturns` are
`stop_scheduler`. A wait may end at any moment, so interval and backoff do not appear; what a
cycle does inside is `PaperCycle`.

### RiskGate

One risk engine and one account, ordered on by manual orders (`PlaceOrder`), closes in up to
four slices (`CloseBegins`, `ClosePass`) and signals of the orchestrators (`SignalActs`, then
`ExitCounted` after the journal's awaits). `Admissible` lists the refusals of `evaluate`
in so far as they do not depend on the size, `Sized` the three reductions, `Approved` both with
the cash check; `Submit` is `OrderGateway.submit` with the engine's fill. `PortfolioState`
is `_portfolio_state` of session and orchestrator, each with its own peak and loss counter.
`Settings` is what `Settings` makes of an environment: normalised modes,
`derive_runtime_mode`, `assert_startup_safe`, `assert_paper_only`, the refusal of a leverage.

`PlaceOrder` takes what a request may ask for (`Tickets`): any side and type, with or without a price, a stop
and a target. `EngineSubmit` is the engine's `submit` for it: reserve, be refused for want of a trigger, rest, or fill.
A resting order fills in `Trigger` when a mark reaches its price, out of what it reserved, past `evaluate` and past every
count, as in `set_mark_price`. `Equity` values positions at `current_price`, which a fill sets to its own price and a
mark update to the mark; the limits of `evaluate` are computed at the mark, cost and size at the order's price.

Abstractions. Orders fill whole, in whole units; cancels, partial fills and rounding are `PaperEngine`'s. Whether
an exit realises a loss or a gain is a choice. A candle is a tick of the clock. No caller of `evaluate` passes a
`symbol_info` or a live approval, so the precision checks (`risk/engine.py:184-210`) and an approved live order are out of
reach of the program and are left out.

### Ledger

The same trade is recorded three times: journal rows (`JournalOrder`, `JournalFill`, of
cycles only), closed trades (`RecordManualTrade`, `RecordCycleTrade`) and the checkpoint
(`PersistManual`, `PersistCycle`). Each write is a step that may fail, and a crash or reset
may come between any two. `Bootstrap` hydrates as the code does: account from the
checkpoint, orders and fills from the journal's newest rows if it has any and from the
checkpoint otherwise (`RestoredOrders`, `RestoredFills`), keys from `risk_state` and from
the orders; then it reconciles. A journal that cannot be read is swallowed (`readable`), a reconciliation that
raises halts (`reconciled`), and `StartFails` is the `except` around it all: the process goes on with an empty, half or
wholly hydrated session (`HalfHydrated`) until `/health` makes it healthy again. `PersistCycle` includes the accounting check and the
reconciliation. `PaperReset` replaces the session while an order may be under way: `orphan`
is the engine a cycle still works on.

`causes` is a history variable: what has happened that really separates the records. The
properties say that these are the only reasons for the records to disagree.

A resting BUY reserves its notional and nothing for its fee, so it may fail at its trigger when other orders hold the
rest of the cash; like a sell that finds no position it leaves its fill behind (`Filled`, the cause `phantom`).

One symbol, one unit per order, MARKET and LIMIT orders, one fee rate.

### Strategies, Backtest, Performance, Stats

Pure algorithms as operators: averages, RSI and ATR are exact rationals, a price that may be
absent is a set of at most one. `Backtest` takes one step per candle (`ProcessBar`: stop and
target, mark, equity, signal, entry or exit, in the code's order), `Finish` is the forced close
with `compute_metrics`. The reference definitions are in the properties: the longest run by
definition, a worst fall that some two points of the curve really make, the candles with a position plus the
re-entries, the first candle that touches. `Performance` is checked on every list of closed trades
`Ledger` produces; the net of a strategy is rounded to the cent (`Cents`) before it is ranked, the total is not.

### Feed and MarketHub

`Feed` has the runs of the websocket client's task: `RunLoop`, `Connects`, `Subscribes`, `Listens`,
`Sent`, `Loses`, `BackoffEnds`, `FallsBack` are the awaits of `_run_loop`, `with_exponential_backoff`
and `_connect_and_consume`; `Start` and the parts of `stop` (`StopCloses`, `StopCancels`, `StopEnds`) may come at any time;
the exception of a task that has raised leaves `stop` with `_task` and `connected` as they are.
`subscribe` adds the symbol first and then awaits the send (`Subscribes` and `Sent`, `Commands`): a send that raises leaves
the symbol subscribed, and the next connection asks for `subscriptions` alone (`client.py:117`). Transport and exchange are
external (`wire`): connections are refused and dropped; a request that was sent arrives later, in the order of the
sends (`Arrives`), or is lost with its connection; a send raises only when its connection is gone; messages
arrive late, twice, in any order or not. One `stop` runs at a time. `MarketHub` is `load_closed_validated` over any
short list of candles. The two share no variable; `MCMarketData` runs either.

## 3. Runs

| Run | Shows |
|---|---|
| `engine` | Three orders of every type and side that fill by halves, rest, fail, are cancelled and expire: `Solvent`, `ReservationsBalance`, `LiveBuysStayReserved`, `FillsWithinOrder`, `FillsExplainAccount`, `TerminalIsFinal`, `OnlyFillsMoveMoney`. |
| `reconciliation` | Four orders filled whole: no terminal order keeps a reservation (`NoStaleReservation`), and reconciliation halts only a ledger that lists a fill which was never applied (`HaltNeedsPhantom`). |
| `cycle` | `OneTradePerCandle` and `ImplementsTradeLog`: three cycles over two candles, with locks that expire, are taken over and are released by the wrong cycle. |
| `cycle_faults` | `FailClosed` and `KeysHonoured` with two faults anywhere, a crash anywhere and starts that fail anywhere on the way. |
| `double_fill` (violation) | A crash between the journal's commit and the keys' commit: the candle is traded twice. |
| `controls` | `KillDurable` with overlapping transactions, one failure, one crash. |
| `kill_orders` (violation) | A cycle acts on a stale copy of the kill switch. |
| `scheduler` | `NoOverlap` whatever loops `_TASK` has lost; a stop returns although the cycle hangs (`StopTerminates`) and ends every loop (`StopEndsLoops`); failures trip the pause (`FailuresTrip`) and nothing else ends the trading (`KeepsTrading`). |
| `risk` | `RateLimited`, `CooldownKept`, `LossesBounded`, `ExposureCapped`, `ExitsWhole` with orders from two paths, some of which rest and fill later, marks that move and outages; `NeverLive` from seven environments. |
| `ledger` | `HaltHasCause`, `ReservedBacked`, `KeysSurvive`, `TradesExplainCash`, `ReportsAgree` with one failed write, unreadable journal or failed start, one crash and one reset. |
| `backtest` | `CashExplained`, `FirstTouch`, `NeverAgainstTrend`, `ReportFaithful` over every series of six candles, five strategies. |
| `market_data` | `SubscriptionsAgree`, `GapsNoticed`, `FeedRecovers`, `HubHonest`. |

Every property of a passing run has a mutant: a plausible bug (a missing release, a
dropped check, a missing rollback ...) that makes it fail under the same configuration.

### Bounds

* `engine`: three orders are a position, an order that consumes it and one that comes
  too late, or two reservations and an order that competes for the rest of the cash.
  Two marks give every order type both sides of its trigger. Cash 70 pays for some
  combinations of requests and not for others; quantity 4 at half fills in three parts and
  leaves a rest too small to fill; the rates of 10 per cent show in
  the fills. A tick of three units rounds reserves, shares and fees both up and down.
* `reconciliation`: four orders, since the failing sell needs an entry, two exits and
  room for another order after the halt.
* `cycle`: three cycles, since a lock released by the wrong owner needs a third cycle
  that takes it; two candles, an entry and an exit, so that a late replay would act.
* `cycle_faults`: two cycles, all verdicts on two candles, `MaxFaults = 2` (a failed
  write and a failure in the handling of it), `MaxCrashes = 1`.
* `controls`: two requests are enough for two overlapping transactions; two commands,
  one failure, one crash. Operators only engage the switch in this run: with
  both commands the unordered background writes lose it (see `hazards`).
* `scheduler`: three tasks and two stops, so that a start during a stop leaves a lost loop and
  the next start another beside it; a threshold of two; three commands around them.
* `risk`: a window of one tick in a clock of two, so that an order leaves it; two orders
  per window of four; one loss per path; two market moves, up and down again, or a move and
  an outage. The tickets are a MARKET buy with a price of its own, a LIMIT buy and a STOP_LOSS sell that rest or
  fill at once, depending on the mark; three sells of one unit make a run of losses longer than the limits allow.
  A quantity of 3 is within the limits at the low mark and reduced at the high one. Cooldowns of none, one tick (within the
  window) and three (beyond it). Slippage and fee of 0.5 per cent make `current_price` differ from the mark.
* `ledger`: four orders are an entry and an exit on each path; five events leave one for the
  crash. Journal limit 2 and key cap 1 are exceeded by three orders. Cash 130 lets a
  second purchase compete with a reservation and leave nothing for its fee. A cent of 100 ticks rounds the fees.
* `backtest`: periods of one and two candles and five kinds of candle; six candles are an entry, an
  exit and another entry for each strategy, with averages that touch on the way.
* `market_data`: two symbols, two attempts per backoff, three faults, two starts, two requests; three messages of
  which one is remembered; three candles out of six. Numbers of messages and subscriptions do not meet in the client, so
  `MCMarketData` lets a behaviour with more than one message have no requests and none with overlapping starts have
  requests.

Cycles, requests and symbols are interchangeable (`SYMMETRY`; no liveness is checked with
it). Runs that end when their cycles, candles, commands or events are used up do not
check for deadlock. The engine's runs do: a mark may always be set.

### Fairness

`Scheduler`: weak fairness of the steps of each loop task other than the cycle itself, of the
stop's timer and of its return. asyncio runs every ready task and every timer that is due, and
the awaits outside the cycle (one row, `dispose`) are taken to end. Nothing is assumed of the cycle: its
source may hang, which is why `StopEndsLoops` says "unless a cycle hangs" and
`StopTerminates` does not need to.

`Feed`: weak fairness of the steps of each run of the task: sleeps end, a connection that is not
refused is made, sends and callbacks return, `send` and `recv` on a lost connection raise, a cancelled task ends. Refusals and drops are bounded
(`MaxFaults`), so `FeedRecovers` means: once the exchange stays reachable.

The other specifications have safety properties only and assume no fairness.

## 4. Proofs

Seven modules hold the theorems, each about the modules it extends; `SumTheorems` holds the facts
on sums they share. Every theorem has the form `Spec => []Inv` or `Spec => [][A]_vars`, for every value of
the constants, except where a hypothesis is named.

| Module | Theorem | Statement |
|---|---|---|
| `PaperEngineProofs` | `Invariance`, `TypeCorrect` | `IInv`; `TypeOK` |
| | `SolventAlways` | cash, reserve and positions are never negative |
| | `ReservationsAlwaysBalance` | `reserved_cash` is the sum of what the orders hold |
| | `LiveBuysAlwaysReserved` | a buy that can still fill holds the share of its unfilled rest, to half a tick per fill |
| | `FillsAlwaysWithinOrder` | no order gets more than it asked for; statuses agree with quantities |
| | `FillsAlwaysExplainAccount` | while no fill failed, cash and positions can be rebuilt from the fills |
| | `NoStaleWithoutDust` | given `NoDust`, no terminal order holds a reservation |
| | `TerminalStaysFinal` | terminal orders never change, filled quantities never shrink |
| | `MoneyMovesByFills` | total cash changes only with a filled quantity |
| | `ImplementsEngine` | `Reconciliation` implements `PaperEngine`: `RSpec => Spec` |
| | `HaltAlwaysNeedsPhantom` | reconciliation halts only where a listed fill was never applied |
| `PaperCycleProofs` | `Invariance`, `TypeCorrect` | `IInv`; `TypeOK` |
| | `OneTradeAlways` | one process trades no candle twice |
| | `FailClosedAlways` | after a failed durable write of a cycle no further order is placed |
| | `KeysHonouredAlways` | a process whose start loaded the keys trades no candle whose key is durable |
| | `RefinesTradeLog` | given `MaxCrashes = 0`, the cycles implement `TradeLog` |
| `ControlPlaneProofs` | `BaseInvariance`, `TypeCorrect` | `Base`; `TypeOK` |
| | `KillDurableAlways` | given `KillCommands \subseteq {TRUE}`, a restart after the writes engages the switch |
| `TaskProofs` (`Scheduler`) | `Invariance`, `TypeCorrect` | `IInv`; `TypeOK` |
| | `NoOverlapAlways` | two loops never run a cycle at once |
| | `GuardNeverLost` | a held guard has a loop inside its cycle that will release it |
| (`Feed`) | `GapsAlwaysNoticed` | without a counted gap every number up to the highest was received |
| | `SubscriptionsAlwaysAgree` | a client that listens with nothing on its way, never started twice at once or during a stop, is sent what it asked for |
| (`MarketHub`) | `HubAlwaysHonest` | a healthy hub was last given a whole series, for every list of candles |
| `RiskGateProofs` | `NeverLiveAlways` | nothing is ordered in live mode, whatever the settings |
| | `RateAlwaysLimited` | a window holds at most the permitted number of orders |
| | `CooldownAlwaysKept` | accepted orders are the cooldown apart, or more than the window |
| | `LossesAlwaysBounded` | a run of losses of exits filled as submitted is at most the limit times the number of paths |
| | `ExposureAlwaysCapped` | a buy filled as submitted leaves the portfolio within its limit if sized by no less than the mark and no held symbol has a higher one |
| | `ExitsAlwaysWhole` | an accepted exit within the limits sells the whole position |
| | `AccountAlwaysSound` | cash, reserved cash and positions are never negative, resting orders well formed |
| `LedgerProofs` | `LedgerAlwaysTyped` | the records keep their types |
| | `KeysAlwaysSurvive` | a session put together from the journal knows the key of every order among its newest |
| | `ReservedAlwaysBacked` | reserved cash belongs to open buys, unless a listed cause separated the records |
| | `HaltAlwaysHasCause` | a reconciliation halts only after a listed cause |
| `BacktestProofs` | `FirstTouchAlways` | a trade leaves at the first candle that touches stop or target, the stop first |
| | `NeverAgainstTrendAlways` | a strategy that leaves on the cross under never holds below it |
| | `CashAlwaysExplained` | trades, entry fees and the open position explain the cash |
| | `ReportAlwaysFaithful` | streaks, drawdown, exposure and net profit of the report agree with their definitions |

### Assumptions

Those the modules state on their constants (`ASSUME`s with the suffix `Assumption`), which TLC
evaluates in each run. They bound rates to 0..100 per cent (the
engine's fees to 50, since a larger one could round up past a payment below one tick), say that prices and amounts are
numbers, that the sets of actors, paths and symbols are finite where a proof counts or sums over
them, and that "nobody" is not an actor. `ImpactAssumption` (paper
engine) and `CostsAssumption` (backtest) say that the costs of a sale do not exceed its price; the backtest does not
check its rates, and with higher ones its equity could be negative and a fall in per cent of it would mean nothing. Three theorems have a hypothesis besides:

* `NoDust` marks a real boundary: with `partial_fill_fraction` below 1, an order whose
  first fill rounds to zero becomes `FAILED` and keeps its reservation for ever
  (`execution/paper/engine.py:403`), against "Terminal orders must not still hold an open
  reservation" (`accounting/invariants.py:222`). The application never configures it.
* `MaxCrashes = 0` in `RefinesTradeLog`: across a crash between journal and durable key the code
  does trade a candle twice, which the run `double_fill` shows.
* `KillCommands \subseteq {TRUE}` in `KillDurableAlways`: the property is about operators who engage the
  switch. If one disengages it while others engage it, the last command wins by design.

### Arguments

None of the properties is inductive alone. The invariants that carry them:

* **PaperEngine.** `IInv` joins the account (types, no negative amount, `reserved_cash` =
  sum of `remaining`), the orders not yet created being blank, `OrderInv` for every order, and the
  orders in `due` being fillable. The balance is needed for solvency: releasing an order's
  `remaining` keeps `reserved_cash` non-negative only if it is a summand of it. `OrderInv` is
  needed for `FillsWithinOrder`: a fill of at most what is open keeps the total within the order only if
  the total was within it; and `Covered(o)`, the reserve of a live buy and how far rounding may have moved it, is part of it. The lemmas follow the helpers
  (`ReleaseKeeps`, `ReserveBuyKeeps`, `BookFillKeeps`, `ApplyBuyKeeps`, `ApplySellKeeps`, `FillKeeps`, ...):
  each says that the helper preserves the account, touches one order only (`Frame`) and what it
  does to the total. Each action has a lemma that chains those of its helpers.
* **Reconciliation.** Each step of the composition is a step of the engine or leaves it alone,
  so `IInv` carries over. A balanced account whose fills were all applied passes the check.
* **PaperCycle.** `TypeOK /\ Control`. `Control` ties what a cycle has read before an await to what
  the process knows after it: a cycle works on a closed candle (`TargetsClosed`), one it has handed to
  `process_candle` is remembered (`ProcessedSeen`), a key that appeared after a cycle looked for it belongs to a
  candle that will be rejected (`LateKeysSeen`), keys on their way to the database and those in it are in memory
  (`ExportedKnown`, `DurableKnown`), a failed write leaves trading paused (`FailedPaused`), the fills of the
  first process ascend (`FillsAscend`). Locks do not occur in it: the proof confirms that one trade per candle rests on
  the orchestrator's comparison and on the absence of an await from there to the fill.
* **ControlPlane.** `Base` (types, orders counted, nothing left after a crash) and `Engaged`: tasks only engage;
  an engaged switch is stored or a task is still to store it (`KillStored`); and a transaction about to
  overwrite both places it is stored in has read it engaged in one of them, or a task will store it afterwards (`KillStaged`).
  The last part is what overlapping transactions would break, and the second copy in `risk_state` is why they do not.
* **Scheduler.** `InsideHolds` (a task in its cycle holds the guard) and `HolderInside` (who holds
  the guard is in its cycle): the first gives `NoOverlap`, both are needed for induction, since
  a cancelled task releases the guard.
* **RiskGate.** `RateInv`: the engine remembers every order that is still within the window
  (`Remembers`), times ascend, and orders `MaxPerWindow` apart in the list are more than a window apart (`Spaced`).
  `CooldownKept` follows with the same fact about the list: what pruning leaves are the accepted orders from some point on, and those
  before it are more than the window away from the new one.
  `LossInv`: the streak is at most the sum, over the paths, of what each has counted or has still to
  count, and a path that has something to count is below its limit (`RoomToCount`); the paths are a set, so the proof
  sums over an enumeration of it. The sale of a resting order only widens what a path may come to count.
  `ExposureCapped` and `ExitsWhole` are action properties: from `AccountOK` (no negative amount, a close under way
  names a symbol), each reduction of `Sized` is at most its limit (a quotient times its divisor is at most the dividend),
  so cost and exposure after the fill are bounded by those the reductions were computed with, as long as the price of the order is no less than the mark; valuing all positions at
  the mark of the symbol bought bounds their true value from above just where the property says so.
* **Ledger.** Three invariants. `Typed`: the checkpoint is one row, orders and fills are finite sets, a ledger that a
  reset left behind goes with its cycle, a process that is down has no order under way. `KeysHeld`: every order
  in memory has its key there, and so have the journal's newest rows in a session that was put together from them.
  `RecordsAgree`: as long as no cause has separated them (`Whole`), each ledger, the session's and the checkpoint's, is
  one that a sequence of orders can have left (`Fit`: reserved cash is the sum over its open buys, and without a phantom
  fill its cash can be rebuilt from its fills); and as long as there was no reset, the session and the journal know
  the same fills of cycles but for the order under way (`Journalled`), and so do checkpoint and journal between cycles
  (`Checkpointed`). The last part is why a restart that takes the account from one place and the orders and fills from
  another still gets a ledger that fits. Each helper has a lemma saying which of these it keeps (`Advances`, `Extends`), and the loop over resting orders is solved
  by least counterexample over its steps.
* **Feed.** `Unbroken`: the numbers received without a hole reach the last message. `SubInv`: without overlapping starts there
  is one run, and its program counter tells which of client and exchange know a subscription.
* **MarketHub.** `HubInv` needs one fact about data: `Validated(s) <=> Whole(s)` for every list (`ValidatedIsWhole`). `Whole`
  says that the times are distinct and form an unbroken grid; the code sorts and compares neighbours. The sorted
  list exists for every list (`SortExists`, by removing a greatest element), neighbours one step apart make the times an
  arithmetic progression (`ChainedIs`), and a gapless set of times has no neighbours further apart.
* **Backtest.** `TouchInv`: no candle since the entry touched the open position's levels.
  `TrendInv`: a strategy that holds a position has candles enough to decide, so that it cannot hold by default
  on the candle of the cross. `CashInv`: the account's amounts are
  integers, because the levels a strategy suggests are; the recurrences of `Ema` and `Smoothed`
  are solved by least counterexample. `RunInv` adds what the report needs of a run: each trade is entered no earlier than
  the one before was left (`Spans`), cash and equity are not negative (`Solvent`: a purchase is paid from the cash, a hit
  stop is not below the low, and the guards on the ATR keep a target above the close), and the report is the one of the final
  account. The rest is about data, for lists of every length: the pass of `_max_streak` finds the longest run
  (`StreakIsLongest`), the pass with a moving peak finds the worst fall between any two points (`DrawdownIsWorst`),
  wins and losses add up to all results (`GrossAddsUp`), and the candles counted in trades that follow each other
  exceed the series only by the re-entries (`InTradeBound`).

`SumTheorems` has the facts on sums (non-negative, bounded below by a summand, effect of changing one
argument), also proved by least counterexample from the well-foundedness of `<` on the naturals.

The proofs corrected one definition and reshaped some others. `NetQuantity` had a `CASE` with overlapping
guards, of which TLA+ does not say that the first one counts. `Pruned`, `Candle`, `OpenCost` and `Sold` say what
they said before without `SelectSeq`, `@@` and sums over sets, whose definitions the prover cannot expand; `TriggerAll`,
`HydratedAccount`, `SortedByTime`, `MarketHub!Closed`, `MaxStreak` and `MaxDrawdown` likewise, as recursive functions
and explicit records.

### Only model-checked

* Liveness under fairness (`StopTerminates`, `StopEndsLoops`, `FailuresTrip`, `KeepsTrading`,
  `FeedRecovers`): out of the prover's reach, as is `ENABLED`.
* `ReportsAgree`: the performance engine's aggregates are sums over sequences it filters (`SelectSeq`), which the
  prover cannot expand.
* `TradesExplainCash`: the average entry price of a position bought at two prices is rounded down in the model, where
  the code has Decimals; the instance is chosen so that the averages are exact, which the statement for all prices is not.
* The type invariants of `RiskGate`, `Feed` and `Backtest` beyond what the invariants above contain.

## 5. Findings

`PROJECT.json` quotes the line each of the two violations disagrees with.

* `double_fill`: the fill is journalled before the cycle key is durable.
* `kill_orders`: the kill switch of a cycle is a copy from before its awaits.

Met while modelling, where no line of the repository promises the contrary or the
models state it as the exception of a property:

* A resting sell that fails stays in the fill list and makes reconciliation halt a sound
  account (the exception of `HaltNeedsPhantom`).
* A start that raises leaves a process that trades, once a health probe succeeds, on whatever was hydrated: on
  an empty ledger, on one without its orders, or on the whole ledger without the cycle keys (`mem.keyed` in
  `KeysHonoured`, the causes `failed start` in `HaltHasCause` and `ReservedBacked`, `mem.whole` in `KeysSurvive`). An error
  of the journal is swallowed, and the keys of its orders are not loaded.
* A resting buy reserves nothing for its fee and may fail at its trigger (the cause `phantom`).
* Of two overlapping persists the older values may be committed last; a pause stored by a
  command may be overwritten that way.
* After a restart the journal takes precedence over the checkpoint: manual orders and fills, which
  are not journalled, are dropped, their reservation stays, and the reconciliation may halt
  (the causes in `HaltHasCause`, `ReservedBacked`).
* A sale of a resting order makes no closed trade (the exception of `TradesExplainCash`).
* Resting orders are approved one by one and fill past every check: several buys may together pass
  `max_portfolio_exposure`, and what resting sells lose enters no loss counter (`ExposureCapped`, `LossesBounded`). A MARKET
  order with a price below the mark is sized by that price and filled at the mark.
* `order_cooldown_seconds` is measured on the list that the rate limit prunes: a cooldown longer than a minute
  is silently the minute (`CooldownKept`).
* The nets of the rankings are rounded one by one, so they do not add up to the rounded total (`ReportsAgree`).
* A first connection that is lost between the sends of the configured symbols leaves a client that is subscribed
  to those sent so far and asks for no others again (`client.py:117`; `SubscriptionsAgree` compares with what it believes).
* `evaluate` values all positions at the mark of the symbol being ordered (the condition of
  `ExposureCapped`), and refuses exits at the loss limits like entries.
* Loss streaks are counted per path, so the limit holds for each and not for all
  (`LossesBounded`).
* Starting the websocket client twice, or during a stop, leaves a task nobody cancels
  (`overlap` in `SubscriptionsAgree`); a REST fallback that raises ends the task with
  `_running` set (the exception of `FeedRecovers`); `connected` stays set through the retries.
* Candle validation sorts a copy: an unsorted list passes and is handed on as it is.
* A trade's `pnl` in the backtest leaves out the entry fee (`CashExplained`), and a candle on
  which a position was closed and another opened counts twice in the exposure
  (`ReportFaithful`).

What holds is as informative: cycle locks may be lost, taken over and released by the
wrong cycle, and still no candle is traded twice or out of order in one process, since
acceptance of the candle, order and fill run without an await; a cycle whose durable write failed
stops trading although reconciliation sets its flag healthy again right after; the second
copy of the kill switch in `risk_state` makes an engaged switch survive any overlap of
transactions; the overlap guard keeps cycles apart even when a start during a stop leaves
a loop behind; and of the idempotency keys the cap drops, the journal's orders bring back
those that matter.

## 6. Not modelled

* AI advice, news, authentication and the front end share no state with the core; the views
  of session, portfolio and API read only; the soak and acceptance scripts drive the API.
* The REST providers and the storing half of the market data service are I/O; the choice
  of a candle source has no state but the freshness stamp.
* Equity snapshots, balances, strategy state, audit rows, scheduler runs and reports: written, never
  decided on. The stored halt is overwritten at startup.
* Sharpe, Sortino and CAGR take roots; MACD, Bollinger bands and VWAP have no caller among
  the strategies.
* `LiveTradingGate.evaluate` is a status view that never allows; the testnet client is on no
  path of the runtime.

## 7. Plan

Modelled: everything above. Proved: section 4. What could still be added:

1. `Ledger`: `TradesExplainCash` with entry prices as exact rationals, as in `Strategies`.
2. `PaperCycle`: several symbols in one cycle, which share the process's flags.
3. Liveness of `Scheduler` and `Feed` for every number of loops, once the prover supports it.
