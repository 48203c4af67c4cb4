------------------------------- MODULE Ledger -------------------------------
(***************************************************************************)
(* What a restart makes of the paper ledger.  Three records of the same    *)
(* trades are written at different moments: the journal rows of the cycles *)
(* (app/journal/store.py), the checkpoint of the whole session             *)
(* (persist_paper_session), and the closed trades of the performance       *)
(* journal (app/analytics).  hydrate_paper_session_from_db puts a session  *)
(* together again from the first two.                                      *)
(*                                                                         *)
(* One symbol, every order for one unit, one fee rate, no slippage: what   *)
(* the engine does with quantities, types and partial fills is module      *)
(* PaperEngine.  Money is in ticks / Unit.  An order refused by risk is    *)
(* not a step.                                                             *)
(***************************************************************************)
EXTENDS Performance

CONSTANTS
  Prices,
  InitialCash, Unit, FeeRate,  \* the fee of a price is price * FeeRate / Unit
  MaxOrders,     \* bound: orders submitted
  MaxFailures,   \* bound: writes that fail
  MaxCrashes,    \* bound: crashes
  MaxResets,     \* bound: account resets
  MaxEvents,     \* bound: orders, failures, crashes and resets together
  MaxHeld,       \* bound: units held
  JournalLimit,  \* the limit of list_orders and list_fills (500)
  KeyCap         \* the keys save_risk_state keeps (5000)

ASSUME LedgerAssumption ==
  /\ Prices \subseteq Nat \ {0}
  /\ {InitialCash, FeeRate, MaxOrders, MaxFailures, MaxCrashes, MaxResets, MaxEvents,
      MaxHeld, JournalLimit, KeyCap} \subseteq Nat
  /\ Unit \in Nat \ {0}

VARIABLES
  up,       \* the process runs
  mem,      \* the ledger of PaperSession; `whole` (history): it has the journal's orders
  orphan,   \* the ledger a cycle still works on after a reset: a set of one, or {}
  manual,   \* place_order under way: its order and what it does next
  cycle,    \* a cycle's order under way: the same
  mark,
  db,       \* the tables: checkpoint, journal orders and fills, risk keys
  closed,   \* the closed_trades table, in exit order
  count,    \* orders submitted so far: the next order's id is count + 1
  budget,   \* failures, crashes and resets left
  causes    \* history: what has happened that excuses a disagreement

vars == <<up, mem, orphan, manual, cycle, mark, db, closed, count, budget, causes>>

---------------------------------------------------------------------------
(* The engine, as a function of its ledger *)

Fee(price) == price * FeeRate
Notional(price) == price * Unit
Cost(price) == Notional(price) + Fee(price)

\* An order under way: its id, the entry price of the position it met, its
\* price, and whether its session is still the current one.
Idle == [pc |-> "idle", order |-> 0, entry |-> 0, exit |-> 0, current |-> TRUE]
Flight(pc, entry, exit) ==
  [pc |-> pc, order |-> count + 1, entry |-> entry, exit |-> exit, current |-> TRUE]

Fresh == [cash |-> InitialCash * Unit, reserved |-> 0, qty |-> 0, entry |-> 0,
          orders |-> {}, fills |-> {}, seen |-> {}, healthy |-> TRUE, halted |-> FALSE,
          whole |-> TRUE]

\* A session that has not been put together from the journal.
Unloaded == [Fresh EXCEPT !.whole = FALSE]

Open(l) == {o \in l.orders : o.status = "SUBMITTED"}
WithStatus(l, o, status) == [l EXCEPT !.orders = (@ \ {o}) \cup {[o EXCEPT !.status = status]}]

\* _apply_fill of one unit: the fill is entered first.  A buy that the cash does not
\* pay for with its fee, and a sell that finds no position, leave it behind.
Bought(l, price) ==
  [l EXCEPT !.cash = @ - Cost(price), !.qty = @ + 1,
            !.entry = (@ * l.qty + price) \div (l.qty + 1)]
Sold(l, price) ==
  [l EXCEPT !.cash = @ + Notional(price) - Fee(price), !.qty = @ - 1,
            !.entry = IF l.qty = 1 THEN 0 ELSE @]
Carries(l, side, price) == IF side = "BUY" THEN Cost(price) <= l.cash ELSE l.qty > 0
Filled(l, o, price) ==
  LET booked == [l EXCEPT !.fills = @ \cup {[id |-> o.id, side |-> o.side, price |-> price,
                                             source |-> o.source]}]
  IN  IF ~ Carries(l, o.side, price) THEN WithStatus(booked, o, "FAILED")
      ELSE WithStatus(IF o.side = "BUY" THEN Bought(booked, price) ELSE Sold(booked, price),
                      o, "FILLED")

\* The cause that goes with a fill left behind.
Phantoms(l) == IF \E o \in l.orders : o.status = "FAILED" THEN {"phantom"} ELSE {}

\* _reserve_buy: a resting BUY holds back its notional, and nothing for its fee.
Reserved(l, price) == [l EXCEPT !.cash = @ - Notional(price), !.reserved = @ + Notional(price)]
Released(l, price) == [l EXCEPT !.cash = @ + Notional(price), !.reserved = @ - Notional(price)]

\* Room for another event within the bound.
Room == count + (MaxFailures - budget.failures) + (MaxCrashes - budget.crashes)
              + (MaxResets - budget.resets) < MaxEvents

\* The order entered, with its key.
Entered(l, o) == [l EXCEPT !.orders = @ \cup {o}, !.seen = @ \cup {o.id}]

NewOrder(source, side, price) ==
  [id |-> count + 1, source |-> source, side |-> side, price |-> price, status |-> "SUBMITTED"]

\* Risk accepts: the database is healthy, reconciliation has not halted trading,
\* and the notional (not the fee) is there, or something to sell.
Accepts(l, side, price) ==
  /\ up /\ l.healthy /\ ~ l.halted
  /\ count < MaxOrders /\ Room
  /\ side = "BUY" => l.cash >= Notional(price) /\ l.qty + Cardinality(Open(l)) < MaxHeld
  /\ side = "SELL" => l.qty > 0

---------------------------------------------------------------------------
(* Manual orders *)

\* place_order, up to its first write: a MARKET order fills at the mark.  A sale
\* goes on to its closed trade.
PlaceMarket(side) ==
  /\ manual = Idle
  /\ Accepts(mem, side, mark)
  /\ LET o == NewOrder("manual", side, mark)
     IN  mem' = Filled(Entered(mem, o), o, mark)
  /\ manual' = Flight(IF side = "SELL" THEN "trade" ELSE "persist", mem.entry, mark)
  /\ count' = count + 1
  /\ causes' = causes \cup Phantoms(mem')
  /\ UNCHANGED <<up, orphan, cycle, mark, db, closed, budget>>

\* place_order of a LIMIT order that rests.
PlaceLimit(side, price) ==
  /\ manual = Idle
  /\ Accepts(mem, side, price)
  /\ IF side = "BUY" THEN mark > price ELSE mark < price
  /\ LET entered == Entered(mem, NewOrder("manual", side, price))
     IN  mem' = IF side = "BUY" THEN Reserved(entered, price) ELSE entered
  /\ manual' = Flight("persist", 0, price)
  /\ count' = count + 1
  /\ UNCHANGED <<up, orphan, cycle, mark, db, closed, budget, causes>>

\* set_mark_price fills the resting orders the mark has reached, at their
\* price; nothing is written, no closed trade is built.
Triggered(l, m) ==
  {o \in Open(l) : IF o.side = "BUY" THEN m <= o.price ELSE m >= o.price}
Fired(l, o) ==
  IF o.side = "BUY" THEN Filled(Released(l, o.price), o, o.price) ELSE Filled(l, o, o.price)

\* One order after the other, in the order of their ids.
FireDue(l, due) == IF due = {} THEN l ELSE Fired(l, CHOOSE o \in due : TRUE)
TriggerAll(l, m) ==
  LET After[k \in 0..count] ==
        IF k = 0 THEN l ELSE FireDue(After[k - 1], {o \in Triggered(l, m) : o.id = k})
  IN  After[count]

MarkMoves(m) ==
  /\ up
  /\ m # mark
  /\ mark' = m
  /\ mem' = TriggerAll(mem, m)
  /\ causes' = causes
       \cup (IF \E o \in Triggered(mem, m) : o.side = "SELL" THEN {"trades apart"} ELSE {})
       \cup Phantoms(mem')
  /\ UNCHANGED <<up, orphan, manual, cycle, db, closed, count, budget>>

---------------------------------------------------------------------------
(* Cycles *)

\* _act_on_signal, up to its first write.
CycleTrades(side) ==
  /\ cycle = Idle
  /\ Accepts(mem, side, mark)
  /\ IF side = "BUY" THEN mem.qty = 0 ELSE mem.qty = 1
  /\ LET o == NewOrder("cycle", side, mark)
     IN  mem' = Filled(Entered(mem, o), o, mark)
  /\ cycle' = Flight("order", mem.entry, mark)
  /\ count' = count + 1
  /\ causes' = causes \cup Phantoms(mem')
  /\ UNCHANGED <<up, orphan, manual, mark, db, closed, budget>>

\* The ledger of the cycle: its orchestrator keeps the engine it started with,
\* also when a reset has given the session a new one.
CycleLedger == IF orphan = {} THEN mem ELSE CHOOSE l \in orphan : TRUE
CycleOrder == CHOOSE o \in CycleLedger.orders : o.id = cycle.order

\* A write that may fail: `written` says whether it does.
MayFail(written) == written \/ (budget.failures > 0 /\ Room)
Spent(written) == IF written THEN budget ELSE [budget EXCEPT !.failures = @ - 1]

\* record_order and record_fill: own commits, errors swallowed.
JournalOrder(written) ==
  /\ up /\ cycle.pc = "order"
  /\ MayFail(written)
  /\ budget' = Spent(written)
  /\ db' = IF written THEN [db EXCEPT !.orders = @ \cup {CycleOrder}] ELSE db
  /\ causes' = IF written THEN causes ELSE causes \cup {"row lost"}
  /\ cycle' = [cycle EXCEPT !.pc = "fill"]
  /\ UNCHANGED <<up, mem, orphan, manual, mark, closed, count>>

JournalFill(written) ==
  /\ up /\ cycle.pc = "fill"
  /\ MayFail(written)
  /\ budget' = Spent(written)
  /\ db' = IF written
           THEN [db EXCEPT !.fills = @ \cup {f \in CycleLedger.fills : f.id = cycle.order}]
           ELSE db
  /\ causes' = IF written THEN causes ELSE causes \cup {"row lost"}
  /\ cycle' = [cycle EXCEPT !.pc = IF CycleOrder.side = "SELL" THEN "trade" ELSE "persist"]
  /\ UNCHANGED <<up, mem, orphan, manual, mark, closed, count>>

---------------------------------------------------------------------------
(* Closed trades *)

\* build_closed_trade_from_exit, against the position as it was before.
ClosedTradeNoEntryFee(id, strategy, entry, price) ==
  [id |-> id, strategy |-> strategy, entry |-> entry, exit |-> price,
   fees |-> Fee(price), net |-> (price - entry) * Unit - Fee(price)]

ClosedTrade(id, strategy, entry, price) ==
  [id |-> id, strategy |-> strategy, entry |-> entry, exit |-> price,
   fees |-> Fee(entry) + Fee(price),
   net |-> (price - entry) * Unit - Fee(entry) - Fee(price)]

\* maybe_build_closed_trade: an order of one unit has one fill.
TradeOf(flight, strategy) == ClosedTrade(flight.order, strategy, flight.entry, flight.exit)

\* TradeJournalService.record: a trade already there is left alone.
Recorded(trade) ==
  IF \E k \in DOMAIN closed : closed[k].id = trade.id THEN closed ELSE Append(closed, trade)

\* _record_closed_trades of the session: best effort.
RecordManualTrade(written) ==
  /\ up /\ manual.pc = "trade"
  /\ MayFail(written)
  /\ budget' = Spent(written)
  /\ closed' = IF written THEN Recorded(TradeOf(manual, "manual")) ELSE closed
  /\ causes' = IF written THEN causes ELSE causes \cup {"trades apart"}
  /\ manual' = [manual EXCEPT !.pc = "persist"]
  /\ UNCHANGED <<up, mem, orphan, cycle, mark, db, count>>

\* _record_performance_trade of the orchestrator: the journal's session, then
\* one of its own.
RecordCycleTrade(written) ==
  /\ up /\ cycle.pc = "trade"
  /\ MayFail(written)
  /\ budget' = Spent(written)
  /\ closed' = IF written THEN Recorded(TradeOf(cycle, "cycle")) ELSE closed
  /\ causes' = IF written THEN causes ELSE causes \cup {"trades apart"}
  /\ cycle' = [cycle EXCEPT !.pc = "persist"]
  /\ UNCHANGED <<up, mem, orphan, manual, mark, db, count>>

---------------------------------------------------------------------------
(* The checks *)

\* run_paper_reconciliation: fills that account for the position (a shortfall
\* in a symbol without one is not looked at) are held against the cash.
Amount(f) == IF f.side = "BUY" THEN - Cost(f.price) ELSE Notional(f.price) - Fee(f.price)
Reconstructed(l) == InitialCash * Unit + MapThenSumSet(Amount, l.fills)
Net(l) == Cardinality({f \in l.fills : f.side = "BUY"})
            - Cardinality({f \in l.fills : f.side = "SELL"})
LedgerComplete(l) == IF l.qty # 0 THEN Net(l) = l.qty ELSE Net(l) <= 0

\* Mutant of Drift: the cash held back by reservations is left out.
DriftAvailable(l) == /\ l.fills # {}
                     /\ LedgerComplete(l)
                     /\ Reconstructed(l) # l.cash

Drift(l) == /\ l.fills # {}
            /\ LedgerComplete(l)
            /\ Reconstructed(l) # l.cash + l.reserved

Holds(o) == Notional(o.price)

\* check_cycle_invariants, with which a cycle ends.
CycleInvariants(l) ==
  /\ l.cash >= 0 /\ l.reserved >= 0 /\ l.qty >= 0
  /\ l.reserved = MapThenSumSet(Holds, {o \in Open(l) : o.side = "BUY"})

\* The reconciliation of the timer, of the operator.
Reconcile ==
  /\ up
  /\ mem' = [mem EXCEPT !.halted = Drift(mem)]
  /\ UNCHANGED <<up, orphan, manual, cycle, mark, db, closed, count, budget, causes>>

\* GET /health finds the database again.
HealthProbe ==
  /\ up /\ ~ mem.healthy
  /\ mem' = [mem EXCEPT !.healthy = TRUE]
  /\ UNCHANGED <<up, orphan, manual, cycle, mark, db, closed, count, budget, causes>>

---------------------------------------------------------------------------
(* The checkpoint *)

\* Mutant of Checkpoint: the reservations are not saved.
CheckpointUnreserved(l) == [cash |-> l.cash, reserved |-> 0, qty |-> l.qty, entry |-> l.entry,
                            orders |-> l.orders, fills |-> l.fills, seen |-> l.seen]

\* save_paper_checkpoint: what of a ledger it holds.  The engine's idempotency
\* index knows at least the keys the risk engine has seen.
Checkpoint(l) == [cash |-> l.cash, reserved |-> l.reserved, qty |-> l.qty, entry |-> l.entry,
                  orders |-> l.orders, fills |-> l.fills, seen |-> l.seen]

\* save_risk_state: of more than KeyCap keys any KeyCap may be kept, the set
\* being in no order.
KeysKept(keys) ==
  IF Cardinality(keys) <= KeyCap THEN {keys} ELSE kSubset(KeyCap, keys)

\* persist_paper_session: one transaction.
PersistSession(l) ==
  \E keys \in KeysKept(l.seen) :
    db' = [db EXCEPT !.checkpoint = {Checkpoint(l)}, !.keys = keys]

\* The end of place_order.  The session written is the current one; the risk
\* engine marked is the one of the session that placed the order.
PersistManual(written) ==
  /\ up /\ manual.pc = "persist"
  /\ MayFail(written)
  /\ budget' = Spent(written)
  /\ IF written THEN PersistSession(mem) /\ UNCHANGED <<mem, causes>>
     ELSE /\ mem' = [mem EXCEPT !.healthy = @ /\ ~ manual.current]
          /\ causes' = causes \cup {"persist failed"}
          /\ UNCHANGED db
  /\ manual' = Idle
  /\ UNCHANGED <<up, orphan, cycle, mark, closed, count>>

\* The end of a cycle: the accounting check, the write, the reconciliation.  A
\* ledger that fails the check is written all the same; it fails closed, as
\* does a failed write.  Of an engine the session no longer uses only the
\* checkpoint is written, without its reservations and orders.  (The pause that
\* comes with failing closed is module ControlPlane's; here an operator may have
\* lifted it.)
PersistCycle(written) ==
  /\ up /\ cycle.pc = "persist"
  /\ MayFail(written)
  /\ budget' = Spent(written)
  /\ CASE ~ written -> UNCHANGED db
       [] written /\ orphan = {} -> PersistSession(mem)
       [] OTHER -> db' = [db EXCEPT !.checkpoint =
                      {[Checkpoint(CycleLedger) EXCEPT !.reserved = 0, !.orders = {}]}]
  /\ mem' = [mem EXCEPT !.healthy = @ /\ written /\ CycleInvariants(CycleLedger),
                         !.halted = Drift(mem)]
  /\ causes' = IF written THEN causes ELSE causes \cup {"persist failed"}
  /\ cycle' = Idle
  /\ orphan' = {}
  /\ UNCHANGED <<up, manual, mark, closed, count>>

---------------------------------------------------------------------------
(* Reset, crash and restart *)

\* paper_reset: a new session in memory; nothing durable is removed.
PaperReset ==
  /\ up /\ budget.resets > 0 /\ Room
  /\ budget' = [budget EXCEPT !.resets = @ - 1]
  /\ mem' = Unloaded
  /\ orphan' = IF cycle # Idle /\ orphan = {} THEN {mem} ELSE orphan
  /\ manual' = IF manual = Idle THEN Idle ELSE [manual EXCEPT !.current = FALSE]
  /\ UNCHANGED <<up, cycle, mark, db, closed, count, causes>>

\* A crash between the writes of one order leaves some of its records, and
\* nothing of the session.
Crash ==
  /\ up /\ budget.crashes > 0 /\ Room
  /\ up' = FALSE
  /\ mem' = Fresh
  /\ budget' = [budget EXCEPT !.crashes = @ - 1]
  /\ causes' = causes \cup (IF cycle # Idle THEN {"torn cycle"} ELSE {})
                      \cup (IF manual # Idle THEN {"trades apart"} ELSE {})
  /\ manual' = Idle
  /\ cycle' = Idle
  /\ orphan' = {}
  /\ UNCHANGED <<mark, db, closed, count>>

\* The newest JournalLimit rows.
Newest(rows) == {r \in rows : Cardinality({s \in rows : s.id > r.id}) < JournalLimit}
ListOrders == Newest(db.orders)
ListFills == Newest(db.fills)

\* The account as the checkpoint has it, without its orders and fills.
HydratedAccount ==
  IF db.checkpoint = {} THEN Unloaded
  ELSE LET c == CHOOSE c \in db.checkpoint : TRUE
       IN  [Unloaded EXCEPT !.cash = c.cash, !.reserved = c.reserved, !.qty = c.qty,
                            !.entry = c.entry, !.seen = c.seen]

\* The keys of the risk state; when it has none, those of the engine's index.
LoadedKeys == IF db.keys # {} THEN db.keys ELSE HydratedAccount.seen

\* checkpoint_to_orders and checkpoint_to_fills stand in for a journal that has
\* no rows of the kind, or cannot be read.
RestoredOrders(readable) ==
  IF readable /\ ListOrders # {} THEN ListOrders ELSE UNION {c.orders : c \in db.checkpoint}
RestoredFills(readable) ==
  IF readable /\ ListFills # {} THEN ListFills ELSE UNION {c.fills : c \in db.checkpoint}

\* Mutant of HydrateSession: the orders do not bring their keys back.
HydrateKeysAlone(readable) ==
  [HydratedAccount EXCEPT !.orders = RestoredOrders(readable), !.fills = RestoredFills(readable),
                          !.seen = LoadedKeys, !.whole = readable]

\* hydrate_paper_session_from_db: every order brings its key.  An error of the
\* journal is swallowed.
HydrateSession(readable) ==
  [HydratedAccount EXCEPT !.orders = RestoredOrders(readable), !.fills = RestoredFills(readable),
                          !.seen = LoadedKeys \cup {o.id : o \in RestoredOrders(readable)},
                          !.whole = readable]

\* What of the checkpoint the journal does not know of when it takes over.
Dropped ==
  \E c \in db.checkpoint : \/ db.orders # {} /\ \E o \in c.orders : o.source = "manual"
                           \/ db.fills # {} /\ \E f \in c.fills : f.source = "manual"

\* What the journal makes of the ledger when it is read.
Overruled == (IF Dropped THEN {"dropped"} ELSE {})
               \cup (IF ListOrders # db.orders \/ ListFills # db.fills THEN {"truncated"} ELSE {})

\* bootstrap_paper_runtime: hydrate, and reconcile positions against fills.  A
\* reconciliation that raises halts trading.
Bootstrap(readable, reconciled) ==
  /\ ~ up
  /\ MayFail(readable /\ reconciled)
  /\ budget' = Spent(readable /\ reconciled)
  /\ up' = TRUE
  /\ mem' = [HydrateSession(readable) EXCEPT
                !.halted = reconciled => Drift(HydrateSession(readable))]
  /\ causes' = causes \cup (IF readable THEN Overruled ELSE {})
                      \cup (IF reconciled THEN {} ELSE {"unreconciled"})
                      \cup (IF budget.resets < MaxResets THEN {"reset"} ELSE {})
  /\ UNCHANGED <<orphan, manual, cycle, mark, db, closed, count>>

\* How far the hydration has come when the start fails: before the account, before
\* and after the risk state, or behind the journal (at the cycles' keys).
HalfHydrated ==
  {Unloaded, [HydratedAccount EXCEPT !.seen = {}], [HydratedAccount EXCEPT !.seen = LoadedKeys],
   HydrateSession(TRUE), HydrateSession(FALSE)}

\* The start fails, and the process goes on with what it has, marked unhealthy until
\* /health finds the database again.  A stored halt may have been read.
StartFails ==
  /\ ~ up
  /\ MayFail(FALSE)
  /\ budget' = Spent(FALSE)
  /\ up' = TRUE
  /\ \E l \in HalfHydrated, halted \in BOOLEAN :
       mem' = [l EXCEPT !.healthy = FALSE, !.halted = halted]
  /\ causes' = causes \cup {"failed start"}
  /\ UNCHANGED <<orphan, manual, cycle, mark, db, closed, count>>

Init ==
  /\ up = TRUE
  /\ mem = Fresh
  /\ orphan = {}
  /\ manual = Idle
  /\ cycle = Idle
  /\ mark \in Prices
  /\ db = [checkpoint |-> {}, orders |-> {}, fills |-> {}, keys |-> {}]
  /\ closed = <<>>
  /\ count = 0
  /\ budget = [failures |-> MaxFailures, crashes |-> MaxCrashes, resets |-> MaxResets]
  /\ causes = {}

Next ==
  \/ \E side \in {"BUY", "SELL"} : PlaceMarket(side) \/ CycleTrades(side)
  \/ \E side \in {"BUY", "SELL"}, p \in Prices : PlaceLimit(side, p)
  \/ \E p \in Prices : MarkMoves(p)
  \/ \E written \in BOOLEAN :
       \/ JournalOrder(written)
       \/ JournalFill(written)
       \/ RecordManualTrade(written)
       \/ RecordCycleTrade(written)
       \/ PersistManual(written)
       \/ PersistCycle(written)
  \/ Reconcile
  \/ HealthProbe
  \/ PaperReset
  \/ Crash
  \/ \E readable, reconciled \in BOOLEAN : Bootstrap(readable, reconciled)
  \/ StartFails

Spec == Init /\ [][Next]_vars

---------------------------------------------------------------------------
(* Properties *)

\* Reconciliation halts trading only after something that really separates the
\* ledger's records: a fill left behind by an order that failed, a cycle cut off
\* between its writes, a journal row or a checkpoint that could not be written,
\* manual trades the journal takes precedence over, a journal longer than its limit,
\* a reset, a start that failed or could not reconcile.  Neither a crash during a
\* manual order nor a journal that could not be read is among them.
HaltHasCause ==
  mem.halted => causes \cap {"phantom", "torn cycle", "row lost", "persist failed", "dropped",
                             "truncated", "reset", "failed start", "unreconciled"} # {}

\* Every tick of reserved cash belongs to an open BUY, restarts and resets
\* included, unless the resting orders were dropped in favour of the journal
\* (or the records were separated by a cut cycle, a failed write or a start that
\* failed with the reserve loaded and the orders not).
ReservedBacked ==
  (up /\ causes \cap {"torn cycle", "row lost", "persist failed", "dropped", "truncated",
                      "reset", "failed start"} = {})
    => mem.reserved = MapThenSumSet(Holds, {o \in Open(mem) : o.side = "BUY"})

\* A session put together from the journal never forgets the key of an order among
\* the journal's newest: whichever keys the cap has dropped, the orders bring theirs
\* back, and no such restart lets a recent order be submitted again.  (A start that
\* failed or could not read the journal, and a reset, do forget.)
KeysSurvive ==
  (up /\ mem.whole) => \A o \in ListOrders : o.id \in mem.seen

\* A sale whose closed trade is still to be written.
Unrecorded == \/ manual.pc = "trade"
              \/ cycle # Idle /\ CycleOrder.side = "SELL"

\* The performance journal explains the money: with no sale awaiting its
\* record, none lost, none made by a resting order and no reset, the account
\* is the initial cash plus the net of the closed trades, less what the open
\* position cost with its entry fees.
TradesExplainCash ==
  (up /\ ~ Unrecorded /\ causes = {} /\ budget.resets = MaxResets)
    => mem.cash + mem.reserved + mem.qty * Cost(mem.entry)
         = InitialCash * Unit + TotalNet(closed)

Agreeing(trades) ==
  LET r == StrategyRankings(trades)
      p == Compute(trades)
      total == SumOf([k \in DOMAIN r |-> r[k].net])
  IN  /\ 2 * (total * Cent - p.net) \in (- Len(r) * Cent)..(Len(r) * Cent)
      /\ p.count = SumOf([k \in DOMAIN r |-> r[k].count])
      /\ \A i, j \in DOMAIN r : i < j => r[i].net >= r[j].net /\ r[i].strategy # r[j].strategy
      /\ p.bestStreak = LongestRun(Nets(trades), TRUE)
      /\ p.worstStreak = LongestRun(Nets(trades), FALSE)

\* The views of the performance engine agree on every list of trades that the
\* journal comes to hold: the rankings list each strategy once, best first, lose and
\* double no trade, and their rounded nets are off the exact total by half a cent per
\* strategy at most.
ReportsAgree == [][closed' # closed => Agreeing(closed')]_vars
=============================================================================
