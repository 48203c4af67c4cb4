---------------------------- MODULE PaperEngine ----------------------------
(***************************************************************************)
(* PaperTradingEngine of app/execution/paper/engine.py: the simulated      *)
(* execution backend behind OrderGateway.                                  *)
(*                                                                         *)
(* Quantities, prices and money are integers: a price times a quantity is  *)
(* exact, as it is in the Decimals of the code, and Tick of its units make *)
(* the 0.00000001 to which the code rounds a reserve, the part of it that  *)
(* a fill consumes, and a fee.  Rates are per cent.  A price of 0 is the   *)
(* code's None: the code itself tests prices with `or`, so that a zero     *)
(* price and a missing one are the same to it.                             *)
(*                                                                         *)
(* The fill list of PaperState is kept as what the rest of the program     *)
(* reads off it per order: fills, how many there are, fillQty, the quantity*)
(* they attribute to the order, and fillCash, the cash they say has moved. *)
(* They are appended to when the code appends to state.fills, which*)
(* is not when it moves the cash.                                          *)
(*                                                                         *)
(* Every method runs to completion without an await (latency_ms is 0, as   *)
(* in every PaperConfig the application builds), so it is one action; the  *)
(* one exception is the loop of _try_trigger_resting, which is one action  *)
(* per order and keeps every other action disabled (due # {}) meanwhile.   *)
(***************************************************************************)
EXTENDS Integers, FiniteSets, FiniteSetsExt, Sums

CONSTANTS
  Symbols,      \* the traded symbols
  Prices,       \* the marks set_mark_price may be given
  Requests,     \* the order requests clients may submit
  MaxOrders,    \* bound: orders created in one behaviour
  InitialCash,  \* PaperConfig.initial_cash
  Tick,         \* money: the units that make the 0.00000001 of quantize
  MakerPct,     \* fee rate of LIMIT orders
  TakerPct,     \* fee rate of the other orders
  ImpactPct,    \* spread_rate / 2 + slippage_rate
  FillPct       \* partial_fill_fraction

OrderIds == 1..MaxOrders
Sides    == {"BUY", "SELL"}
Types    == {"MARKET", "LIMIT", "STOP_LOSS", "TAKE_PROFIT"}
Terminal == {"FILLED", "REJECTED", "CANCELLED", "EXPIRED", "FAILED"}
Live     == {"SUBMITTED", "PARTIALLY_FILLED"}

RequestType ==
  [symbol: Symbols, side: Sides, type: Types, quantity: Nat \ {0},
   price: Nat, stop_loss: Nat, take_profit: Nat]

ASSUME SymbolsAssumption  == Symbols # {}
ASSUME PricesAssumption   == Prices \subseteq Nat \ {0}
ASSUME RequestsAssumption == Requests \subseteq RequestType
ASSUME BoundsAssumption   == MaxOrders \in Nat /\ InitialCash \in Nat
ASSUME TickAssumption     == Tick \in Nat \ {0}
\* A fee of more than half could round up past a payment below one tick.
ASSUME RatesAssumption    == /\ MakerPct \in 0..50 /\ TakerPct \in 0..50
                             /\ ImpactPct \in 0..100 /\ FillPct \in 0..100

VARIABLES
  state,  \* PaperState: cash, reserved_cash, positions, orders
  mark,   \* config.mark_prices
  count,  \* number of orders created: ids are handed out in creation order
  due     \* orders the running _try_trigger_resting loop has still to fill

vars == <<state, mark, count, due>>

---------------------------------------------------------------------------
(* Data *)

\* Order, with the reservation fields of its metadata.  "NONE" is the status
\* of an id that is not in state.orders.  The code sets reservation_open with a
\* positive reserved_remaining and clears it in the write that brings
\* reserved_remaining to zero, so a reservation is open when remaining > 0.
Order ==
  [symbol: Symbols, side: Sides, type: Types, quantity: Nat, price: Nat,
   status: Live \cup Terminal \cup {"NONE"}, filled: Nat,
   notional: Nat, remaining: Nat,
   fills: Nat, fillQty: Nat, fillCash: Int]

NoOrder ==
  [symbol |-> CHOOSE s \in Symbols : TRUE, side |-> "BUY", type |-> "MARKET",
   quantity |-> 0, price |-> 0, status |-> "NONE", filled |-> 0,
   notional |-> 0, remaining |-> 0,
   fills |-> 0, fillQty |-> 0, fillCash |-> 0]

PaperState ==
  [cash: Int, reserved_cash: Int, positions: [Symbols -> Int],
   orders: [OrderIds -> Order]]

\* a / b to the nearest integer, ties to even.
Quantize(a, b) ==
  LET q == a \div b
      r == a % b
  IN  IF 2 * r > b \/ (2 * r = b /\ q % 2 = 1) THEN q + 1 ELSE q

\* Decimal.quantize of the amount a / b: to the nearest tick of money.
Rounded(a, b) == Tick * Quantize(a, b * Tick)

\* _fee_rate, and the fee of one fill.
FeeRate(type) == IF type = "LIMIT" THEN MakerPct ELSE TakerPct
Fee(type, qty, price) == Rounded(price * qty * FeeRate(type), 100)

\* _fill_price: a priced LIMIT order fills at its price, everything else at
\* the mark moved against the order by half the spread plus the slippage.
FillPrice(m, side, type, price) ==
  LET impact == (m * ImpactPct) \div 100
  IN  IF type = "LIMIT" /\ price # 0 THEN price
      ELSE IF side = "BUY" THEN m + impact ELSE m - impact

\* partial_fill_fraction of a quantity, rounded down to a tick.
FillQuantity(qty) == (qty * FillPct) \div 100

Lesser(a, b) == IF a <= b THEN a ELSE b

\* a or b, on prices.
Or(a, b) == IF a # 0 THEN a ELSE b

\* _reserve_price
ReservePrice(req, m) ==
  CASE req.type = "LIMIT" -> Or(req.price, m)
    [] req.type \in {"STOP_LOSS", "TAKE_PROFIT"} ->
         Or(req.price, Or(req.stop_loss, Or(req.take_profit, m)))
    [] OTHER -> m

\* The trigger of submit: the price, or the field the order type reads.
Trigger(req) ==
  Or(req.price, IF req.type = "STOP_LOSS" THEN req.stop_loss
                                          ELSE req.take_profit)

\* An order with trigger t waits while the mark m is on the wrong side of it.
Waits(side, type, t, m) ==
  CASE type \in {"LIMIT", "TAKE_PROFIT"} -> IF side = "BUY" THEN m > t ELSE m < t
    [] type = "STOP_LOSS"                -> IF side = "BUY" THEN m < t ELSE m > t
    [] OTHER                             -> FALSE

---------------------------------------------------------------------------
(* The methods that change PaperState, as functions of it *)

\* _update
SetStatus(st, i, status) == [st EXCEPT !.orders[i].status = status]

\* _reserve_buy: lock quantity * price, to the tick, once, or fail the order.  An
\* order worth less than half a tick reserves nothing and goes on.
ReserveBuy(st, i, price) ==
  LET amount == Rounded(st.orders[i].quantity * price, 1)
  IN  IF amount <= 0 THEN st
      ELSE IF st.cash < amount THEN SetStatus(st, i, "FAILED")
      ELSE [st EXCEPT !.cash = @ - amount,
                      !.reserved_cash = @ + amount,
                      !.orders[i] = [@ EXCEPT !.notional = amount,
                                              !.remaining = amount]]

\* Mutant of Release: the order's metadata is not written back.
ReleaseForgotten(st, i, amount) ==
  LET rel == Lesser(Lesser(amount, st.orders[i].remaining), st.reserved_cash)
  IN  [st EXCEPT !.cash = @ + rel, !.reserved_cash = @ - rel]

\* _release_buy_reservation: at most what the order still holds, and at most
\* what is reserved altogether; nothing once the reservation is closed.
Release(st, i, amount) ==
  LET rel == Lesser(Lesser(amount, st.orders[i].remaining), st.reserved_cash)
  IN  [st EXCEPT !.cash = @ + rel,
                 !.reserved_cash = @ - rel,
                 !.orders[i].remaining = @ - rel]

ReleaseAll(st, i) == Release(st, i, st.orders[i].remaining)

\* Mutant of BookFill: the ledger entry of a fill without its fee.
BookFillWithoutFee(st, i, qty, price) ==
  LET dc == IF st.orders[i].side = "BUY" THEN -(price * qty) ELSE price * qty
  IN  [st EXCEPT !.orders[i] = [@ EXCEPT !.fills = @ + 1, !.fillQty = @ + qty,
                                         !.fillCash = @ + dc]]

\* The first lines of _apply_fill: the fill joins the ledger before it is
\* known whether the account can carry it.
BookFill(st, i, qty, price) ==
  LET o   == st.orders[i]
      fee == Fee(o.type, qty, price)
      dc  == IF o.side = "BUY" THEN -(price * qty + fee) ELSE price * qty - fee
  IN  [st EXCEPT !.orders[i] = [o EXCEPT !.fills = o.fills + 1,
                                         !.fillQty = o.fillQty + qty,
                                         !.fillCash = o.fillCash + dc]]

\* Mutant of ApplyBuy: no check that available cash covers the cost.
ApplyBuyUnchecked(st, i, qty, price) ==
  LET o   == st.orders[i]
      st1 == Release(st, i, Rounded(o.notional * qty, o.quantity))
  IN  [st1 EXCEPT !.cash = @ - price * qty - Fee(o.type, qty, price),
                  !.positions[o.symbol] = @ + qty,
                  !.orders[i].filled = @ + qty]

\* Mutant of ApplyBuy: the first partial fill gives the whole reservation back.
ApplyBuyReleasingAll(st, i, qty, price) ==
  LET o    == st.orders[i]
      st1  == ReleaseAll(st, i)
      cost == price * qty + Fee(o.type, qty, price)
  IN  IF cost > st1.cash THEN SetStatus(st1, i, "FAILED")
      ELSE [st1 EXCEPT !.cash = @ - cost,
                       !.positions[o.symbol] = @ + qty,
                       !.orders[i].filled = @ + qty]

\* Mutant of ApplyBuy: the fee is charged for a fill that fails, too.
ApplyBuyFeeAnyway(st, i, qty, price) ==
  LET o    == st.orders[i]
      st1  == Release(st, i, Rounded(o.notional * qty, o.quantity))
      fee  == Fee(o.type, qty, price)
      cost == price * qty + fee
  IN  IF cost > st1.cash
      THEN SetStatus([ReleaseAll(st1, i) EXCEPT !.cash = @ - fee], i, "FAILED")
      ELSE [st1 EXCEPT !.cash = @ - cost,
                       !.positions[o.symbol] = @ + qty,
                       !.orders[i].filled = @ + qty]

\* The BUY half of _apply_fill: give the reservation of the filled part back,
\* then pay the cost of the fill out of available cash, or fail.
ApplyBuy(st, i, qty, price) ==
  LET o    == st.orders[i]
      st1  == Release(st, i, Rounded(o.notional * qty, o.quantity))
      cost == price * qty + Fee(o.type, qty, price)
  IN  IF cost > st1.cash
      THEN SetStatus(ReleaseAll(st1, i), i, "FAILED")
      ELSE [st1 EXCEPT !.cash = @ - cost,
                       !.positions[o.symbol] = @ + qty,
                       !.orders[i].filled = @ + qty]

\* The SELL half of _apply_fill: never more than the position holds.
ApplySell(st, i, qty, price) ==
  LET o == st.orders[i]
  IN  IF st.positions[o.symbol] < qty
      THEN SetStatus(st, i, "FAILED")
      ELSE [st EXCEPT !.cash = @ + price * qty - Fee(o.type, qty, price),
                      !.positions[o.symbol] = @ - qty,
                      !.orders[i].filled = @ + qty]

\* _apply_fill
ApplyFill(st, i, qty, price) ==
  LET booked == BookFill(st, i, qty, price)
  IN  IF st.orders[i].side = "BUY" THEN ApplyBuy(booked, i, qty, price)
                                   ELSE ApplySell(booked, i, qty, price)

\* What _execute_fill and _try_trigger_resting do around _apply_fill: qty of
\* the rest unfilled so far, the status it leaves, and the release of the
\* reservation dust of a completed order.
Fill(st, i, qty, price) ==
  LET rest == st.orders[i].quantity - st.orders[i].filled
      st1  == ApplyFill(st, i, qty, price)
  IN  IF st1.orders[i].status = "FAILED" THEN st1
      ELSE IF qty < rest THEN SetStatus(st1, i, "PARTIALLY_FILLED")
      ELSE SetStatus(ReleaseAll(st1, i), i, "FILLED")

\* _execute_fill: an order whose first fill rounds to nothing fails, and its
\* reservation stays as it is.
ExecuteFill(st, i, req, m) ==
  LET qty == FillQuantity(req.quantity)
  IN  IF qty <= 0 THEN SetStatus(st, i, "FAILED")
      ELSE Fill(st, i, qty, FillPrice(m, req.side, req.type, req.price))

---------------------------------------------------------------------------
(* submit *)

\* The order of a request, once risk has approved it.
NewOrder(req) ==
  [symbol |-> req.symbol, side |-> req.side, type |-> req.type,
   quantity |-> req.quantity, price |-> req.price, status |-> "SUBMITTED",
   filled |-> 0, notional |-> 0, remaining |-> 0,
   fills |-> 0, fillQty |-> 0, fillCash |-> 0]

\* submit's own view of the mark: a priced LIMIT order supplies a missing one.
MarkFor(req) ==
  IF mark[req.symbol] = 0 /\ req.type = "LIMIT" THEN req.price
                                                ELSE mark[req.symbol]

\* The reservation step of submit, for BUY orders whose reserve price is known.
Reserved(st, i, req, m) ==
  IF req.side = "BUY" /\ ReservePrice(req, m) # 0
  THEN ReserveBuy(st, i, ReservePrice(req, m)) ELSE st

\* submit from the mark lookup on.  st holds the new order i as SUBMITTED.
Accepted(st, i, req, m) ==
  LET st1     == Reserved(st, i, req, m)
      stopped == req.type \in {"STOP_LOSS", "TAKE_PROFIT"}
  IN  IF m = 0
      THEN IF stopped THEN st1 ELSE SetStatus(st, i, "FAILED")
      ELSE IF st1.orders[i].status = "FAILED" THEN st1
      ELSE IF stopped /\ Trigger(req) = 0
           THEN SetStatus(ReleaseAll(st1, i), i, "REJECTED")
      ELSE IF \/ stopped /\ Waits(req.side, req.type, Trigger(req), m)
              \/ /\ req.type = "LIMIT" /\ req.price # 0
                 /\ Waits(req.side, req.type, req.price, m)
           THEN st1
      ELSE ExecuteFill(st1, i, req, m)

CanCreate == due = {} /\ count < MaxOrders

\* submit of a request risk approved, or approved with the reduced quantity
\* that OrderGateway has then put into the request.  A resubmission under a
\* known idempotency key returns the stored order and changes nothing.
Submit(req) ==
  /\ CanCreate
  /\ LET i == count + 1 IN
       /\ count' = i
       /\ state' = Accepted([state EXCEPT !.orders[i] = NewOrder(req)],
                            i, req, MarkFor(req))
  /\ UNCHANGED <<mark, due>>

\* Mutant of SubmitRefused: the refused order is stored but no id is used up.
SubmitRefusedUncounted(req) ==
  /\ CanCreate
  /\ state' = [state EXCEPT !.orders[count + 1] =
                 [NewOrder(req) EXCEPT !.status = "REJECTED"]]
  /\ UNCHANGED <<mark, count, due>>

\* submit of a request risk refused (REJECTED or HALTED), or one the optional
\* liquidity simulation turns away.
SubmitRefused(req) ==
  /\ CanCreate
  /\ LET i == count + 1 IN
       /\ count' = i
       /\ state' = [state EXCEPT !.orders[i] =
                      [NewOrder(req) EXCEPT !.status = "REJECTED"]]
  /\ UNCHANGED <<mark, due>>

---------------------------------------------------------------------------
(* Mark updates, cancel and expire *)

\* Mutant of Fires: the status of the order is not looked at.
FiresAnyStatus(o, s, m) ==
  LET rest == o.quantity - o.filled IN
  /\ o.symbol = s /\ rest > 0
  /\ o.type # "MARKET" /\ o.price # 0
  /\ ~Waits(o.side, o.type, o.price, m)
  /\ FillQuantity(rest) > 0

\* The conditions of the _try_trigger_resting loop on one order.  MARKET
\* orders and orders without a price of their own are never picked up again.
Fires(o, s, m) ==
  LET rest == o.quantity - o.filled IN
  /\ o.symbol = s
  /\ o.status \in Live
  /\ rest > 0
  /\ o.type # "MARKET" /\ o.price # 0
  /\ ~Waits(o.side, o.type, o.price, m)
  /\ FillQuantity(rest) > 0

\* set_mark_price, up to the loop over the resting orders.
SetMarkPrice(s, m) ==
  /\ due = {}
  /\ mark' = [mark EXCEPT ![s] = m]
  /\ due' = {i \in 1..count : Fires(state.orders[i], s, m)}
  /\ UNCHANGED <<state, count>>

\* Mutant of TriggerResting: sized on the order, not on its unfilled rest.
TriggerRestingWhole ==
  /\ due # {}
  /\ LET i == Min(due)
         o == state.orders[i]
     IN  /\ state' = Fill(state, i, o.quantity,
                          FillPrice(mark[o.symbol], o.side, o.type, o.price))
         /\ due' = due \ {i}
  /\ UNCHANGED <<mark, count>>

\* One iteration of _try_trigger_resting, in creation order.
TriggerResting ==
  /\ due # {}
  /\ LET i == Min(due)
         o == state.orders[i]
     IN  /\ state' = Fill(state, i, FillQuantity(o.quantity - o.filled),
                          FillPrice(mark[o.symbol], o.side, o.type, o.price))
         /\ due' = due \ {i}
  /\ UNCHANGED <<mark, count>>

\* Mutant of Close: the reservation is not released.
CloseReserved(i, status) ==
  /\ due = {}
  /\ state.orders[i].status \in Live
  /\ state' = SetStatus(state, i, status)
  /\ UNCHANGED <<mark, count, due>>

\* cancel and expire: a live order gives its reservation back and keeps what
\* it has filled.
Close(i, status) ==
  /\ due = {}
  /\ state.orders[i].status \in Live
  /\ state' = SetStatus(ReleaseAll(state, i), i, status)
  /\ UNCHANGED <<mark, count, due>>

Cancel(i) == Close(i, "CANCELLED")
Expire(i) == Close(i, "EXPIRED")

Init ==
  /\ state = [cash |-> InitialCash, reserved_cash |-> 0,
              positions |-> [s \in Symbols |-> 0],
              orders |-> [i \in OrderIds |-> NoOrder]]
  /\ mark = [s \in Symbols |-> 0]
  /\ count = 0
  /\ due = {}

Next ==
  \/ \E req \in Requests : Submit(req)
  \/ \E req \in Requests : SubmitRefused(req)
  \/ \E s \in Symbols, m \in Prices : SetMarkPrice(s, m)
  \/ TriggerResting
  \/ \E i \in OrderIds : Cancel(i)
  \/ \E i \in OrderIds : Expire(i)

Spec == Init /\ [][Next]_vars

---------------------------------------------------------------------------
(* Properties *)

\* The ledger has the shape PaperState and Order give it, and orders exist in
\* creation order.
TypeOK ==
  /\ state \in PaperState
  /\ mark \in [Symbols -> Nat]
  /\ count \in 0..MaxOrders
  /\ due \subseteq 1..count
  /\ \A i \in OrderIds : state.orders[i].status = "NONE" <=> i > count

\* What each order still holds in reserve, as _open_reservation_total reads it.
Holding(st) == [i \in OrderIds |-> st.orders[i].remaining]

\* NEGATIVE_CASH, NEGATIVE_RESERVED and NEGATIVE_POSITION of
\* check_cycle_invariants never fire: no interleaving of reservations, partial
\* fills, failures and releases overdraws the account or sells short.
Solvent ==
  /\ state.cash >= 0 /\ state.reserved_cash >= 0
  /\ \A s \in Symbols : state.positions[s] >= 0

\* RESERVATION_MISMATCH never fires: reserved_cash is exactly the sum of the
\* open reservations, so no release is lost, made twice or made by two orders.
ReservationsBalance == state.reserved_cash = SumTo(Holding(state), MaxOrders)

\* STALE_RESERVATION: a terminal order holds no open reservation.
NoStaleReservation ==
  \A i \in OrderIds : state.orders[i].status \in Terminal => state.orders[i].remaining = 0

\* Twice the money by which the reservation of o differs from the share of its
\* unfilled rest in what was reserved, times its quantity.
Drift(o) == 2 * (o.remaining * o.quantity - o.notional * (o.quantity - o.filled))

\* "Lock BUY notional before resting or filling so concurrent buys cannot
\* double-spend available cash" (submit), over the order's whole life: a BUY
\* order that can still fill locked its quantity at its price, to the tick, and
\* of that it holds the share of its unfilled rest to within half a tick for
\* every fill it has had.  A release that forgets, repeats or mis-sizes a share
\* breaks this; the rounding of engine.py:121 and :455 does not.
LiveBuysStayReserved ==
  \A i \in OrderIds :
    LET o == state.orders[i] IN
    (o.status \in Live /\ o.side = "BUY" /\ o.price # 0) =>
      /\ o.type # "MARKET" => o.notional = Rounded(o.quantity * o.price, 1)
      /\ o.remaining <= o.notional
      /\ -(o.fills * Tick * o.quantity) <= Drift(o)
      /\ Drift(o) <= o.fills * Tick * o.quantity

\* The fill-quantity check of run_paper_reconciliation, and the statuses: the
\* ledger never attributes more to an order than it asked for, an order is
\* FILLED exactly when all of it is filled, and a live order's ledger entries
\* are its filled quantity.
FillsWithinOrder ==
  \A i \in OrderIds :
    LET o == state.orders[i] IN
    /\ o.filled <= o.fillQty /\ o.fillQty <= o.quantity
    /\ o.status = "FILLED" => o.filled = o.quantity
    /\ o.status = "PARTIALLY_FILLED" => 0 < o.filled /\ o.filled < o.quantity
    /\ o.status # "FAILED" => o.fillQty = o.filled

\* A FAILED order whose last fill is in the ledger although it was not applied.
Phantom(i) == state.orders[i].fillQty # state.orders[i].filled

\* Cash (available and reserved) and net position as the fill list implies
\* them: the reconstruction of run_paper_reconciliation.
Reconstructed ==
  InitialCash + SumTo([i \in OrderIds |-> state.orders[i].fillCash], MaxOrders)
NetQuantity(s) ==
  SumTo([i \in OrderIds |->
           LET o == state.orders[i] IN
           IF o.symbol # s THEN 0
           ELSE IF o.side = "BUY" THEN o.fillQty ELSE -o.fillQty], MaxOrders)

\* As long as no fill failed, the fill list explains the account to the tick:
\* the cash and the positions can be rebuilt from it.  (The reconstruction
\* that decides whether reconciliation halts trading.)
FillsExplainAccount ==
  (\A i \in OrderIds : ~Phantom(i)) =>
    /\ state.cash + state.reserved_cash = Reconstructed
    /\ \A s \in Symbols : state.positions[s] = NetQuantity(s)

\* "Ensure no new fills after terminal cancel/expire" (check_cycle_invariants):
\* a terminal order is never touched again, and a filled quantity never shrinks.
TerminalIsFinal ==
  [][\A i \in OrderIds :
       LET o == state.orders[i] IN
       /\ o.status \in Terminal => state'.orders[i] = o
       /\ o.filled <= state'.orders[i].filled]_vars

\* Money moves only through fills: a step that fills nothing (reserving,
\* releasing, cancelling, expiring, a failing fill, a mark update) leaves
\* cash + reserved_cash as it was, which is the total_cash of PaperState.
OnlyFillsMoveMoney ==
  [][(\A i \in OrderIds : state'.orders[i].filled = state.orders[i].filled)
       => state'.cash + state'.reserved_cash = state.cash + state.reserved_cash]_vars

===========================================================================
