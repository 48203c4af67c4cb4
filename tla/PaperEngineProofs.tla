------------------------- MODULE PaperEngineProofs -------------------------
(***************************************************************************)
(* What PaperEngine guarantees for every set of requests and prices, every *)
(* number of orders and every fee, impact and partial-fill rate.           *)
(*                                                                         *)
(* The methods of the engine are functions of its state, so the proof goes *)
(* bottom up with them: each lemma says what one method keeps of the       *)
(* account (Account) and of the order it works on (OrderInv), the actions  *)
(* are put together from those, and the theorems read their property off   *)
(* the inductive invariant IInv.  The last section is about the engine     *)
(* with the reconciliation that gates it.                                  *)
(***************************************************************************)
EXTENDS Reconciliation, SumTheorems

(* Arithmetic *)

\* Quantize errs by at most half a unit, and a quotient of at most a half gives
\* nothing.
LEMMA QuantizeNear ==
  ASSUME NEW a \in Nat, NEW b \in Nat \ {0}
  PROVE  /\ Quantize(a, b) \in Nat
         /\ 2 * (b * Quantize(a, b)) <= 2 * a + b
         /\ 2 * a - b <= 2 * (b * Quantize(a, b))
<1> DEFINE q == a \div b
           r == a % b
           k == Quantize(a, b)
<1>1. q \in Nat /\ r \in Nat /\ a = b * q + r /\ r < b
  OBVIOUS
<1>2. \/ k = q /\ 2 * r <= b
      \/ k = q + 1 /\ 2 * r >= b
  <2>1. k = IF 2 * r > b \/ (2 * r = b /\ q % 2 = 1) THEN q + 1 ELSE q
    BY DEF Quantize
  <2> HIDE DEF k, q, r
  <2> QED BY <1>1, <2>1
<1> HIDE DEF k, q, r
<1>3. b * (q + 1) = b * q + b /\ b * q \in Nat
  BY <1>1
<1>4. CASE k = q /\ 2 * r <= b
  BY <1>1, <1>3, <1>4 DEF k
<1>5. CASE k = q + 1 /\ 2 * r >= b
  BY <1>1, <1>3, <1>5 DEF k
<1> QED BY <1>2, <1>4, <1>5

\* An amount of money rounded to the tick is a natural.
LEMMA RoundedType ==
  ASSUME NEW a \in Nat, NEW b \in Nat \ {0}
  PROVE  Rounded(a, b) \in Nat
<1>1. b * Tick \in Nat \ {0}
  BY TickAssumption
<1>2. Quantize(a, b * Tick) \in Nat
  BY <1>1, QuantizeNear
<1> QED BY <1>2, TickAssumption DEF Rounded

\* It is within half a tick of the amount itself.
LEMMA RoundedNear ==
  ASSUME NEW a \in Nat, NEW b \in Nat \ {0}
  PROVE  /\ 2 * (Rounded(a, b) * b) <= 2 * a + Tick * b
         /\ 2 * a - Tick * b <= 2 * (Rounded(a, b) * b)
<1> DEFINE c == b * Tick
           k == Quantize(a, c)
<1>1. c \in Nat \ {0} /\ Tick \in Nat
  BY TickAssumption
<1>2. k \in Nat /\ 2 * (c * k) <= 2 * a + c /\ 2 * a - c <= 2 * (c * k)
  BY <1>1, QuantizeNear
<1>3. Rounded(a, b) = Tick * k
  BY DEF Rounded
<1> HIDE DEF k
<1>4. (Tick * k) * b = c * k /\ c = Tick * b
  BY <1>1, <1>2
<1> QED BY <1>2, <1>3, <1>4

\* A fee is never more than what it is charged on.
LEMMA FeeBound ==
  ASSUME NEW type, NEW qty \in Nat, NEW price \in Nat
  PROVE  Fee(type, qty, price) \in Nat /\ Fee(type, qty, price) <= price * qty
<1> DEFINE rate == FeeRate(type)
           v == price * qty
           c == 100 * Tick
           k == Quantize(v * rate, c)
           fee == Tick * k
<1>1. rate \in 0..50 /\ Tick \in Nat \ {0} /\ c \in Nat \ {0}
  BY RatesAssumption, TickAssumption DEF FeeRate
<1>2. v \in Nat
  OBVIOUS
<1>3. Fee(type, qty, price) = fee
  BY DEF Fee, Rounded
<1> HIDE DEF rate, v
<1>4. v * rate \in Nat /\ v * rate <= 50 * v
  BY <1>1, <1>2
<1>5. k \in Nat /\ 2 * (c * k) <= 2 * (v * rate) + c
  BY <1>1, <1>4, QuantizeNear
<1> HIDE DEF k
<1>6. fee \in Nat /\ c * k = 100 * fee /\ (k = 0 => fee = 0) /\ (k # 0 => fee >= Tick)
  <2>1. k # 0 => Tick * k >= Tick
    BY <1>1, <1>5
  <2> QED BY <1>1, <1>5, <2>1
<1> HIDE DEF fee
<1>7. 2 * fee <= v + Tick
  BY <1>1, <1>2, <1>4, <1>5, <1>6
<1>8. fee <= v
  BY <1>1, <1>2, <1>6, <1>7
<1> QED BY <1>3, <1>6, <1>8 DEF v

\* A partial fill is never more than the quantity it is a fraction of.
LEMMA FillQuantityBound ==
  ASSUME NEW qty \in Nat
  PROVE  FillQuantity(qty) \in Nat /\ FillQuantity(qty) <= qty
<1>1. qty * FillPct \in Nat /\ qty * FillPct <= 100 * qty
  BY RatesAssumption
<1> QED BY <1>1 DEF FillQuantity

\* A fill price is a natural: the impact never exceeds the mark.
LEMMA FillPriceType ==
  ASSUME NEW m \in Nat, NEW side, NEW type, NEW price \in Nat
  PROVE  FillPrice(m, side, type, price) \in Nat
<1>1. m * ImpactPct \in Nat /\ m * ImpactPct <= 100 * m
  BY RatesAssumption
<1>2. (m * ImpactPct) \div 100 \in Nat /\ (m * ImpactPct) \div 100 <= m
  BY <1>1
<1> QED BY <1>2 DEF FillPrice

---------------------------------------------------------------------------
(* The account: what every method of the engine preserves *)

\* The part of the inductive invariant that is about the account as a whole.
Account(st) ==
  /\ st \in PaperState
  /\ st.cash >= 0 /\ st.reserved_cash >= 0
  /\ \A s \in Symbols : st.positions[s] >= 0
  /\ st.reserved_cash = SumTo(Holding(st), MaxOrders)

\* r differs from st, as far as orders go, at most in order i, and there not
\* in what the client asked for.
Frame(st, r, i) ==
  /\ \A j \in OrderIds : j # i => r.orders[j] = st.orders[j]
  /\ r.orders[i].symbol = st.orders[i].symbol
  /\ r.orders[i].side = st.orders[i].side
  /\ r.orders[i].type = st.orders[i].type
  /\ r.orders[i].quantity = st.orders[i].quantity
  /\ r.orders[i].price = st.orders[i].price

\* The holdings of the orders form a table of naturals.
LEMMA HoldingType ==
  ASSUME NEW st \in PaperState
  PROVE  Holding(st) \in [1..MaxOrders -> Nat]
BY DEF Holding, PaperState, Order, OrderIds

\* An order's own holding is covered by the reserve.
LEMMA HeldIsReserved ==
  ASSUME NEW st, Account(st), NEW i \in OrderIds
  PROVE  st.orders[i].remaining <= st.reserved_cash
<1>1. Holding(st)[i] <= SumTo(Holding(st), MaxOrders)
  BY HoldingType, SumBound, BoundsAssumption DEF Account, OrderIds
<1> QED BY <1>1 DEF Holding, Account

\* The shape every method leaves the state in: new balances and one new order.
Result(st, c, rc, ps, i, o) ==
  [cash |-> c, reserved_cash |-> rc, positions |-> ps,
   orders |-> [st.orders EXCEPT ![i] = o]]

\* Result is a ledger, and its parts are the ones it was built from.
LEMMA ResultType ==
  ASSUME NEW st \in PaperState, NEW c \in Int, NEW rc \in Int,
         NEW ps \in [Symbols -> Int], NEW i \in OrderIds, NEW o \in Order
  PROVE  LET r == Result(st, c, rc, ps, i, o) IN
         /\ r \in PaperState
         /\ r.cash = c /\ r.reserved_cash = rc /\ r.positions = ps
         /\ r.orders[i] = o
         /\ \A j \in OrderIds : j # i => r.orders[j] = st.orders[j]
BY DEF Result, PaperState

\* Moving the reserve by what one order's holding moves keeps the account.
LEMMA AccountStep ==
  ASSUME NEW st, Account(st), NEW c \in Nat, NEW rc \in Nat,
         NEW ps \in [Symbols -> Nat], NEW i \in OrderIds, NEW o \in Order,
         rc = st.reserved_cash - st.orders[i].remaining + o.remaining
  PROVE  Account(Result(st, c, rc, ps, i, o))
<1> DEFINE r == Result(st, c, rc, ps, i, o)
<1>1. st \in PaperState /\ ps \in [Symbols -> Int] /\ c \in Int /\ rc \in Int
  BY DEF Account
<1>2. /\ r \in PaperState
      /\ r.cash = c /\ r.reserved_cash = rc /\ r.positions = ps
      /\ r.orders[i] = o
      /\ \A j \in OrderIds : j # i => r.orders[j] = st.orders[j]
  BY <1>1, ResultType
<1> HIDE DEF r
<1> DEFINE f == Holding(st)
           g == Holding(r)
<1>3. /\ f \in [1..MaxOrders -> Int] /\ g \in [1..MaxOrders -> Int]
      /\ f[i] = st.orders[i].remaining /\ g[i] = o.remaining
      /\ \A k \in 1..MaxOrders : k # i => g[k] = f[k]
  BY <1>1, <1>2, HoldingType DEF Holding, OrderIds
<1>4. SumTo(g, MaxOrders) = SumTo(f, MaxOrders) - f[i] + g[i]
  <2> HIDE DEF f, g
  <2> QED BY <1>3, SumChange, BoundsAssumption DEF OrderIds
<1>5. SumTo(g, MaxOrders) = rc
  BY <1>3, <1>4 DEF Account
<1> QED BY <1>2, <1>5 DEF Account, r

\* The type part of Account, in the form the lemmas below use it.
LEMMA AccountTypes ==
  ASSUME NEW st, Account(st), NEW i \in OrderIds
  PROVE  /\ st \in PaperState
         /\ st.cash \in Nat /\ st.reserved_cash \in Nat
         /\ st.positions \in [Symbols -> Nat]
         /\ st.orders[i] \in Order
         /\ st.orders[i].remaining \in Nat /\ st.orders[i].notional \in Nat
         /\ st.orders[i].quantity \in Nat /\ st.orders[i].symbol \in Symbols
         /\ st.orders[i].remaining <= st.reserved_cash
BY HeldIsReserved DEF Account, PaperState, Order

\* _update of a status moves no money.
LEMMA SetStatusKeeps ==
  ASSUME NEW st, Account(st), NEW i \in OrderIds,
         NEW status \in Live \cup Terminal
  PROVE  LET r == SetStatus(st, i, status) IN
         /\ Account(r) /\ Frame(st, r, i)
         /\ r.orders[i] = [st.orders[i] EXCEPT !.status = status]
         /\ r.cash = st.cash /\ r.reserved_cash = st.reserved_cash
         /\ r.positions = st.positions
<1> DEFINE r == SetStatus(st, i, status)
           o == [st.orders[i] EXCEPT !.status = status]
<1>1. /\ st \in PaperState
      /\ st.cash \in Nat /\ st.reserved_cash \in Nat
      /\ st.positions \in [Symbols -> Nat] /\ st.positions \in [Symbols -> Int]
      /\ st.orders[i] \in Order /\ st.orders[i].remaining \in Nat
  BY AccountTypes
<1>2. r = Result(st, st.cash, st.reserved_cash, st.positions, i, o)
  BY <1>1 DEF SetStatus, Result, PaperState
<1>3. o \in Order /\ o.remaining = st.orders[i].remaining
      /\ o.symbol = st.orders[i].symbol /\ o.side = st.orders[i].side
      /\ o.type = st.orders[i].type /\ o.quantity = st.orders[i].quantity
      /\ o.price = st.orders[i].price
  BY <1>1 DEF Order
<1> HIDE DEF r, o
<1>4. Account(r)
  BY <1>1, <1>2, <1>3, AccountStep
<1>5. /\ r.cash = st.cash /\ r.reserved_cash = st.reserved_cash
      /\ r.positions = st.positions /\ r.orders[i] = o
      /\ \A j \in OrderIds : j # i => r.orders[j] = st.orders[j]
  BY <1>1, <1>2 DEF Result, PaperState
<1>6. Frame(st, r, i)
  BY <1>3, <1>5 DEF Frame
<1> QED BY <1>4, <1>5, <1>6 DEF r, o

\* A release moves money from reserve to cash, out of one order's holding.
LEMMA ReleaseKeeps ==
  ASSUME NEW st, Account(st), NEW i \in OrderIds, NEW amount \in Nat
  PROVE  LET r == Release(st, i, amount)
             o == st.orders[i] IN
         /\ Account(r) /\ Frame(st, r, i)
         /\ r.cash + r.reserved_cash = st.cash + st.reserved_cash
         /\ r.cash >= st.cash
         /\ r.positions = st.positions
         /\ r.orders[i] = [o EXCEPT !.remaining = r.orders[i].remaining]
         /\ amount >= o.remaining => r.orders[i].remaining = 0
         /\ amount <= o.remaining => r.orders[i].remaining = o.remaining - amount
<1> DEFINE r == Release(st, i, amount)
           o == st.orders[i]
           rel == Lesser(Lesser(amount, o.remaining), st.reserved_cash)
           n == [o EXCEPT !.remaining = @ - rel]
           c == st.cash + rel
           rc == st.reserved_cash - rel
<1>1. /\ st \in PaperState
      /\ st.cash \in Nat /\ st.reserved_cash \in Nat
      /\ st.positions \in [Symbols -> Nat] /\ st.positions \in [Symbols -> Int]
      /\ o \in Order /\ o.remaining \in Nat
      /\ o.remaining <= st.reserved_cash
  BY AccountTypes
<1>2. /\ rel \in Nat /\ rel <= o.remaining
      /\ amount >= o.remaining => rel = o.remaining
      /\ amount <= o.remaining => rel = amount
  BY <1>1 DEF Lesser
<1> HIDE DEF rel
<1>3. r = Result(st, c, rc, st.positions, i, n)
  <2>1. r = [st EXCEPT !.cash = @ + rel, !.reserved_cash = @ - rel,
                       !.orders[i].remaining = @ - rel]
    BY DEF Release, rel
  <2> HIDE DEF r
  <2> QED BY <1>1, <2>1 DEF Result, PaperState
<1>4. /\ n \in Order /\ n.remaining = o.remaining - rel
      /\ n = [o EXCEPT !.remaining = n.remaining]
      /\ n.symbol = o.symbol /\ n.side = o.side
      /\ n.type = o.type /\ n.quantity = o.quantity /\ n.price = o.price
  BY <1>1, <1>2 DEF Order
<1> HIDE DEF n
<1>5. c \in Nat /\ rc \in Nat /\ c + rc = st.cash + st.reserved_cash
      /\ rc = st.reserved_cash - o.remaining + n.remaining
      /\ c >= st.cash
  BY <1>1, <1>2, <1>4
<1> HIDE DEF r, c, rc
<1>6. Account(r)
  BY <1>1, <1>3, <1>4, <1>5, AccountStep
<1>7. /\ r.cash = c /\ r.reserved_cash = rc
      /\ r.positions = st.positions /\ r.orders[i] = n
      /\ \A j \in OrderIds : j # i => r.orders[j] = st.orders[j]
  BY <1>1, <1>3 DEF Result, PaperState
<1>8. Frame(st, r, i)
  BY <1>4, <1>7 DEF Frame
<1>9. /\ amount >= o.remaining => n.remaining = 0
      /\ amount <= o.remaining => n.remaining = o.remaining - amount
  BY <1>1, <1>2, <1>4
<1> QED BY <1>4, <1>5, <1>6, <1>7, <1>8, <1>9 DEF r

\* Reserving moves money from cash to reserve, or fails the order.
LEMMA ReserveBuyKeeps ==
  ASSUME NEW st, Account(st), NEW i \in OrderIds, NEW price \in Nat,
         st.orders[i].remaining = 0, st.orders[i].notional = 0
  PROVE  LET r == ReserveBuy(st, i, price)
             o == st.orders[i] IN
         /\ Account(r) /\ Frame(st, r, i)
         /\ r.cash + r.reserved_cash = st.cash + st.reserved_cash
         /\ r.positions = st.positions
         /\ r.orders[i].filled = o.filled /\ r.orders[i].fillQty = o.fillQty
         /\ r.orders[i].fillCash = o.fillCash
         /\ \/ /\ r.orders[i].status = o.status
               /\ r.orders[i].notional = Rounded(o.quantity * price, 1)
               /\ r.orders[i].remaining = r.orders[i].notional
               /\ r.orders[i].fills = o.fills
            \/ r.orders[i].status = "FAILED" /\ r.orders[i].remaining = 0
<1> DEFINE r == ReserveBuy(st, i, price)
           o == st.orders[i]
           amount == Rounded(o.quantity * price, 1)
<1>1. /\ st \in PaperState
      /\ st.cash \in Nat /\ st.reserved_cash \in Nat
      /\ st.positions \in [Symbols -> Nat]
      /\ o \in Order /\ o.remaining \in Nat /\ o.quantity \in Nat
  BY AccountTypes
<1>2. amount \in Nat
  BY <1>1, RoundedType
<1> HIDE DEF amount
<1>3. CASE amount <= 0
  <2>1. r = st
    BY <1>3 DEF ReserveBuy, amount
  <2>2. Frame(st, st, i)
    BY DEF Frame
  <2>3. amount = 0
    BY <1>2, <1>3
  <2> HIDE DEF r
  <2> QED BY <2>1, <2>2, <2>3 DEF r, amount
<1>4. CASE ~(amount <= 0) /\ st.cash < amount
  <2>1. r = SetStatus(st, i, "FAILED")
    BY <1>4 DEF ReserveBuy, amount
  <2>2. "FAILED" \in Live \cup Terminal
    BY DEF Terminal
  <2>3. /\ Account(r) /\ Frame(st, r, i)
        /\ r.orders[i] = [o EXCEPT !.status = "FAILED"]
        /\ r.cash = st.cash /\ r.reserved_cash = st.reserved_cash
        /\ r.positions = st.positions
    BY <2>1, <2>2, SetStatusKeeps
  <2>4. r.orders[i].filled = o.filled /\ r.orders[i].fillQty = o.fillQty
        /\ r.orders[i].status = "FAILED" /\ r.orders[i].remaining = 0
        /\ r.orders[i].fillCash = o.fillCash
    BY <1>1, <2>3 DEF Order
  <2> HIDE DEF r
  <2> QED BY <2>3, <2>4 DEF r
<1>5. CASE ~(amount <= 0) /\ ~(st.cash < amount)
  <2> DEFINE n == [o EXCEPT !.notional = amount, !.remaining = amount]
             c == st.cash - amount
             rc == st.reserved_cash + amount
  <2>1. r = [st EXCEPT !.cash = @ - amount, !.reserved_cash = @ + amount,
                       !.orders[i] = [@ EXCEPT !.notional = amount,
                                               !.remaining = amount]]
    BY <1>5 DEF ReserveBuy, amount
  <2>2. r = Result(st, c, rc, st.positions, i, n)
    <3> HIDE DEF r
    <3> QED BY <1>1, <2>1 DEF Result, PaperState
  <2>3. /\ n \in Order /\ n.remaining = amount
        /\ n.symbol = o.symbol /\ n.side = o.side
        /\ n.type = o.type /\ n.quantity = o.quantity /\ n.price = o.price
        /\ n.filled = o.filled /\ n.fillQty = o.fillQty /\ n.status = o.status
        /\ n.fillCash = o.fillCash /\ n.notional = amount
        /\ n.fills = o.fills
    BY <1>1, <1>2 DEF Order
  <2>4. c \in Nat /\ rc \in Nat /\ c + rc = st.cash + st.reserved_cash
        /\ rc = st.reserved_cash - o.remaining + n.remaining
    BY <1>1, <1>2, <1>5, <2>3
  <2> HIDE DEF r, n, c, rc
  <2>5. Account(r)
    BY <1>1, <2>2, <2>3, <2>4, AccountStep
  <2>6. /\ r.cash = c /\ r.reserved_cash = rc
        /\ r.positions = st.positions /\ r.orders[i] = n
        /\ \A j \in OrderIds : j # i => r.orders[j] = st.orders[j]
    BY <1>1, <2>2 DEF Result, PaperState
  <2>7. Frame(st, r, i)
    BY <2>3, <2>6 DEF Frame
  <2> QED BY <2>3, <2>4, <2>5, <2>6, <2>7 DEF r, amount
<1> QED BY <1>3, <1>4, <1>5

\* The cash that a fill moves, and the quantity it moves into the position.
FillValue(o, qty, price) ==
  LET fee == Fee(o.type, qty, price)
  IN  IF o.side = "BUY" THEN -(price * qty + fee) ELSE price * qty - fee
Signed(o, qty) == IF o.side = "BUY" THEN qty ELSE -qty

\* Booking a fill touches the ledger totals of its order and nothing else.
LEMMA BookFillKeeps ==
  ASSUME NEW st, Account(st), NEW i \in OrderIds,
         NEW qty \in Nat, NEW price \in Nat
  PROVE  LET r == BookFill(st, i, qty, price)
             o == st.orders[i] IN
         /\ Account(r) /\ Frame(st, r, i)
         /\ r.cash = st.cash /\ r.reserved_cash = st.reserved_cash
         /\ r.positions = st.positions
         /\ r.orders[i].fillQty = o.fillQty + qty
         /\ r.orders[i].fills = o.fills + 1
         /\ r.orders[i].filled = o.filled /\ r.orders[i].status = o.status
         /\ r.orders[i].remaining = o.remaining
         /\ r.orders[i].notional = o.notional
         /\ r.orders[i].fillCash = o.fillCash + FillValue(o, qty, price)
<1> DEFINE r == BookFill(st, i, qty, price)
           o == st.orders[i]
           fee == Fee(o.type, qty, price)
           dc == FillValue(o, qty, price)
           fq == o.fillQty + qty
           fc == o.fillCash + dc
           nf == o.fills + 1
           n == [o EXCEPT !.fills = nf, !.fillQty = fq, !.fillCash = fc]
<1>1. /\ st \in PaperState
      /\ st.cash \in Nat /\ st.reserved_cash \in Nat
      /\ st.positions \in [Symbols -> Nat]
      /\ o \in Order /\ o.remaining \in Nat
  BY AccountTypes
<1>2. fee \in Nat
  BY FeeBound
<1> HIDE DEF fee
<1>3. dc \in Int
  BY <1>2 DEF FillValue, fee
<1> HIDE DEF dc
<1>4. r = [st EXCEPT !.orders[i] = n]
  BY DEF BookFill, FillValue, dc, fee
<1>5. r = Result(st, st.cash, st.reserved_cash, st.positions, i, n)
  <2> HIDE DEF r, n
  <2> QED BY <1>1, <1>4 DEF Result, PaperState
<1>a. fq \in Nat /\ fc \in Int /\ nf \in Nat
  BY <1>1, <1>3 DEF Order
<1> HIDE DEF fq, fc, nf
<1>6. /\ n \in Order /\ n.remaining = o.remaining
      /\ n.symbol = o.symbol /\ n.side = o.side
      /\ n.type = o.type /\ n.quantity = o.quantity /\ n.price = o.price
      /\ n.filled = o.filled /\ n.fillQty = fq /\ n.fills = nf
      /\ n.status = o.status /\ n.notional = o.notional /\ n.fillCash = fc
  BY <1>1, <1>a DEF Order
<1> HIDE DEF r, n
<1>7. Account(r)
  BY <1>1, <1>5, <1>6, AccountStep
<1>8. /\ r.cash = st.cash /\ r.reserved_cash = st.reserved_cash
      /\ r.positions = st.positions /\ r.orders[i] = n
      /\ \A j \in OrderIds : j # i => r.orders[j] = st.orders[j]
  BY <1>1, <1>5 DEF Result, PaperState
<1>9. Frame(st, r, i)
  BY <1>6, <1>8 DEF Frame
<1> QED BY <1>6, <1>7, <1>8, <1>9 DEF r, fq, fc, nf, dc

\* x less a, but not below zero: what a release of a leaves of x.
LessUpTo(x, a) == IF a <= x THEN x - a ELSE 0

\* What applying a fill may do: fail the order and move no money, or fill qty,
\* move the cash and the position by exactly that, and take the part of the
\* reservation that belongs to it.
Applied(st, r, i, qty, price) ==
  LET o == st.orders[i]
      n == r.orders[i] IN
  /\ Account(r) /\ Frame(st, r, i)
  /\ n.fillQty = o.fillQty /\ n.notional = o.notional /\ n.fillCash = o.fillCash
  /\ n.fills = o.fills
  /\ o.side # "BUY" => n.remaining = o.remaining
  /\ \/ /\ n.status = "FAILED" /\ n.filled = o.filled
        /\ o.side = "BUY" => n.remaining = 0
        /\ r.cash + r.reserved_cash = st.cash + st.reserved_cash
        /\ r.positions = st.positions
     \/ /\ n.status = o.status /\ n.filled = o.filled + qty
        /\ r.cash + r.reserved_cash
             = st.cash + st.reserved_cash + FillValue(o, qty, price)
        /\ r.positions = [st.positions EXCEPT ![o.symbol] = @ + Signed(o, qty)]
        /\ o.side = "BUY" =>
             n.remaining = LessUpTo(o.remaining, Rounded(o.notional * qty, o.quantity))

\* The BUY half of _apply_fill pays out of cash or fails the order.
LEMMA ApplyBuyKeeps ==
  ASSUME NEW st, Account(st), NEW i \in OrderIds, NEW qty \in Nat,
         NEW price \in Nat, st.orders[i].side = "BUY",
         st.orders[i].quantity # 0
  PROVE  Applied(st, ApplyBuy(st, i, qty, price), i, qty, price)
<1> DEFINE o == st.orders[i]
           amount == Rounded(o.notional * qty, o.quantity)
           st1 == Release(st, i, amount)
           o1 == st1.orders[i]
           cost == price * qty + Fee(o.type, qty, price)
           r == ApplyBuy(st, i, qty, price)
<1>1. /\ st \in PaperState /\ o \in Order
      /\ o.remaining \in Nat /\ o.notional \in Nat /\ o.quantity \in Nat
      /\ o.symbol \in Symbols
  BY AccountTypes
<1>2. amount \in Nat
  <2>1. o.notional * qty \in Nat /\ o.quantity \in Nat \ {0}
    BY <1>1
  <2> QED BY <2>1, RoundedType
<1>3. cost \in Nat /\ FillValue(o, qty, price) = -cost
  BY FeeBound DEF FillValue
<1> HIDE DEF amount, cost
<1>4. /\ Account(st1) /\ Frame(st, st1, i)
      /\ st1.cash + st1.reserved_cash = st.cash + st.reserved_cash
      /\ st1.positions = st.positions
      /\ o1 = [o EXCEPT !.remaining = o1.remaining]
      /\ o1.remaining = LessUpTo(o.remaining, amount)
  BY <1>1, <1>2, ReleaseKeeps DEF LessUpTo
<1>5. /\ st1 \in PaperState /\ o1 \in Order
      /\ st1.cash \in Nat /\ st1.reserved_cash \in Nat
      /\ st1.positions \in [Symbols -> Nat]
      /\ o1.remaining \in Nat
  BY <1>4, AccountTypes
<1> HIDE DEF st1
<1>6. /\ o1.filled = o.filled /\ o1.fillQty = o.fillQty
      /\ o1.status = o.status /\ o1.notional = o.notional
      /\ o1.fillCash = o.fillCash /\ o1.fills = o.fills
  BY <1>1, <1>4 DEF Order
<1>7. CASE cost > st1.cash
  <2> DEFINE st2 == ReleaseAll(st1, i)
             o2 == st2.orders[i]
  <2>1. r = SetStatus(st2, i, "FAILED")
    BY <1>7 DEF ApplyBuy, st1, amount, cost
  <2>2. /\ Account(st2) /\ Frame(st1, st2, i)
        /\ st2.cash + st2.reserved_cash = st1.cash + st1.reserved_cash
        /\ st2.positions = st1.positions
        /\ o2 = [o1 EXCEPT !.remaining = o2.remaining]
        /\ o2.remaining = 0
    <3>1. o1.remaining >= o1.remaining
      BY <1>5
    <3> QED BY <1>4, <1>5, <3>1, ReleaseKeeps DEF ReleaseAll
  <2>3. /\ o2.filled = o1.filled /\ o2.fillQty = o1.fillQty
        /\ o2.notional = o1.notional /\ o2.fillCash = o1.fillCash
        /\ o2.fills = o1.fills
    BY <1>5, <2>2 DEF Order
  <2>a. o2 \in Order
    BY <2>2, AccountTypes
  <2> HIDE DEF st2, r
  <2>4. /\ Account(r) /\ Frame(st2, r, i)
        /\ r.orders[i] = [o2 EXCEPT !.status = "FAILED"]
        /\ r.cash = st2.cash /\ r.reserved_cash = st2.reserved_cash
        /\ r.positions = st2.positions
    <3>1. "FAILED" \in Live \cup Terminal
      BY DEF Terminal
    <3> QED BY <2>1, <2>2, <3>1, SetStatusKeeps
  <2>5. /\ r.orders[i].filled = o2.filled /\ r.orders[i].fillQty = o2.fillQty
        /\ r.orders[i].notional = o2.notional /\ r.orders[i].status = "FAILED"
        /\ r.orders[i].remaining = 0 /\ r.orders[i].fillCash = o2.fillCash
        /\ r.orders[i].fills = o2.fills
    BY <2>2, <2>4, <2>a DEF Order
  <2>6. Frame(st, r, i)
    BY <1>4, <2>2, <2>4 DEF Frame
  <2> QED BY <1>4, <1>6, <2>2, <2>3, <2>4, <2>5, <2>6 DEF Applied, r
<1>8. CASE ~(cost > st1.cash)
  <2> DEFINE c == st1.cash - cost
             fd == o1.filled + qty
             n == [o1 EXCEPT !.filled = fd]
             ps == [st1.positions EXCEPT ![o.symbol] = @ + qty]
  <2>1. r = [st1 EXCEPT !.cash = @ - cost,
                        !.positions[o.symbol] = @ + qty,
                        !.orders[i].filled = @ + qty]
    BY <1>8 DEF ApplyBuy, st1, amount, cost
  <2>2. r = Result(st1, c, st1.reserved_cash, ps, i, n)
    <3> HIDE DEF r
    <3> QED BY <1>5, <2>1 DEF Result, PaperState
  <2>3. fd \in Nat
    BY <1>5 DEF Order
  <2> HIDE DEF fd
  <2>4. /\ n \in Order /\ n.remaining = o1.remaining
        /\ n.symbol = o1.symbol /\ n.side = o1.side
        /\ n.type = o1.type /\ n.quantity = o1.quantity /\ n.price = o1.price
        /\ n.filled = fd /\ n.fillQty = o1.fillQty /\ n.status = o1.status
        /\ n.notional = o1.notional /\ n.fillCash = o1.fillCash
        /\ n.fills = o1.fills
    BY <1>5, <2>3 DEF Order
  <2>5. c \in Nat /\ ps \in [Symbols -> Nat]
    BY <1>1, <1>3, <1>5, <1>8
  <2>6. st1.reserved_cash = st1.reserved_cash - o1.remaining + n.remaining
    BY <1>5, <2>4
  <2>a. /\ c + st1.reserved_cash
             = st.cash + st.reserved_cash + FillValue(o, qty, price)
        /\ ps = [st.positions EXCEPT ![o.symbol] = @ + Signed(o, qty)]
    <3>1. st.cash \in Int /\ st.reserved_cash \in Int
      BY <1>1 DEF PaperState
    <3> QED BY <1>3, <1>4, <1>5, <3>1 DEF Signed
  <2> HIDE DEF r, n, c, ps
  <2>7. Account(r)
    BY <1>4, <1>5, <2>2, <2>4, <2>5, <2>6, AccountStep
  <2>8. /\ r.orders[i] = n
        /\ \A j \in OrderIds : j # i => r.orders[j] = st1.orders[j]
        /\ r.cash = c /\ r.reserved_cash = st1.reserved_cash /\ r.positions = ps
    BY <1>5, <2>2 DEF Result, PaperState
  <2>9. Frame(st, r, i)
    BY <1>4, <2>4, <2>8 DEF Frame
  <2>b. n.filled = o.filled + qty
    BY <1>6, <2>4 DEF fd
  <2> QED BY <1>4, <1>6, <2>4, <2>7, <2>8, <2>9, <2>a, <2>b DEF Applied, r, amount
<1> QED BY <1>7, <1>8

\* The SELL half of _apply_fill sells what is held or fails the order.
LEMMA ApplySellKeeps ==
  ASSUME NEW st, Account(st), NEW i \in OrderIds, NEW qty \in Nat,
         NEW price \in Nat, st.orders[i].side # "BUY"
  PROVE  Applied(st, ApplySell(st, i, qty, price), i, qty, price)
<1> DEFINE o == st.orders[i]
           fee == Fee(o.type, qty, price)
           r == ApplySell(st, i, qty, price)
<1>1. /\ st \in PaperState /\ o \in Order
      /\ st.cash \in Nat /\ st.reserved_cash \in Nat
      /\ st.positions \in [Symbols -> Nat]
      /\ o.remaining \in Nat /\ o.symbol \in Symbols
  BY AccountTypes
<1>2. fee \in Nat /\ fee <= price * qty /\ price * qty \in Nat
  BY FeeBound
<1> HIDE DEF fee
<1>3. CASE st.positions[o.symbol] < qty
  <2>1. r = SetStatus(st, i, "FAILED")
    BY <1>3 DEF ApplySell
  <2>2. /\ Account(r) /\ Frame(st, r, i)
        /\ r.orders[i] = [o EXCEPT !.status = "FAILED"]
        /\ r.cash = st.cash /\ r.reserved_cash = st.reserved_cash
        /\ r.positions = st.positions
    <3>1. "FAILED" \in Live \cup Terminal
      BY DEF Terminal
    <3> QED BY <2>1, <3>1, SetStatusKeeps
  <2> HIDE DEF r
  <2>3. /\ r.orders[i].filled = o.filled /\ r.orders[i].fillQty = o.fillQty
        /\ r.orders[i].notional = o.notional /\ r.orders[i].status = "FAILED"
        /\ r.orders[i].remaining = o.remaining
        /\ r.orders[i].fillCash = o.fillCash /\ r.orders[i].fills = o.fills
    BY <1>1, <2>2 DEF Order
  <2> QED BY <2>2, <2>3 DEF Applied, r
<1>4. CASE ~(st.positions[o.symbol] < qty)
  <2> DEFINE c == st.cash + price * qty - fee
             fd == o.filled + qty
             n == [o EXCEPT !.filled = fd]
             ps == [st.positions EXCEPT ![o.symbol] = @ - qty]
  <2>1. r = [st EXCEPT !.cash = @ + price * qty - fee,
                       !.positions[o.symbol] = @ - qty,
                       !.orders[i].filled = @ + qty]
    BY <1>4 DEF ApplySell, fee
  <2>2. r = Result(st, c, st.reserved_cash, ps, i, n)
    <3> HIDE DEF r
    <3> QED BY <1>1, <2>1 DEF Result, PaperState
  <2>3. fd \in Nat
    BY <1>1 DEF Order
  <2> HIDE DEF fd
  <2>4. /\ n \in Order /\ n.remaining = o.remaining
        /\ n.symbol = o.symbol /\ n.side = o.side
        /\ n.type = o.type /\ n.quantity = o.quantity /\ n.price = o.price
        /\ n.filled = fd /\ n.fillQty = o.fillQty /\ n.status = o.status
        /\ n.notional = o.notional /\ n.fillCash = o.fillCash
        /\ n.fills = o.fills
    BY <1>1, <2>3 DEF Order
  <2>5. c \in Nat /\ ps \in [Symbols -> Nat]
    BY <1>1, <1>2, <1>4
  <2>6. st.reserved_cash = st.reserved_cash - o.remaining + n.remaining
    BY <1>1, <2>4
  <2>a. /\ c + st.reserved_cash
             = st.cash + st.reserved_cash + FillValue(o, qty, price)
        /\ ps = [st.positions EXCEPT ![o.symbol] = @ + Signed(o, qty)]
    <3>1. FillValue(o, qty, price) = price * qty - fee
      BY DEF FillValue, fee
    <3>2. \A x \in Int : x - qty = x + (-qty)
      OBVIOUS
    <3>3. st.positions[o.symbol] \in Int
      BY <1>1
    <3> QED BY <1>1, <1>2, <3>1, <3>2, <3>3 DEF Signed
  <2> HIDE DEF r, n, c, ps
  <2>7. Account(r)
    BY <1>1, <2>2, <2>4, <2>5, <2>6, AccountStep
  <2>8. /\ r.orders[i] = n
        /\ \A j \in OrderIds : j # i => r.orders[j] = st.orders[j]
        /\ r.cash = c /\ r.reserved_cash = st.reserved_cash /\ r.positions = ps
    BY <1>1, <2>2 DEF Result, PaperState
  <2>9. Frame(st, r, i)
    BY <2>4, <2>8 DEF Frame
  <2> QED BY <2>4, <2>7, <2>8, <2>9, <2>a DEF Applied, r, fd
<1> QED BY <1>3, <1>4

---------------------------------------------------------------------------
(* Orders: what every method preserves of the order it works on *)

\* The part of the inductive invariant that is about one order.
OrderInv(o) ==
  /\ o.filled <= o.fillQty /\ o.fillQty <= o.quantity
  /\ o.status = "FILLED" => o.filled = o.quantity
  /\ o.status = "PARTIALLY_FILLED" => 0 < o.filled /\ o.filled < o.quantity
  /\ o.status # "FAILED" => o.fillQty = o.filled
  /\ o.side # "BUY" => o.remaining = 0
  /\ o.status = "NONE" => o.remaining = 0 /\ o.filled = 0 /\ o.fillCash = 0

\* A terminal order holds nothing.
Clean(o) == o.status \in Terminal => o.remaining = 0

\* LiveBuysStayReserved of one order, which also has a rest to fill: every fill
\* rounds its share of the reservation once.
Covered(o) ==
  (o.status \in Live /\ o.side = "BUY" /\ o.price # 0) =>
    /\ o.filled < o.quantity
    /\ o.type # "MARKET" => o.notional = Rounded(o.quantity * o.price, 1)
    /\ o.remaining <= o.notional
    /\ -(o.fills * Tick * o.quantity) <= Drift(o)
    /\ Drift(o) <= o.fills * Tick * o.quantity

\* What the fills of an order add to the net position in s.
Contribution(o, s) ==
  IF o.symbol # s THEN 0 ELSE IF o.side = "BUY" THEN o.fillQty ELSE -o.fillQty

\* The account moved from st to r by exactly what the ledger of order i says,
\* unless that ledger has a fill that was not applied.
Explained(st, r, i) ==
  LET o == st.orders[i]
      n == r.orders[i] IN
  n.fillQty = n.filled =>
    /\ r.cash + r.reserved_cash
         = (st.cash + st.reserved_cash) - o.fillCash + n.fillCash
    /\ \A s \in Symbols : r.positions[s]
         = st.positions[s] - Contribution(o, s) + Contribution(n, s)

\* A method took the ledger from st to r working on order i.
Step(st, r, i) ==
  LET o == st.orders[i]
      n == r.orders[i] IN
  /\ Account(r) /\ Frame(st, r, i) /\ OrderInv(n)
  /\ n.status \in Live \cup Terminal
  /\ o.filled <= n.filled
  /\ n.filled = o.filled =>
       r.cash + r.reserved_cash = st.cash + st.reserved_cash
  /\ Explained(st, r, i)

\* The same for a fill that is booked and then applied.
FillApplied(st, r, i, qty, price) ==
  LET o == st.orders[i]
      n == r.orders[i] IN
  /\ Account(r) /\ Frame(st, r, i)
  /\ n.fillQty = o.fillQty + qty /\ n.notional = o.notional
  /\ n.fills = o.fills + 1
  /\ n.fillCash = o.fillCash + FillValue(o, qty, price)
  /\ o.side # "BUY" => n.remaining = o.remaining
  /\ \/ /\ n.status = "FAILED" /\ n.filled = o.filled
        /\ o.side = "BUY" => n.remaining = 0
        /\ r.cash + r.reserved_cash = st.cash + st.reserved_cash
     \/ /\ n.status = o.status /\ n.filled = o.filled + qty
        /\ r.cash + r.reserved_cash
             = st.cash + st.reserved_cash + FillValue(o, qty, price)
        /\ r.positions = [st.positions EXCEPT ![o.symbol] = @ + Signed(o, qty)]
        /\ o.side = "BUY" =>
             n.remaining = LessUpTo(o.remaining, Rounded(o.notional * qty, o.quantity))

\* A booked fill is applied whole or fails the order.
LEMMA ApplyFillKeeps ==
  ASSUME NEW st, Account(st), NEW i \in OrderIds, NEW qty \in Nat,
         NEW price \in Nat, st.orders[i].quantity # 0
  PROVE  FillApplied(st, ApplyFill(st, i, qty, price), i, qty, price)
<1> DEFINE b == BookFill(st, i, qty, price)
           o == st.orders[i]
           r == ApplyFill(st, i, qty, price)
<1>1. /\ Account(b) /\ Frame(st, b, i)
      /\ b.cash = st.cash /\ b.reserved_cash = st.reserved_cash
      /\ b.positions = st.positions
      /\ b.orders[i].fillQty = o.fillQty + qty
      /\ b.orders[i].filled = o.filled /\ b.orders[i].status = o.status
      /\ b.orders[i].remaining = o.remaining
      /\ b.orders[i].notional = o.notional /\ b.orders[i].fills = o.fills + 1
      /\ b.orders[i].fillCash = o.fillCash + FillValue(o, qty, price)
  BY BookFillKeeps
<1> HIDE DEF b
<1>2. /\ b.orders[i].quantity # 0 /\ b.orders[i].quantity = o.quantity
      /\ b.orders[i].side = o.side /\ b.orders[i].symbol = o.symbol
      /\ b.orders[i].type = o.type
  BY <1>1 DEF Frame
<1>a. /\ FillValue(b.orders[i], qty, price) = FillValue(o, qty, price)
      /\ Signed(b.orders[i], qty) = Signed(o, qty)
  BY <1>2 DEF FillValue, Signed
<1>3. Applied(b, r, i, qty, price)
  <2>1. CASE o.side = "BUY"
    <3>1. r = ApplyBuy(b, i, qty, price)
      BY <2>1 DEF ApplyFill, b
    <3> QED BY <1>1, <1>2, <2>1, <3>1, ApplyBuyKeeps
  <2>2. CASE o.side # "BUY"
    <3>1. r = ApplySell(b, i, qty, price)
      BY <2>2 DEF ApplyFill, b
    <3> QED BY <1>1, <1>2, <2>2, <3>1, ApplySellKeeps
  <2> QED BY <2>1, <2>2
<1> HIDE DEF r
<1>4. Frame(st, r, i)
  BY <1>1, <1>3 DEF Applied, Frame
<1> QED BY <1>1, <1>2, <1>3, <1>4, <1>a DEF Applied, FillApplied, r

\* The quantities of an order, as numbers.
LEMMA OrderNumbers ==
  ASSUME NEW st, Account(st), NEW i \in OrderIds
  PROVE  LET o == st.orders[i] IN
         /\ o.quantity \in Nat /\ o.filled \in Nat /\ o.fillQty \in Nat
         /\ o.remaining \in Nat /\ o.price \in Nat /\ o.symbol \in Symbols
         /\ o.status \in Live \cup Terminal \cup {"NONE"}
         /\ o.notional \in Nat /\ o.fillCash \in Int /\ o.fills \in Nat
BY AccountTypes DEF Order

\* Orders without fills contribute nothing.
LEMMA NoContribution ==
  ASSUME NEW o, NEW n, o.fillQty = 0, n.fillQty = 0, NEW s
  PROVE  Contribution(n, s) = Contribution(o, s)
<1>1. ASSUME NEW q \in Int, q <= 0, q >= 0 PROVE -q = 0
  BY <1>1
<1>2. ASSUME NEW c, c.fillQty \in Int, c.fillQty <= 0, c.fillQty >= 0
      PROVE  Contribution(c, s) = 0
  <2> DEFINE q == c.fillQty
  <2>1. q = 0 /\ -q = 0
    <3> HIDE DEF q
    <3>1. q \in Int /\ q <= 0 /\ q >= 0
      BY <1>2 DEF q
    <3> QED BY <3>1
  <2>2. \/ Contribution(c, s) = 0 \/ Contribution(c, s) = q
        \/ Contribution(c, s) = -q
    BY Zenon DEF Contribution
  <2> HIDE DEF q
  <2> QED BY <2>1, <2>2, Zenon
<1>3. /\ o.fillQty \in Int /\ o.fillQty <= 0 /\ o.fillQty >= 0
      /\ n.fillQty \in Int /\ n.fillQty <= 0 /\ n.fillQty >= 0
  OBVIOUS
<1> HIDE DEF Contribution
<1>4. Contribution(o, s) = 0 /\ Contribution(n, s) = 0
  BY <1>2, <1>3, Zenon
<1> QED BY <1>4

\* Moving money between cash and reserve explains itself.
LEMMA NeutralExplained ==
  ASSUME NEW st, NEW r, NEW i \in OrderIds, Account(st), Account(r),
         Frame(st, r, i), r.positions = st.positions,
         r.cash + r.reserved_cash = st.cash + st.reserved_cash,
         r.orders[i].fillCash = st.orders[i].fillCash,
         r.orders[i].fillQty = st.orders[i].fillQty
  PROVE  Explained(st, r, i)
<1> DEFINE o == st.orders[i]
           n == r.orders[i]
<1>1. o.fillCash \in Int /\ o.fillQty \in Nat
  BY OrderNumbers
<1>2. /\ st.cash \in Nat /\ st.reserved_cash \in Nat
      /\ st.positions \in [Symbols -> Nat]
  BY AccountTypes
<1>3. ASSUME NEW s \in Symbols
      PROVE  Contribution(n, s) = Contribution(o, s) /\ Contribution(o, s) \in Int
  BY <1>1 DEF Frame, Contribution
<1>4. \A s \in Symbols : r.positions[s]
        = st.positions[s] - Contribution(o, s) + Contribution(n, s)
  <2> SUFFICES ASSUME NEW s \in Symbols
               PROVE  r.positions[s]
                        = st.positions[s] - Contribution(o, s) + Contribution(n, s)
    OBVIOUS
  <2>1. st.positions[s] \in Nat
    BY <1>2
  <2> QED BY <1>3, <2>1
<1> QED BY <1>1, <1>2, <1>4 DEF Explained

\* A fill that moved the account by its own value and quantity is explained.
LEMMA FillExplained ==
  ASSUME NEW st, NEW r, NEW i \in OrderIds, Account(st), Account(r),
         Frame(st, r, i), NEW qty \in Nat, NEW v \in Int,
         r.positions = [st.positions EXCEPT
                          ![st.orders[i].symbol] = @ + Signed(st.orders[i], qty)],
         r.cash + r.reserved_cash = st.cash + st.reserved_cash + v,
         r.orders[i].fillCash = st.orders[i].fillCash + v,
         r.orders[i].fillQty = st.orders[i].fillQty + qty
  PROVE  Explained(st, r, i)
<1> DEFINE o == st.orders[i]
           n == r.orders[i]
<1>1. o.fillCash \in Int /\ o.fillQty \in Nat /\ o.symbol \in Symbols
  BY OrderNumbers
<1>2. /\ st.cash \in Nat /\ st.reserved_cash \in Nat
      /\ st.positions \in [Symbols -> Nat]
  BY AccountTypes
<1>3. n.symbol = o.symbol /\ n.side = o.side
  BY DEF Frame
<1>4. \A s \in Symbols : r.positions[s]
        = st.positions[s] - Contribution(o, s) + Contribution(n, s)
  <2> SUFFICES ASSUME NEW s \in Symbols
               PROVE  r.positions[s]
                        = st.positions[s] - Contribution(o, s) + Contribution(n, s)
    OBVIOUS
  <2>1. st.positions[s] \in Nat
    BY <1>2
  <2>2. CASE s # o.symbol
    <3>1. r.positions[s] = st.positions[s]
      BY <1>2, <2>2
    <3>2. Contribution(o, s) = 0 /\ Contribution(n, s) = 0
      BY <1>3, <2>2 DEF Contribution
    <3> QED BY <2>1, <3>1, <3>2
  <2>3. CASE s = o.symbol
    <3>1. r.positions[s] = st.positions[s] + Signed(o, qty)
      BY <1>2, <2>3
    <3>2. CASE o.side = "BUY"
      <4>1. /\ Signed(o, qty) = qty /\ Contribution(o, s) = o.fillQty
            /\ Contribution(n, s) = o.fillQty + qty
        BY <1>3, <2>3, <3>2 DEF Signed, Contribution
      <4> QED BY <1>1, <2>1, <3>1, <4>1
    <3>3. CASE o.side # "BUY"
      <4>1. /\ Signed(o, qty) = -qty /\ Contribution(o, s) = -o.fillQty
            /\ Contribution(n, s) = -(o.fillQty + qty)
        BY <1>3, <2>3, <3>3 DEF Signed, Contribution
      <4> QED BY <1>1, <2>1, <3>1, <4>1
    <3> QED BY <3>2, <3>3
  <2> QED BY <2>2, <2>3
<1>5. r.cash + r.reserved_cash
        = (st.cash + st.reserved_cash) - o.fillCash + n.fillCash
  BY <1>1, <1>2
<1> QED BY <1>4, <1>5 DEF Explained

\* One more fill takes the reservation at most half a tick further from the
\* share of the rest, whether or not there is enough left to release.
LEMMA FillShare ==
  ASSUME NEW q \in Nat \ {0}, NEW f \in Nat, NEW qty \in Nat, f + qty <= q,
         NEW rem \in Nat, NEW n \in Nat, NEW k \in Nat, rem <= n,
         -(k * Tick * q) <= 2 * (rem * q - n * (q - f)),
         2 * (rem * q - n * (q - f)) <= k * Tick * q
  PROVE  LET r == LessUpTo(rem, Rounded(n * qty, q)) IN
         /\ r <= n
         /\ -((k + 1) * Tick * q) <= 2 * (r * q - n * (q - (f + qty)))
         /\ 2 * (r * q - n * (q - (f + qty))) <= (k + 1) * Tick * q
<1> DEFINE a == Rounded(n * qty, q)
           r == LessUpTo(rem, a)
           x == rem * q
           y == n * (q - f)
           z == n * qty
           w == a * q
           t == Tick * q
           d == k * Tick * q
<1>1. /\ z \in Nat /\ a \in Nat /\ Tick \in Nat
      /\ 2 * w <= 2 * z + t /\ 2 * z - t <= 2 * w
  <2>1. n * qty \in Nat
    OBVIOUS
  <2> QED BY <2>1, RoundedType, RoundedNear, TickAssumption
<1> HIDE DEF a
<1>2. n * (q - (f + qty)) = y - z /\ y - z >= 0
  <2>1. q - (f + qty) \in Nat /\ q - f \in Nat
    OBVIOUS
  <2>2. n * (q - (f + qty)) \in Nat
    BY <2>1
  <2>3. n * (q - (f + qty)) = n * (q - f) - n * qty
    BY <2>1
  <2> QED BY <2>2, <2>3
<1>3. (k + 1) * Tick * q = d + t
  <2>1. (k + 1) * Tick = k * Tick + Tick
    BY <1>1
  <2>2. (k * Tick + Tick) * q = (k * Tick) * q + Tick * q
    BY <1>1
  <2> QED BY <2>1, <2>2
<1>4. x \in Nat /\ y \in Nat /\ w \in Nat /\ t \in Nat /\ d \in Nat
  <2>1. q - f \in Nat
    OBVIOUS
  <2> QED BY <1>1, <2>1
<1>5. /\ r \in Nat /\ r <= rem
      /\ \/ r * q = x - w
         \/ r * q = 0 /\ x <= w
  <2>1. CASE a <= rem
    <3>1. r = rem - a
      BY <2>1 DEF LessUpTo
    <3>2. (rem - a) * q = rem * q - a * q
      BY <1>1
    <3> QED BY <1>1, <2>1, <3>1, <3>2
  <2>2. CASE ~(a <= rem)
    <3>1. r = 0
      BY <2>2 DEF LessUpTo
    <3>2. rem * q <= a * q
      BY <1>1, <2>2
    <3> QED BY <3>1, <3>2
  <2> QED BY <2>1, <2>2
<1>6. -d <= 2 * (x - y) /\ 2 * (x - y) <= d
  OBVIOUS
<1> DEFINE u == r * q
<1>7. /\ -(d + t) <= 2 * (u - (y - z))
      /\ 2 * (u - (y - z)) <= d + t
  <2>1. u = x - w \/ (u = 0 /\ x <= w)
    BY <1>5
  <2>2. y - z >= 0
    BY <1>2
  <2> HIDE DEF r, u, w, t, d, x, y, z
  <2> QED BY <1>1, <1>4, <1>6, <2>1, <2>2
<1>8. r <= n
  BY <1>5
<1>9. /\ -((k + 1) * Tick * q) <= 2 * (r * q - n * (q - (f + qty)))
      /\ 2 * (r * q - n * (q - (f + qty))) <= (k + 1) * Tick * q
  <2> HIDE DEF r, d, t, y, z
  <2> QED BY <1>2, <1>3, <1>7
<1> QED BY <1>8, <1>9 DEF a

\* A fill of at most the unfilled rest leaves a sound order, and no
\* reservation behind a terminal one.
LEMMA FillKeeps ==
  ASSUME NEW st, Account(st), NEW i \in OrderIds, NEW qty \in Nat,
         NEW price \in Nat, st.orders[i].status \in Live,
         OrderInv(st.orders[i]), 0 < qty,
         qty <= st.orders[i].quantity - st.orders[i].filled
  PROVE  LET r == Fill(st, i, qty, price) IN
         /\ Step(st, r, i) /\ Clean(r.orders[i])
         /\ Covered(st.orders[i]) => Covered(r.orders[i])
<1> DEFINE o == st.orders[i]
           rest == o.quantity - o.filled
           st1 == ApplyFill(st, i, qty, price)
           o1 == st1.orders[i]
           r == Fill(st, i, qty, price)
<1>1. /\ o.quantity \in Nat /\ o.filled \in Nat /\ o.fillQty \in Nat
      /\ o.remaining \in Nat /\ o.quantity # 0 /\ o.fillQty = o.filled
  BY OrderNumbers DEF OrderInv, Live
<1>2. /\ Account(st1) /\ Frame(st, st1, i)
      /\ o1.fillQty = o.fillQty + qty /\ o1.notional = o.notional
      /\ o1.fills = o.fills + 1
      /\ o1.fillCash = o.fillCash + FillValue(o, qty, price)
      /\ o.side # "BUY" => o1.remaining = o.remaining
      /\ \/ /\ o1.status = "FAILED" /\ o1.filled = o.filled
            /\ o.side = "BUY" => o1.remaining = 0
            /\ st1.cash + st1.reserved_cash = st.cash + st.reserved_cash
         \/ /\ o1.status = o.status /\ o1.filled = o.filled + qty
            /\ st1.cash + st1.reserved_cash
                 = st.cash + st.reserved_cash + FillValue(o, qty, price)
            /\ st1.positions
                 = [st.positions EXCEPT ![o.symbol] = @ + Signed(o, qty)]
            /\ o.side = "BUY" =>
                 o1.remaining
                   = LessUpTo(o.remaining, Rounded(o.notional * qty, o.quantity))
  <2>1. FillApplied(st, st1, i, qty, price)
    BY <1>1, ApplyFillKeeps
  <2> HIDE DEF st1
  <2> QED BY <2>1 DEF FillApplied
<1>3. o1 \in Order /\ o1.remaining \in Nat
  BY <1>2, AccountTypes
<1>a. FillValue(o, qty, price) \in Int
  BY FeeBound DEF FillValue
<1>4. r = IF o1.status = "FAILED" THEN st1
          ELSE IF qty < rest THEN SetStatus(st1, i, "PARTIALLY_FILLED")
          ELSE SetStatus(ReleaseAll(st1, i), i, "FILLED")
  BY DEF Fill
<1> HIDE DEF r, st1
<1>5. o1.quantity = o.quantity /\ o1.side = o.side
  BY <1>2 DEF Frame
<1>6. CASE o1.status = "FAILED"
  <2>1. r = st1 /\ o1.filled = o.filled
    BY <1>2, <1>4, <1>6 DEF Live
  <2>2. OrderInv(o1) /\ Clean(o1)
    BY <1>1, <1>2, <1>5, <1>6, <2>1 DEF OrderInv, Clean, Live
  <2>3. o1.status \in Live \cup Terminal /\ o.filled <= o1.filled
    BY <1>1, <1>6, <2>1 DEF Terminal
  <2>4. st1.cash + st1.reserved_cash = st.cash + st.reserved_cash
    BY <1>2, <1>6 DEF Live
  <2>5. Explained(st, st1, i)
    <3>1. o1.fillQty # o1.filled
      BY <1>1, <1>2, <2>1
    <3> QED BY <3>1 DEF Explained
  <2>6. Covered(o1)
    BY <1>6 DEF Covered, Live
  <2> QED BY <1>2, <2>1, <2>2, <2>3, <2>4, <2>5, <2>6 DEF Step, r
<1>7. CASE o1.status # "FAILED" /\ qty < rest
  <2>1. r = SetStatus(st1, i, "PARTIALLY_FILLED")
    BY <1>4, <1>7
  <2>2. /\ Account(r) /\ Frame(st1, r, i)
        /\ r.orders[i] = [o1 EXCEPT !.status = "PARTIALLY_FILLED"]
        /\ r.cash = st1.cash /\ r.reserved_cash = st1.reserved_cash
        /\ r.positions = st1.positions
    <3>1. "PARTIALLY_FILLED" \in Live \cup Terminal
      BY DEF Live
    <3> QED BY <1>2, <2>1, <3>1, SetStatusKeeps
  <2>3. /\ r.orders[i].filled = o.filled + qty /\ r.orders[i].fillQty = o.filled + qty
        /\ r.orders[i].status = "PARTIALLY_FILLED"
        /\ r.orders[i].remaining = o1.remaining
        /\ r.orders[i].quantity = o.quantity /\ r.orders[i].side = o.side
        /\ r.orders[i].fillCash = o1.fillCash
        /\ r.orders[i].notional = o.notional /\ r.orders[i].price = o1.price
        /\ r.orders[i].fills = o1.fills
    BY <1>1, <1>2, <1>3, <1>5, <1>7, <2>2 DEF Order
  <2>4. OrderInv(r.orders[i]) /\ Clean(r.orders[i])
    BY <1>1, <1>2, <1>7, <2>3 DEF OrderInv, Clean, Live, Terminal
  <2>5. Frame(st, r, i)
    BY <1>2, <2>2 DEF Frame
  <2>6. o.filled <= r.orders[i].filled /\ o.filled # r.orders[i].filled
        /\ r.orders[i].status \in Live \cup Terminal
    BY <1>1, <2>3 DEF Live
  <2>7. Explained(st, r, i)
    <3>1. r.cash + r.reserved_cash
            = st.cash + st.reserved_cash + FillValue(o, qty, price)
      BY <1>2, <1>7, <2>2
    <3>2. r.positions = [st.positions EXCEPT ![o.symbol] = @ + Signed(o, qty)]
      BY <1>2, <1>7, <2>2
    <3>3. /\ r.orders[i].fillCash = o.fillCash + FillValue(o, qty, price)
          /\ r.orders[i].fillQty = o.fillQty + qty
      BY <1>1, <1>2, <2>3
    <3> QED BY <1>a, <2>2, <2>5, <3>1, <3>2, <3>3, FillExplained
  <2>8. ASSUME Covered(o) PROVE Covered(r.orders[i])
    <3> SUFFICES ASSUME o.side = "BUY", o.price # 0
                 PROVE  Covered(r.orders[i])
      <4>1. r.orders[i].price = o.price
        BY <1>2, <2>3 DEF Frame
      <4> QED BY <2>3, <4>1 DEF Covered
    <3> DEFINE n == r.orders[i]
    <3>1. /\ n.filled = o.filled + qty /\ n.quantity = o.quantity
          /\ n.notional = o.notional /\ n.fills = o.fills + 1
          /\ n.type = o.type /\ n.price = o.price
          /\ n.remaining
               = LessUpTo(o.remaining, Rounded(o.notional * qty, o.quantity))
      <4>1. n.type = o.type /\ n.price = o.price
        BY <2>5 DEF Frame
      <4> QED BY <1>2, <1>7, <2>3, <4>1
    <3>2. /\ o.type # "MARKET" => o.notional = Rounded(o.quantity * o.price, 1)
          /\ o.remaining <= o.notional
          /\ -(o.fills * Tick * o.quantity) <= Drift(o)
          /\ Drift(o) <= o.fills * Tick * o.quantity
      BY <2>8 DEF Covered
    <3>3. /\ n.remaining <= n.notional
          /\ -(n.fills * Tick * n.quantity) <= Drift(n)
          /\ Drift(n) <= n.fills * Tick * n.quantity
      <4> DEFINE q == o.quantity
                 f == o.filled
                 rem == o.remaining
                 nt == o.notional
                 k == o.fills
      <4>1. /\ q \in Nat \ {0} /\ f \in Nat /\ f + qty <= q
            /\ rem \in Nat /\ nt \in Nat /\ k \in Nat /\ rem <= nt
        BY <1>1, <3>2, OrderNumbers
      <4>2. /\ -(k * Tick * q) <= 2 * (rem * q - nt * (q - f))
            /\ 2 * (rem * q - nt * (q - f)) <= k * Tick * q
        BY <3>2 DEF Drift
      <4>3. /\ n.filled = f + qty /\ n.quantity = q /\ n.notional = nt
            /\ n.fills = k + 1
            /\ n.remaining = LessUpTo(rem, Rounded(nt * qty, q))
        BY <3>1
      <4> HIDE DEF q, f, rem, nt, k
      <4>4. LET z == LessUpTo(rem, Rounded(nt * qty, q)) IN
            /\ z <= nt
            /\ -((k + 1) * Tick * q) <= 2 * (z * q - nt * (q - (f + qty)))
            /\ 2 * (z * q - nt * (q - (f + qty))) <= (k + 1) * Tick * q
        BY <4>1, <4>2, FillShare
      <4> HIDE DEF n
      <4> QED BY <4>3, <4>4, Zenon DEF Drift
    <3>4. n.filled < n.quantity
      BY <1>1, <1>7, <3>1
    <3> HIDE DEF n
    <3> QED BY <3>1, <3>2, <3>3, <3>4 DEF Covered, n
  <2> QED BY <2>2, <2>4, <2>5, <2>6, <2>7, <2>8 DEF Step, r
<1>8. CASE o1.status # "FAILED" /\ ~(qty < rest)
  <2> DEFINE st2 == ReleaseAll(st1, i)
             o2 == st2.orders[i]
  <2>1. /\ Account(st2) /\ Frame(st1, st2, i)
        /\ o2 = [o1 EXCEPT !.remaining = o2.remaining]
        /\ o2.remaining = 0
        /\ st2.cash + st2.reserved_cash = st1.cash + st1.reserved_cash
        /\ st2.positions = st1.positions
    <3>1. o1.remaining >= o1.remaining
      BY <1>3
    <3> QED BY <1>2, <1>3, <3>1, ReleaseKeeps DEF ReleaseAll
  <2>2. r = SetStatus(st2, i, "FILLED")
    BY <1>4, <1>8
  <2>3. o2 \in Order
    BY <2>1, AccountTypes
  <2> HIDE DEF st2
  <2>4. /\ Account(r) /\ Frame(st2, r, i)
        /\ r.orders[i] = [o2 EXCEPT !.status = "FILLED"]
        /\ r.cash = st2.cash /\ r.reserved_cash = st2.reserved_cash
        /\ r.positions = st2.positions
    <3>1. "FILLED" \in Live \cup Terminal
      BY DEF Terminal
    <3> QED BY <2>1, <2>2, <3>1, SetStatusKeeps
  <2>5. /\ r.orders[i].filled = o1.filled /\ r.orders[i].fillQty = o1.fillQty
        /\ r.orders[i].status = "FILLED" /\ r.orders[i].remaining = 0
        /\ r.orders[i].quantity = o1.quantity /\ r.orders[i].side = o1.side
        /\ r.orders[i].fillCash = o1.fillCash
    BY <1>3, <2>1, <2>3, <2>4 DEF Order
  <2>6. o1.filled = o.quantity /\ o1.fillQty = o.quantity
    BY <1>1, <1>2, <1>8
  <2>7. OrderInv(r.orders[i]) /\ Clean(r.orders[i])
    BY <1>1, <1>5, <2>5, <2>6 DEF OrderInv, Clean
  <2>8. Frame(st, r, i)
    BY <1>2, <2>1, <2>4 DEF Frame
  <2>9. o.filled <= r.orders[i].filled /\ o.filled # r.orders[i].filled
        /\ r.orders[i].status \in Live \cup Terminal
    BY <1>1, <2>5, <2>6 DEF Terminal
  <2>10. Explained(st, r, i)
    <3>1. r.cash + r.reserved_cash
            = st.cash + st.reserved_cash + FillValue(o, qty, price)
      BY <1>2, <1>8, <2>1, <2>4
    <3>2. r.positions = [st.positions EXCEPT ![o.symbol] = @ + Signed(o, qty)]
      BY <1>2, <1>8, <2>1, <2>4
    <3>3. /\ r.orders[i].fillCash = o.fillCash + FillValue(o, qty, price)
          /\ r.orders[i].fillQty = o.fillQty + qty
      BY <1>2, <2>5
    <3> QED BY <1>a, <2>4, <2>8, <3>1, <3>2, <3>3, FillExplained
  <2>11. Covered(r.orders[i])
    BY <2>5 DEF Covered, Live
  <2> QED BY <2>4, <2>7, <2>8, <2>9, <2>10, <2>11 DEF Step, r
<1> QED BY <1>6, <1>7, <1>8

\* Working twice on the same order is working on it once.
LEMMA StepTrans ==
  ASSUME NEW st, NEW s1, NEW r, NEW i \in OrderIds, Account(st),
         Step(st, s1, i), Step(s1, r, i), s1.orders[i].status # "FAILED"
  PROVE  Step(st, r, i)
<1> DEFINE f == st.orders[i].filled
           f1 == s1.orders[i].filled
           fr == r.orders[i].filled
<1>1. f \in Nat /\ f1 \in Nat /\ fr \in Nat
  BY OrderNumbers DEF Step
<1>2. f <= f1 /\ f1 <= fr
  BY DEF Step
<1>3. fr = f => f1 = f /\ fr = f1
  BY <1>1, <1>2
<1>4. Frame(st, r, i)
  BY DEF Step, Frame
<1>5. fr = f => r.cash + r.reserved_cash = st.cash + st.reserved_cash
  BY <1>3 DEF Step
<1>6. f <= fr
  BY <1>1, <1>2
<1>7. Explained(st, r, i)
  <2> DEFINE o == st.orders[i]
             o1 == s1.orders[i]
             n == r.orders[i]
  <2> SUFFICES ASSUME n.fillQty = n.filled
               PROVE  /\ r.cash + r.reserved_cash
                           = (st.cash + st.reserved_cash) - o.fillCash + n.fillCash
                      /\ \A s \in Symbols : r.positions[s]
                           = st.positions[s] - Contribution(o, s)
                               + Contribution(n, s)
    BY DEF Explained
  <2>1. o1.fillQty = o1.filled
    BY DEF Step, OrderInv
  <2>2. /\ s1.cash + s1.reserved_cash
             = (st.cash + st.reserved_cash) - o.fillCash + o1.fillCash
        /\ \A s \in Symbols : s1.positions[s]
             = st.positions[s] - Contribution(o, s) + Contribution(o1, s)
    BY <2>1 DEF Step, Explained
  <2>3. /\ r.cash + r.reserved_cash
             = (s1.cash + s1.reserved_cash) - o1.fillCash + n.fillCash
        /\ \A s \in Symbols : r.positions[s]
             = s1.positions[s] - Contribution(o1, s) + Contribution(n, s)
    BY DEF Step, Explained
  <2>4. Account(s1) /\ Account(r)
    BY DEF Step
  <2>5. /\ o.fillCash \in Int /\ o.fillQty \in Nat
        /\ o1.fillCash \in Int /\ o1.fillQty \in Nat
        /\ n.fillCash \in Int /\ n.fillQty \in Nat
    BY <2>4, OrderNumbers
  <2>6. /\ st.cash \in Nat /\ st.reserved_cash \in Nat
        /\ st.positions \in [Symbols -> Nat]
        /\ s1.cash \in Nat /\ s1.reserved_cash \in Nat
        /\ r.cash \in Nat /\ r.reserved_cash \in Nat
    BY <2>4, AccountTypes
  <2> HIDE DEF o, o1, n
  <2>7. ASSUME NEW s \in Symbols
        PROVE  r.positions[s]
                 = st.positions[s] - Contribution(o, s) + Contribution(n, s)
    <3>1. /\ Contribution(o, s) \in Int /\ Contribution(o1, s) \in Int
          /\ Contribution(n, s) \in Int
      BY <2>5 DEF Contribution
    <3>2. st.positions[s] \in Int
      BY <2>6
    <3> QED BY <2>2, <2>3, <3>1, <3>2
  <2>8. r.cash + r.reserved_cash
          = (st.cash + st.reserved_cash) - o.fillCash + n.fillCash
    <3>1. /\ s1.cash + s1.reserved_cash
               = (st.cash + st.reserved_cash) - o.fillCash + o1.fillCash
          /\ r.cash + r.reserved_cash
               = (s1.cash + s1.reserved_cash) - o1.fillCash + n.fillCash
      BY <2>2, <2>3
    <3> QED BY <2>5, <2>6, <3>1
  <2> QED BY <2>7, <2>8
<1> QED BY <1>4, <1>5, <1>6, <1>7 DEF Step

\* A live order that is refused without a release fails as it stands.
LEMMA FailKeeps ==
  ASSUME NEW st, Account(st), NEW i \in OrderIds,
         st.orders[i].status \in Live, OrderInv(st.orders[i])
  PROVE  LET r == SetStatus(st, i, "FAILED") IN
         /\ Step(st, r, i) /\ Covered(r.orders[i])
         /\ r.orders[i].remaining = st.orders[i].remaining
<1> DEFINE o == st.orders[i]
           r == SetStatus(st, i, "FAILED")
           n == r.orders[i]
<1>1. /\ Account(r) /\ Frame(st, r, i)
      /\ n = [o EXCEPT !.status = "FAILED"]
      /\ r.cash = st.cash /\ r.reserved_cash = st.reserved_cash
      /\ r.positions = st.positions
  <2>1. "FAILED" \in Live \cup Terminal
    BY DEF Terminal
  <2> QED BY <2>1, SetStatusKeeps
<1>2. o \in Order /\ o.filled \in Nat
  BY AccountTypes, OrderNumbers
<1> HIDE DEF r
<1>3. /\ n.status = "FAILED" /\ n.filled = o.filled /\ n.fillQty = o.fillQty
      /\ n.quantity = o.quantity /\ n.remaining = o.remaining /\ n.side = o.side
      /\ n.fillCash = o.fillCash
  BY <1>1, <1>2 DEF Order
<1>4. OrderInv(n)
  BY <1>3 DEF OrderInv
<1>5. n.status \in Live \cup Terminal /\ o.filled <= n.filled
  BY <1>2, <1>3 DEF Terminal
<1>6. r.cash + r.reserved_cash = st.cash + st.reserved_cash
  BY <1>1
<1>7. Explained(st, r, i)
  BY <1>1, <1>3, <1>6, NeutralExplained
<1>8. Covered(n)
  BY <1>3 DEF Covered, Live
<1> QED BY <1>1, <1>3, <1>4, <1>5, <1>6, <1>7, <1>8 DEF Step, r

\* A live order that is closed gives its whole reservation back.
LEMMA CloseKeeps ==
  ASSUME NEW st, Account(st), NEW i \in OrderIds,
         st.orders[i].status \in Live, OrderInv(st.orders[i]),
         NEW status \in {"REJECTED", "CANCELLED", "EXPIRED"}
  PROVE  LET r == SetStatus(ReleaseAll(st, i), i, status) IN
         Step(st, r, i) /\ Clean(r.orders[i]) /\ Covered(r.orders[i])
<1> DEFINE o == st.orders[i]
           s1 == ReleaseAll(st, i)
           o1 == s1.orders[i]
           r == SetStatus(s1, i, status)
           n == r.orders[i]
<1>1. o \in Order /\ o.filled \in Nat /\ o.remaining \in Nat
  BY AccountTypes, OrderNumbers
<1>2. /\ Account(s1) /\ Frame(st, s1, i)
      /\ s1.cash + s1.reserved_cash = st.cash + st.reserved_cash
      /\ s1.positions = st.positions
      /\ o1 = [o EXCEPT !.remaining = o1.remaining]
      /\ o1.remaining = 0
  <2>1. o.remaining >= o.remaining
    BY <1>1
  <2> QED BY <1>1, <2>1, ReleaseKeeps DEF ReleaseAll
<1>3. o1 \in Order
  BY <1>2, AccountTypes
<1> HIDE DEF s1
<1>4. /\ Account(r) /\ Frame(s1, r, i)
      /\ r.orders[i] = [s1.orders[i] EXCEPT !.status = status]
      /\ r.cash = s1.cash /\ r.reserved_cash = s1.reserved_cash
      /\ r.positions = s1.positions
  <2>1. status \in Live \cup Terminal
    BY DEF Terminal
  <2> QED BY <1>2, <2>1, SetStatusKeeps
<1> HIDE DEF r
<1>5. /\ n.status = status /\ n.remaining = 0
      /\ n.filled = o1.filled /\ n.fillQty = o1.fillQty
      /\ n.quantity = o1.quantity /\ n.side = o1.side /\ n.fillCash = o1.fillCash
  BY <1>2, <1>3, <1>4 DEF Order
<1>6. /\ o1.filled = o.filled /\ o1.fillQty = o.fillQty
      /\ o1.quantity = o.quantity /\ o1.fillCash = o.fillCash
  BY <1>1, <1>2 DEF Order
<1>7. OrderInv(n) /\ Clean(n)
  BY <1>5, <1>6 DEF OrderInv, Clean, Live
<1>8. n.status \in Live \cup Terminal /\ o.filled <= n.filled
  BY <1>1, <1>5, <1>6 DEF Terminal
<1>9. Frame(st, r, i)
  BY <1>2, <1>4 DEF Frame
<1>10. r.cash + r.reserved_cash = st.cash + st.reserved_cash
  BY <1>2, <1>4
<1>11. Explained(st, r, i)
  BY <1>2, <1>4, <1>5, <1>6, <1>9, <1>10, NeutralExplained
<1>12. Covered(n)
  BY <1>5 DEF Covered, Live
<1> QED BY <1>4, <1>7, <1>8, <1>9, <1>10, <1>11, <1>12 DEF Step, r, s1

\* _execute_fill, clean unless the fill rounds to nothing.
LEMMA ExecuteFillKeeps ==
  ASSUME NEW st, Account(st), NEW i \in OrderIds, NEW req \in RequestType,
         NEW m \in Nat, st.orders[i].status \in Live, OrderInv(st.orders[i]),
         st.orders[i].quantity = req.quantity, st.orders[i].filled = 0
  PROVE  LET r == ExecuteFill(st, i, req, m) IN
         /\ Step(st, r, i)
         /\ Covered(st.orders[i]) => Covered(r.orders[i])
         /\ FillQuantity(req.quantity) > 0 => Clean(r.orders[i])
<1> DEFINE qty == FillQuantity(req.quantity)
           price == FillPrice(m, req.side, req.type, req.price)
           r == ExecuteFill(st, i, req, m)
<1>1. req.quantity \in Nat /\ req.price \in Nat
  BY DEF RequestType
<1>2. qty \in Nat /\ qty <= req.quantity /\ price \in Nat
  BY <1>1, FillQuantityBound, FillPriceType
<1>3. r = IF qty <= 0 THEN SetStatus(st, i, "FAILED") ELSE Fill(st, i, qty, price)
  BY DEF ExecuteFill
<1> HIDE DEF r, qty, price
<1>4. CASE qty <= 0
  <2>1. Step(st, r, i) /\ Covered(r.orders[i])
    BY <1>3, <1>4, FailKeeps
  <2> QED BY <1>2, <1>4, <2>1 DEF r, qty
<1>5. CASE ~(qty <= 0)
  <2>1. 0 < qty /\ qty <= st.orders[i].quantity - st.orders[i].filled
    BY <1>1, <1>2, <1>5
  <2>2. /\ Step(st, Fill(st, i, qty, price), i)
        /\ Clean(Fill(st, i, qty, price).orders[i])
        /\ Covered(st.orders[i]) => Covered(Fill(st, i, qty, price).orders[i])
    BY <1>2, <2>1, FillKeeps
  <2> QED BY <1>3, <1>5, <2>2 DEF r
<1> QED BY <1>4, <1>5

\* The reservation step of submit.
LEMMA ReservedKeeps ==
  ASSUME NEW st, Account(st), NEW i \in OrderIds, NEW req \in RequestType,
         NEW m \in Nat, st.orders[i] = NewOrder(req)
  PROVE  LET r == Reserved(st, i, req, m)
             n == r.orders[i] IN
         /\ Step(st, r, i)
         /\ n.filled = 0 /\ n.quantity = req.quantity
         /\ n.status = "FAILED" => n.remaining = 0
         /\ n.status # "FAILED" => n.status \in Live
         /\ ReservePrice(req, m) # 0 => Covered(n)
<1> DEFINE o == st.orders[i]
           p == ReservePrice(req, m)
           r == Reserved(st, i, req, m)
           n == r.orders[i]
<1>1. /\ o.status = "SUBMITTED" /\ o.filled = 0 /\ o.fillQty = 0
      /\ o.remaining = 0 /\ o.quantity = req.quantity /\ o.side = req.side
      /\ o.notional = 0 /\ o.fills = 0 /\ o.price = req.price /\ o.type = req.type
      /\ req.quantity \in Nat \ {0}
  BY DEF NewOrder, RequestType
<1>2. OrderInv(o)
  BY <1>1 DEF OrderInv
<1>3. p \in Nat
  <2>1. req.price \in Nat /\ req.stop_loss \in Nat /\ req.take_profit \in Nat
    BY DEF RequestType
  <2> QED BY <2>1 DEF ReservePrice, Or
<1>4. st.cash \in Nat /\ st.reserved_cash \in Nat
  BY AccountTypes
<1> HIDE DEF p
<1>5. CASE req.side = "BUY" /\ p # 0
  <2> DEFINE b == ReserveBuy(st, i, p)
  <2>1. r = b
    BY <1>5 DEF Reserved, p
  <2>2. /\ Account(b) /\ Frame(st, b, i)
        /\ b.cash + b.reserved_cash = st.cash + st.reserved_cash
        /\ b.positions = st.positions
        /\ b.orders[i].filled = o.filled /\ b.orders[i].fillQty = o.fillQty
        /\ b.orders[i].fillCash = o.fillCash
        /\ \/ /\ b.orders[i].status = o.status
              /\ b.orders[i].notional = Rounded(o.quantity * p, 1)
              /\ b.orders[i].remaining = b.orders[i].notional
              /\ b.orders[i].fills = o.fills
           \/ b.orders[i].status = "FAILED" /\ b.orders[i].remaining = 0
    BY <1>1, <1>3, ReserveBuyKeeps
  <2> HIDE DEF b
  <2>3. b.orders[i].quantity = req.quantity /\ b.orders[i].side = "BUY"
    BY <1>1, <1>5, <2>2 DEF Frame
  <2>4. OrderInv(b.orders[i])
    BY <1>1, <2>2, <2>3 DEF OrderInv
  <2>5. Step(st, b, i)
    <3>1. b.orders[i].status \in Live \cup Terminal
      BY <1>1, <2>2 DEF Live, Terminal
    <3>2. o.filled <= b.orders[i].filled
      BY <1>1, <2>2
    <3>3. Explained(st, b, i)
      BY <2>2, NeutralExplained
    <3> QED BY <2>2, <2>4, <3>1, <3>2, <3>3 DEF Step
  <2>6. Covered(b.orders[i])
    <3>1. CASE b.orders[i].status = "FAILED"
      BY <3>1 DEF Covered, Live
    <3>2. CASE b.orders[i].status # "FAILED"
      <4> DEFINE n1 == b.orders[i]
                 q == req.quantity
                 v == Rounded(q * p, 1)
      <4>1. /\ n1.notional = v /\ n1.remaining = v /\ n1.fills = 0
            /\ n1.filled = 0 /\ n1.quantity = q /\ q \in Nat \ {0}
            /\ n1.type = req.type /\ n1.price = req.price
        BY <1>1, <2>2, <2>3, <3>2 DEF Frame
      <4>2. v \in Nat
        <5>1. q * p \in Nat
          BY <1>1, <1>3
        <5> QED BY <5>1, RoundedType
      <4>3. n1.price # 0 /\ n1.type # "MARKET" => p = n1.price
        BY <4>1 DEF ReservePrice, Or, RequestType, Types, p
      <4> HIDE DEF n1, q
      <4>4. n1.price # 0 /\ n1.type # "MARKET" =>
              n1.notional = Rounded(n1.quantity * n1.price, 1)
        BY <4>1, <4>3
      <4> HIDE DEF v
      <4>5. Drift(n1) = 0
        <5>1. Drift(n1) = 2 * (v * q - v * (q - 0))
          BY <4>1 DEF Drift
        <5> QED BY <4>1, <4>2, <5>1
      <4>6. n1.fills * Tick * n1.quantity = 0
        BY <4>1, TickAssumption
      <4>7. n1.filled < n1.quantity /\ n1.remaining <= n1.notional
        BY <4>1, <4>2
      <4> QED BY <4>4, <4>5, <4>6, <4>7 DEF Covered, n1
    <3> QED BY <3>1, <3>2
  <2> QED BY <1>1, <2>1, <2>2, <2>3, <2>5, <2>6 DEF Live, r
<1>6. CASE ~(req.side = "BUY" /\ p # 0)
  <2>1. r = st
    BY <1>6 DEF Reserved, p
  <2>2. Step(st, st, i)
    <3>1. o.status \in Live \cup Terminal /\ o.filled <= o.filled
      BY <1>1 DEF Live
    <3>2. Frame(st, st, i)
      BY DEF Frame
    <3>3. Explained(st, st, i)
      BY <3>2, NeutralExplained
    <3> QED BY <1>2, <1>4, <3>1, <3>2, <3>3 DEF Step
  <2>3. p # 0 => Covered(o)
    BY <1>1, <1>6 DEF Covered
  <2> QED BY <1>1, <2>1, <2>2, <2>3 DEF Live, r, p
<1> QED BY <1>5, <1>6

\* submit of an approved request, clean unless its fill rounds to nothing.
LEMMA AcceptedKeeps ==
  ASSUME NEW st, Account(st), NEW i \in OrderIds, NEW req \in RequestType,
         NEW m \in Nat, st.orders[i] = NewOrder(req)
  PROVE  LET r == Accepted(st, i, req, m) IN
         /\ Step(st, r, i) /\ Covered(r.orders[i])
         /\ FillQuantity(req.quantity) > 0 => Clean(r.orders[i])
<1> DEFINE s1 == Reserved(st, i, req, m)
           n == s1.orders[i]
           r == Accepted(st, i, req, m)
           good == FillQuantity(req.quantity) > 0
           e == ExecuteFill(s1, i, req, m)
           j == SetStatus(ReleaseAll(s1, i), i, "REJECTED")
           f == SetStatus(st, i, "FAILED")
<1>1. /\ Step(st, s1, i)
      /\ n.filled = 0 /\ n.quantity = req.quantity
      /\ n.status = "FAILED" => n.remaining = 0
      /\ n.status # "FAILED" => n.status \in Live
      /\ ReservePrice(req, m) # 0 => Covered(n)
  BY ReservedKeeps
<1>2. Account(s1) /\ OrderInv(n)
  BY <1>1 DEF Step
<1> DEFINE stopped == req.type \in {"STOP_LOSS", "TAKE_PROFIT"}
<1>a. m # 0 \/ stopped => Covered(n)
  <2> SUFFICES ASSUME m # 0 \/ stopped PROVE Covered(n)
    OBVIOUS
  <2>1. n.price = req.price
    BY <1>1 DEF Step, Frame, NewOrder
  <2>2. CASE req.price = 0
    BY <2>1, <2>2 DEF Covered
  <2>3. CASE req.price # 0
    <3>1. ReservePrice(req, m) # 0
      BY <2>3 DEF ReservePrice, Or, RequestType, Types
    <3> QED BY <1>1, <3>1
  <2> QED BY <2>2, <2>3
<1>3. \/ r = f
      \/ r = s1 /\ (m # 0 \/ stopped)
      \/ (n.status # "FAILED" /\ r = j)
      \/ (n.status # "FAILED" /\ r = e /\ m # 0)
  <2> DEFINE waits == \/ stopped /\ Waits(req.side, req.type, Trigger(req), m)
                      \/ /\ req.type = "LIMIT" /\ req.price # 0
                         /\ Waits(req.side, req.type, req.price, m)
  <2>1. r = IF m = 0 THEN IF stopped THEN s1 ELSE f
            ELSE IF s1.orders[i].status = "FAILED" THEN s1
            ELSE IF stopped /\ Trigger(req) = 0 THEN j
            ELSE IF waits THEN s1 ELSE e
    BY Zenon DEF Accepted
  <2> HIDE DEF r, s1, f, j, e, stopped, waits
  <2> QED BY <2>1
<1> HIDE DEF r, s1, good, stopped
<1>4. CASE r = f
  <2>1. st.orders[i].status = "SUBMITTED" /\ st.orders[i].remaining = 0
    BY DEF NewOrder
  <2>2. OrderInv(st.orders[i])
    <3>1. req.quantity \in Nat
      BY DEF RequestType
    <3> QED BY <3>1 DEF OrderInv, NewOrder
  <2>3. /\ Step(st, f, i) /\ Covered(f.orders[i])
        /\ f.orders[i].remaining = st.orders[i].remaining
    BY <2>1, <2>2, FailKeeps DEF Live
  <2> QED BY <1>4, <2>1, <2>3 DEF Clean, r
<1>5. CASE r = s1 /\ (m # 0 \/ stopped)
  <2>1. Clean(n) /\ Covered(n)
    BY <1>1, <1>5, <1>a DEF Clean, Live, Terminal
  <2> QED BY <1>1, <1>5, <2>1 DEF r
<1>6. CASE n.status # "FAILED" /\ r = j
  <2>1. Step(s1, j, i) /\ Clean(j.orders[i]) /\ Covered(j.orders[i])
    BY <1>1, <1>2, <1>6, CloseKeeps
  <2>2. Step(st, j, i)
    BY <1>1, <1>6, <2>1, StepTrans
  <2> QED BY <1>6, <2>1, <2>2 DEF r
<1>7. CASE n.status # "FAILED" /\ r = e /\ m # 0
  <2>1. /\ Step(s1, e, i) /\ (good => Clean(e.orders[i]))
        /\ Covered(n) => Covered(e.orders[i])
    BY <1>1, <1>2, <1>7, ExecuteFillKeeps DEF good
  <2>a. Covered(e.orders[i])
    BY <1>7, <1>a, <2>1
  <2>2. Step(st, e, i)
    BY <1>1, <1>7, <2>1, StepTrans
  <2> QED BY <1>7, <2>1, <2>2, <2>a DEF r, good
<1> QED BY <1>3, <1>4, <1>5, <1>6, <1>7

---------------------------------------------------------------------------
(* The inductive invariant *)

\* An order _try_trigger_resting has selected and not reached yet.
Fillable(o) ==
  o.status \in Live /\ FillQuantity(o.quantity - o.filled) > 0

\* TypeOK, Solvent, ReservationsBalance and FillsWithinOrder support each
\* other (a release is covered by the reserve only because the reserve is the
\* sum of the holdings; the sum stays right only because an order's holding is
\* released once), and the orders in due stay fillable until they are reached.
\* Covered is LiveBuysStayReserved, whose drift grows by one rounding at a time.
IInv ==
  /\ Account(state)
  /\ mark \in [Symbols -> Nat]
  /\ count \in 0..MaxOrders
  /\ due \subseteq 1..count
  /\ \A i \in OrderIds : state.orders[i].status = "NONE" <=> i > count
  /\ \A i \in OrderIds : OrderInv(state.orders[i]) /\ Covered(state.orders[i])
  /\ \A i \in due : Fillable(state.orders[i])

\* The first fill of every request is at least one tick.
NoDust == \A req \in Requests : FillQuantity(req.quantity) > 0

\* A step worked on order i, which was new or live.
Change(i) ==
  LET o == state.orders[i]
      n == state'.orders[i] IN
  /\ \A j \in OrderIds : j # i => state'.orders[j] = state.orders[j]
  /\ o.status \in Live \cup {"NONE"}
  /\ o.filled <= n.filled
  /\ n.filled = o.filled =>
       state'.cash + state'.reserved_cash = state.cash + state.reserved_cash
  /\ Explained(state, state', i)
  /\ NoDust => Clean(n)

\* What a step does to the orders: nothing, or work on one of them.
Changed == state' = state \/ \E i \in OrderIds : Change(i)

\* The initial state satisfies the invariant.
LEMMA InitIInv == Init => IInv
<1> SUFFICES ASSUME Init PROVE IInv
  OBVIOUS
<1>1. NoOrder \in Order
  <2>1. (CHOOSE s \in Symbols : TRUE) \in Symbols
    BY SymbolsAssumption
  <2> QED BY <2>1 DEF NoOrder, Order, Sides, Types
<1>2. /\ state \in PaperState
      /\ state.cash = InitialCash /\ state.reserved_cash = 0
      /\ \A s \in Symbols : state.positions[s] = 0
      /\ \A i \in OrderIds : state.orders[i] = NoOrder
  BY <1>1, BoundsAssumption DEF Init, PaperState
<1>a. /\ NoOrder.remaining = 0 /\ NoOrder.filled = 0 /\ NoOrder.fillQty = 0
      /\ NoOrder.quantity = 0 /\ NoOrder.status = "NONE" /\ NoOrder.fillCash = 0
  BY DEF NoOrder
<1>3. SumTo(Holding(state), MaxOrders) = 0
  <2>1. \A k \in 1..MaxOrders : Holding(state)[k] = 0
    BY <1>2, <1>a DEF Holding, OrderIds
  <2>2. Holding(state) \in [1..MaxOrders -> Int]
    BY <1>2, HoldingType
  <2> QED BY <2>1, <2>2, SumZero, BoundsAssumption
<1>4. Account(state)
  BY <1>2, <1>3, BoundsAssumption DEF Account
<1>5. \A i \in OrderIds : OrderInv(state.orders[i]) /\ Covered(state.orders[i])
  BY <1>2, <1>a DEF OrderInv, Covered, Live
<1>6. \A i \in OrderIds : state.orders[i].status = "NONE" <=> i > count
  BY <1>2, BoundsAssumption DEF NoOrder, Init, OrderIds
<1>7. mark \in [Symbols -> Nat] /\ count \in 0..MaxOrders /\ due = {}
  BY BoundsAssumption DEF Init
<1> QED BY <1>4, <1>5, <1>6, <1>7 DEF IInv

\* What a step must still show of the one order it worked on.
LEMMA OneOrder ==
  ASSUME IInv, NEW i \in OrderIds, Account(state'),
         OrderInv(state'.orders[i]), Covered(state'.orders[i]),
         state'.orders[i].status \in Live \cup Terminal,
         \A j \in OrderIds : j # i => state'.orders[j] = state.orders[j],
         mark' = mark, count' \in 0..MaxOrders, i <= count',
         \A j \in OrderIds : j # i => (j > count' <=> j > count),
         count <= count', due' \subseteq due, i \notin due'
  PROVE  IInv'
<1>1. count \in Nat /\ count' \in Nat /\ i \in Nat
  BY BoundsAssumption DEF IInv, OrderIds
<1>2. \A j \in OrderIds : state'.orders[j].status = "NONE" <=> j > count'
  <2> SUFFICES ASSUME NEW j \in OrderIds
               PROVE  state'.orders[j].status = "NONE" <=> j > count'
    OBVIOUS
  <2>1. CASE j = i
    <3>1. state'.orders[i].status # "NONE"
      BY DEF Live, Terminal
    <3> QED BY <1>1, <2>1, <3>1
  <2>2. CASE j # i
    BY <2>2 DEF IInv
  <2> QED BY <2>1, <2>2
<1>3. \A j \in OrderIds : OrderInv(state'.orders[j]) /\ Covered(state'.orders[j])
  BY DEF IInv
<1>4. due' \subseteq 1..count'
  BY <1>1 DEF IInv
<1>5. \A j \in due' : Fillable(state'.orders[j])
  <2> SUFFICES ASSUME NEW j \in due' PROVE Fillable(state'.orders[j])
    OBVIOUS
  <2>1. j \in due /\ j # i
    OBVIOUS
  <2>2. j \in 1..count /\ count \in 0..MaxOrders
    BY <2>1 DEF IInv
  <2>3. j \in OrderIds
    BY <2>2, BoundsAssumption DEF OrderIds
  <2> QED BY <2>1, <2>3 DEF IInv
<1> QED BY <1>2, <1>3, <1>4, <1>5 DEF IInv

\* A step that works on an existing order keeps the invariant.
LEMMA ExistingOrder ==
  ASSUME IInv, NEW i \in 1..count, Step(state, state', i),
         NoDust => Clean(state'.orders[i]), Covered(state'.orders[i]),
         state.orders[i].status \in Live,
         mark' = mark, count' = count, due' \subseteq due, i \notin due'
  PROVE  IInv' /\ Changed
<1>1. i \in OrderIds /\ count \in 0..MaxOrders /\ i <= count /\ count <= count
  BY BoundsAssumption DEF IInv, OrderIds
<1>2. /\ Account(state') /\ OrderInv(state'.orders[i])
      /\ state'.orders[i].status \in Live \cup Terminal
      /\ \A j \in OrderIds : j # i => state'.orders[j] = state.orders[j]
  BY DEF Step, Frame
<1>3. IInv'
  BY <1>1, <1>2, OneOrder
<1>4. Change(i)
  BY <1>2 DEF Change, Step
<1> QED BY <1>1, <1>3, <1>4 DEF Changed

\* The ledger after submit has stored the order of a request, whatever the
\* status it gets: the account is untouched.
LEMMA StoreKeeps ==
  ASSUME IInv, count < MaxOrders, NEW n \in Order, n.remaining = 0
  PROVE  LET i == count + 1
             r == [state EXCEPT !.orders[i] = n] IN
         /\ i \in OrderIds /\ Account(r)
         /\ r.orders[i] = n
         /\ \A j \in OrderIds : j # i => r.orders[j] = state.orders[j]
         /\ r.cash = state.cash /\ r.reserved_cash = state.reserved_cash
         /\ r.positions = state.positions
         /\ state.orders[i].status = "NONE" /\ state.orders[i].filled = 0
<1> DEFINE i == count + 1
           r == [state EXCEPT !.orders[i] = n]
<1>1. count \in Nat /\ i \in OrderIds /\ i > count
  BY BoundsAssumption DEF IInv, OrderIds
<1> HIDE DEF i
<1>2. state.orders[i].status = "NONE" /\ state.orders[i].filled = 0
      /\ state.orders[i].remaining = 0
  BY <1>1 DEF IInv, OrderInv
<1>3. /\ state \in PaperState /\ Account(state)
      /\ state.cash \in Nat /\ state.reserved_cash \in Nat
      /\ state.positions \in [Symbols -> Nat]
  BY <1>1, AccountTypes DEF IInv
<1>4. r = Result(state, state.cash, state.reserved_cash, state.positions, i, n)
  BY <1>1, <1>3 DEF Result, PaperState
<1>5. state.reserved_cash
        = state.reserved_cash - state.orders[i].remaining + n.remaining
  BY <1>2, <1>3
<1> HIDE DEF r
<1>6. Account(r)
  BY <1>1, <1>3, <1>4, <1>5, AccountStep
<1>7. /\ r.orders[i] = n
      /\ \A j \in OrderIds : j # i => r.orders[j] = state.orders[j]
      /\ r.cash = state.cash /\ r.reserved_cash = state.reserved_cash
      /\ r.positions = state.positions
  BY <1>1, <1>3, <1>4 DEF Result, PaperState
<1> QED BY <1>1, <1>2, <1>6, <1>7 DEF i, r

\* A step that creates an order keeps the invariant.
LEMMA CreatedOrder ==
  ASSUME IInv, CanCreate, mark' = mark, count' = count + 1, due' = due,
         NEW st, Step(st, state', count + 1),
         \A j \in OrderIds : j # count + 1 => st.orders[j] = state.orders[j],
         st.cash + st.reserved_cash = state.cash + state.reserved_cash,
         st.positions = state.positions,
         st.orders[count + 1].filled = 0, st.orders[count + 1].fillQty = 0,
         st.orders[count + 1].fillCash = 0, Covered(state'.orders[count + 1]),
         state.orders[count + 1].status = "NONE",
         state.orders[count + 1].filled = 0,
         NoDust => Clean(state'.orders[count + 1])
  PROVE  IInv' /\ Changed
<1> DEFINE i == count + 1
<1>1. /\ i \in OrderIds /\ count' \in 0..MaxOrders /\ i <= count'
      /\ count <= count' /\ due' \subseteq due /\ i \notin due'
      /\ \A j \in OrderIds : j # i => (j > count' <=> j > count)
  BY BoundsAssumption DEF IInv, OrderIds, CanCreate
<1> HIDE DEF i
<1>2. Step(st, state', i)
  BY DEF i
<1>3. /\ Account(state') /\ OrderInv(state'.orders[i])
      /\ state'.orders[i].status \in Live \cup Terminal
      /\ Covered(state'.orders[i])
      /\ \A j \in OrderIds : j # i => state'.orders[j] = state.orders[j]
  BY <1>2 DEF Step, Frame, i
<1>4. IInv'
  BY <1>1, <1>3, OneOrder
<1>a. Explained(state, state', i)
  <2> DEFINE o == state.orders[i]
             o1 == st.orders[i]
             n == state'.orders[i]
  <2>1. o.fillCash = 0 /\ o.fillQty = 0
    BY <1>1 DEF IInv, OrderInv, i
  <2>2. o1.fillCash = 0 /\ o1.fillQty = 0
    BY DEF i
  <2>3. \A s \in Symbols : Contribution(o1, s) = Contribution(o, s)
    BY <2>1, <2>2, NoContribution
  <2>4. Explained(st, state', i)
    BY <1>2 DEF Step
  <2> HIDE DEF o, o1, n
  <2>5. /\ (st.cash + st.reserved_cash) - o1.fillCash + n.fillCash
             = (state.cash + state.reserved_cash) - o.fillCash + n.fillCash
        /\ \A s \in Symbols :
             st.positions[s] - Contribution(o1, s) + Contribution(n, s)
               = state.positions[s] - Contribution(o, s) + Contribution(n, s)
    <3>1. \A s \in Symbols :
            st.positions[s] - Contribution(o1, s) + Contribution(n, s)
              = state.positions[s] - Contribution(o, s) + Contribution(n, s)
      BY <2>3
    <3>2. o1.fillCash = o.fillCash
      BY <2>1, <2>2
    <3> DEFINE a == st.cash + st.reserved_cash
               b == state.cash + state.reserved_cash
    <3>3. a = b
      OBVIOUS
    <3> HIDE DEF a, b
    <3>4. a - o1.fillCash + n.fillCash = b - o.fillCash + n.fillCash
      BY <3>2, <3>3
    <3> QED BY <3>1, <3>4 DEF a, b
  <2>6. n.fillQty = n.filled =>
          /\ state'.cash + state'.reserved_cash
               = (st.cash + st.reserved_cash) - o1.fillCash + n.fillCash
          /\ \A s \in Symbols : state'.positions[s]
               = st.positions[s] - Contribution(o1, s) + Contribution(n, s)
    BY <2>4 DEF Explained, o1, n
  <2>7. n.fillQty = n.filled =>
          /\ state'.cash + state'.reserved_cash
               = (state.cash + state.reserved_cash) - o.fillCash + n.fillCash
          /\ \A s \in Symbols : state'.positions[s]
               = state.positions[s] - Contribution(o, s) + Contribution(n, s)
    BY <2>5, <2>6
  <2> QED BY <2>7 DEF Explained, o, n
<1>5. Change(i)
  BY <1>2, <1>3, <1>a DEF Change, Step, i
<1> QED BY <1>1, <1>4, <1>5 DEF Changed

\* submit of an approved request.
LEMMA SubmitStep ==
  ASSUME IInv, NEW req \in Requests, Submit(req)
  PROVE  IInv' /\ Changed
<1> DEFINE i == count + 1
           n == NewOrder(req)
           st == [state EXCEPT !.orders[i] = n]
           m == MarkFor(req)
<1>1. req \in RequestType
  BY RequestsAssumption
<1>2. /\ n \in Order /\ n.remaining = 0 /\ n.filled = 0
      /\ n.fillQty = 0 /\ n.fillCash = 0
  BY <1>1 DEF NewOrder, Order, RequestType, Live
<1>3. m \in Nat
  BY <1>1 DEF MarkFor, RequestType, IInv
<1>4. /\ CanCreate /\ count < MaxOrders
      /\ mark' = mark /\ count' = count + 1 /\ due' = due
      /\ state' = Accepted(st, i, req, m)
  BY DEF Submit, CanCreate
<1> HIDE DEF n, m
<1>5. /\ i \in OrderIds /\ Account(st)
      /\ st.orders[i] = n
      /\ \A j \in OrderIds : j # i => st.orders[j] = state.orders[j]
      /\ st.cash = state.cash /\ st.reserved_cash = state.reserved_cash
      /\ st.positions = state.positions
      /\ state.orders[i].status = "NONE" /\ state.orders[i].filled = 0
  BY <1>2, <1>4, StoreKeeps
<1> HIDE DEF st
<1>6. /\ Step(st, state', i) /\ Covered(state'.orders[i])
      /\ FillQuantity(req.quantity) > 0 => Clean(state'.orders[i])
  BY <1>1, <1>3, <1>4, <1>5, AcceptedKeeps DEF n
<1>7. NoDust => Clean(state'.orders[i])
  BY <1>6 DEF NoDust
<1> QED BY <1>2, <1>4, <1>5, <1>6, <1>7, CreatedOrder

\* submit of a refused request.
LEMMA SubmitRefusedStep ==
  ASSUME IInv, NEW req \in Requests, SubmitRefused(req)
  PROVE  IInv' /\ Changed
<1> DEFINE i == count + 1
           n == [NewOrder(req) EXCEPT !.status = "REJECTED"]
<1>1. req \in RequestType
  BY RequestsAssumption
<1>2. /\ n \in Order /\ n.remaining = 0 /\ n.filled = 0
      /\ n.fillQty = 0 /\ n.quantity \in Nat /\ n.status = "REJECTED"
      /\ n.fillCash = 0
  BY <1>1 DEF NewOrder, Order, RequestType, Terminal
<1>3. /\ CanCreate /\ count < MaxOrders
      /\ mark' = mark /\ count' = count + 1 /\ due' = due
      /\ state' = [state EXCEPT !.orders[i] = n]
  BY DEF SubmitRefused, CanCreate
<1> HIDE DEF n
<1>4. /\ i \in OrderIds /\ Account(state')
      /\ state'.orders[i] = n
      /\ \A j \in OrderIds : j # i => state'.orders[j] = state.orders[j]
      /\ state'.cash = state.cash /\ state'.reserved_cash = state.reserved_cash
      /\ state'.positions = state.positions
      /\ state.orders[i].status = "NONE" /\ state.orders[i].filled = 0
  BY <1>2, <1>3, StoreKeeps
<1>5. OrderInv(n) /\ Clean(n) /\ Covered(n) /\ n.status \in Live \cup Terminal
  BY <1>2 DEF OrderInv, Clean, Covered, Live, Terminal
<1>6. Step(state', state', i)
  <2>1. Frame(state', state', i)
    BY DEF Frame
  <2>2. n.filled <= n.filled
    BY <1>2
  <2>3. Explained(state', state', i)
    BY <1>4, <2>1, NeutralExplained
  <2> QED BY <1>4, <1>5, <2>1, <2>2, <2>3 DEF Step
<1> QED BY <1>2, <1>3, <1>4, <1>5, <1>6, CreatedOrder

\* set_mark_price.
LEMMA SetMarkPriceStep ==
  ASSUME IInv, NEW s \in Symbols, NEW m \in Prices, SetMarkPrice(s, m)
  PROVE  IInv' /\ Changed
<1>1. /\ mark' = [mark EXCEPT ![s] = m] /\ state' = state /\ count' = count
      /\ due' = {i \in 1..count : Fires(state.orders[i], s, m)}
  BY DEF SetMarkPrice
<1>2. mark' \in [Symbols -> Nat]
  BY <1>1, PricesAssumption DEF IInv
<1>3. due' \subseteq 1..count' /\ \A i \in due' : Fillable(state'.orders[i])
  BY <1>1 DEF Fires, Fillable
<1> QED BY <1>1, <1>2, <1>3 DEF IInv, Changed

\* The least element of due is one of its elements.
LEMMA MinDue ==
  ASSUME IInv, due # {}
  PROVE  Min(due) \in due
<1>1. due \in SUBSET Nat
  BY DEF IInv
<1>2. \E x \in due : \A y \in due : x <= y
  BY <1>1, LeastNat
<1> QED BY <1>2 DEF Min

\* One iteration of _try_trigger_resting.
LEMMA TriggerRestingStep ==
  ASSUME IInv, TriggerResting
  PROVE  IInv' /\ Changed
<1> DEFINE i == Min(due)
           o == state.orders[i]
           qty == FillQuantity(o.quantity - o.filled)
           price == FillPrice(mark[o.symbol], o.side, o.type, o.price)
<1>1. /\ due # {} /\ mark' = mark /\ count' = count /\ due' = due \ {i}
      /\ state' = Fill(state, i, qty, price)
  BY DEF TriggerResting
<1>2. i \in due
  BY <1>1, MinDue
<1> HIDE DEF i
<1>3. i \in 1..count /\ i \in OrderIds /\ Account(state)
  BY <1>2, BoundsAssumption DEF IInv, OrderIds
<1>4. o.status \in Live /\ qty > 0 /\ OrderInv(o) /\ Covered(o)
  BY <1>2, <1>3 DEF IInv, Fillable
<1>5. /\ o.quantity \in Nat /\ o.filled \in Nat /\ o.fillQty \in Nat
      /\ o.price \in Nat /\ o.symbol \in Symbols
  BY <1>3, OrderNumbers
<1>6. o.quantity - o.filled \in Nat
  BY <1>4, <1>5 DEF OrderInv
<1>7. qty \in Nat /\ qty <= o.quantity - o.filled
  BY <1>6, FillQuantityBound
<1>8. price \in Nat
  <2>1. mark[o.symbol] \in Nat
    BY <1>5 DEF IInv
  <2> QED BY <1>5, <2>1, FillPriceType
<1> HIDE DEF qty, price
<1>9. /\ Step(state, state', i) /\ Clean(state'.orders[i])
      /\ Covered(state'.orders[i])
  <2>1. 0 < qty
    BY <1>4, <1>7
  <2>2. /\ Step(state, Fill(state, i, qty, price), i)
        /\ Clean(Fill(state, i, qty, price).orders[i])
        /\ Covered(Fill(state, i, qty, price).orders[i])
    BY <1>3, <1>4, <1>7, <1>8, <2>1, FillKeeps
  <2> QED BY <1>1, <2>2
<1>10. due' \subseteq due /\ i \notin due'
  BY <1>1
<1> QED BY <1>1, <1>3, <1>4, <1>9, <1>10, ExistingOrder

\* cancel and expire.
LEMMA CloseStep ==
  ASSUME IInv, NEW i \in OrderIds, NEW status \in {"CANCELLED", "EXPIRED"},
         Close(i, status)
  PROVE  IInv' /\ Changed
<1>1. /\ due = {} /\ state.orders[i].status \in Live
      /\ state' = SetStatus(ReleaseAll(state, i), i, status)
      /\ mark' = mark /\ count' = count /\ due' = due
  BY DEF Close
<1>2. i \in 1..count
  <2>1. ~(i > count) /\ count \in Nat /\ i \in Nat /\ i >= 1
    BY <1>1, BoundsAssumption DEF IInv, OrderIds, Live
  <2> QED BY <2>1
<1>3. Account(state) /\ OrderInv(state.orders[i])
  BY DEF IInv
<1>4. /\ Step(state, state', i) /\ Clean(state'.orders[i])
      /\ Covered(state'.orders[i])
  BY <1>1, <1>3, CloseKeeps
<1>5. due' \subseteq due /\ i \notin due'
  BY <1>1
<1> QED BY <1>1, <1>2, <1>4, <1>5, ExistingOrder

\* Every step keeps the invariant and works on at most one order.
LEMMA NextStep ==
  ASSUME IInv, [Next]_vars
  PROVE  IInv' /\ Changed
<1>1. ASSUME NEW req \in Requests, Submit(req) PROVE IInv' /\ Changed
  BY <1>1, SubmitStep
<1>2. ASSUME NEW req \in Requests, SubmitRefused(req) PROVE IInv' /\ Changed
  BY <1>2, SubmitRefusedStep
<1>3. ASSUME NEW s \in Symbols, NEW m \in Prices, SetMarkPrice(s, m)
      PROVE  IInv' /\ Changed
  BY <1>3, SetMarkPriceStep
<1>4. ASSUME TriggerResting PROVE IInv' /\ Changed
  BY <1>4, TriggerRestingStep
<1>5. ASSUME NEW i \in OrderIds, Cancel(i) PROVE IInv' /\ Changed
  BY <1>5, CloseStep DEF Cancel
<1>6. ASSUME NEW i \in OrderIds, Expire(i) PROVE IInv' /\ Changed
  BY <1>6, CloseStep DEF Expire
<1>7. CASE UNCHANGED vars
  <2>1. state' = state /\ mark' = mark /\ count' = count /\ due' = due
    BY <1>7 DEF vars
  <2> QED BY <2>1 DEF IInv, Changed
<1> QED BY <1>1, <1>2, <1>3, <1>4, <1>5, <1>6, <1>7 DEF Next

---------------------------------------------------------------------------
(* The theorems *)

\* The inductive invariant holds in every reachable state of the engine.
THEOREM Invariance == Spec => []IInv
<1>1. IInv /\ [Next]_vars => IInv'
  BY NextStep
<1> QED BY InitIInv, <1>1, PTL DEF Spec

\* The ledger always has the shape of PaperState, with orders in creation order.
THEOREM TypeCorrect == Spec => []TypeOK
<1>1. IInv => TypeOK
  BY DEF IInv, Account, TypeOK
<1> QED BY Invariance, <1>1, PTL

\* The engine never overdraws the account and never sells short.
THEOREM SolventAlways == Spec => []Solvent
<1>1. IInv => Solvent
  BY DEF IInv, Account, Solvent
<1> QED BY Invariance, <1>1, PTL

\* reserved_cash is the sum of the open reservations.
THEOREM ReservationsAlwaysBalance == Spec => []ReservationsBalance
<1>1. IInv => ReservationsBalance
  BY DEF IInv, Account, ReservationsBalance
<1> QED BY Invariance, <1>1, PTL

\* A BUY order that can still fill holds the share of its unfilled rest in what
\* was locked for it, to within half a tick for every fill it has had, over every
\* sequence of partial fills.
THEOREM LiveBuysAlwaysReserved == Spec => []LiveBuysStayReserved
<1>1. IInv => LiveBuysStayReserved
  BY DEF IInv, Covered, LiveBuysStayReserved
<1> QED BY Invariance, <1>1, PTL

\* The ledger never attributes more to an order than it asked for, and the
\* statuses FILLED and PARTIALLY_FILLED tell the truth.
THEOREM FillsAlwaysWithinOrder == Spec => []FillsWithinOrder
<1>1. IInv => FillsWithinOrder
  BY DEF IInv, OrderInv, FillsWithinOrder
<1> QED BY Invariance, <1>1, PTL

\* Without dust (in particular with the partial_fill_fraction of 1 that the
\* application runs with) a terminal order holds no reservation: the only
\* leak is the zero-quantity fill of _execute_fill.
THEOREM NoStaleWithoutDust ==
  ASSUME NoDust
  PROVE  Spec => []NoStaleReservation
<1>1. Init => NoStaleReservation
  <2>1. ASSUME Init, NEW i \in OrderIds
        PROVE  state.orders[i].status \notin Terminal
    <3>1. state.orders[i] = NoOrder /\ NoOrder.status = "NONE"
      BY <2>1 DEF Init, NoOrder
    <3> QED BY <3>1 DEF Terminal
  <2> QED BY <2>1 DEF NoStaleReservation
<1>2. IInv /\ NoStaleReservation /\ [Next]_vars => NoStaleReservation'
  <2> SUFFICES ASSUME IInv, NoStaleReservation, [Next]_vars
               PROVE  NoStaleReservation'
    OBVIOUS
  <2>1. Changed
    BY NextStep
  <2>2. CASE state' = state
    BY <2>2 DEF NoStaleReservation
  <2>3. CASE \E i \in OrderIds : Change(i)
    <3>1. PICK i \in OrderIds : Change(i)
      BY <2>3
    <3>2. \A j \in OrderIds : j # i => state'.orders[j] = state.orders[j]
      BY <3>1 DEF Change
    <3>3. Clean(state'.orders[i])
      BY <3>1 DEF Change
    <3> QED BY <3>2, <3>3 DEF NoStaleReservation, Clean
  <2> QED BY <2>1, <2>2, <2>3 DEF Changed
<1> QED BY Invariance, <1>1, <1>2, PTL DEF Spec

\* No step touches a terminal order or takes a fill back.
THEOREM TerminalStaysFinal == Spec => TerminalIsFinal
<1>1. IInv /\ [Next]_vars =>
        [\A i \in OrderIds :
           LET o == state.orders[i] IN
           /\ o.status \in Terminal => state'.orders[i] = o
           /\ o.filled <= state'.orders[i].filled]_vars
  <2> SUFFICES ASSUME IInv, [Next]_vars, NEW i \in OrderIds
               PROVE  /\ state.orders[i].status \in Terminal =>
                           state'.orders[i] = state.orders[i]
                      /\ state.orders[i].filled <= state'.orders[i].filled
    BY Zenon
  <2>1. Changed
    BY NextStep
  <2>2. state.orders[i].filled <= state.orders[i].filled
    <3>1. state.orders[i].filled \in Nat
      BY OrderNumbers DEF IInv
    <3> QED BY <3>1
  <2>3. ASSUME NEW j \in OrderIds, Change(j)
        PROVE  /\ state.orders[i].status \in Terminal =>
                    state'.orders[i] = state.orders[i]
               /\ state.orders[i].filled <= state'.orders[i].filled
    BY <2>2, <2>3 DEF Change, Live, Terminal
  <2> QED BY <2>1, <2>2, <2>3 DEF Changed
<1> QED BY Invariance, <1>1, PTL DEF Spec, TerminalIsFinal

\* A step that fills nothing leaves cash + reserved_cash as it was.
THEOREM MoneyMovesByFills == Spec => OnlyFillsMoveMoney
<1>1. IInv /\ [Next]_vars =>
        [(\A i \in OrderIds : state'.orders[i].filled = state.orders[i].filled)
           => state'.cash + state'.reserved_cash
                = state.cash + state.reserved_cash]_vars
  <2> SUFFICES ASSUME IInv, [Next]_vars,
                      \A i \in OrderIds : state'.orders[i].filled = state.orders[i].filled
               PROVE  state'.cash + state'.reserved_cash
                        = state.cash + state.reserved_cash
    BY Zenon
  <2>1. Changed
    BY NextStep
  <2>2. ASSUME NEW j \in OrderIds, Change(j)
        PROVE  state'.cash + state'.reserved_cash
                 = state.cash + state.reserved_cash
    BY <2>2 DEF Change
  <2> QED BY <2>1, <2>2 DEF Changed
<1> QED BY Invariance, <1>1, PTL DEF Spec, OnlyFillsMoveMoney

\* The step of the reconstruction: an order that was worked on moves the
\* account by what its ledger moved, so the totals over all orders move alike.
LEMMA ExplainedStep ==
  ASSUME IInv, IInv', FillsExplainAccount, NEW i \in OrderIds, Change(i)
  PROVE  FillsExplainAccount'
<1> SUFFICES ASSUME \A j \in OrderIds : ~Phantom(j)'
             PROVE  /\ state'.cash + state'.reserved_cash = Reconstructed'
                    /\ \A s \in Symbols : state'.positions[s] = NetQuantity(s)'
  BY DEF FillsExplainAccount
<1> DEFINE o == state.orders[i]
           n == state'.orders[i]
<1>1. /\ \A j \in OrderIds : j # i => state'.orders[j] = state.orders[j]
      /\ o.status \in Live \cup {"NONE"} /\ Explained(state, state', i)
  BY DEF Change
<1>2. \A j \in OrderIds : ~Phantom(j)
  <2> SUFFICES ASSUME NEW j \in OrderIds PROVE ~Phantom(j)
    OBVIOUS
  <2>1. CASE j = i
    BY <1>1, <2>1 DEF Phantom, IInv, OrderInv, Live
  <2>2. CASE j # i
    BY <1>1, <2>2 DEF Phantom
  <2> QED BY <2>1, <2>2
<1>3. /\ state.cash + state.reserved_cash = Reconstructed
      /\ \A s \in Symbols : state.positions[s] = NetQuantity(s)
  BY <1>2 DEF FillsExplainAccount
<1>4. /\ state'.cash + state'.reserved_cash
           = (state.cash + state.reserved_cash) - o.fillCash + n.fillCash
      /\ \A s \in Symbols : state'.positions[s]
           = state.positions[s] - Contribution(o, s) + Contribution(n, s)
  BY <1>1 DEF Explained, Phantom
<1>5. /\ state \in PaperState /\ state' \in PaperState
      /\ MaxOrders \in Nat /\ InitialCash \in Nat /\ i \in 1..MaxOrders
  BY BoundsAssumption DEF IInv, Account, OrderIds
<1>6. state'.cash + state'.reserved_cash = Reconstructed'
  <2> DEFINE f == [j \in OrderIds |-> state.orders[j].fillCash]
             g == [j \in OrderIds |-> state'.orders[j].fillCash]
  <2>1. /\ f \in [1..MaxOrders -> Int] /\ g \in [1..MaxOrders -> Int]
        /\ f[i] = o.fillCash /\ g[i] = n.fillCash
        /\ \A k \in 1..MaxOrders : k # i => g[k] = f[k]
    BY <1>1, <1>5 DEF PaperState, Order, OrderIds
  <2>2. Reconstructed = InitialCash + SumTo(f, MaxOrders)
    BY DEF Reconstructed
  <2>3. Reconstructed' = InitialCash + SumTo(g, MaxOrders)
    BY DEF Reconstructed
  <2> HIDE DEF f, g
  <2>4. /\ SumTo(f, MaxOrders) \in Int
        /\ SumTo(g, MaxOrders) = SumTo(f, MaxOrders) - f[i] + g[i]
    BY <1>5, <2>1, SumChange
  <2>5. o.fillCash \in Int /\ n.fillCash \in Int
    BY <1>5, <2>1
  <2>6. /\ state.cash + state.reserved_cash = Reconstructed
        /\ state'.cash + state'.reserved_cash
             = (state.cash + state.reserved_cash) - o.fillCash + n.fillCash
    BY <1>3, <1>4
  <2>7. state'.cash + state'.reserved_cash = Reconstructed - o.fillCash + n.fillCash
    BY <2>6
  <2>8. /\ InitialCash \in Int
        /\ SumTo(g, MaxOrders) = SumTo(f, MaxOrders) - o.fillCash + n.fillCash
    BY <1>5, <2>1, <2>4
  <2> HIDE DEF o, n
  <2> QED BY <2>2, <2>3, <2>4, <2>5, <2>7, <2>8
<1>7. ASSUME NEW s \in Symbols PROVE state'.positions[s] = NetQuantity(s)'
  <2> DEFINE f == [j \in OrderIds |-> Contribution(state.orders[j], s)]
             g == [j \in OrderIds |-> Contribution(state'.orders[j], s)]
  <2>1. ASSUME NEW j \in OrderIds
        PROVE  /\ Contribution(state.orders[j], s) \in Int
               /\ Contribution(state'.orders[j], s) \in Int
    <3>1. state.orders[j].fillQty \in Nat /\ state'.orders[j].fillQty \in Nat
      BY <1>5 DEF PaperState, Order
    <3> QED BY <3>1 DEF Contribution
  <2>2. /\ f \in [1..MaxOrders -> Int] /\ g \in [1..MaxOrders -> Int]
        /\ f[i] = Contribution(o, s) /\ g[i] = Contribution(n, s)
        /\ \A k \in 1..MaxOrders : k # i => g[k] = f[k]
    BY <1>1, <1>5, <2>1 DEF OrderIds
  <2>3. NetQuantity(s) = SumTo(f, MaxOrders)
    BY DEF NetQuantity, Contribution
  <2>4. NetQuantity(s)' = SumTo(g, MaxOrders)
    BY DEF NetQuantity, Contribution
  <2> HIDE DEF f, g
  <2>5. /\ SumTo(f, MaxOrders) \in Int
        /\ SumTo(g, MaxOrders) = SumTo(f, MaxOrders) - f[i] + g[i]
    BY <1>5, <2>2, SumChange
  <2>6. /\ state.positions[s] = SumTo(f, MaxOrders)
        /\ state'.positions[s]
             = state.positions[s] - Contribution(o, s) + Contribution(n, s)
    BY <1>3, <1>4, <2>3
  <2> HIDE DEF o, n
  <2> QED BY <2>2, <2>4, <2>5, <2>6
<1> QED BY <1>6, <1>7

\* An empty ledger explains the initial account.
LEMMA InitExplained == Init => FillsExplainAccount
<1> SUFFICES ASSUME Init PROVE FillsExplainAccount
  OBVIOUS
<1>1. \A i \in OrderIds : state.orders[i] = NoOrder
  BY DEF Init
<1>2. NoOrder.fillCash = 0 /\ NoOrder.fillQty = 0 /\ NoOrder.side = "BUY"
  BY DEF NoOrder
<1>3. Reconstructed = InitialCash + 0
  <2> DEFINE f == [i \in OrderIds |-> state.orders[i].fillCash]
  <2>1. \A k \in 1..MaxOrders : f[k] = 0
    BY <1>1, <1>2 DEF OrderIds
  <2> HIDE DEF f
  <2>2. SumTo(f, MaxOrders) = 0
    BY <2>1, SumZero, BoundsAssumption
  <2> QED BY <2>2 DEF Reconstructed, f
<1>4. ASSUME NEW s \in Symbols PROVE NetQuantity(s) = 0
  <2> DEFINE f == [i \in OrderIds |->
                     LET o == state.orders[i] IN
                     IF o.symbol # s THEN 0
                     ELSE IF o.side = "BUY" THEN o.fillQty ELSE -o.fillQty]
  <2>1. \A k \in 1..MaxOrders : f[k] = 0
    BY <1>1, <1>2 DEF OrderIds
  <2> HIDE DEF f
  <2>2. SumTo(f, MaxOrders) = 0
    BY <2>1, SumZero, BoundsAssumption
  <2> QED BY <2>2 DEF NetQuantity, f
<1>5. /\ state.cash = InitialCash /\ state.reserved_cash = 0
      /\ \A s \in Symbols : state.positions[s] = 0
  BY DEF Init
<1> QED BY <1>3, <1>4, <1>5, BoundsAssumption DEF FillsExplainAccount

\* Every step of the engine keeps the ledger's explanation of the account.
LEMMA NextExplained ==
  ASSUME IInv, FillsExplainAccount, [Next]_vars
  PROVE  FillsExplainAccount'
<1>1. IInv' /\ Changed
  BY NextStep
<1>2. CASE state' = state
  BY <1>2 DEF FillsExplainAccount, Phantom, Reconstructed, NetQuantity
<1>3. ASSUME NEW i \in OrderIds, Change(i) PROVE FillsExplainAccount'
  BY <1>1, <1>3, ExplainedStep
<1> QED BY <1>1, <1>2, <1>3 DEF Changed

\* As long as no fill failed, cash, reserve and positions are exactly what the
\* fill list says they are: the reconstruction run_paper_reconciliation makes.
THEOREM FillsAlwaysExplainAccount == Spec => []FillsExplainAccount
<1>1. IInv /\ FillsExplainAccount /\ [Next]_vars => FillsExplainAccount'
  BY NextExplained
<1> QED BY Invariance, InitExplained, <1>1, PTL DEF Spec

---------------------------------------------------------------------------
(* Reconciliation.  The composition only restricts the engine, so every    *)
(* theorem above carries over; the verdict of run_paper_reconciliation is  *)
(* then settled by the explanation that the fill list gives of the account.*)

\* Every step of the composition is a step of the engine, or leaves it alone.
LEMMA RNextStep ==
  ASSUME [RNext]_rvars
  PROVE  [Next]_vars
<1>1. CASE Engine
  BY <1>1 DEF Engine, Next
<1>2. CASE Reconcile
  BY <1>2 DEF Reconcile
<1>3. CASE ClearHalt
  BY <1>3 DEF ClearHalt
<1>4. CASE UNCHANGED rvars
  BY <1>4 DEF rvars, vars
<1> QED BY <1>1, <1>2, <1>3, <1>4 DEF RNext

\* The engine gated by reconciliation is still the engine: it refuses more, and
\* does nothing that PaperEngine alone could not do.
THEOREM ImplementsEngine == RSpec => Spec
<1>1. RInit => Init
  BY DEF RInit
<1>2. [RNext]_rvars => [Next]_vars
  BY RNextStep
<1> QED BY <1>1, <1>2, PTL DEF RSpec, Spec

\* A phantom fill belongs to a FAILED order, and no step touches that again.
LEMMA PhantomStays ==
  ASSUME IInv, [Next]_vars, NEW i \in OrderIds, Phantom(i)
  PROVE  Phantom(i)'
<1>1. state.orders[i].status = "FAILED"
  BY DEF IInv, OrderInv, Phantom
<1>2. state'.orders[i] = state.orders[i]
  <2>1. Changed
    BY NextStep
  <2>2. ASSUME NEW j \in OrderIds, Change(j)
        PROVE  state'.orders[i] = state.orders[i]
    BY <1>1, <2>2 DEF Change, Live
  <2> QED BY <2>1, <2>2 DEF Changed
<1> QED BY <1>2 DEF Phantom

\* On a ledger whose every fill was applied, the verdict is healthy.
LEMMA VerdictHealthy ==
  ASSUME IInv, FillsExplainAccount, \A i \in OrderIds : ~Phantom(i)
  PROVE  LedgerSane /\ DriftOk
<1>1. LedgerSane
  BY DEF IInv, Account, OrderInv, LedgerSane
<1>2. DriftOk
  <2> DEFINE total == state.cash + state.reserved_cash
  <2>1. total = Reconstructed
    BY DEF FillsExplainAccount
  <2>2. total \in Int
    BY DEF IInv, Account, PaperState
  <2> HIDE DEF total
  <2>3. Abs(Reconstructed - total) <= Tolerance
    BY <2>1, <2>2, ToleranceAssumption DEF Abs
  <2> QED BY <2>3 DEF DriftOk, total
<1> QED BY <1>1, <1>2

\* A step of the composition keeps every halt explained by a phantom fill.
LEMMA HaltStep ==
  ASSUME IInv, FillsExplainAccount, HaltNeedsPhantom, [RNext]_rvars
  PROVE  HaltNeedsPhantom'
<1> SUFFICES ASSUME ~healthy'
             PROVE  \E i \in OrderIds : Phantom(i)'
  BY DEF HaltNeedsPhantom
<1>1. CASE healthy' = healthy
  <2>1. PICK i \in OrderIds : Phantom(i)
    BY <1>1 DEF HaltNeedsPhantom
  <2>2. Phantom(i)'
    BY <2>1, RNextStep, PhantomStays
  <2> QED BY <2>2
<1>2. CASE Reconcile
  <2>1. ~(LedgerSane /\ DriftOk) /\ state' = state
    BY <1>2 DEF Reconcile, vars
  <2>2. PICK i \in OrderIds : Phantom(i)
    BY <2>1, VerdictHealthy
  <2> QED BY <2>1, <2>2 DEF Phantom
<1>3. CASE ClearHalt
  BY <1>3 DEF ClearHalt
<1> QED BY <1>1, <1>2, <1>3 DEF RNext, Engine, rvars

\* Reconciliation halts trading only over a fill that is in the ledger and was
\* never applied: no resting, reserving, failing, cancelling or expiring makes
\* the reconstruction disagree with the cash.
THEOREM HaltAlwaysNeedsPhantom == RSpec => []HaltNeedsPhantom
<1>1. RInit => HaltNeedsPhantom
  BY DEF RInit, HaltNeedsPhantom
<1>2. IInv /\ FillsExplainAccount /\ HaltNeedsPhantom /\ [RNext]_rvars
        => HaltNeedsPhantom'
  BY HaltStep
<1> QED BY ImplementsEngine, Invariance, FillsAlwaysExplainAccount,
           <1>1, <1>2, PTL DEF RSpec
===========================================================================
