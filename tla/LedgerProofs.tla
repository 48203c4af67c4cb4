---------------------------- MODULE LedgerProofs ----------------------------
(***************************************************************************)
(* What a restart makes of the paper ledger, for every number of orders,   *)
(* failures, crashes and resets, every price, journal limit and key cap:   *)
(* no key of a recent order is forgotten, reserved cash belongs to open    *)
(* orders, and reconciliation halts only after something that separated    *)
(* the records.                                                            *)
(***************************************************************************)
EXTENDS Ledger, SumTheorems

---------------------------------------------------------------------------
(* Types *)

FinSets(S) == {T \in SUBSET S : IsFiniteSet(T)}

Orders == [id : Nat, source : {"manual", "cycle"}, side : {"BUY", "SELL"}, price : Prices,
           status : {"SUBMITTED", "FILLED", "FAILED"}]
Fills == [id : Nat, side : {"BUY", "SELL"}, price : Prices, source : {"manual", "cycle"}]

Ledgers == [cash : Int, reserved : Int, qty : Nat, entry : Nat, orders : FinSets(Orders),
            fills : FinSets(Fills), seen : SUBSET Nat, healthy : BOOLEAN, halted : BOOLEAN, whole : BOOLEAN]
Checkpoints == [cash : Int, reserved : Int, qty : Nat, entry : Nat, orders : FinSets(Orders),
                fills : FinSets(Fills), seen : SUBSET Nat]
Flights == [pc : {"idle", "order", "fill", "trade", "persist"}, order : Nat, entry : Nat,
            exit : Nat, current : BOOLEAN]
Tables == [checkpoint : SUBSET Checkpoints, orders : FinSets(Orders), fills : FinSets(Fills),
           keys : SUBSET Nat]

\* The order a cycle is about to journal is in its ledger.
InHand == cycle.pc = "order" => \E o \in CycleLedger.orders : o.id = cycle.order

\* The state of the process and of the tables.  The checkpoint is one row, the
\* ledger of a cycle that a reset left behind lives no longer than the cycle, and
\* a process that is down has no order under way.
Typed ==
  /\ up \in BOOLEAN /\ mem \in Ledgers /\ orphan \in SUBSET Ledgers
  /\ manual \in Flights /\ cycle \in Flights /\ mark \in Prices /\ db \in Tables
  /\ count \in Nat /\ budget \in [failures : Int, crashes : Int, resets : 0..MaxResets]
  /\ cycle.order <= count
  /\ cycle = Idle => orphan = {}
  /\ ~ up => cycle = Idle /\ mem = Fresh
  /\ \A c, d \in db.checkpoint : c = d
  /\ InHand

LEMMA FinAdd ==
  ASSUME NEW T, NEW S \in FinSets(T), NEW x \in T
  PROVE  S \cup {x} \in FinSets(T) /\ S \ {x} \in FinSets(T) /\ {} \in FinSets(T)
BY FS_AddElement, FS_RemoveElement, FS_EmptySet DEF FinSets

LEMMA FinPart ==
  ASSUME NEW T, NEW S \in FinSets(T), NEW R \in SUBSET S
  PROVE  R \in FinSets(T)
BY FS_Subset DEF FinSets

LEMMA Costs ==
  ASSUME NEW p \in Prices
  PROVE  p \in Nat \ {0} /\ Fee(p) \in Nat /\ Cost(p) \in Nat /\ Notional(p) \in Nat
<1>1. p \in Nat \ {0} /\ FeeRate \in Nat /\ Unit \in Nat
  BY LedgerAssumption
<1> QED BY <1>1 DEF Fee, Cost, Notional

LEMMA FreshTyped == Fresh \in Ledgers /\ Unloaded \in Ledgers /\ Idle \in Flights
<1>1. InitialCash * Unit \in Int
  BY LedgerAssumption
<1>2. {} \in FinSets(Orders) /\ {} \in FinSets(Fills)
  BY FS_EmptySet DEF FinSets
<1>3. Fresh \in Ledgers
  BY <1>1, <1>2 DEF Fresh, Ledgers
<1>4. Unloaded \in Ledgers
  BY <1>3 DEF Unloaded, Ledgers
<1>5. Idle \in Flights
  BY DEF Idle, Flights
<1> QED BY <1>3, <1>4, <1>5

---------------------------------------------------------------------------
(* What the operations of the engine do to a ledger *)

FillOf(o, price) == [id |-> o.id, side |-> o.side, price |-> price, source |-> o.source]
Done(o, status) == [o EXCEPT !.status = status]

\* A fill: it is entered, the order is done, and the cash moves by the fill unless
\* the account does not carry it.
LEMMA FilledIs ==
  ASSUME NEW l \in Ledgers, NEW o \in Orders, NEW p \in Prices
  PROVE  /\ Filled(l, o, p) \in Ledgers
         /\ Filled(l, o, p).reserved = l.reserved /\ Filled(l, o, p).seen = l.seen
         /\ Filled(l, o, p).halted = l.halted /\ Filled(l, o, p).whole = l.whole
         /\ Filled(l, o, p).fills = l.fills \cup {FillOf(o, p)}
         /\ \E st \in {"FILLED", "FAILED"} :
              /\ Filled(l, o, p).orders = (l.orders \ {o}) \cup {Done(o, st)}
              /\ st = "FILLED" => Filled(l, o, p).cash = l.cash + Amount(FillOf(o, p))
<1> DEFINE booked == [l EXCEPT !.fills = @ \cup {FillOf(o, p)}]
           st == IF Carries(l, o.side, p) THEN "FILLED" ELSE "FAILED"
           moved == IF ~ Carries(l, o.side, p) THEN booked
                    ELSE IF o.side = "BUY" THEN Bought(booked, p) ELSE Sold(booked, p)
<1>1. FillOf(o, p) \in Fills /\ Done(o, st) \in Orders /\ o.side \in {"BUY", "SELL"}
  BY DEF FillOf, Fills, Orders, Done
<1>2. l.fills \cup {FillOf(o, p)} \in FinSets(Fills)
      /\ (l.orders \ {o}) \cup {Done(o, st)} \in FinSets(Orders)
  <2>1. l.fills \in FinSets(Fills) /\ l.orders \in FinSets(Orders)
    BY DEF Ledgers
  <2> HIDE DEF st
  <2> QED BY <1>1, <2>1, FinAdd
<1>3. booked \in Ledgers /\ booked.qty = l.qty /\ booked.cash = l.cash
      /\ booked.fills = l.fills \cup {FillOf(o, p)} /\ booked.orders = l.orders
      /\ booked.reserved = l.reserved /\ booked.seen = l.seen
      /\ booked.halted = l.halted /\ booked.whole = l.whole /\ booked.entry = l.entry
  BY <1>2 DEF Ledgers
<1>4. Cost(p) \in Nat /\ Notional(p) \in Nat /\ Fee(p) \in Nat /\ p \in Nat
  BY Costs
<1> HIDE DEF booked
<1>5. /\ moved \in Ledgers /\ moved.fills = booked.fills /\ moved.orders = booked.orders
      /\ moved.reserved = l.reserved /\ moved.seen = l.seen
      /\ moved.halted = l.halted /\ moved.whole = l.whole
      /\ st = "FILLED" => moved.cash = l.cash + Amount(FillOf(o, p))
  <2>1. CASE Carries(l, o.side, p) /\ o.side = "BUY"
    <3> DEFINE e == (booked.entry * booked.qty + p) \div (booked.qty + 1)
    <3>1. booked.cash \in Int /\ booked.qty \in Nat /\ booked.entry \in Nat
      BY <1>3 DEF Ledgers
    <3>2. e \in Nat
      <4>1. booked.entry * booked.qty + p \in Nat /\ booked.qty + 1 \in Nat \ {0}
        BY <1>4, <3>1
      <4> QED BY <4>1
    <3> HIDE DEF e
    <3>3. moved = [booked EXCEPT !.cash = booked.cash - Cost(p), !.qty = booked.qty + 1, !.entry = e]
      BY <2>1 DEF Bought, e
    <3>4. Amount(FillOf(o, p)) = - Cost(p)
      BY <2>1 DEF Amount, FillOf
    <3> HIDE DEF moved
    <3> DEFINE x == booked.cash - Cost(p)
    <3>5. x \in Int /\ x = l.cash + Amount(FillOf(o, p)) /\ booked.qty + 1 \in Nat
      BY <1>3, <1>4, <3>1, <3>4
    <3> HIDE DEF x
    <3>6. moved = [booked EXCEPT !.cash = x, !.qty = booked.qty + 1, !.entry = e]
      BY <3>3 DEF x
    <3> QED BY <1>3, <3>2, <3>5, <3>6 DEF Ledgers
  <2>2. CASE ~ Carries(l, o.side, p)
    <3>1. moved = booked /\ st # "FILLED"
      BY <2>2
    <3> HIDE DEF moved, st
    <3> QED BY <1>3, <3>1
  <2>3. CASE Carries(l, o.side, p) /\ o.side = "SELL"
    <3> DEFINE e == IF booked.qty = 1 THEN 0 ELSE booked.entry
    <3>1. booked.cash \in Int /\ booked.qty \in Nat \ {0} /\ booked.entry \in Nat /\ e \in Nat
      BY <1>3, <2>3 DEF Ledgers, Carries
    <3> HIDE DEF e
    <3>2. moved = [booked EXCEPT !.cash = booked.cash + Notional(p) - Fee(p),
                                 !.qty = booked.qty - 1, !.entry = e]
      BY <2>3, <3>1 DEF Sold, e
    <3>3. Amount(FillOf(o, p)) = Notional(p) - Fee(p)
      BY <2>3 DEF Amount, FillOf
    <3> HIDE DEF moved
    <3> DEFINE x == booked.cash + Notional(p) - Fee(p)
    <3>4. x \in Int /\ x = l.cash + Amount(FillOf(o, p)) /\ booked.qty - 1 \in Nat
      BY <1>3, <1>4, <3>1, <3>3
    <3> HIDE DEF x
    <3>5. moved = [booked EXCEPT !.cash = x, !.qty = booked.qty - 1, !.entry = e]
      BY <3>2 DEF x
    <3> QED BY <1>3, <3>1, <3>4, <3>5 DEF Ledgers
  <2> QED BY <1>1, <2>1, <2>2, <2>3
<1>6. Filled(l, o, p) = [moved EXCEPT !.orders = (@ \ {o}) \cup {Done(o, st)}]
  <2>1. CASE Carries(l, o.side, p)
    BY <2>1 DEF Filled, WithStatus, Done, booked, FillOf
  <2>2. CASE ~ Carries(l, o.side, p)
    BY <2>2 DEF Filled, WithStatus, Done, booked, FillOf
  <2> QED BY <2>1, <2>2
<1>7. moved.orders = l.orders /\ moved.fills = l.fills \cup {FillOf(o, p)}
  BY <1>3, <1>5
<1>8. st \in {"FILLED", "FAILED"}
  OBVIOUS
<1> HIDE DEF moved, st
<1>9. Filled(l, o, p) = [moved EXCEPT !.orders = (l.orders \ {o}) \cup {Done(o, st)}]
  BY <1>6, <1>7
<1> DEFINE r == Filled(l, o, p)
           os == (l.orders \ {o}) \cup {Done(o, st)}
<1>10. /\ r \in Ledgers /\ r.orders = os
       /\ r.cash = moved.cash /\ r.reserved = moved.reserved /\ r.seen = moved.seen
       /\ r.fills = moved.fills /\ r.halted = moved.halted /\ r.whole = moved.whole
  <2> HIDE DEF os, r
  <2>1. r = [moved EXCEPT !.orders = os] /\ os \in FinSets(Orders)
    BY <1>2, <1>9 DEF r, os
  <2> QED BY <1>5, <2>1 DEF Ledgers
<1> HIDE DEF r
<1> QED BY <1>5, <1>7, <1>8, <1>10 DEF r

\* Entering an order, and holding back or releasing what it costs.
LEMMA EnteredIs ==
  ASSUME NEW l \in Ledgers, NEW o \in Orders
  PROVE  /\ Entered(l, o) \in Ledgers
         /\ Entered(l, o).orders = l.orders \cup {o} /\ Entered(l, o).seen = l.seen \cup {o.id}
         /\ Entered(l, o).cash = l.cash /\ Entered(l, o).reserved = l.reserved
         /\ Entered(l, o).qty = l.qty /\ Entered(l, o).fills = l.fills
         /\ Entered(l, o).halted = l.halted /\ Entered(l, o).whole = l.whole
<1> DEFINE os == l.orders \cup {o}
           ks == l.seen \cup {o.id}
<1>1. os \in FinSets(Orders) /\ ks \in SUBSET Nat
  BY FinAdd DEF Ledgers, Orders
<1>2. Entered(l, o) = [l EXCEPT !.orders = os, !.seen = ks]
  BY DEF Entered
<1> HIDE DEF os, ks
<1>3. /\ Entered(l, o) \in Ledgers
      /\ Entered(l, o).orders = os /\ Entered(l, o).seen = ks
      /\ Entered(l, o).cash = l.cash /\ Entered(l, o).reserved = l.reserved
      /\ Entered(l, o).qty = l.qty /\ Entered(l, o).fills = l.fills
      /\ Entered(l, o).halted = l.halted /\ Entered(l, o).whole = l.whole
  BY <1>1, <1>2 DEF Ledgers
<1> QED BY <1>3 DEF os, ks

\* x moves between the available and the reserved cash.
Moved(l, x) == [l EXCEPT !.cash = l.cash - x, !.reserved = l.reserved + x]

LEMMA MovedIs ==
  ASSUME NEW l \in Ledgers, NEW x \in Int
  PROVE  /\ Moved(l, x) \in Ledgers
         /\ Moved(l, x).cash = l.cash - x /\ Moved(l, x).reserved = l.reserved + x
         /\ Moved(l, x).orders = l.orders /\ Moved(l, x).fills = l.fills
         /\ Moved(l, x).seen = l.seen /\ Moved(l, x).qty = l.qty
         /\ Moved(l, x).halted = l.halted /\ Moved(l, x).whole = l.whole
<1> DEFINE c == l.cash - x
           r == l.reserved + x
<1>1. c \in Int /\ r \in Int
  BY DEF Ledgers
<1>2. Moved(l, x) = [l EXCEPT !.cash = c, !.reserved = r]
  BY DEF Moved
<1> HIDE DEF c, r
<1>3. /\ Moved(l, x) \in Ledgers
      /\ Moved(l, x).cash = c /\ Moved(l, x).reserved = r
      /\ Moved(l, x).orders = l.orders /\ Moved(l, x).fills = l.fills
      /\ Moved(l, x).seen = l.seen /\ Moved(l, x).qty = l.qty
      /\ Moved(l, x).halted = l.halted /\ Moved(l, x).whole = l.whole
  BY <1>1, <1>2 DEF Ledgers
<1> QED BY <1>3 DEF c, r

LEMMA ReservedReleased ==
  ASSUME NEW l \in Ledgers, NEW p \in Prices
  PROVE  Reserved(l, p) = Moved(l, Notional(p)) /\ Released(l, p) = Moved(l, - Notional(p))
<1>1. Notional(p) \in Int /\ l.cash \in Int /\ l.reserved \in Int
  BY Costs DEF Ledgers
<1>2. l.cash + Notional(p) = l.cash - (- Notional(p)) /\ l.reserved - Notional(p) = l.reserved + (- Notional(p))
  BY <1>1
<1> QED BY <1>2 DEF Reserved, Released, Moved

\* What a resting order holds back: the notional of a BUY, nothing for a SELL.
HeldBack(o) == IF o.side = "BUY" THEN Notional(o.price) ELSE 0

\* A resting order that fires releases what it held back and is filled.
LEMMA FiredIs ==
  ASSUME NEW l \in Ledgers, NEW o \in Orders
  PROVE  /\ Fired(l, o) \in Ledgers
         /\ Fired(l, o).reserved = l.reserved - HeldBack(o) /\ Fired(l, o).seen = l.seen
         /\ Fired(l, o).halted = l.halted /\ Fired(l, o).whole = l.whole
         /\ Fired(l, o).fills = l.fills \cup {FillOf(o, o.price)}
         /\ \E st \in {"FILLED", "FAILED"} :
              /\ Fired(l, o).orders = (l.orders \ {o}) \cup {Done(o, st)}
              /\ st = "FILLED" => Fired(l, o).cash + Fired(l, o).reserved
                                    = l.cash + l.reserved + Amount(FillOf(o, o.price))
<1> DEFINE p == o.price
           a == Amount(FillOf(o, p))
<1>1. p \in Prices /\ Notional(p) \in Int /\ l.cash \in Int /\ l.reserved \in Int
  BY Costs DEF Orders, Ledgers
<1>2. a \in Int
  BY <1>1, Costs DEF Amount, FillOf
<1>3. CASE o.side = "BUY"
  <2> DEFINE k == Released(l, p)
  <2>1. k = Moved(l, - Notional(p)) /\ - Notional(p) \in Int
    BY <1>1, ReservedReleased
  <2>2. /\ k \in Ledgers /\ k.cash = l.cash + Notional(p) /\ k.reserved = l.reserved - Notional(p)
        /\ k.orders = l.orders /\ k.fills = l.fills /\ k.seen = l.seen
        /\ k.halted = l.halted /\ k.whole = l.whole
    <3> DEFINE x == - Notional(p)
    <3>1. x \in Int /\ k = Moved(l, x)
      BY <2>1
    <3>2. l.cash - x = l.cash + Notional(p) /\ l.reserved + x = l.reserved - Notional(p)
      BY <1>1
    <3> HIDE DEF k, p, x
    <3> QED BY <3>1, <3>2, MovedIs
  <2>3. Fired(l, o) = Filled(k, o, p) /\ HeldBack(o) = Notional(p)
    BY <1>3 DEF Fired, HeldBack
  <2> HIDE DEF k, p, a
  <2>4. PICK st \in {"FILLED", "FAILED"} :
          /\ Filled(k, o, p).orders = (k.orders \ {o}) \cup {Done(o, st)}
          /\ st = "FILLED" => Filled(k, o, p).cash = k.cash + a
    BY <1>1, <2>2, FilledIs DEF a
  <2>5. /\ Filled(k, o, p) \in Ledgers
        /\ Filled(k, o, p).reserved = k.reserved /\ Filled(k, o, p).seen = k.seen
        /\ Filled(k, o, p).halted = k.halted /\ Filled(k, o, p).whole = k.whole
        /\ Filled(k, o, p).fills = k.fills \cup {FillOf(o, p)}
    BY <1>1, <2>2, FilledIs
  <2>6. st = "FILLED" => Filled(k, o, p).cash + Filled(k, o, p).reserved = l.cash + l.reserved + a
    BY <1>1, <1>2, <2>2, <2>4, <2>5
  <2> QED BY <2>2, <2>3, <2>4, <2>5, <2>6 DEF p, a
<1>4. CASE o.side # "BUY"
  <2>1. Fired(l, o) = Filled(l, o, p) /\ HeldBack(o) = 0
    BY <1>4 DEF Fired, HeldBack
  <2> HIDE DEF p, a
  <2>2. PICK st \in {"FILLED", "FAILED"} :
          /\ Filled(l, o, p).orders = (l.orders \ {o}) \cup {Done(o, st)}
          /\ st = "FILLED" => Filled(l, o, p).cash = l.cash + a
    BY <1>1, FilledIs DEF a
  <2>3. /\ Filled(l, o, p) \in Ledgers
        /\ Filled(l, o, p).reserved = l.reserved /\ Filled(l, o, p).seen = l.seen
        /\ Filled(l, o, p).halted = l.halted /\ Filled(l, o, p).whole = l.whole
        /\ Filled(l, o, p).fills = l.fills \cup {FillOf(o, p)}
    BY <1>1, FilledIs
  <2>4. /\ st = "FILLED" => Filled(l, o, p).cash + Filled(l, o, p).reserved = l.cash + l.reserved + a
        /\ l.reserved = l.reserved - 0
    BY <1>1, <1>2, <2>2, <2>3
  <2> QED BY <2>1, <2>2, <2>3, <2>4 DEF p, a
<1> QED BY <1>3, <1>4

---------------------------------------------------------------------------
(* Triggered orders, one after the other *)

\* The ledgers in between.
IsRun(a, l, due, n) == a[0] = l /\ \A k \in 1..n : a[k] = FireDue(a[k - 1], {o \in due : o.id = k})

LEMMA RunExists ==
  ASSUME NEW l, NEW due, NEW n \in Nat
  PROVE  \E a : IsRun(a, l, due, n)
<1> DEFINE Bad == {m \in 0..n : ~ \E a : IsRun(a, l, due, m)}
<1>1. Bad = {}
  <2> SUFFICES ASSUME Bad # {} PROVE FALSE
    OBVIOUS
  <2>1. PICK m \in Bad : \A y \in Bad : m <= y
    <3>1. Bad \in SUBSET Nat
      OBVIOUS
    <3> HIDE DEF Bad
    <3> QED BY <3>1, LeastNat
  <2>2. m \in 0..n /\ ~ \E a : IsRun(a, l, due, m)
    OBVIOUS
  <2>3. m # 0
    <3> SUFFICES ASSUME m = 0 PROVE FALSE
      OBVIOUS
    <3>1. IsRun([k \in 0..0 |-> l], l, due, 0)
      BY DEF IsRun
    <3> QED BY <2>2, <3>1
  <2>4. m - 1 \in 0..n /\ ~ (m <= m - 1)
    BY <2>2, <2>3
  <2>5. PICK a : IsRun(a, l, due, m - 1)
    BY <2>1, <2>4
  <2> DEFINE b == [k \in 0..m |-> IF k = m THEN FireDue(a[m - 1], {o \in due : o.id = m}) ELSE a[k]]
  <2>6. b[0] = l
    BY <2>2, <2>3, <2>5 DEF IsRun
  <2>7. ASSUME NEW k \in 1..m PROVE b[k] = FireDue(b[k - 1], {o \in due : o.id = k})
    <3>1. k \in 0..m /\ k - 1 \in 0..m /\ k - 1 # m
      BY <2>2
    <3>2. b[k - 1] = a[k - 1]
      BY <3>1
    <3>3. CASE k = m
      BY <3>1, <3>2, <3>3
    <3>4. CASE k # m
      <4>1. k \in 1..(m - 1) /\ b[k] = a[k]
        BY <2>2, <3>1, <3>4
      <4> HIDE DEF b
      <4> QED BY <2>5, <3>2, <4>1 DEF IsRun
    <3> QED BY <3>3, <3>4
  <2> HIDE DEF b
  <2>8. IsRun(b, l, due, m)
    BY <2>6, <2>7 DEF IsRun
  <2> QED BY <2>2, <2>8
<1>2. n \in 0..n
  OBVIOUS
<1> QED BY <1>1, <1>2

LEMMA TriggerAllIs ==
  ASSUME NEW l, NEW m, count \in Nat
  PROVE  \E a : IsRun(a, l, Triggered(l, m), count) /\ TriggerAll(l, m) = a[count]
<1> DEFINE due == Triggered(l, m)
           Eqn(a) == a = [k \in 0..count |->
                            IF k = 0 THEN l ELSE FireDue(a[k - 1], {o \in due : o.id = k})]
           t == CHOOSE a : Eqn(a)
<1>1. TriggerAll(l, m) = t[count]
  BY DEF TriggerAll
<1> HIDE DEF due
<1>2. PICK a : IsRun(a, l, due, count)
  BY RunExists
<1> DEFINE b == [k \in 0..count |-> a[k]]
<1>3. \A k \in 0..count : k # 0 => k \in 1..count /\ k - 1 \in 0..count
  OBVIOUS
<1>4. \A k \in 0..count : b[k] = IF k = 0 THEN l ELSE FireDue(b[k - 1], {o \in due : o.id = k})
  BY <1>2, <1>3 DEF IsRun
<1>5. Eqn(b)
  BY <1>4, Zenon
<1>6. Eqn(t)
  BY <1>5, Zenon
<1> HIDE DEF t
<1>7. IsRun(t, l, due, count)
  <2>1. 0 \in 0..count /\ \A k \in 1..count : k \in 0..count /\ k # 0
    OBVIOUS
  <2>2. \A k \in 0..count : t[k] = IF k = 0 THEN l ELSE FireDue(t[k - 1], {o \in due : o.id = k})
    BY <1>6, Zenon
  <2> QED BY <2>1, <2>2, Zenon DEF IsRun
<1> QED BY <1>1, <1>7 DEF due

\* By induction over the run: what every firing of an order that is still to fire
\* keeps, the run keeps.  Here: the types, the keys, and which ids there are.
SameIds(l, r) ==
  /\ \A o \in r.orders : \E p \in l.orders : p.id = o.id
  /\ \A p \in l.orders : \E o \in r.orders : p.id = o.id

LEMMA RunTyped ==
  ASSUME NEW l \in Ledgers, NEW due \in SUBSET Open(l), NEW n \in Nat, NEW a, IsRun(a, l, due, n)
  PROVE  \A k \in 0..n : /\ a[k] \in Ledgers
                         /\ a[k].seen = l.seen /\ a[k].halted = l.halted /\ a[k].whole = l.whole
                         /\ SameIds(l, a[k])
                         /\ \A o \in due : o.id > k => o \in a[k].orders
<1> DEFINE P(k) == /\ a[k] \in Ledgers
                   /\ a[k].seen = l.seen /\ a[k].halted = l.halted /\ a[k].whole = l.whole
                   /\ SameIds(l, a[k])
                   /\ \A o \in due : o.id > k => o \in a[k].orders
           Bad == {k \in 0..n : ~ P(k)}
<1>1. P(0)
  BY DEF IsRun, SameIds, Open
<1>2. ASSUME NEW k \in 1..n, P(k - 1) PROVE P(k)
  <2> DEFINE now == {o \in due : o.id = k}
             b == a[k - 1]
  <2>1. a[k] = FireDue(b, now)
    BY DEF IsRun
  <2>2. /\ b \in Ledgers /\ b.seen = l.seen /\ b.halted = l.halted /\ b.whole = l.whole
        /\ SameIds(l, b)
        /\ \A o \in due : o.id > k - 1 => o \in b.orders
    BY <1>2
  <2>3. due \subseteq Orders /\ \A o \in due : o.id \in Nat
    BY DEF Open, Ledgers, FinSets, Orders
  <2> HIDE DEF b
  <2>4. CASE now = {}
    <3>1. a[k] = b
      BY <2>1, <2>4 DEF FireDue
    <3>2. \A o \in due : o.id > k => o.id > k - 1
      BY <2>3
    <3> QED BY <2>2, <3>1, <3>2
  <2>5. CASE now # {}
    <3> DEFINE o == CHOOSE o \in now : TRUE
    <3>1. o \in now /\ a[k] = Fired(b, o)
      BY <2>1, <2>5 DEF FireDue
    <3> HIDE DEF o
    <3>2. o \in due /\ o.id = k /\ o \in Orders /\ o \in b.orders
      <4>1. o \in due /\ o.id = k /\ o \in Orders
        BY <2>3, <3>1
      <4> QED BY <2>2, <4>1
    <3>3. PICK st \in {"FILLED", "FAILED"} : a[k].orders = (b.orders \ {o}) \cup {Done(o, st)}
      BY <2>2, <3>1, <3>2, FiredIs
    <3>4. a[k] \in Ledgers /\ a[k].seen = b.seen /\ a[k].halted = b.halted /\ a[k].whole = b.whole
      BY <2>2, <3>1, <3>2, FiredIs
    <3>5. Done(o, st).id = o.id
      BY <3>2 DEF Done, Orders
    <3>6. SameIds(l, a[k])
      BY <2>2, <3>2, <3>3, <3>5 DEF SameIds
    <3>7. \A p \in due : p.id > k => p \in a[k].orders
      <4> SUFFICES ASSUME NEW p \in due, p.id > k PROVE p \in a[k].orders
        OBVIOUS
      <4>1. p.id > k - 1 /\ p # o
        BY <2>3, <3>2
      <4> QED BY <2>2, <3>3, <4>1
    <3> QED BY <2>2, <3>4, <3>6, <3>7
  <2> QED BY <2>4, <2>5
<1>3. Bad = {}
  <2> SUFFICES ASSUME Bad # {} PROVE FALSE
    OBVIOUS
  <2> HIDE DEF P
  <2>1. PICK k \in Bad : \A y \in Bad : k <= y
    <3>1. Bad \in SUBSET Nat
      OBVIOUS
    <3> HIDE DEF Bad
    <3> QED BY <3>1, LeastNat
  <2>2. k \in 0..n /\ ~ P(k)
    OBVIOUS
  <2>3. k \in 1..n /\ k - 1 \in 0..n /\ ~ (k <= k - 1)
    BY <1>1, <2>2
  <2>4. P(k - 1)
    BY <2>1, <2>3
  <2> QED BY <1>2, <2>2, <2>3, <2>4
<1> HIDE DEF P
<1>4. \A k \in 0..n : P(k)
  BY <1>3
<1> QED BY <1>4 DEF P

\* What a move of the mark does to the types and the keys.
LEMMA TriggerTyped ==
  ASSUME NEW l \in Ledgers, NEW m, count \in Nat
  PROVE  /\ TriggerAll(l, m) \in Ledgers
         /\ TriggerAll(l, m).seen = l.seen /\ TriggerAll(l, m).halted = l.halted
         /\ TriggerAll(l, m).whole = l.whole
         /\ SameIds(l, TriggerAll(l, m))
<1>1. PICK a : IsRun(a, l, Triggered(l, m), count) /\ TriggerAll(l, m) = a[count]
  BY TriggerAllIs
<1> DEFINE due == Triggered(l, m)
<1>2. due \in SUBSET Open(l) /\ count \in 0..count
  BY DEF Triggered
<1> HIDE DEF due
<1>3. IsRun(a, l, due, count)
  BY <1>1 DEF due
<1> QED BY <1>1, <1>2, <1>3, RunTyped

---------------------------------------------------------------------------
(* Writing and restoring a ledger *)

LEMMA CheckpointIs ==
  ASSUME NEW l \in Ledgers
  PROVE  /\ Checkpoint(l) \in Checkpoints
         /\ Checkpoint(l).cash = l.cash /\ Checkpoint(l).reserved = l.reserved
         /\ Checkpoint(l).orders = l.orders /\ Checkpoint(l).fills = l.fills
         /\ [Checkpoint(l) EXCEPT !.reserved = 0, !.orders = {}] \in Checkpoints
<1>1. {} \in FinSets(Orders)
  BY FS_EmptySet DEF FinSets
<1> DEFINE c == Checkpoint(l)
<1>2. /\ c \in Checkpoints /\ c.cash = l.cash /\ c.reserved = l.reserved
      /\ c.orders = l.orders /\ c.fills = l.fills
  BY DEF Checkpoint, Checkpoints, Ledgers
<1> HIDE DEF c
<1>3. [c EXCEPT !.reserved = 0, !.orders = {}] \in Checkpoints
  <2>1. ASSUME NEW x \in Int, NEW S \in FinSets(Orders)
        PROVE  [c EXCEPT !.reserved = x, !.orders = S] \in Checkpoints
    BY <1>2 DEF Checkpoints
  <2>2. 0 \in Int
    OBVIOUS
  <2> QED BY <1>1, <2>1, <2>2
<1> QED BY <1>2, <1>3 DEF c

LEMMA KeysTyped ==
  ASSUME NEW l \in Ledgers, NEW keys \in KeysKept(l.seen)
  PROVE  keys \in SUBSET Nat
<1>1. l.seen \in SUBSET Nat
  BY DEF Ledgers
<1> QED BY <1>1 DEF KeysKept, kSubset

\* A successful write of the session.
LEMMA PersistIs ==
  ASSUME NEW l \in Ledgers, db \in Tables, PersistSession(l)
  PROVE  /\ db' \in Tables /\ db'.checkpoint = {Checkpoint(l)}
         /\ db'.orders = db.orders /\ db'.fills = db.fills
<1>1. PICK keys \in KeysKept(l.seen) :
        db' = [db EXCEPT !.checkpoint = {Checkpoint(l)}, !.keys = keys]
  BY DEF PersistSession
<1>2. keys \in SUBSET Nat /\ Checkpoint(l) \in Checkpoints
  BY KeysTyped, CheckpointIs
<1> QED BY <1>1, <1>2 DEF Tables

\* The rows the journal lists are some of its rows.
LEMMA ListsAre ==
  ASSUME db \in Tables
  PROVE  /\ ListOrders \subseteq db.orders /\ ListOrders \in FinSets(Orders)
         /\ ListFills \subseteq db.fills /\ ListFills \in FinSets(Fills)
<1>1. ListOrders \in SUBSET db.orders /\ ListFills \in SUBSET db.fills
  BY DEF ListOrders, ListFills, Newest
<1>2. db.orders \in FinSets(Orders) /\ db.fills \in FinSets(Fills)
  BY DEF Tables
<1> QED BY <1>1, <1>2, FinPart

\* The one checkpoint, or what stands for it.
LastCheckpoint == IF db.checkpoint = {} THEN Checkpoint(Fresh) ELSE CHOOSE c \in db.checkpoint : TRUE

LEMMA LastIs ==
  ASSUME db \in Tables, \A c, d \in db.checkpoint : c = d
  PROVE  /\ LastCheckpoint \in Checkpoints
         /\ LastCheckpoint \in db.checkpoint
              \/ (db.checkpoint = {} /\ LastCheckpoint = Checkpoint(Fresh))
         /\ UNION {c.orders : c \in db.checkpoint} = LastCheckpoint.orders
         /\ UNION {c.fills : c \in db.checkpoint} = LastCheckpoint.fills
<1>1. db.checkpoint \in SUBSET Checkpoints
  BY DEF Tables
<1>2. CASE db.checkpoint = {}
  <2>1. LastCheckpoint = Checkpoint(Fresh)
    BY <1>2 DEF LastCheckpoint
  <2>2. LastCheckpoint \in Checkpoints /\ LastCheckpoint.orders = {} /\ LastCheckpoint.fills = {}
    BY <2>1, FreshTyped, CheckpointIs DEF Fresh
  <2>3. /\ UNION {c.orders : c \in db.checkpoint} = {}
        /\ UNION {c.fills : c \in db.checkpoint} = {}
    BY <1>2
  <2> QED BY <1>2, <2>1, <2>2, <2>3
<1>3. CASE db.checkpoint # {}
  <2> DEFINE d == CHOOSE c \in db.checkpoint : TRUE
  <2>1. d \in db.checkpoint /\ LastCheckpoint = d
    BY <1>3 DEF LastCheckpoint
  <2> HIDE DEF d
  <2>2. db.checkpoint = {d}
    BY <2>1
  <2>3. UNION {c.orders : c \in db.checkpoint} = d.orders /\ UNION {c.fills : c \in db.checkpoint} = d.fills
    BY <2>2
  <2> QED BY <1>1, <2>1, <2>3
<1> QED BY <1>2, <1>3

\* The ledger a restart puts together, from the journal or without it.
LEMMA HydrateIs ==
  ASSUME db \in Tables, \A c, d \in db.checkpoint : c = d, NEW readable \in BOOLEAN
  PROVE  /\ HydratedAccount \in Ledgers /\ HydratedAccount.orders = {}
         /\ ~ HydratedAccount.whole
         /\ HydrateSession(readable) \in Ledgers /\ LoadedKeys \in SUBSET Nat
         /\ HydrateSession(readable).cash = LastCheckpoint.cash
         /\ HydrateSession(readable).reserved = LastCheckpoint.reserved
         /\ HydrateSession(readable).orders =
              IF readable /\ ListOrders # {} THEN ListOrders ELSE LastCheckpoint.orders
         /\ HydrateSession(readable).fills =
              IF readable /\ ListFills # {} THEN ListFills ELSE LastCheckpoint.fills
         /\ \A o \in HydrateSession(readable).orders : o.id \in HydrateSession(readable).seen
         /\ ~ HydrateSession(readable).halted
         /\ HydrateSession(readable).whole = readable
<1> DEFINE c == LastCheckpoint
           base == [Unloaded EXCEPT !.cash = c.cash, !.reserved = c.reserved, !.qty = c.qty,
                                    !.entry = c.entry, !.seen = c.seen]
           os == RestoredOrders(readable)
           fs == RestoredFills(readable)
           ks == LoadedKeys \cup {o.id : o \in RestoredOrders(readable)}
<1>1. c \in Checkpoints
  BY LastIs
<1>2. HydratedAccount = base
  <2>1. CASE db.checkpoint = {}
    <3>1. HydratedAccount = Unloaded /\ c = Checkpoint(Fresh)
      BY <2>1 DEF HydratedAccount, LastCheckpoint
    <3>2. c.cash = Fresh.cash /\ c.reserved = Fresh.reserved /\ c.qty = Fresh.qty
          /\ c.entry = Fresh.entry /\ c.seen = Fresh.seen
      BY <3>1 DEF Checkpoint
    <3>3. base = Unloaded
      BY <3>2 DEF Fresh, Unloaded
    <3> QED BY <3>1, <3>3
  <2>2. CASE db.checkpoint # {}
    BY <2>2 DEF HydratedAccount, LastCheckpoint
  <2> QED BY <2>1, <2>2
<1>3. base \in Ledgers /\ base.cash = c.cash /\ base.reserved = c.reserved /\ ~ base.halted
      /\ base.seen = c.seen /\ base.orders = {} /\ ~ base.whole
  <2> HIDE DEF c
  <2>1. Unloaded \in Ledgers /\ ~ Unloaded.halted /\ Unloaded.orders = {} /\ ~ Unloaded.whole
    BY FreshTyped DEF Fresh, Unloaded
  <2> QED BY <1>1, <2>1 DEF Ledgers, Checkpoints
<1>4. /\ os = IF readable /\ ListOrders # {} THEN ListOrders ELSE c.orders
      /\ fs = IF readable /\ ListFills # {} THEN ListFills ELSE c.fills
  BY LastIs DEF RestoredOrders, RestoredFills
<1>5. os \in FinSets(Orders) /\ fs \in FinSets(Fills)
  <2> HIDE DEF c, os, fs
  <2> QED BY <1>1, <1>4, ListsAre DEF Checkpoints
<1>6. ks \in SUBSET Nat /\ LoadedKeys \in SUBSET Nat
  <2>1. LoadedKeys \in SUBSET Nat
    <3> HIDE DEF base
    <3> QED BY <1>2, <1>3 DEF LoadedKeys, Tables, Ledgers
  <2>2. os \subseteq Orders
    BY <1>5 DEF FinSets
  <2> QED BY <2>1, <2>2 DEF Orders
<1>7. HydrateSession(readable) = [base EXCEPT !.orders = os, !.fills = fs, !.seen = ks,
                                              !.whole = readable]
  <2> HIDE DEF base
  <2> QED BY <1>2 DEF HydrateSession
<1>8. \A o \in os : o.id \in ks
  OBVIOUS
<1> DEFINE h == HydrateSession(readable)
<1>9. /\ h \in Ledgers /\ h.cash = c.cash /\ h.reserved = c.reserved
      /\ h.orders = os /\ h.fills = fs /\ h.seen = ks /\ ~ h.halted
      /\ h.whole = readable
  <2> HIDE DEF base, os, fs, ks, c
  <2> QED BY <1>3, <1>5, <1>6, <1>7 DEF Ledgers
<1> HIDE DEF h, os, fs, ks
<1>10. \A o \in h.orders : o.id \in h.seen
  BY <1>8, <1>9
<1>11. HydratedAccount \in Ledgers /\ HydratedAccount.orders = {} /\ ~ HydratedAccount.whole
  BY <1>2, <1>3
<1> QED BY <1>4, <1>6, <1>9, <1>10, <1>11 DEF h

\* The ledgers a failed start may leave.
LEMMA HalfHydratedIs ==
  ASSUME db \in Tables, \A c, d \in db.checkpoint : c = d, NEW l \in HalfHydrated
  PROVE  /\ l \in Ledgers /\ \A o \in l.orders : o.id \in l.seen
         /\ l.whole => l = HydrateSession(TRUE)
<1>1. HydratedAccount \in Ledgers /\ HydratedAccount.orders = {} /\ ~ HydratedAccount.whole
      /\ LoadedKeys \in SUBSET Nat
  BY HydrateIs
<1>2. ASSUME NEW k \in SUBSET Nat
      PROVE  /\ [HydratedAccount EXCEPT !.seen = k] \in Ledgers
             /\ [HydratedAccount EXCEPT !.seen = k].orders = {}
             /\ ~ [HydratedAccount EXCEPT !.seen = k].whole
  BY <1>1 DEF Ledgers
<1>3. Unloaded \in Ledgers /\ Unloaded.orders = {} /\ ~ Unloaded.whole
  BY FreshTyped DEF Unloaded, Fresh
<1>4. CASE l = Unloaded
  BY <1>3, <1>4
<1>5. CASE l = [HydratedAccount EXCEPT !.seen = {}]
  <2>1. {} \in SUBSET Nat
    OBVIOUS
  <2> QED BY <1>2, <1>5, <2>1
<1>6. CASE l = [HydratedAccount EXCEPT !.seen = LoadedKeys]
  BY <1>1, <1>2, <1>6
<1>7. CASE l = HydrateSession(TRUE)
  BY <1>7, HydrateIs
<1>8. CASE l = HydrateSession(FALSE)
  BY <1>8, HydrateIs
<1> QED BY <1>4, <1>5, <1>6, <1>7, <1>8 DEF HalfHydrated

---------------------------------------------------------------------------
(* Types *)

LEMMA BudgetKept ==
  ASSUME Typed, NEW written \in BOOLEAN, budget' = Spent(written)
  PROVE  /\ budget' \in [failures : Int, crashes : Int, resets : 0..MaxResets]
         /\ budget'.resets = budget.resets
BY DEF Typed, Spent

LEMMA FlightTyped ==
  ASSUME Typed, NEW pc \in {"order", "trade", "persist"}, NEW entry \in Nat, NEW p \in Prices
  PROVE  /\ Flight(pc, entry, p) \in Flights /\ Flight(pc, entry, p).order = count + 1
         /\ Flight(pc, entry, p).pc = pc /\ Flight(pc, entry, p) # Idle
<1>1. p \in Nat /\ count + 1 \in Nat
  BY Costs DEF Typed
<1>2. Flight(pc, entry, p).pc # Idle.pc
  BY DEF Flight, Idle
<1> QED BY <1>1, <1>2 DEF Flight, Flights

\* The next step of an order under way.
LEMMA FlightMoves ==
  ASSUME NEW f \in Flights, NEW pc \in {"fill", "trade", "persist"}
  PROVE  /\ [f EXCEPT !.pc = pc] \in Flights /\ [f EXCEPT !.pc = pc].order = f.order
         /\ [f EXCEPT !.pc = pc].pc = pc /\ [f EXCEPT !.pc = pc] # Idle
<1>1. [f EXCEPT !.pc = pc] \in Flights /\ [f EXCEPT !.pc = pc].order = f.order
      /\ [f EXCEPT !.pc = pc].pc = pc
  BY DEF Flights
<1> QED BY <1>1 DEF Idle

LEMMA NewOrderTyped ==
  ASSUME Typed, NEW source \in {"manual", "cycle"}, NEW side \in {"BUY", "SELL"}, NEW p \in Prices
  PROVE  /\ NewOrder(source, side, p) \in Orders
         /\ NewOrder(source, side, p).id = count + 1 /\ NewOrder(source, side, p).source = source
         /\ NewOrder(source, side, p).side = side /\ NewOrder(source, side, p).price = p
         /\ NewOrder(source, side, p).status = "SUBMITTED"
BY DEF NewOrder, Orders, Typed

\* An order that is entered and filled at once.
Placed(source, side, p) ==
  LET o == NewOrder(source, side, p) IN Filled(Entered(mem, o), o, p)

LEMMA PlacedIs ==
  ASSUME Typed, NEW source \in {"manual", "cycle"}, NEW side \in {"BUY", "SELL"}, NEW p \in Prices
  PROVE  LET o == NewOrder(source, side, p)
             r == Placed(source, side, p)
         IN  /\ r \in Ledgers
             /\ r.reserved = mem.reserved /\ r.seen = mem.seen \cup {count + 1}
             /\ r.halted = mem.halted /\ r.whole = mem.whole
             /\ r.fills = mem.fills \cup {FillOf(o, p)}
             /\ \E st \in {"FILLED", "FAILED"} :
                  /\ r.orders = ((mem.orders \cup {o}) \ {o}) \cup {Done(o, st)}
                  /\ st = "FILLED" => r.cash = mem.cash + Amount(FillOf(o, p))
<1> DEFINE o == NewOrder(source, side, p)
           e == Entered(mem, o)
           r == Filled(e, o, p)
<1>1. o \in Orders /\ o.id = count + 1
  BY NewOrderTyped
<1> HIDE DEF o
<1>2. /\ e \in Ledgers /\ e.orders = mem.orders \cup {o} /\ e.seen = mem.seen \cup {o.id}
      /\ e.cash = mem.cash /\ e.reserved = mem.reserved
      /\ e.fills = mem.fills /\ e.halted = mem.halted /\ e.whole = mem.whole
  BY <1>1, EnteredIs DEF Typed
<1> HIDE DEF e
<1>3. PICK st \in {"FILLED", "FAILED"} :
        /\ r.orders = (e.orders \ {o}) \cup {Done(o, st)}
        /\ st = "FILLED" => r.cash = e.cash + Amount(FillOf(o, p))
  BY <1>1, <1>2, FilledIs
<1>4. /\ r \in Ledgers /\ r.reserved = e.reserved /\ r.seen = e.seen /\ r.halted = e.halted
      /\ r.whole = e.whole /\ r.fills = e.fills \cup {FillOf(o, p)}
  BY <1>1, <1>2, FilledIs
<1>5. Placed(source, side, p) = r
  BY DEF Placed, o, e
<1> HIDE DEF r
<1>6. /\ r \in Ledgers
      /\ r.reserved = mem.reserved /\ r.seen = mem.seen \cup {count + 1}
      /\ r.halted = mem.halted /\ r.whole = mem.whole
      /\ r.fills = mem.fills \cup {FillOf(o, p)}
      /\ r.orders = ((mem.orders \cup {o}) \ {o}) \cup {Done(o, st)}
      /\ st = "FILLED" => r.cash = mem.cash + Amount(FillOf(o, p))
  BY <1>1, <1>2, <1>3, <1>4
<1> QED BY <1>5, <1>6 DEF o

\* An order that rests.
Rested(side, p) ==
  LET entered == Entered(mem, NewOrder("manual", side, p))
  IN  IF side = "BUY" THEN Reserved(entered, p) ELSE entered

LEMMA RestedIs ==
  ASSUME Typed, NEW side \in {"BUY", "SELL"}, NEW p \in Prices
  PROVE  LET o == NewOrder("manual", side, p)
             r == Rested(side, p)
         IN  /\ r \in Ledgers
             /\ r.reserved = mem.reserved + HeldBack(o) /\ r.seen = mem.seen \cup {count + 1}
             /\ r.halted = mem.halted /\ r.whole = mem.whole
             /\ r.fills = mem.fills /\ r.orders = mem.orders \cup {o}
             /\ r.cash = mem.cash - HeldBack(o)
<1> DEFINE o == NewOrder("manual", side, p)
           e == Entered(mem, o)
           r == Rested(side, p)
<1>1. o \in Orders /\ o.id = count + 1 /\ o.side = side /\ o.price = p
  BY NewOrderTyped
<1> HIDE DEF o
<1>2. /\ e \in Ledgers /\ e.orders = mem.orders \cup {o} /\ e.seen = mem.seen \cup {o.id}
      /\ e.cash = mem.cash /\ e.reserved = mem.reserved
      /\ e.fills = mem.fills /\ e.halted = mem.halted /\ e.whole = mem.whole
  BY <1>1, EnteredIs DEF Typed
<1>3. mem.cash \in Int /\ mem.reserved \in Int /\ Notional(p) \in Int
  BY Costs DEF Typed, Ledgers
<1>4. r = IF side = "BUY" THEN Reserved(e, p) ELSE e
  BY DEF Rested, o
<1> HIDE DEF e, r
<1>5. ASSUME side = "BUY"
      PROVE  /\ r \in Ledgers /\ r.reserved = mem.reserved + HeldBack(o)
             /\ r.seen = mem.seen \cup {count + 1} /\ r.halted = mem.halted /\ r.whole = mem.whole
             /\ r.fills = mem.fills /\ r.orders = mem.orders \cup {o}
             /\ r.cash = mem.cash - HeldBack(o)
  <2>1. r = Moved(e, Notional(p)) /\ HeldBack(o) = Notional(p)
    BY <1>1, <1>2, <1>4, <1>5, ReservedReleased DEF HeldBack
  <2>2. /\ r \in Ledgers /\ r.cash = e.cash - Notional(p) /\ r.reserved = e.reserved + Notional(p)
        /\ r.orders = e.orders /\ r.fills = e.fills /\ r.seen = e.seen /\ r.halted = e.halted
        /\ r.whole = e.whole
    BY <1>2, <1>3, <2>1, MovedIs
  <2> QED BY <1>1, <1>2, <2>1, <2>2
<1>6. ASSUME side # "BUY"
      PROVE  /\ r \in Ledgers /\ r.reserved = mem.reserved + HeldBack(o)
             /\ r.seen = mem.seen \cup {count + 1} /\ r.halted = mem.halted /\ r.whole = mem.whole
             /\ r.fills = mem.fills /\ r.orders = mem.orders \cup {o}
             /\ r.cash = mem.cash - HeldBack(o)
  <2>1. r = e /\ HeldBack(o) = 0
    BY <1>1, <1>4, <1>6 DEF HeldBack
  <2>2. mem.reserved + 0 = mem.reserved /\ mem.cash - 0 = mem.cash
    BY <1>3
  <2> QED BY <1>1, <1>2, <2>1, <2>2
<1> QED BY <1>5, <1>6 DEF o, r

LEMMA TypedBegins == Init => Typed
<1> SUFFICES ASSUME Init PROVE Typed
  OBVIOUS
<1>1. Fresh \in Ledgers /\ Idle \in Flights /\ Idle.order = 0
  BY FreshTyped DEF Idle
<1>2. {} \in FinSets(Orders) /\ {} \in FinSets(Fills)
  BY FS_EmptySet DEF FinSets
<1>3. db \in Tables /\ db.checkpoint = {}
  BY <1>2 DEF Init, Tables
<1>4. budget \in [failures : Int, crashes : Int, resets : 0..MaxResets]
  BY LedgerAssumption DEF Init
<1>5. Idle.pc # "order"
  BY DEF Idle
<1> QED BY <1>1, <1>3, <1>4, <1>5 DEF Init, Typed, InHand

\* No id of the orders is lost.
Keeps(l, r) == \A p \in l.orders : \E q \in r.orders : q.id = p.id

LEMMA HandKept ==
  ASSUME Typed, \/ cycle'.pc # "order"
                \/ cycle' = cycle /\ orphan' = orphan /\ Keeps(mem, mem')
                \/ cycle' = cycle /\ CycleLedger' = CycleLedger
  PROVE  InHand'
<1>1. CASE cycle'.pc # "order"
  BY <1>1 DEF InHand
<1>2. CASE cycle' = cycle /\ orphan' = orphan /\ Keeps(mem, mem')
  BY <1>2 DEF InHand, Typed, CycleLedger, Keeps
<1>3. CASE cycle' = cycle /\ CycleLedger' = CycleLedger
  BY <1>3 DEF InHand, Typed
<1> QED BY <1>1, <1>2, <1>3

LEMMA CycleOrderIs ==
  ASSUME Typed
  PROVE  /\ CycleLedger \in Ledgers
         /\ cycle.pc = "order" => /\ CycleOrder \in CycleLedger.orders /\ CycleOrder \in Orders
                                  /\ CycleOrder.id = cycle.order
<1>1. CycleLedger \in Ledgers
  BY DEF CycleLedger, Typed
<1>2. CycleLedger.orders \subseteq Orders
  BY <1>1 DEF Ledgers, FinSets
<1>3. ASSUME cycle.pc = "order"
      PROVE  CycleOrder \in CycleLedger.orders /\ CycleOrder.id = cycle.order
  <2>1. \E o \in CycleLedger.orders : o.id = cycle.order
    BY <1>3 DEF Typed, InHand
  <2> QED BY <2>1 DEF CycleOrder
<1> QED BY <1>1, <1>2, <1>3

\* One step per action.
LEMMA TypedKept == Typed /\ [Next]_vars => Typed'
<1> SUFFICES ASSUME Typed, [Next]_vars PROVE Typed'
  OBVIOUS
<1> DEFINE Budgets == [failures : Int, crashes : Int, resets : 0..MaxResets]
<1>0. /\ up \in BOOLEAN /\ mem \in Ledgers /\ orphan \in SUBSET Ledgers
      /\ manual \in Flights /\ cycle \in Flights /\ mark \in Prices /\ db \in Tables
      /\ count \in Nat /\ budget \in Budgets /\ cycle.order <= count
      /\ (cycle = Idle => orphan = {}) /\ (~ up => cycle = Idle /\ mem = Fresh)
      /\ (\A c, d \in db.checkpoint : c = d)
      /\ mem.entry \in Nat /\ cycle.order \in Nat /\ 0 \in Nat
  BY DEF Typed, Ledgers, Flights
<1>t. ASSUME /\ up' \in BOOLEAN /\ mem' \in Ledgers /\ orphan' \in SUBSET Ledgers
             /\ manual' \in Flights /\ cycle' \in Flights /\ mark' \in Prices /\ db' \in Tables
             /\ count' \in Nat /\ budget' \in Budgets /\ cycle'.order <= count'
             /\ cycle' = Idle => orphan' = {}
             /\ ~ up' => cycle' = Idle /\ mem' = Fresh
             /\ \A c, d \in db'.checkpoint : c = d
             /\ InHand'
      PROVE  Typed'
  BY <1>t DEF Typed, Idle, Fresh
<1>k. Keeps(mem, mem)
  BY DEF Keeps
<1>1. ASSUME NEW side \in {"BUY", "SELL"}, PlaceMarket(side) PROVE Typed'
  <2>1. /\ up /\ Accepts(mem, side, mark) /\ mem' = Placed("manual", side, mark)
        /\ manual' = Flight(IF side = "SELL" THEN "trade" ELSE "persist", mem.entry, mark)
        /\ count' = count + 1 /\ UNCHANGED <<up, orphan, cycle, mark, db, budget>>
    BY <1>1 DEF PlaceMarket, Placed, Accepts
  <2>2. mem' \in Ledgers
    BY <1>0, <2>1, PlacedIs
  <2>3. manual' \in Flights
    BY <1>0, <2>1, FlightTyped
  <2>4. InHand'
    <3> DEFINE o == NewOrder("manual", side, mark)
    <3>1. \A st : Done(o, st).id = o.id
      BY DEF Done, NewOrder
    <3>2. PICK st : mem'.orders = ((mem.orders \cup {o}) \ {o}) \cup {Done(o, st)}
      BY <1>0, <2>1, PlacedIs
    <3> HIDE DEF o
    <3>3. Keeps(mem, mem')
      BY <3>1, <3>2 DEF Keeps
    <3> QED BY <2>1, <3>3, HandKept
  <2> QED BY <1>0, <1>t, <2>1, <2>2, <2>3, <2>4
<1>2. ASSUME NEW side \in {"BUY", "SELL"}, CycleTrades(side) PROVE Typed'
  <2>1. /\ up /\ Accepts(mem, side, mark) /\ mem' = Placed("cycle", side, mark)
        /\ cycle' = Flight("order", mem.entry, mark)
        /\ count' = count + 1 /\ UNCHANGED <<up, orphan, manual, mark, db, budget>>
    BY <1>2 DEF CycleTrades, Placed, Accepts
  <2>2. mem' \in Ledgers
    BY <1>0, <2>1, PlacedIs
  <2>3. cycle' \in Flights /\ cycle' # Idle /\ cycle'.order = count + 1
    BY <1>0, <2>1, FlightTyped
  <2>4. InHand'
    <3> DEFINE o == NewOrder("cycle", side, mark)
    <3>1. \A st : Done(o, st).id = count + 1
      BY DEF Done, NewOrder
    <3>2. \E st : Done(o, st) \in mem'.orders
      BY <1>0, <2>1, PlacedIs
    <3>3. orphan' = {}
      BY <1>0, <1>2, <2>1 DEF CycleTrades
    <3> HIDE DEF o
    <3> QED BY <2>3, <3>1, <3>2, <3>3 DEF InHand, CycleLedger
  <2> QED BY <1>0, <1>t, <2>1, <2>2, <2>3, <2>4
<1>3. ASSUME NEW side \in {"BUY", "SELL"}, NEW p \in Prices, PlaceLimit(side, p) PROVE Typed'
  <2>1. /\ up /\ mem' = Rested(side, p) /\ manual' = Flight("persist", 0, p)
        /\ count' = count + 1 /\ UNCHANGED <<up, orphan, cycle, mark, db, budget>>
    BY <1>3 DEF PlaceLimit, Rested, Accepts
  <2>2. mem' \in Ledgers
    BY <2>1, RestedIs
  <2>3. manual' \in Flights
    BY <1>0, <2>1, FlightTyped
  <2>4. InHand'
    <3>1. Keeps(mem, mem')
      BY <2>1, RestedIs DEF Keeps
    <3> QED BY <2>1, <3>1, HandKept
  <2> QED BY <1>0, <1>t, <2>1, <2>2, <2>3, <2>4
<1>4. ASSUME NEW p \in Prices, MarkMoves(p) PROVE Typed'
  <2>1. /\ up /\ mem' = TriggerAll(mem, p) /\ mark' = p
        /\ UNCHANGED <<up, orphan, manual, cycle, db, count, budget>>
    BY <1>4 DEF MarkMoves
  <2>2. mem' \in Ledgers
    BY <1>0, <2>1, TriggerTyped
  <2>3. InHand'
    <3>1. Keeps(mem, mem')
      BY <1>0, <2>1, TriggerTyped DEF Keeps, SameIds
    <3> QED BY <2>1, <3>1, HandKept
  <2> QED BY <1>0, <1>t, <2>1, <2>2, <2>3
<1>5. ASSUME NEW written \in BOOLEAN, JournalOrder(written) PROVE Typed'
  <2>1. /\ up /\ cycle.pc = "order" /\ budget' = Spent(written)
        /\ cycle' = [cycle EXCEPT !.pc = "fill"]
        /\ UNCHANGED <<up, mem, orphan, manual, mark, count>>
        /\ db' = IF written THEN [db EXCEPT !.orders = @ \cup {CycleOrder}] ELSE db
    BY <1>5 DEF JournalOrder
  <2> DEFINE os == db.orders \cup {CycleOrder}
  <2>2. os \in FinSets(Orders)
    <3>1. CycleOrder \in Orders /\ db.orders \in FinSets(Orders)
      BY <1>0, <2>1, CycleOrderIs DEF Tables
    <3> QED BY <3>1, FinAdd
  <2>3. db' \in Tables /\ db'.checkpoint = db.checkpoint
    <3>1. db' = IF written THEN [db EXCEPT !.orders = os] ELSE db
      BY <2>1
    <3> HIDE DEF os
    <3> QED BY <1>0, <2>2, <3>1 DEF Tables
  <2>4. cycle' \in Flights /\ cycle' # Idle /\ cycle'.order = cycle.order /\ cycle'.pc = "fill"
    BY <1>0, <2>1, FlightMoves
  <2>5. budget' \in Budgets
    BY <2>1, BudgetKept
  <2>6. InHand'
    BY <2>4, HandKept
  <2> QED BY <1>0, <1>t, <2>1, <2>3, <2>4, <2>5, <2>6
<1>6. ASSUME NEW written \in BOOLEAN, JournalFill(written) PROVE Typed'
  <2>1. /\ up /\ budget' = Spent(written)
        /\ cycle' = [cycle EXCEPT !.pc = IF CycleOrder.side = "SELL" THEN "trade" ELSE "persist"]
        /\ UNCHANGED <<up, mem, orphan, manual, mark, count>>
        /\ db' = IF written
                 THEN [db EXCEPT !.fills = @ \cup {f \in CycleLedger.fills : f.id = cycle.order}]
                 ELSE db
    BY <1>6 DEF JournalFill
  <2>2. CycleLedger \in Ledgers
    BY CycleOrderIs
  <2> DEFINE new == {f \in CycleLedger.fills : f.id = cycle.order}
             fs == db.fills \cup new
  <2>3. fs \in FinSets(Fills)
    <3>1. new \in SUBSET CycleLedger.fills /\ CycleLedger.fills \in FinSets(Fills)
          /\ db.fills \in FinSets(Fills)
      BY <1>0, <2>2 DEF Ledgers, Tables
    <3>2. new \in FinSets(Fills)
      <4> HIDE DEF new
      <4> QED BY <3>1, FinPart
    <3> HIDE DEF new
    <3> QED BY <3>1, <3>2, FS_Union DEF FinSets
  <2>4. db' \in Tables /\ db'.checkpoint = db.checkpoint
    <3>1. db' = IF written THEN [db EXCEPT !.fills = fs] ELSE db
      BY <2>1
    <3> HIDE DEF fs
    <3> QED BY <1>0, <2>3, <3>1 DEF Tables
  <2>5. cycle' \in Flights /\ cycle' # Idle /\ cycle'.order = cycle.order /\ cycle'.pc # "order"
    BY <1>0, <2>1, FlightMoves
  <2>6. budget' \in Budgets
    BY <2>1, BudgetKept
  <2>7. InHand'
    BY <2>5, HandKept
  <2> QED BY <1>0, <1>t, <2>1, <2>4, <2>5, <2>6, <2>7
<1>7. ASSUME NEW written \in BOOLEAN, RecordManualTrade(written) PROVE Typed'
  <2>1. /\ up /\ budget' = Spent(written) /\ manual' = [manual EXCEPT !.pc = "persist"]
        /\ UNCHANGED <<up, mem, orphan, cycle, mark, db, count>>
    BY <1>7 DEF RecordManualTrade
  <2>2. manual' \in Flights /\ budget' \in Budgets
    BY <1>0, <2>1, FlightMoves, BudgetKept
  <2>3. InHand'
    BY <1>k, <2>1, HandKept
  <2> QED BY <1>0, <1>t, <2>1, <2>2, <2>3
<1>8. ASSUME NEW written \in BOOLEAN, RecordCycleTrade(written) PROVE Typed'
  <2>1. /\ up /\ budget' = Spent(written) /\ cycle' = [cycle EXCEPT !.pc = "persist"]
        /\ UNCHANGED <<up, mem, orphan, manual, mark, db, count>>
    BY <1>8 DEF RecordCycleTrade
  <2>2. /\ cycle' \in Flights /\ cycle' # Idle /\ cycle'.order = cycle.order
        /\ cycle'.pc # "order" /\ budget' \in Budgets
    BY <1>0, <2>1, FlightMoves, BudgetKept
  <2>3. InHand'
    BY <2>2, HandKept
  <2> QED BY <1>0, <1>t, <2>1, <2>2, <2>3
<1>9. ASSUME NEW written \in BOOLEAN, PersistManual(written) PROVE Typed'
  <2>1. /\ up /\ budget' = Spent(written) /\ manual' = Idle
        /\ UNCHANGED <<up, orphan, cycle, mark, count>>
        /\ \/ PersistSession(mem) /\ UNCHANGED mem
           \/ mem' = [mem EXCEPT !.healthy = @ /\ ~ manual.current] /\ UNCHANGED db
    BY <1>9 DEF PersistManual
  <2>2. budget' \in Budgets /\ manual' \in Flights
    BY <2>1, BudgetKept, FreshTyped
  <2>3. mem' \in Ledgers
    BY <1>0, <2>1 DEF Ledgers, Flights
  <2>4. db' \in Tables /\ \A c, d \in db'.checkpoint : c = d
    <3>1. CASE PersistSession(mem)
      BY <1>0, <3>1, PersistIs
    <3>2. CASE UNCHANGED db
      BY <1>0, <3>2
    <3> QED BY <2>1, <3>1, <3>2
  <2>5. InHand'
    <3>1. Keeps(mem, mem')
      BY <1>0, <2>1 DEF Keeps, Ledgers
    <3> QED BY <2>1, <3>1, HandKept
  <2> QED BY <1>0, <1>t, <2>1, <2>2, <2>3, <2>4, <2>5
<1>10. ASSUME NEW written \in BOOLEAN, PersistCycle(written) PROVE Typed'
  <2> DEFINE row == [Checkpoint(CycleLedger) EXCEPT !.reserved = 0, !.orders = {}]
  <2>1. /\ up /\ budget' = Spent(written) /\ cycle' = Idle /\ orphan' = {}
        /\ UNCHANGED <<up, manual, mark, count>>
        /\ mem' = [mem EXCEPT !.healthy = @ /\ written /\ CycleInvariants(CycleLedger),
                              !.halted = Drift(mem)]
        /\ \/ UNCHANGED db
           \/ PersistSession(mem)
           \/ db' = [db EXCEPT !.checkpoint = {row}]
    BY <1>10 DEF PersistCycle
  <2>2. budget' \in Budgets /\ cycle' \in Flights /\ cycle'.order = 0
    BY <2>1, BudgetKept, FreshTyped DEF Idle
  <2>3. mem' \in Ledgers
    <3>1. CycleInvariants(CycleLedger) \in BOOLEAN /\ Drift(mem) \in BOOLEAN /\ mem.healthy \in BOOLEAN
      BY <1>0 DEF CycleInvariants, Drift, Ledgers
    <3> QED BY <1>0, <2>1, <3>1 DEF Ledgers
  <2>4. row \in Checkpoints
    BY CycleOrderIs, CheckpointIs
  <2>5. db' \in Tables /\ \A c, d \in db'.checkpoint : c = d
    <3> HIDE DEF row
    <3>1. CASE PersistSession(mem)
      BY <1>0, <3>1, PersistIs
    <3>2. CASE UNCHANGED db
      BY <1>0, <3>2
    <3>3. CASE db' = [db EXCEPT !.checkpoint = {row}]
      BY <1>0, <2>4, <3>3 DEF Tables
    <3> QED BY <2>1, <3>1, <3>2, <3>3
  <2>6. InHand'
    <3>1. Idle.pc # "order"
      BY DEF Idle
    <3> QED BY <2>1, <3>1, HandKept
  <2> QED BY <1>0, <1>t, <2>1, <2>2, <2>3, <2>5, <2>6
<1>11. CASE Reconcile
  <2>1. Drift(mem) \in BOOLEAN
    BY DEF Drift
  <2>2. mem' \in Ledgers /\ Keeps(mem, mem')
    BY <1>0, <1>11, <2>1 DEF Reconcile, Ledgers, Keeps
  <2>3. up /\ UNCHANGED <<up, orphan, manual, cycle, mark, db, count, budget>>
    BY <1>11 DEF Reconcile
  <2> QED BY <1>0, <1>t, <2>2, <2>3, HandKept
<1>12. CASE HealthProbe
  <2>1. mem' \in Ledgers /\ Keeps(mem, mem')
    BY <1>0, <1>12 DEF HealthProbe, Ledgers, Keeps
  <2>2. up /\ UNCHANGED <<up, orphan, manual, cycle, mark, db, count, budget>>
    BY <1>12 DEF HealthProbe
  <2> QED BY <1>0, <1>t, <2>1, <2>2, HandKept
<1>13. CASE PaperReset
  <2>1. budget' \in Budgets
    <3>1. budget.resets > 0 /\ budget' = [budget EXCEPT !.resets = @ - 1] /\ MaxResets \in Nat
      BY <1>13, LedgerAssumption DEF PaperReset
    <3>2. budget.resets - 1 \in 0..MaxResets
      BY <1>0, <3>1
    <3> QED BY <1>0, <3>1, <3>2
  <2>2. manual' \in Flights
    BY <1>0, <1>13, FreshTyped DEF PaperReset, Flights
  <2>3. /\ orphan' = IF cycle # Idle /\ orphan = {} THEN {mem} ELSE orphan
        /\ mem' = Unloaded /\ up /\ UNCHANGED <<up, cycle, mark, db, count>>
    BY <1>13 DEF PaperReset
  <2>4. InHand'
    <3>1. CASE cycle = Idle
      BY <2>3, <3>1, HandKept DEF Idle
    <3>2. CASE cycle # Idle
      <4>1. CycleLedger' = CycleLedger
        <5>1. CASE orphan = {}
          <6>1. orphan' = {mem} /\ (CHOOSE l \in {mem} : TRUE) = mem
            BY <2>3, <3>2, <5>1
          <6> QED BY <5>1, <6>1 DEF CycleLedger
        <5>2. CASE orphan # {}
          <6>1. orphan' = orphan
            BY <2>3, <5>2
          <6> QED BY <5>2, <6>1 DEF CycleLedger
        <5> QED BY <5>1, <5>2
      <4> QED BY <2>3, <4>1, HandKept
    <3> QED BY <3>1, <3>2
  <2> QED BY <1>0, <1>t, <2>1, <2>2, <2>3, <2>4, FreshTyped
<1>14. CASE Crash
  <2>1. budget' \in Budgets
    <3>1. budget' = [budget EXCEPT !.crashes = @ - 1]
      BY <1>14 DEF Crash
    <3>2. budget.crashes - 1 \in Int
      BY <1>0
    <3> QED BY <1>0, <3>1, <3>2
  <2>2. Idle.order = 0 /\ Idle.pc # "order"
    BY DEF Idle
  <2>3. /\ up' = FALSE /\ mem' = Fresh /\ manual' = Idle /\ cycle' = Idle /\ orphan' = {}
        /\ UNCHANGED <<mark, db, count>>
    BY <1>14 DEF Crash
  <2>4. InHand'
    BY <2>2, <2>3, HandKept
  <2>5. cycle'.order <= count' /\ count' \in Nat
    BY <1>0, <2>2, <2>3
  <2>6. mem' \in Ledgers /\ manual' \in Flights /\ cycle' \in Flights
    BY <2>3, FreshTyped
  <2>7. up' \in BOOLEAN /\ orphan' \in SUBSET Ledgers /\ mark' \in Prices /\ db' \in Tables
        /\ \A c, d \in db'.checkpoint : c = d
    BY <1>0, <2>3
  <2> QED BY <1>t, <2>1, <2>3, <2>4, <2>5, <2>6, <2>7
<1>15. ASSUME NEW readable \in BOOLEAN, NEW reconciled \in BOOLEAN,
              Bootstrap(readable, reconciled)
       PROVE  Typed'
  <2> DEFINE h == HydrateSession(readable)
             d == reconciled => Drift(h)
             ok == readable /\ reconciled
  <2>1. h \in Ledgers /\ d \in BOOLEAN /\ ok \in BOOLEAN
    BY <1>0, HydrateIs
  <2>2. mem' = [h EXCEPT !.halted = d] /\ up' = TRUE /\ budget' = Spent(ok)
        /\ UNCHANGED <<orphan, manual, cycle, mark, db, count>> /\ ~ up
    BY <1>15 DEF Bootstrap
  <2> HIDE DEF h, d, ok
  <2>3. mem' \in Ledgers
    BY <2>1, <2>2 DEF Ledgers
  <2>4. budget' \in Budgets
    BY <2>1, <2>2, BudgetKept
  <2>5. InHand'
    BY <1>0, <2>2, HandKept DEF Idle
  <2> QED BY <1>0, <1>t, <2>2, <2>3, <2>4, <2>5
<1>17. CASE StartFails
  <2>1. PICK l \in HalfHydrated, halted \in BOOLEAN :
          mem' = [l EXCEPT !.healthy = FALSE, !.halted = halted]
    BY <1>17 DEF StartFails
  <2>2. up' = TRUE /\ budget' = Spent(FALSE) /\ ~ up
        /\ UNCHANGED <<orphan, manual, cycle, mark, db, count>>
    BY <1>17 DEF StartFails
  <2>3. l \in Ledgers
    BY <1>0, HalfHydratedIs
  <2>4. mem' \in Ledgers
    BY <2>1, <2>3 DEF Ledgers
  <2>5. budget' \in Budgets
    BY <2>2, BudgetKept
  <2>6. InHand'
    BY <1>0, <2>2, HandKept DEF Idle
  <2> QED BY <1>0, <1>t, <2>2, <2>4, <2>5, <2>6
<1>16. CASE UNCHANGED vars
  <2>1. UNCHANGED <<up, mem, orphan, manual, cycle, mark, db, count, budget>>
    BY <1>16 DEF vars
  <2> QED BY <1>0, <1>k, <1>t, <2>1, HandKept
<1> QED BY <1>1, <1>2, <1>3, <1>4, <1>5, <1>6, <1>7, <1>8, <1>9, <1>10, <1>11, <1>12,
           <1>13, <1>14, <1>15, <1>16, <1>17 DEF Next

---------------------------------------------------------------------------
(* Keys *)

NoReset == budget.resets = MaxResets

\* Every order in memory has its key there, and so have the newest journal rows if
\* the session was put together from them.  A reset that leaves a cycle its old
\* ledger leaves the session without them.
KeysHeld ==
  /\ NoReset \/ mem.whole => orphan = {}
  /\ \A o \in mem.orders : o.id \in mem.seen
  /\ (up /\ mem.whole) => \A o \in ListOrders : o.id \in mem.seen

\* A new row pushes rows out of the newest and brings in none but itself.
LEMMA NewestAdds ==
  ASSUME NEW rows \in FinSets(Orders), NEW r \in Orders
  PROVE  Newest(rows \cup {r}) \subseteq Newest(rows) \cup {r}
<1> SUFFICES ASSUME NEW x \in Newest(rows \cup {r}), x # r PROVE x \in Newest(rows)
  OBVIOUS
<1> DEFINE A == {s \in rows : s.id > x.id}
           B == {s \in rows \cup {r} : s.id > x.id}
<1>1. x \in rows /\ Cardinality(B) < JournalLimit
  BY DEF Newest
<1>2. IsFiniteSet(B)
  <2>1. rows \cup {r} \in FinSets(Orders) /\ B \in SUBSET (rows \cup {r})
    BY FinAdd
  <2> HIDE DEF B
  <2> QED BY <2>1, FS_Subset DEF FinSets
<1>3. A \in SUBSET B
  OBVIOUS
<1>4. Cardinality(A) <= Cardinality(B) /\ Cardinality(A) \in Nat /\ Cardinality(B) \in Nat
  <2> HIDE DEF A, B
  <2> QED BY <1>2, <1>3, FS_Subset, FS_CardinalityType
<1>5. JournalLimit \in Nat
  BY LedgerAssumption
<1>6. Cardinality(A) < JournalLimit
  <2> HIDE DEF A, B
  <2> QED BY <1>1, <1>4, <1>5
<1> QED BY <1>1, <1>6 DEF Newest

\* Nothing but a new journal row or a restart asks for a key.
LEMMA KeysStay ==
  ASSUME KeysHeld, budget'.resets = budget.resets, orphan' = orphan \/ orphan' = {},
         mem.seen \subseteq mem'.seen, mem'.whole = mem.whole, \A o \in mem'.orders : o.id \in mem'.seen,
         up' = up, db'.orders = db.orders
  PROVE  KeysHeld'
<1>1. ListOrders' = ListOrders
  BY DEF ListOrders, Newest
<1> QED BY <1>1 DEF KeysHeld, NoReset

LEMMA KeysBegin == Init => KeysHeld
BY DEF Init, KeysHeld, Fresh, ListOrders, Newest

LEMMA KeysKeptOn == Typed /\ KeysHeld /\ [Next]_vars => KeysHeld'
<1> SUFFICES ASSUME Typed, KeysHeld, [Next]_vars PROVE KeysHeld'
  OBVIOUS
<1>0. /\ mem \in Ledgers /\ cycle \in Flights /\ mark \in Prices /\ db \in Tables /\ count \in Nat
      /\ (\A c, d \in db.checkpoint : c = d)
  BY DEF Typed
<1>k. (\A o \in mem.orders : o.id \in mem.seen) /\ (NoReset \/ mem.whole => orphan = {})
  BY DEF KeysHeld
<1>p. ASSUME NEW source \in {"manual", "cycle"}, NEW side \in {"BUY", "SELL"},
             mem' = Placed(source, side, mark)
      PROVE  mem.seen \subseteq mem'.seen /\ mem'.whole = mem.whole
             /\ \A o \in mem'.orders : o.id \in mem'.seen
  <2> DEFINE o == NewOrder(source, side, mark)
  <2>1. \A st : Done(o, st).id = count + 1
    BY DEF Done, NewOrder
  <2>2. PICK st : mem'.orders = ((mem.orders \cup {o}) \ {o}) \cup {Done(o, st)}
    BY <1>0, <1>p, PlacedIs
  <2>3. mem'.seen = mem.seen \cup {count + 1} /\ mem'.whole = mem.whole
    BY <1>0, <1>p, PlacedIs
  <2> HIDE DEF o
  <2> QED BY <1>k, <2>1, <2>2, <2>3
<1>1. ASSUME NEW side \in {"BUY", "SELL"}, PlaceMarket(side) PROVE KeysHeld'
  <2>1. /\ mem' = Placed("manual", side, mark)
        /\ UNCHANGED <<up, orphan, db, budget>>
    BY <1>1 DEF PlaceMarket, Placed
  <2> QED BY <1>p, <2>1, KeysStay
<1>2. ASSUME NEW side \in {"BUY", "SELL"}, CycleTrades(side) PROVE KeysHeld'
  <2>1. /\ mem' = Placed("cycle", side, mark)
        /\ UNCHANGED <<up, orphan, db, budget>>
    BY <1>2 DEF CycleTrades, Placed
  <2> QED BY <1>p, <2>1, KeysStay
<1>3. ASSUME NEW side \in {"BUY", "SELL"}, NEW p \in Prices, PlaceLimit(side, p) PROVE KeysHeld'
  <2>1. mem' = Rested(side, p) /\ UNCHANGED <<up, orphan, db, budget>>
    BY <1>3 DEF PlaceLimit, Rested
  <2> DEFINE o == NewOrder("manual", side, p)
  <2>2. mem'.orders = mem.orders \cup {o} /\ mem'.seen = mem.seen \cup {count + 1}
        /\ mem'.whole = mem.whole
    BY <2>1, RestedIs
  <2>3. o.id = count + 1
    BY NewOrderTyped
  <2> HIDE DEF o
  <2>4. mem.seen \subseteq mem'.seen /\ \A x \in mem'.orders : x.id \in mem'.seen
    BY <1>k, <2>2, <2>3
  <2> QED BY <2>1, <2>2, <2>4, KeysStay
<1>4. ASSUME NEW p \in Prices, MarkMoves(p) PROVE KeysHeld'
  <2>1. mem' = TriggerAll(mem, p) /\ UNCHANGED <<up, orphan, db, budget>>
    BY <1>4 DEF MarkMoves
  <2>2. mem'.seen = mem.seen /\ SameIds(mem, mem') /\ mem'.whole = mem.whole
    BY <1>0, <2>1, TriggerTyped
  <2>3. \A o \in mem'.orders : o.id \in mem'.seen
    BY <1>k, <2>2 DEF SameIds
  <2> QED BY <2>1, <2>2, <2>3, KeysStay
<1>5. ASSUME NEW written \in BOOLEAN, JournalOrder(written) PROVE KeysHeld'
  <2>1. /\ cycle.pc = "order" /\ budget' = Spent(written) /\ UNCHANGED <<up, mem, orphan>>
        /\ db' = IF written THEN [db EXCEPT !.orders = @ \cup {CycleOrder}] ELSE db
    BY <1>5 DEF JournalOrder
  <2>2. budget'.resets = budget.resets
    BY <2>1, BudgetKept
  <2>3. CASE ~ written
    BY <1>k, <2>1, <2>2, <2>3, KeysStay
  <2>4. CASE written
    <3>1. db'.orders = db.orders \cup {CycleOrder}
      BY <1>0, <2>1, <2>4 DEF Tables
    <3>2. CycleOrder \in CycleLedger.orders /\ CycleOrder \in Orders
      BY <2>1, CycleOrderIs
    <3>3. ListOrders' \subseteq ListOrders \cup {CycleOrder}
      <4>1. db.orders \in FinSets(Orders)
        BY <1>0 DEF Tables
      <4>2. ListOrders' = Newest(db.orders \cup {CycleOrder})
        BY <3>1 DEF ListOrders, Newest
      <4> QED BY <3>2, <4>1, <4>2, NewestAdds DEF ListOrders
    <3>4. mem.whole => CycleOrder \in mem.orders
      BY <3>2 DEF KeysHeld, CycleLedger
    <3> QED BY <1>k, <2>1, <2>2, <3>3, <3>4 DEF KeysHeld, NoReset
  <2> QED BY <2>3, <2>4
<1>6. ASSUME NEW written \in BOOLEAN, JournalFill(written) PROVE KeysHeld'
  <2>1. /\ budget' = Spent(written) /\ UNCHANGED <<up, mem, orphan>> /\ db'.orders = db.orders
    BY <1>0, <1>6 DEF JournalFill, Tables
  <2> QED BY <1>k, <2>1, BudgetKept, KeysStay
<1>7. ASSUME NEW written \in BOOLEAN, RecordManualTrade(written) \/ RecordCycleTrade(written)
      PROVE  KeysHeld'
  <2>1. budget' = Spent(written) /\ UNCHANGED <<up, mem, orphan, db>>
    BY <1>7 DEF RecordManualTrade, RecordCycleTrade
  <2> QED BY <1>k, <2>1, BudgetKept, KeysStay
<1>8. ASSUME NEW written \in BOOLEAN, PersistManual(written) PROVE KeysHeld'
  <2>1. /\ budget' = Spent(written) /\ UNCHANGED <<up, orphan>>
        /\ \/ PersistSession(mem) /\ UNCHANGED mem
           \/ mem' = [mem EXCEPT !.healthy = @ /\ ~ manual.current] /\ UNCHANGED db
    BY <1>8 DEF PersistManual
  <2>2. mem'.orders = mem.orders /\ mem'.seen = mem.seen /\ mem'.whole = mem.whole
    BY <1>0, <2>1 DEF Ledgers
  <2>3. db'.orders = db.orders
    BY <1>0, <2>1, PersistIs
  <2> QED BY <1>k, <2>1, <2>2, <2>3, BudgetKept, KeysStay
<1>9. ASSUME NEW written \in BOOLEAN, PersistCycle(written) PROVE KeysHeld'
  <2> DEFINE row == [Checkpoint(CycleLedger) EXCEPT !.reserved = 0, !.orders = {}]
  <2>1. /\ budget' = Spent(written) /\ orphan' = {} /\ UNCHANGED up
        /\ mem' = [mem EXCEPT !.healthy = @ /\ written /\ CycleInvariants(CycleLedger),
                              !.halted = Drift(mem)]
        /\ \/ UNCHANGED db
           \/ PersistSession(mem)
           \/ db' = [db EXCEPT !.checkpoint = {row}]
    BY <1>9 DEF PersistCycle
  <2>2. mem'.orders = mem.orders /\ mem'.seen = mem.seen /\ mem'.whole = mem.whole
    BY <1>0, <2>1 DEF Ledgers
  <2>3. db'.orders = db.orders
    <3> HIDE DEF row
    <3>1. PersistSession(mem) => db'.orders = db.orders
      BY <1>0, PersistIs
    <3> QED BY <1>0, <2>1, <3>1 DEF Tables
  <2> QED BY <1>k, <2>1, <2>2, <2>3, BudgetKept, KeysStay
<1>10. CASE Reconcile \/ HealthProbe
  <2>1. UNCHANGED <<up, orphan, db, budget>> /\ mem'.orders = mem.orders /\ mem'.seen = mem.seen
        /\ mem'.whole = mem.whole
    BY <1>0, <1>10 DEF Reconcile, HealthProbe, Ledgers
  <2> QED BY <1>k, <2>1, KeysStay
<1>11. CASE PaperReset
  <2>1. budget.resets \in 0..MaxResets /\ MaxResets \in Nat /\ budget'.resets = budget.resets - 1
    BY <1>11, LedgerAssumption DEF PaperReset, Typed
  <2>2. ~ NoReset'
    BY <2>1 DEF NoReset
  <2>3. ~ mem'.whole /\ \A o \in mem'.orders : o.id \in mem'.seen
    BY <1>11 DEF PaperReset, Unloaded, Fresh
  <2> QED BY <2>2, <2>3 DEF KeysHeld
<1>12. CASE Crash
  <2>1. ~ up' /\ orphan' = {} /\ \A o \in mem'.orders : o.id \in mem'.seen
    BY <1>12 DEF Crash, Fresh
  <2> QED BY <2>1 DEF KeysHeld
<1>13. ASSUME NEW readable \in BOOLEAN, NEW reconciled \in BOOLEAN,
              Bootstrap(readable, reconciled)
       PROVE  KeysHeld'
  <2> DEFINE h == HydrateSession(readable)
             d == reconciled => Drift(h)
  <2>1. mem' = [h EXCEPT !.halted = d] /\ UNCHANGED <<orphan, db>> /\ ~ up /\ d \in BOOLEAN
    BY <1>13 DEF Bootstrap
  <2>2. /\ h \in Ledgers /\ h.whole = readable /\ \A o \in h.orders : o.id \in h.seen
        /\ (readable /\ ListOrders # {}) => h.orders = ListOrders
    BY <1>0, HydrateIs
  <2> HIDE DEF h, d
  <2>3. mem'.orders = h.orders /\ mem'.seen = h.seen /\ mem'.whole = readable
    BY <2>1, <2>2 DEF Ledgers
  <2>4. ListOrders' = ListOrders
    BY <2>1 DEF ListOrders, Newest
  <2>5. mem'.whole => \A o \in ListOrders' : o.id \in mem'.seen
    BY <2>2, <2>3, <2>4
  <2>6. \A o \in mem'.orders : o.id \in mem'.seen
    BY <2>2, <2>3
  <2>7. orphan' = {}
    BY <2>1 DEF Typed
  <2> QED BY <2>5, <2>6, <2>7 DEF KeysHeld
<1>15. CASE StartFails
  <2>1. PICK l \in HalfHydrated, halted \in BOOLEAN :
          mem' = [l EXCEPT !.healthy = FALSE, !.halted = halted]
    BY <1>15 DEF StartFails
  <2>2. UNCHANGED <<orphan, db>> /\ ~ up
    BY <1>15 DEF StartFails
  <2>3. /\ l \in Ledgers /\ \A o \in l.orders : o.id \in l.seen
        /\ l.whole => l = HydrateSession(TRUE)
    BY <1>0, HalfHydratedIs
  <2>4. mem'.orders = l.orders /\ mem'.seen = l.seen /\ mem'.whole = l.whole
    BY <2>1, <2>3 DEF Ledgers
  <2>5. ListOrders' = ListOrders
    BY <2>2 DEF ListOrders, Newest
  <2>6. l.whole => (ListOrders # {} => l.orders = ListOrders)
    BY <1>0, <2>3, HydrateIs
  <2>7. mem'.whole => \A o \in ListOrders' : o.id \in mem'.seen
    BY <2>3, <2>4, <2>5, <2>6
  <2>8. orphan' = {}
    BY <2>2 DEF Typed
  <2> QED BY <2>3, <2>4, <2>7, <2>8 DEF KeysHeld
<1>14. CASE UNCHANGED vars
  <2>1. UNCHANGED <<up, mem, orphan, db, budget>>
    BY <1>14 DEF vars
  <2> QED BY <1>k, <2>1, KeysStay
<1> QED BY <1>1, <1>2, <1>3, <1>4, <1>5, <1>6, <1>7, <1>8, <1>9, <1>10, <1>11, <1>12,
           <1>13, <1>14, <1>15 DEF Next

\* Whichever keys the cap drops, whatever write fails and whenever the process
\* crashes: a session that was put together from the journal knows the key of every
\* order among its newest rows, and does not submit it again.
THEOREM KeysAlwaysSurvive == Spec => []KeysSurvive
<1>1. Typed /\ KeysHeld => KeysSurvive
  BY DEF KeysHeld, KeysSurvive
<1> QED BY <1>1, TypedBegins, TypedKept, KeysBegin, KeysKeptOn, PTL DEF Spec

---------------------------------------------------------------------------
(* The sums of a ledger *)

HoldTable == [o \in Orders |-> Holds(o)]
AmountTable == [f \in Fills |-> Amount(f)]

LEMMA TermsAreInts ==
  /\ \A o \in Orders : HoldTable[o] = Notional(o.price) /\ HoldTable[o] \in Int
  /\ \A f \in Fills : AmountTable[f] = Amount(f) /\ AmountTable[f] \in Int
<1>1. ASSUME NEW o \in Orders PROVE HoldTable[o] = Notional(o.price) /\ HoldTable[o] \in Int
  <2>1. o.price \in Prices
    BY DEF Orders
  <2>2. Notional(o.price) \in Int
    BY <2>1, Costs
  <2> QED BY <2>2 DEF HoldTable, Holds
<1>2. ASSUME NEW f \in Fills PROVE AmountTable[f] = Amount(f) /\ AmountTable[f] \in Int
  <2>1. f.price \in Prices
    BY DEF Fills
  <2>2. Cost(f.price) \in Nat /\ Notional(f.price) \in Nat /\ Fee(f.price) \in Nat
    BY <2>1, Costs
  <2>3. Amount(f) \in Int
    BY <2>2 DEF Amount
  <2> QED BY <2>3 DEF AmountTable
<1> QED BY <1>1, <1>2

\* The model's sums are sums of these tables.
LEMMA HoldsIs ==
  ASSUME NEW S \in FinSets(Orders)
  PROVE  MapThenSumSet(Holds, S) = SetSum(HoldTable, S)
<1> DEFINE Eqn(it) == it = [T \in SUBSET S |->
                              IF T = {} THEN 0 ELSE Holds(Chosen(T)) + it[T \ {Chosen(T)}]]
           it == CHOOSE x : Eqn(x)
<1>0. IsFiniteSet(S) /\ S \in SUBSET Orders
  BY DEF FinSets
<1>1. MapThenSumSet(Holds, S) = it[S]
  BY DEF MapThenSumSet, MapThenFoldSet, Chosen
<1>2. \A T \in SUBSET S :
        T # {} => HoldTable[Chosen(T)] = Holds(Chosen(T)) /\ T \ {Chosen(T)} \in SUBSET S
  BY <1>0, ChosenLeaves DEF HoldTable
<1>3. \E x : Eqn(x)
  <2>1. PICK jt : IsSetSum(jt, HoldTable, S)
    BY <1>0, SetSumExists
  <2> DEFINE x == [T \in SUBSET S |-> jt[T]]
  <2>2. \A T \in SUBSET S : x[T] = IF T = {} THEN 0 ELSE Holds(Chosen(T)) + x[T \ {Chosen(T)}]
    BY <1>2, <2>1 DEF IsSetSum
  <2>3. Eqn(x)
    BY <2>2, Zenon
  <2> QED BY <2>3
<1>4. Eqn(it)
  BY <1>3, Zenon
<1>5. IsSetSum(it, HoldTable, S)
  <2> HIDE DEF it
  <2> QED BY <1>2, <1>4 DEF IsSetSum
<1>6. S \in SUBSET S
  OBVIOUS
<1> HIDE DEF it
<1> QED BY <1>0, <1>1, <1>5, <1>6, SetSumIs

LEMMA AmountsAre ==
  ASSUME NEW S \in FinSets(Fills)
  PROVE  MapThenSumSet(Amount, S) = SetSum(AmountTable, S)
<1> DEFINE Eqn(it) == it = [T \in SUBSET S |->
                              IF T = {} THEN 0 ELSE Amount(Chosen(T)) + it[T \ {Chosen(T)}]]
           it == CHOOSE x : Eqn(x)
<1>0. IsFiniteSet(S) /\ S \in SUBSET Fills
  BY DEF FinSets
<1>1. MapThenSumSet(Amount, S) = it[S]
  BY DEF MapThenSumSet, MapThenFoldSet, Chosen
<1>2. \A T \in SUBSET S :
        T # {} => AmountTable[Chosen(T)] = Amount(Chosen(T)) /\ T \ {Chosen(T)} \in SUBSET S
  BY <1>0, ChosenLeaves DEF AmountTable
<1>3. \E x : Eqn(x)
  <2>1. PICK jt : IsSetSum(jt, AmountTable, S)
    BY <1>0, SetSumExists
  <2> DEFINE x == [T \in SUBSET S |-> jt[T]]
  <2>2. \A T \in SUBSET S : x[T] = IF T = {} THEN 0 ELSE Amount(Chosen(T)) + x[T \ {Chosen(T)}]
    BY <1>2, <2>1 DEF IsSetSum
  <2>3. Eqn(x)
    BY <2>2, Zenon
  <2> QED BY <2>3
<1>4. Eqn(it)
  BY <1>3, Zenon
<1>5. IsSetSum(it, AmountTable, S)
  <2> HIDE DEF it
  <2> QED BY <1>2, <1>4 DEF IsSetSum
<1>6. S \in SUBSET S
  OBVIOUS
<1> HIDE DEF it
<1> QED BY <1>0, <1>1, <1>5, <1>6, SetSumIs

---------------------------------------------------------------------------
(* A ledger whose reservations and fills explain it *)

OpenBuys(l) == {o \in Open(l) : o.side = "BUY"}

\* Ids are given out once: those of open orders are different, no fill has one of
\* them, and a cycle's order never rests.
Shaped(l, n) ==
  /\ \A o \in l.orders : o.id <= n
  /\ \A f \in l.fills : f.id <= n
  /\ \A o, p \in Open(l) : o.id = p.id => o = p
  /\ \A o \in Open(l), f \in l.fills : o.id # f.id
  /\ \A o \in Open(l) : o.source # "cycle"

\* The reserved cash belongs to open BUYs.
Backed(l) == l.reserved = MapThenSumSet(Holds, OpenBuys(l))

\* The fills explain the cash.
Balanced(l) == l.cash + l.reserved = Reconstructed(l)

CycleFills(l) == {f \in l.fills : f.source = "cycle"}

\* The order x is a cycle's, and done.
Owned(l, x) ==
  /\ \A o \in l.orders : o.id = x => o.source = "cycle" /\ o.status # "SUBMITTED"
  /\ \A f \in l.fills : f.id = x => f.source = "cycle"

\* An order has failed and left its fill.
Failed(l) == \E o \in l.orders : o.status = "FAILED"

\* The reservations when the open BUYs are S or S and one more.
LEMMA HoldsAdd ==
  ASSUME NEW S \in FinSets(Orders), NEW o \in Orders, o \notin S
  PROVE  /\ MapThenSumSet(Holds, S) \in Int
         /\ MapThenSumSet(Holds, S \cup {o}) = MapThenSumSet(Holds, S) + Notional(o.price)
<1>1. IsFiniteSet(S) /\ S \cup {o} \in FinSets(Orders) /\ S \subseteq Orders
  BY FinAdd DEF FinSets
<1>2. \A x \in S \cup {o} : HoldTable[x] \in Int
  BY <1>1, TermsAreInts
<1>3. SetSum(HoldTable, S \cup {o}) = SetSum(HoldTable, S) + HoldTable[o]
  BY <1>1, <1>2, SetSumAdd
<1>4. SetSum(HoldTable, S) \in Int
  BY <1>1, <1>2, SetSumInt
<1> QED BY <1>1, <1>3, <1>4, HoldsIs, TermsAreInts

LEMMA AmountsAdd ==
  ASSUME NEW S \in FinSets(Fills), NEW f \in Fills, f \notin S
  PROVE  /\ MapThenSumSet(Amount, S) \in Int /\ Amount(f) \in Int
         /\ MapThenSumSet(Amount, S \cup {f}) = MapThenSumSet(Amount, S) + Amount(f)
<1>1. IsFiniteSet(S) /\ S \cup {f} \in FinSets(Fills) /\ S \subseteq Fills
  BY FinAdd DEF FinSets
<1>2. \A x \in S \cup {f} : AmountTable[x] \in Int
  BY <1>1, TermsAreInts
<1>3. SetSum(AmountTable, S \cup {f}) = SetSum(AmountTable, S) + AmountTable[f]
  BY <1>1, <1>2, SetSumAdd
<1>4. SetSum(AmountTable, S) \in Int
  BY <1>1, <1>2, SetSumInt
<1> QED BY <1>1, <1>3, <1>4, AmountsAre, TermsAreInts

\* The predicates read four fields of a ledger or a checkpoint.
SameBooks(l, r) ==
  r.cash = l.cash /\ r.reserved = l.reserved /\ r.orders = l.orders /\ r.fills = l.fills

LEMMA BooksCopied ==
  ASSUME NEW l, NEW r, SameBooks(l, r)
  PROVE  /\ \A n : Shaped(l, n) => Shaped(r, n)
         /\ Backed(l) => Backed(r)
         /\ Balanced(l) => Balanced(r)
         /\ CycleFills(r) = CycleFills(l)
         /\ \A x : Owned(l, x) => Owned(r, x)
<1>1. Open(r) = Open(l)
  BY DEF Open, SameBooks
<1>2. Backed(l) => Backed(r)
  <2>1. OpenBuys(r) = OpenBuys(l)
    BY <1>1 DEF OpenBuys
  <2> QED BY <2>1 DEF Backed, SameBooks
<1>3. Balanced(l) => Balanced(r)
  BY DEF Balanced, Reconstructed, SameBooks
<1> QED BY <1>1, <1>2, <1>3 DEF Shaped, CycleFills, Owned, SameBooks

\* The ids given out later are different.
LEMMA LaterIds ==
  ASSUME NEW n \in Nat, NEW m \in Nat, n <= m, NEW l \in Ledgers \cup Checkpoints, Shaped(l, n)
  PROVE  Shaped(l, m)
<1>1. l.orders \subseteq Orders /\ l.fills \subseteq Fills
  BY DEF Ledgers, Checkpoints, FinSets
<1>2. (\A o \in l.orders : o.id \in Nat) /\ (\A f \in l.fills : f.id \in Nat)
  BY <1>1 DEF Orders, Fills
<1> QED BY <1>2 DEF Shaped

\* A new session has neither orders nor fills.
LEMMA FreshBooks ==
  ASSUME NEW n \in Nat
  PROVE  SameBooks(Fresh, Unloaded) /\ Shaped(Fresh, n) /\ Backed(Fresh) /\ Balanced(Fresh) /\ CycleFills(Fresh) = {}
         /\ \A x : Owned(Fresh, x)
<1>1. {} \in FinSets(Orders) /\ {} \in FinSets(Fills) /\ IsFiniteSet({})
  BY FS_EmptySet DEF FinSets
<1>2. MapThenSumSet(Holds, {}) = 0 /\ MapThenSumSet(Amount, {}) = 0
  BY <1>1, HoldsIs, AmountsAre, SetSumStep
<1>3. Fresh.orders = {} /\ Fresh.fills = {} /\ Fresh.reserved = 0 /\ Fresh.cash = InitialCash * Unit
  BY DEF Fresh
<1>4. Open(Fresh) = {} /\ OpenBuys(Fresh) = {}
  BY <1>3 DEF Open, OpenBuys
<1>5. Backed(Fresh)
  BY <1>2, <1>3, <1>4 DEF Backed
<1>6. Balanced(Fresh)
  <2>1. InitialCash * Unit \in Int
    BY LedgerAssumption
  <2> QED BY <1>2, <1>3, <2>1 DEF Balanced, Reconstructed
<1>7. SameBooks(Fresh, Unloaded)
  BY DEF SameBooks, Unloaded, Fresh
<1> QED BY <1>3, <1>7, <1>4, <1>5, <1>6 DEF Shaped, CycleFills, Owned

\* What a ledger keeps when its resting orders fire: its shape, its reservations,
\* what the cycles did, and, unless a sell is left without a position, its balance.
Advances(l, r, n) ==
  /\ Shaped(r, n)
  /\ Backed(l) => Backed(r)
  /\ CycleFills(r) = CycleFills(l)
  /\ \A x \in Nat : Owned(l, x) => Owned(r, x)
  /\ Failed(l) => Failed(r)
  /\ (Balanced(l) /\ ~ Failed(r)) => Balanced(r)

LEMMA OpenParts ==
  ASSUME NEW l \in Ledgers
  PROVE  Open(l) \in FinSets(Orders) /\ OpenBuys(l) \in FinSets(Orders)
         /\ l.orders \subseteq Orders /\ l.fills \in FinSets(Fills) /\ l.fills \subseteq Fills
         /\ l.cash \in Int /\ l.reserved \in Int
<1>1. l.orders \in FinSets(Orders) /\ l.fills \in FinSets(Fills) /\ l.cash \in Int /\ l.reserved \in Int
  BY DEF Ledgers
<1>2. Open(l) \in SUBSET l.orders /\ OpenBuys(l) \in SUBSET l.orders
  BY DEF Open, OpenBuys
<1> QED BY <1>1, <1>2, FinPart DEF FinSets

\* The cash moves with the fills.
LEMMA BalancedMoves ==
  ASSUME NEW l \in Ledgers, NEW r, NEW x \in Int, MapThenSumSet(Amount, l.fills) \in Int,
         Balanced(l), r.cash + r.reserved = l.cash + l.reserved + x,
         MapThenSumSet(Amount, r.fills) = MapThenSumSet(Amount, l.fills) + x
  PROVE  Balanced(r)
<1> DEFINE start == InitialCash * Unit
           A == MapThenSumSet(Amount, l.fills)
           B == MapThenSumSet(Amount, r.fills)
<1>1. start \in Int
  BY LedgerAssumption
<1>2. l.cash + l.reserved = start + A
  BY DEF Balanced, Reconstructed
<1>3. A \in Int /\ B = A + x
  OBVIOUS
<1> HIDE DEF start, A, B
<1>4. start + B = start + A + x
  BY <1>1, <1>3
<1>5. r.cash + r.reserved = start + B
  BY <1>2, <1>4
<1> QED BY <1>5 DEF Balanced, Reconstructed, start, B

LEMMA FiredBooks ==
  ASSUME NEW l \in Ledgers, NEW n, Shaped(l, n), NEW o \in Open(l)
  PROVE  Advances(l, Fired(l, o), n)
<1> DEFINE r == Fired(l, o)
           f == FillOf(o, o.price)
<1>1. o \in l.orders /\ o.status = "SUBMITTED" /\ o \in Orders
  BY OpenParts DEF Open
<1>2. f \in Fills /\ f.id = o.id /\ f.source = o.source
  BY <1>1 DEF FillOf, Fills, Orders
<1> HIDE DEF f
<1>3. r \in Ledgers /\ r.reserved = l.reserved - HeldBack(o) /\ r.fills = l.fills \cup {f}
  BY <1>1, FiredIs DEF f
<1>4. PICK st \in {"FILLED", "FAILED"} :
        /\ r.orders = (l.orders \ {o}) \cup {Done(o, st)}
        /\ st = "FILLED" => r.cash + r.reserved = l.cash + l.reserved + Amount(f)
  BY <1>1, FiredIs DEF f
<1> HIDE DEF r
<1> DEFINE d == Done(o, st)
<1>5. d.id = o.id /\ d.status = st /\ d.source = o.source
  BY <1>1 DEF Done, Orders
<1> HIDE DEF d
<1>6. r.orders = (l.orders \ {o}) \cup {d} /\ d \notin Open(r) /\ Open(r) = Open(l) \ {o}
  BY <1>4, <1>5 DEF Open, d
<1>7. f \notin l.fills /\ o.source # "cycle"
  BY <1>2 DEF Shaped
<1>8. Shaped(r, n)
  <2>1. \A x \in r.orders : x.id <= n
    BY <1>1, <1>5, <1>6 DEF Shaped
  <2>2. \A x \in r.fills : x.id <= n
    BY <1>1, <1>2, <1>3 DEF Shaped
  <2>3. \A x \in Open(r), y \in r.fills : x.id # y.id
    BY <1>2, <1>3, <1>6 DEF Shaped
  <2>4. (\A x, y \in Open(r) : x.id = y.id => x = y) /\ \A x \in Open(r) : x.source # "cycle"
    BY <1>6 DEF Shaped
  <2> QED BY <2>1, <2>2, <2>3, <2>4 DEF Shaped
<1>9. ASSUME Backed(l) PROVE Backed(r)
  <2>1. OpenBuys(r) = OpenBuys(l) \ {o} /\ OpenBuys(r) \in FinSets(Orders)
    BY <1>3, <1>6, OpenParts DEF OpenBuys
  <2>2. CASE o.side = "BUY"
    <3>1. OpenBuys(l) = OpenBuys(r) \cup {o} /\ o \notin OpenBuys(r)
      BY <2>1, <2>2 DEF OpenBuys
    <3>2. /\ MapThenSumSet(Holds, OpenBuys(r)) \in Int
          /\ MapThenSumSet(Holds, OpenBuys(l)) = MapThenSumSet(Holds, OpenBuys(r)) + Notional(o.price)
      BY <1>1, <2>1, <3>1, HoldsAdd
    <3>3. Notional(o.price) \in Int /\ HeldBack(o) = Notional(o.price)
      BY <1>1, <2>2, Costs DEF HeldBack, Orders
    <3> QED BY <1>3, <1>9, <3>2, <3>3 DEF Backed
  <2>3. CASE o.side # "BUY"
    <3>1. OpenBuys(r) = OpenBuys(l) /\ HeldBack(o) = 0
      BY <2>1, <2>3 DEF OpenBuys, HeldBack
    <3>2. r.reserved = l.reserved
      BY <1>3, <3>1, OpenParts
    <3> QED BY <1>9, <3>1, <3>2 DEF Backed
  <2> QED BY <2>2, <2>3
<1>10. CycleFills(r) = CycleFills(l)
  BY <1>2, <1>3, <1>7 DEF CycleFills
<1>11. \A x \in Nat : Owned(l, x) => Owned(r, x)
  BY <1>1, <1>2, <1>3, <1>5, <1>6 DEF Owned
<1>12. Failed(l) => Failed(r)
  BY <1>1, <1>6 DEF Failed
<1>13. ASSUME Balanced(l), ~ Failed(r) PROVE Balanced(r)
  <2>1. st = "FILLED"
    BY <1>5, <1>6, <1>13 DEF Failed
  <2>2. /\ MapThenSumSet(Amount, l.fills) \in Int /\ Amount(f) \in Int
        /\ MapThenSumSet(Amount, r.fills) = MapThenSumSet(Amount, l.fills) + Amount(f)
    BY <1>2, <1>3, <1>7, OpenParts, AmountsAdd
  <2> QED BY <1>4, <1>13, <2>1, <2>2, OpenParts, BalancedMoves
<1> QED BY <1>8, <1>9, <1>10, <1>11, <1>12, <1>13 DEF Advances, r

\* By induction over the run.
LEMMA RunBooks ==
  ASSUME NEW l \in Ledgers, NEW due \in SUBSET Open(l), NEW n \in Nat, NEW a, IsRun(a, l, due, n),
         NEW m, Shaped(l, m)
  PROVE  \A k \in 0..n : Advances(l, a[k], m)
<1> DEFINE Bad == {k \in 0..n : ~ Advances(l, a[k], m)}
<1>1. Advances(l, a[0], m)
  BY DEF IsRun, Advances
<1>2. ASSUME NEW k \in 1..n, Advances(l, a[k - 1], m) PROVE Advances(l, a[k], m)
  <2> DEFINE now == {o \in due : o.id = k}
             b == a[k - 1]
  <2>1. a[k] = FireDue(b, now)
    BY DEF IsRun
  <2>2. b \in Ledgers /\ \A o \in due : o.id > k - 1 => o \in b.orders
    <3>1. k - 1 \in 0..n
      OBVIOUS
    <3> QED BY <3>1, RunTyped
  <2>3. Advances(l, b, m)
    BY <1>2
  <2> HIDE DEF b
  <2>4. CASE now = {}
    BY <2>1, <2>3, <2>4 DEF FireDue
  <2>5. CASE now # {}
    <3> DEFINE o == CHOOSE o \in now : TRUE
    <3>1. o \in now /\ a[k] = Fired(b, o)
      BY <2>1, <2>5 DEF FireDue
    <3> HIDE DEF o
    <3>2. o \in b.orders /\ o.status = "SUBMITTED"
      <4>1. o \in due /\ o.id = k /\ k > k - 1
        BY <3>1
      <4> QED BY <2>2, <4>1 DEF Open
    <3>3. o \in Open(b) /\ Shaped(b, m)
      BY <2>3, <3>2 DEF Open, Advances
    <3>4. Advances(b, a[k], m)
      BY <2>2, <3>1, <3>3, FiredBooks
    <3> QED BY <2>3, <3>4 DEF Advances
  <2> QED BY <2>4, <2>5
<1>3. Bad = {}
  <2> SUFFICES ASSUME Bad # {} PROVE FALSE
    OBVIOUS
  <2>1. PICK k \in Bad : \A y \in Bad : k <= y
    <3>1. Bad \in SUBSET Nat
      OBVIOUS
    <3> HIDE DEF Bad
    <3> QED BY <3>1, LeastNat
  <2>2. k \in 0..n /\ ~ Advances(l, a[k], m)
    OBVIOUS
  <2>3. k \in 1..n /\ k - 1 \in 0..n /\ ~ (k <= k - 1)
    BY <1>1, <2>2
  <2>4. Advances(l, a[k - 1], m)
    BY <2>1, <2>3
  <2> QED BY <1>2, <2>2, <2>3, <2>4
<1> QED BY <1>3

LEMMA TriggerBooks ==
  ASSUME NEW l \in Ledgers, NEW m, count \in Nat, Shaped(l, count)
  PROVE  Advances(l, TriggerAll(l, m), count)
<1>1. PICK a : IsRun(a, l, Triggered(l, m), count) /\ TriggerAll(l, m) = a[count]
  BY TriggerAllIs
<1> DEFINE due == Triggered(l, m)
<1>2. due \in SUBSET Open(l) /\ count \in 0..count
  BY DEF Triggered
<1> HIDE DEF due
<1>3. IsRun(a, l, due, count)
  BY <1>1 DEF due
<1> QED BY <1>1, <1>2, <1>3, RunBooks

\* What a new order with the id n + 1 changes of what the ledger knew.
Extends(l, r, n) ==
  /\ Shaped(r, n + 1)
  /\ Backed(l) => Backed(r)
  /\ \A x \in 0..n : Owned(l, x) => Owned(r, x)
  /\ (Balanced(l) /\ ~ Failed(r)) => Balanced(r)

LEMMA NewIds ==
  ASSUME NEW l \in Ledgers, NEW n \in Nat, Shaped(l, n)
  PROVE  /\ \A o \in l.orders : o.id \in Nat /\ o.id <= n /\ o.id # n + 1
         /\ \A f \in l.fills : f.id \in Nat /\ f.id <= n /\ f.id # n + 1
<1>1. (\A o \in l.orders : o.id \in Nat) /\ (\A f \in l.fills : f.id \in Nat)
  BY OpenParts DEF Orders, Fills
<1> QED BY <1>1 DEF Shaped

\* An order that is filled at once leaves the open orders as they were.
LEMMA PlacedBooks ==
  ASSUME Typed, NEW source \in {"manual", "cycle"}, NEW side \in {"BUY", "SELL"}, NEW p \in Prices,
         Shaped(mem, count)
  PROVE  LET r == Placed(source, side, p)
         IN  /\ Extends(mem, r, count)
             /\ source = "manual" => CycleFills(r) = CycleFills(mem)
             /\ source = "cycle" => /\ Owned(r, count + 1)
                                    /\ \E f : /\ f.id = count + 1
                                              /\ CycleFills(r) = CycleFills(mem) \cup {f}
<1> DEFINE o == NewOrder(source, side, p)
           f == FillOf(o, p)
           r == Placed(source, side, p)
<1>0. mem \in Ledgers /\ count \in Nat
  BY DEF Typed
<1>1. o \in Orders /\ o.id = count + 1 /\ o.source = source
  BY NewOrderTyped
<1>p. PICK st \in {"FILLED", "FAILED"} :
        /\ r.orders = ((mem.orders \cup {o}) \ {o}) \cup {Done(o, st)}
        /\ st = "FILLED" => r.cash = mem.cash + Amount(f)
  BY PlacedIs
<1>q. r \in Ledgers /\ r.reserved = mem.reserved /\ r.fills = mem.fills \cup {f}
  BY PlacedIs
<1> HIDE DEF o
<1> DEFINE d == Done(o, st)
<1>2. f \in Fills /\ f.id = count + 1 /\ f.source = source
      /\ d.id = count + 1 /\ d.source = source /\ d.status = st
  BY <1>1 DEF FillOf, Fills, Orders, Done
<1>3. /\ r \in Ledgers /\ r.reserved = mem.reserved /\ r.fills = mem.fills \cup {f}
      /\ r.orders = ((mem.orders \cup {o}) \ {o}) \cup {d}
      /\ st = "FILLED" => r.cash = mem.cash + Amount(f)
  BY <1>p, <1>q
<1> HIDE DEF r, f, d
<1>4. /\ \A x \in mem.orders : x.id \in Nat /\ x.id <= count /\ x.id # count + 1
      /\ \A x \in mem.fills : x.id \in Nat /\ x.id <= count /\ x.id # count + 1
  BY <1>0, NewIds
<1>5. r.orders = mem.orders \cup {d} /\ f \notin mem.fills
  BY <1>1, <1>2, <1>3, <1>4
<1>6. Open(r) = Open(mem)
  BY <1>2, <1>5 DEF Open
<1>7. Shaped(r, count + 1)
  <2>1. \A x \in r.orders : x.id <= count + 1
    BY <1>0, <1>2, <1>4, <1>5
  <2>2. \A x \in r.fills : x.id <= count + 1
    BY <1>0, <1>2, <1>3, <1>4
  <2>3. \A x \in Open(mem) : x \in mem.orders
    BY DEF Open
  <2>4. \A x \in Open(r), y \in r.fills : x.id # y.id
    BY <1>2, <1>3, <1>4, <1>6, <2>3 DEF Shaped
  <2>5. (\A x, y \in Open(r) : x.id = y.id => x = y) /\ \A x \in Open(r) : x.source # "cycle"
    BY <1>6 DEF Shaped
  <2> QED BY <2>1, <2>2, <2>4, <2>5 DEF Shaped
<1>8. Backed(mem) => Backed(r)
  BY <1>3, <1>6 DEF Backed, OpenBuys
<1>9. \A x \in 0..count : Owned(mem, x) => Owned(r, x)
  <2>1. \A x \in 0..count : x # count + 1
    BY <1>0
  <2> QED BY <1>2, <1>3, <1>5, <2>1 DEF Owned
<1>10. ASSUME Balanced(mem), ~ Failed(r) PROVE Balanced(r)
  <2>f. st = "FILLED"
    BY <1>2, <1>5, <1>10 DEF Failed
  <2>1. /\ MapThenSumSet(Amount, mem.fills) \in Int /\ Amount(f) \in Int
        /\ MapThenSumSet(Amount, r.fills) = MapThenSumSet(Amount, mem.fills) + Amount(f)
    BY <1>0, <1>2, <1>3, <1>5, OpenParts, AmountsAdd
  <2>2. r.cash + r.reserved = mem.cash + mem.reserved + Amount(f)
    <3>1. mem.cash \in Int /\ mem.reserved \in Int
      BY <1>0, OpenParts
    <3> QED BY <1>3, <2>1, <2>f, <3>1
  <2> QED BY <1>0, <1>10, <2>1, <2>2, BalancedMoves
<1>11. Extends(mem, r, count)
  BY <1>7, <1>8, <1>9, <1>10 DEF Extends
<1>12. source = "manual" => CycleFills(r) = CycleFills(mem)
  BY <1>2, <1>3 DEF CycleFills
<1>13. ASSUME source = "cycle"
       PROVE  Owned(r, count + 1) /\ f.id = count + 1 /\ CycleFills(r) = CycleFills(mem) \cup {f}
  <2>1. Owned(r, count + 1)
    BY <1>2, <1>3, <1>4, <1>5, <1>13 DEF Owned
  <2>2. CycleFills(r) = CycleFills(mem) \cup {f}
    BY <1>2, <1>3, <1>13 DEF CycleFills
  <2> QED BY <1>2, <2>1, <2>2
<1> QED BY <1>11, <1>12, <1>13 DEF r

\* An order that rests holds back its cost and moves nothing else.
LEMMA RestedBooks ==
  ASSUME Typed, NEW side \in {"BUY", "SELL"}, NEW p \in Prices, Shaped(mem, count)
  PROVE  Extends(mem, Rested(side, p), count) /\ CycleFills(Rested(side, p)) = CycleFills(mem)
<1> DEFINE o == NewOrder("manual", side, p)
           r == Rested(side, p)
<1>0. mem \in Ledgers /\ count \in Nat
  BY DEF Typed
<1>1. o \in Orders /\ o.id = count + 1 /\ o.source = "manual" /\ o.side = side /\ o.price = p
      /\ o.status = "SUBMITTED"
  BY NewOrderTyped
<1>2. /\ r \in Ledgers /\ r.reserved = mem.reserved + HeldBack(o)
      /\ r.fills = mem.fills /\ r.orders = mem.orders \cup {o}
      /\ r.cash = mem.cash - HeldBack(o)
  BY RestedIs
<1> HIDE DEF r, o
<1>3. HeldBack(o) \in Int /\ mem.cash \in Int /\ mem.reserved \in Int /\ Notional(p) \in Int
  BY <1>0, <1>1, OpenParts, Costs DEF HeldBack
<1>4. /\ \A x \in mem.orders : x.id \in Nat /\ x.id <= count /\ x.id # count + 1
      /\ \A x \in mem.fills : x.id \in Nat /\ x.id <= count /\ x.id # count + 1
  BY <1>0, NewIds
<1>5. o \notin mem.orders /\ Open(r) = Open(mem) \cup {o} /\ \A x \in Open(mem) : x \in mem.orders
  BY <1>1, <1>2, <1>4 DEF Open
<1>6. Shaped(r, count + 1)
  <2>1. \A x \in r.orders : x.id <= count + 1
    BY <1>0, <1>1, <1>2, <1>4
  <2>2. \A x \in r.fills : x.id <= count + 1
    BY <1>0, <1>2, <1>4
  <2>3. \A x \in Open(r), y \in r.fills : x.id # y.id
    BY <1>1, <1>2, <1>4, <1>5 DEF Shaped
  <2>4. \A x, y \in Open(r) : x.id = y.id => x = y
    BY <1>1, <1>4, <1>5 DEF Shaped
  <2>5. \A x \in Open(r) : x.source # "cycle"
    BY <1>1, <1>5 DEF Shaped
  <2> QED BY <2>1, <2>2, <2>3, <2>4, <2>5 DEF Shaped
<1>7. ASSUME Backed(mem) PROVE Backed(r)
  <2>1. CASE side = "BUY"
    <3>1. OpenBuys(r) = OpenBuys(mem) \cup {o} /\ o \notin OpenBuys(mem)
      BY <1>1, <1>5, <2>1 DEF OpenBuys
    <3>2. /\ MapThenSumSet(Holds, OpenBuys(mem)) \in Int
          /\ MapThenSumSet(Holds, OpenBuys(r)) = MapThenSumSet(Holds, OpenBuys(mem)) + Notional(p)
      BY <1>0, <1>1, <3>1, OpenParts, HoldsAdd
    <3>3. HeldBack(o) = Notional(p)
      BY <1>1, <2>1 DEF HeldBack
    <3> QED BY <1>2, <1>7, <3>2, <3>3 DEF Backed
  <2>2. CASE side # "BUY"
    <3>1. OpenBuys(r) = OpenBuys(mem) /\ HeldBack(o) = 0
      BY <1>1, <1>5, <2>2 DEF OpenBuys, HeldBack
    <3>2. r.reserved = mem.reserved
      BY <1>2, <1>3, <3>1
    <3> QED BY <1>7, <3>1, <3>2 DEF Backed
  <2> QED BY <2>1, <2>2
<1>8. \A x \in 0..count : Owned(mem, x) => Owned(r, x)
  <2>1. \A x \in 0..count : x # count + 1
    BY <1>0
  <2> QED BY <1>1, <1>2, <2>1 DEF Owned
<1>9. Balanced(mem) => Balanced(r)
  <2>1. r.cash + r.reserved = mem.cash + mem.reserved
    BY <1>2, <1>3
  <2> QED BY <1>2, <2>1 DEF Balanced, Reconstructed
<1>10. CycleFills(r) = CycleFills(mem)
  BY <1>2 DEF CycleFills
<1> QED BY <1>6, <1>7, <1>8, <1>9, <1>10 DEF Extends, r

LEMMA RestedBalanced ==
  ASSUME Typed, NEW side \in {"BUY", "SELL"}, NEW p \in Prices, Balanced(mem)
  PROVE  Balanced(Rested(side, p))
<1> DEFINE o == NewOrder("manual", side, p)
           r == Rested(side, p)
<1>1. o \in Orders /\ o.price = p /\ mem \in Ledgers
  BY NewOrderTyped DEF Typed
<1>2. r.reserved = mem.reserved + HeldBack(o) /\ r.fills = mem.fills /\ r.cash = mem.cash - HeldBack(o)
  BY RestedIs
<1> HIDE DEF r, o
<1>3. HeldBack(o) \in Int /\ mem.cash \in Int /\ mem.reserved \in Int
  BY <1>1, OpenParts, Costs DEF HeldBack
<1>4. r.cash + r.reserved = mem.cash + mem.reserved
  BY <1>2, <1>3
<1> QED BY <1>2, <1>4 DEF Balanced, Reconstructed, r

---------------------------------------------------------------------------
(* The records agree *)

\* What separates the records for good; a fill left by a failed order only
\* unbalances the cash, and a reconciliation that raised halts all the same.
Cut == {"torn cycle", "row lost", "persist failed", "dropped", "truncated", "reset",
        "failed start"}
Whole == causes \cap Cut = {}
Sound == Whole /\ "phantom" \notin causes /\ "unreconciled" \notin causes

Fit(l, n, sound) == Shaped(l, n) /\ Backed(l) /\ (sound => Balanced(l))

\* The journal knows cycles alone, and a fill never without an order.
Rows ==
  /\ \A o \in db.orders : o.id <= count /\ o.source = "cycle" /\ o.status # "SUBMITTED"
  /\ db.fills # {} => db.orders # {}

\* What memory and the journal know of the cycles is the same, but for the order
\* under way.
Journalled ==
  /\ db.fills \subseteq CycleFills(mem)
  /\ \A f \in CycleFills(mem) :
       f \in db.fills \/ (cycle.pc \in {"order", "fill"} /\ f.id = cycle.order)
  /\ cycle # Idle => Owned(mem, cycle.order)
  /\ cycle.pc = "fill" => db.orders # {}

\* The checkpoint is a ledger of its own, and between cycles it knows the same
\* fills of theirs as the journal.
Checkpointed ==
  /\ \A c \in db.checkpoint : /\ Fit(c, count, Sound)
                              /\ cycle = Idle => CycleFills(c) = db.fills
  /\ (cycle = Idle /\ db.checkpoint = {}) => db.fills = {}

RecordsAgree ==
  Whole => /\ Fit(mem, count, Sound)
           /\ Sound => ~ mem.halted
           /\ NoReset => Rows /\ (up => Journalled) /\ Checkpointed

LEMMA RecordsBegin == Init => RecordsAgree
<1> SUFFICES ASSUME Init PROVE RecordsAgree
  OBVIOUS
<1>1. mem = Fresh /\ count \in Nat /\ ~ mem.halted
  BY DEF Init, Fresh
<1>2. Fit(mem, count, Sound) /\ CycleFills(mem) = {}
  BY <1>1, FreshBooks DEF Fit
<1>3. db.orders = {} /\ db.fills = {} /\ db.checkpoint = {} /\ cycle = Idle /\ cycle.pc # "fill"
  BY DEF Init, Idle
<1>4. Rows /\ Journalled /\ Checkpointed
  BY <1>2, <1>3 DEF Rows, Journalled, Checkpointed
<1> QED BY <1>1, <1>2, <1>4 DEF RecordsAgree

LEMMA CausesGrow ==
  ASSUME [Next]_vars
  PROVE  causes \subseteq causes' /\ (Whole' => Whole) /\ (Sound' => Sound)
<1>1. causes \subseteq causes'
  BY DEF Next, PlaceMarket, CycleTrades, PlaceLimit, MarkMoves, JournalOrder, JournalFill,
         RecordManualTrade, RecordCycleTrade, PersistManual, PersistCycle, Reconcile, HealthProbe,
         PaperReset, Crash, Bootstrap, StartFails, vars
<1> QED BY <1>1 DEF Whole, Sound, Cut

\* Cash that the fills explain does not drift.
LEMMA NoDrift ==
  ASSUME NEW l, Balanced(l)
  PROVE  ~ Drift(l)
BY DEF Drift, Balanced

\* A step that leaves the tables and the cycle alone.
LEMMA RecordsStay ==
  ASSUME Typed, RecordsAgree, Whole', Whole, Sound' => Sound,
         up' = up, cycle' = cycle, db' = db, budget'.resets = budget.resets,
         count' \in Nat, count <= count', Shaped(mem', count'), Backed(mem'),
         Sound' => Balanced(mem') /\ ~ mem'.halted,
         CycleFills(mem') = CycleFills(mem),
         \A x \in 0..count : Owned(mem, x) => Owned(mem', x)
  PROVE  RecordsAgree'
<1>0. db \in Tables /\ count \in Nat /\ cycle.order \in 0..count
  BY DEF Typed, Flights
<1>1. Fit(mem', count', Sound') /\ (Sound' => ~ mem'.halted)
  BY DEF Fit
<1>2. ASSUME NoReset' PROVE Rows' /\ (up' => Journalled') /\ Checkpointed'
  <2>1. Rows /\ (up => Journalled) /\ Checkpointed
    BY <1>2 DEF NoReset, RecordsAgree
  <2>2. db.orders \subseteq Orders /\ db.checkpoint \subseteq Checkpoints
    BY <1>0 DEF Tables, FinSets
  <2>3. Rows'
    <3>1. \A o \in db.orders : o.id \in Nat
      BY <2>2 DEF Orders
    <3> QED BY <1>0, <2>1, <3>1 DEF Rows
  <2>4. up' => Journalled'
    BY <1>0, <2>1 DEF Journalled, Idle
  <2>5. Checkpointed'
    <3>1. ASSUME NEW c \in db.checkpoint PROVE Fit(c, count', Sound')
      <4>1. Fit(c, count, Sound)
        BY <2>1 DEF Checkpointed
      <4>2. Shaped(c, count')
        BY <1>0, <2>2, <4>1, LaterIds DEF Fit
      <4> QED BY <4>1, <4>2 DEF Fit
    <3> QED BY <2>1, <3>1 DEF Checkpointed, Idle
  <2> QED BY <2>3, <2>4, <2>5
<1> QED BY <1>1, <1>2 DEF RecordsAgree

\* The checkpoint of a ledger that knows what the journal knows.
LEMMA WrittenFits ==
  ASSUME NEW l \in Ledgers, NEW n, NEW sound, Fit(l, n, sound)
  PROVE  Fit(Checkpoint(l), n, sound) /\ CycleFills(Checkpoint(l)) = CycleFills(l)
<1>1. SameBooks(l, Checkpoint(l))
  BY CheckpointIs DEF SameBooks
<1> QED BY <1>1, BooksCopied DEF Fit

\* A restart that drops nothing, or cannot read the journal, and follows no reset puts the checkpoint's ledger
\* together again: the open orders and the fills are those it was written with.
LEMMA HydrateFits ==
  ASSUME Typed, RecordsAgree, Whole, NoReset, cycle = Idle, NEW readable \in BOOLEAN,
         readable => ~ Dropped /\ ListOrders = db.orders /\ ListFills = db.fills
  PROVE  /\ Fit(HydrateSession(readable), count, Sound)
         /\ CycleFills(HydrateSession(readable)) = db.fills
<1> DEFINE c == LastCheckpoint
           h == HydrateSession(readable)
<1>0. db \in Tables /\ count \in Nat /\ \A x, y \in db.checkpoint : x = y
  BY DEF Typed
<1>1. Rows /\ Checkpointed
  BY DEF RecordsAgree
<1>2. c \in Checkpoints /\ (c \in db.checkpoint \/ (db.checkpoint = {} /\ c = Checkpoint(Fresh)))
  BY <1>0, LastIs
<1>3. Fit(c, count, Sound) /\ CycleFills(c) = db.fills
  <2>1. CASE c \in db.checkpoint
    BY <1>1, <2>1 DEF Checkpointed
  <2>2. CASE db.checkpoint = {} /\ c = Checkpoint(Fresh)
    <3>1. Fit(Fresh, count, Sound) /\ CycleFills(Fresh) = {}
      BY <1>0, FreshBooks DEF Fit
    <3>2. Fit(Checkpoint(Fresh), count, Sound) /\ CycleFills(Checkpoint(Fresh)) = {}
      BY <3>1, FreshTyped, WrittenFits
    <3>3. db.fills = {}
      BY <1>1, <2>2 DEF Checkpointed
    <3> QED BY <2>2, <3>2, <3>3
  <2> QED BY <1>2, <2>1, <2>2
<1>4. /\ h \in Ledgers /\ h.cash = c.cash /\ h.reserved = c.reserved
      /\ h.orders = IF readable /\ db.orders # {} THEN db.orders ELSE c.orders
      /\ h.fills = IF readable /\ db.fills # {} THEN db.fills ELSE c.fills
  BY <1>0, HydrateIs
<1>5. /\ (readable /\ db.orders # {}) => \A o \in c.orders : o.source # "manual"
      /\ (readable /\ db.fills # {}) => \A f \in c.fills : f.source # "manual"
  <2>1. CASE c \in db.checkpoint
    BY <2>1 DEF Dropped
  <2>2. CASE c = Checkpoint(Fresh)
    <3>1. c.orders = {} /\ c.fills = {}
      BY <2>2, FreshTyped, CheckpointIs DEF Fresh
    <3> QED BY <3>1
  <2> QED BY <1>2, <2>1, <2>2
<1> HIDE DEF c, h
<1>6. c.orders \subseteq Orders /\ c.fills \subseteq Fills /\ db.orders \subseteq Orders
  BY <1>0, <1>2 DEF Checkpoints, Tables, FinSets
<1>7. h.fills = c.fills
  <2>1. CASE ~ (readable /\ db.fills # {})
    BY <1>4, <2>1
  <2>2. CASE readable /\ db.fills # {}
    <3>1. \A f \in c.fills : f.source = "cycle"
      BY <1>5, <1>6, <2>2 DEF Fills
    <3>2. CycleFills(c) = c.fills
      BY <3>1 DEF CycleFills
    <3> QED BY <1>3, <1>4, <2>2, <3>2
  <2> QED BY <2>1, <2>2
<1>8. Open(h) = Open(c) /\ \A o \in h.orders : o.id <= count
  <2>1. CASE ~ (readable /\ db.orders # {})
    <3>1. h.orders = c.orders
      BY <1>4, <2>1
    <3> QED BY <1>3, <3>1 DEF Open, Fit, Shaped
  <2>2. CASE readable /\ db.orders # {}
    <3>1. h.orders = db.orders
      BY <1>4, <2>2
    <3>2. \A o \in c.orders : o.source = "cycle"
      BY <1>5, <1>6, <2>2 DEF Orders
    <3>3. Open(c) = {}
      BY <1>3, <3>2 DEF Fit, Shaped, Open
    <3>4. Open(h) = {} /\ \A o \in h.orders : o.id <= count
      BY <1>1, <3>1 DEF Rows, Open
    <3> QED BY <3>3, <3>4
  <2> QED BY <2>1, <2>2
<1>9. Shaped(h, count)
  BY <1>3, <1>7, <1>8 DEF Fit, Shaped
<1>10. Backed(h)
  BY <1>3, <1>4, <1>8 DEF Fit, Backed, OpenBuys
<1>11. Sound => Balanced(h)
  BY <1>3, <1>4, <1>7 DEF Fit, Balanced, Reconstructed
<1>12. CycleFills(h) = db.fills
  BY <1>3, <1>7 DEF CycleFills
<1> QED BY <1>9, <1>10, <1>11, <1>12 DEF Fit, h

\* One step per action.
LEMMA RecordsKept == Typed /\ Typed' /\ KeysHeld /\ RecordsAgree /\ [Next]_vars => RecordsAgree'
<1> SUFFICES ASSUME Typed, Typed', KeysHeld, RecordsAgree, [Next]_vars, Whole' PROVE RecordsAgree'
  BY DEF RecordsAgree
<1>0. /\ mem \in Ledgers /\ cycle \in Flights /\ mark \in Prices /\ db \in Tables /\ count \in Nat
      /\ cycle.order \in 0..count /\ (\A c, d \in db.checkpoint : c = d)
      /\ (NoReset => orphan = {}) /\ 0..count \subseteq Nat
  BY DEF Typed, KeysHeld, Flights
<1>w. Whole /\ (Sound' => Sound)
  BY CausesGrow
<1>m. Shaped(mem, count) /\ Backed(mem) /\ (Sound => Balanced(mem) /\ ~ mem.halted)
      /\ Fit(mem, count, Sound)
  BY <1>w DEF RecordsAgree, Fit
<1>r. NoReset => Rows /\ (up => Journalled) /\ Checkpointed
  BY <1>w DEF RecordsAgree
<1>n. count + 1 \in Nat /\ count <= count + 1 /\ count <= count
  BY <1>0
<1>i. Idle.pc = "idle"
  BY DEF Idle
<1>1. ASSUME NEW side \in {"BUY", "SELL"}, PlaceMarket(side) PROVE RecordsAgree'
  <2>1. /\ mem' = Placed("manual", side, mark) /\ causes' = causes \cup Phantoms(mem')
        /\ count' = count + 1 /\ UNCHANGED <<up, orphan, cycle, mark, db, budget>>
    BY <1>1 DEF PlaceMarket, Placed
  <2>2. /\ Extends(mem, mem', count) /\ CycleFills(mem') = CycleFills(mem)
        /\ mem'.halted = mem.halted
    BY <1>0, <1>m, <2>1, PlacedBooks, PlacedIs
  <2>3. Sound' => ~ Failed(mem')
    BY <2>1 DEF Sound, Phantoms, Failed
  <2> QED BY <1>w, <1>m, <1>n, <2>1, <2>2, <2>3, RecordsStay DEF Extends
<1>2. ASSUME NEW side \in {"BUY", "SELL"}, CycleTrades(side) PROVE RecordsAgree'
  <2>1. /\ mem' = Placed("cycle", side, mark) /\ cycle = Idle /\ causes' = causes \cup Phantoms(mem')
        /\ cycle' = Flight("order", mem.entry, mark)
        /\ count' = count + 1 /\ UNCHANGED <<up, orphan, mark, db, budget>>
    BY <1>2 DEF CycleTrades, Placed
  <2>2. Extends(mem, mem', count) /\ mem'.halted = mem.halted /\ Owned(mem', count + 1)
    BY <1>0, <1>m, <2>1, PlacedBooks, PlacedIs
  <2>3. PICK f : f.id = count + 1 /\ CycleFills(mem') = CycleFills(mem) \cup {f}
    BY <1>0, <1>m, <2>1, PlacedBooks
  <2>4. cycle' # Idle /\ cycle'.order = count + 1 /\ cycle'.pc = "order"
    <3>1. mem.entry \in Nat
      BY <1>0 DEF Ledgers
    <3> QED BY <1>0, <2>1, <3>1, FlightTyped
  <2>5. Fit(mem', count', Sound') /\ (Sound' => ~ mem'.halted)
    <3>1. Sound' => ~ Failed(mem')
      BY <2>1 DEF Sound, Phantoms, Failed
    <3> QED BY <1>w, <1>m, <2>1, <2>2, <3>1 DEF Extends, Fit
  <2>6. ASSUME NoReset' PROVE Rows' /\ (up' => Journalled') /\ Checkpointed'
    <3>1. Rows /\ (up => Journalled) /\ Checkpointed
      BY <1>r, <2>1, <2>6 DEF NoReset
    <3>2. db.orders \subseteq Orders /\ db.checkpoint \subseteq Checkpoints
      BY <1>0 DEF Tables, FinSets
    <3>3. Rows'
      <4>1. \A o \in db.orders : o.id \in Nat
        BY <3>2 DEF Orders
      <4> QED BY <1>0, <2>1, <3>1, <4>1 DEF Rows
    <3>4. up' => Journalled'
      <4> SUFFICES ASSUME up' PROVE Journalled'
        OBVIOUS
      <4>1. CycleFills(mem) = db.fills
        BY <1>i, <2>1, <3>1 DEF Journalled
      <4>2. CycleFills(mem') = db'.fills \cup {f}
        BY <2>1, <2>3, <4>1
      <4> QED BY <2>2, <2>3, <2>4, <4>2 DEF Journalled
    <3>5. Checkpointed'
      <4>1. ASSUME NEW c \in db.checkpoint PROVE Fit(c, count + 1, Sound')
        <5>1. Fit(c, count, Sound)
          BY <3>1 DEF Checkpointed
        <5>2. Shaped(c, count + 1)
          BY <1>0, <1>n, <3>2, <5>1, LaterIds DEF Fit
        <5> QED BY <1>w, <5>1, <5>2 DEF Fit
      <4>2. cycle' # Idle'
        BY <2>4 DEF Idle
      <4> QED BY <2>1, <4>1, <4>2 DEF Checkpointed
    <3> QED BY <3>3, <3>4, <3>5
  <2> QED BY <2>5, <2>6 DEF RecordsAgree
<1>3. ASSUME NEW side \in {"BUY", "SELL"}, NEW p \in Prices, PlaceLimit(side, p) PROVE RecordsAgree'
  <2>1. /\ mem' = Rested(side, p)
        /\ count' = count + 1 /\ UNCHANGED <<up, orphan, cycle, mark, db, budget>>
    BY <1>3 DEF PlaceLimit, Rested
  <2>2. /\ Extends(mem, mem', count) /\ CycleFills(mem') = CycleFills(mem)
        /\ mem'.halted = mem.halted
    BY <1>m, <2>1, RestedBooks, RestedIs
  <2>3. Balanced(mem) => Balanced(mem')
    BY <1>m, <2>1, RestedBalanced
  <2> QED BY <1>w, <1>m, <1>n, <2>1, <2>2, <2>3, RecordsStay DEF Extends
<1>4. ASSUME NEW p \in Prices, MarkMoves(p) PROVE RecordsAgree'
  <2>1. /\ mem' = TriggerAll(mem, p) /\ UNCHANGED <<up, cycle, db, count, budget>>
        /\ Failed(mem') => "phantom" \in causes'
    BY <1>4 DEF MarkMoves, Failed, Phantoms
  <2>2. Advances(mem, mem', count) /\ mem'.halted = mem.halted
    BY <1>0, <1>m, <2>1, TriggerBooks, TriggerTyped
  <2>3. Sound' => ~ Failed(mem')
    BY <2>1 DEF Sound
  <2>4. \A x \in 0..count : Owned(mem, x) => Owned(mem', x)
    BY <1>0, <2>2 DEF Advances
  <2> QED BY <1>0, <1>w, <1>m, <1>n, <2>1, <2>2, <2>3, <2>4, RecordsStay DEF Advances
<1>s. ASSUME SameBooks(mem, mem'), Sound' => ~ mem'.halted, UNCHANGED <<up, cycle, db, count>>,
             budget'.resets = budget.resets
      PROVE  RecordsAgree'
  <2>1. /\ Shaped(mem', count) /\ Backed(mem') /\ (Balanced(mem) => Balanced(mem'))
        /\ CycleFills(mem') = CycleFills(mem) /\ \A x : Owned(mem, x) => Owned(mem', x)
    BY <1>m, <1>s, BooksCopied
  <2> QED BY <1>0, <1>w, <1>m, <1>n, <1>s, <2>1, RecordsStay
<1>5. ASSUME NEW written \in BOOLEAN, JournalOrder(written) PROVE RecordsAgree'
  <2>1. /\ up /\ cycle.pc = "order" /\ budget' = Spent(written)
        /\ cycle' = [cycle EXCEPT !.pc = "fill"] /\ UNCHANGED <<up, mem, orphan, count>>
    BY <1>5 DEF JournalOrder
  <2>2. written
    BY <1>5 DEF JournalOrder, Whole, Cut
  <2>3. /\ db'.orders = db.orders \cup {CycleOrder}
        /\ db'.fills = db.fills /\ db'.checkpoint = db.checkpoint
    <3>1. db' = [db EXCEPT !.orders = @ \cup {CycleOrder}]
      BY <1>5, <2>2 DEF JournalOrder
    <3> QED BY <1>0, <3>1 DEF Tables
  <2>4. cycle' # Idle /\ cycle'.order = cycle.order /\ cycle'.pc = "fill" /\ cycle # Idle
    BY <1>0, <1>i, <2>1, FlightMoves
  <2>5. Fit(mem', count', Sound') /\ (Sound' => ~ mem'.halted)
    BY <1>w, <1>m, <2>1 DEF Fit
  <2>6. ASSUME NoReset' PROVE Rows' /\ (up' => Journalled') /\ Checkpointed'
    <3>1. NoReset
      BY <2>1, <2>6, BudgetKept DEF NoReset
    <3>2. Rows /\ Journalled /\ Checkpointed /\ CycleLedger = mem
      BY <1>0, <1>r, <2>1, <3>1 DEF CycleLedger
    <3>3. CycleOrder \in mem.orders /\ CycleOrder.id = cycle.order
      BY <2>1, <3>2, CycleOrderIs
    <3>4. CycleOrder.source = "cycle" /\ CycleOrder.status # "SUBMITTED" /\ CycleOrder.id <= count
      BY <1>0, <2>4, <3>2, <3>3 DEF Journalled, Owned
    <3>5. Rows'
      BY <2>1, <2>3, <3>2, <3>4 DEF Rows
    <3>6. Journalled'
      BY <2>1, <2>3, <2>4, <3>2 DEF Journalled
    <3>7. Checkpointed'
      <4>1. cycle' # Idle'
        BY <2>4 DEF Idle
      <4> QED BY <1>w, <2>1, <2>3, <3>2, <4>1 DEF Checkpointed, Fit
    <3> QED BY <3>5, <3>6, <3>7
  <2> QED BY <2>5, <2>6 DEF RecordsAgree
<1>6. ASSUME NEW written \in BOOLEAN, JournalFill(written) PROVE RecordsAgree'
  <2>1. /\ up /\ cycle.pc = "fill" /\ budget' = Spent(written)
        /\ cycle' = [cycle EXCEPT !.pc = IF CycleOrder.side = "SELL" THEN "trade" ELSE "persist"]
        /\ UNCHANGED <<up, mem, orphan, count>>
    BY <1>6 DEF JournalFill
  <2>2. written
    BY <1>6 DEF JournalFill, Whole, Cut
  <2> DEFINE new == {f \in CycleLedger.fills : f.id = cycle.order}
  <2>3. /\ db'.fills = db.fills \cup new
        /\ db'.orders = db.orders /\ db'.checkpoint = db.checkpoint
    <3>1. db' = [db EXCEPT !.fills = @ \cup new]
      BY <1>6, <2>2 DEF JournalFill
    <3> HIDE DEF new
    <3> QED BY <1>0, <3>1 DEF Tables
  <2>4. cycle' # Idle /\ cycle'.order = cycle.order /\ cycle'.pc \in {"trade", "persist"} /\ cycle # Idle
    BY <1>0, <1>i, <2>1, FlightMoves
  <2>5. Fit(mem', count', Sound') /\ (Sound' => ~ mem'.halted)
    BY <1>w, <1>m, <2>1 DEF Fit
  <2>6. ASSUME NoReset' PROVE Rows' /\ (up' => Journalled') /\ Checkpointed'
    <3>1. NoReset
      BY <2>1, <2>6, BudgetKept DEF NoReset
    <3>2. Rows /\ Journalled /\ Checkpointed /\ CycleLedger = mem
      BY <1>0, <1>r, <2>1, <3>1 DEF CycleLedger
    <3>3. db'.fills = CycleFills(mem)
      BY <2>3, <2>4, <3>2 DEF Journalled, CycleFills, Owned
    <3>4. Rows'
      <4>1. db.orders # {}
        BY <2>1, <3>2 DEF Journalled
      <4> QED BY <2>1, <2>3, <3>2, <4>1 DEF Rows
    <3>5. Journalled'
      BY <2>1, <2>4, <3>2, <3>3 DEF Journalled
    <3>6. Checkpointed'
      <4>1. cycle' # Idle'
        BY <2>4 DEF Idle
      <4> QED BY <1>w, <2>1, <2>3, <3>2, <4>1 DEF Checkpointed, Fit
    <3> QED BY <3>4, <3>5, <3>6
  <2> QED BY <2>5, <2>6 DEF RecordsAgree
<1>7. ASSUME NEW written \in BOOLEAN, RecordManualTrade(written) PROVE RecordsAgree'
  <2>1. budget' = Spent(written) /\ UNCHANGED <<up, mem, cycle, db, count>>
    BY <1>7 DEF RecordManualTrade
  <2>2. budget'.resets = budget.resets /\ SameBooks(mem, mem')
    BY <2>1, BudgetKept DEF SameBooks
  <2> QED BY <1>s, <1>w, <1>m, <2>1, <2>2
<1>8. ASSUME NEW written \in BOOLEAN, RecordCycleTrade(written) PROVE RecordsAgree'
  <2>1. /\ up /\ cycle.pc = "trade" /\ budget' = Spent(written)
        /\ cycle' = [cycle EXCEPT !.pc = "persist"] /\ UNCHANGED <<up, mem, db, count>>
    BY <1>8 DEF RecordCycleTrade
  <2>2. cycle' # Idle /\ cycle'.order = cycle.order /\ cycle'.pc = "persist" /\ cycle # Idle
    BY <1>0, <1>i, <2>1, FlightMoves
  <2>3. Fit(mem', count', Sound') /\ (Sound' => ~ mem'.halted)
    BY <1>w, <1>m, <2>1 DEF Fit
  <2>4. ASSUME NoReset' PROVE Rows' /\ (up' => Journalled') /\ Checkpointed'
    <3>1. NoReset
      BY <2>1, <2>4, BudgetKept DEF NoReset
    <3>2. Rows /\ Journalled /\ Checkpointed
      BY <1>r, <2>1, <3>1
    <3>3. Rows'
      BY <2>1, <3>2 DEF Rows
    <3>4. Journalled'
      BY <2>1, <2>2, <3>2 DEF Journalled
    <3>5. Checkpointed'
      <4>1. cycle' # Idle'
        BY <2>2 DEF Idle
      <4> QED BY <1>w, <2>1, <3>2, <4>1 DEF Checkpointed, Fit
    <3> QED BY <3>3, <3>4, <3>5
  <2> QED BY <2>3, <2>4 DEF RecordsAgree
<1>9. ASSUME NEW written \in BOOLEAN, PersistManual(written) PROVE RecordsAgree'
  <2>1. written
    BY <1>9 DEF PersistManual, Whole, Cut
  <2>2. up /\ budget' = Spent(written) /\ PersistSession(mem) /\ UNCHANGED <<up, mem, cycle, count>>
    BY <1>9, <2>1 DEF PersistManual
  <2>3. db'.checkpoint = {Checkpoint(mem)} /\ db'.orders = db.orders /\ db'.fills = db.fills
    BY <1>0, <2>2, PersistIs
  <2>4. Fit(mem', count', Sound') /\ (Sound' => ~ mem'.halted)
    BY <1>w, <1>m, <2>2 DEF Fit
  <2>5. ASSUME NoReset' PROVE Rows' /\ (up' => Journalled') /\ Checkpointed'
    <3>1. NoReset
      BY <2>2, <2>5, BudgetKept DEF NoReset
    <3>2. Rows /\ Journalled
      BY <1>r, <2>2, <3>1
    <3>3. Rows' /\ Journalled'
      BY <2>2, <2>3, <3>2 DEF Rows, Journalled, Idle
    <3>4. Fit(Checkpoint(mem), count, Sound) /\ CycleFills(Checkpoint(mem)) = CycleFills(mem)
      BY <1>0, <1>m, WrittenFits
    <3>5. cycle = Idle => CycleFills(mem) = db.fills
      BY <1>i, <3>2 DEF Journalled
    <3>6. Checkpointed'
      <4>1. Fit(Checkpoint(mem), count', Sound')
        BY <1>w, <2>2, <3>4 DEF Fit
      <4>2. cycle' = Idle' => CycleFills(Checkpoint(mem)) = db'.fills
        BY <2>2, <2>3, <3>4, <3>5 DEF Idle
      <4> QED BY <2>3, <4>1, <4>2 DEF Checkpointed
    <3> QED BY <3>3, <3>6
  <2> QED BY <2>4, <2>5 DEF RecordsAgree
<1>10. ASSUME NEW written \in BOOLEAN, PersistCycle(written) PROVE RecordsAgree'
  <2>1. written
    BY <1>10 DEF PersistCycle, Whole, Cut
  <2> DEFINE ok == mem.healthy /\ written /\ CycleInvariants(CycleLedger)
             drift == Drift(mem)
  <2>2. /\ up /\ cycle.pc = "persist" /\ budget' = Spent(written) /\ cycle' = Idle
        /\ mem' = [mem EXCEPT !.healthy = ok, !.halted = drift]
        /\ UNCHANGED <<up, count>>
        /\ orphan = {} => PersistSession(mem)
    BY <1>10, <2>1 DEF PersistCycle
  <2>3. Sound => ~ drift
    BY <1>m, NoDrift
  <2> HIDE DEF ok, drift
  <2>4. SameBooks(mem, mem') /\ mem'.halted = drift
    BY <1>0, <2>2 DEF SameBooks, Ledgers
  <2>5. /\ Shaped(mem', count) /\ Backed(mem') /\ (Balanced(mem) => Balanced(mem'))
        /\ CycleFills(mem') = CycleFills(mem)
    BY <1>m, <2>4, BooksCopied
  <2>6. Fit(mem', count', Sound') /\ (Sound' => ~ mem'.halted)
    BY <1>w, <1>m, <2>2, <2>3, <2>4, <2>5 DEF Fit
  <2>7. ASSUME NoReset' PROVE Rows' /\ (up' => Journalled') /\ Checkpointed'
    <3>1. NoReset
      BY <2>2, <2>7, BudgetKept DEF NoReset
    <3>2. Rows /\ Journalled /\ PersistSession(mem)
      BY <1>0, <1>r, <2>2, <3>1
    <3>3. db'.checkpoint = {Checkpoint(mem)} /\ db'.orders = db.orders /\ db'.fills = db.fills
      BY <1>0, <3>2, PersistIs
    <3>4. CycleFills(mem) = db.fills
      BY <2>2, <3>2 DEF Journalled
    <3>5. Rows'
      BY <2>2, <3>2, <3>3 DEF Rows
    <3>6. Journalled'
      <4>1. cycle' = Idle' /\ cycle'.pc # "fill"
        BY <1>i, <2>2 DEF Idle
      <4> QED BY <2>5, <3>3, <3>4, <4>1 DEF Journalled
    <3>7. Fit(Checkpoint(mem), count, Sound) /\ CycleFills(Checkpoint(mem)) = CycleFills(mem)
      BY <1>0, <1>m, WrittenFits
    <3>8. Checkpointed'
      <4>1. Fit(Checkpoint(mem), count', Sound') /\ CycleFills(Checkpoint(mem)) = db'.fills
        BY <1>w, <2>2, <3>3, <3>4, <3>7 DEF Fit
      <4> QED BY <3>3, <4>1 DEF Checkpointed
    <3> QED BY <3>5, <3>6, <3>8
  <2> QED BY <2>6, <2>7 DEF RecordsAgree
<1>11. CASE Reconcile
  <2> DEFINE drift == Drift(mem)
  <2>1. mem' = [mem EXCEPT !.halted = drift] /\ UNCHANGED <<up, cycle, db, count, budget>>
    BY <1>11 DEF Reconcile
  <2>2. Sound => ~ drift
    BY <1>m, NoDrift
  <2> HIDE DEF drift
  <2>3. SameBooks(mem, mem') /\ mem'.halted = drift
    BY <1>0, <2>1 DEF SameBooks, Ledgers
  <2> QED BY <1>s, <1>w, <2>1, <2>2, <2>3
<1>12. CASE HealthProbe
  <2>1. mem' = [mem EXCEPT !.healthy = TRUE] /\ UNCHANGED <<up, cycle, db, count, budget>>
    BY <1>12 DEF HealthProbe
  <2>2. SameBooks(mem, mem') /\ mem'.halted = mem.halted
    BY <1>0, <2>1 DEF SameBooks, Ledgers
  <2> QED BY <1>s, <1>w, <1>m, <2>1, <2>2
<1>f. ASSUME mem' \in {Fresh, Unloaded}, count' = count PROVE Fit(mem', count', Sound') /\ ~ mem'.halted
  <2>1. ~ Fresh.halted /\ ~ Unloaded.halted
    BY DEF Fresh, Unloaded
  <2>2. Fit(Fresh, count', Sound') /\ Fit(Unloaded, count', Sound')
    BY <1>0, <1>f, FreshBooks, BooksCopied DEF Fit
  <2> QED BY <1>f, <2>1, <2>2
<1>13. CASE PaperReset
  <2>1. budget.resets \in 0..MaxResets /\ MaxResets \in Nat /\ budget'.resets = budget.resets - 1
    BY <1>13, LedgerAssumption DEF PaperReset, Typed
  <2>2. ~ NoReset'
    BY <2>1 DEF NoReset
  <2>3. mem' = Unloaded /\ count' = count
    BY <1>13 DEF PaperReset
  <2> QED BY <1>f, <2>2, <2>3 DEF RecordsAgree
<1>14. CASE Crash
  <2>1. /\ up' = FALSE /\ mem' = Fresh /\ cycle' = Idle /\ UNCHANGED <<db, count>>
        /\ budget'.resets = budget.resets
    BY <1>14 DEF Crash, Typed
  <2>2. cycle = Idle
    BY <1>14 DEF Crash, Whole, Cut
  <2>3. ASSUME NoReset' PROVE Rows' /\ Checkpointed'
    <3>1. Rows /\ Checkpointed
      BY <1>r, <2>1, <2>3 DEF NoReset
    <3> QED BY <1>w, <2>1, <2>2, <3>1 DEF Rows, Checkpointed, Fit, Idle
  <2> QED BY <1>f, <2>1, <2>3 DEF RecordsAgree
<1>15. ASSUME NEW readable \in BOOLEAN, NEW reconciled \in BOOLEAN,
              Bootstrap(readable, reconciled)
       PROVE  RecordsAgree'
  <2> DEFINE h == HydrateSession(readable)
             drift == reconciled => Drift(h)
  <2>1. /\ ~ up /\ mem' = [h EXCEPT !.halted = drift] /\ UNCHANGED <<cycle, db, count>>
        /\ budget'.resets = budget.resets
    <3>1. budget' = Spent(readable /\ reconciled) /\ (readable /\ reconciled) \in BOOLEAN
      BY <1>15 DEF Bootstrap
    <3> QED BY <1>15, <3>1, BudgetKept DEF Bootstrap
  <2>2. /\ readable => ~ Dropped /\ ListOrders = db.orders /\ ListFills = db.fills
        /\ ~ (budget.resets < MaxResets) /\ (Sound' => reconciled)
    <3>1. Whole' /\ causes' = causes \cup (IF readable THEN Overruled ELSE {})
                                    \cup (IF reconciled THEN {} ELSE {"unreconciled"})
                                    \cup (IF budget.resets < MaxResets THEN {"reset"} ELSE {})
      BY <1>15 DEF Bootstrap
    <3> QED BY <3>1 DEF Overruled, Whole, Sound, Cut
  <2>3. NoReset
    BY <2>2, LedgerAssumption DEF NoReset, Typed
  <2>4. cycle = Idle
    BY <2>1 DEF Typed
  <2>5. Fit(h, count, Sound) /\ CycleFills(h) = db.fills
    BY <1>w, <2>2, <2>3, <2>4, HydrateFits
  <2>6. h \in Ledgers
    BY <1>0, HydrateIs
  <2>7. Sound' => ~ drift
    BY <1>w, <2>2, <2>5, NoDrift DEF Fit
  <2> HIDE DEF h, drift
  <2>8. SameBooks(h, mem') /\ mem'.halted = drift
    BY <2>1, <2>6 DEF SameBooks, Ledgers
  <2>9. Fit(mem', count', Sound') /\ CycleFills(mem') = db.fills
    BY <1>w, <2>1, <2>5, <2>8, BooksCopied DEF Fit
  <2>10. Rows /\ Checkpointed
    BY <1>r, <2>3
  <2>11. Rows' /\ Checkpointed'
    BY <1>w, <2>1, <2>10 DEF Rows, Checkpointed, Fit, Idle
  <2>12. Journalled'
    <3>1. cycle' = Idle' /\ cycle'.pc # "fill"
      BY <1>i, <2>1, <2>4 DEF Idle
    <3> QED BY <2>1, <2>9, <3>1 DEF Journalled
  <2> QED BY <1>w, <2>7, <2>8, <2>9, <2>11, <2>12 DEF RecordsAgree
<1>17. CASE StartFails
  <2>1. "failed start" \in causes'
    BY <1>17 DEF StartFails
  <2> QED BY <2>1 DEF Whole, Cut
<1>16. CASE UNCHANGED vars
  <2>1. UNCHANGED <<up, mem, cycle, db, count, budget>>
    BY <1>16 DEF vars
  <2>2. SameBooks(mem, mem')
    BY <2>1 DEF SameBooks
  <2> QED BY <1>s, <1>w, <1>m, <2>1, <2>2
<1> QED BY <1>1, <1>2, <1>3, <1>4, <1>5, <1>6, <1>7, <1>8, <1>9, <1>10, <1>11, <1>12,
           <1>13, <1>14, <1>15, <1>16, <1>17 DEF Next

\* The types of the ledger's records hold throughout: the checkpoint is one row, a
\* ledger that a reset left behind goes with its cycle, and a process that is down
\* has no order under way.
THEOREM LedgerAlwaysTyped == Spec => []Typed
BY TypedBegins, TypedKept, PTL DEF Spec

\* Every tick of reserved cash belongs to an open BUY, through restarts and resets,
\* unless the orders were dropped in favour of the journal or a cut cycle, a failed
\* write, a truncated journal, a failed start or a restart after a reset separated the
\* records.
THEOREM ReservedAlwaysBacked == Spec => []ReservedBacked
<1>1. RecordsAgree => ReservedBacked
  BY DEF RecordsAgree, Fit, Backed, OpenBuys, ReservedBacked, Whole, Cut
<1> QED BY <1>1, TypedBegins, TypedKept, KeysBegin, KeysKeptOn, RecordsBegin, RecordsKept, PTL
        DEF Spec

\* Reconciliation halts trading only after something that separated the ledger's
\* records; a crash during a manual order, a journal that could not be read, or a
\* resting sell that fills late, is not among them.
THEOREM HaltAlwaysHasCause == Spec => []HaltHasCause
<1>1. RecordsAgree => HaltHasCause
  <2> SUFFICES ASSUME RecordsAgree, mem.halted,
                      causes \cap {"phantom", "torn cycle", "row lost", "persist failed", "dropped",
                                   "truncated", "reset", "failed start", "unreconciled"} = {}
               PROVE  FALSE
    BY DEF HaltHasCause
  <2>1. Whole /\ Sound
    BY DEF Whole, Sound, Cut
  <2> QED BY <2>1 DEF RecordsAgree
<1> QED BY <1>1, TypedBegins, TypedKept, KeysBegin, KeysKeptOn, RecordsBegin, RecordsKept, PTL
        DEF Spec
=============================================================================
