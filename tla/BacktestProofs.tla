--------------------------- MODULE BacktestProofs ---------------------------
(***************************************************************************)
(* What the backtest engine guarantees for every series of candles, every  *)
(* strategy of the registry and every rate.  A step is taken apart once,   *)
(* into the three changes it can make to an account (StopTake, Marked and  *)
(* Acted); the theorems say what these keep.                               *)
(***************************************************************************)
EXTENDS Backtest, SumTheorems, SequenceTheorems

---------------------------------------------------------------------------
(* Candles and accounts *)

BarSet == [t : Nat, high : Nat, low : Nat, close : Nat, volume : Nat]

\* The times of the window count its candles.
Counting(cs) == cs \in Seq(BarSet) /\ \A i \in 1..Len(cs) : cs[i].t = i

\* At most one position is open.  No more is said of the amounts.
Shape(a) ==
  /\ a = [cash |-> a.cash, position |-> a.position, held |-> a.held, trades |-> a.trades]
  /\ a.position = {} \/ \E p : a.position = {p}
  /\ \E S : a.trades \in Seq(S)

\* A record of the four fields is an account.
LEMMA ShapeIs ==
  ASSUME NEW a, NEW cash, NEW position, NEW held, NEW trades, NEW S,
         a = [cash |-> cash, position |-> position, held |-> held, trades |-> trades],
         position = {} \/ \E p : position = {p}, trades \in Seq(S)
  PROVE  /\ Shape(a)
         /\ a.cash = cash /\ a.position = position /\ a.held = held /\ a.trades = trades
<1>1. a.cash = cash /\ a.position = position /\ a.held = held /\ a.trades = trades
  OBVIOUS
<1> QED BY <1>1 DEF Shape

\* So is an account in which a position has just been opened.
LEMMA OpenedShape ==
  ASSUME NEW a, Shape(a), NEW b, NEW cash, NEW p,
         b = [cash |-> cash, position |-> {p}, held |-> 0, trades |-> a.trades]
  PROVE  Shape(b) /\ b.position = {p} /\ b.trades = a.trades /\ b.cash = cash
<1> DEFINE trades == a.trades
           position == {p}
<1>1. PICK S : trades \in Seq(S)
  BY DEF Shape
<1>2. /\ b = [cash |-> cash, position |-> position, held |-> 0, trades |-> trades]
      /\ \E q : position = {q}
  OBVIOUS
<1> HIDE DEF trades, position
<1>3. b.position = position /\ b.trades = trades /\ b.cash = cash /\ b.held = 0
  BY <1>2
<1>4. b = [cash |-> b.cash, position |-> b.position, held |-> b.held, trades |-> b.trades]
  BY <1>2, <1>3
<1>5. Shape(b)
  BY <1>1, <1>2, <1>3, <1>4 DEF Shape
<1> QED BY <1>3, <1>5 DEF trades, position

\* What one more entry makes of a list.
LEMMA Appended ==
  ASSUME NEW S, NEW s \in Seq(S), NEW x
  PROVE  /\ \E T : Append(s, x) \in Seq(T)
         /\ Len(Append(s, x)) = Len(s) + 1
         /\ DOMAIN Append(s, x) = 1..(Len(s) + 1)
         /\ \A i \in 1..Len(s) : Append(s, x)[i] = s[i]
         /\ Append(s, x)[Len(s) + 1] = x
<1> DEFINE T == S \cup {x}
<1>1. s \in Seq(T)
  BY SeqMonotonic
<1>2. x \in T
  OBVIOUS
<1> HIDE DEF T
<1>3. Append(s, x) \in Seq(T)
  BY <1>1, <1>2
<1> QED BY <1>1, <1>2, <1>3

\* A new candle keeps the old ones.
LEMMA NextCandle ==
  ASSUME NEW cs, Counting(cs), NEW b \in Bars
  PROVE  LET bar == Candle(b, Len(cs) + 1)
             ds == Append(cs, bar)
         IN  /\ Counting(ds) /\ Len(ds) = Len(cs) + 1 /\ Len(cs) \in Nat
             /\ \A i \in 1..Len(cs) : ds[i] = cs[i]
             /\ ds[Len(cs) + 1] = bar /\ bar.t = Len(cs) + 1 /\ bar \in BarSet
<1> DEFINE bar == Candle(b, Len(cs) + 1)
           ds == Append(cs, bar)
<1>1. Len(cs) \in Nat /\ cs \in Seq(BarSet)
  BY DEF Counting
<1>2. bar \in BarSet /\ bar.t = Len(cs) + 1
  BY <1>1, BarsAssumption DEF Candle, BarSet
<1> HIDE DEF bar
<1>3. /\ ds \in Seq(BarSet) /\ Len(ds) = Len(cs) + 1
      /\ \A i \in 1..Len(cs) : ds[i] = cs[i]
      /\ ds[Len(cs) + 1] = bar
  BY <1>1, <1>2
<1>4. ASSUME NEW i \in 1..(Len(cs) + 1) PROVE ds[i].t = i
  <2>1. CASE i = Len(cs) + 1
    BY <1>2, <1>3, <2>1
  <2>2. CASE i # Len(cs) + 1
    <3>1. i \in 1..Len(cs)
      BY <1>1, <2>2
    <3> QED BY <1>3, <3>1 DEF Counting
  <2> QED BY <2>1, <2>2
<1> QED BY <1>1, <1>2, <1>3, <1>4 DEF bar, Counting

---------------------------------------------------------------------------
(* Touches *)

Stops(p, c) == \E s \in p.stop : c.low <= s
Takes(p, c) == \E g \in p.target : c.high >= g

\* The position that was open, p, and the trade that closing it leaves.
ClosedAt(a, b, p, t, reason) ==
  /\ Shape(b) /\ b.position = {}
  /\ \E S : a.trades \in Seq(S)
  /\ \E tr : /\ b.trades = Append(a.trades, tr)
             /\ tr.entry = p.opened /\ tr.exit = t /\ tr.reason = reason
             /\ tr.stop = p.stop /\ tr.target = p.target

LEMMA ClosedIs ==
  ASSUME NEW a, Shape(a), NEW p, a.position = {p}, NEW price, NEW t, NEW reason
  PROVE  ClosedAt(a, Closed(a, price, t, reason), p, t, reason)
<1>1. (CHOOSE q \in a.position : TRUE) = p
  OBVIOUS
<1>2. PICK S : a.trades \in Seq(S)
  BY DEF Shape
<1> DEFINE b == Closed(a, price, t, reason)
           fill == Fill(price, "sell")
           fees == fill.fee * p.quantity
           cash == a.cash + Unit * fill.price * p.quantity - fees
           tr == [entry |-> p.opened, exit |-> t, quantity |-> p.quantity, reason |-> reason,
                  pnl |-> (fill.price - p.price) * Unit * p.quantity - fees,
                  fees |-> p.fees + fees,
                  stop |-> p.stop, target |-> p.target, entryFees |-> p.fees]
<1>3. b = [cash |-> cash, position |-> {}, held |-> 0, trades |-> Append(a.trades, tr)]
  BY <1>1, Zenon DEF Closed
<1>4. /\ tr.entry = p.opened /\ tr.exit = t /\ tr.reason = reason
      /\ tr.stop = p.stop /\ tr.target = p.target
  OBVIOUS
<1> HIDE DEF b, cash, tr
<1>5. PICK T : Append(a.trades, tr) \in Seq(T)
  BY <1>2, Appended
<1>6. Shape(b) /\ b.position = {} /\ b.trades = Append(a.trades, tr)
  BY <1>3, <1>5, ShapeIs
<1> QED BY <1>2, <1>4, <1>6 DEF ClosedAt, b

\* StopTake closes at the stop if the candle touches it, else at the target if it
\* touches that, and leaves a position alone that it does not touch.
LEMMA StopTakeIs ==
  ASSUME NEW a, Shape(a), NEW bar
  PROVE  \/ /\ StopTake(a, bar) = a
            /\ \A p \in a.position : p.opened < bar.t => ~ Stops(p, bar) /\ ~ Takes(p, bar)
         \/ \E p, reason :
              /\ a.position = {p} /\ p.opened < bar.t
              /\ ClosedAt(a, StopTake(a, bar), p, bar.t, reason)
              /\ \/ Stops(p, bar) /\ reason = "stop-loss"
                 \/ ~ Stops(p, bar) /\ Takes(p, bar) /\ reason = "take-profit"
<1> DEFINE old == {q \in a.position : q.opened < bar.t}
           hits == UNION {CheckStopTake(p, bar) : p \in old}
<1>1. CASE old = {}
  <2>1. hits = {}
    BY <1>1
  <2> QED BY <1>1, <2>1 DEF StopTake
<1>2. CASE old # {}
  <2>1. PICK p : a.position = {p} /\ old = {p} /\ p.opened < bar.t
    BY <1>2 DEF Shape
  <2>2. hits = CheckStopTake(p, bar)
    BY <2>1
  <2>3. CASE Stops(p, bar)
    <3> DEFINE stopped == {s \in p.stop : bar.low <= s}
    <3>0. stopped # {} /\ hits = {[price |-> s, reason |-> "stop-loss"] : s \in stopped}
      BY <2>2, <2>3, Zenon DEF CheckStopTake, Stops
    <3> HIDE DEF hits, stopped
    <3>1. hits # {} /\ \A h \in hits : h.reason = "stop-loss"
      <4>1. hits # {}
        BY <3>0
      <4>2. ASSUME NEW h \in hits PROVE h.reason = "stop-loss"
        <5>1. PICK s \in stopped : h = [price |-> s, reason |-> "stop-loss"]
          BY <3>0
        <5> QED BY <5>1
      <4> QED BY <4>1, <4>2
    <3> USE DEF hits
    <3>2. StopTake(a, bar) = Closed(a, (CHOOSE h \in hits : TRUE).price, bar.t, "stop-loss")
      BY <3>1 DEF StopTake
    <3> QED BY <2>1, <2>3, <3>2, ClosedIs
  <2>4. CASE ~ Stops(p, bar) /\ Takes(p, bar)
    <3> DEFINE stopped == {s \in p.stop : bar.low <= s}
               taken == {g \in p.target : bar.high >= g}
    <3>0. taken # {} /\ hits = {[price |-> g, reason |-> "take-profit"] : g \in taken}
      <4>1. stopped = {} /\ taken # {}
        BY <2>4 DEF Stops, Takes
      <4> QED BY <2>2, <4>1, Zenon DEF CheckStopTake
    <3> HIDE DEF hits, taken
    <3>1. hits # {} /\ \A h \in hits : h.reason = "take-profit"
      <4>1. hits # {}
        BY <3>0
      <4>2. ASSUME NEW h \in hits PROVE h.reason = "take-profit"
        <5>1. PICK g \in taken : h = [price |-> g, reason |-> "take-profit"]
          BY <3>0
        <5> QED BY <5>1
      <4> QED BY <4>1, <4>2
    <3> USE DEF hits
    <3>2. StopTake(a, bar) = Closed(a, (CHOOSE h \in hits : TRUE).price, bar.t, "take-profit")
      BY <3>1 DEF StopTake
    <3> QED BY <2>1, <2>4, <3>2, ClosedIs, SMTT(30)
  <2>5. CASE ~ Stops(p, bar) /\ ~ Takes(p, bar)
    <3>1. hits = {}
      BY <2>2, <2>5 DEF CheckStopTake, Stops, Takes
    <3> QED BY <2>1, <2>5, <3>1 DEF StopTake
  <2> QED BY <2>3, <2>4, <2>5
<1> QED BY <1>1, <1>2

\* Marked counts a bar, and touches neither position nor trades.
LEMMA MarkedIs ==
  ASSUME NEW a, Shape(a)
  PROVE  /\ Shape(Marked(a))
         /\ Marked(a).position = a.position /\ Marked(a).trades = a.trades
         /\ Marked(a).cash = a.cash
<1>1. CASE a.position = {}
  BY <1>1 DEF Marked
<1>2. CASE a.position # {}
  <2>1. Marked(a) = [cash |-> a.cash, position |-> a.position, held |-> a.held + 1,
                     trades |-> a.trades]
    BY <1>2 DEF Marked, Shape
  <2>2. PICK S : a.trades \in Seq(S)
    BY DEF Shape
  <2>3. a.position = {} \/ \E p : a.position = {p}
    BY DEF Shape
  <2> DEFINE b == Marked(a)
             position == a.position
             trades == a.trades
             held == a.held + 1
             cash == a.cash
  <2>4. /\ b = [cash |-> cash, position |-> position, held |-> held, trades |-> trades]
        /\ position = {} \/ \E p : position = {p}
        /\ trades \in Seq(S)
    BY <2>1, <2>2, <2>3
  <2> HIDE DEF b, position, trades, held, cash
  <2>5. Shape(b) /\ b.position = position /\ b.trades = trades /\ b.cash = cash
    BY <2>4, ShapeIs
  <2> QED BY <2>5 DEF b, position, trades, cash
<1> QED BY <1>1, <1>2

\* The signal opens a position on this candle, closes the open one, or leaves the
\* account alone.
LEMMA ActedIs ==
  ASSUME NEW a, Shape(a), NEW bar, NEW signal
  PROVE  \/ Acted(a, bar, signal) = a
         \/ /\ a.position = {} /\ Shape(Acted(a, bar, signal))
            /\ Acted(a, bar, signal).trades = a.trades
            /\ \E p : Acted(a, bar, signal).position = {p} /\ p.opened = bar.t
         \/ \E p : /\ a.position = {p}
                   /\ ClosedAt(a, Acted(a, bar, signal), p, bar.t, "signal")
<1>1. CASE signal.direction = "BUY" /\ a.position = {}
  <2>1. Acted(a, bar, signal) = Bought(a, bar, signal)
    BY <1>1 DEF Acted
  <2>2. \/ Bought(a, bar, signal) = a
        \/ \E cash, p :
             /\ Bought(a, bar, signal) = [a EXCEPT !.cash = cash, !.held = 0, !.position = {p}]
             /\ p.opened = bar.t
    <3> DEFINE qty == SizePosition(a.cash, bar.close)
               fill == Fill(bar.close, "buy")
               cost == (Unit * fill.price + fill.fee) * qty
               p == [quantity |-> qty, price |-> fill.price, opened |-> bar.t,
                     stop |-> signal.stop, target |-> signal.target, fees |-> fill.fee * qty]
    <3>1. p.opened = bar.t
      OBVIOUS
    <3>2. \/ Bought(a, bar, signal) = a
          \/ Bought(a, bar, signal)
               = [a EXCEPT !.cash = a.cash - cost, !.held = 0, !.position = {p}]
      BY Zenon DEF Bought
    <3> HIDE DEF p, cost
    <3> QED BY <3>1, <3>2
  <2>3. ASSUME NEW cash, NEW p, p.opened = bar.t,
               Bought(a, bar, signal) = [a EXCEPT !.cash = cash, !.held = 0, !.position = {p}]
        PROVE  /\ Shape(Bought(a, bar, signal))
               /\ Bought(a, bar, signal).trades = a.trades
               /\ Bought(a, bar, signal).position = {p}
    <3>1. Bought(a, bar, signal) = [cash |-> cash, position |-> {p}, held |-> 0,
                                    trades |-> a.trades]
      BY <2>3 DEF Shape
    <3> QED BY <3>1, OpenedShape
  <2> QED BY <1>1, <2>1, <2>2, <2>3
<1>2. CASE signal.direction \in {"EXIT", "SELL"} /\ a.position # {}
  <2>1. PICK p : a.position = {p}
    BY <1>2 DEF Shape
  <2>2. Acted(a, bar, signal) = Closed(a, bar.close, bar.t, "signal")
    BY <1>2 DEF Acted
  <2> QED BY <2>1, <2>2, ClosedIs
<1>3. CASE /\ ~ (signal.direction = "BUY" /\ a.position = {})
           /\ ~ (signal.direction \in {"EXIT", "SELL"} /\ a.position # {})
  BY <1>3 DEF Acted
<1> QED BY <1>1, <1>2, <1>3

\* FirstTouch of one trade.
TradeTouch(tr, cs) ==
  /\ tr.entry \in Nat /\ tr.exit \in 1..Len(cs)
  /\ \A i \in (tr.entry + 1)..tr.exit : (Stops(tr, cs[i]) \/ Takes(tr, cs[i])) => i = tr.exit
  /\ (tr.reason = "stop-loss") <=> (tr.entry < tr.exit /\ Stops(tr, cs[tr.exit]))
  /\ (tr.reason = "take-profit") <=> (tr.entry < tr.exit /\ Takes(tr, cs[tr.exit])
                                      /\ ~ Stops(tr, cs[tr.exit]))

\* No candle has touched the stop or the target of an open position yet.
OpenTouch(p, cs) ==
  /\ p.opened \in 1..Len(cs)
  /\ \A i \in (p.opened + 1)..Len(cs) : ~ Stops(p, cs[i]) /\ ~ Takes(p, cs[i])

TradesTouch(a, cs) == \A k \in DOMAIN a.trades : TradeTouch(a.trades[k], cs)

AccountTouch(a, cs) ==
  Shape(a) /\ TradesTouch(a, cs) /\ \A p \in a.position : OpenTouch(p, cs)

\* FirstTouch is not inductive: that a trade about to be closed was not touched
\* before has to be known of the open position.
TouchInv == Counting(candles) /\ AccountTouch(account, candles)

\* A trade keeps its touches when candles are added.
LEMMA TradeTouchStays ==
  ASSUME NEW cs, NEW ds, Len(cs) \in Nat, Len(ds) = Len(cs) + 1,
         \A i \in 1..Len(cs) : ds[i] = cs[i],
         NEW tr, TradeTouch(tr, cs)
  PROVE  TradeTouch(tr, ds)
<1>1. tr.entry \in Nat /\ tr.exit \in 1..Len(cs) /\ tr.exit \in 1..Len(ds)
  BY DEF TradeTouch
<1>2. \A i \in (tr.entry + 1)..tr.exit : ds[i] = cs[i]
  BY <1>1
<1>3. ds[tr.exit] = cs[tr.exit]
  BY <1>1
<1> QED BY <1>1, <1>2, <1>3 DEF TradeTouch

\* A position closed on the last candle, for a reason that agrees with whether
\* that candle touches it, leaves a trade with FirstTouch.
LEMMA ClosedTouch ==
  ASSUME NEW cs, Len(cs) \in Nat, NEW a, NEW b, TradesTouch(a, cs),
         NEW p, p.opened \in 1..Len(cs),
         \A i \in (p.opened + 1)..(Len(cs) - 1) : ~ Stops(p, cs[i]) /\ ~ Takes(p, cs[i]),
         NEW reason, ClosedAt(a, b, p, Len(cs), reason),
         (reason = "stop-loss") <=> (p.opened < Len(cs) /\ Stops(p, cs[Len(cs)])),
         (reason = "take-profit") <=> (p.opened < Len(cs) /\ Takes(p, cs[Len(cs)])
                                       /\ ~ Stops(p, cs[Len(cs)]))
  PROVE  AccountTouch(b, cs)
<1>1. Shape(b) /\ b.position = {}
  BY DEF ClosedAt
<1>2. PICK S : a.trades \in Seq(S)
  BY DEF ClosedAt
<1>3. PICK tr : /\ b.trades = Append(a.trades, tr)
                /\ tr.entry = p.opened /\ tr.exit = Len(cs) /\ tr.reason = reason
                /\ tr.stop = p.stop /\ tr.target = p.target
  BY DEF ClosedAt
<1>4. \A c : (Stops(tr, c) <=> Stops(p, c)) /\ (Takes(tr, c) <=> Takes(p, c))
  BY <1>3 DEF Stops, Takes
<1>5. TradeTouch(tr, cs)
  <2>1. tr.entry \in Nat /\ tr.exit \in 1..Len(cs)
    BY <1>3
  <2>2. ASSUME NEW i \in (tr.entry + 1)..tr.exit, Stops(tr, cs[i]) \/ Takes(tr, cs[i])
        PROVE  i = tr.exit
    <3>1. i \notin (p.opened + 1)..(Len(cs) - 1)
      BY <1>4, <2>2
    <3> QED BY <1>3, <2>1, <3>1
  <2>3. /\ (tr.reason = "stop-loss") <=> (tr.entry < tr.exit /\ Stops(tr, cs[tr.exit]))
        /\ (tr.reason = "take-profit") <=> (tr.entry < tr.exit /\ Takes(tr, cs[tr.exit])
                                            /\ ~ Stops(tr, cs[tr.exit]))
    BY <1>3, <1>4
  <2> QED BY <2>1, <2>2, <2>3 DEF TradeTouch
<1>6. TradesTouch(b, cs)
  <2> SUFFICES ASSUME NEW k \in DOMAIN b.trades PROVE TradeTouch(b.trades[k], cs)
    BY DEF TradesTouch
  <2>1. /\ k \in 1..(Len(a.trades) + 1) /\ Len(a.trades) \in Nat
        /\ DOMAIN a.trades = 1..Len(a.trades)
        /\ \A i \in 1..Len(a.trades) : b.trades[i] = a.trades[i]
        /\ b.trades[Len(a.trades) + 1] = tr
    BY <1>2, <1>3, Appended
  <2>2. CASE k = Len(a.trades) + 1
    BY <1>5, <2>1, <2>2
  <2>3. CASE k # Len(a.trades) + 1
    <3>1. k \in 1..Len(a.trades)
      BY <2>1, <2>3
    <3> QED BY <2>1, <3>1 DEF TradesTouch
  <2> QED BY <2>2, <2>3
<1> QED BY <1>1, <1>6 DEF AccountTouch

\* The stop and target check of a new candle.
LEMMA StopTakeTouch ==
  ASSUME NEW cs, Counting(cs), NEW a, AccountTouch(a, cs), NEW b \in Bars
  PROVE  LET bar == Candle(b, Len(cs) + 1)
         IN  AccountTouch(StopTake(a, bar), Append(cs, bar))
<1> DEFINE bar == Candle(b, Len(cs) + 1)
           ds == Append(cs, bar)
           n == Len(cs)
<1>1. /\ Len(ds) = n + 1 /\ n \in Nat /\ \A i \in 1..n : ds[i] = cs[i]
      /\ ds[n + 1] = bar /\ bar.t = n + 1
  BY NextCandle
<1> HIDE DEF bar, ds
<1>2. Shape(a) /\ TradesTouch(a, ds)
  BY <1>1, TradeTouchStays DEF AccountTouch, TradesTouch
<1>3. \A p \in a.position : /\ p.opened \in 1..Len(ds) /\ p.opened < bar.t
                            /\ \A i \in (p.opened + 1)..n : ~ Stops(p, ds[i]) /\ ~ Takes(p, ds[i])
  <2> SUFFICES ASSUME NEW p \in a.position
               PROVE  /\ p.opened \in 1..Len(ds) /\ p.opened < bar.t
                      /\ \A i \in (p.opened + 1)..n : ~ Stops(p, ds[i]) /\ ~ Takes(p, ds[i])
    OBVIOUS
  <2>1. OpenTouch(p, cs)
    BY DEF AccountTouch
  <2>2. p.opened \in 1..n
    BY <2>1 DEF OpenTouch
  <2>3. \A i \in (p.opened + 1)..n : ds[i] = cs[i]
    BY <1>1, <2>2
  <2> QED BY <1>1, <2>1, <2>2, <2>3 DEF OpenTouch
<1>4. ASSUME StopTake(a, bar) = a,
             \A p \in a.position : p.opened < bar.t => ~ Stops(p, bar) /\ ~ Takes(p, bar)
      PROVE  AccountTouch(StopTake(a, bar), ds)
  <2>1. ASSUME NEW p \in a.position PROVE OpenTouch(p, ds)
    <3>1. p.opened \in 1..(n + 1) /\ ~ Stops(p, ds[n + 1]) /\ ~ Takes(p, ds[n + 1])
      BY <1>1, <1>3, <1>4
    <3>2. ASSUME NEW i \in (p.opened + 1)..(n + 1)
          PROVE  ~ Stops(p, ds[i]) /\ ~ Takes(p, ds[i])
      <4>1. i = n + 1 \/ i \in (p.opened + 1)..n
        BY <1>1, <3>1
      <4> QED BY <1>3, <3>1, <4>1
    <3> QED BY <1>1, <3>1, <3>2 DEF OpenTouch
  <2>2. AccountTouch(a, ds)
    BY <1>2, <2>1 DEF AccountTouch
  <2>3. StopTake(a, bar) = a
    BY <1>4
  <2> QED BY <2>2, <2>3
<1>5. ASSUME NEW p, NEW reason, a.position = {p}, p.opened < bar.t,
             ClosedAt(a, StopTake(a, bar), p, bar.t, reason),
             \/ Stops(p, bar) /\ reason = "stop-loss"
             \/ ~ Stops(p, bar) /\ Takes(p, bar) /\ reason = "take-profit"
      PROVE  AccountTouch(StopTake(a, bar), ds)
  <2>1. /\ p.opened \in 1..Len(ds) /\ p.opened < Len(ds) /\ bar.t = Len(ds) /\ ds[Len(ds)] = bar
        /\ Len(ds) \in Nat /\ Len(ds) - 1 = n
    BY <1>1, <1>3, <1>5
  <2>2. \A i \in (p.opened + 1)..(Len(ds) - 1) : ~ Stops(p, ds[i]) /\ ~ Takes(p, ds[i])
    BY <1>3, <1>5, <2>1
  <2>3. /\ (reason = "stop-loss") <=> (p.opened < Len(ds) /\ Stops(p, ds[Len(ds)]))
        /\ (reason = "take-profit") <=> (p.opened < Len(ds) /\ Takes(p, ds[Len(ds)])
                                         /\ ~ Stops(p, ds[Len(ds)]))
    BY <1>5, <2>1
  <2>4. ClosedAt(a, StopTake(a, bar), p, Len(ds), reason)
    BY <1>5, <2>1
  <2> QED BY <1>2, <2>1, <2>2, <2>3, <2>4, ClosedTouch
<1>6. AccountTouch(StopTake(a, bar), ds)
  <2> DEFINE untouched == /\ StopTake(a, bar) = a
                          /\ \A p \in a.position :
                               p.opened < bar.t => ~ Stops(p, bar) /\ ~ Takes(p, bar)
             hit(p, reason) ==
               /\ a.position = {p} /\ p.opened < bar.t
               /\ ClosedAt(a, StopTake(a, bar), p, bar.t, reason)
               /\ \/ Stops(p, bar) /\ reason = "stop-loss"
                  \/ ~ Stops(p, bar) /\ Takes(p, bar) /\ reason = "take-profit"
  <2>1. untouched \/ \E p, reason : hit(p, reason)
    BY <1>2, StopTakeIs
  <2>2. CASE untouched
    BY <1>4, <2>2
  <2>3. CASE \E p, reason : hit(p, reason)
    <3>1. PICK p, reason : hit(p, reason)
      BY <2>3
    <3> QED BY <1>5, <3>1
  <2> QED BY <2>1, <2>2, <2>3
<1> QED BY <1>6 DEF bar, ds

\* Closing an untouched position on the last candle, by a signal or at the end.
LEMMA UntouchedClosed ==
  ASSUME NEW cs, Len(cs) \in Nat, NEW a, AccountTouch(a, cs), NEW p, a.position = {p},
         NEW b, NEW reason \in {"signal", "end-of-data"}, ClosedAt(a, b, p, Len(cs), reason)
  PROVE  AccountTouch(b, cs)
<1>1. OpenTouch(p, cs) /\ TradesTouch(a, cs)
  BY DEF AccountTouch
<1>2. p.opened \in 1..Len(cs)
  BY <1>1 DEF OpenTouch
<1>3. \A i \in (p.opened + 1)..Len(cs) : ~ Stops(p, cs[i]) /\ ~ Takes(p, cs[i])
  BY <1>1 DEF OpenTouch
<1>4. \A i \in (p.opened + 1)..(Len(cs) - 1) : i \in (p.opened + 1)..Len(cs)
  BY <1>2
<1>5. p.opened < Len(cs) => Len(cs) \in (p.opened + 1)..Len(cs)
  BY <1>2
<1>6. reason # "stop-loss" /\ reason # "take-profit"
  OBVIOUS
<1>7. ~ (p.opened < Len(cs) /\ Stops(p, cs[Len(cs)]))
      /\ ~ (p.opened < Len(cs) /\ Takes(p, cs[Len(cs)]))
  BY <1>3, <1>5
<1> QED BY <1>1, <1>2, <1>3, <1>4, <1>6, <1>7, ClosedTouch

\* One candle.
LEMMA BarTouch ==
  ASSUME TouchInv, NEW b \in Bars, ProcessBar(b)
  PROVE  TouchInv'
<1> DEFINE bar == Candle(b, Len(candles) + 1)
           ds == Append(candles, bar)
           open == Marked(StopTake(account, bar))
           signal == Evaluate(strategy, ds, open.position, open.held)
<1>1. candles' = ds /\ account' = Acted(open, bar, signal)
  BY DEF ProcessBar
<1>2. Counting(ds) /\ Len(ds) \in Nat /\ bar.t = Len(ds) /\ Len(ds) = Len(candles) + 1
      /\ Len(candles) \in Nat
  BY NextCandle DEF TouchInv
<1>3. AccountTouch(StopTake(account, bar), ds)
  BY StopTakeTouch DEF TouchInv
<1> DEFINE hit == StopTake(account, bar)
<1> HIDE DEF bar, ds, signal, hit
<1>4. AccountTouch(open, ds)
  <2>1. AccountTouch(hit, ds) /\ open = Marked(hit)
    BY <1>3 DEF hit
  <2>2. Shape(open) /\ open.position = hit.position /\ open.trades = hit.trades
    BY <2>1, MarkedIs DEF AccountTouch
  <2> QED BY <2>1, <2>2 DEF AccountTouch, TradesTouch
<1> HIDE DEF open
<1> DEFINE acted == Acted(open, bar, signal)
<1>5. CASE acted = open
  BY <1>1, <1>2, <1>4, <1>5 DEF TouchInv
<1>6. CASE /\ open.position = {} /\ Shape(acted)
           /\ acted.trades = open.trades
           /\ \E p : acted.position = {p} /\ p.opened = bar.t
  <2> HIDE DEF acted
  <2>1. PICK p : acted.position = {p} /\ p.opened = Len(ds)
    BY <1>2, <1>6
  <2>2. OpenTouch(p, ds)
    BY <1>2, <2>1 DEF OpenTouch
  <2>3. AccountTouch(acted, ds)
    BY <1>4, <1>6, <2>1, <2>2 DEF AccountTouch, TradesTouch
  <2> QED BY <1>1, <1>2, <2>3 DEF TouchInv, acted
<1>7. ASSUME NEW p, open.position = {p}, ClosedAt(open, acted, p, bar.t, "signal")
      PROVE  TouchInv'
  <2>1. AccountTouch(acted, ds)
    <3> HIDE DEF acted
    <3> QED BY <1>2, <1>4, <1>7, UntouchedClosed
  <2> QED BY <1>1, <1>2, <2>1 DEF TouchInv
<1>8. Shape(open)
  BY <1>4 DEF AccountTouch
<1> QED BY <1>5, <1>6, <1>7, <1>8, ActedIs

\* The forced close.
LEMMA FinishTouch ==
  ASSUME TouchInv, Finish
  PROVE  TouchInv'
<1>1. candles' = candles /\ account' = ForceClosed(account) /\ candles # <<>>
  BY DEF Finish
<1>2. CASE account.position = {}
  BY <1>1, <1>2 DEF TouchInv, ForceClosed
<1>3. CASE account.position # {}
  <2>1. PICK p : account.position = {p}
    BY <1>3 DEF TouchInv, AccountTouch, Shape
  <2> DEFINE bar == candles[Len(candles)]
  <2>2. ForceClosed(account) = Closed(account, bar.close, bar.t, "end-of-data")
    BY <1>3 DEF ForceClosed
  <2>3. Len(candles) \in 1..Len(candles) /\ Len(candles) \in Nat
    BY <1>1 DEF TouchInv, Counting
  <2>4. bar.t = Len(candles)
    BY <2>3 DEF TouchInv, Counting
  <2> HIDE DEF bar
  <2>5. ClosedAt(account, ForceClosed(account), p, Len(candles), "end-of-data")
    BY <2>1, <2>2, <2>4, ClosedIs DEF TouchInv, AccountTouch
  <2>6. AccountTouch(ForceClosed(account), candles)
    BY <2>1, <2>3, <2>5, UntouchedClosed DEF TouchInv
  <2> QED BY <1>1, <2>6 DEF TouchInv
<1> QED BY <1>2, <1>3

\* For every series and every strategy: a trade's exit candle is the first one
\* after its entry that touches its stop or its target, it is booked as stopped
\* out whenever that candle touches the stop, and no exit by a signal or at the
\* end of the data passes over a touch.
THEOREM FirstTouchAlways == Spec => []FirstTouch
<1>1. Init => TouchInv
  <2> SUFFICES ASSUME Init PROVE TouchInv
    OBVIOUS
  <2>1. candles = <<>> /\ Counting(candles)
    BY DEF Init, Counting
  <2>2. account = [cash |-> StartCash, position |-> {}, held |-> 0, trades |-> <<>>]
    BY DEF Init
  <2>3. <<>> \in Seq({})
    OBVIOUS
  <2>4. Shape(account) /\ account.position = {} /\ account.trades = <<>>
    BY <2>2, <2>3, ShapeIs
  <2> QED BY <2>1, <2>4 DEF TouchInv, AccountTouch, TradesTouch
<1>2. TouchInv /\ [Next]_vars => TouchInv'
  <2> SUFFICES ASSUME TouchInv, [Next]_vars PROVE TouchInv'
    OBVIOUS
  <2>1. CASE UNCHANGED vars
    BY <2>1 DEF vars, TouchInv
  <2> QED BY <2>1, BarTouch, FinishTouch DEF Next
<1>3. TouchInv => FirstTouch
  <2> SUFFICES ASSUME TouchInv, NEW k \in DOMAIN account.trades
               PROVE  LET tr == account.trades[k]
                          stopped == {i \in (tr.entry + 1)..tr.exit :
                                        \E s \in tr.stop : candles[i].low <= s}
                          taken == {i \in (tr.entry + 1)..tr.exit :
                                      \E g \in tr.target : candles[i].high >= g}
                      IN  /\ stopped \cup taken \subseteq {tr.exit}
                          /\ tr.reason = "stop-loss" <=> tr.exit \in stopped
                          /\ tr.reason = "take-profit" <=> tr.exit \in taken \ stopped
    BY DEF FirstTouch
  <2> DEFINE tr == account.trades[k]
  <2>1. TradeTouch(tr, candles)
    BY DEF TouchInv, AccountTouch, TradesTouch
  <2> HIDE DEF tr
  <2>2. tr.entry \in Nat /\ tr.exit \in Nat
    BY <2>1 DEF TradeTouch
  <2>3. tr.entry < tr.exit <=> tr.exit \in (tr.entry + 1)..tr.exit
    BY <2>2
  <2> DEFINE stopped == {i \in (tr.entry + 1)..tr.exit : Stops(tr, candles[i])}
             taken == {i \in (tr.entry + 1)..tr.exit : Takes(tr, candles[i])}
  <2>4. /\ stopped \cup taken \subseteq {tr.exit}
        /\ (tr.reason = "stop-loss") <=> (tr.exit \in stopped)
        /\ (tr.reason = "take-profit") <=> (tr.exit \in taken \ stopped)
    BY <2>1, <2>3 DEF TradeTouch
  <2> QED BY <2>4 DEF Stops, Takes, tr
<1> QED BY <1>1, <1>2, <1>3, PTL DEF Spec

---------------------------------------------------------------------------
(* Series: the averages are defined by a recurrence along the window *)

\* e is the series in V that starts with base and goes on by g.
SeriesOf(e, first, last, V, base, g) ==
  /\ e \in [first..last -> V]
  /\ \A i \in first..last : e[i] = IF i = first THEN base ELSE g[<<e[i - 1], i>>]

\* A recurrence that stays in a set has a solution.
LEMMA SeriesExists ==
  ASSUME NEW first \in Nat, NEW last \in Nat, NEW V, NEW base \in V, NEW g \in [V \X Nat -> V]
  PROVE  \E e : SeriesOf(e, first, last, V, base, g)
<1> USE DEF SeriesOf
<1> DEFINE Solves(e, m) == SeriesOf(e, first, m, V, base, g)
           Bad == {m \in first..last : ~ \E e : Solves(e, m)}
<1>1. CASE last < first
  <2>1. first..last = {}
    BY <1>1
  <2>2. [i \in first..last |-> base] \in [first..last -> V]
    OBVIOUS
  <2> QED BY <2>1, <2>2
<1>2. CASE first <= last
  <2>1. Bad = {}
    <3> SUFFICES ASSUME Bad # {} PROVE FALSE
      OBVIOUS
    <3>1. PICK m \in Bad : \A y \in Bad : m <= y
      <4>1. Bad \in SUBSET Nat
        OBVIOUS
      <4> HIDE DEF Bad
      <4> QED BY <4>1, LeastNat
    <3>2. m \in Nat /\ first <= m
      OBVIOUS
    <3>3. CASE m = first
      <4> DEFINE e == [i \in first..m |-> base]
      <4>1. Solves(e, m)
        BY <3>3
      <4> QED BY <4>1
    <3>4. CASE m # first
      <4>1. m - 1 \in first..last /\ m - 1 \notin Bad
        <5>1. m - 1 \in first..last /\ ~ (m <= m - 1)
          BY <3>2, <3>4
        <5> HIDE DEF Bad
        <5> QED BY <3>1, <5>1
      <4>2. PICK d : Solves(d, m - 1)
        BY <4>1
      <4> DEFINE e == [i \in first..m |-> IF i = m THEN g[<<d[m - 1], m>>] ELSE d[i]]
      <4>3. d[m - 1] \in V /\ <<d[m - 1], m>> \in V \X Nat
        BY <3>2, <4>1, <4>2
      <4>4. e \in [first..m -> V]
        BY <3>2, <4>2, <4>3
      <4>5. ASSUME NEW i \in first..m
            PROVE  e[i] = IF i = first THEN base ELSE g[<<e[i - 1], i>>]
        <5>1. CASE i = m
          <6>1. e[i] = g[<<d[m - 1], m>>] /\ e[m - 1] = d[m - 1]
            BY <3>2, <3>4, <5>1
          <6> QED BY <3>4, <5>1, <6>1
        <5>2. CASE i # m
          <6>1. i \in first..(m - 1) /\ e[i] = d[i]
            BY <3>2, <5>2
          <6>2. i # first => e[i - 1] = d[i - 1]
            BY <3>2, <5>2
          <6> QED BY <4>2, <6>1, <6>2
        <5> QED BY <5>1, <5>2
      <4>6. Solves(e, m)
        BY <4>4, <4>5
      <4> QED BY <4>6
    <3> QED BY <3>3, <3>4
  <2>2. last \in first..last
    BY <1>2
  <2>3. PICK e : Solves(e, last)
    BY <2>1, <2>2
  <2> QED BY <2>3
<1> QED BY <1>1, <1>2

\* Two series start alike, and go on alike from like entries.
GoAlike(d, e, first, last) ==
  /\ first <= last => d[first] = e[first]
  /\ \A i \in (first + 1)..last : d[i - 1] = e[i - 1] => d[i] = e[i]

\* Then they are equal.
LEMMA SeriesEqual ==
  ASSUME NEW first \in Nat, NEW last \in Nat, NEW d, NEW e, GoAlike(d, e, first, last)
  PROVE  \A i \in first..last : d[i] = e[i]
<1> DEFINE Bad == {i \in first..last : d[i] # e[i]}
<1> SUFFICES ASSUME Bad # {} PROVE FALSE
  OBVIOUS
<1>1. PICK m \in Bad : \A y \in Bad : m <= y
  <2>1. Bad \in SUBSET Nat
    OBVIOUS
  <2> HIDE DEF Bad
  <2> QED BY <2>1, LeastNat
<1>2. m \in first..last /\ d[m] # e[m]
  OBVIOUS
<1>3. m # first
  BY <1>2 DEF GoAlike
<1>4. m \in (first + 1)..last /\ m - 1 \in first..last /\ m - 1 \notin Bad
  BY <1>1, <1>2, <1>3
<1> QED BY <1>2, <1>4 DEF GoAlike

\* The sum of the first n values is the entry of their partial sums.
LEMMA SumFromOne ==
  ASSUME NEW n \in Nat, NEW f, NEW p, IsPrefixSum(p, f, n)
  PROVE  SumFromTo(f, 1, n) = p[n]
<1> DEFINE Eqn(s) == s = [i \in (1 - 1)..n |-> IF i < 1 THEN 0 ELSE s[i - 1] + f[i]]
           s == CHOOSE t : Eqn(t)
<1>1. Eqn(p)
  <2>1. 1 - 1 = 0 /\ p = [i \in 0..n |-> p[i]] /\ p[0] = 0
    BY DEF IsPrefixSum
  <2>2. \A i \in 0..n : p[i] = IF i < 1 THEN 0 ELSE p[i - 1] + f[i]
    BY <2>1 DEF IsPrefixSum
  <2> QED BY <2>1, <2>2
<1>2. SumFromTo(f, 1, n) = s[n]
  BY Zenon DEF SumFromTo
<1>3. Eqn(s)
  <2> HIDE DEF Eqn
  <2> QED BY <1>1
<1> HIDE DEF s
<1>4. GoAlike(s, p, 0, n)
  BY <1>1, <1>3 DEF GoAlike
<1>5. \A i \in 0..n : s[i] = p[i]
  BY <1>4, SeriesEqual
<1> QED BY <1>2, <1>5

\* It is an integer, and depends on these n values alone.
LEMMA SumFromOneIs ==
  ASSUME NEW v \in Seq(Int), NEW n \in 0..Len(v)
  PROVE  /\ SumFromTo(v, 1, n) \in Int
         /\ \A w : (\A i \in 1..n : w[i] = v[i]) => SumFromTo(w, 1, n) = SumFromTo(v, 1, n)
<1> DEFINE f == [i \in 1..n |-> v[i]]
<1>1. n \in Nat /\ f \in [1..n -> Int]
  OBVIOUS
<1>2. PICK p : IsPrefixSum(p, f, n)
  <2> HIDE DEF f
  <2> QED BY <1>1, PrefixSumExists
<1>3. p[n] \in Int
  BY <1>1, <1>2 DEF IsPrefixSum
<1>4. ASSUME NEW w, \A i \in 1..n : w[i] = v[i] PROVE SumFromTo(w, 1, n) = p[n]
  <2>1. \A i \in 1..n : w[i] = f[i]
    BY <1>4
  <2>2. IsPrefixSum(p, w, n)
    <3> HIDE DEF f
    <3> QED BY <1>2, <2>1 DEF IsPrefixSum
  <2> QED BY <1>1, <2>2, SumFromOne
<1>5. SumFromTo(v, 1, n) = p[n]
  BY <1>4
<1> QED BY <1>3, <1>4, <1>5

\* A step of the recurrence of ema.
EmaNext(v, period, x, i) == <<2 * v[i] * x[2] + (period - 1) * x[1], (period + 1) * x[2]>>

\* ema: the recurrence has a solution, in pairs of integers.
LEMMA EmaIs ==
  ASSUME NEW v, NEW period \in Nat, period # 0
  PROVE  v \in Seq(Int) =>
           \A i \in period..Len(v) :
             /\ Ema(v, period)[i] \in Int \X Int
             /\ Ema(v, period)[i] = IF i = period THEN <<SumFromTo(v, 1, period), period>>
                                    ELSE EmaNext(v, period, Ema(v, period)[i - 1], i)
<1>0. SUFFICES ASSUME v \in Seq(Int)
               PROVE  \A i \in period..Len(v) :
                        /\ Ema(v, period)[i] \in Int \X Int
                        /\ Ema(v, period)[i] = IF i = period THEN <<SumFromTo(v, 1, period), period>>
                                               ELSE EmaNext(v, period, Ema(v, period)[i - 1], i)
  OBVIOUS
<1> DEFINE V == Int \X Int
           n == Len(v)
           base == IF period <= n THEN <<SumFromTo(v, 1, period), period>> ELSE <<0, 1>>
           g == [xi \in V \X Nat |-> IF xi[2] \in 1..n THEN EmaNext(v, period, xi[1], xi[2]) ELSE base]
           Eqn(e) == e = [i \in period..n |->
                            IF i = period THEN <<SumFromTo(v, 1, period), period>>
                            ELSE <<2 * v[i] * e[i - 1][2] + (period - 1) * e[i - 1][1],
                                   (period + 1) * e[i - 1][2]>>]
<1>1. n \in Nat /\ period \in Nat
  BY <1>0
<1>2. base \in V
  <2>1. CASE period <= n
    <3>1. period \in 0..Len(v)
      BY <1>1, <2>1
    <3>2. SumFromTo(v, 1, period) \in Int
      BY <1>0, <3>1, SumFromOneIs
    <3> QED BY <2>1, <3>2
  <2>2. CASE ~ (period <= n)
    BY <2>2
  <2> QED BY <2>1, <2>2
<1>3. ASSUME NEW x \in V, NEW i \in 1..n PROVE EmaNext(v, period, x, i) \in V
  <2>1. x[1] \in Int /\ x[2] \in Int /\ v[i] \in Int
    BY <1>0
  <2>2. 2 * v[i] * x[2] \in Int /\ (period - 1) * x[1] \in Int /\ (period + 1) * x[2] \in Int
    BY <2>1
  <2> QED BY <2>2 DEF EmaNext
<1> HIDE DEF base
<1>4. g \in [V \X Nat -> V]
  BY <1>2, <1>3
<1>5. PICK e : /\ e \in [period..n -> V]
               /\ \A i \in period..n : e[i] = IF i = period THEN base ELSE g[<<e[i - 1], i>>]
  <2> HIDE DEF V, g, n
  <2>1. \E e : SeriesOf(e, period, n, V, base, g)
    BY <1>1, <1>2, <1>4, SeriesExists
  <2> QED BY <2>1 DEF SeriesOf
<1>6. ASSUME NEW i \in period..n
      PROVE  e[i] = IF i = period THEN <<SumFromTo(v, 1, period), period>>
                    ELSE EmaNext(v, period, e[i - 1], i)
  <2>1. CASE i = period
    <3>1. period <= n
      BY <1>1
    <3>2. base = <<SumFromTo(v, 1, period), period>>
      BY <3>1 DEF base
    <3> QED BY <1>5, <2>1, <3>2
  <2>2. CASE i # period
    <3>1. i \in 1..n /\ i - 1 \in period..n /\ e[i - 1] \in V
      <4>1. i \in 1..n /\ i - 1 \in period..n
        BY <1>1, <2>2
      <4> QED BY <1>5, <4>1
    <3>2. <<e[i - 1], i>> \in V \X Nat
      BY <3>1
    <3>3. g[<<e[i - 1], i>>] = EmaNext(v, period, e[i - 1], i)
      BY <3>1, <3>2
    <3> QED BY <1>5, <2>2, <3>3
  <2> QED BY <2>1, <2>2
<1>7. Eqn(e)
  <2>1. e = [i \in period..n |-> e[i]]
    BY <1>5
  <2> QED BY <1>6, <2>1 DEF EmaNext
<1> DEFINE s == CHOOSE t : Eqn(t)
<1>8. Ema(v, period) = s
  BY Zenon DEF Ema
<1>9. Eqn(s)
  <2> HIDE DEF Eqn
  <2> QED BY <1>7
<1> HIDE DEF s
<1>10. \A i \in period..n : s[i] = IF i = period THEN <<SumFromTo(v, 1, period), period>>
                                   ELSE EmaNext(v, period, s[i - 1], i)
  BY <1>9 DEF EmaNext
<1> HIDE DEF Eqn, V, g, n
<1>11. \A i \in period..n : s[i] = e[i]
  <2>1. period <= n => s[period] = e[period]
    BY <1>1, <1>6, <1>10
  <2>2. \A i \in (period + 1)..n : s[i - 1] = e[i - 1] => s[i] = e[i]
    BY <1>1, <1>6, <1>10
  <2>3. GoAlike(s, e, period, n)
    BY <2>1, <2>2 DEF GoAlike
  <2> QED BY <1>1, <2>3, SeriesEqual
<1>12. \A i \in period..n : s[i] \in V
  BY <1>5, <1>11
<1> QED BY <1>8, <1>10, <1>12 DEF n, V

\* A new value leaves the averages before it as they were.
LEMMA EmaStays ==
  ASSUME NEW v, NEW w, NEW period \in Nat, period # 0
  PROVE  (/\ v \in Seq(Int) /\ w \in Seq(Int) /\ Len(w) = Len(v) + 1
          /\ \A i \in 1..Len(v) : w[i] = v[i])
         => \A i \in period..Len(v) : Ema(w, period)[i] = Ema(v, period)[i]
<1>0. SUFFICES ASSUME v \in Seq(Int), w \in Seq(Int), Len(w) = Len(v) + 1,
                      \A i \in 1..Len(v) : w[i] = v[i]
               PROVE  \A i \in period..Len(v) : Ema(w, period)[i] = Ema(v, period)[i]
  OBVIOUS
<1> DEFINE d == Ema(w, period)
           e == Ema(v, period)
           n == Len(v)
<1>1. n \in Nat /\ period \in Nat
  BY <1>0
<1>2. \A i \in period..n : i \in period..Len(w) /\ w[i] = v[i]
  BY <1>0, <1>1
<1>3. period <= n => SumFromTo(w, 1, period) = SumFromTo(v, 1, period)
  <2> SUFFICES ASSUME period <= n PROVE SumFromTo(w, 1, period) = SumFromTo(v, 1, period)
    OBVIOUS
  <2>1. period \in 0..Len(v) /\ \A i \in 1..period : w[i] = v[i]
    BY <1>0, <1>1
  <2> QED BY <1>0, <2>1, SumFromOneIs
<1>4. \A i \in period..n : e[i] = IF i = period THEN <<SumFromTo(v, 1, period), period>>
                                  ELSE EmaNext(v, period, e[i - 1], i)
  BY <1>0, EmaIs
<1>5. \A i \in period..n : d[i] = IF i = period THEN <<SumFromTo(w, 1, period), period>>
                                  ELSE EmaNext(v, period, d[i - 1], i)
  <2>1. \A i \in period..Len(w) : d[i] = IF i = period THEN <<SumFromTo(w, 1, period), period>>
                                         ELSE EmaNext(w, period, d[i - 1], i)
    BY <1>0, EmaIs
  <2>2. \A i \in period..n : \A x : EmaNext(w, period, x, i) = EmaNext(v, period, x, i)
    BY <1>2 DEF EmaNext
  <2> QED BY <1>2, <2>1, <2>2
<1> HIDE DEF d, e, n
<1>6. period <= n => d[period] = e[period]
  BY <1>1, <1>3, <1>4, <1>5
<1>7. \A i \in (period + 1)..n : d[i - 1] = e[i - 1] => d[i] = e[i]
  BY <1>1, <1>4, <1>5
<1>8. \A i \in period..n : d[i] = e[i]
  <2>1. GoAlike(d, e, period, n)
    BY <1>6, <1>7 DEF GoAlike
  <2> QED BY <1>1, <2>1, SeriesEqual
<1> QED BY <1>8 DEF d, e, n

---------------------------------------------------------------------------
(* The strategies that follow the averages *)

Trending == {"ema_crossover", "ema_rsi", "ema_trend"}

\* The window is long enough for the strategy to judge its last candle.
Ready(st, n) ==
  /\ AveragesReady(n)
  /\ st = "ema_crossover" => ~ (n < SlowPeriod + Warmup)
  /\ st = "ema_rsi" => ~ (n < Max({SlowPeriod, RsiPeriod}) + Warmup + 1)
  /\ st = "ema_trend" => EmaTrendReady(n)

FastAt(cs, i) == Ema(Closes(cs), FastPeriod)[i]
SlowAt(cs, i) == Ema(Closes(cs), SlowPeriod)[i]

\* NeverAgainstTrend is not inductive: a window that has become long enough must
\* stay so, or a strategy might hold by default on the candle of the cross.
TrendInv ==
  /\ Counting(candles) /\ Shape(account)
  /\ account.position # {} /\ strategy \in Trending
       => /\ Ready(strategy, Len(candles))
          /\ AtMost(SlowAt(candles, Len(candles)), FastAt(candles, Len(candles)))

LEMMA MaxOfTwo ==
  ASSUME NEW a \in Nat, NEW b \in Nat
  PROVE  /\ Max({a, b}) \in Nat /\ Max({a, b}) >= a /\ Max({a, b}) >= b
         /\ Max({a, b}) = a \/ Max({a, b}) = b
<1>1. \E x \in {a, b} : \A y \in {a, b} : x >= y
  OBVIOUS
<1> QED BY <1>1 DEF Max

LEMMA PeriodsAre ==
  /\ FastPeriod \in Nat /\ FastPeriod # 0 /\ SlowPeriod \in Nat /\ SlowPeriod # 0
  /\ RsiPeriod \in Nat /\ AtrPeriod \in Nat /\ AtrPeriod # 0 /\ VolumePeriod \in Nat /\ Warmup \in Nat
BY PeriodsAssumption

\* One more candle keeps a strategy ready, and its averages exist.
LEMMA ReadyStays ==
  ASSUME NEW n \in Nat, NEW st, Ready(st, n)
  PROVE  Ready(st, n + 1) /\ FastPeriod <= n - 1 /\ SlowPeriod <= n - 1
<1> DEFINE m == Max({FastPeriod, SlowPeriod})
           k == Max({SlowPeriod, RsiPeriod})
<1>1. m \in Nat /\ m >= FastPeriod /\ m >= SlowPeriod /\ k \in Nat
  BY PeriodsAre, MaxOfTwo
<1>2. n - 1 >= m /\ (st = "ema_rsi" => ~ (n < k + Warmup + 1))
  BY DEF Ready, AveragesReady
<1>3. st = "ema_trend" => /\ n >= SlowPeriod + 2 /\ n > RsiPeriod /\ n >= AtrPeriod
                          /\ n >= VolumePeriod
  BY DEF Ready, EmaTrendReady
<1>4. st = "ema_crossover" => ~ (n < SlowPeriod + Warmup)
  BY DEF Ready
<1> HIDE DEF m, k
<1>5. n + 1 - 1 >= m /\ (st = "ema_rsi" => ~ (n + 1 < k + Warmup + 1))
  BY <1>1, <1>2, PeriodsAre
<1>6. st = "ema_trend" => /\ n + 1 >= SlowPeriod + 2 /\ n + 1 > RsiPeriod /\ n + 1 >= AtrPeriod
                          /\ n + 1 >= VolumePeriod
  BY <1>3, PeriodsAre
<1>7. st = "ema_crossover" => ~ (n + 1 < SlowPeriod + Warmup)
  BY <1>4, PeriodsAre
<1>8. FastPeriod <= n - 1 /\ SlowPeriod <= n - 1
  BY <1>1, <1>2, PeriodsAre
<1>9. AveragesReady(n + 1)
  BY <1>5 DEF AveragesReady, m
<1> QED BY <1>5, <1>6, <1>7, <1>8, <1>9 DEF Ready, EmaTrendReady, k

\* A strategy that follows the averages buys only when it is ready and the fast
\* one is above, and when it is ready it does not hold through a cross under.
LEMMA TrendSignal ==
  ASSUME NEW cs, Counting(cs), NEW st \in Trending, NEW position, NEW held
  PROVE  LET n == Len(cs)
             direction == Evaluate(st, cs, position, held).direction
         IN  /\ direction = "BUY" => Ready(st, n) /\ Less(SlowAt(cs, n), FastAt(cs, n))
             /\ Ready(st, n) /\ position # {} /\ direction \notin {"EXIT", "SELL"}
                  => ~ CrossedDown(Closes(cs))
<1> DEFINE n == Len(cs)
           closes == Closes(cs)
           signal == Evaluate(st, cs, position, held)
           above == Less(SlowAt(cs, n), FastAt(cs, n))
<1>0. /\ \A a, b : Signal("HOLD", a, b).direction = "HOLD" /\ Signal("BUY", a, b).direction = "BUY"
      /\ \A a, b : Signal("SELL", a, b).direction = "SELL" /\ Signal("EXIT", a, b).direction = "EXIT"
      /\ Hold.direction = "HOLD"
  BY DEF Signal, Hold
<1>1. Len(closes) = n /\ n \in Nat
  BY DEF Closes, Counting
<1>2. CrossedUp(closes) => above
  BY <1>1, Zenon DEF CrossedUp, SlowAt, FastAt
<1>3. CASE st = "ema_crossover"
  <2>1. signal = EmaCrossover(cs, position, held)
    BY <1>3 DEF Evaluate
  <2>2. Ordered(cs)
    BY DEF Ordered, Counting
  <2> DEFINE idle == n < SlowPeriod + Warmup \/ ~ Ordered(cs) \/ ~ AveragesReady(n)
  <2>3. Ready(st, n) <=> ~ idle
    BY <1>3, <2>2 DEF Ready
  <2>4. CASE idle
    <3>1. signal = Hold
      BY <2>1, <2>4 DEF EmaCrossover
    <3> QED BY <1>0, <2>3, <2>4, <3>1
  <2>5. CASE ~ idle
    <3>1. \/ position = {} /\ CrossedUp(closes) /\ \E a, b : signal = Signal("BUY", a, b)
          \/ position # {} /\ CrossedDown(closes) /\ signal = Signal("SELL", {}, {})
          \/ ~ (position # {} /\ CrossedDown(closes)) /\ signal = Hold
      BY <2>1, <2>5 DEF EmaCrossover
    <3> QED BY <1>0, <1>2, <2>3, <2>5, <3>1
  <2> QED BY <2>4, <2>5
<1>4. CASE st = "ema_rsi"
  <2>1. signal = EmaRsi(cs, position, held)
    BY <1>4 DEF Evaluate
  <2> DEFINE idle == n < Max({SlowPeriod, RsiPeriod}) + Warmup + 1 \/ ~ AveragesReady(n)
  <2>3. Ready(st, n) <=> ~ idle
    BY <1>4 DEF Ready
  <2>4. CASE idle
    <3>1. signal = Hold
      BY <2>1, <2>4 DEF EmaRsi
    <3> QED BY <1>0, <2>3, <2>4, <3>1
  <2>5. CASE ~ idle
    <3>1. \/ position = {} /\ CrossedUp(closes) /\ \E a, b : signal = Signal("BUY", a, b)
          \/ position # {} /\ CrossedDown(closes) /\ signal = Signal("SELL", {}, {})
          \/ ~ (position # {} /\ CrossedDown(closes)) /\ signal = Hold
      BY <2>1, <2>5 DEF EmaRsi
    <3> QED BY <1>0, <1>2, <2>3, <2>5, <3>1
  <2> QED BY <2>4, <2>5
<1>5. CASE st = "ema_trend"
  <2>1. signal = EmaTrend(cs, position, held)
    BY <1>5 DEF Evaluate
  <2>2. EmaTrendEnters(cs) => above
    BY Zenon DEF EmaTrendEnters, SlowAt, FastAt
  <2>3. Ready(st, n) <=> EmaTrendReady(n)
    BY <1>5 DEF Ready, EmaTrendReady
  <2>4. CASE ~ EmaTrendReady(n)
    <3>1. signal = Hold
      BY <2>1, <2>4 DEF EmaTrend
    <3> QED BY <1>0, <2>3, <2>4, <3>1
  <2>5. CASE EmaTrendReady(n)
    <3>1. \/ position = {} /\ EmaTrendEnters(cs) /\ \E a, b : signal = Signal("BUY", a, b)
          \/ \E a, b : signal = Signal("EXIT", a, b)
          \/ (position # {} => ~ EmaTrendExits(closes, position, held)) /\ signal = Hold
      BY <2>1, <2>5 DEF EmaTrend
    <3>2. CrossedDown(closes) => EmaTrendExits(closes, position, held)
      BY DEF EmaTrendExits
    <3> QED BY <1>0, <2>2, <2>3, <2>5, <3>1, <3>2
  <2> QED BY <2>4, <2>5
<1> QED BY <1>3, <1>4, <1>5 DEF Trending

LEMMA ClosesAre ==
  ASSUME NEW cs, Counting(cs)
  PROVE  Closes(cs) \in Seq(Int) /\ Len(Closes(cs)) = Len(cs)
         /\ \A i \in 1..Len(cs) : Closes(cs)[i] = cs[i].close
<1>1. cs \in Seq(BarSet) /\ Len(cs) \in Nat /\ DOMAIN cs = 1..Len(cs)
  BY DEF Counting
<1>2. \A i \in 1..Len(cs) : cs[i].close \in Int
  <2> SUFFICES ASSUME NEW i \in 1..Len(cs) PROVE cs[i].close \in Int
    OBVIOUS
  <2>1. cs[i] \in BarSet
    BY <1>1
  <2> QED BY <2>1 DEF BarSet
<1> QED BY <1>1, <1>2 DEF Closes

\* What Acted leaves open was open and is not sold, or is bought.
LEMMA ActedOpen ==
  ASSUME NEW a, Shape(a), NEW bar, NEW signal, Acted(a, bar, signal).position # {}
  PROVE  \/ a.position # {} /\ signal.direction \notin {"EXIT", "SELL"}
         \/ a.position = {} /\ signal.direction = "BUY"
<1>1. CASE a.position = {}
  BY <1>1 DEF Acted
<1>2. CASE a.position # {} /\ signal.direction \in {"EXIT", "SELL"}
  <2>1. PICK p : a.position = {p}
    BY <1>2 DEF Shape
  <2>2. Acted(a, bar, signal) = Closed(a, bar.close, bar.t, "signal")
    BY <1>2 DEF Acted
  <2>3. ClosedAt(a, Closed(a, bar.close, bar.t, "signal"), p, bar.t, "signal")
    BY <2>1, ClosedIs
  <2> QED BY <2>2, <2>3 DEF ClosedAt
<1> QED BY <1>1, <1>2

\* Every step keeps an account an account, and opens none of its own but by a BUY.
LEMMA BarShape ==
  ASSUME Shape(account), NEW b \in Bars, ProcessBar(b)
  PROVE  LET bar == Candle(b, Len(candles) + 1)
             open == Marked(StopTake(account, bar))
         IN  /\ Shape(open) /\ Shape(account')
             /\ open.position # {} => account.position # {}
<1> DEFINE bar == Candle(b, Len(candles) + 1)
           hit == StopTake(account, bar)
           open == Marked(hit)
           signal == Evaluate(strategy, Append(candles, bar), open.position, open.held)
<1>1. account' = Acted(open, bar, signal)
  BY DEF ProcessBar
<1> HIDE DEF bar, signal
<1>2. Shape(hit) /\ (hit.position # {} => account.position # {})
  BY StopTakeIs DEF ClosedAt
<1> HIDE DEF hit
<1>3. Shape(open) /\ open.position = hit.position
  BY <1>2, MarkedIs
<1> HIDE DEF open
<1>4. Shape(Acted(open, bar, signal))
  BY <1>3, ActedIs DEF ClosedAt
<1> QED BY <1>1, <1>2, <1>3, <1>4 DEF bar, hit, open

\* One candle.
LEMMA BarTrend ==
  ASSUME TrendInv, NEW b \in Bars, ProcessBar(b)
  PROVE  TrendInv'
<1> DEFINE n == Len(candles)
           bar == Candle(b, n + 1)
           ds == Append(candles, bar)
           open == Marked(StopTake(account, bar))
           signal == Evaluate(strategy, ds, open.position, open.held)
<1>1. candles' = ds /\ account' = Acted(open, bar, signal) /\ strategy' = strategy
  BY DEF ProcessBar
<1>2. Counting(candles) /\ Counting(ds) /\ Len(ds) = n + 1 /\ n \in Nat
      /\ \A i \in 1..n : ds[i] = candles[i]
  BY NextCandle DEF TrendInv
<1>3. Shape(open) /\ Shape(account') /\ (open.position # {} => account.position # {})
  BY BarShape DEF TrendInv
<1> HIDE DEF bar, open
<1>4. SUFFICES ASSUME account'.position # {}, strategy \in Trending
               PROVE  /\ Ready(strategy, n + 1)
                      /\ AtMost(SlowAt(ds, n + 1), FastAt(ds, n + 1))
  BY <1>1, <1>2, <1>3 DEF TrendInv
<1>5. /\ signal.direction = "BUY" => Ready(strategy, n + 1) /\ Less(SlowAt(ds, n + 1), FastAt(ds, n + 1))
      /\ Ready(strategy, n + 1) /\ open.position # {} /\ signal.direction \notin {"EXIT", "SELL"}
           => ~ CrossedDown(Closes(ds))
  <2> HIDE DEF ds
  <2> QED BY <1>2, <1>4, TrendSignal
<1>6. \/ open.position # {} /\ signal.direction \notin {"EXIT", "SELL"}
      \/ open.position = {} /\ signal.direction = "BUY"
  <2> HIDE DEF signal
  <2> QED BY <1>1, <1>3, <1>4, ActedOpen
<1> HIDE DEF signal, ds, n
<1>7. /\ Closes(ds) \in Seq(Int) /\ Closes(candles) \in Seq(Int)
      /\ Len(Closes(ds)) = Len(Closes(candles)) + 1 /\ Len(Closes(candles)) = n
      /\ \A i \in 1..Len(Closes(candles)) : Closes(ds)[i] = Closes(candles)[i]
  <2>1. Len(candles) = n
    BY DEF n
  <2>2. /\ Closes(ds) \in Seq(Int) /\ Len(Closes(ds)) = n + 1
        /\ \A i \in 1..(n + 1) : Closes(ds)[i] = ds[i].close
    BY <1>2, ClosesAre
  <2>3. /\ Closes(candles) \in Seq(Int) /\ Len(Closes(candles)) = n
        /\ \A i \in 1..n : Closes(candles)[i] = candles[i].close
    BY <1>2, <2>1, ClosesAre
  <2>4. \A i \in 1..n : i \in 1..(n + 1)
    BY <1>2
  <2> QED BY <1>2, <2>2, <2>3, <2>4
<1>8. CASE open.position = {} /\ signal.direction = "BUY"
  <2>1. Ready(strategy, n + 1) /\ Less(SlowAt(ds, n + 1), FastAt(ds, n + 1))
    BY <1>5, <1>8
  <2>2. FastPeriod <= n /\ SlowPeriod <= n
    <3> DEFINE m == n + 1
    <3>1. m \in Nat /\ Ready(strategy, m) /\ m - 1 = n
      BY <1>2, <2>1
    <3> HIDE DEF m
    <3>2. FastPeriod <= m - 1 /\ SlowPeriod <= m - 1
      BY <3>1, ReadyStays
    <3> QED BY <3>1, <3>2
  <2>3. n + 1 \in FastPeriod..Len(Closes(ds)) /\ n + 1 \in SlowPeriod..Len(Closes(ds))
    BY <1>2, <1>7, <2>2, PeriodsAre
  <2>4. SlowAt(ds, n + 1) \in Int \X Int /\ FastAt(ds, n + 1) \in Int \X Int
    BY <1>7, <2>3, EmaIs, PeriodsAre DEF SlowAt, FastAt
  <2>5. AtMost(SlowAt(ds, n + 1), FastAt(ds, n + 1))
    <3> DEFINE x == SlowAt(ds, n + 1)
               y == FastAt(ds, n + 1)
    <3>1. x \in Int \X Int /\ y \in Int \X Int /\ Less(x, y)
      BY <2>1, <2>4
    <3> HIDE DEF x, y
    <3>2. x[1] * y[2] \in Int /\ y[1] * x[2] \in Int
      BY <3>1
    <3>3. ~ Less(y, x)
      BY <3>1, <3>2 DEF Less
    <3> QED BY <3>3 DEF AtMost, x, y
  <2> QED BY <2>1, <2>5
<1>9. CASE open.position # {} /\ signal.direction \notin {"EXIT", "SELL"}
  <2>1. Ready(strategy, n) /\ AtMost(SlowAt(candles, n), FastAt(candles, n))
    BY <1>3, <1>4, <1>9 DEF TrendInv, n
  <2>2. Ready(strategy, n + 1) /\ FastPeriod <= n - 1 /\ SlowPeriod <= n - 1
    BY <1>2, <2>1, ReadyStays
  <2>3. n \in FastPeriod..n /\ n \in SlowPeriod..n
    BY <1>2, <2>2, PeriodsAre
  <2>4. SlowAt(ds, n) = SlowAt(candles, n) /\ FastAt(ds, n) = FastAt(candles, n)
    <3>1. ASSUME NEW period \in Nat, period # 0, n \in period..n
          PROVE  Ema(Closes(ds), period)[n] = Ema(Closes(candles), period)[n]
      <4>1. \A i \in period..Len(Closes(candles)) :
              Ema(Closes(ds), period)[i] = Ema(Closes(candles), period)[i]
        BY <1>7, <3>1, EmaStays
      <4> QED BY <1>7, <3>1, <4>1
    <3> QED BY <2>3, <3>1, PeriodsAre DEF SlowAt, FastAt
  <2>5. ~ CrossedDown(Closes(ds))
    BY <1>5, <1>9, <2>2
  <2>6. n + 1 - 1 = n /\ Len(Closes(ds)) = n + 1
    BY <1>2, <1>7
  <2>7. ~ (AtMost(SlowAt(ds, n), FastAt(ds, n)) /\ Less(FastAt(ds, n + 1), SlowAt(ds, n + 1)))
    <3> DEFINE m == Len(Closes(ds))
    <3>1. ~ (AtMost(SlowAt(ds, m - 1), FastAt(ds, m - 1)) /\ Less(FastAt(ds, m), SlowAt(ds, m)))
      BY <2>5, Zenon DEF CrossedDown, SlowAt, FastAt
    <3>2. m = n + 1
      BY <2>6
    <3> HIDE DEF m
    <3>3. m - 1 = n
      BY <1>2, <3>2
    <3> QED BY <3>1, <3>2, <3>3
  <2>8. ~ Less(FastAt(ds, n + 1), SlowAt(ds, n + 1))
    BY <2>1, <2>4, <2>7
  <2> QED BY <2>2, <2>8 DEF AtMost
<1> QED BY <1>6, <1>8, <1>9

\* For every series of candles and all periods: an account opened by a strategy
\* that leaves on the cross under is never open with the fast average below the
\* slow one.
THEOREM NeverAgainstTrendAlways == Spec => []NeverAgainstTrend
<1>1. Init => TrendInv
  <2> SUFFICES ASSUME Init PROVE TrendInv
    OBVIOUS
  <2>1. candles = <<>> /\ Counting(candles)
    BY DEF Init, Counting
  <2>2. account = [cash |-> StartCash, position |-> {}, held |-> 0, trades |-> <<>>]
    BY DEF Init
  <2>3. <<>> \in Seq({})
    OBVIOUS
  <2>4. Shape(account) /\ account.position = {}
    BY <2>2, <2>3, ShapeIs
  <2> QED BY <2>1, <2>4 DEF TrendInv
<1>2. TrendInv /\ [Next]_vars => TrendInv'
  <2> SUFFICES ASSUME TrendInv, [Next]_vars PROVE TrendInv'
    OBVIOUS
  <2>1. CASE UNCHANGED vars
    BY <2>1 DEF vars, TrendInv
  <2>2. CASE Finish
    <3>1. candles' = candles /\ account' = ForceClosed(account)
      BY <2>2 DEF Finish
    <3>2. Shape(account') /\ account'.position = {}
      <4>1. CASE account.position = {}
        BY <3>1, <4>1 DEF ForceClosed, TrendInv
      <4>2. CASE account.position # {}
        <5>1. PICK p : account.position = {p}
          BY <4>2 DEF TrendInv, Shape
        <5> DEFINE bar == candles[Len(candles)]
        <5>2. account' = Closed(account, bar.close, bar.t, "end-of-data")
          BY <3>1, <4>2 DEF ForceClosed
        <5> QED BY <5>1, <5>2, ClosedIs DEF ClosedAt, TrendInv
      <4> QED BY <4>1, <4>2
    <3> QED BY <3>1, <3>2 DEF TrendInv
  <2> QED BY <2>1, <2>2, BarTrend DEF Next
<1>3. TrendInv => NeverAgainstTrend
  BY Zenon DEF TrendInv, NeverAgainstTrend, SlowAt, FastAt, Trending
<1> QED BY <1>1, <1>2, <1>3, PTL DEF Spec

---------------------------------------------------------------------------
(* Integers: the levels a strategy suggests, and the sums *)

\* A rational.
Rational == {x \in Int \X Int : x[2] > 0}

\* A step of Wilder's smoothing.
SmoothNext(v, period, x, i) == <<(period - 1) * x[1] + v[i] * x[2], period * x[2]>>

\* Smoothed, of a series whose first average ends at its period, is rational.
LEMMA SmoothedIs ==
  ASSUME NEW v, NEW period \in Nat, period # 0
  PROVE  v \in Seq(Int) => \A i \in period..Len(v) : Smoothed(v, period, period)[i] \in Rational
<1>0. SUFFICES ASSUME v \in Seq(Int)
               PROVE  \A i \in period..Len(v) : Smoothed(v, period, period)[i] \in Rational
  OBVIOUS
<1> DEFINE V == Rational
           n == Len(v)
           sum == SumFromTo(v, period - period + 1, period)
           base == IF period <= n THEN <<sum, period>> ELSE <<0, 1>>
           g == [xi \in V \X Nat |-> IF xi[2] \in 1..n THEN SmoothNext(v, period, xi[1], xi[2]) ELSE base]
           Eqn(a) == a = [i \in period..n |->
                            IF i = period THEN <<SumFromTo(v, period - period + 1, period), period>>
                            ELSE <<(period - 1) * a[i - 1][1] + v[i] * a[i - 1][2], period * a[i - 1][2]>>]
<1>1. n \in Nat /\ period \in Nat /\ period > 0
  BY <1>0
<1>2. base \in V
  <2>1. CASE period <= n
    <3>1. period \in 0..Len(v) /\ period - period + 1 = 1
      BY <1>1, <2>1
    <3>2. SumFromTo(v, 1, period) \in Int
      BY <1>0, <3>1, SumFromOneIs
    <3>3. sum \in Int
      BY <3>1, <3>2
    <3> HIDE DEF sum
    <3>4. <<sum, period>> \in Rational
      BY <1>1, <3>3 DEF Rational
    <3> QED BY <2>1, <3>4
  <2>2. CASE ~ (period <= n)
    BY <2>2 DEF Rational
  <2> QED BY <2>1, <2>2
<1> HIDE DEF base
<1>3. ASSUME NEW x \in V, NEW i \in 1..n PROVE SmoothNext(v, period, x, i) \in V
  <2>1. x[1] \in Int /\ x[2] \in Int /\ x[2] > 0 /\ v[i] \in Int
    BY <1>0 DEF Rational
  <2>2. (period - 1) * x[1] \in Int /\ v[i] * x[2] \in Int /\ period * x[2] \in Int
    BY <2>1, SMTT(30)
  <2>3. period * x[2] > 0
    BY <1>1, <2>1
  <2> QED BY <2>2, <2>3 DEF SmoothNext, Rational
<1>4. g \in [V \X Nat -> V]
  BY <1>2, <1>3
<1>5. PICK e : /\ e \in [period..n -> V]
               /\ \A i \in period..n : e[i] = IF i = period THEN base ELSE g[<<e[i - 1], i>>]
  <2> HIDE DEF V, g, n
  <2>1. \E e : SeriesOf(e, period, n, V, base, g)
    BY <1>1, <1>2, <1>4, SeriesExists
  <2> QED BY <2>1 DEF SeriesOf
<1>6. ASSUME NEW i \in period..n
      PROVE  e[i] = IF i = period THEN <<sum, period>> ELSE SmoothNext(v, period, e[i - 1], i)
  <2>1. CASE i = period
    <3>1. period <= n
      BY <1>1
    <3>2. base = <<sum, period>>
      BY <3>1 DEF base
    <3> QED BY <1>5, <2>1, <3>2
  <2>2. CASE i # period
    <3>1. i \in 1..n /\ i - 1 \in period..n /\ e[i - 1] \in V
      <4>1. i \in 1..n /\ i - 1 \in period..n
        BY <1>1, <2>2
      <4> QED BY <1>5, <4>1
    <3>2. <<e[i - 1], i>> \in V \X Nat
      BY <3>1
    <3>3. g[<<e[i - 1], i>>] = SmoothNext(v, period, e[i - 1], i)
      BY <3>1, <3>2
    <3> QED BY <1>5, <2>2, <3>3
  <2> QED BY <2>1, <2>2
<1>7. Eqn(e)
  <2>1. e = [i \in period..n |-> e[i]]
    BY <1>5
  <2> QED BY <1>6, <2>1 DEF SmoothNext
<1> DEFINE s == CHOOSE t : Eqn(t)
<1>8. Smoothed(v, period, period) = s
  BY Zenon DEF Smoothed
<1>9. Eqn(s)
  <2> HIDE DEF Eqn
  <2> QED BY <1>7
<1> HIDE DEF s
<1>10. \A i \in period..n : s[i] = IF i = period THEN <<sum, period>>
                                   ELSE SmoothNext(v, period, s[i - 1], i)
  BY <1>9 DEF SmoothNext
<1> HIDE DEF Eqn, V, g, n, sum
<1>11. \A i \in period..n : s[i] = e[i]
  <2>1. period <= n => s[period] = e[period]
    BY <1>1, <1>6, <1>10
  <2>2. \A i \in (period + 1)..n : s[i - 1] = e[i - 1] => s[i] = e[i]
    BY <1>1, <1>6, <1>10
  <2>3. GoAlike(s, e, period, n)
    BY <2>1, <2>2 DEF GoAlike
  <2> QED BY <1>1, <2>3, SeriesEqual
<1>12. \A i \in period..n : s[i] \in V
  BY <1>5, <1>11
<1> QED BY <1>8, <1>12 DEF n, V

LEMMA MaxOfInts ==
  /\ \A a, b \in Int : Max({a, b}) \in Int
  /\ \A a, b, c \in Int : Max({a, b, c}) \in Int
<1>1. ASSUME NEW a \in Int, NEW b \in Int PROVE Max({a, b}) \in Int
  <2>1. \E x \in {a, b} : \A y \in {a, b} : x >= y
    OBVIOUS
  <2> QED BY <2>1 DEF Max
<1>2. ASSUME NEW a \in Int, NEW b \in Int, NEW c \in Int PROVE Max({a, b, c}) \in Int
  <2>1. \E x \in {a, b, c} : \A y \in {a, b, c} : x >= y
    OBVIOUS
  <2> QED BY <2>1 DEF Max
<1> QED BY <1>1, <1>2

\* The average true range of a candle is rational.
LEMMA AtrIs ==
  ASSUME NEW cs, Counting(cs), NEW i \in AtrPeriod..Len(cs)
  PROVE  Atr(cs)[i] \in Rational
<1> DEFINE v == [k \in DOMAIN cs |-> TrueRange(cs, k)]
<1>1. Len(cs) \in Nat /\ DOMAIN cs = 1..Len(cs)
  BY DEF Counting
<1>2. ASSUME NEW k \in 1..Len(cs) PROVE TrueRange(cs, k) \in Int
  <2>1. \A j \in 1..Len(cs) : cs[j].high \in Int /\ cs[j].low \in Int /\ cs[j].close \in Int
    <3> SUFFICES ASSUME NEW j \in 1..Len(cs)
                 PROVE  cs[j].high \in Int /\ cs[j].low \in Int /\ cs[j].close \in Int
      OBVIOUS
    <3>1. cs[j] \in BarSet
      BY DEF Counting
    <3> QED BY <3>1 DEF BarSet
  <2>2. CASE k = 1
    BY <2>1, <2>2 DEF TrueRange
  <2>3. CASE k # 1
    <3> DEFINE high == cs[k].high
               low == cs[k].low
               last == cs[k - 1].close
               gap(x) == Max({x - last, -(x - last)})
    <3>1. k - 1 \in 1..Len(cs)
      BY <1>1, <2>3
    <3>2. high \in Int /\ low \in Int /\ last \in Int
      BY <2>1, <3>1
    <3>3. TrueRange(cs, k) = Max({high - low, gap(high), gap(low)})
      BY <2>3, Zenon DEF TrueRange
    <3> HIDE DEF high, low, last
    <3>4. gap(high) \in Int /\ gap(low) \in Int
      <4>1. ASSUME NEW x \in Int PROVE gap(x) \in Int
        <5>1. x - last \in Int /\ -(x - last) \in Int
          BY <3>2
        <5> QED BY <5>1, MaxOfInts
      <4> QED BY <3>2, <4>1
    <3> HIDE DEF gap
    <3>5. high - low \in Int
      BY <3>2
    <3> QED BY <3>3, <3>4, <3>5, MaxOfInts
  <2> QED BY <2>2, <2>3
<1>3. v \in Seq(Int) /\ Len(v) = Len(cs)
  BY <1>1, <1>2
<1>4. Atr(cs) = Smoothed(v, AtrPeriod, AtrPeriod)
  BY Zenon DEF Atr
<1> HIDE DEF v
<1> QED BY <1>3, <1>4, SmoothedIs, PeriodsAre

\* A level at a multiple of the range is a whole number of ticks.
LEMMA LevelsAt ==
  ASSUME NEW price \in Int, NEW atr \in Rational, NEW mult \in Nat
  PROVE  /\ Below(price, atr, mult) \in Int /\ Above(price, atr, mult) \in Int
         /\ price >= 0 /\ atr[1] >= 0 => Above(price, atr, mult) \in Nat
<1>1. atr[1] \in Int /\ atr[2] \in Int /\ atr[2] > 0
  BY DEF Rational
<1> DEFINE x == mult * atr[1]
           y == atr[2]
<1>2. x \in Int /\ y \in Int /\ y > 0
  BY <1>1
<1>3. atr[1] >= 0 => x \in Nat
  BY <1>1
<1> HIDE DEF x, y
<1>4. x \div y \in Int /\ (x \in Nat => x \div y \in Nat)
  BY <1>2
<1> DEFINE z == x \div y
<1>5. Below(price, atr, mult) = price - z /\ Above(price, atr, mult) = price + z
  BY DEF Below, Above, x, y
<1> HIDE DEF z
<1>6. z \in Int /\ (atr[1] >= 0 => z \in Nat)
  BY <1>3, <1>4 DEF z
<1> QED BY <1>5, <1>6

\* The stop and the target that a strategy suggests with a BUY are whole prices,
\* and the target is not negative: it is not below the close.
LEMMA BuyLevels ==
  ASSUME NEW cs, Counting(cs), Len(cs) > 0, NEW st \in Registry, NEW position, NEW held,
         Evaluate(st, cs, position, held).direction = "BUY"
  PROVE  /\ Evaluate(st, cs, position, held).stop \subseteq Int
         /\ Evaluate(st, cs, position, held).target \subseteq Nat
<1> DEFINE n == Len(cs)
           closes == Closes(cs)
           price == closes[n]
           risk == Atr(cs)[n]
           signal == Evaluate(st, cs, position, held)
           whole(S) == S \subseteq Int
           level(S) == S \subseteq Nat
<1>1. n \in 1..n /\ n \in Nat /\ price \in Nat /\ price = cs[n].close
  <2>1. n \in Nat /\ n \in 1..n
    BY DEF Counting
  <2>2. price = cs[n].close /\ cs[n] \in BarSet
    BY <2>1, ClosesAre DEF Counting
  <2>3. cs[n].close \in Nat
    BY <2>2 DEF BarSet
  <2> QED BY <2>1, <2>2, <2>3
<1>2. /\ \A d, a, b : /\ Signal(d, a, b).direction = d /\ Signal(d, a, b).stop = a
                      /\ Signal(d, a, b).target = b
      /\ Hold.direction = "HOLD"
  BY DEF Signal, Hold
<1>3. n >= AtrPeriod => risk \in Rational
  BY <1>1, AtrIs, PeriodsAre
<1>4. /\ StopMult \in Nat /\ TargetMult \in Nat /\ StopMult * TargetMult \in Nat
      /\ StopPct \in Nat /\ TakePct \in Nat /\ MinAtr \in Nat
  BY PeriodsAssumption
<1>5. n >= AtrPeriod => \A m \in Nat : /\ Below(price, risk, m) \in Int
                                       /\ risk[1] >= 0 => Above(price, risk, m) \in Nat
  <2>1. price \in Int /\ price >= 0
    BY <1>1
  <2> HIDE DEF price, risk, n
  <2> QED BY <1>3, <2>1, LevelsAt
<1> SUFFICES ASSUME signal.direction = "BUY" PROVE whole(signal.stop) /\ level(signal.target)
  OBVIOUS
<1>6. CASE st = "ema_crossover"
  <2>1. signal = EmaCrossover(cs, position, held)
    BY <1>6 DEF Evaluate
  <2>2. \/ signal = Hold
        \/ signal = Signal("BUY", {}, {})
        \/ signal = Signal("SELL", {}, {})
        \/ /\ n >= AtrPeriod /\ risk[1] > 0
           /\ signal = Signal("BUY", {Below(price, risk, StopMult)},
                              {Above(price, risk, StopMult * TargetMult)})
    BY <2>1, Zenon DEF EmaCrossover
  <2> HIDE DEF signal, price, risk, n
  <2>3. CASE n >= AtrPeriod /\ risk[1] > 0
    <3>1. risk[1] >= 0
      BY <1>3, <2>3 DEF Rational
    <3>2. /\ Below(price, risk, StopMult) \in Int
          /\ Above(price, risk, StopMult * TargetMult) \in Nat
      BY <1>4, <1>5, <2>3, <3>1
    <3> QED BY <1>2, <2>2, <3>2
  <2>4. CASE ~ (n >= AtrPeriod /\ risk[1] > 0)
    BY <1>2, <2>2, <2>4
  <2> QED BY <2>3, <2>4
<1>7. CASE st = "ema_rsi"
  <2>1. signal = EmaRsi(cs, position, held)
    BY <1>7 DEF Evaluate
  <2>2. \/ signal = Hold
        \/ signal = Signal("SELL", {}, {})
        \/ signal = Signal("BUY", {(price * (100 - StopPct)) \div 100},
                           {(price * (100 + TakePct)) \div 100})
    BY <2>1, Zenon DEF EmaRsi
  <2> HIDE DEF price
  <2>3. price * (100 - StopPct) \in Int /\ price * (100 + TakePct) \in Nat
    BY <1>1, <1>4
  <2>4. (price * (100 - StopPct)) \div 100 \in Int /\ (price * (100 + TakePct)) \div 100 \in Nat
    BY <2>3
  <2> HIDE DEF signal
  <2> QED BY <1>2, <2>2, <2>4
<1>8. CASE st = "ema_trend"
  <2>1. signal = EmaTrend(cs, position, held)
    BY <1>8 DEF Evaluate
  <2> DEFINE low == {Below(price, risk, StopMult)}
             high == {Above(price, risk, TargetMult)}
  <2>2. <<low, high>>[1] = low /\ <<low, high>>[2] = high
    OBVIOUS
  <2>3. \/ signal = Hold
        \/ signal = Signal("EXIT", low, high)
        \/ n >= AtrPeriod /\ AtMost(<<MinAtr, 1>>, risk) /\ signal = Signal("BUY", low, high)
    <3>1. \/ signal = Hold
          \/ signal = Signal("EXIT", <<low, high>>[1], <<low, high>>[2])
          \/ /\ EmaTrendReady(n) /\ EmaTrendEnters(cs)
             /\ signal = Signal("BUY", <<low, high>>[1], <<low, high>>[2])
      BY <2>1, Zenon DEF EmaTrend
    <3>2. EmaTrendReady(n) => n >= AtrPeriod
      BY DEF EmaTrendReady
    <3>3. EmaTrendEnters(cs) => AtMost(<<MinAtr, 1>>, risk)
      BY Zenon DEF EmaTrendEnters
    <3> HIDE DEF signal, low, high
    <3> QED BY <2>2, <3>1, <3>2, <3>3
  <2>4. n >= AtrPeriod /\ AtMost(<<MinAtr, 1>>, risk) => whole(low) /\ level(high)
    <3> SUFFICES ASSUME n >= AtrPeriod, AtMost(<<MinAtr, 1>>, risk) PROVE whole(low) /\ level(high)
      OBVIOUS
    <3> HIDE DEF n, risk, price
    <3>1. risk[1] \in Int /\ risk[2] \in Nat
      BY <1>3 DEF Rational
    <3> DEFINE x == risk[1]
               y == risk[2]
               least == <<MinAtr, 1>>
    <3>2. ~ (x * least[2] < least[1] * y) /\ least[1] = MinAtr /\ least[2] = 1
      BY DEF AtMost, Less
    <3> HIDE DEF x, y, least
    <3>3. x \in Int /\ MinAtr * y \in Nat
      BY <1>4, <3>1 DEF x, y
    <3>4. x >= 0
      BY <3>2, <3>3
    <3> QED BY <1>4, <1>5, <3>4 DEF x
  <2> HIDE DEF signal, low, high, n, whole, level, risk
  <2> QED BY <1>2, <2>3, <2>4
<1>9. CASE st = "rsi_mean_reversion"
  <2>1. signal = RsiMeanReversion(cs, position, held)
    BY <1>9 DEF Evaluate
  <2>2. signal = Hold \/ signal = Signal("SELL", {}, {}) \/ signal = Signal("BUY", {}, {})
    BY <2>1, Zenon DEF RsiMeanReversion
  <2> HIDE DEF signal
  <2> QED BY <1>2, <2>2
<1>10. CASE st = "breakout"
  <2>1. signal = Breakout(cs, position, held)
    BY <1>10 DEF Evaluate
  <2> DEFINE stop == IF n >= AtrPeriod /\ risk[1] > 0
                     THEN {Below(cs[n].close, risk, StopMult)} ELSE {}
  <2>2. signal = Hold \/ signal = Signal("SELL", {}, {}) \/ signal = Signal("BUY", stop, {})
    BY <2>1, Zenon DEF Breakout
  <2>3. whole(stop)
    <3>1. StopMult \in Nat
      BY <1>4
    <3>2. CASE n >= AtrPeriod /\ risk[1] > 0
      <4>1. Below(price, risk, StopMult) \in Int
        BY <1>5, <3>1, <3>2
      <4>2. stop = {Below(price, risk, StopMult)}
        BY <1>1, <3>2
      <4> HIDE DEF stop, price, risk, n
      <4> QED BY <4>1, <4>2
    <3>3. CASE ~ (n >= AtrPeriod /\ risk[1] > 0)
      <4>1. stop = {}
        BY <3>3
      <4> HIDE DEF stop
      <4> QED BY <4>1
    <3> QED BY <3>2, <3>3
  <2> HIDE DEF signal, stop
  <2> QED BY <1>2, <2>2, <2>3, ZenonT(60)
<1> QED BY <1>6, <1>7, <1>8, <1>9, <1>10 DEF Registry

\* One more value adds itself to the sum.
LEMMA SumAppend ==
  ASSUME NEW v, NEW w
  PROVE  (/\ v \in Seq(Int) /\ Len(w) = Len(v) + 1
          /\ (\A i \in 1..Len(v) : w[i] = v[i]) /\ w[Len(v) + 1] \in Int)
         => SumOf(v) \in Int /\ SumOf(w) = SumOf(v) + w[Len(v) + 1]
<1>0. SUFFICES ASSUME v \in Seq(Int), Len(w) = Len(v) + 1, \A i \in 1..Len(v) : w[i] = v[i],
                      w[Len(v) + 1] \in Int
               PROVE  SumOf(v) \in Int /\ SumOf(w) = SumOf(v) + w[Len(v) + 1]
  OBVIOUS
<1> DEFINE n == Len(v)
           y == w[n + 1]
           f == [i \in 1..n |-> v[i]]
<1>1. n \in Nat /\ f \in [1..n -> Int] /\ \A i \in 1..n : f[i] = v[i] /\ f[i] = w[i]
  BY <1>0
<1>2. Len(v) = n /\ Len(w) = n + 1 /\ w[n + 1] = y /\ y \in Int
  BY <1>0
<1> HIDE DEF f, n, y
<1>3. PICK p : IsPrefixSum(p, f, n)
  BY <1>1, PrefixSumExists
<1>4. p \in [0..n -> Int] /\ p[0] = 0 /\ p[n] \in Int
  BY <1>1, <1>3 DEF IsPrefixSum
<1>5. IsPrefixSum(p, v, n)
  BY <1>1, <1>3 DEF IsPrefixSum
<1> DEFINE q == [k \in 0..(n + 1) |-> IF k = n + 1 THEN p[n] + y ELSE p[k]]
<1>6. IsPrefixSum(q, w, n + 1)
  <2>1. q \in [0..(n + 1) -> Int]
    BY <1>1, <1>2, <1>4
  <2>2. q[0] = 0
    BY <1>1, <1>4
  <2>3. ASSUME NEW k \in 1..(n + 1) PROVE q[k] = q[k-1] + w[k]
    <3>1. CASE k = n + 1
      <4>1. k - 1 = n /\ n \in 0..(n + 1) /\ k \in 0..(n + 1) /\ n # n + 1
        BY <1>1, <3>1
      <4>2. q[k] = p[n] + y /\ q[n] = p[n]
        BY <3>1, <4>1
      <4> QED BY <1>2, <3>1, <4>1, <4>2
    <3>2. CASE k # n + 1
      <4>1. k \in 1..n /\ k - 1 \in 0..(n + 1) /\ k \in 0..(n + 1) /\ k - 1 # n + 1
        BY <1>1, <3>2
      <4>2. q[k] = p[k] /\ q[k-1] = p[k-1]
        BY <3>2, <4>1
      <4>3. p[k] = p[k-1] + w[k]
        BY <1>1, <1>3, <4>1 DEF IsPrefixSum
      <4> QED BY <4>2, <4>3
    <3> QED BY <3>1, <3>2
  <2> QED BY <2>1, <2>2, <2>3 DEF IsPrefixSum
<1>7. q[n + 1] = p[n] + y /\ n + 1 \in Nat
  BY <1>1
<1> HIDE DEF q
<1>8. SumOf(v) = p[n]
  BY <1>1, <1>2, <1>5, SumFromOne DEF SumOf
<1>9. SumOf(w) = q[n + 1]
  <2>1. SumFromTo(w, 1, n + 1) = q[n + 1]
    BY <1>6, <1>7, SumFromOne
  <2> QED BY <1>2, <2>1 DEF SumOf
<1> QED BY <1>2, <1>4, <1>7, <1>8, <1>9

---------------------------------------------------------------------------
(* Cash *)

IntPosition(p) ==
  /\ p.quantity \in Int /\ p.price \in Int /\ p.fees \in Int
  /\ p.stop \subseteq Int /\ p.target \subseteq Int

PnlSeq(trades) == [k \in DOMAIN trades |-> trades[k].pnl]
EntrySeq(trades) == [k \in DOMAIN trades |-> trades[k].entryFees]

AccountCash(a) ==
  /\ Shape(a) /\ a.cash \in Int /\ \A p \in a.position : IntPosition(p)
  /\ PnlSeq(a.trades) \in Seq(Int) /\ EntrySeq(a.trades) \in Seq(Int)
  /\ a.cash = StartCash + Pnls(a.trades) - EntryFees(a.trades) - OpenCost(a)

\* CashExplained is inductive once the amounts are known to be integers, which for
\* a fill at a stop or a target rests on what the strategy suggested earlier.
CashInv == Counting(candles) /\ strategy \in Registry /\ AccountCash(account)

LEMMA RatesAre ==
  /\ Unit \in Nat /\ Unit > 0 /\ SizeRate \in Nat /\ ImpactRate \in Nat /\ FeeRate \in Nat
  /\ StartCash \in Nat
<1>1. Unit \in Nat /\ Unit > 0 /\ SizeRate \in Nat /\ ImpactRate \in Nat /\ FeeRate \in Nat
      /\ InitialCash \in Nat
  BY BacktestAssumption
<1>2. Unit * Unit \in Nat
  BY <1>1
<1> DEFINE u == Unit * Unit
<1>3. StartCash = u * InitialCash
  BY DEF StartCash
<1> HIDE DEF u
<1>4. u * InitialCash \in Nat
  BY <1>1, <1>2 DEF u
<1> QED BY <1>1, <1>3, <1>4

LEMMA FillIs ==
  ASSUME NEW price \in Int, NEW side
  PROVE  Fill(price, side).price \in Int /\ Fill(price, side).fee \in Int
<1> DEFINE rate == IF side = "buy" THEN Unit + ImpactRate ELSE Unit - ImpactRate
           x == price * rate
<1>1. Fill(price, side) = [price |-> x, fee |-> x * FeeRate]
  BY Zenon DEF Fill
<1>2. rate \in Int
  BY RatesAre
<1> HIDE DEF rate
<1>3. x \in Int
  BY <1>2
<1> HIDE DEF x
<1>4. x * FeeRate \in Int
  BY <1>3, RatesAre
<1> QED BY <1>1, <1>3, <1>4

\* A sum over the trades, after one more trade.
LEMMA TradesAppend ==
  ASSUME NEW S, NEW t \in Seq(S), NEW tr, tr.pnl \in Int, tr.entryFees \in Int,
         PnlSeq(t) \in Seq(Int), EntrySeq(t) \in Seq(Int)
  PROVE  LET u == Append(t, tr)
         IN  /\ PnlSeq(u) \in Seq(Int) /\ EntrySeq(u) \in Seq(Int)
             /\ Pnls(t) \in Int /\ EntryFees(t) \in Int
             /\ Pnls(u) = Pnls(t) + tr.pnl /\ EntryFees(u) = EntryFees(t) + tr.entryFees
<1> DEFINE u == Append(t, tr)
           n == Len(t)
<1>1. /\ n \in Nat /\ DOMAIN t = 1..n /\ DOMAIN u = 1..(n + 1)
      /\ (\A i \in 1..n : u[i] = t[i]) /\ u[n + 1] = tr
  BY Appended
<1> HIDE DEF u, n
<1>2. /\ PnlSeq(t) = [k \in 1..n |-> t[k].pnl] /\ PnlSeq(u) = [k \in 1..(n + 1) |-> u[k].pnl]
      /\ EntrySeq(t) = [k \in 1..n |-> t[k].entryFees]
      /\ EntrySeq(u) = [k \in 1..(n + 1) |-> u[k].entryFees]
  BY <1>1 DEF PnlSeq, EntrySeq
<1> DEFINE v == PnlSeq(t)
           w == PnlSeq(u)
           d == EntrySeq(t)
           e == EntrySeq(u)
<1>3. /\ Len(v) = n /\ Len(d) = n
      /\ \A i \in 1..n : v[i] = t[i].pnl /\ d[i] = t[i].entryFees /\ v[i] \in Int /\ d[i] \in Int
  <2>1. Len(v) = n /\ Len(d) = n
    BY <1>1, <1>2
  <2>2. \A i \in 1..n : v[i] = t[i].pnl /\ d[i] = t[i].entryFees
    BY <1>2
  <2>3. v \in Seq(Int) /\ d \in Seq(Int)
    OBVIOUS
  <2> HIDE DEF v, d
  <2>4. \A i \in 1..n : v[i] \in Int /\ d[i] \in Int
    BY <2>1, <2>3
  <2> QED BY <2>1, <2>2, <2>4
<1>4. \A i \in 1..(n + 1) : w[i] = u[i].pnl /\ e[i] = u[i].entryFees
  BY <1>2
<1>5. /\ \A i \in 1..n : w[i] = v[i] /\ e[i] = d[i]
      /\ w[n + 1] = tr.pnl /\ e[n + 1] = tr.entryFees
  <2>1. n + 1 \in 1..(n + 1) /\ \A i \in 1..n : i \in 1..(n + 1)
    BY <1>1
  <2> QED BY <1>1, <1>3, <1>4, <2>1
<1>6. \A i \in 1..(n + 1) : w[i] \in Int /\ e[i] \in Int
  <2> SUFFICES ASSUME NEW i \in 1..(n + 1) PROVE w[i] \in Int /\ e[i] \in Int
    OBVIOUS
  <2>1. CASE i = n + 1
    BY <1>5, <2>1
  <2>2. CASE i # n + 1
    <3>1. i \in 1..n
      BY <1>1, <2>2
    <3> HIDE DEF v, w, d, e
    <3> QED BY <1>3, <1>5, <3>1
  <2> QED BY <2>1, <2>2
<1>7. w \in Seq(Int) /\ Len(w) = n + 1 /\ e \in Seq(Int) /\ Len(e) = n + 1
  BY <1>1, <1>2, <1>6
<1>8. v \in Seq(Int) /\ d \in Seq(Int)
  OBVIOUS
<1>9. /\ Pnls(t) = SumOf(v) /\ Pnls(u) = SumOf(w)
      /\ EntryFees(t) = SumOf(d) /\ EntryFees(u) = SumOf(e)
  BY DEF Pnls, EntryFees, PnlSeq, EntrySeq
<1> HIDE DEF v, w, d, e
<1>10. SumOf(v) \in Int /\ SumOf(w) = SumOf(v) + tr.pnl
  <2>1. /\ v \in Seq(Int) /\ Len(w) = Len(v) + 1
        /\ (\A i \in 1..Len(v) : w[i] = v[i]) /\ w[Len(v) + 1] = tr.pnl
    BY <1>3, <1>5, <1>7, <1>8
  <2>2. SumOf(v) \in Int /\ SumOf(w) = SumOf(v) + w[Len(v) + 1]
    BY <2>1, SumAppend
  <2> QED BY <2>1, <2>2
<1>11. SumOf(d) \in Int /\ SumOf(e) = SumOf(d) + tr.entryFees
  <2>1. /\ d \in Seq(Int) /\ Len(e) = Len(d) + 1
        /\ (\A i \in 1..Len(d) : e[i] = d[i]) /\ e[Len(d) + 1] = tr.entryFees
    BY <1>3, <1>5, <1>7, <1>8
  <2>2. SumOf(d) \in Int /\ SumOf(e) = SumOf(d) + e[Len(d) + 1]
    BY <2>1, SumAppend
  <2> QED BY <2>1, <2>2
<1> QED BY <1>7, <1>9, <1>10, <1>11 DEF u, w, e

\* The sale of a position: its proceeds less its exit fee are its cost plus its pnl.
LEMMA ClosedCash ==
  ASSUME NEW a, AccountCash(a), NEW p, a.position = {p}, NEW price \in Int, NEW t, NEW reason
  PROVE  AccountCash(Closed(a, price, t, reason))
<1>1. (CHOOSE q \in a.position : TRUE) = p
  OBVIOUS
<1>2. PICK S : a.trades \in Seq(S)
  BY DEF AccountCash, Shape
<1> DEFINE b == Closed(a, price, t, reason)
           fill == Fill(price, "sell")
           fees == fill.fee * p.quantity
           pnl == (fill.price - p.price) * Unit * p.quantity - fees
           cash == a.cash + Unit * fill.price * p.quantity - fees
           tr == [entry |-> p.opened, exit |-> t, quantity |-> p.quantity, reason |-> reason,
                  pnl |-> pnl,
                  fees |-> p.fees + fees,
                  stop |-> p.stop, target |-> p.target, entryFees |-> p.fees]
           cost == Unit * p.price * p.quantity
<1>3. b = [cash |-> cash, position |-> {}, held |-> 0, trades |-> Append(a.trades, tr)]
  BY <1>1, Zenon DEF Closed
<1>4. tr.pnl = pnl /\ tr.entryFees = p.fees
  OBVIOUS
<1>5. OpenCost(a) = cost + p.fees
  BY <1>1 DEF OpenCost
<1> HIDE DEF b, tr
<1>6. p.price \in Int /\ p.quantity \in Int /\ p.fees \in Int
  BY DEF AccountCash, IntPosition
<1>7. fill.price \in Int /\ fill.fee \in Int
  BY FillIs
<1> HIDE DEF fill
<1>8. a.cash \in Int /\ fees \in Int /\ pnl \in Int /\ cost \in Int /\ cash \in Int
      /\ pnl = (cash - a.cash) - cost
  <2> DEFINE f == fill.price
             x == p.price
             q == p.quantity
             c == a.cash
             in == Unit * f * q
             dif == (f - x) * Unit * q
  <2>1. a.cash \in Int
    BY DEF AccountCash
  <2>2. fees \in Int
    BY <1>6, <1>7
  <2>3. f \in Int /\ x \in Int /\ q \in Int /\ Unit \in Int
    BY <1>6, <1>7, RatesAre
  <2> HIDE DEF f, x, q
  <2>4. in \in Int /\ Unit * x * q \in Int /\ dif \in Int
    BY <2>3
  <2>5. dif = in - Unit * x * q
    BY <2>3
  <2>6. cost = Unit * x * q /\ cash = c + in - fees /\ pnl = dif - fees
    BY DEF f, x, q
  <2> HIDE DEF in, dif, fees, cash, pnl, cost, c
  <2>7. c \in Int
    BY <2>1 DEF c
  <2>8. fees \in Int /\ pnl \in Int /\ cost \in Int /\ cash \in Int /\ pnl = (cash - c) - cost
    BY <2>2, <2>4, <2>5, <2>6, <2>7
  <2> QED BY <2>1, <2>8 DEF c
<1> HIDE DEF fees, pnl, cash, cost
<1>9. PICK T : Append(a.trades, tr) \in Seq(T)
  BY <1>2, Appended
<1>10. /\ Shape(b) /\ b.position = {} /\ b.trades = Append(a.trades, tr) /\ b.cash = cash
  BY <1>3, <1>9, ShapeIs
<1>11. /\ PnlSeq(b.trades) \in Seq(Int) /\ EntrySeq(b.trades) \in Seq(Int)
       /\ Pnls(a.trades) \in Int /\ EntryFees(a.trades) \in Int
       /\ Pnls(b.trades) = Pnls(a.trades) + pnl
       /\ EntryFees(b.trades) = EntryFees(a.trades) + p.fees
  BY <1>2, <1>4, <1>6, <1>8, <1>10, TradesAppend DEF AccountCash
<1>12. OpenCost(b) = 0
  BY <1>10 DEF OpenCost
<1>13. a.cash = StartCash + Pnls(a.trades) - EntryFees(a.trades) - OpenCost(a)
  BY DEF AccountCash
<1>14. b.cash = StartCash + Pnls(b.trades) - EntryFees(b.trades) - OpenCost(b)
  <2> DEFINE c == a.cash
             c2 == b.cash
             P == Pnls(a.trades)
             P2 == Pnls(b.trades)
             E == EntryFees(a.trades)
             E2 == EntryFees(b.trades)
             x == p.fees
  <2>1. /\ c \in Int /\ cash \in Int /\ pnl \in Int /\ cost \in Int /\ x \in Int
        /\ P \in Int /\ E \in Int /\ StartCash \in Int
    BY <1>6, <1>8, <1>11, RatesAre
  <2>2. /\ pnl = (cash - c) - cost /\ c2 = cash /\ P2 = P + pnl /\ E2 = E + x
    BY <1>8, <1>10, <1>11
  <2>3. c = StartCash + P - E - (cost + x)
    BY <1>5, <1>13
  <2> HIDE DEF c, c2, P, P2, E, E2, x
  <2>4. c2 = StartCash + P2 - E2 - 0
    BY <2>1, <2>2, <2>3
  <2> QED BY <1>12, <2>4 DEF c2, P2, E2
<1>15. b.cash \in Int
  BY <1>8, <1>10
<1> QED BY <1>10, <1>11, <1>14, <1>15 DEF AccountCash, b

\* A stop or a target is filled at its own price, and a stop not below the low.
LEMMA StopTakeFill ==
  ASSUME NEW a, Shape(a), \A p \in a.position : IntPosition(p), NEW bar
  PROVE  \/ StopTake(a, bar) = a
         \/ \E p : \E price \in Int : \E reason :
              /\ a.position = {p} /\ StopTake(a, bar) = Closed(a, price, bar.t, reason)
              /\ price \in p.target \/ bar.low <= price
<1> DEFINE old == {q \in a.position : q.opened < bar.t}
           hits == UNION {CheckStopTake(p, bar) : p \in old}
           hit == CHOOSE h \in hits : TRUE
<1>1. CASE hits = {}
  BY <1>1 DEF StopTake
<1>2. CASE hits # {}
  <2>1. StopTake(a, bar) = Closed(a, hit.price, bar.t, hit.reason)
    BY <1>2 DEF StopTake
  <2>2. hit \in hits
    BY <1>2
  <2>3. PICK p \in a.position : hit \in CheckStopTake(p, bar)
    BY <2>2
  <2>4. p.stop \subseteq Int /\ p.target \subseteq Int
    BY DEF IntPosition
  <2>5. a.position = {p}
    BY DEF Shape
  <2> HIDE DEF hits, hit
  <2>6. \E x \in p.stop \cup p.target :
          (x \in p.target \/ bar.low <= x) /\ \E r : hit = [price |-> x, reason |-> r]
    <3> DEFINE stopped == {s \in p.stop : bar.low <= s}
               taken == {g \in p.target : bar.high >= g}
    <3>1. \/ hit \in {[price |-> s, reason |-> "stop-loss"] : s \in stopped}
          \/ hit \in {[price |-> g, reason |-> "take-profit"] : g \in taken}
      BY <2>3, Zenon DEF CheckStopTake
    <3> QED BY <3>1
  <2>7. hit.price \in Int /\ (hit.price \in p.target \/ bar.low <= hit.price)
    <3>1. PICK x \in p.stop \cup p.target :
            (x \in p.target \/ bar.low <= x) /\ \E r : hit = [price |-> x, reason |-> r]
      BY <2>6
    <3>2. PICK r : hit = [price |-> x, reason |-> r]
      BY <3>1
    <3>3. hit.price = x
      BY <3>2
    <3> QED BY <2>4, <3>1, <3>3
  <2> QED BY <2>1, <2>5, <2>7
<1> QED BY <1>1, <1>2

\* The size of a position is a whole quantity.
LEMMA SizeIs ==
  ASSUME NEW cash \in Int, NEW price \in Int
  PROVE  SizePosition(cash, price) \in Int
<1>1. CASE price <= 0
  BY <1>1 DEF SizePosition
<1>2. CASE ~ (price <= 0)
  <2> DEFINE x == cash * SizeRate
             y == Unit * Unit * Unit * price
             q == x \div y
  <2>1. x \in Int
    BY RatesAre
  <2>2. y \in Int /\ y > 0
    <3> DEFINE u == Unit * Unit * Unit
    <3>1. Unit * Unit \in Int /\ Unit * Unit > 0
      BY RatesAre
    <3>2. u \in Int /\ u > 0
      BY <3>1, RatesAre
    <3>3. y = u * price
      OBVIOUS
    <3> HIDE DEF u
    <3>4. u * price \in Int /\ u * price > 0
      BY <1>2, <3>2
    <3> QED BY <3>3, <3>4
  <2>3. SizePosition(cash, price) = RoundHalfEven(x, y)
    BY <1>2 DEF SizePosition
  <2> HIDE DEF x, y
  <2>4. q \in Int
    BY <2>1, <2>2
  <2>5. RoundHalfEven(x, y) = q \/ RoundHalfEven(x, y) = q + 1
    BY Zenon DEF RoundHalfEven
  <2> HIDE DEF q
  <2> QED BY <2>3, <2>4, <2>5
<1> QED BY <1>1, <1>2

\* A purchase takes from the cash what the new position cost.
LEMMA BoughtCash ==
  ASSUME NEW a, AccountCash(a), a.position = {}, NEW bar, bar.close \in Int,
         NEW signal, signal.stop \subseteq Int, signal.target \subseteq Int
  PROVE  AccountCash(Bought(a, bar, signal))
<1> DEFINE qty == SizePosition(a.cash, bar.close)
           fill == Fill(bar.close, "buy")
           cost == (Unit * fill.price + fill.fee) * qty
           p == [quantity |-> qty, price |-> fill.price, opened |-> bar.t,
                 stop |-> signal.stop, target |-> signal.target, fees |-> fill.fee * qty]
           b == Bought(a, bar, signal)
           cash == a.cash - cost
<1>1. CASE b = a
  BY <1>1
<1>2. CASE b # a
  <2>1. b = [a EXCEPT !.cash = cash, !.held = 0, !.position = {p}]
    BY <1>2, Zenon DEF Bought
  <2>2. b = [cash |-> cash, position |-> {p}, held |-> 0, trades |-> a.trades]
    <3> HIDE DEF b, cash, p
    <3> QED BY <2>1 DEF AccountCash, Shape
  <2>3. a.cash \in Int /\ qty \in Int /\ fill.price \in Int /\ fill.fee \in Int
    BY SizeIs, FillIs DEF AccountCash
  <2>4. /\ p.quantity = qty /\ p.price = fill.price /\ p.fees = fill.fee * qty
        /\ p.stop = signal.stop /\ p.target = signal.target
    OBVIOUS
  <2> HIDE DEF qty, fill, p
  <2>5. /\ cost \in Int /\ cash \in Int /\ fill.fee * qty \in Int
        /\ Unit * fill.price * qty \in Int
        /\ cost = Unit * fill.price * qty + fill.fee * qty
    <3> DEFINE f == fill.price
               h == fill.fee
    <3>1. f \in Int /\ h \in Int /\ qty \in Int /\ Unit \in Int /\ a.cash \in Int
      BY <2>3, RatesAre
    <3>2. cost = (Unit * f + h) * qty
      OBVIOUS
    <3> HIDE DEF f, h
    <3>3. /\ (Unit * f + h) * qty \in Int /\ h * qty \in Int /\ Unit * f * qty \in Int
          /\ (Unit * f + h) * qty = Unit * f * qty + h * qty
      BY <3>1
    <3> HIDE DEF cost
    <3>4. cost \in Int /\ cash \in Int
      BY <3>1, <3>2, <3>3
    <3> QED BY <3>2, <3>3, <3>4 DEF f, h
  <2>6. IntPosition(p)
    BY <2>3, <2>4, <2>5 DEF IntPosition
  <2> HIDE DEF cost, cash, b
  <2>8. Shape(b) /\ b.position = {p} /\ b.trades = a.trades /\ b.cash = cash
    BY <2>2, OpenedShape DEF AccountCash
  <2>9. OpenCost(b) = cost /\ OpenCost(a) = 0
    <3>1. (CHOOSE q \in b.position : TRUE) = p /\ b.position # {}
      BY <2>8
    <3>2. OpenCost(b) = Unit * p.price * p.quantity + p.fees
      BY <3>1 DEF OpenCost
    <3> QED BY <2>4, <2>5, <3>2 DEF OpenCost
  <2>10. Pnls(a.trades) \in Int /\ EntryFees(a.trades) \in Int
    <3> DEFINE v == PnlSeq(a.trades)
               d == EntrySeq(a.trades)
    <3>1. v \in Seq(Int) /\ d \in Seq(Int)
      BY DEF AccountCash
    <3>2. Pnls(a.trades) = SumOf(v) /\ EntryFees(a.trades) = SumOf(d)
      BY DEF Pnls, EntryFees, PnlSeq, EntrySeq
    <3> HIDE DEF v, d
    <3>3. Len(v) \in 0..Len(v) /\ Len(d) \in 0..Len(d)
      BY <3>1
    <3>4. SumFromTo(v, 1, Len(v)) \in Int /\ SumFromTo(d, 1, Len(d)) \in Int
      BY <3>1, <3>3, SumFromOneIs
    <3> QED BY <3>2, <3>4 DEF SumOf
  <2>11. b.cash = StartCash + Pnls(b.trades) - EntryFees(b.trades) - OpenCost(b)
    <3> DEFINE c == a.cash
               P == Pnls(a.trades)
               E == EntryFees(a.trades)
    <3>1. c = StartCash + P - E - 0
      BY <2>9 DEF AccountCash
    <3>2. cash = c - cost
      BY DEF cash
    <3>3. c \in Int /\ cost \in Int /\ P \in Int /\ E \in Int /\ StartCash \in Int
      BY <2>3, <2>5, <2>10, RatesAre
    <3> HIDE DEF c, P, E
    <3>4. cash = StartCash + P - E - cost
      BY <3>1, <3>2, <3>3
    <3> QED BY <2>8, <2>9, <3>4 DEF P, E
  <2>12. b.cash \in Int
    BY <2>5, <2>8
  <2> QED BY <2>6, <2>8, <2>11, <2>12 DEF AccountCash, b
<1> QED BY <1>1, <1>2

\* One candle.
LEMMA BarCash ==
  ASSUME CashInv, NEW b \in Bars, ProcessBar(b)
  PROVE  CashInv'
<1> DEFINE bar == Candle(b, Len(candles) + 1)
           ds == Append(candles, bar)
           hit == StopTake(account, bar)
           open == Marked(hit)
           signal == Evaluate(strategy, ds, open.position, open.held)
<1>1. candles' = ds /\ account' = Acted(open, bar, signal) /\ strategy' = strategy
  BY DEF ProcessBar
<1>2. Counting(ds) /\ Len(ds) > 0 /\ bar \in BarSet
  BY NextCandle DEF CashInv
<1>3. bar.close \in Int
  BY <1>2 DEF BarSet
<1> HIDE DEF bar, ds
<1>4. AccountCash(hit)
  <2>1. Shape(account) /\ (\A p \in account.position : IntPosition(p)) /\ AccountCash(account)
    BY DEF CashInv, AccountCash
  <2>2. \/ hit = account
        \/ \E p : \E price \in Int : \E reason :
             /\ account.position = {p} /\ hit = Closed(account, price, bar.t, reason)
             /\ price \in p.target \/ bar.low <= price
    BY <2>1, StopTakeFill
  <2> HIDE DEF hit
  <2> QED BY <2>1, <2>2, ClosedCash
<1> HIDE DEF hit
<1>5. AccountCash(open)
  <2>1. Shape(hit)
    BY <1>4 DEF AccountCash
  <2>2. /\ Shape(open) /\ open.position = hit.position /\ open.trades = hit.trades
        /\ open.cash = hit.cash
    BY <2>1, MarkedIs
  <2> HIDE DEF open
  <2>3. OpenCost(open) = OpenCost(hit)
    BY <2>2 DEF OpenCost
  <2> QED BY <1>4, <2>2, <2>3 DEF AccountCash
<1> HIDE DEF open
<1>6. signal.direction = "BUY" => signal.stop \subseteq Int /\ signal.target \subseteq Int
  BY <1>2, BuyLevels DEF CashInv
<1> HIDE DEF signal
<1>7. AccountCash(Acted(open, bar, signal))
  <2>1. CASE signal.direction = "BUY" /\ open.position = {}
    <3>1. Acted(open, bar, signal) = Bought(open, bar, signal)
      BY <2>1 DEF Acted
    <3> QED BY <1>3, <1>5, <1>6, <2>1, <3>1, BoughtCash
  <2>2. CASE signal.direction \in {"EXIT", "SELL"} /\ open.position # {}
    <3>1. PICK p : open.position = {p}
      BY <1>5, <2>2 DEF AccountCash, Shape
    <3>2. Acted(open, bar, signal) = Closed(open, bar.close, bar.t, "signal")
      BY <2>2 DEF Acted
    <3> QED BY <1>3, <1>5, <3>1, <3>2, ClosedCash
  <2>3. CASE /\ ~ (signal.direction = "BUY" /\ open.position = {})
             /\ ~ (signal.direction \in {"EXIT", "SELL"} /\ open.position # {})
    BY <1>5, <2>3 DEF Acted
  <2> QED BY <2>1, <2>2, <2>3
<1> QED BY <1>1, <1>2, <1>7 DEF CashInv

LEMMA InitCash ==
  ASSUME Init
  PROVE  CashInv
<1>1. candles = <<>> /\ Counting(candles) /\ strategy \in Registry
  BY BacktestAssumption DEF Init, Counting
<1>2. account = [cash |-> StartCash, position |-> {}, held |-> 0, trades |-> <<>>]
  BY DEF Init
<1>3. <<>> \in Seq({})
  OBVIOUS
<1>4. /\ Shape(account) /\ account.position = {} /\ account.trades = <<>>
      /\ account.cash = StartCash
  BY <1>2, <1>3, ShapeIs
<1>5. PnlSeq(<<>>) = <<>> /\ EntrySeq(<<>>) = <<>> /\ <<>> \in Seq(Int)
  BY DEF PnlSeq, EntrySeq
<1>6. Pnls(<<>>) = 0 /\ EntryFees(<<>>) = 0
  <2>1. IsPrefixSum([k \in 0..0 |-> 0], <<>>, 0)
    BY DEF IsPrefixSum
  <2>2. SumFromTo(<<>>, 1, 0) = 0
    BY <2>1, SumFromOne
  <2>3. SumOf(<<>>) = 0
    BY <2>2 DEF SumOf
  <2> QED BY <1>5, <2>3 DEF Pnls, EntryFees, PnlSeq, EntrySeq
<1>7. OpenCost(account) = 0
  BY <1>4 DEF OpenCost
<1>8. account.cash = StartCash + Pnls(account.trades) - EntryFees(account.trades) - OpenCost(account)
  BY <1>4, <1>6, <1>7, RatesAre
<1>9. account.cash \in Int
  BY <1>4, RatesAre
<1>10. AccountCash(account)
  BY <1>4, <1>5, <1>8, <1>9 DEF AccountCash
<1> QED BY <1>1, <1>10 DEF CashInv

\* For every series, strategy and rate: the cash is what the run started with,
\* plus the pnl of the completed trades, less their entry fees and less the cost
\* of the position still open.
THEOREM CashAlwaysExplained == Spec => []CashExplained
<1>1. Init => CashInv
  BY InitCash
<1>2. CashInv /\ [Next]_vars => CashInv'
  <2> SUFFICES ASSUME CashInv, [Next]_vars PROVE CashInv'
    OBVIOUS
  <2>1. CASE UNCHANGED vars
    BY <2>1 DEF vars, CashInv
  <2>2. CASE Finish
    <3>1. candles' = candles /\ account' = ForceClosed(account) /\ strategy' = strategy
          /\ candles # <<>>
      BY <2>2 DEF Finish
    <3>2. AccountCash(ForceClosed(account))
      <4>1. CASE account.position = {}
        BY <4>1 DEF ForceClosed, CashInv
      <4>2. CASE account.position # {}
        <5>1. PICK p : account.position = {p}
          BY <4>2 DEF CashInv, AccountCash, Shape
        <5> DEFINE bar == candles[Len(candles)]
        <5>2. ForceClosed(account) = Closed(account, bar.close, bar.t, "end-of-data")
          BY <4>2 DEF ForceClosed
        <5>3. bar \in BarSet
          BY <3>1 DEF CashInv, Counting
        <5>4. bar.close \in Int
          BY <5>3 DEF BarSet
        <5> HIDE DEF bar
        <5> QED BY <5>1, <5>2, <5>4, ClosedCash DEF CashInv
      <4> QED BY <4>1, <4>2
    <3> QED BY <3>1, <3>2 DEF CashInv
  <2> QED BY <2>1, <2>2, BarCash DEF Next
<1>3. CashInv => CashExplained
  BY DEF CashInv, AccountCash, CashExplained
<1> QED BY <1>1, <1>2, <1>3, PTL DEF Spec

---------------------------------------------------------------------------
(* The report: streaks *)

\* cur is the run that ends at each result, best the longest so far.
RunsOf(pnls, winning, cur) ==
  /\ cur \in [0..Len(pnls) -> Nat] /\ cur[0] = 0
  /\ \A k \in 1..Len(pnls) : cur[k] = IF Counts(pnls[k], winning) THEN cur[k - 1] + 1 ELSE 0
BestOf(cur, n, best) ==
  /\ best \in [0..n -> Nat] /\ best[0] = 0
  /\ \A k \in 1..n : best[k] = Max({best[k - 1], cur[k]})

\* The pass is a pair of series.
LEMMA StreakPass ==
  ASSUME NEW pnls \in Seq(Int), NEW winning \in BOOLEAN
  PROVE  \E cur, best : /\ RunsOf(pnls, winning, cur) /\ BestOf(cur, Len(pnls), best)
                        /\ MaxStreak(pnls, winning) = best[Len(pnls)]
<1> DEFINE n == Len(pnls)
           good(k) == Counts(pnls[k], winning)
           g == [xi \in Nat \X Nat |-> IF good(xi[2]) THEN xi[1] + 1 ELSE 0]
           EqnC(c) == c = [k \in 0..n |-> IF k = 0 THEN 0 ELSE IF good(k) THEN c[k - 1] + 1 ELSE 0]
           cur == CHOOSE c : EqnC(c)
           EqnB(b) == b = [k \in 0..n |-> IF k = 0 THEN 0 ELSE Max({b[k - 1], cur[k]})]
           best == CHOOSE b : EqnB(b)
<1>0. MaxStreak(pnls, winning) = best[n]
  BY Zenon DEF MaxStreak
<1>1. n \in Nat
  OBVIOUS
<1> HIDE DEF n, good
<1>2. \E c : EqnC(c) /\ c \in [0..n -> Nat]
  <2>1. g \in [Nat \X Nat -> Nat]
    OBVIOUS
  <2>2. PICK e : SeriesOf(e, 0, n, Nat, 0, g)
    <3> HIDE DEF g
    <3> QED BY <1>1, <2>1, SeriesExists
  <2>3. e \in [0..n -> Nat] /\ \A i \in 0..n : e[i] = IF i = 0 THEN 0 ELSE g[<<e[i - 1], i>>]
    BY <2>2 DEF SeriesOf
  <2>4. ASSUME NEW i \in 0..n PROVE e[i] = IF i = 0 THEN 0 ELSE IF good(i) THEN e[i - 1] + 1 ELSE 0
    <3>1. CASE i = 0
      BY <2>3, <3>1
    <3>2. CASE i # 0
      <4>1. i - 1 \in 0..n /\ i \in Nat /\ e[i - 1] \in Nat
        BY <1>1, <2>3, <3>2
      <4>2. g[<<e[i - 1], i>>] = IF good(i) THEN e[i - 1] + 1 ELSE 0
        BY <4>1
      <4> QED BY <2>3, <3>2, <4>2
    <3> QED BY <3>1, <3>2
  <2>5. e = [i \in 0..n |-> e[i]]
    BY <2>3
  <2>6. EqnC(e)
    <3> HIDE DEF good
    <3> QED BY <2>4, <2>5, Zenon
  <2> QED BY <2>3, <2>6
<1>3. EqnC(cur)
  <2> HIDE DEF EqnC
  <2> QED BY <1>2
<1>4. PICK c : EqnC(c) /\ c \in [0..n -> Nat]
  BY <1>2
<1> HIDE DEF cur
<1>5. cur \in [0..n -> Nat]
  <2>0. /\ cur[0] = 0 /\ \A k \in 1..n : cur[k] = IF good(k) THEN cur[k - 1] + 1 ELSE 0
        /\ c[0] = 0 /\ \A k \in 1..n : c[k] = IF good(k) THEN c[k - 1] + 1 ELSE 0
    <3>1. 0 \in 0..n /\ \A k \in 1..n : k \in 0..n /\ k # 0
      BY <1>1
    <3> QED BY <1>3, <1>4, <3>1
  <2>1. GoAlike(cur, c, 0, n)
    BY <1>1, <2>0 DEF GoAlike
  <2>2. \A i \in 0..n : cur[i] = c[i]
    BY <1>1, <2>1, SeriesEqual
  <2> QED BY <1>3, <1>4, <2>2
<1>6. \E b : EqnB(b) /\ b \in [0..n -> Nat]
  <2> DEFINE h == [xi \in Nat \X Nat |-> IF xi[2] \in 0..n THEN Max({xi[1], cur[xi[2]]}) ELSE 0]
  <2>1. h \in [Nat \X Nat -> Nat]
    <3> SUFFICES ASSUME NEW x \in Nat, NEW i \in Nat
                 PROVE  (IF i \in 0..n THEN Max({x, cur[i]}) ELSE 0) \in Nat
      OBVIOUS
    <3> QED BY <1>5, MaxOfTwo
  <2>2. PICK e : SeriesOf(e, 0, n, Nat, 0, h)
    <3> HIDE DEF h
    <3> QED BY <1>1, <2>1, SeriesExists
  <2>3. e \in [0..n -> Nat] /\ \A i \in 0..n : e[i] = IF i = 0 THEN 0 ELSE h[<<e[i - 1], i>>]
    BY <2>2 DEF SeriesOf
  <2>4. ASSUME NEW i \in 0..n PROVE e[i] = IF i = 0 THEN 0 ELSE Max({e[i - 1], cur[i]})
    <3>1. CASE i = 0
      BY <2>3, <3>1
    <3>2. CASE i # 0
      <4>1. i - 1 \in 0..n /\ i \in Nat /\ e[i - 1] \in Nat
        BY <1>1, <2>3, <3>2
      <4>2. h[<<e[i - 1], i>>] = Max({e[i - 1], cur[i]})
        BY <4>1
      <4> QED BY <2>3, <3>2, <4>2
    <3> QED BY <3>1, <3>2
  <2>5. e = [i \in 0..n |-> e[i]]
    BY <2>3
  <2>6. EqnB(e)
    BY <2>4, <2>5, Zenon
  <2> QED BY <2>3, <2>6
<1>7. EqnB(best)
  <2> HIDE DEF EqnB
  <2> QED BY <1>6
<1>8. PICK b : EqnB(b) /\ b \in [0..n -> Nat]
  BY <1>6
<1> HIDE DEF best
<1>9. best \in [0..n -> Nat]
  <2>0. /\ best[0] = 0 /\ \A k \in 1..n : best[k] = Max({best[k - 1], cur[k]})
        /\ b[0] = 0 /\ \A k \in 1..n : b[k] = Max({b[k - 1], cur[k]})
    <3>1. 0 \in 0..n /\ \A k \in 1..n : k \in 0..n /\ k # 0
      BY <1>1
    <3> QED BY <1>7, <1>8, <3>1
  <2>1. GoAlike(best, b, 0, n)
    <3>1. \A k \in 1..n : best[k - 1] = b[k - 1] => best[k] = b[k]
      BY <2>0, Zenon
    <3>2. 0 + 1 = 1
      OBVIOUS
    <3> QED BY <2>0, <3>1, <3>2 DEF GoAlike
  <2>2. \A i \in 0..n : best[i] = b[i]
    BY <1>1, <2>1, SeriesEqual
  <2> QED BY <1>7, <1>8, <2>2
<1>10. RunsOf(pnls, winning, cur)
  <2>1. cur[0] = 0 /\ \A k \in 1..n : cur[k] = IF good(k) THEN cur[k - 1] + 1 ELSE 0
    BY <1>1, <1>3
  <2> QED BY <1>5, <2>1 DEF RunsOf, n, good
<1>11. BestOf(cur, n, best)
  <2>1. 0 \in 0..n /\ \A k \in 1..n : k \in 0..n /\ k # 0
    BY <1>1
  <2>2. best[0] = 0 /\ \A k \in 1..n : best[k] = Max({best[k - 1], cur[k]})
    BY <1>7, <2>1
  <2> QED BY <1>9, <2>2 DEF BestOf
<1> QED BY <1>0, <1>10, <1>11 DEF n

\* A run that ends at a result goes back to where the results stop counting.
LEMMA RunIs ==
  ASSUME NEW pnls \in Seq(Int), NEW winning \in BOOLEAN, NEW cur, RunsOf(pnls, winning, cur)
  PROVE  \A k \in 0..Len(pnls) :
           /\ cur[k] \in 0..k
           /\ \A j \in (k - cur[k] + 1)..k : Counts(pnls[j], winning)
           /\ cur[k] < k => ~ Counts(pnls[k - cur[k]], winning)
<1> DEFINE n == Len(pnls)
           good(k) == Counts(pnls[k], winning)
           Fact(k) == /\ cur[k] \in 0..k
                      /\ \A j \in (k - cur[k] + 1)..k : good(j)
                      /\ cur[k] < k => ~ good(k - cur[k])
           Bad == {k \in 0..n : ~ Fact(k)}
<1>1. /\ n \in Nat /\ cur \in [0..n -> Nat] /\ cur[0] = 0
      /\ \A k \in 1..n : cur[k] = IF good(k) THEN cur[k - 1] + 1 ELSE 0
  BY DEF RunsOf
<1> HIDE DEF n, good
<1>2. Bad = {}
  <2> SUFFICES ASSUME Bad # {} PROVE FALSE
    OBVIOUS
  <2>1. PICK m \in Bad : \A y \in Bad : m <= y
    <3>1. Bad \in SUBSET Nat
      OBVIOUS
    <3> HIDE DEF Bad
    <3> QED BY <3>1, LeastNat
  <2>2. m \in 0..n /\ ~ Fact(m)
    OBVIOUS
  <2>3. m # 0
    BY <1>1, <2>2
  <2>4. m \in 1..n /\ m - 1 \in 0..n /\ Fact(m - 1)
    <3>1. m \in 1..n /\ m - 1 \in 0..n /\ ~ (m <= m - 1)
      BY <1>1, <2>2, <2>3
    <3>2. m - 1 \notin Bad
      <4> HIDE DEF Bad
      <4> QED BY <2>1, <3>1
    <3> QED BY <3>1, <3>2
  <2> DEFINE c == cur[m - 1]
  <2>5. c \in 0..(m - 1)
    BY <2>4
  <2>6. CASE good(m)
    <3>1. cur[m] = c + 1
      BY <1>1, <2>4, <2>6
    <3>2. cur[m] \in 0..m
      BY <2>4, <2>5, <3>1
    <3>3. ASSUME NEW j \in (m - cur[m] + 1)..m PROVE good(j)
      <4>1. CASE j = m
        BY <2>6, <4>1
      <4>2. CASE j # m
        <5>1. j \in ((m - 1) - c + 1)..(m - 1)
          BY <2>4, <2>5, <3>1, <4>2
        <5> QED BY <2>4, <5>1
      <4> QED BY <4>1, <4>2
    <3>4. cur[m] < m => ~ good(m - cur[m])
      <4> SUFFICES ASSUME cur[m] < m PROVE ~ good(m - cur[m])
        OBVIOUS
      <4>1. m - cur[m] = (m - 1) - c /\ c < m - 1
        BY <2>4, <2>5, <3>1
      <4> QED BY <2>4, <4>1
    <3> QED BY <2>2, <3>2, <3>3, <3>4
  <2>7. CASE ~ good(m)
    <3>1. cur[m] = 0
      BY <1>1, <2>4, <2>7
    <3>2. m - cur[m] = m /\ m - cur[m] + 1 = m + 1 /\ (m + 1)..m = {}
      BY <2>4, <3>1
    <3> QED BY <2>2, <2>4, <2>7, <3>1, <3>2
  <2> QED BY <2>6, <2>7
<1> QED BY <1>2 DEF n, good

\* The best run is the run that ends at some result, and none that ends anywhere is longer.
LEMMA BestIs ==
  ASSUME NEW n \in Nat, NEW cur \in [0..n -> Nat], cur[0] = 0, NEW best, BestOf(cur, n, best)
  PROVE  /\ \E j \in 0..n : best[n] = cur[j]
         /\ \A j \in 0..n : cur[j] <= best[n]
<1> DEFINE Fact(k) == /\ \E j \in 0..k : best[k] = cur[j]
                      /\ \A j \in 0..k : cur[j] <= best[k]
           Bad == {k \in 0..n : ~ Fact(k)}
<1>1. Bad = {}
  <2> SUFFICES ASSUME Bad # {} PROVE FALSE
    OBVIOUS
  <2>1. PICK m \in Bad : \A y \in Bad : m <= y
    <3>1. Bad \in SUBSET Nat
      OBVIOUS
    <3> HIDE DEF Bad
    <3> QED BY <3>1, LeastNat
  <2>2. m \in 0..n /\ ~ Fact(m)
    OBVIOUS
  <2>3. m # 0
    BY <2>2 DEF BestOf
  <2>4. m \in 1..n /\ m - 1 \in 0..n /\ Fact(m - 1)
    <3>1. m \in 1..n /\ m - 1 \in 0..n /\ ~ (m <= m - 1)
      BY <2>2, <2>3
    <3>2. m - 1 \notin Bad
      <4> HIDE DEF Bad
      <4> QED BY <2>1, <3>1
    <3> QED BY <3>1, <3>2
  <2> DEFINE a == best[m - 1]
             b == cur[m]
  <2>5. a \in Nat /\ b \in Nat /\ best[m] = Max({a, b})
    BY <2>4 DEF BestOf
  <2> HIDE DEF a, b
  <2>6. best[m] \in Nat /\ best[m] >= a /\ best[m] >= b /\ (best[m] = a \/ best[m] = b)
    BY <2>5, MaxOfTwo
  <2>7. \E j \in 0..m : best[m] = cur[j]
    <3>1. m \in 0..m /\ \A j \in 0..(m - 1) : j \in 0..m
      BY <2>4
    <3> QED BY <2>4, <2>6, <3>1 DEF a, b
  <2>8. ASSUME NEW j \in 0..m PROVE cur[j] <= best[m]
    <3>1. CASE j = m
      BY <2>6, <3>1, <2>5 DEF b
    <3>2. CASE j # m
      <4>1. j \in 0..(m - 1) /\ j \in 0..n
        BY <2>4, <3>2
      <4>2. cur[j] <= a /\ cur[j] \in Nat
        BY <2>4, <4>1 DEF a
      <4> QED BY <2>5, <2>6, <4>2
    <3> QED BY <3>1, <3>2
  <2> QED BY <2>2, <2>7, <2>8
<1>2. n \in 0..n
  OBVIOUS
<1> QED BY <1>1, <1>2

\* The greatest element of a set that has one.
LEMMA MaxIs ==
  ASSUME NEW S \in SUBSET Int, NEW x \in S, \A y \in S : y <= x
  PROVE  Max(S) = x
<1>1. \E z \in S : \A y \in S : z >= y
  OBVIOUS
<1>2. Max(S) \in S /\ \A y \in S : Max(S) >= y
  BY <1>1, Zenon DEF Max
<1>3. Max(S) \in Int /\ x \in Int /\ Max(S) >= x /\ Max(S) <= x
  BY <1>2
<1> HIDE DEF Max
<1> QED BY <1>3

\* The pass finds the longest run, for every list of results.
LEMMA StreakIsLongest ==
  ASSUME NEW pnls \in Seq(Int), NEW winning \in BOOLEAN
  PROVE  MaxStreak(pnls, winning) = LongestRun(pnls, winning)
<1> DEFINE n == Len(pnls)
           D == DOMAIN pnls
           good(k) == Counts(pnls[k], winning)
           Whole(ij) == \A k \in ij[1]..ij[2] : good(k)
           Pairs == {ij \in D \X D : Whole(ij)}
           S == {0} \cup {ij[2] - ij[1] + 1 : ij \in Pairs}
<1>1. PICK cur, best : /\ RunsOf(pnls, winning, cur) /\ BestOf(cur, n, best)
                       /\ MaxStreak(pnls, winning) = best[n]
  BY StreakPass
<1>2. /\ n \in Nat /\ D = 1..n /\ cur \in [0..n -> Nat] /\ cur[0] = 0
  BY <1>1 DEF RunsOf
<1>3. \A k \in 0..n : /\ cur[k] \in 0..k
                      /\ \A j \in (k - cur[k] + 1)..k : good(j)
                      /\ cur[k] < k => ~ good(k - cur[k])
  BY <1>1, RunIs
<1>4. /\ \E j \in 0..n : best[n] = cur[j]
      /\ \A j \in 0..n : cur[j] <= best[n]
  <2> HIDE DEF n
  <2> QED BY <1>1, <1>2, BestIs
<1>0. LongestRun(pnls, winning) = Max(S)
  BY Zenon DEF LongestRun
<1> HIDE DEF n, D, good
<1>5. best[n] \in S /\ best[n] \in Nat
  <2>1. PICK j \in 0..n : best[n] = cur[j]
    BY <1>4
  <2>2. CASE cur[j] = 0
    BY <2>1, <2>2
  <2>3. CASE cur[j] # 0
    <3> DEFINE ij == <<j - cur[j] + 1, j>>
    <3>1. cur[j] \in 0..j
      BY <1>3
    <3>2. ij \in D \X D
      BY <1>2, <2>3, <3>1
    <3>3. Whole(ij)
      BY <1>3
    <3>4. ij[2] - ij[1] + 1 = cur[j]
      BY <3>1
    <3>5. ij \in Pairs
      BY <3>2, <3>3
    <3> HIDE DEF ij, Pairs
    <3> QED BY <1>2, <2>1, <3>4, <3>5
  <2> QED BY <2>2, <2>3
<1>6. ASSUME NEW ij \in Pairs PROVE ij[2] - ij[1] + 1 <= best[n] /\ ij[2] - ij[1] + 1 \in Int
  <2> DEFINE i == ij[1]
             j == ij[2]
  <2>1. i \in 1..n /\ j \in 1..n /\ \A k \in i..j : good(k)
    BY <1>2
  <2> HIDE DEF i, j
  <2>2. cur[j] \in 0..j /\ j \in 0..n /\ cur[j] <= best[n] /\ (cur[j] < j => ~ good(j - cur[j]))
    <3>1. j \in 0..n
      BY <1>2, <2>1
    <3> QED BY <1>3, <1>4, <3>1
  <2>3. j - i + 1 <= cur[j]
    <3> SUFFICES ASSUME ~ (j - i + 1 <= cur[j]) PROVE FALSE
      OBVIOUS
    <3>1. j - cur[j] \in i..j /\ cur[j] < j
      BY <1>2, <2>1, <2>2
    <3> QED BY <2>1, <2>2, <3>1
  <2>4. j - i + 1 <= best[n] /\ j - i + 1 \in Int
    BY <1>2, <1>5, <2>1, <2>2, <2>3, SMTT(30)
  <2> QED BY <2>4 DEF i, j
<1>7. S \in SUBSET Int /\ \A y \in S : y <= best[n]
  <2> HIDE DEF Pairs
  <2> QED BY <1>5, <1>6
<1> HIDE DEF S
<1>8. Max(S) = best[n]
  BY <1>5, <1>7, MaxIs
<1> QED BY <1>0, <1>1, <1>8

---------------------------------------------------------------------------
(* The report: drawdown *)

\* Multiplication keeps and reflects order.
LEMMA TimesKeeps ==
  ASSUME NEW x \in Int, NEW y \in Int, NEW z \in Nat, x <= y
  PROVE  x * z <= y * z
<1>1. PICK d \in Nat : y = x + d
  <2>1. y - x \in Nat /\ y = x + (y - x)
    OBVIOUS
  <2> QED BY <2>1
<1>2. y * z = x * z + d * z /\ d * z \in Nat /\ x * z \in Int
  BY <1>1
<1> QED BY <1>2
LEMMA TimesReflects ==
  ASSUME NEW x \in Int, NEW y \in Int, NEW z \in Nat \ {0}, x * z <= y * z
  PROVE  x <= y
<1> SUFFICES ASSUME y + 1 <= x PROVE FALSE
  OBVIOUS
<1>1. (y + 1) * z <= x * z
  BY TimesKeeps
<1>2. (y + 1) * z = y * z + z /\ y * z \in Int /\ x * z \in Int
  OBVIOUS
<1> QED BY <1>1, <1>2

\* p / q <= a / b and a / b <= c / d give p / q <= c / d.
LEMMA RatioTransitive ==
  ASSUME NEW p \in Int, NEW q \in Nat, NEW a \in Int, NEW b \in Nat \ {0},
         NEW c \in Int, NEW d \in Nat \ {0}, p * b <= a * q, a * d <= c * b
  PROVE  p * d <= c * q
<1>1. (p * b) * d <= (a * q) * d
  <2>1. p * b \in Int /\ a * q \in Int
    OBVIOUS
  <2> QED BY <2>1, TimesKeeps
<1>2. (a * d) * q <= (c * b) * q
  <2>1. a * d \in Int /\ c * b \in Int
    OBVIOUS
  <2> QED BY <2>1, TimesKeeps
<1>3. (p * b) * d = (p * d) * b /\ (a * q) * d = (a * d) * q /\ (c * b) * q = (c * q) * b
  OBVIOUS
<1>4. /\ p * d \in Int /\ c * q \in Int /\ (a * d) * q \in Int
      /\ (p * d) * b \in Int /\ (c * q) * b \in Int
  OBVIOUS
<1>5. (p * d) * b <= (c * q) * b
  BY <1>1, <1>2, <1>3, <1>4
<1> QED BY <1>4, <1>5, TimesReflects

PeaksOf(start, e, peak) ==
  /\ peak \in [0..Len(e) -> Nat] /\ peak[0] = start
  /\ \A k \in 1..Len(e) : peak[k] = Max({peak[k - 1], e[k]})
FallsOf(e, peak, dd) ==
  /\ dd \in [0..Len(e) -> Rational] /\ dd[0] = <<0, 1>>
  /\ \A k \in 1..Len(e) : dd[k] = Deeper(dd[k - 1], <<peak[k] - e[k], peak[k]>>)

LEMMA DeeperIs ==
  ASSUME NEW x \in Rational, NEW p \in Int, NEW q \in Nat
  PROVE  Deeper(x, <<p, q>>) \in Rational
<1>1. <<p, q>>[2] = q /\ (q > 0 => <<p, q>> \in Rational)
  BY DEF Rational
<1> QED BY <1>1 DEF Deeper

LEMMA DrawdownPass ==
  ASSUME NEW start \in Nat, NEW eq \in Seq(Nat)
  PROVE  \E peak, dd : /\ PeaksOf(start, eq, peak) /\ FallsOf(eq, peak, dd)
                       /\ MaxDrawdown(start, eq) = dd[Len(eq)]
<1> DEFINE n == Len(eq)
           EqnP(c) == c = [k \in 0..n |-> IF k = 0 THEN start ELSE Max({c[k - 1], eq[k]})]
           peak == CHOOSE c : EqnP(c)
           EqnD(b) == b = [k \in 0..n |-> IF k = 0 THEN <<0, 1>>
                                          ELSE Deeper(b[k - 1], <<peak[k] - eq[k], peak[k]>>)]
           dd == CHOOSE b : EqnD(b)
<1>0. MaxDrawdown(start, eq) = dd[n]
  BY Zenon DEF MaxDrawdown
<1>1. n \in Nat /\ \A k \in 1..n : eq[k] \in Nat
  OBVIOUS
<1>r. 0 \in 0..n /\ \A k \in 1..n : k \in 0..n /\ k # 0 /\ k - 1 \in 0..n /\ k \in Nat
  BY <1>1
<1> HIDE DEF n
<1>2. \E c : EqnP(c) /\ c \in [0..n -> Nat]
  <2> DEFINE g == [xi \in Nat \X Nat |-> IF xi[2] \in 1..n THEN Max({xi[1], eq[xi[2]]}) ELSE 0]
  <2>1. g \in [Nat \X Nat -> Nat]
    <3> SUFFICES ASSUME NEW x \in Nat, NEW i \in Nat
                 PROVE  (IF i \in 1..n THEN Max({x, eq[i]}) ELSE 0) \in Nat
      OBVIOUS
    <3> QED BY <1>1, MaxOfTwo
  <2>2. PICK e : SeriesOf(e, 0, n, Nat, start, g)
    <3> HIDE DEF g
    <3> QED BY <1>1, <2>1, SeriesExists
  <2>3. e \in [0..n -> Nat] /\ \A i \in 0..n : e[i] = IF i = 0 THEN start ELSE g[<<e[i - 1], i>>]
    BY <2>2 DEF SeriesOf
  <2>4. ASSUME NEW i \in 0..n PROVE e[i] = IF i = 0 THEN start ELSE Max({e[i - 1], eq[i]})
    <3>1. CASE i = 0
      BY <2>3, <3>1
    <3>2. CASE i # 0
      <4>1. i - 1 \in 0..n /\ i \in Nat /\ i \in 1..n /\ e[i - 1] \in Nat
        BY <1>1, <2>3, <3>2
      <4>2. g[<<e[i - 1], i>>] = Max({e[i - 1], eq[i]})
        BY <4>1
      <4> QED BY <2>3, <3>2, <4>2
    <3> QED BY <3>1, <3>2
  <2>5. e = [i \in 0..n |-> e[i]]
    BY <2>3
  <2>6. EqnP(e)
    BY <2>4, <2>5, Zenon
  <2> QED BY <2>3, <2>6
<1>3. EqnP(peak)
  <2> HIDE DEF EqnP
  <2> QED BY <1>2
<1>4. PICK c : EqnP(c) /\ c \in [0..n -> Nat]
  BY <1>2
<1> HIDE DEF peak
<1>5. /\ peak \in [0..n -> Nat] /\ peak[0] = start
      /\ \A k \in 1..n : peak[k] = Max({peak[k - 1], eq[k]})
  <2>1. /\ peak[0] = start /\ \A k \in 1..n : peak[k] = Max({peak[k - 1], eq[k]})
        /\ c[0] = start /\ \A k \in 1..n : c[k] = Max({c[k - 1], eq[k]})
    BY <1>3, <1>4, <1>r
  <2>2. GoAlike(peak, c, 0, n)
    <3>1. \A k \in 1..n : peak[k - 1] = c[k - 1] => peak[k] = c[k]
      BY <2>1, Zenon
    <3>2. 0 + 1 = 1
      OBVIOUS
    <3> QED BY <2>1, <3>1, <3>2 DEF GoAlike
  <2>3. \A i \in 0..n : peak[i] = c[i]
    BY <1>1, <2>2, SeriesEqual
  <2> QED BY <1>3, <1>4, <2>1, <2>3
<1>6. \E b : EqnD(b) /\ b \in [0..n -> Rational]
  <2> DEFINE now(k) == <<peak[k] - eq[k], peak[k]>>
             h == [xi \in Rational \X Nat |-> IF xi[2] \in 1..n THEN Deeper(xi[1], now(xi[2])) ELSE <<0, 1>>]
  <2>0. <<0, 1>> \in Rational
    BY DEF Rational
  <2>1. h \in [Rational \X Nat -> Rational]
    <3>1. ASSUME NEW x \in Rational, NEW i \in 1..n PROVE Deeper(x, now(i)) \in Rational
      <4>1. peak[i] - eq[i] \in Int /\ peak[i] \in Nat
        BY <1>1, <1>5, <1>r
      <4> QED BY <4>1, DeeperIs
    <3> HIDE DEF now
    <3> QED BY <2>0, <3>1
  <2>2. PICK e : SeriesOf(e, 0, n, Rational, <<0, 1>>, h)
    <3> HIDE DEF h
    <3> QED BY <1>1, <2>0, <2>1, SeriesExists
  <2>3. e \in [0..n -> Rational]
        /\ \A i \in 0..n : e[i] = IF i = 0 THEN <<0, 1>> ELSE h[<<e[i - 1], i>>]
    BY <2>2 DEF SeriesOf
  <2>4. ASSUME NEW i \in 0..n PROVE e[i] = IF i = 0 THEN <<0, 1>> ELSE Deeper(e[i - 1], now(i))
    <3>1. CASE i = 0
      BY <2>3, <3>1
    <3>2. CASE i # 0
      <4>1. i - 1 \in 0..n /\ i \in Nat /\ i \in 1..n /\ e[i - 1] \in Rational
        BY <1>1, <2>3, <3>2
      <4> HIDE DEF now
      <4>2. h[<<e[i - 1], i>>] = Deeper(e[i - 1], now(i))
        BY <4>1
      <4> QED BY <2>3, <3>2, <4>2
    <3> QED BY <3>1, <3>2
  <2>5. e = [i \in 0..n |-> e[i]]
    BY <2>3
  <2>6. EqnD(e)
    BY <2>4, <2>5, Zenon
  <2> QED BY <2>3, <2>6
<1>7. EqnD(dd)
  <2> HIDE DEF EqnD
  <2> QED BY <1>6
<1>8. PICK b : EqnD(b) /\ b \in [0..n -> Rational]
  BY <1>6
<1> HIDE DEF dd
<1>9. /\ dd \in [0..n -> Rational] /\ dd[0] = <<0, 1>>
      /\ \A k \in 1..n : dd[k] = Deeper(dd[k - 1], <<peak[k] - eq[k], peak[k]>>)
  <2> DEFINE now(k) == <<peak[k] - eq[k], peak[k]>>
  <2>1. /\ dd[0] = <<0, 1>> /\ \A k \in 1..n : dd[k] = Deeper(dd[k - 1], now(k))
        /\ b[0] = <<0, 1>> /\ \A k \in 1..n : b[k] = Deeper(b[k - 1], now(k))
    BY <1>7, <1>8, <1>r
  <2>2. GoAlike(dd, b, 0, n)
    <3>1. \A k \in 1..n : dd[k - 1] = b[k - 1] => dd[k] = b[k]
      BY <2>1, Zenon
    <3>2. 0 + 1 = 1
      OBVIOUS
    <3> QED BY <2>1, <3>1, <3>2 DEF GoAlike
  <2>3. \A i \in 0..n : dd[i] = b[i]
    BY <1>1, <2>2, SeriesEqual
  <2> QED BY <1>7, <1>8, <2>1, <2>3
<1> QED BY <1>0, <1>5, <1>9 DEF PeaksOf, FallsOf, n

\* The peak is at least every equity before it.
LEMMA PeakIs ==
  ASSUME NEW start \in Nat, NEW eq \in Seq(Nat), NEW peak, PeaksOf(start, eq, peak)
  PROVE  \A k \in 0..Len(eq) : start <= peak[k] /\ \A i \in 1..k : eq[i] <= peak[k]
<1> DEFINE n == Len(eq)
           Fact(k) == start <= peak[k] /\ \A i \in 1..k : eq[i] <= peak[k]
           Bad == {k \in 0..n : ~ Fact(k)}
<1>1. /\ n \in Nat /\ (\A k \in 1..n : eq[k] \in Nat)
      /\ peak \in [0..n -> Nat] /\ peak[0] = start
      /\ \A k \in 1..n : peak[k] = Max({peak[k - 1], eq[k]})
  BY DEF PeaksOf
<1> HIDE DEF n
<1>2. Bad = {}
  <2> SUFFICES ASSUME Bad # {} PROVE FALSE
    OBVIOUS
  <2>1. PICK m \in Bad : \A y \in Bad : m <= y
    <3>1. Bad \in SUBSET Nat
      OBVIOUS
    <3> HIDE DEF Bad
    <3> QED BY <3>1, LeastNat
  <2>2. m \in 0..n /\ ~ Fact(m)
    OBVIOUS
  <2>3. m # 0
    BY <1>1, <2>2
  <2>4. m \in 1..n /\ m - 1 \in 0..n /\ Fact(m - 1)
    <3>1. m \in 1..n /\ m - 1 \in 0..n /\ ~ (m <= m - 1)
      BY <1>1, <2>2, <2>3
    <3>2. m - 1 \notin Bad
      <4> HIDE DEF Bad
      <4> QED BY <2>1, <3>1
    <3> QED BY <3>1, <3>2
  <2> DEFINE a == peak[m - 1]
             b == eq[m]
  <2>5. a \in Nat /\ b \in Nat /\ peak[m] = Max({a, b})
    BY <1>1, <2>4
  <2> HIDE DEF a, b
  <2>6. peak[m] \in Nat /\ peak[m] >= a /\ peak[m] >= b
    BY <2>5, MaxOfTwo
  <2>7. start <= peak[m]
    BY <2>4, <2>5, <2>6 DEF a
  <2>8. ASSUME NEW i \in 1..m PROVE eq[i] <= peak[m]
    <3>1. CASE i = m
      BY <2>5, <2>6, <3>1 DEF b
    <3>2. CASE i # m
      <4>1. i \in 1..(m - 1) /\ i \in 1..n
        BY <1>1, <2>4, <3>2
      <4>2. eq[i] <= a /\ eq[i] \in Nat
        BY <1>1, <2>4, <4>1 DEF a
      <4> QED BY <2>5, <2>6, <4>2
    <3> QED BY <3>1, <3>2
  <2> QED BY <2>2, <2>7, <2>8
<1> QED BY <1>2 DEF n

\* The deeper of two drawdowns is at least either.
LEMMA DeeperAtLeast ==
  ASSUME NEW x \in Rational, x[1] >= 0, NEW p \in Nat, NEW q \in Nat, p <= q
  PROVE  LET y == Deeper(x, <<p, q>>)
         IN  /\ y \in Rational /\ y[1] >= 0
             /\ x[1] * y[2] <= y[1] * x[2]
             /\ p * y[2] <= y[1] * q
<1> DEFINE y == Deeper(x, <<p, q>>)
           a == x[1]
           b == x[2]
<1>0. y \in Rational
  BY DeeperIs
<1>1. a \in Nat /\ b \in Nat /\ b > 0 /\ <<p, q>>[1] = p /\ <<p, q>>[2] = q
  BY DEF Rational
<1>2. y = IF q > 0 /\ a * q < p * b THEN <<p, q>> ELSE x
  BY <1>1 DEF Deeper, Less
<1> HIDE DEF a, b, y
<1>3. y[1] >= 0 /\ a * y[2] <= y[1] * b /\ p * y[2] <= y[1] * q
  <2>1. CASE q > 0 /\ a * q < p * b
    <3>1. y[1] = p /\ y[2] = q
      BY <1>1, <1>2, <2>1
    <3>2. a * q <= p * b
      BY <1>1, <2>1
    <3> QED BY <3>1, <3>2
  <2>2. CASE ~ (q > 0 /\ a * q < p * b)
    <3>1. y[1] = a /\ y[2] = b
      BY <1>2, <2>2 DEF a, b
    <3>2. p * b <= a * q
      <4>1. CASE q > 0
        BY <1>1, <2>2, <4>1
      <4>2. CASE q = 0
        <5>1. p = 0
          BY <4>2
        <5> QED BY <1>1, <4>2, <5>1
      <4> QED BY <4>1, <4>2
    <3>3. a * b <= a * b
      BY <1>1
    <3> QED BY <1>1, <3>1, <3>2, <3>3
  <2> QED BY <2>1, <2>2
<1> QED BY <1>0, <1>3, Zenon DEF a, b, y

\* No fall below the peak so far is larger than the drawdown.
LEMMA FallIs ==
  ASSUME NEW start \in Nat, NEW eq \in Seq(Nat), NEW peak, PeaksOf(start, eq, peak),
         NEW dd, FallsOf(eq, peak, dd)
  PROVE  \A k \in 0..Len(eq) :
           /\ dd[k][1] >= 0
           /\ \A m \in 1..k : (peak[m] - eq[m]) * dd[k][2] <= dd[k][1] * peak[m]
<1> DEFINE n == Len(eq)
           fall(m) == peak[m] - eq[m]
           Fact(k) == /\ dd[k][1] >= 0
                      /\ \A m \in 1..k : fall(m) * dd[k][2] <= dd[k][1] * peak[m]
           Bad == {k \in 0..n : ~ Fact(k)}
<1>1. /\ n \in Nat /\ (\A k \in 1..n : eq[k] \in Nat)
      /\ peak \in [0..n -> Nat] /\ dd \in [0..n -> Rational] /\ dd[0] = <<0, 1>>
      /\ \A k \in 1..n : dd[k] = Deeper(dd[k - 1], <<fall(k), peak[k]>>)
  BY DEF PeaksOf, FallsOf
<1>2. \A k \in 1..n : fall(k) \in Nat /\ fall(k) <= peak[k] /\ peak[k] \in Nat
  <2> SUFFICES ASSUME NEW k \in 1..n PROVE fall(k) \in Nat /\ fall(k) <= peak[k] /\ peak[k] \in Nat
    OBVIOUS
  <2>1. k \in 0..n /\ k \in 1..k
    BY <1>1
  <2>2. eq[k] <= peak[k]
    BY <2>1, PeakIs
  <2> QED BY <1>1, <2>1, <2>2, SMTT(30)
<1> HIDE DEF n, fall
<1>3. Bad = {}
  <2> SUFFICES ASSUME Bad # {} PROVE FALSE
    OBVIOUS
  <2>1. PICK k \in Bad : \A y \in Bad : k <= y
    <3>1. Bad \in SUBSET Nat
      OBVIOUS
    <3> HIDE DEF Bad
    <3> QED BY <3>1, LeastNat
  <2>2. k \in 0..n /\ ~ Fact(k)
    OBVIOUS
  <2>3. k # 0
    BY <1>1, <2>2
  <2>4. k \in 1..n /\ k - 1 \in 0..n /\ Fact(k - 1)
    <3>1. k \in 1..n /\ k - 1 \in 0..n /\ ~ (k <= k - 1)
      BY <1>1, <2>2, <2>3
    <3>2. k - 1 \notin Bad
      <4> HIDE DEF Bad
      <4> QED BY <2>1, <3>1
    <3> QED BY <3>1, <3>2
  <2> DEFINE x == dd[k - 1]
             y == dd[k]
             p == fall(k)
             q == peak[k]
  <2>5. x \in Rational /\ x[1] >= 0 /\ p \in Nat /\ q \in Nat /\ p <= q /\ y = Deeper(x, <<p, q>>)
    BY <1>1, <1>2, <2>4
  <2> HIDE DEF x, y, p, q
  <2>6. /\ y \in Rational /\ y[1] >= 0
        /\ x[1] * y[2] <= y[1] * x[2]
        /\ p * y[2] <= y[1] * q
    BY <2>5, DeeperAtLeast
  <2>7. /\ x[1] \in Int /\ x[2] \in Nat \ {0} /\ y[1] \in Int /\ y[2] \in Nat \ {0}
    BY <2>5, <2>6, SMTT(30) DEF Rational
  <2>8. ASSUME NEW m \in 1..k PROVE fall(m) * y[2] <= y[1] * peak[m]
    <3>1. CASE m = k
      BY <2>6, <3>1 DEF p, q
    <3>2. CASE m # k
      <4>1. m \in 1..(k - 1) /\ m \in 1..n
        BY <1>1, <2>4, <3>2
      <4>2. fall(m) * x[2] <= x[1] * peak[m]
        BY <2>4, <4>1 DEF x
      <4>3. fall(m) \in Int /\ peak[m] \in Nat
        BY <1>2, <4>1
      <4> DEFINE f == fall(m)
                 g == peak[m]
                 a == x[1]
                 b == x[2]
                 c == y[1]
                 d == y[2]
      <4>4. /\ f \in Int /\ g \in Nat /\ a \in Int /\ b \in Nat \ {0} /\ c \in Int /\ d \in Nat \ {0}
            /\ f * b <= a * g /\ a * d <= c * b
        BY <2>6, <2>7, <4>2, <4>3
      <4> HIDE DEF f, g, a, b, c, d
      <4>5. f * d <= c * g
        BY <4>4, RatioTransitive
      <4> QED BY <4>5 DEF f, g, c, d
    <3> QED BY <3>1, <3>2
  <2> QED BY <2>2, <2>6, <2>8 DEF y
<1> QED BY <1>3 DEF n, fall

\* The pass finds the worst fall between any two points, for every curve of
\* equities that are not negative.
LEMMA DrawdownIsWorst ==
  ASSUME NEW start \in Nat, NEW eq \in Seq(Nat)
  PROVE  LET all == <<start>> \o eq
         IN  \A i \in DOMAIN all : \A j \in i..Len(all) :
               AtMost(<<all[i] - all[j], all[i]>>, MaxDrawdown(start, eq))
<1> DEFINE n == Len(eq)
           all == <<start>> \o eq
           worst == MaxDrawdown(start, eq)
<1>1. PICK peak, dd : PeaksOf(start, eq, peak) /\ FallsOf(eq, peak, dd) /\ worst = dd[n]
  BY DrawdownPass
<1>2. /\ n \in Nat /\ (\A k \in 1..n : eq[k] \in Nat)
      /\ peak \in [0..n -> Nat] /\ dd \in [0..n -> Rational] /\ n \in 0..n
  BY <1>1 DEF PeaksOf, FallsOf
<1>3. /\ Len(all) = n + 1 /\ DOMAIN all = 1..(n + 1) /\ all[1] = start
      /\ \A k \in 1..n : all[k + 1] = eq[k]
  OBVIOUS
<1>4. worst[1] \in Nat /\ worst[2] \in Nat \ {0}
      /\ \A m \in 1..n : (peak[m] - eq[m]) * worst[2] <= worst[1] * peak[m]
  <2>1. worst \in Rational /\ worst[1] >= 0
        /\ \A m \in 1..n : (peak[m] - eq[m]) * worst[2] <= worst[1] * peak[m]
    BY <1>1, <1>2, FallIs
  <2> HIDE DEF worst
  <2> QED BY <2>1 DEF Rational
<1>5. \A k \in 1..n : start <= peak[k] /\ \A i \in 1..k : eq[i] <= peak[k]
  <2>1. \A k \in 1..n : k \in 0..n
    BY <1>2
  <2> QED BY <1>1, <2>1, PeakIs
<1> HIDE DEF n, all, worst
<1>6. ASSUME NEW i \in 1..(n + 1), NEW j \in i..(n + 1)
      PROVE  AtMost(<<all[i] - all[j], all[i]>>, worst)
  <2> DEFINE x == all[i]
             e == all[j]
             a == worst[1]
             b == worst[2]
  <2>1. (x - e) * b <= a * x /\ x \in Nat /\ e \in Nat
    <3>1. CASE j = 1
      <4>1. i = 1 /\ x = start /\ e = start
        BY <1>2, <1>3, <3>1
      <4>2. x - e = 0 /\ x \in Nat /\ e \in Nat
        BY <4>1
      <4>3. a \in Nat /\ b \in Nat
        BY <1>4
      <4> HIDE DEF x, e, a, b
      <4> QED BY <4>2, <4>3
    <3>2. CASE j # 1
      <4> DEFINE m == j - 1
                 P == peak[m]
      <4>1. m \in 1..n /\ j = m + 1
        BY <1>2, <3>2
      <4>2. e = eq[m] /\ e \in Nat /\ P \in Nat /\ e <= P
        <5>1. m \in 1..m /\ m \in 0..n
          BY <1>2, <4>1
        <5> QED BY <1>2, <1>3, <1>5, <4>1, <5>1
      <4>3. x \in Nat /\ x <= P
        <5>1. CASE i = 1
          BY <1>3, <1>5, <4>1, <5>1
        <5>2. CASE i # 1
          <6>1. i - 1 \in 1..n /\ i - 1 \in 1..m /\ i = (i - 1) + 1
            BY <1>2, <4>1, <5>2
          <6>2. x = eq[i - 1]
            BY <1>3, <6>1
          <6> QED BY <1>2, <1>5, <4>1, <6>1, <6>2
        <5> QED BY <5>1, <5>2
      <4>4. (P - e) * b <= a * P
        BY <1>4, <4>1, <4>2
      <4>5. a \in Nat /\ b \in Nat \ {0}
        BY <1>4
      <4> HIDE DEF x, e, a, b, P, m
      <4>6. CASE P = 0
        <5>1. x = 0 /\ e = 0
          BY <4>2, <4>3, <4>6
        <5> QED BY <4>5, <5>1
      <4>7. CASE P # 0
        <5>1. e * x <= e * P
          <6>1. x * e <= P * e
            BY <4>2, <4>3, TimesKeeps
          <6> QED BY <4>2, <4>3, <6>1
        <5>2. (x - e) * P <= (P - e) * x
          <6>1. (x - e) * P = x * P - e * P /\ (P - e) * x = x * P - e * x
            BY <4>2, <4>3
          <6>2. x * P \in Int /\ e * P \in Int /\ e * x \in Int
            BY <4>2, <4>3
          <6> QED BY <5>1, <6>1, <6>2
        <5>3. x - e \in Int /\ P - e \in Int /\ P \in Nat \ {0}
          BY <4>2, <4>3, <4>7
        <5> DEFINE u == x - e
                   w == P - e
        <5>4. u \in Int /\ w \in Int /\ u * P <= w * x /\ w * b <= a * P
          BY <4>4, <5>2, <5>3
        <5> HIDE DEF u, w
        <5>5. u * b <= a * x
          BY <4>3, <4>5, <5>3, <5>4, RatioTransitive, SMTT(30)
        <5> QED BY <4>2, <4>3, <5>5 DEF u
      <4> QED BY <4>6, <4>7
    <3> QED BY <3>1, <3>2
  <2>2. a \in Nat /\ b \in Nat
    BY <1>4
  <2> DEFINE y == <<x - e, x>>
  <2>3. y[1] = x - e /\ y[2] = x
    OBVIOUS
  <2> HIDE DEF x, e, y
  <2>4. ~ (a * y[2] < y[1] * b)
    BY <2>1, <2>2, <2>3
  <2> QED BY <2>4 DEF AtMost, Less, x, e, y
<1> QED BY <1>3, <1>6 DEF all, worst

\* The peak is an equity before it, or the start.
LEMMA PeakAttained ==
  ASSUME NEW start \in Nat, NEW eq \in Seq(Nat), NEW peak, PeaksOf(start, eq, peak)
  PROVE  \A k \in 0..Len(eq) : peak[k] = start \/ \E i \in 1..k : peak[k] = eq[i]
<1> DEFINE n == Len(eq)
           Fact(k) == peak[k] = start \/ \E i \in 1..k : peak[k] = eq[i]
           Bad == {k \in 0..n : ~ Fact(k)}
<1>1. /\ n \in Nat /\ (\A k \in 1..n : eq[k] \in Nat)
      /\ peak \in [0..n -> Nat] /\ peak[0] = start
      /\ \A k \in 1..n : peak[k] = Max({peak[k - 1], eq[k]})
  BY DEF PeaksOf
<1> HIDE DEF n
<1>2. Bad = {}
  <2> SUFFICES ASSUME Bad # {} PROVE FALSE
    OBVIOUS
  <2>1. PICK m \in Bad : \A y \in Bad : m <= y
    <3>1. Bad \in SUBSET Nat
      OBVIOUS
    <3> HIDE DEF Bad
    <3> QED BY <3>1, LeastNat
  <2>2. m \in 0..n /\ ~ Fact(m)
    OBVIOUS
  <2>3. m # 0
    BY <1>1, <2>2
  <2>4. m \in 1..n /\ m - 1 \in 0..n /\ Fact(m - 1)
    <3>1. m \in 1..n /\ m - 1 \in 0..n /\ ~ (m <= m - 1)
      BY <1>1, <2>2, <2>3
    <3>2. m - 1 \notin Bad
      <4> HIDE DEF Bad
      <4> QED BY <2>1, <3>1
    <3> QED BY <3>1, <3>2
  <2> DEFINE a == peak[m - 1]
             b == eq[m]
  <2>5. a \in Nat /\ b \in Nat /\ peak[m] = Max({a, b})
    BY <1>1, <2>4
  <2> HIDE DEF a, b
  <2>6. peak[m] = a \/ peak[m] = b
    BY <2>5, MaxOfTwo
  <2>7. m \in 1..m /\ \A i \in 1..(m - 1) : i \in 1..m
    BY <1>1, <2>4
  <2> QED BY <2>2, <2>4, <2>6, <2>7 DEF a, b
<1> QED BY <1>2 DEF n

\* The drawdown is one of the falls below the peak, or zero.
LEMMA FallAttained ==
  ASSUME NEW eq \in Seq(Nat), NEW peak, NEW dd, FallsOf(eq, peak, dd)
  PROVE  \A k \in 0..Len(eq) :
           \/ dd[k] = <<0, 1>>
           \/ \E m \in 1..k : peak[m] > 0 /\ dd[k] = <<peak[m] - eq[m], peak[m]>>
<1> DEFINE n == Len(eq)
           now(m) == <<peak[m] - eq[m], peak[m]>>
           Fact(k) == dd[k] = <<0, 1>> \/ \E m \in 1..k : peak[m] > 0 /\ dd[k] = now(m)
           Bad == {k \in 0..n : ~ Fact(k)}
<1>1. /\ n \in Nat /\ dd[0] = <<0, 1>>
      /\ \A k \in 1..n : dd[k] = Deeper(dd[k - 1], now(k))
  BY DEF FallsOf
<1>2. \A k \in 1..n : dd[k] = dd[k - 1] \/ (peak[k] > 0 /\ dd[k] = now(k))
  <2> SUFFICES ASSUME NEW k \in 1..n
               PROVE  dd[k] = dd[k - 1] \/ (peak[k] > 0 /\ dd[k] = now(k))
    OBVIOUS
  <2>1. now(k)[2] = peak[k]
    OBVIOUS
  <2> HIDE DEF now
  <2> QED BY <1>1, <2>1 DEF Deeper
<1> HIDE DEF n, now
<1>3. Bad = {}
  <2> SUFFICES ASSUME Bad # {} PROVE FALSE
    OBVIOUS
  <2>1. PICK k \in Bad : \A y \in Bad : k <= y
    <3>1. Bad \in SUBSET Nat
      OBVIOUS
    <3> HIDE DEF Bad
    <3> QED BY <3>1, LeastNat
  <2>2. k \in 0..n /\ ~ Fact(k)
    OBVIOUS
  <2>3. k # 0
    BY <1>1, <2>2
  <2>4. k \in 1..n /\ k - 1 \in 0..n /\ Fact(k - 1)
    <3>1. k \in 1..n /\ k - 1 \in 0..n /\ ~ (k <= k - 1)
      BY <1>1, <2>2, <2>3
    <3>2. k - 1 \notin Bad
      <4> HIDE DEF Bad
      <4> QED BY <2>1, <3>1
    <3> QED BY <3>1, <3>2
  <2>5. k \in 1..k /\ \A i \in 1..(k - 1) : i \in 1..k
    BY <1>1, <2>4
  <2> QED BY <1>2, <2>2, <2>4, <2>5
<1> QED BY <1>3 DEF n, now

\* The pass reports no fall that the curve did not take.
LEMMA DrawdownIsTaken ==
  ASSUME NEW start \in Nat, NEW eq \in Seq(Nat)
  PROVE  LET all == <<start>> \o eq
             worst == MaxDrawdown(start, eq)
         IN  \/ worst = <<0, 1>>
             \/ \E i \in DOMAIN all : \E j \in i..Len(all) :
                  all[i] > 0 /\ worst = <<all[i] - all[j], all[i]>>
<1> DEFINE n == Len(eq)
           all == <<start>> \o eq
           worst == MaxDrawdown(start, eq)
<1>1. PICK peak, dd : PeaksOf(start, eq, peak) /\ FallsOf(eq, peak, dd) /\ worst = dd[n]
  BY DrawdownPass
<1>2. n \in Nat /\ n \in 0..n
  OBVIOUS
<1>3. /\ Len(all) = n + 1 /\ DOMAIN all = 1..(n + 1) /\ all[1] = start
      /\ \A k \in 1..n : all[k + 1] = eq[k]
  OBVIOUS
<1>4. \/ worst = <<0, 1>>
      \/ \E m \in 1..n : peak[m] > 0 /\ worst = <<peak[m] - eq[m], peak[m]>>
  BY <1>1, <1>2, FallAttained
<1>5. \A m \in 1..n : peak[m] = start \/ \E i \in 1..m : peak[m] = eq[i]
  <2>1. \A m \in 1..n : m \in 0..n
    BY <1>2
  <2> QED BY <1>1, <2>1, PeakAttained
<1> HIDE DEF n, all, worst
<1>6. ASSUME NEW m \in 1..n, peak[m] > 0, worst = <<peak[m] - eq[m], peak[m]>>
      PROVE  \E i \in 1..(n + 1) : \E j \in i..(n + 1) :
               all[i] > 0 /\ worst = <<all[i] - all[j], all[i]>>
  <2>1. m + 1 \in 1..(n + 1) /\ all[m + 1] = eq[m]
    BY <1>2, <1>3
  <2>2. \E i \in 1..(m + 1) : all[i] = peak[m]
    <3>1. CASE peak[m] = start
      <4>1. 1 \in 1..(m + 1)
        BY <1>2
      <4> QED BY <1>3, <3>1, <4>1
    <3>2. CASE \E i \in 1..m : peak[m] = eq[i]
      <4>1. PICK i \in 1..m : peak[m] = eq[i]
        BY <3>2
      <4>2. i + 1 \in 1..(m + 1) /\ i \in 1..n
        BY <1>2
      <4> QED BY <1>3, <4>1, <4>2
    <3> QED BY <1>5, <3>1, <3>2
  <2>3. PICK i \in 1..(m + 1) : all[i] = peak[m]
    BY <2>2
  <2>4. i \in 1..(n + 1) /\ m + 1 \in i..(n + 1)
    BY <1>2
  <2> QED BY <1>6, <2>1, <2>3, <2>4, Zenon
<1>7. DOMAIN all = 1..(n + 1) /\ Len(all) = n + 1
  BY <1>3
<1> QED BY <1>4, <1>6, <1>7, Zenon DEF all, worst

---------------------------------------------------------------------------
(* The report: sums *)

\* The sum of a table is an integer, and two tables add up entry by entry.
LEMMA SumsAdd ==
  ASSUME NEW n \in Nat, NEW f \in [1..n -> Int], NEW g \in [1..n -> Int], NEW h \in [1..n -> Int],
         \A k \in 1..n : h[k] = f[k] + g[k]
  PROVE  /\ SumFromTo(f, 1, n) \in Int /\ SumFromTo(g, 1, n) \in Int
         /\ SumFromTo(h, 1, n) = SumFromTo(f, 1, n) + SumFromTo(g, 1, n)
<1>1. PICK p : IsPrefixSum(p, f, n)
  BY PrefixSumExists
<1>2. PICK q : IsPrefixSum(q, g, n)
  BY PrefixSumExists
<1> DEFINE r == [k \in 0..n |-> p[k] + q[k]]
<1>3. /\ p \in [0..n -> Int] /\ p[0] = 0 /\ (\A k \in 1..n : p[k] = p[k - 1] + f[k])
      /\ q \in [0..n -> Int] /\ q[0] = 0 /\ (\A k \in 1..n : q[k] = q[k - 1] + g[k])
  BY <1>1, <1>2 DEF IsPrefixSum
<1>4. IsPrefixSum(r, h, n)
  <2>1. r \in [0..n -> Int] /\ r[0] = 0
    BY <1>3
  <2>2. ASSUME NEW k \in 1..n PROVE r[k] = r[k - 1] + h[k]
    <3>1. k \in 0..n /\ k - 1 \in 0..n
      OBVIOUS
    <3>2. p[k - 1] \in Int /\ q[k - 1] \in Int /\ f[k] \in Int /\ g[k] \in Int
      BY <1>3, <3>1
    <3> QED BY <1>3, <3>1, <3>2
  <2> QED BY <2>1, <2>2 DEF IsPrefixSum
<1>5. SumFromTo(f, 1, n) = p[n] /\ SumFromTo(g, 1, n) = q[n]
  BY <1>1, <1>2, SumFromOne
<1>6. SumFromTo(h, 1, n) = r[n]
  <2> HIDE DEF r
  <2> QED BY <1>4, SumFromOne
<1>7. n \in 0..n
  OBVIOUS
<1> QED BY <1>3, <1>5, <1>6, <1>7

\* The winning and the losing results add up to all of them.
LEMMA GrossAddsUp ==
  ASSUME NEW pnls \in Seq(Int)
  PROVE  LET wins == [k \in DOMAIN pnls |-> IF pnls[k] > 0 THEN pnls[k] ELSE 0]
             losses == [k \in DOMAIN pnls |-> IF pnls[k] < 0 THEN pnls[k] ELSE 0]
         IN  /\ SumOf(wins) \in Int /\ SumOf(losses) \in Int
             /\ SumOf(pnls) = SumOf(wins) + SumOf(losses)
<1> DEFINE n == Len(pnls)
           wins == [k \in DOMAIN pnls |-> IF pnls[k] > 0 THEN pnls[k] ELSE 0]
           losses == [k \in DOMAIN pnls |-> IF pnls[k] < 0 THEN pnls[k] ELSE 0]
<1>1. n \in Nat /\ DOMAIN pnls = 1..n /\ pnls \in [1..n -> Int]
  OBVIOUS
<1>2. wins \in [1..n -> Int] /\ losses \in [1..n -> Int]
  BY <1>1
<1>3. \A k \in 1..n : pnls[k] = wins[k] + losses[k]
  BY <1>1
<1>4. Len(wins) = n /\ Len(losses) = n
  BY <1>1
<1> HIDE DEF wins, losses, n
<1>5. /\ SumFromTo(wins, 1, n) \in Int /\ SumFromTo(losses, 1, n) \in Int
      /\ SumFromTo(pnls, 1, n) = SumFromTo(wins, 1, n) + SumFromTo(losses, 1, n)
  BY <1>1, <1>2, <1>3, SumsAdd
<1> QED BY <1>4, <1>5 DEF SumOf, wins, losses, n

---------------------------------------------------------------------------
(* The report: exposure *)

\* The trades of a run follow each other: one is entered no earlier than the one
\* before was left.
Follow(t, n) ==
  \A k \in 1..Len(t) :
    /\ t[k].entry \in 1..n /\ t[k].exit \in 1..n /\ t[k].entry <= t[k].exit
    /\ k > 1 => t[k - 1].exit <= t[k].entry

\* The candles counted for one trade.
LEMMA CandlesIn ==
  ASSUME NEW n \in Nat, NEW a \in 1..n, NEW b \in 1..n, a <= b
  PROVE  Cardinality({t \in 1..n : a <= t /\ t <= b}) = b - a + 1
<1>1. {t \in 1..n : a <= t /\ t <= b} = a..b
  OBVIOUS
<1>2. a \in Int /\ b \in Int /\ ~ (a > b)
  OBVIOUS
<1> QED BY <1>1, <1>2, FS_Interval

\* Reentries among the first m trades.
ReentriesTo(t, m) == Cardinality({k \in 2..m : t[k].entry = t[k - 1].exit})

LEMMA ReentriesGrow ==
  ASSUME NEW t, NEW m \in Nat \ {0}
  PROVE  /\ ReentriesTo(t, 1) = 0 /\ ReentriesTo(t, m) \in Nat
         /\ ReentriesTo(t, m + 1)
              = ReentriesTo(t, m) + (IF t[m + 1].entry = t[m].exit THEN 1 ELSE 0)
<1> DEFINE again(k) == t[k].entry = t[k - 1].exit
           S == {k \in 2..m : again(k)}
           T == {k \in 2..(m + 1) : again(k)}
<1>1. {k \in 2..1 : again(k)} = {}
  OBVIOUS
<1>2. IsFiniteSet(S) /\ Cardinality(S) \in Nat
  <2>1. IsFiniteSet(2..m)
    BY FS_Interval
  <2>2. S \in SUBSET (2..m)
    OBVIOUS
  <2> HIDE DEF S
  <2> QED BY <2>1, <2>2, FS_Subset, FS_CardinalityType
<1>3. again(m + 1) <=> t[m + 1].entry = t[m].exit
  <2>1. (m + 1) - 1 = m
    OBVIOUS
  <2> QED BY <2>1
<1>4. T = IF again(m + 1) THEN S \cup {m + 1} ELSE S
  OBVIOUS
<1>5. Cardinality(T) = Cardinality(S) + (IF again(m + 1) THEN 1 ELSE 0)
  <2>0. m + 1 \notin S
    OBVIOUS
  <2> HIDE DEF S, T, again
  <2> QED BY <1>2, <1>4, <2>0, FS_AddElement
<1>6. ReentriesTo(t, 1) = 0
  BY <1>1, FS_EmptySet DEF ReentriesTo
<1> QED BY <1>2, <1>3, <1>5, <1>6 DEF ReentriesTo

\* The candles the first m trades held a position on.
HeldTo(t, m, n) == {c \in 1..n : \E k \in 1..m : t[k].entry <= c /\ c <= t[k].exit}

\* The next trade adds its own candles, less the one of a re-entry.
LEMMA HeldGrows ==
  ASSUME NEW n \in Nat, NEW S, NEW t \in Seq(S), Follow(t, n), NEW j \in Nat \ {0},
         j < Len(t), \A k \in 1..j : t[k].exit <= t[j].exit
  PROVE  /\ \A k \in 1..(j + 1) : t[k].exit <= t[j + 1].exit
         /\ Cardinality(HeldTo(t, j + 1, n)) + (IF t[j + 1].entry = t[j].exit THEN 1 ELSE 0)
              = Cardinality(HeldTo(t, j, n)) + (t[j + 1].exit - t[j + 1].entry + 1)
<1> DEFINE U == HeldTo(t, j, n)
           e == t[j].exit
           d == t[j].entry
           a == t[j + 1].entry
           b == t[j + 1].exit
           lo == IF a = e THEN a + 1 ELSE a
           V == lo..b
<1>1. /\ a \in 1..n /\ b \in 1..n /\ a <= b /\ e \in 1..n /\ e <= a
      /\ d \in 1..n /\ d <= e
  <2>1. j + 1 \in 1..Len(t) /\ j \in 1..Len(t) /\ j + 1 > 1 /\ (j + 1) - 1 = j
    OBVIOUS
  <2> QED BY <2>1 DEF Follow
<1>2. \A k \in 1..j : t[k].exit \in 1..n /\ t[k].entry \in 1..n
  <2>1. \A k \in 1..j : k \in 1..Len(t)
    OBVIOUS
  <2> QED BY <2>1 DEF Follow
<1>3. \A k \in 1..(j + 1) : k = j + 1 \/ k \in 1..j
  OBVIOUS
<1>4. j \in 1..j /\ j + 1 \in 1..(j + 1) /\ \A k \in 1..j : k \in 1..(j + 1)
  OBVIOUS
<1>5. U \in SUBSET (1..n) /\ e \in U /\ \A c \in U : c <= e
  <2>1. e \in U
    BY <1>1, <1>4 DEF HeldTo
  <2>2. ASSUME NEW c \in U PROVE c <= e
    <3>1. PICK k \in 1..j : t[k].entry <= c /\ c <= t[k].exit
      BY DEF HeldTo
    <3>2. t[k].exit <= e /\ t[k].exit \in Int /\ c \in Int
      BY <1>2 DEF HeldTo
    <3> QED BY <1>1, <3>1, <3>2
  <2> QED BY <2>1, <2>2 DEF HeldTo
<1>6. HeldTo(t, j + 1, n) = U \cup (a..b)
  <2>1. ASSUME NEW c \in HeldTo(t, j + 1, n) PROVE c \in U \cup (a..b)
    <3>1. PICK k \in 1..(j + 1) : t[k].entry <= c /\ c <= t[k].exit
      BY DEF HeldTo
    <3>2. c \in 1..n
      BY DEF HeldTo
    <3>3. CASE k = j + 1
      BY <1>1, <3>1, <3>2, <3>3
    <3>4. CASE k \in 1..j
      BY <3>1, <3>2, <3>4 DEF HeldTo
    <3> QED BY <1>3, <3>3, <3>4
  <2>2. ASSUME NEW c \in U PROVE c \in HeldTo(t, j + 1, n)
    BY <1>4 DEF HeldTo
  <2>3. ASSUME NEW c \in a..b PROVE c \in HeldTo(t, j + 1, n)
    <3>1. c \in 1..n /\ a <= c /\ c <= b
      BY <1>1
    <3> QED BY <1>4, <3>1 DEF HeldTo
  <2> QED BY <2>1, <2>2, <2>3
<1> HIDE DEF U, a, b, d, e
<1>7. U \cup (a..b) = U \cup V /\ U \cap V = {} /\ lo \in Int /\ b \in Int
  BY <1>1, <1>5
<1>8. IsFiniteSet(U) /\ Cardinality(U) \in Nat
  <2>1. IsFiniteSet(1..n)
    BY FS_Interval
  <2> QED BY <1>5, <2>1, FS_Subset, FS_CardinalityType
<1>9. IsFiniteSet(V) /\ Cardinality(V) = b - lo + 1
  <2>1. IsFiniteSet(V) /\ Cardinality(V) = IF lo > b THEN 0 ELSE b - lo + 1
    BY <1>7, FS_Interval
  <2>2. lo > b => b - lo + 1 = 0
    BY <1>1
  <2> QED BY <2>1, <2>2
<1> HIDE DEF V
<1>10. Cardinality(U \cup V) = Cardinality(U) + Cardinality(V)
  <2>1. Cardinality(U \cap V) = 0
    BY <1>7, FS_EmptySet
  <2>2. Cardinality(U \cup V) = Cardinality(U) + Cardinality(V) - Cardinality(U \cap V)
    BY <1>8, <1>9, FS_Union
  <2>3. Cardinality(V) \in Int
    BY <1>9, FS_CardinalityType
  <2> QED BY <1>8, <2>1, <2>2, <2>3
<1>11. Cardinality(HeldTo(t, j + 1, n)) + (IF a = e THEN 1 ELSE 0)
         = Cardinality(U) + (b - a + 1)
  <2>1. Cardinality(HeldTo(t, j + 1, n)) = Cardinality(U) + (b - lo + 1)
    BY <1>6, <1>7, <1>9, <1>10
  <2> DEFINE x == Cardinality(U)
             y == Cardinality(HeldTo(t, j + 1, n))
  <2> HIDE DEF x, y
  <2>2. y = x + (b - lo + 1) /\ x \in Nat
    BY <1>8, <2>1 DEF x, y
  <2>3. y + (IF a = e THEN 1 ELSE 0) = x + (b - a + 1)
    BY <1>1, <2>2
  <2> QED BY <2>3 DEF x, y
<1>12. \A k \in 1..(j + 1) : t[k].exit <= b
  <2> SUFFICES ASSUME NEW k \in 1..(j + 1) PROVE t[k].exit <= b
    OBVIOUS
  <2>1. CASE k = j + 1
    BY <1>1, <2>1 DEF b
  <2>2. CASE k \in 1..j
    <3>1. t[k].exit <= e /\ t[k].exit \in Int
      BY <1>2, <2>2 DEF e
    <3> QED BY <1>1, <3>1
  <2> QED BY <1>3, <2>1, <2>2
<1> QED BY <1>11, <1>12 DEF U, a, b, e

\* Each candle is counted once, but for the candles of a re-entry.
LEMMA InTradeIs ==
  ASSUME NEW n \in Nat, NEW S, NEW t \in Seq(S), Follow(t, n)
  PROVE  InTrade(t, n) = Cardinality(InPosition(t, n)) + ReentriesTo(t, Len(t))
<1> DEFINE m == Len(t)
           inside(k) == {c \in 1..n : t[k].entry <= c /\ c <= t[k].exit}
           f == [k \in DOMAIN t |-> Cardinality(inside(k))]
           R(k) == ReentriesTo(t, k)
           H(k) == Cardinality(HeldTo(t, k, n))
<1>1. m \in Nat /\ DOMAIN t = 1..m
  OBVIOUS
<1>2. InTrade(t, n) = SumOf(f)
  BY DEF InTrade
<1>3. \A k \in 1..m : /\ t[k].entry \in 1..n /\ t[k].exit \in 1..n /\ t[k].entry <= t[k].exit
                      /\ k > 1 => t[k - 1].exit <= t[k].entry
  BY DEF Follow
<1>4. \A k \in 1..m : Cardinality(inside(k)) = t[k].exit - t[k].entry + 1
  BY <1>3, CandlesIn
<1>a. \A j \in 1..m : (j < m /\ \A k \in 1..j : t[k].exit <= t[j].exit) =>
        /\ \A k \in 1..(j + 1) : t[k].exit <= t[j + 1].exit
        /\ H(j + 1) + (IF t[j + 1].entry = t[j].exit THEN 1 ELSE 0)
             = H(j) + (t[j + 1].exit - t[j + 1].entry + 1)
  BY <1>1, HeldGrows
<1>b. m # 0 => H(1) = t[1].exit - t[1].entry + 1
  <2> SUFFICES ASSUME m # 0 PROVE H(1) = t[1].exit - t[1].entry + 1
    OBVIOUS
  <2>1. HeldTo(t, 1, n) = inside(1)
    BY DEF HeldTo
  <2>2. 1 \in 1..m
    BY <1>1
  <2> QED BY <1>4, <2>1, <2>2
<1>c. \A k \in 1..m : H(k) \in Nat
  <2> SUFFICES ASSUME NEW k \in 1..m PROVE Cardinality(HeldTo(t, k, n)) \in Nat
    OBVIOUS
  <2>1. HeldTo(t, k, n) \in SUBSET (1..n) /\ IsFiniteSet(1..n)
    BY FS_Interval DEF HeldTo
  <2> QED BY <2>1, FS_Subset, FS_CardinalityType
<1>d. InPosition(t, n) = HeldTo(t, m, n)
  BY <1>1 DEF InPosition, HeldTo
<1>e. HeldTo(t, 0, n) = {}
  BY DEF HeldTo
<1> HIDE DEF m, inside, H
<1>5. /\ f \in [1..m -> Int] /\ Len(f) = m
      /\ \A k \in 1..m : f[k] = t[k].exit - t[k].entry + 1
  <2>1. f = [k \in 1..m |-> Cardinality(inside(k))]
    BY <1>1
  <2>2. \A k \in 1..m : f[k] = t[k].exit - t[k].entry + 1 /\ f[k] \in Int
    BY <1>3, <1>4, <2>1
  <2> QED BY <1>1, <2>1, <2>2
<1> HIDE DEF f
<1>6. PICK p : IsPrefixSum(p, f, m)
  BY <1>1, <1>5, PrefixSumExists
<1>7. p \in [0..m -> Int] /\ p[0] = 0 /\ \A k \in 1..m : p[k] = p[k - 1] + f[k]
  BY <1>6 DEF IsPrefixSum
<1>8. \A k \in Nat \ {0} : R(k) \in Nat /\ R(1) = 0
        /\ R(k + 1) = R(k) + (IF t[k + 1].entry = t[k].exit THEN 1 ELSE 0)
  BY ReentriesGrow
<1> HIDE DEF R
<1> DEFINE Fact(k) == p[k] = H(k) + R(k) /\ \A i \in 1..k : t[i].exit <= t[k].exit
           Bad == {k \in 1..m : ~ Fact(k)}
<1>9. Bad = {}
  <2> SUFFICES ASSUME Bad # {} PROVE FALSE
    OBVIOUS
  <2>1. PICK k \in Bad : \A y \in Bad : k <= y
    <3>1. Bad \in SUBSET Nat
      OBVIOUS
    <3> HIDE DEF Bad
    <3> QED BY <3>1, LeastNat
  <2>2. k \in 1..m /\ ~ Fact(k)
    OBVIOUS
  <2> DEFINE a == t[k].entry
             b == t[k].exit
             q == p[k - 1]
  <2>3. /\ a \in 1..n /\ b \in 1..n /\ a <= b /\ q \in Int /\ p[k] = q + (b - a + 1)
    <3>1. k - 1 \in 0..m
      BY <1>1, <2>2
    <3> QED BY <1>3, <1>5, <1>7, <2>2, <3>1
  <2>4. CASE k = 1
    <3>1. q = 0 /\ R(1) = 0 /\ H(1) = b - a + 1
      BY <1>1, <1>7, <1>8, <1>b, <2>2, <2>4, SMTT(30)
    <3>2. \A i \in 1..k : t[i].exit <= t[k].exit
      BY <2>3, <2>4
    <3>3. p[k] = H(1) + R(1)
      <4> HIDE DEF q, a, b
      <4> QED BY <2>3, <3>1
    <3> QED BY <2>2, <2>4, <3>2, <3>3
  <2>5. CASE k # 1
    <3> DEFINE j == k - 1
               e == t[j].exit
    <3>1. j \in 1..m /\ j \in Nat \ {0} /\ k = j + 1 /\ j < m /\ ~ (k <= j)
      BY <1>1, <2>2, <2>5
    <3>2. q = H(j) + R(j) /\ \A i \in 1..j : t[i].exit <= t[j].exit
      <4>1. j \notin Bad
        <5> HIDE DEF Bad, j
        <5> QED BY <2>1, <3>1
      <4> QED BY <3>1, <4>1
    <3>3. /\ \A i \in 1..k : t[i].exit <= t[k].exit
          /\ H(k) + (IF a = e THEN 1 ELSE 0) = H(j) + (b - a + 1)
      BY <1>a, <3>1, <3>2
    <3>4. R(j) \in Nat /\ R(k) = R(j) + (IF a = e THEN 1 ELSE 0)
      BY <1>8, <3>1
    <3>5. H(j) \in Nat /\ H(k) \in Nat
      BY <1>c, <2>2, <3>1
    <3>6. p[k] = H(k) + R(k)
      <4> HIDE DEF a, b, e, q, j
      <4> QED BY <2>3, <3>2, <3>3, <3>4, <3>5, SMTT(30)
    <3> QED BY <2>2, <3>3, <3>6
  <2> QED BY <2>4, <2>5
<1>10. InTrade(t, n) = p[m]
  BY <1>1, <1>2, <1>5, <1>6, SumFromOne DEF SumOf
<1>11. CASE m = 0
  <2>1. ReentriesTo(t, m) = 0
    <3>1. {k \in 2..m : t[k].entry = t[k - 1].exit} = {}
      BY <1>11
    <3> QED BY <3>1, FS_EmptySet, Zenon DEF ReentriesTo
  <2>2. Cardinality(InPosition(t, n)) = 0
    BY <1>11, <1>d, <1>e, FS_EmptySet
  <2> QED BY <1>7, <1>10, <1>11, <2>1, <2>2 DEF m
<1>12. CASE m # 0
  <2>1. m \in 1..m
    BY <1>1, <1>12
  <2>2. p[m] = H(m) + R(m)
    BY <1>9, <2>1
  <2> QED BY <1>10, <1>d, <2>2 DEF R, H, m
<1> QED BY <1>11, <1>12

---------------------------------------------------------------------------
(* The report: what a run keeps *)

\* The open position was opened no earlier than the last trade was left.
Spans(a, n) ==
  /\ Follow(a.trades, n)
  /\ \A p \in a.position : /\ p.opened \in 1..n
                           /\ Len(a.trades) > 0 => a.trades[Len(a.trades)].exit <= p.opened

\* What the account is worth is not negative.
Solvent(a) == a.cash \in Nat /\ \A p \in a.position : p.quantity \in Nat /\ p.target \subseteq Nat

LEMMA SpansStay ==
  ASSUME NEW a, Shape(a), NEW n \in Nat, Spans(a, n)
  PROVE  Spans(a, n + 1)
<1>1. \A i \in 1..n : i \in 1..(n + 1)
  OBVIOUS
<1> QED BY <1>1 DEF Spans, Follow

\* A position closed on the last candle.
LEMMA ClosedSpans ==
  ASSUME NEW a, NEW b, NEW p, NEW n \in Nat, NEW reason, Spans(a, n), a.position = {p},
         ClosedAt(a, b, p, n, reason)
  PROVE  Spans(b, n)
<1>1. PICK S : a.trades \in Seq(S)
  BY DEF ClosedAt
<1>2. PICK tr : b.trades = Append(a.trades, tr) /\ tr.entry = p.opened /\ tr.exit = n
  BY DEF ClosedAt
<1> DEFINE t == a.trades
           u == b.trades
           m == Len(t)
<1>3. /\ m \in Nat /\ Len(u) = m + 1 /\ (\A i \in 1..m : u[i] = t[i]) /\ u[m + 1] = tr
  BY <1>1, <1>2, Appended
<1>4. p.opened \in 1..n /\ (m > 0 => t[m].exit <= p.opened)
  BY DEF Spans
<1>5. \A k \in 1..m : /\ t[k].entry \in 1..n /\ t[k].exit \in 1..n /\ t[k].entry <= t[k].exit
                      /\ k > 1 => t[k - 1].exit <= t[k].entry
  BY DEF Spans, Follow
<1> HIDE DEF t, u, m
<1>6. ASSUME NEW k \in 1..(m + 1)
      PROVE  /\ u[k].entry \in 1..n /\ u[k].exit \in 1..n /\ u[k].entry <= u[k].exit
             /\ k > 1 => u[k - 1].exit <= u[k].entry
  <2>1. CASE k = m + 1
    <3>1. u[k].entry = p.opened /\ u[k].exit = n
      BY <1>2, <1>3, <2>1
    <3>2. k > 1 => u[k - 1] = t[m] /\ m > 0
      <4>1. k > 1 => k - 1 = m /\ m \in 1..m /\ m > 0
        BY <1>3, <2>1
      <4> QED BY <1>3, <4>1
    <3> QED BY <1>4, <3>1, <3>2
  <2>2. CASE k # m + 1
    <3>1. k \in 1..m /\ (k > 1 => k - 1 \in 1..m)
      BY <1>3, <2>2
    <3> QED BY <1>3, <1>5, <3>1
  <2> QED BY <2>1, <2>2
<1>7. Follow(b.trades, n)
  BY <1>3, <1>6 DEF Follow, u
<1>8. b.position = {}
  BY DEF ClosedAt
<1> QED BY <1>7, <1>8 DEF Spans

\* Costs that are at most the price leave something of it.
LEMMA SellFill ==
  ASSUME NEW price \in Nat
  PROVE  LET fill == Fill(price, "sell")
         IN  fill.price \in Nat /\ fill.fee \in Nat /\ fill.fee <= Unit * fill.price
<1> DEFINE rate == Unit - ImpactRate
           x == price * rate
<1>1. Fill(price, "sell") = [price |-> x, fee |-> x * FeeRate]
  BY DEF Fill
<1>2. rate \in Nat /\ FeeRate \in Nat /\ Unit \in Nat /\ FeeRate <= Unit
  BY RatesAre, CostsAssumption
<1> HIDE DEF rate
<1>3. x \in Nat
  BY <1>2
<1> HIDE DEF x
<1>4. x * FeeRate \in Nat /\ FeeRate * x <= Unit * x /\ FeeRate * x = x * FeeRate
  BY <1>2, <1>3, TimesKeeps
<1> QED BY <1>1, <1>3, <1>4

LEMMA ClosedSolvent ==
  ASSUME NEW a, Shape(a), Solvent(a), NEW p, a.position = {p}, NEW price \in Nat, NEW t, NEW reason
  PROVE  Solvent(Closed(a, price, t, reason))
<1>1. (CHOOSE q \in a.position : TRUE) = p
  OBVIOUS
<1> DEFINE b == Closed(a, price, t, reason)
           fill == Fill(price, "sell")
           f == fill.price
           h == fill.fee
           q == p.quantity
           c == a.cash
           cash == c + Unit * f * q - h * q
           tr == [entry |-> p.opened, exit |-> t, quantity |-> p.quantity, reason |-> reason,
                  pnl |-> (fill.price - p.price) * Unit * p.quantity - fill.fee * p.quantity,
                  fees |-> p.fees + fill.fee * p.quantity,
                  stop |-> p.stop, target |-> p.target, entryFees |-> p.fees]
<1>2. b = [cash |-> cash, position |-> {}, held |-> 0, trades |-> Append(a.trades, tr)]
  BY <1>1, Zenon DEF Closed
<1>3. f \in Nat /\ h \in Nat /\ h <= Unit * f /\ c \in Nat /\ q \in Nat /\ Unit \in Nat
  BY SellFill, RatesAre DEF Solvent
<1> HIDE DEF f, h, q, c, tr
<1>4. Unit * f \in Nat
  BY <1>3
<1> DEFINE v == Unit * f
<1>5. h * q <= v * q
  BY <1>3, <1>4, TimesKeeps
<1>6. cash = c + v * q - h * q
  BY <1>3
<1> HIDE DEF v, cash
<1>7. v * q \in Nat /\ h * q \in Nat
  BY <1>3, <1>4 DEF v
<1>8. cash \in Nat
  BY <1>3, <1>5, <1>6, <1>7
<1>9. b.cash = cash /\ b.position = {}
  BY <1>2
<1> HIDE DEF b
<1>10. Solvent(b)
  BY <1>8, <1>9 DEF Solvent
<1> QED BY <1>10 DEF b

\* A purchase is paid from the cash.
LEMMA BoughtSolvent ==
  ASSUME NEW a, AccountCash(a), Solvent(a), a.position = {}, NEW bar, bar.close \in Nat,
         NEW signal, signal.target \subseteq Nat
  PROVE  Solvent(Bought(a, bar, signal))
<1> DEFINE qty == SizePosition(a.cash, bar.close)
           fill == Fill(bar.close, "buy")
           cost == (Unit * fill.price + fill.fee) * qty
           p == [quantity |-> qty, price |-> fill.price, opened |-> bar.t,
                 stop |-> signal.stop, target |-> signal.target, fees |-> fill.fee * qty]
           b == Bought(a, bar, signal)
           cash == a.cash - cost
<1>1. CASE b = a
  BY <1>1
<1>2. CASE b # a
  <2>1. qty > 0 /\ cost <= a.cash /\ b = [a EXCEPT !.cash = cash, !.held = 0, !.position = {p}]
    BY <1>2, Zenon DEF Bought
  <2>2. b = [cash |-> cash, position |-> {p}, held |-> 0, trades |-> a.trades]
    <3> HIDE DEF b, cash, p, cost, qty
    <3> QED BY <2>1 DEF AccountCash, Shape
  <2>3. a.cash \in Nat /\ qty \in Int /\ fill.price \in Int /\ fill.fee \in Int /\ Unit \in Int
    <3>1. a.cash \in Nat /\ a.cash \in Int /\ bar.close \in Int
      BY DEF Solvent
    <3>2. qty \in Int
      BY <3>1, SizeIs
    <3>3. fill.price \in Int /\ fill.fee \in Int
      BY <3>1, FillIs
    <3>4. Unit \in Int
      BY RatesAre
    <3> HIDE DEF qty, fill
    <3> QED BY <3>1, <3>2, <3>3, <3>4
  <2>4. p.quantity = qty /\ p.target = signal.target
    OBVIOUS
  <2> HIDE DEF qty, fill, p
  <2>5. cost \in Int
    <3> DEFINE f == fill.price
               h == fill.fee
    <3>1. f \in Int /\ h \in Int /\ qty \in Int /\ Unit \in Int
      BY <2>3
    <3>2. cost = (Unit * f + h) * qty
      OBVIOUS
    <3> HIDE DEF f, h
    <3>3. (Unit * f + h) * qty \in Int
      BY <3>1
    <3> QED BY <3>2, <3>3
  <2> HIDE DEF cost
  <2>6. cash \in Nat /\ qty \in Nat
    BY <2>1, <2>3, <2>5
  <2> HIDE DEF cash, b
  <2>7. b.position = {p} /\ b.cash = cash
    BY <2>2
  <2>8. Solvent(b)
    BY <2>4, <2>6, <2>7 DEF Solvent
  <2> QED BY <2>8 DEF b
<1> QED BY <1>1, <1>2

\* The equity of a solvent account.
LEMMA EquityIs ==
  ASSUME NEW a, Shape(a), Solvent(a), NEW mark \in Nat
  PROVE  Equity(a, mark) \in Nat
<1> DEFINE q == IF a.position = {} THEN 0 ELSE (CHOOSE p \in a.position : TRUE).quantity
           u == Unit * Unit * mark
<1>1. q \in Nat
  <2>1. CASE a.position = {}
    BY <2>1
  <2>2. CASE a.position # {}
    <3>1. PICK p : a.position = {p}
      BY <2>2 DEF Shape
    <3>2. (CHOOSE z \in a.position : TRUE) = p
      BY <3>1
    <3> QED BY <2>2, <3>1, <3>2 DEF Solvent
  <2> QED BY <2>1, <2>2
<1>2. u \in Nat
  <2>1. Unit * Unit \in Nat
    BY RatesAre
  <2> DEFINE w == Unit * Unit
  <2>2. u = w * mark
    OBVIOUS
  <2> HIDE DEF w, u
  <2>3. w * mark \in Nat
    BY <2>1 DEF w
  <2> QED BY <2>2, <2>3
<1>3. Equity(a, mark) = a.cash + u * q
  BY DEF Equity
<1> HIDE DEF u, q
<1>4. u * q \in Nat
  BY <1>1, <1>2
<1> QED BY <1>3, <1>4 DEF Solvent

\* A run: the account of every candle, and after the forced close the report of it.
Sound(a, n) == AccountCash(a) /\ Spans(a, n) /\ Solvent(a)
RunInv ==
  /\ Counting(candles) /\ strategy \in Registry
  /\ Sound(account, Len(candles))
  /\ curve \in Seq(Nat) /\ Len(curve) = Len(candles)
  /\ report = {} \/ (account.position = {} /\ report = {ComputeMetrics(account, curve)})

LEMMA ClosedSound ==
  ASSUME NEW a, NEW n \in Nat, Sound(a, n), NEW p, a.position = {p}, NEW price \in Nat, NEW reason
  PROVE  Sound(Closed(a, price, n, reason), n) /\ Closed(a, price, n, reason).position = {}
<1>1. AccountCash(a) /\ Shape(a) /\ Spans(a, n) /\ Solvent(a) /\ price \in Int
  BY DEF Sound, AccountCash
<1> DEFINE b == Closed(a, price, n, reason)
<1>2. AccountCash(b)
  BY <1>1, ClosedCash
<1>3. ClosedAt(a, b, p, n, reason)
  BY <1>1, ClosedIs
<1>4. Solvent(b)
  BY <1>1, ClosedSolvent
<1> HIDE DEF b
<1>5. Spans(b, n) /\ b.position = {}
  BY <1>1, <1>3, ClosedSpans DEF ClosedAt
<1>6. Sound(b, n) /\ b.position = {}
  BY <1>2, <1>4, <1>5 DEF Sound
<1> QED BY <1>6 DEF b

\* The stop and target check, and the mark.
LEMMA StopTakeSound ==
  ASSUME NEW a, NEW bar \in BarSet, Sound(a, bar.t)
  PROVE  Sound(StopTake(a, bar), bar.t)
<1>1. AccountCash(a) /\ Shape(a) /\ Solvent(a) /\ \A p \in a.position : IntPosition(p)
  BY DEF Sound, AccountCash
<1>2. bar.t \in Nat /\ bar.low \in Nat
  BY DEF BarSet
<1> DEFINE hit == StopTake(a, bar)
<1>3. \/ hit = a
      \/ \E p : \E price \in Int : \E reason :
           /\ a.position = {p} /\ hit = Closed(a, price, bar.t, reason)
           /\ price \in p.target \/ bar.low <= price
  BY <1>1, StopTakeFill
<1> HIDE DEF hit
<1>4. CASE hit = a
  BY <1>4 DEF hit
<1>5. CASE \E p : \E price \in Int : \E reason :
             /\ a.position = {p} /\ hit = Closed(a, price, bar.t, reason)
             /\ price \in p.target \/ bar.low <= price
  <2>1. PICK p : \E price \in Int : \E reason :
             /\ a.position = {p} /\ hit = Closed(a, price, bar.t, reason)
             /\ price \in p.target \/ bar.low <= price
    BY <1>5
  <2>2. PICK price \in Int : \E reason :
             /\ a.position = {p} /\ hit = Closed(a, price, bar.t, reason)
             /\ price \in p.target \/ bar.low <= price
    BY <2>1
  <2>3. PICK reason : /\ a.position = {p} /\ hit = Closed(a, price, bar.t, reason)
                      /\ price \in p.target \/ bar.low <= price
    BY <2>2
  <2>4. price \in Nat
    <3>1. p.target \subseteq Nat
      BY <1>1, <2>3 DEF Solvent
    <3> QED BY <1>2, <2>3, <3>1
  <2>5. Sound(Closed(a, price, bar.t, reason), bar.t)
    BY <1>2, <2>3, <2>4, ClosedSound
  <2> QED BY <2>3, <2>5 DEF hit
<1> QED BY <1>3, <1>4, <1>5

LEMMA MarkedSound ==
  ASSUME NEW a, NEW n, Sound(a, n)
  PROVE  Sound(Marked(a), n)
<1>1. AccountCash(a) /\ Shape(a) /\ Spans(a, n) /\ Solvent(a)
  BY DEF Sound, AccountCash
<1> DEFINE b == Marked(a)
<1>2. /\ Shape(b) /\ b.position = a.position /\ b.trades = a.trades /\ b.cash = a.cash
  BY <1>1, MarkedIs
<1> HIDE DEF b
<1>3. OpenCost(b) = OpenCost(a)
  BY <1>2 DEF OpenCost
<1>4. AccountCash(b)
  BY <1>1, <1>2, <1>3 DEF AccountCash
<1>5. Spans(b, n) /\ Solvent(b)
  BY <1>1, <1>2 DEF Spans, Solvent
<1> QED BY <1>4, <1>5 DEF Sound, b

\* The signal of the candle.
LEMMA ActedSound ==
  ASSUME NEW a, NEW bar \in BarSet, bar.t > 0, Sound(a, bar.t), NEW signal,
         signal.direction = "BUY" => signal.stop \subseteq Int /\ signal.target \subseteq Nat
  PROVE  Sound(Acted(a, bar, signal), bar.t)
<1>1. AccountCash(a) /\ Shape(a) /\ Solvent(a) /\ Spans(a, bar.t)
  BY DEF Sound, AccountCash
<1>2. bar.t \in Nat /\ bar.close \in Nat /\ bar.close \in Int /\ bar.t \in 1..bar.t
  BY DEF BarSet
<1> DEFINE b == Acted(a, bar, signal)
<1>3. CASE signal.direction = "BUY" /\ a.position = {}
  <2>1. b = Bought(a, bar, signal)
    BY <1>3 DEF Acted
  <2>2. signal.stop \subseteq Int /\ signal.target \subseteq Int /\ signal.target \subseteq Nat
    BY <1>3
  <2>3. AccountCash(b)
    BY <1>1, <1>2, <1>3, <2>1, <2>2, BoughtCash
  <2>4. Solvent(b)
    BY <1>1, <1>2, <1>3, <2>1, <2>2, BoughtSolvent
  <2>5. \/ b = a
        \/ /\ b.trades = a.trades
           /\ \E p : b.position = {p} /\ p.opened = bar.t
        \/ \E p : a.position = {p}
    BY <1>1, ActedIs
  <2> HIDE DEF b
  <2>6. Spans(b, bar.t)
    <3>1. CASE b = a
      BY <1>1, <3>1
    <3>2. CASE b.trades = a.trades /\ \E p : b.position = {p} /\ p.opened = bar.t
      <4>1. PICK p : b.position = {p} /\ p.opened = bar.t
        BY <3>2
      <4> DEFINE m == Len(a.trades)
      <4>2. m > 0 => a.trades[m].exit <= bar.t
        <5>1. m \in Nat
          BY <1>1 DEF Shape
        <5>2. m > 0 => m \in 1..m
          BY <5>1
        <5>3. m > 0 => a.trades[m].exit \in 1..bar.t
          BY <1>1, <5>2 DEF Spans, Follow
        <5> QED BY <1>2, <5>3
      <4> QED BY <1>1, <1>2, <3>2, <4>1, <4>2 DEF Spans
    <3> QED BY <1>3, <2>5, <3>1, <3>2
  <2> QED BY <2>3, <2>4, <2>6 DEF Sound, b
<1>4. CASE signal.direction \in {"EXIT", "SELL"} /\ a.position # {}
  <2>1. PICK p : a.position = {p}
    BY <1>1, <1>4 DEF Shape
  <2>2. b = Closed(a, bar.close, bar.t, "signal")
    BY <1>4 DEF Acted
  <2> QED BY <1>2, <2>1, <2>2, ClosedSound
<1>5. CASE /\ ~ (signal.direction = "BUY" /\ a.position = {})
           /\ ~ (signal.direction \in {"EXIT", "SELL"} /\ a.position # {})
  BY <1>5 DEF Acted
<1> QED BY <1>3, <1>4, <1>5

\* One candle.
LEMMA BarRun ==
  ASSUME RunInv, NEW b \in Bars, ProcessBar(b)
  PROVE  RunInv'
<1> DEFINE n == Len(candles)
           bar == Candle(b, n + 1)
           ds == Append(candles, bar)
           hit == StopTake(account, bar)
           open == Marked(hit)
           signal == Evaluate(strategy, ds, open.position, open.held)
<1>1. /\ candles' = ds /\ curve' = Append(curve, Equity(open, bar.close))
      /\ account' = Acted(open, bar, signal) /\ strategy' = strategy
      /\ report = {} /\ report' = {}
  BY DEF ProcessBar
<1>2. /\ Counting(candles) /\ strategy \in Registry /\ Sound(account, n)
      /\ curve \in Seq(Nat) /\ Len(curve) = n
  BY DEF RunInv
<1>3. /\ Counting(ds) /\ Len(ds) = n + 1 /\ n \in Nat /\ bar.t = n + 1 /\ bar \in BarSet
  BY <1>2, NextCandle
<1>4. bar.close \in Nat /\ Len(ds) > 0 /\ bar.t > 0
  BY <1>3 DEF BarSet
<1> HIDE DEF bar, ds, n
<1>5. Sound(account, bar.t)
  <2>1. Shape(account) /\ Spans(account, n)
    BY <1>2 DEF Sound, AccountCash
  <2>2. Spans(account, n + 1)
    BY <1>3, <2>1, SpansStay
  <2> QED BY <1>2, <1>3, <2>2 DEF Sound
<1>6. Sound(hit, bar.t)
  BY <1>3, <1>5, StopTakeSound
<1> HIDE DEF hit
<1>7. Sound(open, bar.t)
  BY <1>6, MarkedSound
<1> HIDE DEF open
<1>8. signal.direction = "BUY" => signal.stop \subseteq Int /\ signal.target \subseteq Nat
  BY <1>2, <1>3, <1>4, BuyLevels
<1> HIDE DEF signal
<1>9. Sound(Acted(open, bar, signal), bar.t)
  BY <1>3, <1>4, <1>7, <1>8, ActedSound
<1>10. Equity(open, bar.close) \in Nat
  BY <1>4, <1>7, EquityIs DEF Sound, AccountCash
<1> DEFINE e == Equity(open, bar.close)
<1> HIDE DEF e
<1>11. Append(curve, e) \in Seq(Nat) /\ Len(Append(curve, e)) = n + 1
  BY <1>2, <1>10 DEF e
<1>12. curve' \in Seq(Nat) /\ Len(curve') = n + 1
  BY <1>1, <1>11 DEF e
<1> QED BY <1>1, <1>2, <1>3, <1>9, <1>12 DEF RunInv

\* The end of the series.
LEMMA FinishRun ==
  ASSUME RunInv, Finish
  PROVE  RunInv'
<1> DEFINE n == Len(candles)
           done == ForceClosed(account)
<1>1. /\ candles' = candles /\ curve' = curve /\ account' = done /\ strategy' = strategy
      /\ candles # <<>> /\ report' = {ComputeMetrics(done, curve)}
  BY DEF Finish
<1>2. /\ Counting(candles) /\ strategy \in Registry /\ Sound(account, n)
      /\ curve \in Seq(Nat) /\ Len(curve) = n
  BY DEF RunInv
<1>3. Sound(done, n) /\ done.position = {}
  <2>1. CASE account.position = {}
    BY <1>2, <2>1 DEF ForceClosed
  <2>2. CASE account.position # {}
    <3>1. PICK p : account.position = {p}
      BY <1>2, <2>2 DEF Sound, AccountCash, Shape
    <3> DEFINE bar == candles[n]
    <3>2. done = Closed(account, bar.close, bar.t, "end-of-data")
      BY <2>2 DEF ForceClosed
    <3>3. n \in Nat /\ n \in 1..n
      BY <1>1, <1>2 DEF Counting
    <3>4. bar \in BarSet /\ bar.t = n
      BY <1>2, <3>3 DEF Counting
    <3>5. bar.close \in Nat
      BY <3>4 DEF BarSet
    <3> HIDE DEF bar, n, done
    <3> QED BY <1>2, <3>1, <3>2, <3>3, <3>4, <3>5, ClosedSound
  <2> QED BY <2>1, <2>2
<1> HIDE DEF done
<1> QED BY <1>1, <1>2, <1>3 DEF RunInv

\* The report of a sound account with no position open.
LEMMA ReportIs ==
  ASSUME NEW a, NEW eq \in Seq(Nat), Sound(a, Len(eq)), a.position = {}
  PROVE  LET r == ComputeMetrics(a, eq)
             pnls == [k \in DOMAIN a.trades |-> a.trades[k].pnl]
             all == <<StartCash>> \o eq
         IN  /\ r.bestStreak = LongestRun(pnls, TRUE)
             /\ r.worstStreak = LongestRun(pnls, FALSE)
             /\ \A i \in DOMAIN all : \A j \in i..Len(all) :
                  AtMost(<<all[i] - all[j], all[i]>>, r.maxDrawdown)
             /\ \/ r.maxDrawdown = <<0, 1>>
                \/ \E i \in DOMAIN all : \E j \in i..Len(all) :
                     all[i] > 0 /\ r.maxDrawdown = <<all[i] - all[j], all[i]>>
             /\ r.inTrade = Cardinality(InPosition(a.trades, Len(eq))) + Reentries(a.trades)
             /\ r.net = r.grossProfit - r.grossLoss - EntryFees(a.trades)
<1> DEFINE r == ComputeMetrics(a, eq)
           pnls == [k \in DOMAIN a.trades |-> a.trades[k].pnl]
           wins == [k \in DOMAIN pnls |-> IF pnls[k] > 0 THEN pnls[k] ELSE 0]
           losses == [k \in DOMAIN pnls |-> IF pnls[k] < 0 THEN pnls[k] ELSE 0]
           all == <<StartCash>> \o eq
<1>1. /\ r.net = a.cash - StartCash
      /\ r.grossProfit = SumOf(wins) /\ r.grossLoss = - SumOf(losses)
      /\ r.maxDrawdown = MaxDrawdown(StartCash, eq)
      /\ r.inTrade = InTrade(a.trades, Len(eq))
      /\ r.bestStreak = MaxStreak(pnls, TRUE) /\ r.worstStreak = MaxStreak(pnls, FALSE)
  <2> DEFINE count == Len(pnls)
             won == Cardinality({k \in DOMAIN pnls : pnls[k] > 0})
             net == a.cash - StartCash
             profit == SumOf(wins)
             loss == - SumOf(losses)
             fees == SumOf([k \in DOMAIN a.trades |-> a.trades[k].fees])
             fall == MaxDrawdown(StartCash, eq)
             in == InTrade(a.trades, Len(eq))
             best == MaxStreak(pnls, TRUE)
             worst == MaxStreak(pnls, FALSE)
  <2>1. r = [net |-> net, count |-> count, wins |-> won, grossProfit |-> profit,
             grossLoss |-> loss, fees |-> fees, maxDrawdown |-> fall, inTrade |-> in,
             bestStreak |-> best, worstStreak |-> worst]
    BY Zenon DEF ComputeMetrics
  <2> HIDE DEF r, count, won, net, profit, loss, fees, fall, in, best, worst
  <2>2. /\ r.net = net /\ r.grossProfit = profit /\ r.grossLoss = loss /\ r.maxDrawdown = fall
        /\ r.inTrade = in /\ r.bestStreak = best /\ r.worstStreak = worst
    BY <2>1
  <2> QED BY <2>2 DEF net, profit, loss, fall, in, best, worst
<1>2. AccountCash(a) /\ Spans(a, Len(eq)) /\ Shape(a)
  BY DEF Sound, AccountCash
<1>3. pnls \in Seq(Int) /\ Pnls(a.trades) = SumOf(pnls)
  <2>1. PnlSeq(a.trades) = pnls
    BY DEF PnlSeq
  <2>2. pnls \in Seq(Int)
    BY <1>2, <2>1 DEF AccountCash
  <2> QED BY <2>2 DEF Pnls
<1>4. StartCash \in Nat /\ Len(eq) \in Nat
  BY RatesAre
<1> HIDE DEF r
<1>5. /\ MaxStreak(pnls, TRUE) = LongestRun(pnls, TRUE)
      /\ MaxStreak(pnls, FALSE) = LongestRun(pnls, FALSE)
  <2> HIDE DEF pnls
  <2> QED BY <1>3, StreakIsLongest
<1>6. \A i \in DOMAIN all : \A j \in i..Len(all) :
        AtMost(<<all[i] - all[j], all[i]>>, r.maxDrawdown)
  <2>1. \A i \in DOMAIN all : \A j \in i..Len(all) :
          AtMost(<<all[i] - all[j], all[i]>>, MaxDrawdown(StartCash, eq))
    BY <1>4, DrawdownIsWorst
  <2> HIDE DEF all
  <2> QED BY <1>1, <2>1, Zenon
<1>a. \/ r.maxDrawdown = <<0, 1>>
      \/ \E i \in DOMAIN all : \E j \in i..Len(all) :
           all[i] > 0 /\ r.maxDrawdown = <<all[i] - all[j], all[i]>>
  <2> DEFINE worst == MaxDrawdown(StartCash, eq)
  <2>1. \/ worst = <<0, 1>>
        \/ \E i \in DOMAIN all : \E j \in i..Len(all) :
             all[i] > 0 /\ worst = <<all[i] - all[j], all[i]>>
    BY <1>4, DrawdownIsTaken
  <2>2. r.maxDrawdown = worst
    BY <1>1
  <2> HIDE DEF all, worst
  <2> QED BY <2>1, <2>2, Zenon
<1>7. r.inTrade = Cardinality(InPosition(a.trades, Len(eq))) + Reentries(a.trades)
  <2>1. PICK S : a.trades \in Seq(S)
    BY <1>2 DEF Shape
  <2>2. Follow(a.trades, Len(eq))
    BY <1>2 DEF Spans
  <2>3. InTrade(a.trades, Len(eq))
          = Cardinality(InPosition(a.trades, Len(eq))) + ReentriesTo(a.trades, Len(a.trades))
    BY <1>4, <2>1, <2>2, InTradeIs
  <2>4. Reentries(a.trades) = ReentriesTo(a.trades, Len(a.trades))
    BY DEF Reentries, ReentriesTo
  <2> QED BY <1>1, <2>3, <2>4
<1>8. r.net = r.grossProfit - r.grossLoss - EntryFees(a.trades)
  <2> DEFINE W == SumOf(wins)
             L == SumOf(losses)
             P == Pnls(a.trades)
             E == EntryFees(a.trades)
             c == a.cash
  <2>1. W \in Int /\ L \in Int /\ P = W + L
    <3>1. SumOf(wins) \in Int /\ SumOf(losses) \in Int /\ SumOf(pnls) = SumOf(wins) + SumOf(losses)
      <4> HIDE DEF pnls
      <4> QED BY <1>3, GrossAddsUp
    <3> QED BY <1>3, <3>1
  <2>2. c \in Int /\ c = StartCash + P - E - OpenCost(a)
    BY <1>2 DEF AccountCash
  <2>3. OpenCost(a) = 0
    BY DEF OpenCost
  <2>4. E \in Int
    <3> DEFINE d == EntrySeq(a.trades)
    <3>1. d \in Seq(Int) /\ E = SumOf(d)
      BY <1>2 DEF AccountCash, EntryFees, EntrySeq
    <3> HIDE DEF d
    <3>2. Len(d) \in 0..Len(d)
      BY <3>1
    <3>3. SumFromTo(d, 1, Len(d)) \in Int
      BY <3>1, <3>2, SumFromOneIs
    <3> QED BY <3>1, <3>3 DEF SumOf
  <2>5. r.net = c - StartCash /\ r.grossProfit = W /\ r.grossLoss = - L
    BY <1>1
  <2> HIDE DEF W, L, P, E, c
  <2>6. r.net = r.grossProfit - r.grossLoss - E
    BY <1>4, <2>1, <2>2, <2>3, <2>4, <2>5
  <2> QED BY <2>6 DEF E
<1> HIDE DEF pnls, all
<1>9. /\ r.bestStreak = LongestRun(pnls, TRUE) /\ r.worstStreak = LongestRun(pnls, FALSE)
  BY <1>1, <1>5
<1> QED BY <1>6, <1>7, <1>8, <1>9, <1>a, Zenon DEF r, pnls, all

\* For every series, strategy and rate at which a sale pays: the metrics computed
\* after a run are what they are defined to be.  The streaks are the longest runs
\* of wins and of losses, the drawdown is a fall that the equity curve took (or
\* zero) and no fall is worse, the exposure is the number of candles with a
\* position plus one for every re-entry on the candle of an exit, and net profit
\* is gross profit less gross loss less the entry fees.
THEOREM ReportAlwaysFaithful == Spec => []ReportFaithful
<1>1. Init => RunInv
  <2> SUFFICES ASSUME Init PROVE RunInv
    OBVIOUS
  <2>1. CashInv /\ candles = <<>> /\ curve = <<>> /\ report = {}
    BY InitCash DEF Init
  <2>2. account = [cash |-> StartCash, position |-> {}, held |-> 0, trades |-> <<>>]
    BY DEF Init
  <2>3. account.position = {} /\ account.trades = <<>> /\ account.cash = StartCash
    BY <2>2
  <2>4. Spans(account, 0)
    BY <2>3 DEF Spans, Follow
  <2>5. Solvent(account)
    BY <2>3, RatesAre DEF Solvent
  <2>6. Len(candles) = 0 /\ curve \in Seq(Nat) /\ Len(curve) = 0
    BY <2>1
  <2> QED BY <2>1, <2>4, <2>5, <2>6 DEF RunInv, CashInv, Sound
<1>2. RunInv /\ [Next]_vars => RunInv'
  <2> SUFFICES ASSUME RunInv, [Next]_vars PROVE RunInv'
    OBVIOUS
  <2>1. CASE UNCHANGED vars
    BY <2>1 DEF vars, RunInv
  <2> QED BY <2>1, BarRun, FinishRun DEF Next
<1>3. RunInv => ReportFaithful
  <2> SUFFICES ASSUME RunInv, report # {} PROVE ReportFaithful
    BY DEF ReportFaithful
  <2>1. /\ report = {ComputeMetrics(account, curve)} /\ account.position = {}
        /\ curve \in Seq(Nat) /\ Sound(account, Len(curve))
    BY DEF RunInv
  <2> DEFINE r == ComputeMetrics(account, curve)
             pnls == [k \in DOMAIN account.trades |-> account.trades[k].pnl]
             all == <<StartCash>> \o curve
  <2>2. /\ r.bestStreak = LongestRun(pnls, TRUE)
        /\ r.worstStreak = LongestRun(pnls, FALSE)
        /\ \A i \in DOMAIN all : \A j \in i..Len(all) :
             AtMost(<<all[i] - all[j], all[i]>>, r.maxDrawdown)
        /\ \/ r.maxDrawdown = <<0, 1>>
           \/ \E i \in DOMAIN all : \E j \in i..Len(all) :
                all[i] > 0 /\ r.maxDrawdown = <<all[i] - all[j], all[i]>>
        /\ r.inTrade = Cardinality(InPosition(account.trades, Len(curve)))
                         + Reentries(account.trades)
        /\ r.net = r.grossProfit - r.grossLoss - EntryFees(account.trades)
    BY <2>1, ReportIs
  <2>3. \A q \in report : q = r
    BY <2>1
  <2> HIDE DEF r
  <2> QED BY <2>2, <2>3, Zenon DEF ReportFaithful
<1> QED BY <1>1, <1>2, <1>3, PTL DEF Spec
=============================================================================
