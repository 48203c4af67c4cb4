--------------------------- MODULE RiskGateProofs ---------------------------
(***************************************************************************)
(* What the risk engine guarantees for every number of orchestrators and   *)
(* symbols, every limit and every run: no order in live mode, the rate     *)
(* limit in every window, the cooldown, a bound on the losing exits in a   *)
(* row, an account that is never overdrawn, purchases within the portfolio *)
(* limit and exits that are not sliced.                                    *)
(***************************************************************************)
EXTENDS RiskGate, SumTheorems, FiniteSetTheorems, SequenceTheorems

\* An order that is accepted has passed the checks of evaluate, and nothing but
\* an accepted order adds to accepted, recent or seen.
LEMMA SubmitIs ==
  ASSUME NEW path, NEW req, Submit(path, req)
  PROVE  \/ Approved(path, req) /\ accepted' = Append(accepted, clock)
                                /\ recent' = Append(Recent, clock)
         \/ ~ Approved(path, req) /\ UNCHANGED <<accepted, recent, account>>
BY DEF Submit

\* What a step may do to the lists of the risk engine.
Accepts(path, req) ==
  /\ Admissible(path, req)
  /\ accepted' = Append(accepted, clock) /\ recent' = Append(Recent, clock)
  /\ UNCHANGED <<clock, settings>>

\* Every step accepts one order or none, and the clock only moves up.
LEMMA NextAccepts ==
  ASSUME [Next]_vars
  PROVE  \/ \E path \in Paths : \E req : Accepts(path, req)
         \/ UNCHANGED <<settings, accepted, recent>> /\ (clock' = clock \/ clock' = clock + 1)
<1>1. ASSUME NEW path \in Paths, NEW req, Submit(path, req), UNCHANGED <<clock, settings>>
      PROVE  \/ \E pt \in Paths : \E rq : Accepts(pt, rq)
             \/ UNCHANGED <<settings, accepted, recent>> /\ (clock' = clock \/ clock' = clock + 1)
  BY <1>1, SubmitIs DEF Accepts, Approved
<1>2. "session" \in Paths /\ Cyclers \subseteq Paths
  BY DEF Paths
<1>3. ASSUME NEW s \in Symbols, NEW ticket \in Tickets, PlaceOrder(s, ticket)
      PROVE  \/ \E pt \in Paths : \E rq : Accepts(pt, rq)
             \/ UNCHANGED <<settings, accepted, recent>> /\ (clock' = clock \/ clock' = clock + 1)
  BY <1>1, <1>2, <1>3, Zenon DEF PlaceOrder, SessionSubmits
<1>4. CASE ClosePass
  BY <1>1, <1>2, <1>4, Zenon DEF ClosePass, SessionSubmits
<1>5. ASSUME NEW c \in Cyclers, NEW s \in Symbols, NEW side \in {"BUY", "SELL"},
             SignalActs(c, s, side)
      PROVE  \/ \E pt \in Paths : \E rq : Accepts(pt, rq)
             \/ UNCHANGED <<settings, accepted, recent>> /\ (clock' = clock \/ clock' = clock + 1)
  BY <1>1, <1>2, <1>5, Zenon DEF SignalActs
<1>6. ASSUME NEW s \in Symbols, CloseBegins(s)
      PROVE  UNCHANGED <<settings, accepted, recent, clock>>
  BY <1>6 DEF CloseBegins, gate
<1>7. ASSUME NEW c \in Cyclers, ExitCounted(c)
      PROVE  UNCHANGED <<settings, accepted, recent, clock>>
  BY <1>7 DEF ExitCounted, gate
<1>8. ASSUME NEW s \in Symbols, NEW m \in Prices, MarketMoves(s, m)
      PROVE  UNCHANGED <<settings, accepted, recent, clock>>
  BY <1>8 DEF MarketMoves
<1>9. ASSUME NEW o \in Outages, OutageChanges(o)
      PROVE  UNCHANGED <<settings, accepted, recent, clock>>
  BY <1>9 DEF OutageChanges
<1>10. ASSUME NEW path \in Paths, Appraises(path)
       PROVE  UNCHANGED <<settings, accepted, recent, clock>>
  BY <1>10 DEF Appraises, gate
<1>11. CASE Trigger
  BY <1>11 DEF Trigger, gate
<1>12. CASE Tick
  BY <1>12 DEF Tick
<1>13. CASE UNCHANGED vars
  BY <1>13 DEF vars, gate
<1> QED BY <1>3, <1>4, <1>5, <1>6, <1>7, <1>8, <1>9, <1>10, <1>11, <1>12, <1>13 DEF Next

---------------------------------------------------------------------------
(* The live gate *)

\* Whatever the environment says and however the process was started, the
\* command line included: while trading_mode is live, evaluate approves nothing,
\* since no caller presents an approval.
THEOREM NeverLiveAlways == Spec => []NeverLive
<1>1. Init => NeverLive
  BY DEF Init, NeverLive
<1>2. NeverLive /\ [Next]_vars => NeverLive'
  <2> SUFFICES ASSUME NeverLive, [Next]_vars PROVE NeverLive'
    OBVIOUS
  <2>1. CASE \E path \in Paths : \E req : Accepts(path, req)
    BY <2>1 DEF Accepts, Admissible, LiveGating, NeverLive
  <2> QED BY <2>1, NextAccepts DEF NeverLive
<1> QED BY <1>1, <1>2, PTL DEF Spec

---------------------------------------------------------------------------
(* The rate limit *)

\* Pruning a list whose old times come first drops them and keeps the rest.
LEMMA PrunedIs ==
  ASSUME NEW times \in Seq(Int), NEW m \in 0..Len(times),
         \A i \in 1..m : ~ InWindow(times[i]),
         \A i \in (m + 1)..Len(times) : InWindow(times[i])
  PROVE  Pruned(times) = [i \in 1..(Len(times) - m) |-> times[m + i]]
<1> DEFINE n == Len(times)
           Eqn(g) == g = [k \in 0..n |-> IF k = 0 THEN <<>>
                                         ELSE IF InWindow(times[k])
                                              THEN Append(g[k - 1], times[k]) ELSE g[k - 1]]
           Part(k) == [i \in 1..(k - m) |-> times[m + i]]
           p == [k \in 0..n |-> IF k <= m THEN <<>> ELSE Part(k)]
           S == CHOOSE g : Eqn(g)
<1>1. n \in Nat /\ m \in Nat /\ m <= n
  OBVIOUS
<1>2. \A k \in 1..n : k > m => Append(p[k - 1], times[k]) = p[k]
  <2> SUFFICES ASSUME NEW k \in 1..n, k > m PROVE Append(p[k - 1], times[k]) = p[k]
    OBVIOUS
  <2>1. p[k] = Part(k) /\ times[k] \in Int
    BY <1>1
  <2>2. CASE k - 1 = m
    <3>1. p[k - 1] = <<>> /\ k - m = 1
      BY <1>1, <2>2
    <3>2. Part(k) = [i \in 1..1 |-> times[m + i]] /\ times[m + 1] = times[k]
      BY <1>1, <2>2, <3>1
    <3>3. Append(<<>>, times[k]) = [i \in 1..1 |-> times[k]]
      BY <2>1
    <3>4. Part(k) = [i \in 1..1 |-> times[k]]
      <4>1. \A i \in 1..1 : times[m + i] = times[k]
        BY <3>2
      <4> QED BY <3>2, <4>1, Zenon
    <3> QED BY <2>1, <3>1, <3>3, <3>4
  <2>3. CASE k - 1 # m
    <3>1. k - 1 > m /\ k - 1 \in 0..n /\ (k - 1) - m \in Nat /\ ((k - 1) - m) + 1 = k - m
      BY <1>1, <2>3
    <3>2. p[k - 1] = Part(k - 1)
      BY <1>1, <3>1
    <3>3. Part(k - 1) \in Seq(Int) /\ Len(Part(k - 1)) = (k - 1) - m
      BY <1>1, <3>1
    <3>4. Part(k) \in Seq(Int) /\ Len(Part(k)) = k - m
      BY <1>1
    <3> DEFINE longer == Append(Part(k - 1), times[k])
    <3>5. /\ longer \in Seq(Int) /\ Len(longer) = k - m
          /\ \A i \in 1..((k - 1) - m) : longer[i] = Part(k - 1)[i]
          /\ longer[k - m] = times[k]
      <4> HIDE DEF Part
      <4> QED BY <2>1, <3>1, <3>3, SMTT(30)
    <3>6. \A i \in 1..(k - m) : longer[i] = Part(k)[i]
      <4> SUFFICES ASSUME NEW i \in 1..(k - m) PROVE longer[i] = Part(k)[i]
        OBVIOUS
      <4> HIDE DEF longer
      <4>1. CASE i <= (k - 1) - m
        <5>1. i \in 1..((k - 1) - m)
          BY <1>1, <3>1, <4>1
        <5> QED BY <3>5, <5>1
      <4>2. CASE ~ (i <= (k - 1) - m)
        <5>1. i = k - m /\ m + i = k
          BY <1>1, <3>1, <4>2
        <5> QED BY <3>5, <5>1
      <4> QED BY <4>1, <4>2
    <3>7. longer = Part(k)
      <4> HIDE DEF longer, Part
      <4> QED BY <3>4, <3>5, <3>6, SeqEqual
    <3> QED BY <2>1, <3>2, <3>7
  <2> QED BY <2>2, <2>3
<1>3. Eqn(p)
  <2>1. \A k \in 0..n : k <= m => p[k] = <<>>
    OBVIOUS
  <2>2. ASSUME NEW k \in 0..n
        PROVE  p[k] = IF k = 0 THEN <<>>
                      ELSE IF InWindow(times[k]) THEN Append(p[k - 1], times[k]) ELSE p[k - 1]
    <3>1. CASE k = 0
      BY <1>1, <2>1, <3>1
    <3>2. CASE k # 0 /\ k <= m
      <4>1. k \in 1..m /\ k - 1 \in 0..n /\ k - 1 <= m
        BY <1>1, <3>2
      <4> HIDE DEF p
      <4> QED BY <2>1, <3>2, <4>1
    <3>3. CASE k > m
      <4>1. k \in (m + 1)..Len(times) /\ k \in 1..n /\ k # 0
        BY <1>1, <3>3
      <4> HIDE DEF p
      <4> QED BY <1>2, <3>3, <4>1
    <3> QED BY <1>1, <3>1, <3>2, <3>3
  <2>3. p = [k \in 0..n |-> p[k]]
    OBVIOUS
  <2> HIDE DEF p
  <2> QED BY <2>2, <2>3, Zenon
<1>4. Pruned(times) = S[n]
  BY DEF Pruned
<1>5. Eqn(S)
  <2> HIDE DEF Eqn, p
  <2> QED BY <1>3
<1> HIDE DEF S
<1> DEFINE Bad == {k \in 0..n : S[k] # p[k]}
<1>6. Bad = {}
  <2> SUFFICES ASSUME Bad # {} PROVE FALSE
    OBVIOUS
  <2>1. PICK x \in Bad : \A y \in Bad : x <= y
    <3>1. Bad \in SUBSET Nat
      OBVIOUS
    <3> HIDE DEF Bad
    <3> QED BY <3>1, LeastNat
  <2> HIDE DEF p
  <2>2. x # 0
    BY <1>3, <1>5
  <2>3. x - 1 \in 0..n /\ x - 1 \notin Bad
    BY <2>1, <2>2
  <2>4. S[x - 1] = p[x - 1]
    BY <2>3
  <2>5. S[x] = p[x]
    <3>1. x \in 0..n
      BY <2>1
    <3> QED BY <1>3, <1>5, <2>2, <2>4, <3>1, ZenonT(60)
  <2> QED BY <2>1, <2>5
<1>7. S[n] = p[n]
  <2>1. n \in 0..n
    BY <1>1
  <2> HIDE DEF p
  <2> QED BY <1>6, <2>1
<1>8. p[n] = Part(n)
  BY <1>1
<1> QED BY <1>4, <1>7, <1>8

\* The accepted orders the risk engine has forgotten: recent is the rest.
Dropped == Len(accepted) - Len(recent)

\* recent is the end of the history of accepted orders, and what has been dropped
\* from it is older than the window.
Remembers ==
  /\ clock \in Nat /\ accepted \in Seq(Int) /\ recent \in Seq(Int)
  /\ Dropped \in Nat
  /\ \A i \in 1..Len(recent) : recent[i] = accepted[Dropped + i]
  /\ \A i \in 1..Dropped : accepted[i] < clock - Window

\* The history ascends up to the clock.
Ascends ==
  /\ \A i \in 1..Len(accepted) : accepted[i] <= clock
  /\ \A i, j \in 1..Len(accepted) : i <= j => accepted[i] <= accepted[j]

\* Orders that are max_orders_per_minute apart in the history are more than a
\* window apart in time: the rate limit without counting.
Spaced ==
  \A i, j \in 1..Len(accepted) : i + MaxPerWindow <= j => accepted[i] + Window < accepted[j]

RateInv == Remembers /\ Ascends /\ Spaced

\* Where the window begins in recent.
LEMMA WindowBegins ==
  ASSUME RateInv
  PROVE  \E m \in 0..Len(recent) : /\ \A i \in 1..m : ~ InWindow(recent[i])
                                   /\ \A i \in (m + 1)..Len(recent) : InWindow(recent[i])
<1> DEFINE n == Len(recent)
           In == {i \in 1..(n + 1) : i = n + 1 \/ InWindow(recent[i])}
<1>1. n \in Nat /\ Window \in Nat /\ clock \in Nat
  BY BoundsAssumption DEF RateInv, Remembers
<1>2. PICK x \in In : \A y \in In : x <= y
  <2>1. In \in SUBSET Nat /\ n + 1 \in In
    BY <1>1
  <2> HIDE DEF In
  <2> QED BY <2>1, LeastNat
<1>3. \A i, j \in 1..n : i <= j => recent[i] <= recent[j]
  <2> SUFFICES ASSUME NEW i \in 1..n, NEW j \in 1..n, i <= j PROVE recent[i] <= recent[j]
    OBVIOUS
  <2>1. Len(accepted) \in Nat /\ Dropped \in Nat /\ Len(accepted) = Dropped + n
    BY <1>1 DEF RateInv, Remembers, Dropped
  <2>2. /\ Dropped + i \in 1..Len(accepted) /\ Dropped + j \in 1..Len(accepted)
        /\ Dropped + i <= Dropped + j
    BY <1>1, <2>1
  <2> QED BY <2>2 DEF RateInv, Remembers, Ascends
<1>4. \A i \in 1..n : recent[i] \in Int
  BY DEF RateInv, Remembers
<1>5. x \in 1..(n + 1)
  OBVIOUS
<1>6. ASSUME NEW i \in 1..(x - 1) PROVE ~ InWindow(recent[i])
  <2>1. i \in 1..(n + 1) /\ ~ (x <= i)
    BY <1>1, <1>5
  <2> QED BY <1>2, <2>1
<1>7. ASSUME NEW i \in x..n PROVE InWindow(recent[i])
  <2>1. x \in 1..n /\ i \in 1..n /\ x <= i /\ x # n + 1
    BY <1>1, <1>5
  <2>2. InWindow(recent[x]) /\ recent[x] <= recent[i]
    BY <1>2, <1>3, <2>1
  <2> QED BY <1>1, <1>4, <2>1, <2>2 DEF InWindow
<1>8. x - 1 \in 0..n /\ (x - 1) + 1 = x
  BY <1>1, <1>5
<1> QED BY <1>6, <1>7, <1>8

\* What the pruning leaves are the accepted orders from some point on, and those
\* before it are older than the window.
LEMMA RecentIs ==
  ASSUME RateInv
  PROVE  /\ Len(accepted) \in Nat
         /\ \E d \in 0..Len(accepted) :
              /\ Recent \in Seq(Int) /\ Len(Recent) = Len(accepted) - d
              /\ \A i \in 1..(Len(accepted) - d) : Recent[i] = accepted[d + i]
              /\ \A i \in 1..d : accepted[i] < clock - Window
<1>1. Window \in Nat /\ clock \in Nat
  BY BoundsAssumption DEF RateInv, Remembers
<1>2. PICK m \in 0..Len(recent) : /\ \A i \in 1..m : ~ InWindow(recent[i])
                                  /\ \A i \in (m + 1)..Len(recent) : InWindow(recent[i])
  BY WindowBegins
<1> DEFINE n == Len(accepted)
           r == Len(recent)
<1>3. n \in Nat /\ r \in Nat /\ n - r \in Nat /\ Dropped = n - r /\ m \in Nat /\ m <= r
  BY DEF RateInv, Remembers, Dropped
<1>4. Recent = [i \in 1..(r - m) |-> recent[m + i]]
  BY <1>2, PrunedIs DEF Recent, RateInv, Remembers
<1>5. Recent \in Seq(Int) /\ Len(Recent) = r - m
  <2>1. \A i \in 1..(r - m) : recent[m + i] \in Int
    BY <1>3 DEF RateInv, Remembers
  <2> QED BY <1>3, <1>4, <2>1
<1>6. \A i \in 1..((n - r) + m) : i \in 1..n /\ accepted[i] < clock - Window
  <2> SUFFICES ASSUME NEW i \in 1..((n - r) + m)
               PROVE  i \in 1..n /\ accepted[i] < clock - Window
    OBVIOUS
  <2>1. i \in 1..n
    BY <1>3
  <2>2. CASE i <= n - r
    BY <1>3, <2>2 DEF RateInv, Remembers
  <2>3. CASE ~ (i <= n - r)
    <3> DEFINE k == i - (n - r)
    <3>1. k \in 1..m /\ k \in 1..r /\ (n - r) + k = i
      BY <1>3, <2>3
    <3> HIDE DEF k
    <3>2. recent[k] = accepted[i]
      <4>1. recent[k] = accepted[Dropped + k]
        BY <3>1 DEF RateInv, Remembers
      <4> QED BY <1>3, <3>1, <4>1
    <3>3. accepted[i] \in Int
      BY <2>1 DEF RateInv, Remembers
    <3>4. ~ InWindow(accepted[i])
      BY <1>2, <3>1, <3>2
    <3> QED BY <1>1, <2>1, <3>3, <3>4 DEF InWindow
  <2> QED BY <2>1, <2>2, <2>3
<1>7. ASSUME NEW i \in 1..(r - m) PROVE Recent[i] = accepted[((n - r) + m) + i]
  <2>1. Recent[i] = recent[m + i] /\ m + i \in 1..r
    BY <1>3, <1>4
  <2>2. recent[m + i] = accepted[Dropped + (m + i)]
    BY <2>1 DEF RateInv, Remembers
  <2>3. Dropped + (m + i) = ((n - r) + m) + i
    BY <1>3
  <2> QED BY <2>1, <2>2, <2>3
<1> DEFINE d == (n - r) + m
<1>8. d \in 0..n /\ n - d = r - m
  BY <1>3
<1> HIDE DEF n, r, d
<1>9. /\ Len(Recent) = n - d
      /\ \A i \in 1..(n - d) : Recent[i] = accepted[d + i]
      /\ \A i \in 1..d : accepted[i] < clock - Window
  BY <1>5, <1>6, <1>7, <1>8 DEF d
<1> QED BY <1>3, <1>5, <1>8, <1>9 DEF n

\* How an accepted order extends the history.
LEMMA HistoryGrows ==
  ASSUME RateInv, NEW path, NEW req, Accepts(path, req)
  PROVE  /\ accepted' \in Seq(Int) /\ Len(accepted') = Len(accepted) + 1
         /\ \A i \in 1..Len(accepted) : accepted'[i] = accepted[i]
         /\ accepted'[Len(accepted) + 1] = clock
BY DEF RateInv, Remembers, Accepts

\* An accepted order keeps the invariant: there were fewer than
\* max_orders_per_minute in the window that ends now.
LEMMA RateAccepts ==
  ASSUME RateInv, NEW path, NEW req, Accepts(path, req)
  PROVE  RateInv'
<1> DEFINE n == Len(accepted)
<1>1. Window \in Nat /\ MaxPerWindow \in Nat \ {0} /\ clock \in Nat /\ clock' = clock
      /\ n \in Nat
  BY BoundsAssumption DEF RateInv, Remembers, Accepts
<1>2. PICK d \in 0..n :
         /\ Recent \in Seq(Int) /\ Len(Recent) = n - d
         /\ \A i \in 1..(n - d) : Recent[i] = accepted[d + i]
         /\ \A i \in 1..d : accepted[i] < clock - Window
  BY RecentIs
<1>3. n - d < MaxPerWindow
  BY <1>2 DEF Accepts, Admissible
<1>4. /\ accepted' \in Seq(Int) /\ Len(accepted') = n + 1
      /\ \A i \in 1..n : accepted'[i] = accepted[i]
      /\ accepted'[n + 1] = clock
  BY HistoryGrows
<1>5. /\ recent' \in Seq(Int) /\ Len(recent') = (n - d) + 1
      /\ \A i \in 1..(n - d) : recent'[i] = accepted[d + i]
      /\ recent'[(n - d) + 1] = clock
  BY <1>1, <1>2 DEF Accepts
<1>6. Dropped' = d
  BY <1>1, <1>4, <1>5 DEF Dropped
<1>7. Remembers'
  <2>1. ASSUME NEW i \in 1..((n - d) + 1) PROVE recent'[i] = accepted'[d + i]
    <3>1. CASE i = (n - d) + 1
      <4>1. d + i = n + 1
        BY <1>1, <3>1
      <4> QED BY <1>4, <1>5, <3>1, <4>1
    <3>2. CASE i # (n - d) + 1
      <4>1. i \in 1..(n - d) /\ d + i \in 1..n
        BY <1>1, <3>2
      <4> QED BY <1>4, <1>5, <4>1
    <3> QED BY <3>1, <3>2
  <2>2. \A i \in 1..d : accepted'[i] < clock' - Window
    BY <1>1, <1>2, <1>4, SMTT(30)
  <2>3. d \in Nat /\ clock' \in Nat
    BY <1>1
  <2> QED BY <1>4, <1>5, <1>6, <2>1, <2>2, <2>3 DEF Remembers
<1>8. Ascends'
  <2>1. \A i \in 1..n : accepted[i] <= clock /\ accepted[i] \in Int
    BY DEF RateInv, Remembers, Ascends
  <2>2. \A i \in 1..(n + 1) : accepted'[i] <= clock'
    <3> SUFFICES ASSUME NEW i \in 1..(n + 1) PROVE accepted'[i] <= clock
      BY <1>1
    <3>1. CASE i = n + 1
      BY <1>1, <1>4, <3>1
    <3>2. CASE i # n + 1
      <4>1. i \in 1..n
        BY <1>1, <3>2
      <4> QED BY <1>4, <2>1, <4>1
    <3> QED BY <3>1, <3>2
  <2>3. \A i, j \in 1..(n + 1) : i <= j => accepted'[i] <= accepted'[j]
    <3> SUFFICES ASSUME NEW i \in 1..(n + 1), NEW j \in 1..(n + 1), i <= j
                 PROVE  accepted'[i] <= accepted'[j]
      OBVIOUS
    <3>1. CASE j = n + 1
      BY <1>1, <1>4, <2>2, <3>1
    <3>2. CASE j # n + 1
      <4>1. i \in 1..n /\ j \in 1..n
        BY <1>1, <3>2
      <4> QED BY <1>4, <4>1 DEF RateInv, Ascends
    <3> QED BY <3>1, <3>2
  <2> QED BY <1>4, <2>2, <2>3 DEF Ascends
<1>9. Spaced'
  <2> SUFFICES ASSUME NEW i \in 1..(n + 1), NEW j \in 1..(n + 1), i + MaxPerWindow <= j
               PROVE  accepted'[i] + Window < accepted'[j]
    BY <1>4 DEF Spaced
  <2>1. CASE j = n + 1
    <3>1. i \in 1..d
      BY <1>1, <1>3, <2>1
    <3>2. i \in 1..n /\ accepted[i] < clock - Window
      BY <1>1, <1>2, <3>1
    <3>3. accepted'[i] = accepted[i] /\ accepted'[j] = clock
      BY <1>4, <2>1, <3>2
    <3>4. accepted[i] \in Int
      BY <3>2 DEF RateInv, Remembers
    <3> QED BY <1>1, <3>2, <3>3, <3>4
  <2>2. CASE j # n + 1
    <3>1. i \in 1..n /\ j \in 1..n
      BY <1>1, <2>2
    <3> QED BY <1>4, <3>1 DEF RateInv, Spaced
  <2> QED BY <2>1, <2>2
<1> QED BY <1>7, <1>8, <1>9 DEF RateInv

\* Spaced is what counting the orders of a window comes to.
LEMMA SpacedLimits ==
  ASSUME RateInv
  PROVE  RateLimited
<1> DEFINE n == Len(accepted)
           InSpan(t) == {i \in DOMAIN accepted : accepted[i] \in t..(t + Window)}
<1> SUFFICES ASSUME NEW t \in 0..clock
             PROVE  Cardinality(InSpan(t)) <= MaxPerWindow
  BY DEF RateLimited
<1> DEFINE In == InSpan(t)
<1> SUFFICES Cardinality(In) <= MaxPerWindow
  OBVIOUS
<1>1. /\ Window \in Nat /\ MaxPerWindow \in Nat \ {0} /\ clock \in Nat /\ n \in Nat
      /\ DOMAIN accepted = 1..n
      /\ \A i \in 1..n : accepted[i] \in Int
  BY BoundsAssumption DEF RateInv, Remembers
<1>2. CASE In = {}
  <2>1. Cardinality(In) = 0
    BY <1>2, FS_EmptySet
  <2> HIDE DEF In
  <2> QED BY <1>1, <2>1
<1>3. CASE In # {}
  <2>1. PICK x \in In : \A y \in In : x <= y
    <3>1. In \in SUBSET Nat
      BY <1>1
    <3> HIDE DEF In
    <3> QED BY <1>3, <3>1, LeastNat
  <2>2. ASSUME NEW y \in In PROVE y \in x..(x + (MaxPerWindow - 1))
    <3>1. x \in 1..n /\ y \in 1..n /\ x <= y /\ accepted[x] >= t /\ accepted[y] <= t + Window
      BY <1>1, <2>1
    <3>2. ~ (x + MaxPerWindow <= y)
      <4>1. x + MaxPerWindow <= y => accepted[x] + Window < accepted[y]
        BY <3>1 DEF RateInv, Spaced
      <4>2. accepted[x] \in Int /\ accepted[y] \in Int
        BY <1>1, <3>1
      <4> QED BY <1>1, <3>1, <4>1, <4>2
    <3> QED BY <1>1, <3>1, <3>2
  <2>3. x \in Int /\ x + (MaxPerWindow - 1) \in Int
    BY <1>1, <2>1
  <2> DEFINE I == x..(x + (MaxPerWindow - 1))
  <2>4. IsFiniteSet(I) /\ Cardinality(I) = MaxPerWindow
    <3> DEFINE b == x + (MaxPerWindow - 1)
    <3>1. b \in Int /\ ~ (x > b) /\ (b - x) + 1 = MaxPerWindow
      BY <1>1, <2>3
    <3> HIDE DEF b
    <3>2. IsFiniteSet(x..b) /\ Cardinality(x..b) = (b - x) + 1
      BY <2>3, <3>1, FS_Interval
    <3> QED BY <3>1, <3>2 DEF b
  <2>5. In \in SUBSET I
    BY <2>2
  <2>6. Cardinality(In) <= Cardinality(I)
    <3> HIDE DEF In, I
    <3> QED BY <2>4, <2>5, FS_Subset
  <2> HIDE DEF In, I
  <2> QED BY <2>4, <2>6
<1> QED BY <1>2, <1>3

LEMMA RateBegins == Init => RateInv
<1> SUFFICES ASSUME Init PROVE RateInv
  OBVIOUS
<1>1. clock = 0 /\ accepted = <<>> /\ recent = <<>>
  BY DEF Init
<1> QED BY <1>1 DEF RateInv, Remembers, Ascends, Spaced, Dropped

LEMMA RateKept == RateInv /\ [Next]_vars => RateInv'
<1> SUFFICES ASSUME RateInv, [Next]_vars PROVE RateInv'
  OBVIOUS
<1>1. CASE \E path \in Paths : \E req : Accepts(path, req)
  BY <1>1, RateAccepts
<1>2. CASE UNCHANGED <<accepted, recent>> /\ (clock' = clock \/ clock' = clock + 1)
  <2>1. Window \in Nat /\ clock \in Nat /\ clock' \in Nat /\ clock <= clock'
    BY <1>2, BoundsAssumption, SMTT(30) DEF RateInv, Remembers
  <2>2. \A i \in 1..Len(accepted) : accepted[i] \in Int
    BY DEF RateInv, Remembers
  <2>3. \A i \in 1..Dropped : i \in 1..Len(accepted)
    BY DEF RateInv, Remembers, Dropped
  <2>4. Remembers'
    BY <1>2, <2>1, <2>2, <2>3 DEF RateInv, Remembers, Dropped
  <2>5. Ascends' /\ Spaced'
    BY <1>2, <2>1, <2>2 DEF RateInv, Ascends, Spaced
  <2> QED BY <2>4, <2>5 DEF RateInv
<1> QED BY <1>1, <1>2, NextAccepts

\* However manual orders, closes and signals interleave, and whatever the window
\* and the limit are: no window of that length, not only the ones that end when
\* evaluate looks, holds more accepted orders than max_orders_per_minute.
THEOREM RateAlwaysLimited == Spec => []RateLimited
<1>1. RateInv => RateLimited
  BY SpacedLimits
<1> QED BY <1>1, RateBegins, RateKept, PTL DEF Spec

---------------------------------------------------------------------------
(* The cooldown *)

CoolInv == RateInv /\ settings.cooldown \in Nat /\ CooldownKept

\* An accepted order is the cooldown away from those the pruned list still has,
\* and more than the window away from the others.
LEMMA CooldownAccepts ==
  ASSUME CoolInv, NEW path, NEW req, Accepts(path, req)
  PROVE  CooldownKept'
<1> DEFINE n == Len(accepted)
           c == settings.cooldown
<1>1. Window \in Nat /\ clock \in Nat /\ n \in Nat /\ c \in Nat /\ settings' = settings
      /\ RateInv
  <2>1. RateInv /\ c \in Nat /\ settings' = settings
    BY DEF CoolInv, Accepts
  <2>2. Window \in Nat
    BY BoundsAssumption
  <2> QED BY <2>1, <2>2 DEF RateInv, Remembers
<1>2. PICK d \in 0..n :
         /\ Recent \in Seq(Int) /\ Len(Recent) = n - d
         /\ \A i \in 1..(n - d) : Recent[i] = accepted[d + i]
         /\ \A i \in 1..d : accepted[i] < clock - Window
  BY <1>1, RecentIs
<1>3. /\ accepted' \in Seq(Int) /\ Len(accepted') = n + 1
      /\ \A i \in 1..n : accepted'[i] = accepted[i]
      /\ accepted'[n + 1] = clock
  BY <1>1, HistoryGrows
<1>4. Cooled(Recent)
  BY DEF Accepts, Admissible
<1>5. ASSUME NEW i \in 1..n PROVE clock - accepted[i] >= Lesser(c, Window + 1)
  <2>1. accepted[i] \in Int /\ accepted[i] <= clock
    BY <1>1 DEF RateInv, Remembers, Ascends
  <2>2. CASE i <= d
    <3>1. accepted[i] < clock - Window
      BY <1>2, <2>2
    <3> QED BY <1>1, <2>1, <3>1 DEF Lesser
  <2>3. CASE c = 0
    BY <1>1, <2>1, <2>3 DEF Lesser
  <2>4. CASE ~ (i <= d) /\ c # 0
    <3>1. i - d \in 1..(n - d) /\ d + (i - d) = i
      BY <1>1, <2>4
    <3>2. Recent[i - d] = accepted[i] /\ i - d \in DOMAIN Recent
      BY <1>2, <3>1
    <3>3. clock - accepted[i] >= c
      BY <1>1, <1>4, <2>4, <3>2 DEF Cooled
    <3> QED BY <1>1, <2>1, <3>3 DEF Lesser
  <2> QED BY <2>2, <2>3, <2>4
<1>6. ASSUME NEW i \in 1..(n + 1), NEW j \in 1..(n + 1), i < j
      PROVE  accepted'[j] - accepted'[i] >= Lesser(c, Window + 1)
  <2>1. i \in 1..n /\ accepted'[i] = accepted[i]
    BY <1>1, <1>3, <1>6
  <2>2. CASE j = n + 1
    BY <1>3, <1>5, <2>1, <2>2
  <2>3. CASE j # n + 1
    <3>1. j \in 1..n /\ accepted'[j] = accepted[j]
      BY <1>1, <1>3, <2>3
    <3>2. i \in DOMAIN accepted /\ j \in DOMAIN accepted
      BY <2>1, <3>1 DEF CoolInv, RateInv, Remembers
    <3> QED BY <1>6, <2>1, <3>1, <3>2 DEF CoolInv, CooldownKept
  <2> QED BY <2>2, <2>3
<1>7. DOMAIN accepted' = 1..(n + 1)
  BY <1>3
<1> HIDE DEF n, c
<1> QED BY <1>1, <1>6, <1>7 DEF CooldownKept, Lesser, c

\* Whichever paths two orders come by, and whatever the cooldown and the window are:
\* they are the cooldown apart, or more than the window that the rate limit prunes.
THEOREM CooldownAlwaysKept == Spec => []CooldownKept
<1>1. Init => CoolInv
  <2> SUFFICES ASSUME Init PROVE CoolInv
    OBVIOUS
  <2>1. accepted = <<>> /\ \E e \in Environments : settings = Settings(e)
    BY DEF Init
  <2>2. settings.cooldown \in Nat
    BY <2>1, EnvironmentsAssumption DEF Settings
  <2> QED BY <2>1, <2>2, RateBegins DEF CoolInv, CooldownKept
<1>2. CoolInv /\ [Next]_vars => CoolInv'
  <2> SUFFICES ASSUME CoolInv, [Next]_vars PROVE CoolInv'
    OBVIOUS
  <2>1. RateInv'
    BY RateKept DEF CoolInv
  <2>2. CASE \E path \in Paths : \E req : Accepts(path, req)
    <3>1. CooldownKept' /\ settings' = settings
      BY <2>2, CooldownAccepts DEF Accepts
    <3> QED BY <2>1, <3>1 DEF CoolInv
  <2>3. CASE UNCHANGED <<settings, accepted>>
    BY <2>1, <2>3 DEF CoolInv, CooldownKept
  <2> QED BY <2>2, <2>3, NextAccepts
<1> QED BY <1>1, <1>2, PTL DEF Spec, CoolInv

---------------------------------------------------------------------------
(* Consecutive losses *)

\* The paths, numbered.
N == Cardinality(Paths)
Enum == CHOOSE e : e \in Bijection(1..N, Paths)

LEMMA Numbered ==
  /\ N \in Nat
  /\ \A k \in 1..N : Enum[k] \in Paths
  /\ \A p \in Paths : \E k \in 1..N : Enum[k] = p
<1>1. IsFiniteSet(Paths)
  BY PathsAssumption, FS_AddElement DEF Paths
<1>2. N \in Nat /\ ExistsBijection(1..N, Paths)
  BY <1>1, FS_CardinalityType DEF N
<1>3. \E e : e \in Bijection(1..N, Paths)
  BY <1>2 DEF ExistsBijection
<1>4. Enum \in Bijection(1..N, Paths)
  BY <1>3, Zenon DEF Enum
<1> QED BY <1>2, <1>4 DEF Bijection, Injection, Surjection

\* The losses a path has counted or is about to count; a gain among what it is
\* about to count may reset it.
Owed(p) ==
  IF p = "session" THEN losses[p]
  ELSE IF "gain" \in booking[p] THEN 0
  ELSE IF "loss" \in booking[p] THEN losses[p] + 1 ELSE losses[p]

OwedTable == [k \in 1..N |-> Owed(Enum[k])]

LossTypes ==
  /\ losses \in [Paths -> 0..MaxLosses]
  /\ booking \in [Cyclers -> SUBSET Outcomes]
  /\ streak \in Nat

\* An orchestrator that is about to count an exit was below the limit when risk
\* let the exit pass.
RoomToCount == \A c \in Cyclers : booking[c] # {} => losses[c] < MaxLosses

\* The losing exits in a row are at most what all paths together owe.
LossInv == LossTypes /\ RoomToCount /\ streak <= SumTo(OwedTable, N)

\* An exit on a path that risk let pass: its own count, or the outcome it will
\* count, and the outcome in what the others are about to count.
Exits(path, outcome) ==
  /\ losses[path] < MaxLosses
  /\ path # "session" => booking[path] = {}
  /\ losses' = IF path = "session" THEN [losses EXCEPT !["session"] = Counted(@, outcome)]
               ELSE losses
  /\ booking' = [c \in Cyclers |-> IF c = path \/ booking[c] # {} THEN booking[c] \cup {outcome}
                                   ELSE {}]
  /\ streak' = Counted(streak, outcome)

\* A sale of a resting order, which no path submits: its outcome enters what the
\* orchestrators are about to count, and only a gain ends the run.
Rests(outcome) ==
  /\ losses' = losses
  /\ booking' = [c \in Cyclers |-> IF booking[c] # {} THEN booking[c] \cup {outcome} ELSE {}]
  /\ streak' = IF outcome = "gain" THEN 0 ELSE streak

\* A sale passed the loss limit of its path.
LEMMA SoldPassed ==
  ASSUME NEW path, NEW req, Submit(path, req), Sold(req)
  PROVE  losses[path] < MaxLosses
<1>1. Approved(path, req)
  BY SubmitIs DEF Sold, account
<1>2. WithinLosses(PortfolioState(path))
  BY <1>1, Zenon DEF Approved, Admissible
<1>3. PortfolioState(path).losses = losses[path]
  BY DEF PortfolioState
<1> QED BY <1>2, <1>3 DEF WithinLosses

\* What an order of the session does to the counts.
LEMMA SessionExits ==
  ASSUME LossTypes, NEW req, SessionSubmits(req)
  PROVE  \/ UNCHANGED <<losses, booking, streak>>
         \/ \E outcome \in Outcomes : Exits("session", outcome)
<1>1. CASE ~ Sold(req)
  BY <1>1 DEF SessionSubmits, counts
<1>2. CASE Sold(req)
  <2>1. losses["session"] < MaxLosses
    BY <1>2, SoldPassed DEF SessionSubmits
  <2>2. PICK outcome \in Outcomes :
          /\ SessionCounts(outcome)
          /\ booking' = Booked(outcome) /\ streak' = Counted(streak, outcome)
    BY <1>2 DEF SessionSubmits
  <2>3. booking' = [c \in Cyclers |-> IF c = "session" \/ booking[c] # {}
                                      THEN booking[c] \cup {outcome} ELSE {}]
    BY <2>2, PathsAssumption DEF Booked
  <2> QED BY <2>1, <2>2, <2>3 DEF Exits, SessionCounts
<1> QED BY <1>1, <1>2

\* Every step is an exit, the sale of a resting order, the count of an exit, or
\* leaves the counts alone.
LEMMA NextCounts ==
  ASSUME LossTypes, [Next]_vars
  PROVE  \/ UNCHANGED <<losses, booking, streak>>
         \/ \E path \in Paths, outcome \in Outcomes : Exits(path, outcome)
         \/ \E outcome \in Outcomes : Rests(outcome)
         \/ \E c \in Cyclers : ExitCounted(c)
<1>1. "session" \in Paths /\ Cyclers \subseteq Paths
  BY DEF Paths
<1>2. ASSUME NEW req, SessionSubmits(req)
      PROVE  \/ UNCHANGED <<losses, booking, streak>>
             \/ \E path \in Paths, outcome \in Outcomes : Exits(path, outcome)
  BY <1>1, <1>2, SessionExits, Zenon
<1>3. ASSUME NEW s \in Symbols, NEW ticket \in Tickets, PlaceOrder(s, ticket)
      PROVE  \/ UNCHANGED <<losses, booking, streak>>
             \/ \E path \in Paths, outcome \in Outcomes : Exits(path, outcome)
  BY <1>2, <1>3, Zenon DEF PlaceOrder
<1>4. ASSUME ClosePass
      PROVE  \/ UNCHANGED <<losses, booking, streak>>
             \/ \E path \in Paths, outcome \in Outcomes : Exits(path, outcome)
  <2>1. UNCHANGED counts \/ \E req : SessionSubmits(req)
    BY <1>4, Zenon DEF ClosePass
  <2> QED BY <1>2, <2>1 DEF counts
<1>5. ASSUME NEW c \in Cyclers, NEW s \in Symbols, NEW side \in {"BUY", "SELL"},
             SignalActs(c, s, side)
      PROVE  \/ UNCHANGED <<losses, booking, streak>>
             \/ \E path \in Paths, outcome \in Outcomes : Exits(path, outcome)
  <2> DEFINE req == SignalRequest(c, s, side)
  <2>1. Submit(c, req) /\ booking[c] = {} /\ UNCHANGED losses
    BY <1>5, Zenon DEF SignalActs
  <2>2. \/ UNCHANGED <<booking, streak>>
        \/ /\ Sold(req)
           /\ \E outcome \in Outcomes :
                /\ booking' = [Booked(outcome) EXCEPT ![c] = {outcome}]
                /\ streak' = Counted(streak, outcome)
    BY <1>5, Zenon DEF SignalActs
  <2> HIDE DEF req
  <2>3. CASE Sold(req)
    <3>1. losses[c] < MaxLosses
      BY <2>1, <2>3, SoldPassed
    <3>2. c # "session" /\ c \in Paths
      BY <1>1, PathsAssumption
    <3>3. ASSUME NEW outcome \in Outcomes
          PROVE  [Booked(outcome) EXCEPT ![c] = {outcome}]
                   = [d \in Cyclers |-> IF d = c \/ booking[d] # {} THEN booking[d] \cup {outcome}
                                        ELSE {}]
      BY <2>1 DEF Booked
    <3> QED BY <2>1, <2>2, <3>1, <3>2, <3>3 DEF Exits
  <2> QED BY <2>1, <2>2, <2>3
<1>6. ASSUME Trigger
      PROVE  \/ UNCHANGED <<losses, booking, streak>>
             \/ \E outcome \in Outcomes : Rests(outcome)
  <2>1. UNCHANGED losses
    BY <1>6, Zenon DEF Trigger
  <2>2. \/ UNCHANGED <<booking, streak>>
        \/ \E outcome \in Outcomes :
              booking' = Booked(outcome) /\ streak' = IF outcome = "gain" THEN 0 ELSE streak
    BY <1>6, Zenon DEF Trigger
  <2>3. ASSUME NEW outcome \in Outcomes
        PROVE  Booked(outcome) = [c \in Cyclers |-> IF booking[c] # {} THEN booking[c] \cup {outcome}
                                                   ELSE {}]
    BY DEF Booked
  <2> QED BY <2>1, <2>2, <2>3 DEF Rests
<1>7. ASSUME NEW s \in Symbols, CloseBegins(s)
      PROVE  UNCHANGED <<losses, booking, streak>>
  BY <1>7 DEF CloseBegins, counts
<1>8. ASSUME NEW s \in Symbols, NEW m \in Prices, MarketMoves(s, m)
      PROVE  UNCHANGED <<losses, booking, streak>>
  BY <1>8 DEF MarketMoves, counts
<1>9. ASSUME NEW o \in Outages, OutageChanges(o)
      PROVE  UNCHANGED <<losses, booking, streak>>
  BY <1>9 DEF OutageChanges, counts
<1>10. ASSUME NEW path \in Paths, Appraises(path)
       PROVE  UNCHANGED <<losses, booking, streak>>
  BY <1>10 DEF Appraises, counts
<1>11. CASE Tick \/ UNCHANGED vars
  BY <1>11 DEF Tick, vars, counts
<1> QED BY <1>3, <1>4, <1>5, <1>6, <1>7, <1>8, <1>9, <1>10, <1>11 DEF Next

\* What a path owes is within its limit.
LEMMA OwedTypes ==
  ASSUME LossTypes, RoomToCount
  PROVE  /\ \A p \in Paths : Owed(p) \in 0..MaxLosses
         /\ OwedTable \in [1..N -> Int]
<1>1. MaxLosses \in Nat
  BY BoundsAssumption
<1>2. ASSUME NEW p \in Paths PROVE Owed(p) \in 0..MaxLosses
  <2>1. losses[p] \in 0..MaxLosses
    BY DEF LossTypes
  <2>2. CASE p = "session"
    BY <2>1, <2>2 DEF Owed
  <2>3. CASE p # "session"
    <3>1. p \in Cyclers
      BY <2>3 DEF Paths
    <3>2. booking[p] # {} => losses[p] < MaxLosses
      BY <3>1 DEF RoomToCount
    <3>3. "loss" \in booking[p] => losses[p] < MaxLosses
      BY <3>2
    <3> QED BY <1>1, <2>1, <2>3, <3>3 DEF Owed
  <2> QED BY <2>2, <2>3
<1>3. ASSUME NEW k \in 1..N PROVE Owed(Enum[k]) \in Int
  <2>1. Owed(Enum[k]) \in 0..MaxLosses
    BY <1>2, Numbered
  <2> QED BY <1>1, <2>1
<1> QED BY <1>2, <1>3 DEF OwedTable

\* When no path owes less, the sum of what they owe is no less; when one owes
\* more, it is more.
LEMMA OwedGrows ==
  ASSUME LossTypes, RoomToCount, LossTypes', RoomToCount',
         \A p \in Paths : Owed(p) <= Owed(p)'
  PROVE  /\ SumTo(OwedTable, N) \in Int /\ SumTo(OwedTable', N) \in Int
         /\ SumTo(OwedTable, N) <= SumTo(OwedTable', N)
         /\ (\E p \in Paths : Owed(p) + 1 <= Owed(p)')
              => SumTo(OwedTable, N) + 1 <= SumTo(OwedTable', N)
<1>1. OwedTable \in [1..N -> Int]
  BY OwedTypes
<1>2. OwedTable' \in [1..N -> Int]
  <2>1. MaxLosses \in Nat
    BY BoundsAssumption
  <2>2. ASSUME NEW p \in Paths PROVE Owed(p)' \in Int
    <3>1. losses'[p] \in Int
      BY <2>1 DEF LossTypes
    <3> QED BY <3>1 DEF Owed
  <2> QED BY <2>2, Numbered DEF OwedTable
<1>3. \A k \in 1..N : OwedTable[k] = Owed(Enum[k]) /\ OwedTable'[k] = Owed(Enum[k])'
  BY DEF OwedTable
<1>4. \A k \in 1..N : OwedTable[k] <= OwedTable'[k]
  BY <1>3, Numbered
<1>5. /\ SumTo(OwedTable, N) \in Int /\ SumTo(OwedTable', N) \in Int
      /\ SumTo(OwedTable, N) <= SumTo(OwedTable', N)
  BY <1>1, <1>2, <1>4, Numbered, SumMonotone
<1>6. ASSUME NEW p \in Paths, Owed(p) + 1 <= Owed(p)'
      PROVE  SumTo(OwedTable, N) + 1 <= SumTo(OwedTable', N)
  <2>1. PICK k \in 1..N : Enum[k] = p
    BY Numbered
  <2>2. OwedTable[k] + 1 <= OwedTable'[k]
    BY <1>3, <1>6, <2>1
  <2> QED BY <1>1, <1>2, <1>4, <2>2, Numbered, SumGrows
<1> QED BY <1>5, <1>6

\* The sum of what is owed is never negative.
LEMMA OwedPositive ==
  (LossTypes /\ RoomToCount) => (SumTo(OwedTable, N) \in Int /\ SumTo(OwedTable, N) >= 0)
<1> SUFFICES ASSUME LossTypes, RoomToCount
             PROVE  SumTo(OwedTable, N) \in Int /\ SumTo(OwedTable, N) >= 0
  OBVIOUS
<1> DEFINE zero == [k \in 1..N |-> 0]
<1>1. zero \in [1..N -> Int] /\ \A k \in 1..N : zero[k] = 0
  OBVIOUS
<1>2. OwedTable \in [1..N -> Int] /\ \A p \in Paths : Owed(p) \in 0..MaxLosses
  BY OwedTypes
<1>3. \A k \in 1..N : zero[k] <= OwedTable[k]
  <2> SUFFICES ASSUME NEW k \in 1..N PROVE zero[k] <= OwedTable[k]
    OBVIOUS
  <2>1. OwedTable[k] = Owed(Enum[k]) /\ Owed(Enum[k]) \in 0..MaxLosses
    BY <1>2, Numbered DEF OwedTable
  <2>2. MaxLosses \in Nat
    BY BoundsAssumption
  <2> QED BY <1>1, <2>1, <2>2
<1> HIDE DEF zero
<1>4. SumTo(zero, N) = 0
  BY <1>1, Numbered, SumZero
<1>5. /\ SumTo(OwedTable, N) \in Int
      /\ SumTo(zero, N) <= SumTo(OwedTable, N)
  BY <1>1, <1>2, <1>3, Numbered, SumMonotone
<1> QED BY <1>4, <1>5

\* The types and the room after an exit.
LEMMA ExitsTyped ==
  ASSUME LossInv, NEW path \in Paths, NEW outcome \in Outcomes, Exits(path, outcome)
  PROVE  LossTypes' /\ RoomToCount'
<1>1. MaxLosses \in Nat /\ losses \in [Paths -> 0..MaxLosses] /\ streak \in Nat
  BY BoundsAssumption DEF LossInv, LossTypes
<1>2. outcome \in {"loss", "even", "gain"}
  BY DEF Outcomes
<1>3. losses' \in [Paths -> 0..MaxLosses] /\ \A c \in Cyclers : losses'[c] = losses[c]
  <2>1. CASE path = "session"
    <3>1. losses["session"] \in 0..MaxLosses /\ losses["session"] < MaxLosses
      BY <1>1, <2>1 DEF Exits
    <3>2. Counted(losses["session"], outcome) \in 0..MaxLosses
      BY <1>1, <1>2, <3>1 DEF Counted
    <3>3. losses' = [losses EXCEPT !["session"] = Counted(losses["session"], outcome)]
      BY <2>1 DEF Exits
    <3> QED BY <1>1, <3>2, <3>3, PathsAssumption DEF Paths
  <2>2. CASE path # "session"
    BY <1>1, <2>2 DEF Exits
  <2> QED BY <2>1, <2>2
<1>4. streak' \in Nat
  BY <1>1, <1>2 DEF Exits, Counted
<1>5. booking' \in [Cyclers -> SUBSET Outcomes]
  BY DEF Exits, LossInv, LossTypes
<1>6. ASSUME NEW c \in Cyclers, booking'[c] # {} PROVE losses'[c] < MaxLosses
  <2>1. c = path \/ booking[c] # {}
    BY <1>6 DEF Exits
  <2>2. losses[c] < MaxLosses
    BY <2>1 DEF Exits, LossInv, RoomToCount
  <2> QED BY <1>3, <2>2
<1> QED BY <1>3, <1>4, <1>5, <1>6 DEF LossTypes, RoomToCount

\* An exit that is no gain takes nothing from what a path owes, and a losing one
\* adds to what the path that made it owes.
LEMMA ExitsOwed ==
  ASSUME LossInv, NEW path \in Paths, NEW outcome \in {"loss", "even"}, Exits(path, outcome)
  PROVE  /\ \A p \in Paths : Owed(p) <= Owed(p)'
         /\ outcome = "loss" => Owed(path) + 1 <= Owed(path)'
<1>1. MaxLosses \in Nat /\ losses \in [Paths -> 0..MaxLosses]
  BY BoundsAssumption DEF LossInv, LossTypes
<1>2. ASSUME NEW p \in Paths
      PROVE  Owed(p) <= Owed(p)' /\ ((outcome = "loss" /\ p = path) => Owed(p) + 1 <= Owed(p)')
  <2>1. losses[p] \in Int
    BY <1>1
  <2>2. CASE p = "session"
    <3>1. losses'[p] = IF p = path THEN Counted(losses[p], outcome) ELSE losses[p]
      BY <1>1, <2>2 DEF Exits
    <3>2. Owed(p) = losses[p] /\ Owed(p)' = losses'[p]
      BY <2>2 DEF Owed
    <3> QED BY <2>1, <3>1, <3>2 DEF Counted
  <2>3. CASE p # "session"
    <3>1. p \in Cyclers
      BY <2>3 DEF Paths
    <3>2. losses'[p] = losses[p]
      BY <1>1, <2>3, <3>1 DEF Exits
    <3>3. booking'[p] = IF p = path \/ booking[p] # {} THEN booking[p] \cup {outcome} ELSE {}
      BY <3>1 DEF Exits
    <3>4. /\ "gain" \in booking'[p] <=> "gain" \in booking[p]
          /\ "loss" \in booking[p] => "loss" \in booking'[p]
      BY <3>3
    <3>5. p = path => ("gain" \notin booking[p] /\ "loss" \notin booking[p]
                       /\ outcome \in booking'[p])
      BY <2>3, <3>3 DEF Exits
    <3>6. Owed(p) <= Owed(p)'
      BY <2>1, <2>3, <3>2, <3>4 DEF Owed
    <3>7. (outcome = "loss" /\ p = path) => Owed(p) + 1 <= Owed(p)'
      BY <2>1, <2>3, <3>2, <3>4, <3>5 DEF Owed
    <3> QED BY <3>6, <3>7
  <2> QED BY <2>2, <2>3
<1> QED BY <1>2

\* An exit keeps the invariant.
LEMMA ExitsKeep ==
  ASSUME LossInv, NEW path \in Paths, NEW outcome \in Outcomes, Exits(path, outcome)
  PROVE  LossInv'
<1>1. LossTypes' /\ RoomToCount'
  BY ExitsTyped
<1>2. LossTypes /\ RoomToCount /\ streak \in Nat /\ streak <= SumTo(OwedTable, N)
  BY DEF LossInv, LossTypes
<1>3. CASE outcome = "gain"
  <2>1. streak' = 0
    BY <1>3 DEF Exits, Counted
  <2>2. SumTo(OwedTable', N) >= 0 /\ SumTo(OwedTable', N) \in Int
    <3>1. ((LossTypes /\ RoomToCount) => (SumTo(OwedTable, N) \in Int /\ SumTo(OwedTable, N) >= 0))'
      BY OwedPositive, PTL
    <3> QED BY <1>1, <3>1
  <2> QED BY <1>1, <2>1, <2>2 DEF LossInv
<1>4. CASE outcome \in {"loss", "even"}
  <2>1. /\ \A p \in Paths : Owed(p) <= Owed(p)'
        /\ outcome = "loss" => Owed(path) + 1 <= Owed(path)'
    BY <1>4, ExitsOwed
  <2>2. /\ SumTo(OwedTable, N) \in Int /\ SumTo(OwedTable', N) \in Int
        /\ SumTo(OwedTable, N) <= SumTo(OwedTable', N)
        /\ (outcome = "loss") => SumTo(OwedTable, N) + 1 <= SumTo(OwedTable', N)
    BY <1>1, <1>2, <2>1, OwedGrows
  <2>3. streak' = IF outcome = "loss" THEN streak + 1 ELSE streak
    BY <1>4 DEF Exits, Counted
  <2>4. streak' <= SumTo(OwedTable', N)
    BY <1>2, <2>2, <2>3
  <2> QED BY <1>1, <2>4 DEF LossInv
<1> QED BY <1>3, <1>4 DEF Outcomes

\* So does the sale of a resting order: a loss or nothing adds to what an exit is
\* about to count, and a gain ends the run.
LEMMA RestsKeep ==
  ASSUME LossInv, NEW outcome \in Outcomes, Rests(outcome)
  PROVE  LossInv'
<1>1. /\ MaxLosses \in Nat /\ losses \in [Paths -> 0..MaxLosses]
      /\ booking \in [Cyclers -> SUBSET Outcomes] /\ streak \in Nat /\ LossTypes /\ RoomToCount
  BY BoundsAssumption DEF LossInv, LossTypes
<1>2. /\ losses' = losses
      /\ \A c \in Cyclers :
           booking'[c] = IF booking[c] # {} THEN booking[c] \cup {outcome} ELSE {}
      /\ booking' \in [Cyclers -> SUBSET Outcomes]
  BY <1>1 DEF Rests
<1>3. streak' \in Nat
  BY <1>1 DEF Rests
<1>4. LossTypes' /\ RoomToCount'
  BY <1>1, <1>2, <1>3 DEF LossTypes, RoomToCount
<1>5. CASE outcome = "gain"
  <2>1. streak' = 0
    BY <1>5 DEF Rests
  <2>2. SumTo(OwedTable', N) >= 0 /\ SumTo(OwedTable', N) \in Int
    <3>1. ((LossTypes /\ RoomToCount) => (SumTo(OwedTable, N) \in Int /\ SumTo(OwedTable, N) >= 0))'
      BY OwedPositive, PTL
    <3> QED BY <1>4, <3>1
  <2> QED BY <1>4, <2>1, <2>2 DEF LossInv
<1>6. CASE outcome # "gain"
  <2>1. ASSUME NEW p \in Paths PROVE Owed(p) <= Owed(p)'
    <3>1. losses[p] \in Int /\ losses'[p] = losses[p]
      BY <1>1, <1>2
    <3>2. CASE p = "session"
      BY <3>1, <3>2 DEF Owed
    <3>3. CASE p # "session"
      <4>1. p \in Cyclers
        BY <3>3 DEF Paths
      <4>2. /\ "gain" \in booking'[p] <=> "gain" \in booking[p]
            /\ "loss" \in booking[p] => "loss" \in booking'[p]
        BY <1>2, <1>6, <4>1
      <4> QED BY <3>1, <3>3, <4>2 DEF Owed
    <3> QED BY <3>2, <3>3
  <2>2. /\ SumTo(OwedTable, N) \in Int /\ SumTo(OwedTable', N) \in Int
        /\ SumTo(OwedTable, N) <= SumTo(OwedTable', N)
    BY <1>1, <1>4, <2>1, OwedGrows
  <2>3. streak' = streak
    BY <1>6 DEF Rests
  <2>4. streak' <= SumTo(OwedTable', N)
    BY <1>1, <2>2, <2>3 DEF LossInv
  <2> QED BY <1>4, <2>4 DEF LossInv
<1> QED BY <1>5, <1>6

\* So does the count of an exit.
LEMMA CountKeeps ==
  ASSUME LossInv, NEW c \in Cyclers, ExitCounted(c)
  PROVE  LossInv'
<1>1. /\ MaxLosses \in Nat /\ losses \in [Paths -> 0..MaxLosses]
      /\ booking \in [Cyclers -> SUBSET Outcomes] /\ streak \in Nat /\ streak' = streak
      /\ c \in Paths /\ c # "session"
  BY BoundsAssumption, PathsAssumption DEF LossInv, LossTypes, ExitCounted, Paths
<1>2. booking[c] # {} /\ losses[c] \in 0..MaxLosses /\ losses[c] < MaxLosses
  BY <1>1 DEF LossInv, RoomToCount, ExitCounted
<1>3. PICK outcome \in Signs(booking[c]) : losses' = [losses EXCEPT ![c] = Counted(@, outcome)]
  BY DEF ExitCounted
<1>4. outcome \in Outcomes /\ ("gain" \in booking[c] \/ "loss" \notin booking[c] \/ outcome = "loss")
      /\ ("gain" \in booking[c] \/ "loss" \in booking[c] \/ outcome = "even")
  BY <1>3 DEF Signs, Outcomes
<1>5. Counted(losses[c], outcome) \in 0..MaxLosses
  BY <1>1, <1>2, <1>4 DEF Counted, Outcomes
<1>6. /\ losses' \in [Paths -> 0..MaxLosses]
      /\ losses'[c] = Counted(losses[c], outcome)
      /\ \A p \in Paths \ {c} : losses'[p] = losses[p]
  BY <1>1, <1>3, <1>5
<1>7. /\ booking' \in [Cyclers -> SUBSET Outcomes] /\ booking'[c] = {}
      /\ \A d \in Cyclers \ {c} : booking'[d] = booking[d]
  BY <1>1 DEF ExitCounted
<1>8. LossTypes'
  BY <1>1, <1>6, <1>7 DEF LossTypes
<1>9. RoomToCount'
  <2> SUFFICES ASSUME NEW d \in Cyclers, booking'[d] # {} PROVE losses'[d] < MaxLosses
    BY DEF RoomToCount
  <2>1. d # c /\ d \in Paths
    BY <1>7 DEF Paths
  <2>2. booking[d] # {} /\ losses'[d] = losses[d]
    BY <1>6, <1>7, <2>1
  <2> QED BY <2>2 DEF LossInv, RoomToCount
<1>10. ASSUME NEW p \in Paths PROVE Owed(p) <= Owed(p)'
  <2>1. losses[p] \in Nat /\ losses'[p] \in Nat
    BY <1>1, <1>6
  <2>2. CASE p = c
    <3>1. Owed(p)' = Counted(losses[c], outcome)
      BY <1>1, <1>6, <1>7, <2>2 DEF Owed
    <3>2. CASE "gain" \in booking[c]
      <4>1. Owed(p) = 0
        BY <1>1, <2>2, <3>2 DEF Owed
      <4> QED BY <1>1, <1>5, <3>1, <4>1
    <3>3. CASE "gain" \notin booking[c] /\ "loss" \in booking[c]
      <4>1. Owed(p) = losses[c] + 1 /\ Counted(losses[c], outcome) = losses[c] + 1
        BY <1>1, <1>4, <2>2, <3>3 DEF Owed, Counted
      <4> QED BY <1>2, <3>1, <4>1
    <3>4. CASE "gain" \notin booking[c] /\ "loss" \notin booking[c]
      <4>1. Owed(p) = losses[c] /\ Counted(losses[c], outcome) = losses[c]
        BY <1>1, <1>4, <2>2, <3>4 DEF Owed, Counted
      <4> QED BY <1>2, <3>1, <4>1
    <3> QED BY <3>2, <3>3, <3>4
  <2>3. CASE p # c
    <3>1. losses'[p] = losses[p] /\ (p # "session" => booking'[p] = booking[p])
      BY <1>6, <1>7, <2>3 DEF Paths
    <3>2. Owed(p)' = Owed(p)
      BY <3>1 DEF Owed
    <3>3. Owed(p) \in Int
      BY <2>1 DEF Owed
    <3> QED BY <3>2, <3>3
  <2> QED BY <2>2, <2>3
<1>11. /\ SumTo(OwedTable, N) \in Int /\ SumTo(OwedTable', N) \in Int
       /\ SumTo(OwedTable, N) <= SumTo(OwedTable', N)
  BY <1>8, <1>9, <1>10, OwedGrows DEF LossInv
<1>12. streak' <= SumTo(OwedTable', N)
  BY <1>1, <1>11 DEF LossInv
<1> QED BY <1>8, <1>9, <1>12 DEF LossInv

\* However exits of the session and of the orchestrators overlap, and however the
\* count of one takes in the result of another or of a resting order: a run of
\* losing exits that the paths submitted is at most max_consecutive_losses for each
\* path that trades.  What resting orders lose is in no count, and not in the run.
THEOREM LossesAlwaysBounded == Spec => []LossesBounded
<1>1. Init => LossInv
  <2> SUFFICES ASSUME Init PROVE LossInv
    OBVIOUS
  <2>1. MaxLosses \in Nat
    BY BoundsAssumption
  <2>2. /\ losses = [p \in Paths |-> 0] /\ booking = [c \in Cyclers |-> {}] /\ streak = 0
    BY DEF Init
  <2>3. LossTypes /\ RoomToCount
    BY <2>1, <2>2 DEF LossTypes, RoomToCount
  <2>4. streak <= SumTo(OwedTable, N)
    BY <2>2, <2>3, OwedPositive
  <2> QED BY <2>3, <2>4 DEF LossInv
<1>2. LossInv /\ [Next]_vars => LossInv'
  <2> SUFFICES ASSUME LossInv, [Next]_vars PROVE LossInv'
    OBVIOUS
  <2>1. CASE UNCHANGED <<losses, booking, streak>>
    BY <2>1 DEF LossInv, LossTypes, RoomToCount, OwedTable, Owed
  <2>2. CASE \E path \in Paths, outcome \in Outcomes : Exits(path, outcome)
    BY <2>2, ExitsKeep
  <2>3. CASE \E outcome \in Outcomes : Rests(outcome)
    BY <2>3, RestsKeep
  <2>4. CASE \E c \in Cyclers : ExitCounted(c)
    BY <2>4, CountKeeps
  <2> QED BY <2>1, <2>2, <2>3, <2>4, NextCounts DEF LossInv
<1>3. LossInv => LossesBounded
  <2> SUFFICES ASSUME LossInv PROVE LossesBounded
    OBVIOUS
  <2>1. MaxLosses \in Nat /\ N \in Nat /\ streak \in Nat
    BY BoundsAssumption, Numbered DEF LossInv, LossTypes
  <2>2. OwedTable \in [1..N -> Int] /\ \A p \in Paths : Owed(p) \in 0..MaxLosses
    BY OwedTypes DEF LossInv
  <2>3. \A k \in 1..N : OwedTable[k] <= MaxLosses
    <3> SUFFICES ASSUME NEW k \in 1..N PROVE OwedTable[k] <= MaxLosses
      OBVIOUS
    <3>1. OwedTable[k] = Owed(Enum[k]) /\ Owed(Enum[k]) \in 0..MaxLosses
      BY <2>2, Numbered DEF OwedTable
    <3> QED BY <2>1, <3>1
  <2>4. SumTo(OwedTable, N) <= MaxLosses * N
    BY <2>1, <2>2, <2>3, SumCap
  <2>5. SumTo(OwedTable, N) \in Int /\ MaxLosses * N \in Int
    BY <2>1, OwedPositive DEF LossInv
  <2>6. streak <= MaxLosses * N
    BY <2>1, <2>4, <2>5 DEF LossInv
  <2> QED BY <2>6 DEF LossesBounded, N
<1> QED BY <1>1, <1>2, <1>3, PTL DEF Spec

---------------------------------------------------------------------------
(* Exposure *)

\* The positions of q at the marks m, symbol by symbol.
Worths(q, m) == [s \in Symbols |-> q[s] * m[s]]

\* The marks, all moved to the one of the symbol ordered.
AllAt(m) == [s \in Symbols |-> m]

\* The fold of the community modules is a sum over the symbols.
LEMMA FoldIs ==
  ASSUME NEW q, NEW p
  PROVE  LET it == CHOOSE it : it = [T \in SUBSET Symbols |->
                              IF T = {} THEN 0
                              ELSE q[Chosen(T)] * p[Chosen(T)] + it[T \ {Chosen(T)}]]
         IN  it[Symbols] = SetSum(Worths(q, p), Symbols)
<1> DEFINE f == Worths(q, p)
           Eqn(it) == it = [T \in SUBSET Symbols |->
                              IF T = {} THEN 0
                              ELSE q[Chosen(T)] * p[Chosen(T)] + it[T \ {Chosen(T)}]]
           it == CHOOSE x : Eqn(x)
<1>1. \E x : Eqn(x)
  <2>1. PICK jt : IsSetSum(jt, f, Symbols)
    BY SymbolsAssumption, SetSumExists
  <2> DEFINE x == [T \in SUBSET Symbols |-> jt[T]]
  <2>2. \A T \in SUBSET Symbols :
          T # {} => f[Chosen(T)] = q[Chosen(T)] * p[Chosen(T)] /\ T \ {Chosen(T)} \in SUBSET Symbols
    BY SymbolsAssumption, ChosenLeaves DEF Worths
  <2>3. \A T \in SUBSET Symbols :
          x[T] = IF T = {} THEN 0 ELSE q[Chosen(T)] * p[Chosen(T)] + x[T \ {Chosen(T)}]
    BY <2>1, <2>2 DEF IsSetSum
  <2>4. Eqn(x)
    BY <2>3, Zenon
  <2> QED BY <2>4
<1>2. Eqn(it)
  BY <1>1, Zenon
<1>3. IsSetSum(it, f, Symbols)
  <2>1. \A T \in SUBSET Symbols : T # {} => f[Chosen(T)] = q[Chosen(T)] * p[Chosen(T)]
    BY SymbolsAssumption, ChosenLeaves DEF Worths
  <2> HIDE DEF it, f
  <2> QED BY <1>2, <2>1 DEF IsSetSum
<1>4. Symbols \in SUBSET Symbols
  OBVIOUS
<1> HIDE DEF f
<1>5. it[Symbols] = SetSum(f, Symbols)
  <2> HIDE DEF it
  <2> QED BY <1>3, <1>4, SymbolsAssumption, SetSumIs
<1> QED BY <1>5 DEF f

\* The sums of the model are sums over the symbols.
LEMMA ExposureIs ==
  ASSUME NEW q
  PROVE  Exposure(q) = SetSum(Worths(q, mark), Symbols)
BY FoldIs DEF Exposure, Sum, MapThenSumSet, MapThenFoldSet, Chosen

\* Equity is all cash and the positions at their current price.
LEMMA EquityIs == Equity = cash + reserved + SetSum(Worths(qty, current), Symbols)
BY FoldIs DEF Equity, Sum, MapThenSumSet, MapThenFoldSet, Chosen

LEMMA NotionalIs ==
  ASSUME NEW m
  PROVE  NotionalAt(m) = SetSum(Worths(qty, AllAt(m)), Symbols)
<1> DEFINE f == Worths(qty, AllAt(m))
           Eqn(it) == it = [T \in SUBSET Symbols |->
                              IF T = {} THEN 0
                              ELSE qty[Chosen(T)] * m + it[T \ {Chosen(T)}]]
           it == CHOOSE x : Eqn(x)
<1>1. NotionalAt(m) = it[Symbols]
  BY DEF NotionalAt, Sum, MapThenSumSet, MapThenFoldSet, Chosen
<1>2. \A T \in SUBSET Symbols :
        T # {} => f[Chosen(T)] = qty[Chosen(T)] * m /\ T \ {Chosen(T)} \in SUBSET Symbols
  BY SymbolsAssumption, ChosenLeaves DEF Worths, AllAt
<1>3. \E x : Eqn(x)
  <2>1. PICK jt : IsSetSum(jt, f, Symbols)
    BY SymbolsAssumption, SetSumExists
  <2> DEFINE x == [T \in SUBSET Symbols |-> jt[T]]
  <2>2. \A T \in SUBSET Symbols :
          x[T] = IF T = {} THEN 0 ELSE qty[Chosen(T)] * m + x[T \ {Chosen(T)}]
    <3> HIDE DEF f
    <3> QED BY <1>2, <2>1 DEF IsSetSum
  <2>3. Eqn(x)
    BY <2>2, Zenon
  <2> QED BY <2>3
<1>4. Eqn(it)
  BY <1>3, Zenon
<1>5. IsSetSum(it, f, Symbols)
  <2> HIDE DEF it, f
  <2> QED BY <1>2, <1>4 DEF IsSetSum
<1>6. Symbols \in SUBSET Symbols
  OBVIOUS
<1> HIDE DEF it, f
<1>7. it[Symbols] = SetSum(f, Symbols)
  BY <1>5, <1>6, SymbolsAssumption, SetSumIs
<1> QED BY <1>1, <1>7 DEF f

\* An order that waits.
Rest == [symbol : Symbols, side : {"BUY", "SELL"}, type : {"LIMIT", "STOP_LOSS", "TAKE_PROFIT"},
         qty : Nat, price : Nat, held : Nat]

FundsOK ==
  /\ cash \in Nat /\ reserved \in Nat
  /\ qty \in [Symbols -> Nat] /\ current \in [Symbols -> Nat]
  /\ resting \in Seq(Rest)

\* What the account, the marks and a close under way hold.
AccountOK ==
  /\ FundsOK /\ mark \in [Symbols -> Prices]
  /\ closing \in {NoClose} \cup [symbol : Symbols, passes : 1..4]

\* An order of the model: what a path may ask for.
Order(req) ==
  /\ req.symbol \in Symbols /\ req.side \in {"BUY", "SELL"}
  /\ req.type \in {"MARKET", "LIMIT", "STOP_LOSS", "TAKE_PROFIT"}
  /\ req.qty \in Nat /\ req.price \in Nat /\ req.stop \in Nat /\ req.target \in Nat

\* Division rounds down.
LEMMA Floored ==
  ASSUME NEW x \in Int, NEW d \in Nat \ {0}
  PROVE  x \div d \in Int /\ d * (x \div d) <= x /\ x < d * (x \div d) + d
OBVIOUS

\* A rate is a part of what it is taken of.
Bps == 0..10000
Part(x, bps) == (x * bps) \div 10000

LEMMA PartOf ==
  ASSUME NEW x \in Nat, NEW bps \in Bps
  PROVE  Part(x, bps) \in 0..x
<1> DEFINE w == x * bps
<1>1. w \in Nat /\ w <= 10000 * x
  <2>1. bps \in 0..10000 /\ x * bps <= x * 10000
    BY SMTT(30) DEF Bps
  <2> QED BY <2>1
<1> HIDE DEF w
<1>2. w \div 10000 \in Int /\ 10000 * (w \div 10000) <= w /\ w < 10000 * (w \div 10000) + 10000
  BY <1>1, Floored
<1>3. w \div 10000 \in 0..x
  BY <1>1, <1>2
<1> QED BY <1>3 DEF w, Part

LEMMA Rates ==
  /\ \A m \in Nat : Slip(m) \in 0..m
  /\ \A n \in Nat : Fee(n) \in 0..n
<1>1. SlipBps \in Bps /\ FeeBps \in Bps
  BY RatesAssumption DEF Bps
<1>2. \A m \in Nat : Slip(m) = Part(m, SlipBps) /\ Fee(m) = Part(m, FeeBps)
  BY DEF Slip, Fee, Part
<1>3. ASSUME NEW m \in Nat PROVE Part(m, SlipBps) \in 0..m /\ Part(m, FeeBps) \in 0..m
  <2>1. Part(m, SlipBps) \in 0..m
    BY <1>1, PartOf, Zenon
  <2>2. Part(m, FeeBps) \in 0..m
    BY <1>1, PartOf, Zenon
  <2> QED BY <2>1, <2>2
<1> QED BY <1>2, <1>3, Zenon

\* A mark is a price, and so is what an order is sized by.
LEMMA Marks ==
  ASSUME AccountOK, NEW s \in Symbols
  PROVE  mark[s] \in Nat \ {0} /\ mark[s] \in Prices
BY PricesAssumption DEF AccountOK

LEMMA PriceTypes ==
  ASSUME AccountOK, NEW req, Order(req)
  PROVE  /\ Price(req) \in Nat \ {0}
         /\ req.price = 0 => Price(req) = mark[req.symbol]
         /\ req.type # "MARKET" => ReservePrice(req) \in Nat
         /\ ReservePrice(req) \in Nat
BY Marks DEF Order, Price, OrElse, ReservePrice

LEMMA WorthTypes ==
  ASSUME AccountOK
  PROVE  /\ Exposure(qty) \in Nat /\ Equity \in Nat
         /\ \A m \in Nat : NotionalAt(m) \in Nat
<1>1. Exposure(qty) \in Nat
  <2>1. \A s \in Symbols : Worths(qty, mark)[s] \in Nat
    BY Marks DEF Worths, AccountOK, FundsOK
  <2> QED BY <2>1, SymbolsAssumption, SetSumNat, ExposureIs
<1>2. Equity \in Nat
  <2>1. \A s \in Symbols : Worths(qty, current)[s] \in Nat
    BY DEF Worths, AccountOK, FundsOK
  <2>2. SetSum(Worths(qty, current), Symbols) \in Nat
    BY <2>1, SymbolsAssumption, SetSumNat
  <2> QED BY <2>2, EquityIs DEF AccountOK, FundsOK
<1>3. ASSUME NEW m \in Nat PROVE NotionalAt(m) \in Nat
  <2>1. \A s \in Symbols : Worths(qty, AllAt(m))[s] \in Nat
    BY DEF Worths, AccountOK, FundsOK, AllAt
  <2> QED BY <2>1, SymbolsAssumption, SetSumNat, NotionalIs
<1> QED BY <1>1, <1>2, <1>3

\* The limits are percentages.
LEMMA Limits ==
  /\ RiskPct \in 0..100 /\ PositionPct \in 0..100 /\ PortfolioPct \in 0..100
  /\ EntryPct \in 0..100
BY LimitsAssumption

\* The size risk gives is an integer, and an order of it fits, at the price it is
\* sized by, into what max_portfolio_exposure leaves of the equity.
LEMMA SizedFits ==
  ASSUME AccountOK, NEW req, Order(req)
  PROVE  /\ Sized(req) \in Int
         /\ 100 * (Sized(req) * Price(req))
              <= Equity * PortfolioPct - 100 * NotionalAt(mark[req.symbol])
<1> DEFINE e == Equity
           m == Price(req)
           q == req.qty
           a == ByRisk(e, q, m, req.stop)
           b == ByPosition(e, a, m)
           k == mark[req.symbol]
           room == e * PortfolioPct - 100 * NotionalAt(k)
<1>1. m \in Nat \ {0} /\ e \in Nat /\ q \in Nat /\ req.stop \in Nat /\ k \in Nat
  BY Marks, PriceTypes, WorthTypes DEF Order
<1>2. a \in Int
  <2> HIDE DEF e, m, q, k
  <2>1. 100 * m \in Nat \ {0} /\ e * RiskPct \in Int
    BY <1>1, Limits
  <2>2. CASE req.stop = 0
    <3>1. (e * RiskPct) \div (100 * m) \in Int
      BY <2>1, Floored
    <3> QED BY <1>1, <2>2, <3>1 DEF ByRisk, Lesser
  <2>3. CASE req.stop = m
    BY <1>1, <2>3 DEF ByRisk
  <2>4. CASE req.stop # 0 /\ req.stop # m
    <3>1. 100 * Greater(m - req.stop, req.stop - m) \in Nat \ {0}
      BY <1>1, <2>4 DEF Greater
    <3>2. (e * RiskPct) \div (100 * Greater(m - req.stop, req.stop - m)) \in Int
      <4> DEFINE d == 100 * Greater(m - req.stop, req.stop - m)
                 x == e * RiskPct
      <4>1. x \div d \in Int
        <5>1. x \in Int /\ d \in Nat \ {0}
          BY <2>1, <3>1
        <5> HIDE DEF d, x
        <5> QED BY <5>1, Floored
      <4> QED BY <4>1
    <3>3. a = Lesser(q, (e * RiskPct) \div (100 * Greater(m - req.stop, req.stop - m)))
      BY <2>4 DEF ByRisk
    <3> QED BY <1>1, <3>2, <3>3 DEF Lesser
  <2> QED BY <2>2, <2>3, <2>4
<1>3. b \in Int
  <2> HIDE DEF e, m, a
  <2>1. 100 * m \in Nat \ {0} /\ e * PositionPct \in Int
    BY <1>1, Limits
  <2>2. (e * PositionPct) \div (100 * m) \in Int
    BY <2>1, Floored
  <2> QED BY <1>2, <2>2 DEF ByPosition
<1>4. room \in Int
  <2>1. NotionalAt(k) \in Nat
    <3> HIDE DEF k
    <3> QED BY <1>1, WorthTypes
  <2> HIDE DEF e, k
  <2> QED BY <1>1, <2>1, Limits
<1>5. Sized(req) = IF 100 * b * m > room THEN room \div (100 * m) ELSE b
  BY DEF Sized, ByPortfolio
<1>6. /\ 100 * m \in Nat \ {0}
      /\ room \div (100 * m) \in Int /\ (100 * m) * (room \div (100 * m)) <= room
  <2> HIDE DEF m, room
  <2>1. 100 * m \in Nat \ {0}
    BY <1>1
  <2> QED BY <1>4, <2>1, Floored
<1> DEFINE z == Sized(req)
<1>7. z \in Int /\ 100 * (z * m) <= room
  <2> HIDE DEF z, room, b, m
  <2>1. CASE 100 * b * m > room
    <3> DEFINE r == room \div (100 * m)
    <3>1. z = r /\ r \in Int /\ (100 * m) * r <= room
      BY <1>5, <1>6, <2>1 DEF z
    <3> HIDE DEF r
    <3>2. 100 * (z * m) = (100 * m) * r
      BY <1>1, <3>1
    <3> QED BY <3>1, <3>2
  <2>2. CASE ~ (100 * b * m > room)
    <3>1. z = b
      BY <1>5, <2>2 DEF z
    <3>2. 100 * b * m = 100 * (z * m) /\ 100 * b * m \in Int
      BY <1>1, <1>3, <3>1
    <3> QED BY <1>3, <1>4, <2>2, <3>1, <3>2
  <2> QED BY <2>1, <2>2
<1> QED BY <1>7

\* A fill: a purchase that is paid for, a sale of no more than is held, or nothing
\* but the cash the order held back.
LEMMA FillTrades ==
  ASSUME AccountOK, NEW o, o.symbol \in Symbols, o.price \in Nat, o.side \in {"BUY", "SELL"},
         NEW q \in Nat, NEW free \in Nat, Fill(o, q, free)
  PROVE  /\ cash' \in Nat /\ qty' \in [Symbols -> Nat] /\ current' \in [Symbols -> Nat]
         /\ \/ UNCHANGED qty
            \/ o.side = "BUY" /\ qty' = [qty EXCEPT ![o.symbol] = @ + q]
            \/ o.side = "SELL" /\ q <= qty[o.symbol] /\ qty' = [qty EXCEPT ![o.symbol] = @ - q]
<1> DEFINE s == o.symbol
           p == FillPrice(o)
           n == q * p
           fee == Fee(n)
           bought == o.side = "BUY" /\ n + fee <= free
           sold == o.side = "SELL" /\ q <= qty[s]
<1>1. s \in Symbols /\ qty \in [Symbols -> Nat] /\ current \in [Symbols -> Nat] /\ qty[s] \in Nat
  BY DEF AccountOK, FundsOK
<1>2. p \in Nat
  <2> DEFINE m == mark[o.symbol]
  <2>1. m \in Nat /\ Slip(m) \in 0..m
    BY Marks, Rates
  <2>2. m + Slip(m) \in Nat /\ m - Slip(m) \in Nat
    <3> DEFINE x == Slip(m)
    <3>1. x \in 0..m
      BY <2>1
    <3> HIDE DEF x, m
    <3>2. m + x \in Nat /\ m - x \in Nat
      BY <2>1, <3>1
    <3> QED BY <3>2 DEF x
  <2> QED BY <2>2 DEF FillPrice
<1>3. n \in Nat /\ fee \in 0..n
  <2> HIDE DEF p
  <2>1. n \in Nat
    BY <1>2
  <2> HIDE DEF n
  <2> QED BY <2>1, Rates
<1>4. /\ cash' = CASE bought -> free - (n + fee) [] sold -> free + (n - fee) [] OTHER -> free
      /\ qty' = [qty EXCEPT ![s] = CASE bought -> @ + q [] sold -> @ - q [] OTHER -> @]
      /\ current' = [current EXCEPT ![s] = IF ~ (bought \/ sold) THEN @
                                           ELSE IF sold /\ q = qty[s] THEN 0 ELSE p]
  BY Zenon DEF Fill
<1> HIDE DEF p, n, fee, s
<1>5. current' \in [Symbols -> Nat]
  BY <1>1, <1>2, <1>4
<1>6. CASE bought
  <2>1. ~ sold /\ cash' = free - (n + fee) /\ qty' = [qty EXCEPT ![s] = @ + q]
    BY <1>4, <1>6
  <2>2. cash' \in Nat /\ qty' \in [Symbols -> Nat]
    BY <1>1, <1>3, <1>6, <2>1
  <2> QED BY <1>5, <1>6, <2>1, <2>2 DEF s
<1>7. CASE sold
  <2>1. ~ bought /\ cash' = free + (n - fee) /\ qty' = [qty EXCEPT ![s] = @ - q]
    BY <1>4, <1>7
  <2>2. cash' \in Nat /\ qty' \in [Symbols -> Nat]
    BY <1>1, <1>3, <1>7, <2>1
  <2> QED BY <1>5, <1>7, <2>1, <2>2 DEF s
<1>8. CASE ~ bought /\ ~ sold
  <2>1. cash' = free /\ qty' = [qty EXCEPT ![s] = qty[s]]
    BY <1>4, <1>8
  <2>2. qty' = qty
    BY <1>1, <2>1
  <2> QED BY <1>1, <1>5, <2>1, <2>2
<1> QED BY <1>6, <1>7, <1>8

\* What the order of a path does to the positions.
Trades(req, q) ==
  \/ UNCHANGED qty
  \/ req.side = "BUY" /\ qty' = [qty EXCEPT ![req.symbol] = @ + q]
  \/ req.side = "SELL" /\ q <= qty[req.symbol] /\ qty' = [qty EXCEPT ![req.symbol] = @ - q]

\* An order of any type rests, fills or is refused, out of what it can reserve.
LEMMA EngineKeeps ==
  ASSUME AccountOK, NEW req, Order(req), NEW q \in Nat, EngineSubmit(req, q)
  PROVE  FundsOK' /\ Trades(req, q)
<1> DEFINE amount == IF req.side = "BUY" THEN q * ReservePrice(req) ELSE 0
           rest == [symbol |-> req.symbol, side |-> req.side, type |-> req.type,
                    qty |-> q, price |-> req.price, held |-> amount]
<1>1. amount \in Nat
  <2> DEFINE r == ReservePrice(req)
  <2>1. r \in Nat
    BY PriceTypes
  <2> HIDE DEF r
  <2>2. q * r \in Nat
    BY <2>1
  <2> QED BY <2>2 DEF r
<1>2. \/ UNCHANGED account
      \/ /\ amount <= cash /\ Waits(req, TriggerOf(req))
         /\ resting' = Append(resting, rest)
         /\ cash' = cash - amount /\ reserved' = reserved + amount
         /\ UNCHANGED <<qty, current>>
      \/ Fill(req, q, cash) /\ UNCHANGED <<reserved, resting>>
  <2>1. IF amount > cash \/ TriggerOf(req) = 0
        THEN UNCHANGED account
        ELSE IF Waits(req, TriggerOf(req))
        THEN /\ resting' = Append(resting, rest)
             /\ cash' = cash - amount /\ reserved' = reserved + amount
             /\ UNCHANGED <<qty, current>>
        ELSE Fill(req, q, cash) /\ UNCHANGED <<reserved, resting>>
    BY Zenon DEF EngineSubmit
  <2>2. amount > cash \/ amount <= cash
    <3> HIDE DEF amount
    <3> QED BY <1>1 DEF AccountOK, FundsOK
  <2> HIDE DEF amount, rest
  <2> QED BY <2>1, <2>2, Zenon
<1> HIDE DEF amount
<1>3. CASE UNCHANGED account
  BY <1>3 DEF account, AccountOK, FundsOK, Trades, Rest
<1>4. CASE /\ amount <= cash /\ Waits(req, TriggerOf(req))
           /\ resting' = Append(resting, rest)
           /\ cash' = cash - amount /\ reserved' = reserved + amount
           /\ UNCHANGED <<qty, current>>
  <2>1. rest \in Rest
    <3>1. req.type \in {"LIMIT", "STOP_LOSS", "TAKE_PROFIT"}
      BY <1>4 DEF Waits, Order
    <3> QED BY <1>1, <3>1 DEF Rest, Order
  <2> HIDE DEF rest
  <2>2. resting' \in Seq(Rest)
    BY <1>4, <2>1 DEF AccountOK, FundsOK
  <2>3. cash' \in Nat /\ reserved' \in Nat
    BY <1>1, <1>4 DEF AccountOK, FundsOK
  <2> QED BY <1>4, <2>2, <2>3 DEF AccountOK, FundsOK, Trades, Rest
<1>5. CASE Fill(req, q, cash) /\ UNCHANGED <<reserved, resting>>
  <2>1. cash \in Nat /\ req.symbol \in Symbols /\ req.price \in Nat /\ req.side \in {"BUY", "SELL"}
    BY DEF AccountOK, FundsOK, Order
  <2>2. /\ cash' \in Nat /\ qty' \in [Symbols -> Nat] /\ current' \in [Symbols -> Nat]
        /\ Trades(req, q)
    BY <1>5, <2>1, FillTrades, Zenon DEF Trades
  <2> QED BY <1>5, <2>2 DEF AccountOK, FundsOK, Rest
<1> QED BY <1>2, <1>3, <1>4, <1>5

\* An order trades the size risk gave it, or leaves the positions alone.
LEMMA SubmitTrades ==
  ASSUME AccountOK, NEW path, NEW req, Order(req), Submit(path, req)
  PROVE  /\ FundsOK'
         /\ UNCHANGED qty \/ (Approved(path, req) /\ Trades(req, Sized(req)))
<1>1. CASE Approved(path, req)
  <2>1. EngineSubmit(req, Sized(req))
    BY <1>1, Zenon DEF Submit
  <2>2. Sized(req) \in Nat
    BY <1>1, SizedFits DEF Approved
  <2> QED BY <1>1, <2>1, <2>2, EngineKeeps
<1>2. CASE ~ Approved(path, req)
  <2>1. UNCHANGED account
    BY <1>2, SubmitIs
  <2> QED BY <2>1 DEF account, AccountOK, FundsOK, Rest
<1> QED BY <1>1, <1>2

\* A resting order that is due fills or fails out of what it held.
LEMMA TriggerKeeps ==
  ASSUME AccountOK, Trigger
  PROVE  FundsOK'
<1> DEFINE i == CHOOSE j \in Due : \A k \in Due : j <= k
           o == resting[i]
           freed == Lesser(o.held, reserved)
<1>1. /\ Due # {} /\ resting' = Without(i) /\ reserved' = reserved - freed
      /\ Fill(o, o.qty, cash + freed)
  BY Zenon DEF Trigger
<1>2. Due \in SUBSET Nat
  BY DEF Due, AccountOK, FundsOK
<1>3. i \in Due
  <2>1. \E j \in Due : \A k \in Due : j <= k
    BY <1>1, <1>2, LeastNat
  <2> QED BY <2>1, Zenon
<1> HIDE DEF i
<1>4. i \in 1..Len(resting) /\ o \in Rest
  BY <1>3 DEF Due, AccountOK, FundsOK
<1> HIDE DEF o
<1>5. /\ o.symbol \in Symbols /\ o.side \in {"BUY", "SELL"} /\ o.qty \in Nat /\ o.price \in Nat
      /\ o.held \in Nat
  BY <1>4 DEF Rest
<1>6. reserved' \in Nat /\ cash + freed \in Nat
  BY <1>1, <1>5, SMTT(30) DEF AccountOK, FundsOK, Lesser
<1> HIDE DEF freed
<1>7. cash' \in Nat /\ qty' \in [Symbols -> Nat] /\ current' \in [Symbols -> Nat]
  BY <1>1, <1>5, <1>6, FillTrades
<1>8. Without(i) \in Seq(Rest)
  <2> DEFINE n == Len(resting) - 1
  <2>1. n \in Nat
    BY <1>4 DEF AccountOK, FundsOK
  <2>2. \A j \in 1..n : (IF j < i THEN resting[j] ELSE resting[j + 1]) \in Rest
    <3> SUFFICES ASSUME NEW j \in 1..n
                 PROVE  resting[j] \in Rest /\ resting[j + 1] \in Rest
      OBVIOUS
    <3>1. j \in 1..Len(resting) /\ j + 1 \in 1..Len(resting)
      BY <2>1
    <3> QED BY <3>1 DEF AccountOK, FundsOK
  <2>3. Without(i) = [j \in 1..n |-> IF j < i THEN resting[j] ELSE resting[j + 1]]
    BY DEF Without
  <2> HIDE DEF n
  <2> QED BY <2>1, <2>2, <2>3
<1>9. resting' \in Seq(Rest)
  BY <1>1, <1>8
<1> QED BY <1>6, <1>7, <1>9 DEF FundsOK, Rest

LEMMA RequestIsOrder ==
  ASSUME NEW s \in Symbols, NEW ticket \in Tickets
  PROVE  Order(Request(s, ticket))
BY TicketsAssumption DEF Order, Request

LEMMA SignalIsOrder ==
  ASSUME AccountOK, NEW c, NEW s \in Symbols, NEW side \in {"BUY", "SELL"}
  PROVE  /\ Order(SignalRequest(c, s, side))
         /\ SignalRequest(c, s, side).symbol = s /\ SignalRequest(c, s, side).side = side
         /\ SignalRequest(c, s, side).price = 0
<1> DEFINE size == (cash * EntryPct) \div (100 * mark[s])
           stop == (95 * mark[s]) \div 100
           tight == (2 * 999 * mark[s] + 1000) \div 2000
           req == SignalRequest(c, s, side)
<1>1. mark[s] \in Nat \ {0} /\ qty[s] \in Nat
  BY Marks DEF AccountOK, FundsOK
<1>2. size \in Nat /\ stop \in Nat /\ tight \in Nat
  <2>1. cash * EntryPct \in Nat /\ 100 * mark[s] \in Nat \ {0} /\ 95 * mark[s] \in Nat
        /\ 2 * 999 * mark[s] + 1000 \in Nat
    BY <1>1, Limits, SMTT(30) DEF AccountOK, FundsOK
  <2>2. ASSUME NEW x \in Nat, NEW d \in Nat \ {0} PROVE x \div d \in Nat
    OBVIOUS
  <2> QED BY <2>1, <2>2
<1>3. TightStop(s) = tight
  BY DEF TightStop
<1> HIDE DEF size, stop, tight
<1>4. /\ req.symbol = s /\ req.side = side /\ req.type = "MARKET" /\ req.price = 0 /\ req.target = 0
      /\ req.qty = IF side = "BUY" THEN size ELSE qty[s]
      /\ req.stop = IF side = "BUY" THEN stop ELSE tight
  BY <1>3 DEF SignalRequest, size, stop
<1> HIDE DEF req
<1>5. Order(req)
  BY <1>1, <1>2, <1>4 DEF Order
<1> QED BY <1>4, <1>5 DEF req

\* Only an order, a candle and a resting order that is due change the account, and
\* only the market the marks.
LEMMA NextTrades ==
  ASSUME AccountOK, [Next]_vars
  PROVE  \/ UNCHANGED <<account, mark>>
         \/ UNCHANGED closing /\ \E s \in Symbols, m \in Prices : MarketMoves(s, m)
         \/ UNCHANGED <<mark, closing>> /\ Trigger
         \/ /\ UNCHANGED mark
            /\ \E path \in Paths : \E req :
                 /\ Order(req) /\ Submit(path, req)
                 /\ closing' # closing => req = CloseRequest(closing.symbol)
<1> DEFINE Ordered == /\ UNCHANGED mark
                      /\ \E path \in Paths : \E req :
                           /\ Order(req) /\ Submit(path, req)
                           /\ closing' # closing => req = CloseRequest(closing.symbol)
<1>1. "session" \in Paths /\ Cyclers \subseteq Paths
  BY DEF Paths
<1>2. ASSUME NEW s \in Symbols
      PROVE  TightStop(s) \in Nat /\ qty[s] \in Nat /\ mark[s] \in Nat \ {0}
  <2>1. mark[s] \in Nat \ {0} /\ qty[s] \in Nat
    BY Marks DEF AccountOK, FundsOK
  <2>2. (2 * 999 * mark[s] + 1000) \div 2000 \in Nat
    BY <2>1
  <2> QED BY <2>1, <2>2 DEF TightStop
<1>3. ASSUME NEW s \in Symbols, NEW ticket \in Tickets, PlaceOrder(s, ticket)
      PROVE  Ordered
  <2> DEFINE req == Request(s, ticket)
  <2>1. Order(req)
    BY RequestIsOrder
  <2>2. Submit("session", req) /\ UNCHANGED <<mark, closing>>
    BY <1>3, Zenon DEF PlaceOrder, SessionSubmits
  <2> HIDE DEF req
  <2> QED BY <1>1, <2>1, <2>2
<1>4. ASSUME ClosePass PROVE Ordered \/ UNCHANGED <<account, mark>>
  <2> DEFINE req == CloseRequest(closing.symbol)
  <2>1. UNCHANGED mark /\ (UNCHANGED account \/ Submit("session", req))
    BY <1>4, Zenon DEF ClosePass, SessionSubmits
  <2>2. closing.symbol \in Symbols
    BY <1>4 DEF ClosePass, AccountOK
  <2>3. Order(req)
    BY <1>2, <2>2 DEF Order, CloseRequest
  <2> HIDE DEF req
  <2>4. req = CloseRequest(closing.symbol)
    BY DEF req
  <2> QED BY <1>1, <2>1, <2>3, <2>4
<1>5. ASSUME NEW c \in Cyclers, NEW s \in Symbols, NEW side \in {"BUY", "SELL"},
             SignalActs(c, s, side)
      PROVE  Ordered
  <2> DEFINE req == SignalRequest(c, s, side)
  <2>1. Submit(c, req) /\ UNCHANGED <<mark, closing>>
    BY <1>5, Zenon DEF SignalActs
  <2>2. Order(req)
    BY SignalIsOrder
  <2> HIDE DEF req
  <2> QED BY <1>1, <2>1, <2>2
<1>6. ASSUME NEW s \in Symbols, CloseBegins(s) PROVE UNCHANGED <<account, mark>>
  BY <1>6 DEF CloseBegins
<1>7. ASSUME NEW c \in Cyclers, ExitCounted(c) PROVE UNCHANGED <<account, mark>>
  BY <1>7 DEF ExitCounted
<1>8. ASSUME NEW s \in Symbols, NEW m \in Prices, MarketMoves(s, m) PROVE UNCHANGED closing
  BY <1>8 DEF MarketMoves
<1>9. ASSUME NEW o \in Outages, OutageChanges(o) PROVE UNCHANGED <<account, mark>>
  BY <1>9 DEF OutageChanges
<1>10. ASSUME NEW path \in Paths, Appraises(path) PROVE UNCHANGED <<account, mark>>
  BY <1>10 DEF Appraises
<1>11. Trigger => UNCHANGED <<mark, closing>>
  BY DEF Trigger
<1>12. Tick \/ UNCHANGED vars => UNCHANGED <<account, mark>>
  BY DEF Tick, vars
<1> DEFINE Still == UNCHANGED <<account, mark>>
           Moved == UNCHANGED closing /\ \E s \in Symbols, m \in Prices : MarketMoves(s, m)
           Fired == UNCHANGED <<mark, closing>> /\ Trigger
<1>13. Still \/ Moved \/ Fired \/ Ordered
  <2>1. (\E s \in Symbols, m \in Prices : MarketMoves(s, m)) => Moved
    BY <1>8
  <2>2. (\/ \E s \in Symbols, ticket \in Tickets : PlaceOrder(s, ticket)
         \/ \E c \in Cyclers, s \in Symbols, side \in {"BUY", "SELL"} : SignalActs(c, s, side))
          => Ordered
    <3> HIDE DEF Ordered
    <3> QED BY <1>3, <1>5
  <2>3. (\/ \E s \in Symbols : CloseBegins(s)
         \/ \E c \in Cyclers : ExitCounted(c)
         \/ \E path \in Paths : Appraises(path)
         \/ \E o \in Outages : OutageChanges(o)
         \/ Tick \/ UNCHANGED vars) => Still
    BY <1>6, <1>7, <1>9, <1>10, <1>12
  <2>4. (ClosePass => Ordered \/ Still) /\ (Trigger => Fired)
    BY <1>4, <1>11
  <2> HIDE DEF Ordered, Still, Moved, Fired
  <2> QED BY <2>1, <2>2, <2>3, <2>4 DEF Next
<1> QED BY <1>13

\* Who closes what, and how often.
LEMMA NextCloses ==
  ASSUME AccountOK, [Next]_vars
  PROVE  closing' \in {NoClose} \cup [symbol : Symbols, passes : 1..4]
<1> DEFINE Closes == [symbol : Symbols, passes : 1..4]
<1>1. closing \in {NoClose} \cup Closes
  BY DEF AccountOK
<1>2. ASSUME NEW s \in Symbols, CloseBegins(s) PROVE closing' \in {NoClose} \cup Closes
  BY <1>2 DEF CloseBegins
<1>3. ASSUME ClosePass PROVE closing' \in {NoClose} \cup Closes
  <2>1. closing \in Closes
    BY <1>1, <1>3 DEF ClosePass
  <2>2. \/ closing' = NoClose
        \/ closing.passes # 1 /\ closing' = [closing EXCEPT !.passes = @ - 1]
    BY <1>3, Zenon DEF ClosePass
  <2>3. closing.passes \in 1..4
    BY <2>1
  <2>4. closing.passes # 1 => closing.passes - 1 \in 1..4
    BY <2>3
  <2> QED BY <2>1, <2>2, <2>4
<1>4. ASSUME NEW s \in Symbols, NEW ticket \in Tickets, PlaceOrder(s, ticket)
      PROVE  closing' = closing
  BY <1>4, Zenon DEF PlaceOrder
<1>5. ASSUME NEW c \in Cyclers, NEW s \in Symbols, NEW side \in {"BUY", "SELL"},
             SignalActs(c, s, side)
      PROVE  closing' = closing
  BY <1>5, Zenon DEF SignalActs
<1>6. ASSUME NEW c \in Cyclers, ExitCounted(c) PROVE closing' = closing
  BY <1>6 DEF ExitCounted
<1>7. ASSUME NEW s \in Symbols, NEW m \in Prices, MarketMoves(s, m) PROVE closing' = closing
  BY <1>7 DEF MarketMoves
<1>8. ASSUME NEW o \in Outages, OutageChanges(o) PROVE closing' = closing
  BY <1>8 DEF OutageChanges
<1>9. ASSUME NEW path \in Paths, Appraises(path) PROVE closing' = closing
  BY <1>9 DEF Appraises
<1>10. Trigger \/ Tick \/ UNCHANGED vars => closing' = closing
  BY DEF Trigger, Tick, vars
<1> HIDE DEF Closes
<1>11. closing' \in {NoClose} \cup Closes
  BY <1>1, <1>2, <1>3, <1>4, <1>5, <1>6, <1>7, <1>8, <1>9, <1>10 DEF Next
<1> QED BY <1>11 DEF Closes

LEMMA AccountKept == AccountOK /\ [Next]_vars => AccountOK'
<1> SUFFICES ASSUME AccountOK, [Next]_vars PROVE AccountOK'
  OBVIOUS
<1>1. closing' \in {NoClose} \cup [symbol : Symbols, passes : 1..4]
  BY NextCloses
<1>2. FundsOK' /\ mark' \in [Symbols -> Prices]
  <2>1. CASE UNCHANGED <<account, mark>>
    BY <2>1 DEF account, AccountOK, FundsOK, Rest
  <2>2. CASE UNCHANGED mark /\ Trigger
    BY <2>2, TriggerKeeps DEF AccountOK
  <2>3. CASE UNCHANGED mark /\ \E path \in Paths : \E req : Order(req) /\ Submit(path, req)
    BY <2>3, SubmitTrades DEF AccountOK
  <2>4. ASSUME NEW s \in Symbols, NEW m \in Prices, MarketMoves(s, m)
        PROVE  FundsOK' /\ mark' \in [Symbols -> Prices]
    BY <2>4, PricesAssumption DEF MarketMoves, AccountOK, FundsOK, Rest
  <2> QED BY <2>1, <2>2, <2>3, <2>4, NextTrades
<1> QED BY <1>1, <1>2 DEF AccountOK, NoClose

LEMMA AccountBegins == Init => AccountOK
BY BoundsAssumption DEF Init, AccountOK, FundsOK

\* Held symbols marked no higher than m are worth at most what evaluate takes
\* them for at m.
LEMMA OneMark ==
  ASSUME AccountOK, NEW m \in Nat, \A u \in Held : mark[u] <= m
  PROVE  Exposure(qty) <= NotionalAt(m)
<1> DEFINE f == Worths(qty, mark)
           g == Worths(qty, AllAt(m))
<1>1. ASSUME NEW s \in Symbols PROVE f[s] \in Int /\ g[s] \in Int /\ f[s] <= g[s]
  <2>1. qty[s] \in Nat /\ mark[s] \in Nat \ {0} /\ (qty[s] > 0 => mark[s] <= m)
    BY Marks DEF AccountOK, FundsOK, Held
  <2>2. f[s] = qty[s] * mark[s] /\ g[s] = qty[s] * m
    BY DEF Worths, AllAt
  <2>3. qty[s] * mark[s] <= qty[s] * m
    <3>1. CASE qty[s] = 0
      BY <2>1, <3>1
    <3>2. CASE qty[s] > 0
      BY <2>1, <3>2
    <3> QED BY <2>1, <3>1, <3>2
  <2> HIDE DEF f, g
  <2> QED BY <2>1, <2>2, <2>3
<1> HIDE DEF f, g
<1>2. SetSum(f, Symbols) <= SetSum(g, Symbols)
  BY <1>1, SymbolsAssumption, SetSumMonotone
<1> QED BY <1>2, ExposureIs, NotionalIs DEF f, g

\* A purchase adds its notional to the exposure.
LEMMA PurchaseAdds ==
  ASSUME AccountOK, NEW s \in Symbols, NEW q \in Int, qty' = [qty EXCEPT ![s] = @ + q]
  PROVE  Exposure(qty') = Exposure(qty) + q * mark[s]
<1> DEFINE f == Worths(qty, mark)
           g == Worths(qty', mark)
<1>1. ASSUME NEW u \in Symbols
      PROVE  f[u] \in Int /\ g[u] \in Int /\ (u # s => f[u] = g[u])
  <2>1. qty[u] \in Nat /\ qty'[u] \in Int /\ mark[u] \in Nat \ {0} /\ (u # s => qty'[u] = qty[u])
    BY Marks DEF AccountOK, FundsOK
  <2>2. f[u] = qty[u] * mark[u] /\ g[u] = qty'[u] * mark[u]
    BY DEF Worths
  <2> HIDE DEF f, g
  <2> QED BY <2>1, <2>2
<1>2. f[s] = qty[s] * mark[s] /\ g[s] = (qty[s] + q) * mark[s]
  BY DEF Worths, AccountOK, FundsOK
<1> HIDE DEF f, g
<1>3. SetSum(g, Symbols) = SetSum(f, Symbols) + g[s] - f[s]
  <2>1. /\ \A x \in Symbols : f[x] \in Int /\ g[x] \in Int
        /\ \A x \in Symbols \ {s} : f[x] = g[x]
    BY <1>1
  <2>2. IsFiniteSet(Symbols) /\ IsFiniteSet(Symbols \ {s})
    BY SymbolsAssumption, FS_Subset
  <2>3. SetSum(f, Symbols) = f[s] + SetSum(f, Symbols \ {s})
    BY <2>1, <2>2, SetSumRemove
  <2>4. SetSum(g, Symbols) = g[s] + SetSum(g, Symbols \ {s})
    BY <2>1, <2>2, SetSumRemove
  <2>5. SetSum(f, Symbols \ {s}) = SetSum(g, Symbols \ {s})
    BY <2>1, <2>2, SetSumSame
  <2>6. SetSum(f, Symbols \ {s}) \in Int /\ f[s] \in Int /\ g[s] \in Int
    BY <2>1, <2>2, SetSumInt
  <2> QED BY <2>3, <2>4, <2>5, <2>6
<1>4. SetSum(f, Symbols) \in Int
  BY <1>1, SymbolsAssumption, SetSumInt
<1>5. qty[s] \in Nat /\ mark[s] \in Nat
  BY Marks DEF AccountOK, FundsOK
<1>6. g[s] - f[s] = q * mark[s]
  BY <1>2, <1>5
<1>7. SetSum(g, Symbols) = SetSum(f, Symbols) + q * mark[s]
  BY <1>1, <1>3, <1>4, <1>5, <1>6
<1> QED BY <1>7, ExposureIs DEF f, g

\* Whichever path buys, and whatever its order, the limits, the positions and the
\* marks are: an order that fills as it is submitted leaves the portfolio within
\* max_portfolio_exposure of the equity, if it was sized by no less than the mark and
\* no held symbol is marked higher than the one bought.
THEOREM ExposureAlwaysCapped == Spec => ExposureCapped
<1> DEFINE Buys(s) == \/ \E ticket \in Tickets :
                           Price(Request(s, ticket)) >= mark[s] /\ PlaceOrder(s, ticket)
                      \/ \E c \in Cyclers : SignalActs(c, s, "BUY")
           Capped == \A s \in Symbols :
                       (/\ qty'[s] > qty[s] /\ \A u \in Held : mark[u] <= mark[s]
                        /\ Buys(s))
                         => 100 * Exposure(qty') <= PortfolioPct * Equity
<1>1. AccountOK /\ [Next]_vars => [Capped]_vars
  <2> SUFFICES ASSUME AccountOK, NEW s \in Symbols, Buys(s),
                      qty'[s] > qty[s], \A u \in Held : mark[u] <= mark[s]
               PROVE  100 * Exposure(qty') <= PortfolioPct * Equity
    OBVIOUS
  <2>1. qty[s] \in Nat /\ mark[s] \in Nat /\ qty \in [Symbols -> Nat]
    BY Marks DEF AccountOK, FundsOK
  <2>2. qty' # qty
    BY <2>1
  <2>3. \E path, req : Order(req) /\ req.symbol = s /\ Submit(path, req) /\ Price(req) >= mark[s]
    <3>1. ASSUME NEW ticket \in Tickets, PlaceOrder(s, ticket)
          PROVE  /\ Order(Request(s, ticket)) /\ Request(s, ticket).symbol = s
                 /\ Submit("session", Request(s, ticket))
      <4>1. Submit("session", Request(s, ticket))
        BY <3>1, Zenon DEF PlaceOrder, SessionSubmits
      <4>2. Request(s, ticket).symbol = s
        BY DEF Request
      <4> QED BY <4>1, <4>2, RequestIsOrder
    <3>2. ASSUME NEW c \in Cyclers, SignalActs(c, s, "BUY")
          PROVE  LET req == SignalRequest(c, s, "BUY")
                 IN  Order(req) /\ req.symbol = s /\ Submit(c, req) /\ Price(req) >= mark[s]
      <4> DEFINE req == SignalRequest(c, s, "BUY")
      <4>1. Submit(c, req)
        BY <3>2, Zenon DEF SignalActs
      <4>2. Order(req) /\ req.symbol = s /\ req.price = 0
        BY SignalIsOrder
      <4> HIDE DEF req
      <4>3. Price(req) >= mark[s]
        BY <2>1, <4>2, PriceTypes
      <4> QED BY <4>1, <4>2, <4>3 DEF req
    <3> QED BY <3>1, <3>2
  <2>4. PICK path, req : Order(req) /\ req.symbol = s /\ Submit(path, req) /\ Price(req) >= mark[s]
    BY <2>3
  <2> DEFINE q == Sized(req)
             m == mark[s]
             p == Price(req)
  <2>5. Approved(path, req) /\ Trades(req, q)
    BY <2>2, <2>4, SubmitTrades
  <2>6. q \in Int /\ q > 0 /\ p \in Nat /\ p >= m
    BY <2>4, <2>5, SizedFits, PriceTypes DEF Approved
  <2>7. qty' = [qty EXCEPT ![s] = @ + q]
    <3>1. /\ req.symbol = s
          /\ \/ UNCHANGED qty
             \/ qty' = [qty EXCEPT ![s] = @ + q]
             \/ qty' = [qty EXCEPT ![s] = @ - q]
      BY <2>4, <2>5 DEF Trades
    <3> HIDE DEF q
    <3>2. ~ (qty' = [qty EXCEPT ![s] = @ - q])
      BY <2>1, <2>6
    <3> QED BY <2>2, <3>1, <3>2
  <2>8. 100 * (q * p) <= Equity * PortfolioPct - 100 * NotionalAt(m)
    BY <2>4, SizedFits
  <2>9. Exposure(qty') = Exposure(qty) + q * m
    <3> HIDE DEF q
    <3> QED BY <2>6, <2>7, PurchaseAdds
  <2>10. Exposure(qty) <= NotionalAt(m)
    BY <2>1, OneMark
  <2>11. q * m <= q * p /\ q * m \in Int /\ q * p \in Int
    <3> HIDE DEF q, p, m
    <3> QED BY <2>1, <2>6 DEF m
  <2>12. /\ Exposure(qty) \in Nat /\ NotionalAt(m) \in Nat /\ Equity \in Nat
         /\ PortfolioPct \in Nat
    BY <2>1, WorthTypes, Limits
  <2> DEFINE w == q * m
             v == q * p
             e == Equity * PortfolioPct
  <2>13. e \in Int /\ e = PortfolioPct * Equity
    BY <2>12
  <2> HIDE DEF q, p, w, v, e
  <2>14. 100 * Exposure(qty') <= e
    BY <2>8, <2>9, <2>10, <2>11, <2>12, <2>13 DEF w, v, e
  <2> QED BY <2>13, <2>14
<1> QED BY <1>1, AccountBegins, AccountKept, PTL DEF Spec, ExposureCapped

\* The stop of an exit is the mark, or nearer to it than a hundredth.
LEMMA StopIsTight ==
  ASSUME NEW m \in Nat \ {0}, NEW st, st = (2 * 999 * m + 1000) \div 2000
  PROVE  /\ st \in Nat \ {0}
         /\ st = m \/ (st < m /\ 100 * (m - st) <= m)
<1>1. st \in Int /\ 2000 * st <= 1998 * m + 1000 /\ 1998 * m + 1000 < 2000 * st + 2000
  <2>1. 1998 * m + 1000 \in Int /\ 2 * 999 * m + 1000 = 1998 * m + 1000
    OBVIOUS
  <2> QED BY <2>1, Floored
<1> QED BY <1>1

\* A position within both exposure limits keeps its size, if its stop is that
\* tight, unless no risk per trade is allowed at all.
LEMMA ExitFits ==
  ASSUME NEW e \in Nat, NEW Q \in Nat \ {0}, NEW m \in Nat \ {0}, NEW st \in Nat \ {0},
         st = m \/ (st < m /\ 100 * (m - st) <= m),
         100 * Q * m <= PositionPct * e
  PROVE  ByRisk(e, Q, m, st) = Q \/ (RiskPct = 0 /\ ByRisk(e, Q, m, st) = 0)
<1>1. CASE st = m
  BY <1>1 DEF ByRisk
<1>2. CASE st # m
  <2> DEFINE d == m - st
             x == e * RiskPct
  <2>1. d \in Nat \ {0} /\ 100 * d <= m /\ 100 * d \in Nat \ {0}
    BY <1>2
  <2>2. ByRisk(e, Q, m, st) = Lesser(Q, x \div (100 * d))
    BY <1>2, <2>1 DEF ByRisk, Greater
  <2>3. Q * m <= e
    <3> DEFINE w == Q * m
    <3>1. w \in Nat /\ 100 * Q * m = 100 * w
      OBVIOUS
    <3>2. PositionPct * e <= 100 * e /\ PositionPct * e \in Int
      BY Limits
    <3> HIDE DEF w
    <3>3. w <= e
      BY <3>1, <3>2
    <3> QED BY <3>3 DEF w
  <2>4. Q * (100 * d) <= e
    <3>1. Q * (100 * d) <= Q * m
      BY <2>1
    <3> QED BY <2>1, <2>3, <3>1
  <2>5. x \in Int /\ x \div (100 * d) \in Int /\ (100 * d) * (x \div (100 * d)) <= x
        /\ x < (100 * d) * (x \div (100 * d)) + 100 * d
    <3>1. x \in Int
      BY Limits
    <3> HIDE DEF x, d
    <3> QED BY <2>1, <3>1, Floored
  <2>6. CASE RiskPct = 0
    <3>1. x = 0
      BY <2>6
    <3>2. x \div (100 * d) = 0
      <4> HIDE DEF x, d
      <4> QED BY <2>1, <3>1
    <3> QED BY <2>2, <2>6, <3>2 DEF Lesser
  <2>7. CASE RiskPct # 0
    <3>1. e <= x
      BY <2>7, Limits
    <3> DEFINE D == 100 * d
               y == x \div D
    <3>2. Q * D <= x /\ x < D * y + D /\ y \in Int /\ D \in Nat \ {0} /\ x \in Int
      BY <2>1, <2>4, <2>5, <3>1
    <3> HIDE DEF D, y, x, d
    <3>3. Q * D < D * y + D
      BY <3>2
    <3>4. Q <= y
      <4> SUFFICES ASSUME ~ (Q <= y) PROVE FALSE
        OBVIOUS
      <4>1. y + 1 <= Q
        BY <3>2
      <4>2. D * (y + 1) <= D * Q
        BY <3>2, <4>1
      <4> QED BY <3>2, <3>3, <4>2
    <3> QED BY <2>2, <3>2, <3>4 DEF Lesser, y, D
  <2> QED BY <2>6, <2>7
<1> QED BY <1>1, <1>2

\* An exit is never sliced while the position and the portfolio are within their
\* limits: for every mark, position and limit, a pass of close_position that risk
\* accepts sells all of it.
THEOREM ExitsAlwaysWhole == Spec => ExitsWhole
<1> DEFINE Whole ==
      \A s \in Symbols :
        (/\ closing.symbol = s /\ closing' # closing /\ qty'[s] < qty[s]
         /\ 100 * qty[s] * mark[s] <= PositionPct * Equity
         /\ 100 * (NotionalAt(mark[s]) + qty[s] * mark[s]) <= PortfolioPct * Equity)
          => qty'[s] = 0
<1>1. AccountOK /\ [Next]_vars => [Whole]_vars
  <2> SUFFICES ASSUME AccountOK, [Next]_vars, NEW s \in Symbols,
                      closing.symbol = s, closing' # closing, qty'[s] < qty[s],
                      100 * qty[s] * mark[s] <= PositionPct * Equity,
                      100 * (NotionalAt(mark[s]) + qty[s] * mark[s]) <= PortfolioPct * Equity
               PROVE  qty'[s] = 0
    OBVIOUS
  <2> DEFINE req == CloseRequest(s)
             z == Sized(req)
             m == mark[s]
             Q == qty[s]
             e == Equity
  <2>1. Q \in Nat /\ m \in Nat \ {0} /\ qty \in [Symbols -> Nat] /\ e \in Nat
        /\ NotionalAt(m) \in Nat
    BY Marks, WorthTypes DEF AccountOK, FundsOK
  <2>2. qty' # qty
    BY <2>1
  <2>3. PICK path \in Paths : Order(req) /\ Submit(path, req)
    <3>1. UNCHANGED account => qty' = qty
      BY DEF account
    <3>2. (\E u \in Symbols, x \in Prices : MarketMoves(u, x)) => qty' = qty
      BY DEF MarketMoves
    <3> QED BY <2>2, <3>1, <3>2, NextTrades
  <2>4. z > 0 /\ Trades(req, z)
    BY <2>2, <2>3, SubmitTrades DEF Approved
  <2>5. /\ req.symbol = s /\ req.side = "SELL" /\ req.qty = Q /\ req.stop = TightStop(s)
        /\ Price(req) = m
    BY DEF CloseRequest, Price, OrElse
  <2>6. z \in Int
    BY <2>3, SizedFits
  <2> HIDE DEF req
  <2>7. z <= Q /\ qty'[s] = Q - z
    <3> HIDE DEF z
    <3> QED BY <2>1, <2>2, <2>4, <2>5, <2>6 DEF Trades
  <2>8. Q \in Nat \ {0}
    BY <2>1, <2>4, <2>6, <2>7
  <2> DEFINE st == TightStop(s)
             a == ByRisk(e, Q, m, st)
             room == e * PortfolioPct - 100 * NotionalAt(m)
             w == Q * m
  <2>9. st \in Nat \ {0} /\ (st = m \/ (st < m /\ 100 * (m - st) <= m))
    <3>1. st = (2 * 999 * m + 1000) \div 2000
      BY DEF TightStop
    <3> HIDE DEF st, m
    <3> QED BY <2>1, <3>1, StopIsTight
  <2>10. w \in Nat \ {0} /\ 100 * w <= e * PositionPct /\ 100 * w <= room
         /\ e * PositionPct \in Int /\ room \in Int
    <3>1. /\ w \in Nat \ {0} /\ 100 * Q * m = 100 * w /\ e * PositionPct = PositionPct * e
          /\ e * PortfolioPct = PortfolioPct * e
          /\ e * PositionPct \in Int /\ e * PortfolioPct \in Int
      <4> HIDE DEF e, m, Q
      <4> QED BY <2>1, <2>8, Limits
    <3>2. 100 * (NotionalAt(m) + w) <= e * PortfolioPct
      BY <3>1
    <3>3. 100 * w <= room /\ room \in Int
      <4> DEFINE k == NotionalAt(m)
                 y == e * PortfolioPct
      <4>1. k \in Nat /\ y \in Int /\ 100 * (k + w) <= y /\ room = y - 100 * k
        BY <2>1, <3>1, <3>2
      <4> HIDE DEF k, y, w, room
      <4> QED BY <3>1, <4>1
    <3> QED BY <3>1, <3>3
  <2>11. a = Q \/ (RiskPct = 0 /\ a = 0)
    <3> HIDE DEF e, Q, m, st, a
    <3>1. 100 * Q * m <= PositionPct * e
      BY DEF e, Q, m
    <3> QED BY <2>1, <2>8, <2>9, <3>1, ExitFits DEF a
  <2>12. z = ByPortfolio(e, ByPosition(e, a, m), m, m)
    BY <2>5 DEF Sized
  <2>13. CASE a = Q
    <3>1. 100 * a * m = 100 * w
      <4> HIDE DEF a, Q, m
      <4> QED BY <2>1, <2>13 DEF w
    <3>2. ByPosition(e, a, m) = a
      <4> HIDE DEF e, a, m, w, room
      <4> QED BY <2>10, <3>1 DEF ByPosition
    <3>3. ByPortfolio(e, a, m, m) = a
      <4>1. ByPortfolio(e, a, m, m) = IF 100 * a * m > room THEN room \div (100 * m) ELSE a
        BY DEF ByPortfolio
      <4> HIDE DEF e, a, m, w, room
      <4> QED BY <2>10, <3>1, <4>1
    <3>4. z = Q
      <4> HIDE DEF a, z, e, m, Q
      <4> QED BY <2>12, <2>13, <3>2, <3>3
    <3> HIDE DEF z, Q
    <3> QED BY <2>1, <2>7, <3>4
  <2>14. CASE a = 0
    <3>1. 100 * a * m = 0
      <4> HIDE DEF a, m
      <4> QED BY <2>1, <2>14
    <3>2. ByPosition(e, a, m) = a
      <4> HIDE DEF e, a, m, w, room
      <4> QED BY <2>10, <3>1 DEF ByPosition
    <3>3. ByPortfolio(e, a, m, m) = a
      <4>1. ByPortfolio(e, a, m, m) = IF 100 * a * m > room THEN room \div (100 * m) ELSE a
        BY DEF ByPortfolio
      <4> HIDE DEF e, a, m, w, room
      <4> QED BY <2>10, <3>1, <4>1
    <3>4. z = 0
      <4> HIDE DEF a, z, e, m, Q
      <4> QED BY <2>12, <2>14, <3>2, <3>3
    <3> QED BY <2>4, <2>6, <3>4
  <2> QED BY <2>11, <2>13, <2>14
<1> QED BY <1>1, AccountBegins, AccountKept, PTL DEF Spec, ExitsWhole

\* Whatever the paths order and however the fills, closes and market moves
\* interleave, the account is never overdrawn and never short.
THEOREM AccountAlwaysSound == Spec => []AccountOK
BY AccountBegins, AccountKept, PTL DEF Spec
=============================================================================
