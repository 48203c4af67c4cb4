---------------------------- MODULE SumTheorems ----------------------------
(***************************************************************************)
(* What the sums of module Sums are, for tables of every length, and what  *)
(* MapThenSumSet of the community modules is, for finite sets of every     *)
(* size.  The induction is done by least counterexample (LeastNat), from   *)
(* the fact of the library that < is well founded on Nat.                  *)
(***************************************************************************)
EXTENDS Sums, FiniteSetTheorems, TLAPS

\* Every non-empty set of naturals has a least element.
LEMMA LeastNat ==
  ASSUME NEW T \in SUBSET Nat, T # {}
  PROVE  \E x \in T : \A y \in T : x <= y
<1> DEFINE R == {ss \in Nat \X Nat : ss[1] < ss[2]}
<1>1. IsWellFoundedOn(R, Nat)
  BY NatLessThanWellFounded, Zenon DEF OpToRel
<1>2. \E x \in T : \A y \in T : ~ (<<y, x>> \in R)
  <2> HIDE DEF R
  <2> QED BY <1>1, WFMin, Zenon
<1>3. PICK x \in T : \A y \in T : ~ (<<y, x>> \in R)
  BY <1>2
<1>4. ASSUME NEW y \in T PROVE x <= y
  <2>1. ~ (<<y, x>> \in R)
    BY <1>3
  <2>2. x \in Nat /\ y \in Nat
    OBVIOUS
  <2>3. y < x => <<y, x>> \in R
    BY <2>2
  <2> QED BY <2>1, <2>2, <2>3
<1> QED BY <1>4

\* p is the table of partial sums of f.
IsPrefixSum(p, f, n) ==
  /\ p \in [0..n -> Int]
  /\ p[0] = 0
  /\ \A k \in 1..n : p[k] = p[k-1] + f[k]

\* Every table of integers has a table of partial sums.
LEMMA PrefixSumExists ==
  ASSUME NEW n \in Nat, NEW f \in [1..n -> Int]
  PROVE  \E p : IsPrefixSum(p, f, n)
<1> DEFINE Bad == {m \in 0..n : ~ \E p : IsPrefixSum(p, f, m)}
<1> SUFFICES ASSUME Bad # {} PROVE FALSE
  <2>1. n \in 0..n
    OBVIOUS
  <2>2. n \in Bad \/ \E p : IsPrefixSum(p, f, n)
    BY <2>1
  <2> QED BY <2>2
<1>1. PICK m \in Bad : \A y \in Bad : m <= y
  <2>1. Bad \in SUBSET Nat
    OBVIOUS
  <2> HIDE DEF Bad
  <2> QED BY <2>1, LeastNat
<1>2. CASE m = 0
  <2>1. IsPrefixSum([k \in 0..0 |-> 0], f, 0)
    BY DEF IsPrefixSum
  <2> QED BY <1>2, <2>1
<1>3. CASE m # 0
  <2>1. m \in Nat /\ m - 1 \in 0..n /\ m - 1 \notin Bad
    BY <1>1, <1>3
  <2>2. PICK p : IsPrefixSum(p, f, m - 1)
    BY <2>1
  <2> DEFINE q == [k \in 0..m |-> IF k = m THEN p[m-1] + f[m] ELSE p[k]]
  <2>3. IsPrefixSum(q, f, m)
    <3>1. f[m] \in Int /\ p[m-1] \in Int
      BY <2>1, <2>2, <1>3 DEF IsPrefixSum
    <3>2. q \in [0..m -> Int]
      BY <2>1, <2>2, <3>1 DEF IsPrefixSum
    <3>3. q[0] = 0
      BY <2>1, <2>2, <1>3 DEF IsPrefixSum
    <3>4. ASSUME NEW k \in 1..m PROVE q[k] = q[k-1] + f[k]
      <4>1. CASE k = m
        <5>1. k - 1 \in 0..m /\ k - 1 # m
          BY <2>1, <4>1
        <5> QED BY <4>1, <5>1, <2>1
      <4>2. CASE k # m
        <5>1. k \in 1..(m-1) /\ k - 1 \in 0..m /\ k - 1 # m /\ k \in 0..m
          BY <2>1, <4>2
        <5>2. p[k] = p[k-1] + f[k]
          BY <2>2, <5>1 DEF IsPrefixSum
        <5> QED BY <4>2, <5>1, <5>2
      <4> QED BY <4>1, <4>2
    <3> QED BY <3>2, <3>3, <3>4 DEF IsPrefixSum
  <2> QED BY <2>3
<1> QED BY <1>2, <1>3

\* The recursive definition has exactly one solution, the partial sums.
LEMMA PrefixSumUnique ==
  ASSUME NEW n \in Nat, NEW f, NEW p, IsPrefixSum(p, f, n)
  PROVE  PrefixSums(f, n) = p
<1> DEFINE Eqn(g) == g = [k \in 0..n |-> IF k = 0 THEN 0 ELSE g[k-1] + f[k]]
           S == PrefixSums(f, n)
<1>1. Eqn(p)
  BY DEF IsPrefixSum
<1>2. S = CHOOSE g : Eqn(g)
  BY DEF PrefixSums
<1>3. Eqn(S)
  <2> HIDE DEF Eqn
  <2> QED BY <1>1, <1>2
<1> HIDE DEF S
<1> DEFINE Bad == {k \in 0..n : S[k] # p[k]}
<1>4. Bad = {}
  <2> SUFFICES ASSUME Bad # {} PROVE FALSE
    OBVIOUS
  <2>1. PICK m \in Bad : \A y \in Bad : m <= y
    <3>1. Bad \in SUBSET Nat
      OBVIOUS
    <3> HIDE DEF Bad
    <3> QED BY <3>1, LeastNat
  <2>2. m # 0
    BY <1>1, <1>3
  <2>3. m - 1 \in 0..n /\ m - 1 \notin Bad
    BY <2>1, <2>2
  <2>4. S[m-1] = p[m-1]
    BY <2>3
  <2> QED BY <1>1, <1>3, <2>2, <2>3, <2>4
<1>5. \A k \in 0..n : S[k] = p[k]
  BY <1>4
<1>6. S = [k \in 0..n |-> S[k]] /\ p = [k \in 0..n |-> p[k]]
  BY <1>1, <1>3
<1> QED BY <1>5, <1>6 DEF S

\* Tables that agree but for one entry have sums that differ by that entry.
LEMMA SumChange ==
  ASSUME NEW n \in Nat, NEW f \in [1..n -> Int], NEW g \in [1..n -> Int],
         NEW i \in 1..n, \A k \in 1..n : k # i => g[k] = f[k]
  PROVE  /\ SumTo(f, n) \in Int
         /\ SumTo(g, n) = SumTo(f, n) - f[i] + g[i]
<1>1. PICK p : IsPrefixSum(p, f, n)
  BY PrefixSumExists
<1> DEFINE v == g[i]
           q == [k \in 0..n |-> IF k < i THEN p[k] ELSE p[k] - f[i] + v]
<1>2. IsPrefixSum(q, g, n)
  <2>1. f[i] \in Int /\ v \in Int /\ p \in [0..n -> Int] /\ p[0] = 0
    BY <1>1 DEF IsPrefixSum
  <2>2. q \in [0..n -> Int]
    BY <2>1, SMTT(30)
  <2>3. q[0] = 0
    BY <2>1
  <2>4. ASSUME NEW k \in 1..n PROVE q[k] = q[k-1] + g[k]
    <3>1. p[k] = p[k-1] + f[k] /\ k \in 0..n /\ k - 1 \in 0..n
      BY <1>1 DEF IsPrefixSum
    <3>2. p[k] \in Int /\ p[k-1] \in Int /\ f[k] \in Int
      BY <2>1, <3>1
    <3>3. CASE k < i
      <4>1. q[k] = p[k] /\ q[k-1] = p[k-1] /\ g[k] = f[k]
        BY <3>1, <3>3
      <4> QED BY <4>1, <3>1
    <3>4. CASE k = i
      <4>1. q[k] = p[k] - f[i] + v /\ q[k-1] = p[k-1] /\ g[k] = v
        BY <3>1, <3>4
      <4> QED BY <4>1, <3>1, <3>2, <3>4
    <3>5. CASE k > i
      <4>1. /\ q[k] = p[k] - f[i] + v /\ q[k-1] = p[k-1] - f[i] + v
            /\ g[k] = f[k]
        BY <3>1, <3>5
      <4> HIDE DEF q
      <4> QED BY <4>1, <3>1, <3>2, <2>1, SMTT(30)
    <3> QED BY <3>3, <3>4, <3>5
  <2> QED BY <2>2, <2>3, <2>4 DEF IsPrefixSum
<1>3. PrefixSums(f, n) = p /\ PrefixSums(g, n) = q
  <2> HIDE DEF q
  <2> QED BY <1>1, <1>2, PrefixSumUnique
<1>4. n \in 0..n /\ ~(n < i) /\ q[n] = p[n] - f[i] + v /\ p[n] \in Int
  BY <1>1 DEF IsPrefixSum
<1> QED BY <1>3, <1>4 DEF SumTo

\* An entry of a table of naturals is at most the sum of the table.
LEMMA SumBound ==
  ASSUME NEW n \in Nat, NEW f \in [1..n -> Nat], NEW i \in 1..n
  PROVE  f[i] <= SumTo(f, n)
<1>1. PICK p : IsPrefixSum(p, f, n)
  BY PrefixSumExists
<1>2. p \in [0..n -> Int] /\ p[0] = 0
  BY <1>1 DEF IsPrefixSum
<1> DEFINE Low(k) == IF k < i THEN 0 ELSE f[i]
           Bad == {k \in 0..n : p[k] < Low(k)}
<1>3. Bad = {}
  <2> SUFFICES ASSUME Bad # {} PROVE FALSE
    OBVIOUS
  <2>1. PICK m \in Bad : \A y \in Bad : m <= y
    <3>1. Bad \in SUBSET Nat
      OBVIOUS
    <3> HIDE DEF Bad
    <3> QED BY <3>1, LeastNat
  <2>2. m # 0
    BY <1>2
  <2>3. m \in 1..n /\ m - 1 \in 0..n /\ m - 1 \notin Bad
    BY <2>1, <2>2
  <2>4. p[m] = p[m-1] + f[m] /\ p[m-1] \in Int /\ f[m] \in Nat /\ f[i] \in Nat
    BY <1>1, <1>2, <2>3 DEF IsPrefixSum
  <2>5. p[m-1] >= Low(m-1) /\ p[m] < Low(m)
    BY <2>3, <2>4, <2>1
  <2>6. CASE m < i
    BY <2>3, <2>4, <2>5, <2>6
  <2>7. CASE m = i
    BY <2>3, <2>4, <2>5, <2>7
  <2>8. CASE m > i
    BY <2>3, <2>4, <2>5, <2>8
  <2> QED BY <2>6, <2>7, <2>8, <2>3
<1>4. n \in 0..n /\ ~(n < i) /\ p[n] \in Int /\ f[i] \in Nat
  BY <1>2
<1>5. p[n] >= f[i]
  BY <1>3, <1>4
<1>6. PrefixSums(f, n) = p
  BY <1>1, PrefixSumUnique
<1> QED BY <1>5, <1>6 DEF SumTo

\* A table of zeros sums to zero.
LEMMA SumZero ==
  ASSUME NEW n \in Nat, NEW f, \A k \in 1..n : f[k] = 0
  PROVE  SumTo(f, n) = 0
<1> DEFINE p == [k \in 0..n |-> 0]
<1>1. IsPrefixSum(p, f, n)
  BY DEF IsPrefixSum
<1>2. PrefixSums(f, n) = p
  BY <1>1, PrefixSumUnique
<1> QED BY <1>2 DEF SumTo

\* A table that is nowhere below another has no smaller sum.
LEMMA SumMonotone ==
  ASSUME NEW n \in Nat, NEW f \in [1..n -> Int], NEW g \in [1..n -> Int],
         \A k \in 1..n : f[k] <= g[k]
  PROVE  /\ SumTo(f, n) \in Int /\ SumTo(g, n) \in Int
         /\ SumTo(f, n) <= SumTo(g, n)
<1>1. PICK p : IsPrefixSum(p, f, n)
  BY PrefixSumExists
<1>2. PICK q : IsPrefixSum(q, g, n)
  BY PrefixSumExists
<1>3. p \in [0..n -> Int] /\ p[0] = 0 /\ q \in [0..n -> Int] /\ q[0] = 0
  BY <1>1, <1>2 DEF IsPrefixSum
<1> DEFINE Bad == {k \in 0..n : p[k] > q[k]}
<1>4. Bad = {}
  <2> SUFFICES ASSUME Bad # {} PROVE FALSE
    OBVIOUS
  <2>1. PICK m \in Bad : \A y \in Bad : m <= y
    <3>1. Bad \in SUBSET Nat
      OBVIOUS
    <3> HIDE DEF Bad
    <3> QED BY <3>1, LeastNat
  <2>2. m # 0
    BY <1>3
  <2>3. m \in 1..n /\ m - 1 \in 0..n /\ m - 1 \notin Bad
    BY <2>1, <2>2
  <2>4. /\ p[m] = p[m-1] + f[m] /\ p[m-1] \in Int /\ f[m] \in Int
        /\ q[m] = q[m-1] + g[m] /\ q[m-1] \in Int /\ g[m] \in Int
        /\ f[m] <= g[m]
    BY <1>1, <1>2, <1>3, <2>3 DEF IsPrefixSum
  <2>5. p[m-1] <= q[m-1] /\ p[m] > q[m]
    BY <2>3, <2>4, <2>1
  <2> QED BY <2>4, <2>5, SMTT(30)
<1>5. n \in 0..n /\ p[n] \in Int /\ q[n] \in Int
  BY <1>3
<1>6. p[n] <= q[n]
  <2>1. ~ (p[n] > q[n])
    BY <1>4, <1>5
  <2> QED BY <1>5, <2>1
<1>7. PrefixSums(f, n) = p /\ PrefixSums(g, n) = q
  BY <1>1, <1>2, PrefixSumUnique
<1> QED BY <1>5, <1>6, <1>7 DEF SumTo

\* If it is above the other somewhere, its sum is larger.
LEMMA SumGrows ==
  ASSUME NEW n \in Nat, NEW f \in [1..n -> Int], NEW g \in [1..n -> Int],
         \A k \in 1..n : f[k] <= g[k], NEW i \in 1..n, f[i] + 1 <= g[i]
  PROVE  /\ SumTo(f, n) \in Int /\ SumTo(g, n) \in Int
         /\ SumTo(f, n) + 1 <= SumTo(g, n)
<1> DEFINE h == [f EXCEPT ![i] = f[i] + 1]
<1>1. /\ h \in [1..n -> Int] /\ h[i] = f[i] + 1
      /\ \A k \in 1..n : k # i => h[k] = f[k]
  OBVIOUS
<1>2. f[i] \in Int /\ \A k \in 1..n : h[k] <= g[k]
  BY <1>1
<1> HIDE DEF h
<1>3. SumTo(f, n) \in Int /\ SumTo(h, n) = SumTo(f, n) - f[i] + h[i]
  BY <1>1, SumChange
<1>4. SumTo(h, n) \in Int /\ SumTo(g, n) \in Int /\ SumTo(h, n) <= SumTo(g, n)
  BY <1>1, <1>2, SumMonotone
<1> QED BY <1>1, <1>2, <1>3, <1>4

\* A table with no entry above c sums to at most c times its length.
LEMMA SumCap ==
  ASSUME NEW n \in Nat, NEW c \in Nat, NEW f \in [1..n -> Int], \A k \in 1..n : f[k] <= c
  PROVE  SumTo(f, n) <= c * n
<1> DEFINE g == [k \in 1..n |-> c]
           q == [k \in 0..n |-> c * k]
<1>1. IsPrefixSum(q, g, n)
  <2>1. q \in [0..n -> Int]
    <3>1. \A k \in 0..n : c * k \in Int
      OBVIOUS
    <3> QED BY <3>1
  <2>2. q[0] = 0
    <3>1. 0 \in 0..n /\ c * 0 = 0
      OBVIOUS
    <3> QED BY <3>1
  <2>3. ASSUME NEW k \in 1..n PROVE q[k] = q[k-1] + g[k]
    <3>1. k \in 0..n /\ k - 1 \in 0..n /\ c * k = c * (k - 1) + c
      OBVIOUS
    <3> QED BY <3>1
  <2> QED BY <2>1, <2>2, <2>3 DEF IsPrefixSum
<1>2. PrefixSums(g, n) = q
  <2> HIDE DEF g, q
  <2> QED BY <1>1, PrefixSumUnique
<1>3. n \in 0..n /\ q[n] = c * n
  OBVIOUS
<1>4. g \in [1..n -> Int] /\ \A k \in 1..n : f[k] <= g[k]
  OBVIOUS
<1>5. SumTo(f, n) <= SumTo(g, n)
  <2> HIDE DEF g, q
  <2> QED BY <1>4, SumMonotone
<1> QED BY <1>2, <1>3, <1>5 DEF SumTo

---------------------------------------------------------------------------
(* Sums over finite sets *)

\* The element that MapThenSumSet adds next.
Chosen(S) == CHOOSE x \in S : TRUE

\* it is a table of the sums of f over the subsets of S, as MapThenSumSet
\* computes them.
IsSetSum(it, f, S) ==
  \A T \in SUBSET S : it[T] = IF T = {} THEN 0 ELSE f[Chosen(T)] + it[T \ {Chosen(T)}]

\* The sum of f over S.
SetSum(f, S) == (CHOOSE it : IsSetSum(it, f, S))[S]

\* Of sets of subsets of a finite set one is smallest.
LEMMA SmallestSet ==
  ASSUME NEW S, IsFiniteSet(S), NEW Bad \in SUBSET (SUBSET S), Bad # {}
  PROVE  \E T \in Bad : \A U \in Bad : Cardinality(T) <= Cardinality(U)
<1> DEFINE Sizes == {Cardinality(T) : T \in Bad}
<1>1. ASSUME NEW T \in Bad PROVE Cardinality(T) \in Nat
  <2>1. T \in SUBSET S
    OBVIOUS
  <2> QED BY <2>1, FS_Subset, FS_CardinalityType
<1>2. Sizes \in SUBSET Nat /\ Sizes # {}
  BY <1>1
<1>3. PICK n \in Sizes : \A m \in Sizes : n <= m
  <2> HIDE DEF Sizes
  <2> QED BY <1>2, LeastNat
<1> QED BY <1>3

\* Taking the chosen element away leaves a smaller subset.
LEMMA ChosenLeaves ==
  ASSUME NEW S, IsFiniteSet(S), NEW T \in SUBSET S, T # {}
  PROVE  /\ Chosen(T) \in T /\ Chosen(T) \in S /\ T \ {Chosen(T)} \in SUBSET S
         /\ IsFiniteSet(T) /\ Cardinality(T) \in Nat
         /\ Cardinality(T \ {Chosen(T)}) = Cardinality(T) - 1
<1>1. Chosen(T) \in T
  BY DEF Chosen
<1>2. IsFiniteSet(T) /\ Cardinality(T) \in Nat
  BY FS_Subset, FS_CardinalityType
<1>3. Cardinality(T \ {Chosen(T)}) = Cardinality(T) - 1
  BY <1>1, <1>2, FS_RemoveElement
<1> QED BY <1>1, <1>2, <1>3

\* The table exists.
LEMMA SetSumExists ==
  ASSUME NEW S, IsFiniteSet(S), NEW f
  PROVE  \E it : IsSetSum(it, f, S)
<1> DEFINE Upto(it, n) ==
             \A T \in SUBSET S :
               Cardinality(T) <= n
                 => it[T] = IF T = {} THEN 0 ELSE f[Chosen(T)] + it[T \ {Chosen(T)}]
           Bad == {n \in Nat : ~ \E it : Upto(it, n)}
<1>1. Bad = {}
  <2> SUFFICES ASSUME Bad # {} PROVE FALSE
    OBVIOUS
  <2>1. PICK n \in Bad : \A m \in Bad : n <= m
    <3>1. Bad \in SUBSET Nat
      OBVIOUS
    <3> HIDE DEF Bad
    <3> QED BY <3>1, LeastNat
  <2>2. n # 0
    <3> SUFFICES ASSUME n = 0 PROVE FALSE
      OBVIOUS
    <3> DEFINE it == [T \in SUBSET S |-> 0]
    <3>1. ASSUME NEW T \in SUBSET S, Cardinality(T) <= 0 PROVE T = {} /\ it[T] = 0
      <4>1. IsFiniteSet(T) /\ Cardinality(T) \in Nat
        BY FS_Subset, FS_CardinalityType
      <4> QED BY <3>1, <4>1, FS_EmptySet
    <3>2. Upto(it, 0)
      BY <3>1
    <3> QED BY <2>1, <3>2
  <2>3. n - 1 \in Nat /\ n - 1 \notin Bad
    <3>1. n \in Nat
      OBVIOUS
    <3> HIDE DEF Bad
    <3> QED BY <2>1, <2>2, <3>1
  <2>4. PICK it : Upto(it, n - 1)
    BY <2>3
  <2> DEFINE jt == [T \in SUBSET S |-> IF Cardinality(T) <= n - 1 THEN it[T]
                                       ELSE f[Chosen(T)] + it[T \ {Chosen(T)}]]
  <2>5. ASSUME NEW T \in SUBSET S, Cardinality(T) <= n
        PROVE  jt[T] = IF T = {} THEN 0 ELSE f[Chosen(T)] + jt[T \ {Chosen(T)}]
    <3>1. CASE T = {}
      <4>1. Cardinality(T) <= n - 1
        BY <2>3, <3>1, FS_EmptySet
      <4> QED BY <2>4, <3>1, <4>1
    <3>2. CASE T # {}
      <4> DEFINE U == T \ {Chosen(T)}
      <4>1. U \in SUBSET S /\ Cardinality(U) = Cardinality(T) - 1 /\ Cardinality(T) \in Nat
        BY <3>2, ChosenLeaves
      <4>2. Cardinality(U) <= n - 1
        BY <2>3, <2>5, <4>1
      <4>3. jt[U] = it[U]
        <5> HIDE DEF U
        <5> QED BY <4>1, <4>2
      <4>4. jt[T] = f[Chosen(T)] + it[U]
        <5>1. CASE Cardinality(T) <= n - 1
          BY <2>4, <3>2, <5>1
        <5>2. CASE ~ (Cardinality(T) <= n - 1)
          BY <5>2
        <5> QED BY <5>1, <5>2
      <4> HIDE DEF jt
      <4> QED BY <3>2, <4>3, <4>4
    <3> QED BY <3>1, <3>2
  <2>6. Upto(jt, n)
    <3> HIDE DEF jt
    <3> QED BY <2>5
  <2> HIDE DEF jt
  <2> QED BY <2>1, <2>6
<1>2. Cardinality(S) \in Nat
  BY FS_CardinalityType
<1>3. PICK it : Upto(it, Cardinality(S))
  BY <1>1, <1>2
<1>4. \A T \in SUBSET S : Cardinality(T) <= Cardinality(S)
  BY FS_Subset
<1>5. IsSetSum(it, f, S)
  BY <1>3, <1>4 DEF IsSetSum
<1> QED BY <1>5

\* There is one only.
LEMMA SetSumUnique ==
  ASSUME NEW S, IsFiniteSet(S), NEW f, NEW it, NEW jt, IsSetSum(it, f, S), IsSetSum(jt, f, S)
  PROVE  \A T \in SUBSET S : it[T] = jt[T]
<1> DEFINE Bad == {T \in SUBSET S : it[T] # jt[T]}
<1> SUFFICES ASSUME Bad # {} PROVE FALSE
  OBVIOUS
<1>1. PICK T \in Bad : \A U \in Bad : Cardinality(T) <= Cardinality(U)
  <2>1. Bad \in SUBSET (SUBSET S)
    OBVIOUS
  <2> HIDE DEF Bad
  <2> QED BY <2>1, SmallestSet
<1>2. CASE T = {}
  BY <1>1, <1>2 DEF IsSetSum
<1>3. CASE T # {}
  <2> DEFINE U == T \ {Chosen(T)}
  <2>1. U \in SUBSET S /\ Cardinality(U) = Cardinality(T) - 1 /\ Cardinality(T) \in Nat
    BY <1>3, ChosenLeaves
  <2>2. ~ (Cardinality(T) <= Cardinality(U))
    BY <2>1
  <2>3. it[U] = jt[U]
    <3> HIDE DEF U
    <3> QED BY <1>1, <2>1, <2>2
  <2>4. it[T] = f[Chosen(T)] + it[U] /\ jt[T] = f[Chosen(T)] + jt[U]
    BY <1>3 DEF IsSetSum
  <2> QED BY <1>1, <2>3, <2>4
<1> QED BY <1>2, <1>3

\* Every table holds the sums of the subsets.
LEMMA SetSumIs ==
  ASSUME NEW S, IsFiniteSet(S), NEW f, NEW it, IsSetSum(it, f, S), NEW T \in SUBSET S
  PROVE  it[T] = SetSum(f, T)
<1> DEFINE jt == CHOOSE jt : IsSetSum(jt, f, T)
<1>1. IsFiniteSet(T)
  BY FS_Subset
<1>2. IsSetSum(jt, f, T)
  BY <1>1, SetSumExists
<1>3. IsSetSum(it, f, T)
  BY DEF IsSetSum
<1>4. T \in SUBSET T
  OBVIOUS
<1>5. it[T] = jt[T]
  <2> HIDE DEF jt
  <2> QED BY <1>1, <1>2, <1>3, <1>4, SetSumUnique
<1> QED BY <1>5 DEF SetSum

\* The sum over nothing, and the step in which the chosen element is added.
LEMMA SetSumStep ==
  ASSUME NEW S, IsFiniteSet(S), NEW f
  PROVE  /\ SetSum(f, {}) = 0
         /\ S # {} => SetSum(f, S) = f[Chosen(S)] + SetSum(f, S \ {Chosen(S)})
<1>1. PICK it : IsSetSum(it, f, S)
  BY SetSumExists
<1>2. \A T \in SUBSET S : it[T] = SetSum(f, T)
  BY <1>1, SetSumIs
<1>3. it[{}] = 0 /\ it[{}] = SetSum(f, {})
  BY <1>1, <1>2 DEF IsSetSum
<1>4. CASE S # {}
  <2> DEFINE U == S \ {Chosen(S)}
  <2>1. S \in SUBSET S /\ U \in SUBSET S
    OBVIOUS
  <2>2. it[S] = f[Chosen(S)] + it[U]
    BY <1>1, <1>4, <2>1 DEF IsSetSum
  <2>3. it[S] = SetSum(f, S) /\ it[U] = SetSum(f, U)
    <3> HIDE DEF U
    <3> QED BY <1>2, <2>1
  <2> QED BY <1>3, <2>2, <2>3
<1> QED BY <1>3, <1>4

\* A sum of integers is an integer.
LEMMA SetSumInt ==
  ASSUME NEW S, IsFiniteSet(S), NEW f, \A x \in S : f[x] \in Int
  PROVE  SetSum(f, S) \in Int
<1> DEFINE Bad == {T \in SUBSET S : SetSum(f, T) \notin Int}
<1>1. Bad = {}
  <2> SUFFICES ASSUME Bad # {} PROVE FALSE
    OBVIOUS
  <2>1. PICK T \in Bad : \A U \in Bad : Cardinality(T) <= Cardinality(U)
    <3>1. Bad \in SUBSET (SUBSET S)
      OBVIOUS
    <3> HIDE DEF Bad
    <3> QED BY <3>1, SmallestSet
  <2>2. IsFiniteSet(T)
    BY FS_Subset
  <2>3. T # {}
    <3> SUFFICES ASSUME T = {} PROVE FALSE
      OBVIOUS
    <3>1. SetSum(f, T) = 0
      BY <2>2, SetSumStep
    <3> QED BY <3>1
  <2> DEFINE U == T \ {Chosen(T)}
  <2>4. /\ Chosen(T) \in S /\ U \in SUBSET S
        /\ Cardinality(U) = Cardinality(T) - 1 /\ Cardinality(T) \in Nat
    BY <2>3, ChosenLeaves
  <2>5. SetSum(f, T) = f[Chosen(T)] + SetSum(f, U)
    BY <2>2, <2>3, SetSumStep
  <2>6. U \notin Bad
    <3> HIDE DEF U, Bad
    <3> QED BY <2>1, <2>4
  <2>7. SetSum(f, U) \in Int
    <3> HIDE DEF U
    <3> QED BY <2>4, <2>6
  <2> HIDE DEF U
  <2> QED BY <2>4, <2>5, <2>7
<1>2. S \in SUBSET S
  OBVIOUS
<1> QED BY <1>1, <1>2

\* Any element may be taken out of the sum, not only the chosen one.
LEMMA SetSumRemove ==
  ASSUME NEW S, IsFiniteSet(S), NEW f, \A x \in S : f[x] \in Int, NEW y \in S
  PROVE  SetSum(f, S) = f[y] + SetSum(f, S \ {y})
<1> DEFINE Bad == {T \in SUBSET S : \E x \in T : SetSum(f, T) # f[x] + SetSum(f, T \ {x})}
<1>1. Bad = {}
  <2> SUFFICES ASSUME Bad # {} PROVE FALSE
    OBVIOUS
  <2>1. PICK T \in Bad : \A U \in Bad : Cardinality(T) <= Cardinality(U)
    <3>1. Bad \in SUBSET (SUBSET S)
      OBVIOUS
    <3> HIDE DEF Bad
    <3> QED BY <3>1, SmallestSet
  <2>2. PICK x \in T : SetSum(f, T) # f[x] + SetSum(f, T \ {x})
    OBVIOUS
  <2>3. IsFiniteSet(T) /\ T \in SUBSET S
    BY FS_Subset
  <2> DEFINE c == Chosen(T)
             U == T \ {c}
             V == T \ {x}
             W == U \ {x}
  <2>4. /\ c \in T /\ U \in SUBSET S
        /\ Cardinality(U) = Cardinality(T) - 1 /\ Cardinality(T) \in Nat
    BY ChosenLeaves
  <2>5. SetSum(f, T) = f[c] + SetSum(f, U)
    BY <2>3, SetSumStep
  <2>6. c # x
    BY <2>2, <2>5
  <2>7. SetSum(f, U) = f[x] + SetSum(f, W)
    <3>1. U \notin Bad
      <4> HIDE DEF U, Bad
      <4> QED BY <2>1, <2>4
    <3>2. x \in U
      BY <2>6
    <3> QED BY <2>4, <3>1, <3>2
  <2>8. SetSum(f, V) = f[c] + SetSum(f, W)
    <3>1. V \in SUBSET S /\ c \in V /\ V \ {c} = W
      BY <2>4, <2>6
    <3>2. Cardinality(V) = Cardinality(T) - 1
      BY <2>3, FS_RemoveElement
    <3>3. V \notin Bad
      <4> HIDE DEF V, Bad
      <4> QED BY <2>1, <2>4, <3>1, <3>2
    <3> HIDE DEF V, W, c
    <3> QED BY <3>1, <3>3
  <2>9. SetSum(f, W) \in Int /\ f[x] \in Int /\ f[c] \in Int
    <3>1. W \in SUBSET S /\ x \in S /\ c \in S
      BY <2>4
    <3>2. IsFiniteSet(W) /\ \A z \in W : f[z] \in Int
      <4> HIDE DEF W
      <4> QED BY <3>1, FS_Subset
    <3> HIDE DEF W, c
    <3> QED BY <3>1, <3>2, SetSumInt
  <2> HIDE DEF c, U, V, W, Bad
  <2>10. SetSum(f, T) = f[x] + SetSum(f, V)
    BY <2>5, <2>7, <2>8, <2>9
  <2> QED BY <2>2, <2>10 DEF V
<1>2. S \in SUBSET S
  OBVIOUS
<1> QED BY <1>1, <1>2

\* The sum looks at f on S only.
LEMMA SetSumSame ==
  ASSUME NEW S, IsFiniteSet(S), NEW f, NEW g, \A x \in S : f[x] = g[x]
  PROVE  SetSum(f, S) = SetSum(g, S)
<1>1. PICK it : IsSetSum(it, f, S)
  BY SetSumExists
<1>2. IsSetSum(it, g, S)
  <2>1. ASSUME NEW T \in SUBSET S, T # {} PROVE f[Chosen(T)] = g[Chosen(T)]
    BY <2>1, ChosenLeaves
  <2> QED BY <1>1, <2>1 DEF IsSetSum
<1>3. S \in SUBSET S
  OBVIOUS
<1>4. it[S] = SetSum(f, S)
  BY <1>1, <1>3, SetSumIs
<1>5. it[S] = SetSum(g, S)
  BY <1>2, <1>3, SetSumIs
<1> QED BY <1>4, <1>5

\* Larger terms give a larger sum.
LEMMA SetSumMonotone ==
  ASSUME NEW S, IsFiniteSet(S), NEW f, NEW g,
         \A x \in S : f[x] \in Int /\ g[x] \in Int /\ f[x] <= g[x]
  PROVE  SetSum(f, S) <= SetSum(g, S)
<1> DEFINE Bad == {T \in SUBSET S : ~ (SetSum(f, T) <= SetSum(g, T))}
<1>1. Bad = {}
  <2> SUFFICES ASSUME Bad # {} PROVE FALSE
    OBVIOUS
  <2>1. PICK T \in Bad : \A U \in Bad : Cardinality(T) <= Cardinality(U)
    <3>1. Bad \in SUBSET (SUBSET S)
      OBVIOUS
    <3> HIDE DEF Bad
    <3> QED BY <3>1, SmallestSet
  <2>2. IsFiniteSet(T)
    BY FS_Subset
  <2>3. T # {}
    <3> SUFFICES ASSUME T = {} PROVE FALSE
      OBVIOUS
    <3>1. SetSum(f, T) = 0 /\ SetSum(g, T) = 0
      BY <2>2, SetSumStep
    <3> QED BY <3>1
  <2> DEFINE U == T \ {Chosen(T)}
  <2>4. /\ Chosen(T) \in S /\ U \in SUBSET S
        /\ Cardinality(U) = Cardinality(T) - 1 /\ Cardinality(T) \in Nat
    BY <2>3, ChosenLeaves
  <2>5. SetSum(f, T) = f[Chosen(T)] + SetSum(f, U) /\ SetSum(g, T) = g[Chosen(T)] + SetSum(g, U)
    BY <2>2, <2>3, SetSumStep
  <2>6. U \notin Bad
    <3> HIDE DEF U, Bad
    <3> QED BY <2>1, <2>4
  <2>7. IsFiniteSet(U) /\ \A x \in U : f[x] \in Int /\ g[x] \in Int
    <3> HIDE DEF U
    <3> QED BY <2>4, FS_Subset
  <2>8. SetSum(f, U) \in Int /\ SetSum(g, U) \in Int
    <3> HIDE DEF U
    <3> QED BY <2>7, SetSumInt
  <2>9. SetSum(f, U) <= SetSum(g, U)
    <3> HIDE DEF U
    <3> QED BY <2>4, <2>6
  <2>10. SetSum(f, T) <= SetSum(g, T)
    <3> HIDE DEF U, Bad
    <3> QED BY <2>4, <2>5, <2>8, <2>9
  <2> QED BY <2>10
<1>2. S \in SUBSET S
  OBVIOUS
<1> QED BY <1>1, <1>2

\* A sum of natural numbers is one.
LEMMA SetSumNat ==
  ASSUME NEW S, IsFiniteSet(S), NEW f, \A x \in S : f[x] \in Nat
  PROVE  SetSum(f, S) \in Nat
<1> DEFINE Bad == {T \in SUBSET S : SetSum(f, T) \notin Nat}
<1>1. Bad = {}
  <2> SUFFICES ASSUME Bad # {} PROVE FALSE
    OBVIOUS
  <2>1. PICK T \in Bad : \A U \in Bad : Cardinality(T) <= Cardinality(U)
    <3>1. Bad \in SUBSET (SUBSET S)
      OBVIOUS
    <3> HIDE DEF Bad
    <3> QED BY <3>1, SmallestSet
  <2>2. IsFiniteSet(T)
    BY FS_Subset
  <2>3. T # {}
    <3> SUFFICES ASSUME T = {} PROVE FALSE
      OBVIOUS
    <3>1. SetSum(f, T) = 0
      BY <2>2, SetSumStep
    <3> QED BY <3>1
  <2> DEFINE U == T \ {Chosen(T)}
  <2>4. /\ Chosen(T) \in S /\ U \in SUBSET S
        /\ Cardinality(U) = Cardinality(T) - 1 /\ Cardinality(T) \in Nat
    BY <2>3, ChosenLeaves
  <2>5. SetSum(f, T) = f[Chosen(T)] + SetSum(f, U)
    BY <2>2, <2>3, SetSumStep
  <2>6. U \notin Bad
    <3> HIDE DEF U, Bad
    <3> QED BY <2>1, <2>4
  <2>7. SetSum(f, U) \in Nat
    <3> HIDE DEF U
    <3> QED BY <2>4, <2>6
  <2> HIDE DEF U
  <2> QED BY <2>4, <2>5, <2>7
<1>2. S \in SUBSET S
  OBVIOUS
<1> QED BY <1>1, <1>2

\* A term added to a sum.
LEMMA SetSumAdd ==
  ASSUME NEW S, IsFiniteSet(S), NEW f, NEW y, y \notin S, \A x \in S \cup {y} : f[x] \in Int
  PROVE  SetSum(f, S \cup {y}) = SetSum(f, S) + f[y]
<1> DEFINE R == S \cup {y}
<1>1. IsFiniteSet(R) /\ y \in R /\ R \ {y} = S
  BY FS_AddElement
<1>2. \A x \in R : f[x] \in Int
  OBVIOUS
<1>3. SetSum(f, R) = f[y] + SetSum(f, S)
  <2> HIDE DEF R
  <2>1. SetSum(f, R) = f[y] + SetSum(f, R \ {y})
    BY <1>1, <1>2, SetSumRemove
  <2> QED BY <1>1, <2>1
<1>4. SetSum(f, S) \in Int
  BY SetSumInt
<1> QED BY <1>2, <1>3, <1>4
===========================================================================
