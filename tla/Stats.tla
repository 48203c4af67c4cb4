-------------------------------- MODULE Stats --------------------------------
(***************************************************************************)
(* Exact rationals, sums, and the two statistics that the backtest metrics *)
(* and the performance engine compute alike.  A rational is a pair         *)
(* <<numerator, denominator>> with a positive denominator.                 *)
(***************************************************************************)
EXTENDS Integers, Sequences, FiniteSets, SequencesExt

Less(x, y) == x[1] * y[2] < y[1] * x[2]
AtMost(x, y) == ~ Less(y, x)

\* The sum of values[from..to].
SumFromTo(values, from, to) ==
  LET s[i \in (from - 1)..to] == IF i < from THEN 0 ELSE s[i - 1] + values[i]
  IN  s[to]

SumOf(seq) == SumFromTo(seq, 1, Len(seq))

\* A winning or a losing result; zero is neither.
Counts(p, winning) == IF winning THEN p > 0 ELSE p < 0

\* _max_streak: one pass with the current run and the best one.
MaxStreak(pnls, winning) ==
  LET cur[k \in 0..Len(pnls)] ==
        IF k = 0 THEN 0 ELSE IF Counts(pnls[k], winning) THEN cur[k - 1] + 1 ELSE 0
      best[k \in 0..Len(pnls)] ==
        IF k = 0 THEN 0 ELSE Max({best[k - 1], cur[k]})
  IN  best[Len(pnls)]

\* The larger of two drawdowns, the second of which counts only with a peak above 0.
Deeper(dd, now) == IF now[2] > 0 /\ Less(dd, now) THEN now ELSE dd

\* Mutant of MaxDrawdown: the peak is not moved up.
MaxDrawdownFixedPeak(start, equities) ==
  LET dd[k \in 0..Len(equities)] ==
        IF k = 0 THEN <<0, 1>> ELSE Deeper(dd[k - 1], <<start - equities[k], start>>)
  IN  dd[Len(equities)]

\* max_dd: one pass with the peak so far, which starts at the initial balance.
MaxDrawdown(start, equities) ==
  LET peak[k \in 0..Len(equities)] ==
        IF k = 0 THEN start ELSE Max({peak[k - 1], equities[k]})
      dd[k \in 0..Len(equities)] ==
        IF k = 0 THEN <<0, 1>> ELSE Deeper(dd[k - 1], <<peak[k] - equities[k], peak[k]>>)
  IN  dd[Len(equities)]

\* The longest run of winning or losing results, by definition.
LongestRun(pnls, winning) ==
  Max({0} \cup {ij[2] - ij[1] + 1 : ij \in {ij \in (DOMAIN pnls) \X (DOMAIN pnls) :
                                        \A k \in ij[1]..ij[2] : Counts(pnls[k], winning)}})
=============================================================================
