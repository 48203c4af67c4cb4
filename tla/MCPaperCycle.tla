---------------------------- MODULE MCPaperCycle ---------------------------
(***************************************************************************)
(* Instances of PaperCycle for TLC.  The cycles are interchangeable.       *)
(***************************************************************************)
EXTENDS PaperCycle, TLC

\* Prices that differ, so that a fill too many shows in the cash.
MCPrice == [t \in Candles |-> 2 * t + 1]

\* Every verdict on every candle.
MCAnySignal == [Candles -> Directions]

\* An entry, then an exit: the position is flat again, and a late replay of
\* the first candle would enter once more.  And the other way round.
MCRoundTrip ==
  {[t \in Candles |-> IF t % 2 = r THEN "BUY" ELSE "EXIT"] : r \in 0..1}

Symmetry == Permutations(Cycles)

===========================================================================
