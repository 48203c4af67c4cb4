----------------------------- MODULE MCBacktest -----------------------------
EXTENDS Backtest

\* A quiet candle, a rise, a fall, a wide one that touches stop and target,
\* and a busy rise.
MCBars == {[high |-> 20, low |-> 20, close |-> 20, volume |-> 1],
           [high |-> 26, low |-> 20, close |-> 24, volume |-> 2],
           [high |-> 20, low |-> 14, close |-> 16, volume |-> 1],
           [high |-> 40, low |-> 10, close |-> 22, volume |-> 1],
           [high |-> 28, low |-> 22, close |-> 26, volume |-> 3]}
=============================================================================
