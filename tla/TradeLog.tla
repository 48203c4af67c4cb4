------------------------------ MODULE TradeLog ------------------------------
(***************************************************************************)
(* What the trading cycles promise of one symbol, without cycles, locks or *)
(* keys: a log of trades, each on a later candle than the one before, in   *)
(* which entries and exits take turns, and an account that the log         *)
(* explains.  Module PaperCycle implements it as long as the process lives.*)
(***************************************************************************)
EXTENDS Integers, Sequences

CONSTANTS Candles, Price, Cash0

VARIABLES cash, pos, fills

avars == <<cash, pos, fills>>

ALast == IF fills = <<>> THEN 0 ELSE fills[Len(fills)].candle

AInit == cash = Cash0 /\ pos = 0 /\ fills = <<>>

Enter(t) ==
  /\ pos = 0 /\ ALast < t
  /\ cash' = cash - Price[t] /\ pos' = 1
  /\ fills' = Append(fills, [candle |-> t, side |-> "BUY"])

Exit(t) ==
  /\ pos = 1 /\ ALast < t
  /\ cash' = cash + Price[t] /\ pos' = 0
  /\ fills' = Append(fills, [candle |-> t, side |-> "SELL"])

ANext == \E t \in Candles : Enter(t) \/ Exit(t)

ASpec == AInit /\ [][ANext]_avars
=============================================================================
