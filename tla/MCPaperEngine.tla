--------------------------- MODULE MCPaperEngine ---------------------------
(***************************************************************************)
(* The instance of PaperEngine for TLC.  One symbol, marks 10 and 20, and  *)
(* rates large enough to show in ticks of one: a fee of 10 per cent and a  *)
(* price impact of 10 per cent.  Half of what is left fills at a time.     *)
(***************************************************************************)
EXTENDS PaperEngine

Req(side, type, quantity, price) ==
  [symbol |-> "s", side |-> side, type |-> type, quantity |-> quantity,
   price |-> price, stop_loss |-> 0, take_profit |-> 0]

\* Every order type on both sides; prices that cross at once, that rest, and that
\* are missing; orders large enough to fill in three parts and leave a rest that
\* no longer fills, next to orders that sell part of what has been bought so far.
MCRequests ==
  {Req("BUY", "LIMIT", 4, price) : price \in {10, 20}}
  \cup {Req("BUY", "STOP_LOSS", 2, 20), Req("BUY", "MARKET", 4, 0),
        Req("BUY", "TAKE_PROFIT", 4, 10), Req("BUY", "LIMIT", 2, 0),
        Req("BUY", "STOP_LOSS", 2, 0),
        Req("SELL", "LIMIT", 2, 20), Req("SELL", "STOP_LOSS", 4, 10),
        Req("SELL", "MARKET", 2, 0), Req("SELL", "MARKET", 1, 0),
        [Req("BUY", "STOP_LOSS", 2, 0) EXCEPT !.stop_loss = 10],
        [Req("SELL", "TAKE_PROFIT", 2, 0) EXCEPT !.take_profit = 20]}

===========================================================================
