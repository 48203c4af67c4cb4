-------------------------- MODULE MCReconciliation -------------------------
(***************************************************************************)
(* The instance of Reconciliation for TLC: the market of MCPaperEngine,    *)
(* orders filled whole, and orders of every type that compete for the same *)
(* position and for the same cash.                                         *)
(***************************************************************************)
EXTENDS Reconciliation

Req(side, type, price) ==
  [symbol |-> "s", side |-> side, type |-> type, quantity |-> 2,
   price |-> price, stop_loss |-> 0, take_profit |-> 0]

MCRequests ==
  {Req("BUY", "MARKET", 0), Req("BUY", "LIMIT", 10), Req("BUY", "STOP_LOSS", 20),
   Req("SELL", "MARKET", 0), Req("SELL", "LIMIT", 20), Req("SELL", "STOP_LOSS", 10),
   Req("BUY", "TAKE_PROFIT", 0), Req("SELL", "TAKE_PROFIT", 20)}

===========================================================================
