----------------------------- MODULE MCRiskGate -----------------------------
(***************************************************************************)
(* An instance of RiskGate for TLC: two symbols, two prices, one           *)
(* orchestrator, and the environments that make a difference: paper, a     *)
(* typo, live with everything set, an explicit runtime mode, and cooldowns *)
(* within the window and beyond it.  The tickets are a market buy with a   *)
(* price of its own, and a limit buy and a stop sell that may rest, each   *)
(* with a stop loss.                                                       *)
(***************************************************************************)
EXTENDS RiskGate, TLC

Env(mode, live, env, runtime, cli, cooldown) ==
  [mode |-> mode, live |-> live, env |-> env, runtime |-> runtime, keys |-> TRUE, cli |-> cli,
   cooldown |-> cooldown, leverage |-> 1]

MCEnvironments ==
  {Env("paper", FALSE, "paper", "", FALSE, 0), Env("Papr", FALSE, "true", "", FALSE, 3),
   Env("live", TRUE, "live", "", FALSE, 0), Env("paper", FALSE, "paper", "LIVE", FALSE, 0),
   Env("live", TRUE, "live", "", TRUE, 0), Env("paper", FALSE, "backtest", "nonsense", FALSE, 1),
   [Env("paper", FALSE, "paper", "", FALSE, 0) EXCEPT !.leverage = 2]}

Ticket(side, type, units) ==
  [side |-> side, type |-> type, qty |-> units, price |-> 1000, stop |-> 500, target |-> 0]

MCTickets ==
  {Ticket("BUY", "MARKET", 3), Ticket("BUY", "LIMIT", 3), Ticket("SELL", "STOP_LOSS", 1)}

\* No definition tells the symbols apart.
MCSymmetry == Permutations(Symbols)
=============================================================================
