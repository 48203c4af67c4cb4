--------------------------- MODULE Reconciliation --------------------------
(***************************************************************************)
(* app/services/reconciliation.py over the paper engine: the verdict of    *)
(* run_paper_reconciliation on the ledger, the halt it sets, the gate the  *)
(* halt puts on new orders, and the operator's way out of it.              *)
(***************************************************************************)
EXTENDS PaperEngine

CONSTANT Tolerance  \* the cash drift that still counts as none (0.05)

ASSUME ToleranceAssumption == Tolerance \in Nat

\* _STATE["healthy"] and not _STATE["halted"], and reconciliation_healthy of the
\* risk engine, which every writer of the one also writes.
VARIABLE healthy

rvars == <<state, mark, count, due, healthy>>

---------------------------------------------------------------------------
(* run_paper_reconciliation *)

HasFills == \E i \in OrderIds : state.orders[i].fillQty > 0

\* No cash overdrawn, no short position, no order with more fills than quantity.
LedgerSane ==
  /\ state.cash >= 0 /\ state.reserved_cash >= 0
  /\ \A s \in Symbols : state.positions[s] >= 0
  /\ \A i \in OrderIds : state.orders[i].fillQty <= state.orders[i].quantity

\* ledger_complete: the fills explain every open position, and do not leave a
\* quantity over in a symbol without one.  A negative rest is not looked for.
LedgerComplete ==
  \A s \in Symbols :
    IF state.positions[s] # 0 THEN NetQuantity(s) = state.positions[s]
                              ELSE NetQuantity(s) <= 0

Abs(n) == IF n < 0 THEN -n ELSE n

\* Mutant of DriftOk: the cash held back by reservations is left out.
DriftOkAvailable ==
  \/ ~HasFills
  \/ ~LedgerComplete
  \/ Abs(Reconstructed - state.cash) <= Tolerance

\* drift_ok: only a complete, non-empty fill list is held against the cash.
DriftOk ==
  \/ ~HasFills
  \/ ~LedgerComplete
  \/ Abs(Reconstructed - (state.cash + state.reserved_cash)) <= Tolerance

Reconcile ==
  /\ due = {}
  /\ healthy' = (LedgerSane /\ DriftOk)
  /\ UNCHANGED vars

\* clear_reconciliation_halt: an operator lifts the halt; the next run may set
\* it again.
ClearHalt ==
  /\ due = {} /\ ~healthy
  /\ healthy' = TRUE
  /\ UNCHANGED vars

---------------------------------------------------------------------------
(* Composition with the engine *)

\* What RiskEngine.evaluate asks of an order here: a healthy reconciliation, a
\* long position to sell from, the cash to buy with.  How much of the position
\* is already promised to other resting orders is not asked.
Approves(req) ==
  /\ healthy
  /\ req.side = "SELL" => state.positions[req.symbol] > 0
  /\ req.side = "BUY" =>
       /\ Or(req.price, mark[req.symbol]) # 0
       /\ req.quantity * Or(req.price, mark[req.symbol]) <= state.cash

\* Only new orders are gated; resting orders, cancels and expiries go on.
Engine ==
  /\ \/ \E req \in Requests : Approves(req) /\ Submit(req)
     \/ \E req \in Requests : SubmitRefused(req)
     \/ \E s \in Symbols, m \in Prices : SetMarkPrice(s, m)
     \/ TriggerResting
     \/ \E i \in OrderIds : Cancel(i)
     \/ \E i \in OrderIds : Expire(i)
  /\ UNCHANGED healthy

RInit == Init /\ healthy = TRUE

RNext == Engine \/ Reconcile \/ ClearHalt

RSpec == RInit /\ [][RNext]_rvars

---------------------------------------------------------------------------
(* Properties *)

\* A ledger whose every fill was applied is never halted, whatever orders rest,
\* hold reservations or have failed: no interleaving makes the reconstruction
\* from fills disagree with available plus reserved cash.
HaltNeedsPhantom == ~healthy => \E i \in OrderIds : Phantom(i)
=============================================================================
