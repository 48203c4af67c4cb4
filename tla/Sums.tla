------------------------------- MODULE Sums -------------------------------
(***************************************************************************)
(* Sums over tables indexed by 1..n.  The accounting checks of the         *)
(* repository all have the form "add this field up over the orders (or the *)
(* fills) and compare", as in _open_reservation_total of                   *)
(* app/accounting/invariants.py and the fill reconstruction of             *)
(* app/services/reconciliation.py.  The sum is a recursive function, so    *)
(* that TLC can evaluate it and tlapm can reason about it.                 *)
(***************************************************************************)
EXTENDS Integers

\* PrefixSums(f, n)[k] is f[1] + ... + f[k].
PrefixSums(f, n) ==
  LET S[k \in 0..n] == IF k = 0 THEN 0 ELSE S[k-1] + f[k] IN S

\* f[1] + ... + f[n].
SumTo(f, n) == PrefixSums(f, n)[n]

===========================================================================
