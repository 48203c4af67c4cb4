--------------------------- MODULE MCControlPlane --------------------------
(***************************************************************************)
(* Instances of ControlPlane for TLC.  The requests are interchangeable.   *)
(***************************************************************************)
EXTENDS ControlPlane, TLC

Symmetry == Permutations(Actors)

===========================================================================
