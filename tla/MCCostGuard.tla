---------------------------- MODULE MCCostGuard ----------------------------
(* Model-checking instance of CostGuard. *)
EXTENDS CostGuard, TLC

\* Callers are interchangeable: sound for the safety runs, not used where
\* liveness is checked.
CallerSymmetry == Permutations(Callers)
=============================================================================
