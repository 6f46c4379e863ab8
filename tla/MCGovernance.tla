----------------------------- MODULE MCGovernance -----------------------------
(* Governance on a small instance. *)
EXTENDS Governance, TLC

Symmetry == Permutations(People)
==============================================================================
