------------------------------- MODULE MCMaker -------------------------------
(* Maker on two small instances: many routes, and many collects. *)
EXTENDS Maker

Symmetry == Permutations(People)
==============================================================================
