------------------------------ MODULE MCPclPair ------------------------------
(* PclPair on a small instance. *)
EXTENDS PclPair, TLC

Traders == Permutations(Users)
==============================================================================
