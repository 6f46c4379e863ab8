------------------------------ MODULE MCFactory ------------------------------
(* Factory on a small instance: three coins, whose keys differ. *)
EXTENDS Factory, TLC

MCDenoms == {<<1>>, <<2>>, <<3>>}
TwoDenoms == {<<1>>, <<2>>}
Symmetry == Permutations(People) \cup Permutations(FeeDenoms)
==============================================================================
