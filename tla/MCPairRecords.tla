----------------------------- MODULE MCPairRecords -----------------------------
(* PairRecords on a small instance: a swap at an even price, one at another price that  *)
(* pays a maker fee, and one that is too small to be recorded and has the pair itself   *)
(* as its receiver.                                                                     *)
EXTENDS PairRecords

MCDeposits == {[a \in {0, 1} |-> 3]}
MCSwaps == {[paid |-> 2, dy |-> 2, fee |-> 0, returned |-> 0],
            [paid |-> 3, dy |-> 2, fee |-> 1, returned |-> 0],
            [paid |-> 1, dy |-> 1, fee |-> 0, returned |-> 1]}
==============================================================================
