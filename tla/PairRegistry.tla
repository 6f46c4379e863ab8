----------------------------- MODULE PairRegistry -----------------------------
(***************************************************************************)
(* What the factory promises about its registry, with none of the steps of *)
(* CreatePair: a pair contract is created and registered at once, as the   *)
(* only one of its market, or is created by someone else and never         *)
(* registered; a registered pair can be removed and never comes back.      *)
(***************************************************************************)
EXTENDS Integers, Sequences

CONSTANTS
    Markets,   \* what pairs are registered under: the coins they trade
    MaxPools   \* bound on the number of pair contracts

VARIABLES
    registry,  \* the registered pair of each market that has one
    contracts  \* all pair contracts: their market, and whether the factory made them

vars == <<registry, contracts>>

Registered == DOMAIN registry

Init == registry = <<>> /\ contracts = <<>>

NewContract(m, official) ==
    /\ Len(contracts) < MaxPools
    /\ contracts' = Append(contracts, [market |-> m, official |-> official])

Register(m) ==
    /\ m \notin Registered
    /\ NewContract(m, TRUE)
    /\ registry' = [k \in Registered \cup {m} |->
                       IF k = m THEN Len(contracts) + 1 ELSE registry[k]]

Deregister(m) ==
    /\ m \in Registered
    /\ registry' = [k \in Registered \ {m} |-> registry[k]]
    /\ UNCHANGED contracts

Instantiate(m) == NewContract(m, FALSE) /\ UNCHANGED registry

Next == \E m \in Markets : Register(m) \/ Deregister(m) \/ Instantiate(m)

Spec == Init /\ [][Next]_vars
==============================================================================
