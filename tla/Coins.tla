-------------------------------- MODULE Coins --------------------------------
(***************************************************************************)
(* The part of the chain's bank module that the pair uses: who holds how   *)
(* much of the two coins of the pool, and transfers between accounts.      *)
(* External code (x/bank), modelled from the BankMsg and the balance       *)
(* queries of contracts/pair_concentrated/src.                             *)
(***************************************************************************)
EXTENDS Integers, FiniteSets

CONSTANTS
    Users,         \* accounts that trade and provide liquidity
    Pair,          \* the account of the pair contract
    FeeCollector,  \* the fee_address of the factory
    Endowment      \* coins of each denom every user starts with

ASSUME AccountsAssumption ==
    /\ Pair \notin Users
    /\ FeeCollector \notin Users
    /\ Pair # FeeCollector

ASSUME UsersAssumption == IsFiniteSet(Users)
ASSUME EndowmentAssumption == Endowment \in Nat

Accounts == Users \cup {Pair, FeeCollector}

\* The two entries of pair_info.asset_infos, by index.
Assets == {0, 1}

\* 1 ^ offer_ind in the code.
Other(a) == 1 - a

Holdings == [Accounts -> [Assets -> Nat]]

InitBank == [p \in Accounts |-> [a \in Assets |-> IF p \in Users THEN Endowment ELSE 0]]

\* Bank balances b after n coins a went from one account to another.
Move(b, from, to, a, n) ==
    [p \in Accounts |-> [x \in Assets |->
        b[p][x] - (IF p = from /\ x = a THEN n ELSE 0) + (IF p = to /\ x = a THEN n ELSE 0)]]

\* A swap of paid coins from payer for got coins to receiver, fee to the fee collector.
Swapped(b, payer, receiver, offer, paid, got, fee) ==
    Move(Move(Move(b, payer, Pair, offer, paid),
              Pair, receiver, Other(offer), got),
         Pair, FeeCollector, Other(offer), fee)
==============================================================================
