----------------------------- MODULE PoolLedger ------------------------------
(***************************************************************************)
(* What a liquidity pool promises to its users, with none of the protocol  *)
(* between the pair contract and the DEX module: a trade is an order that  *)
(* is executed in one step or cancelled without a trace, and only between  *)
(* the payer, the pool, the receiver the payer named and the fee           *)
(* collector.                                                              *)
(***************************************************************************)
EXTENDS Coins

CONSTANTS
    NoOrder,       \* no order is open
    MinLiquidity   \* LP coins the first provider locks in the pair

VARIABLES
    bank,      \* coins per account, as of the last completed message
    lpHeld,    \* LP coins held outside the pair
    lpLocked,  \* LP coins held by the pair itself
    order      \* the open order

vars == <<bank, lpHeld, lpLocked, order>>

Supply == lpHeld + lpLocked

Orders ==
    [kind: {"exact_in", "exact_out"}, payer: Users, receiver: Users \cup {Pair},
     offer: Assets, amount: Nat, limit: Nat]

Init ==
    /\ bank = InitBank
    /\ lpHeld = 0
    /\ lpLocked = 0
    /\ order = NoOrder

Place ==
    /\ order = NoOrder
    /\ order' \in Orders
    /\ order'.amount \in 1 .. bank[order'.payer][order'.offer]
    /\ UNCHANGED <<bank, lpHeld, lpLocked>>

\* An exact_in order pays all its amount for at least limit coins; an exact_out order
\* pays at most its amount.
Settle ==
    /\ order # NoOrder
    /\ \E paid \in 1 .. order.amount, got, fee \in 0 .. bank[Pair][Other(order.offer)] :
          /\ order.kind = "exact_in" => paid = order.amount /\ got >= order.limit
          /\ got + fee < bank[Pair][Other(order.offer)]
          /\ bank' = Swapped(bank, order.payer, order.receiver, order.offer, paid, got, fee)
    /\ order' = NoOrder
    /\ UNCHANGED <<lpHeld, lpLocked>>

Cancel ==
    /\ order # NoOrder
    /\ order' = NoOrder
    /\ UNCHANGED <<bank, lpHeld, lpLocked>>

\* The first provider pays both coins and leaves MinLiquidity LP coins to the pair.
Provide ==
    /\ order = NoOrder
    /\ \E u \in Users : \E d0 \in 0 .. bank[u][0], d1 \in 0 .. bank[u][1] :
          /\ Supply = 0 => d0 > 0 /\ d1 > 0
          /\ bank' = Move(Move(bank, u, Pair, 0, d0), u, Pair, 1, d1)
    /\ lpHeld' >= lpHeld
    /\ lpLocked' >= (IF Supply = 0 THEN MinLiquidity ELSE lpLocked)
    /\ lpHeld' + lpLocked' > Supply
    /\ UNCHANGED order

\* Burning n LP coins pays out at most the share n / Supply of each coin.
Withdraw ==
    /\ order = NoOrder
    /\ \E u \in Users, n \in 1 .. lpHeld :
          /\ \E r0 \in 1 .. bank[Pair][0], r1 \in 1 .. bank[Pair][1] :
                /\ r0 * Supply <= bank[Pair][0] * n
                /\ r1 * Supply <= bank[Pair][1] * n
                /\ bank' = Move(Move(bank, Pair, u, 0, r0), Pair, u, 1, r1)
          /\ lpHeld' = lpHeld - n
    /\ UNCHANGED <<lpLocked, order>>

Donate ==
    /\ order = NoOrder
    /\ \/ /\ \E u \in Users, a \in Assets : \E n \in 1 .. bank[u][a] :
                bank' = Move(bank, u, Pair, a, n)
          /\ UNCHANGED <<lpHeld, lpLocked>>
       \/ /\ \E n \in 1 .. lpHeld : lpHeld' = lpHeld - n /\ lpLocked' = lpLocked + n
          /\ UNCHANGED bank
    /\ UNCHANGED order

Next == Place \/ Settle \/ Cancel \/ Provide \/ Withdraw \/ Donate

Spec == Init /\ [][Next]_vars
==============================================================================
