------------------------------- MODULE PclPair -------------------------------
(***************************************************************************)
(* The PCL pair contract and the protocol it runs with the Osmosis DEX     *)
(* module.  A swap sent to the contract is stored in SWAP_PARAMS and       *)
(* bounced through the DEX, which calls the contract back through sudo; a  *)
(* swap sent to the DEX reaches sudo directly.  Every message between two  *)
(* commits is a step of its own, and an error rolls the chain back to the  *)
(* last commit.                                                            *)
(*                                                                         *)
(* The PCL curve (calc_d, compute_swap, get_xcp, price repegging) is       *)
(* library code and enters as a choice: any payout the pool can make, any  *)
(* share.  The calls of the handlers that touch the oracle only            *)
(* (accumulate_swap_sizes, PrecommitObservation) are module Observations.  *)
(***************************************************************************)
EXTENDS Coins

CONSTANTS
    None,          \* an absent Option
    NoOrder,       \* no order is open
    NoCall,        \* the DEX module is not calling the pair
    MinLiquidity,  \* MINIMUM_LIQUIDITY_AMOUNT
    DecimalUnit,   \* 10^18: one, as a Decimal
    Limits,        \* the least outcomes users ask for
    MaxSupply      \* bound on the LP supply

ASSUME MinLiquidityAssumption == MinLiquidity \in Nat \ {0}
ASSUME DecimalUnitAssumption == DecimalUnit \in Nat \ {0}
ASSUME LimitsAssumption == Limits \subseteq Nat
ASSUME MaxSupplyAssumption == MaxSupply \in Nat
ASSUME NoneAssumption == None \notin Accounts

VARIABLES
    bank,        \* the bank balances, in-flight message included
    lpHeld,      \* LP coins outside the pair
    lpLocked,    \* LP coins in the pair's own account
    swapParams,  \* SWAP_PARAMS
    poolIdSet,   \* POOL_ID holds a value
    track,       \* config.track_asset_balances
    balances,    \* BALANCES, the latest values
    registered,  \* the factory knows a pair for these asset_infos
    feeAddress,  \* the factory has a fee_address
    dex,         \* the call the DEX module is making, NoCall between messages
    committed,   \* bank and SWAP_PARAMS as of the last completed message
    order,       \* history: what the user whose message is in flight asked for
    untracked    \* history: coins that reached the pair behind BALANCES' back

vars == <<bank, lpHeld, lpLocked, swapParams, poolIdSet, track, balances,
          registered, feeAddress, dex, committed, order, untracked>>

environment == <<poolIdSet, track, registered, feeAddress>>
lp == <<lpHeld, lpLocked>>

SwapParams == [limit: Nat, sender: Users, to: Users \cup {Pair, None}]
Calls == [call: {"exact_in", "exact_out", "refund"}, sender: Users \cup {Pair},
          offer: Assets, amount: Nat, limit: Nat]
Orders == [kind: {"exact_in", "exact_out"}, payer: Users, receiver: Users \cup {Pair},
           offer: Assets, amount: Nat, limit: Nat]

\* The absent values are told apart from the records they stand in for.
ASSUME AbsentAssumption ==
    /\ None \notin SwapParams
    /\ NoCall \notin Calls
    /\ NoOrder \notin Orders

\* query_supply of the LP denom.
Supply == lpHeld + lpLocked

Idle == dex = NoCall

\* A message completed: its effects become the point a later error rolls back to.
Commit == committed' = [bank |-> bank', swapParams |-> swapParams']

Init ==
    /\ bank = InitBank
    /\ lpHeld = 0
    /\ lpLocked = 0
    /\ swapParams = None
    /\ poolIdSet = FALSE
    /\ track \in BOOLEAN
    /\ balances = [a \in Assets |-> 0]
    /\ registered = FALSE
    /\ feeAddress \in BOOLEAN
    /\ dex = NoCall
    /\ committed = [bank |-> bank, swapParams |-> swapParams]
    /\ order = NoOrder
    /\ untracked = [a \in Assets |-> 0]

----------------------------------------------------------------------------
(* Configuration, by the factory and by the owner *)

SetPoolId ==
    /\ Idle
    /\ ~poolIdSet
    /\ poolIdSet' = TRUE
    /\ UNCHANGED <<bank, lp, swapParams, track, balances, registered, feeAddress,
                   dex, committed, order, untracked>>

\* A reply of the factory registers a pair of these coins, deregister removes it.
FactoryRegisters ==
    /\ Idle
    /\ registered' = ~registered
    /\ UNCHANGED <<bank, lp, swapParams, poolIdSet, track, balances, feeAddress,
                   dex, committed, order, untracked>>

\* The factory's fee_address can be set, never removed.
FactorySetsFeeAddress ==
    /\ Idle
    /\ feeAddress' = TRUE
    /\ UNCHANGED <<bank, lp, swapParams, poolIdSet, track, balances, registered,
                   dex, committed, order, untracked>>

FactoryChanges == FactoryRegisters \/ FactorySetsFeeAddress

EnableAssetBalancesTracking ==
    /\ Idle
    /\ ~track
    /\ track' = TRUE
    /\ balances' = bank[Pair]
    /\ untracked' = [a \in Assets |-> 0]
    /\ UNCHANGED <<bank, lp, swapParams, poolIdSet, registered, feeAddress,
                   dex, committed, order>>

----------------------------------------------------------------------------
(* Liquidity *)

MintLp(receiver, n) ==
    IF receiver = Pair THEN lpHeld' = lpHeld /\ lpLocked' = lpLocked + n
                       ELSE lpHeld' = lpHeld + n /\ lpLocked' = lpLocked

\* The first provider's share of xcp: MinLiquidity of it is minted to the pair for good.
MintFirst_NothingLocked(receiver, xcp) == MintLp(receiver, xcp)
MintFirst(receiver, xcp) ==
    LET share == xcp - MinLiquidity IN
    /\ share > 0
    /\ IF receiver = Pair THEN lpHeld' = lpHeld /\ lpLocked' = lpLocked + MinLiquidity + share
                          ELSE lpHeld' = lpHeld + share /\ lpLocked' = lpLocked + MinLiquidity

\* Initial provide can not be one-sided.
DepositsOk_OneSided(d) == d[0] > 0 \/ d[1] > 0
DepositsOk(d) == Supply = 0 => d[0] > 0 /\ d[1] > 0

ProvideLiquidity(u, d, receiver) ==
    /\ Idle
    /\ registered
    /\ DepositsOk(d)
    /\ bank' = Move(Move(bank, u, Pair, 0, d[0]), u, Pair, 1, d[1])
    /\ \E share \in 1 .. MaxSupply - Supply :
          IF Supply = 0 THEN MintFirst(receiver, share) ELSE MintLp(receiver, share)
    /\ balances' = IF track THEN [a \in Assets |-> bank'[Pair][a]] ELSE balances
    /\ untracked' = [a \in Assets |-> 0]
    /\ UNCHANGED <<swapParams, environment, dex, order>>
    /\ Commit

\* get_share_in_assets(pools, amount - 1, total_share): a Decimal ratio, then the
\* coins it is worth, each rounded down.
RefundAssets_AfterBurn(amount) ==
    [a \in Assets |-> (bank[Pair][a] * (amount - 1)) \div (Supply - amount)]
RefundAssets(amount) ==
    LET ratio == ((amount - 1) * DecimalUnit) \div Supply
    IN  [a \in Assets |-> (bank[Pair][a] * ratio) \div DecimalUnit]

\* The bank refuses to send zero coins, so both refunds are positive.
WithdrawLiquidity(u, amount) ==
    LET refund == RefundAssets(amount) IN
    /\ Idle
    /\ Supply - amount > 0
    /\ \A a \in Assets : refund[a] > 0
    /\ bank' = Move(Move(bank, Pair, u, 0, refund[0]), Pair, u, 1, refund[1])
    /\ lpHeld' = lpHeld - amount
    /\ balances' = IF track THEN [a \in Assets |-> bank[Pair][a] - refund[a]] ELSE balances
    /\ untracked' = [a \in Assets |-> 0]
    /\ UNCHANGED <<lpLocked, swapParams, environment, dex, order>>
    /\ Commit

\* Coins and LP coins can be sent to the contract's account by anyone.
Donate ==
    /\ Idle
    /\ \/ /\ \E u \in Users, a \in Assets : \E n \in 1 .. bank[u][a] :
                /\ bank' = Move(bank, u, Pair, a, n)
                /\ untracked' = [untracked EXCEPT ![a] = @ + n]
          /\ UNCHANGED lp
       \/ /\ \E n \in 1 .. lpHeld : lpHeld' = lpHeld - n /\ lpLocked' = lpLocked + n
          /\ UNCHANGED <<bank, untracked>>
    /\ UNCHANGED <<swapParams, environment, balances, dex, order>>
    /\ Commit

----------------------------------------------------------------------------
(* Swaps *)

\* The user's coins reach the pair and the DEX module is about to call sudo.
Call(kind, sender, o) ==
    /\ Idle
    /\ order' = o
    /\ bank' = Move(bank, o.payer, Pair, o.offer, o.amount)
    /\ dex' = [call |-> kind, sender |-> sender, offer |-> o.offer, amount |-> o.amount,
               limit |-> IF sender = Pair THEN 1 ELSE o.limit]
    /\ UNCHANGED <<lp, environment, balances, committed, untracked>>

\* execute_swap: the DEX is called on behalf of the contract, with min amount out "1".
ExecuteSwap(u, offer, amount, limit, to) ==
    /\ poolIdSet
    /\ swapParams' = [limit |-> limit, sender |-> u, to |-> to]
    /\ Call("exact_in", Pair,
            [kind |-> "exact_in", payer |-> u, receiver |-> IF to = None THEN u ELSE to,
             offer |-> offer, amount |-> amount, limit |-> limit])

\* A user's own MsgSwapExactAmountIn or MsgSwapExactAmountOut to the DEX module.
DexSwap(kind, u, offer, amount, limit) ==
    /\ Call(kind, u, [kind |-> kind, payer |-> u, receiver |-> u,
                      offer |-> offer, amount |-> amount, limit |-> limit])
    /\ UNCHANGED swapParams

\* pools as the swap sees them: without the coins the DEX already sent.
PoolsBefore_NotSubtracted == bank[Pair]
PoolsBefore == [a \in Assets |-> bank[Pair][a] - (IF a = dex.offer THEN dex.amount ELSE 0)]

\* What compute_swap may return, in whole coins: dy to the trader and a maker fee, which
\* is zero without a fee_address.  The curve divides by both reserves, never pays out a
\* whole one, and the bank refuses to send a dy of zero.
CurveOutcomes ==
    LET pool == PoolsBefore[Other(dex.offer)] IN
    {r \in [dy: 1 .. pool - 1, fee: 0 .. pool - 1] :
        /\ \A a \in Assets : PoolsBefore[a] > 0
        /\ r.dy + r.fee < pool
        /\ r.fee > 0 => feeAddress}

\* Pays the trader and the fee collector and records the reserves; taken coins of the
\* offer are consumed.
PayOut(receiver, taken, r) ==
    LET ask == Other(dex.offer) IN
    /\ bank' = Move(Move(bank, Pair, receiver, ask, r.dy), Pair, FeeCollector, ask, r.fee)
    /\ balances' = IF track
                   THEN [a \in Assets |-> IF a = ask THEN PoolsBefore[a] - r.dy - r.fee
                                                     ELSE PoolsBefore[a] + taken]
                   ELSE balances
    /\ untracked' = [a \in Assets |-> IF a = ask /\ receiver = Pair THEN r.dy ELSE 0]

\* The sender, receiver and limit of the swap: SWAP_PARAMS when the contract itself
\* dispatched it, else the DEX's message.
SwapRequest_MessageSender ==
    IF swapParams # None THEN [swapParams EXCEPT !.sender = dex.sender]
    ELSE [limit |-> dex.limit, sender |-> dex.sender, to |-> None]
SwapRequest ==
    IF swapParams # None THEN swapParams
    ELSE [limit |-> dex.limit, sender |-> dex.sender, to |-> None]

\* "Remove params so they won't be used if SwapExactAmountIn is called directly".
SwapParamsAfterSudo_Kept == swapParams
SwapParamsAfterSudo == None

\* Decimal::from_ratio(amount, token_out_min_amount) panics on a zero minimum, and
\* before_swap_check wants two reserves that are not empty.
SudoSwapExactAmountIn ==
    LET request == SwapRequest IN
    /\ dex # NoCall /\ dex.call = "exact_in"
    /\ dex.limit > 0
    /\ \A a \in Assets : PoolsBefore[a] > 0
    /\ \E r \in CurveOutcomes :
          /\ r.dy >= request.limit
          /\ PayOut(IF request.to = None THEN request.sender ELSE request.to, dex.amount, r)
    /\ swapParams' = SwapParamsAfterSudo
    /\ dex' = NoCall
    /\ order' = NoOrder
    /\ Commit
    /\ UNCHANGED <<lp, environment>>

\* The offer_amount compute_offer_amount may ask for, at most token_in_max_amount.
OfferAmounts_Unchecked == 1 .. bank[Pair][dex.offer]
OfferAmounts == 1 .. dex.amount

\* Consumes an offer_amount and leaves the rest to be refunded.  The check that
\* no pool is empty comes before the coins sent in are subtracted.
SudoSwapExactAmountOut ==
    /\ dex # NoCall /\ dex.call = "exact_out"
    /\ dex.limit > 0
    /\ \A a \in Assets : bank[Pair][a] > 0
    /\ \E r \in CurveOutcomes, taken \in OfferAmounts :
          /\ PayOut(dex.sender, taken, r)
          /\ dex' = [dex EXCEPT !.call = "refund", !.amount = @ - taken]
    /\ UNCHANGED <<lp, swapParams, environment, committed, order>>

\* The DEX returns the coins sudo did not consume and the message completes.
DexRefundExcess ==
    /\ dex # NoCall /\ dex.call = "refund"
    /\ bank' = Move(bank, Pair, dex.sender, dex.offer, dex.amount)
    /\ dex' = NoCall
    /\ order' = NoOrder
    /\ UNCHANGED <<lp, swapParams, environment, balances, untracked>>
    /\ Commit

\* sudo returns an error (limit missed, empty pool, library error): the chain rolls back.
Revert ==
    /\ dex # NoCall /\ dex.call # "refund"
    /\ bank' = committed.bank
    /\ swapParams' = committed.swapParams
    /\ dex' = NoCall
    /\ order' = NoOrder
    /\ UNCHANGED <<lp, environment, balances, committed, untracked>>

----------------------------------------------------------------------------

Liquidity(u) ==
    \/ \E d0 \in 0 .. bank[u][0], d1 \in 0 .. bank[u][1], receiver \in {u, Pair} :
          ProvideLiquidity(u, [a \in Assets |-> IF a = 0 THEN d0 ELSE d1], receiver)
    \/ \E amount \in 1 .. lpHeld : WithdrawLiquidity(u, amount)

Swap(u) ==
    \E offer \in Assets, limit \in Limits : \E amount \in 1 .. bank[u][offer] :
       \/ \E to \in Users \cup {Pair, None} : ExecuteSwap(u, offer, amount, limit, to)
       \/ \E kind \in {"exact_in", "exact_out"} : DexSwap(kind, u, offer, amount, limit)

Next ==
    \/ SetPoolId
    \/ FactoryChanges
    \/ EnableAssetBalancesTracking
    \/ Donate
    \/ \E u \in Users : Liquidity(u) \/ Swap(u)
    \/ SudoSwapExactAmountIn
    \/ SudoSwapExactAmountOut
    \/ DexRefundExcess
    \/ Revert

Spec == Init /\ [][Next]_vars

----------------------------------------------------------------------------
(* Properties *)

\* Every variable keeps its type; in particular no account is ever overdrawn and the
\* tracked balances never go below zero.
TypeOK ==
    /\ bank \in Holdings
    /\ lpHeld \in Nat
    /\ lpLocked \in Nat
    /\ swapParams \in SwapParams \cup {None}
    /\ poolIdSet \in BOOLEAN
    /\ track \in BOOLEAN
    /\ balances \in [Assets -> Nat]
    /\ registered \in BOOLEAN
    /\ feeAddress \in BOOLEAN
    /\ dex \in Calls \cup {NoCall}
    /\ committed \in [bank : Holdings, swapParams : {None}]
    /\ order \in Orders \cup {NoOrder}
    /\ untracked \in [Assets -> Nat]

\* Coins of asset a that are in the pair's account only until the current call ends.
InFlight(a) == IF dex # NoCall /\ dex.offer = a THEN dex.amount ELSE 0

\* Coins of asset a that back the LP coins.
Reserve(a) == bank[Pair][a] - InFlight(a)

\* SWAP_PARAMS outlive no message: once the DEX's call has ended, by success or by an
\* error, none are left for the next direct swap to pick up.
SwapParamsConsumed == Idle => swapParams = None

\* With tracking enabled BALANCES plus the donations since the last operation is exactly
\* what the pair holds for liquidity providers, also while an exact-amount-out swap
\* still owes its sender a refund.
TrackedBalancesExact ==
    track => \A a \in Assets : Reserve(a) = balances[a] + untracked[a]

\* Once the pool was provided to, MinLiquidity LP coins stay in the pair's account, so
\* no withdrawal burns the whole supply (withdraw_liquidity divides by what remains).
MinLiquidityLocked == Supply > 0 => lpLocked >= MinLiquidity

\* A pool with LP coins keeps some of both coins whatever is withdrawn and traded: it
\* never reaches the state in which every swap fails with "One of the pools is empty".
ReservesNeverEmpty == Supply > 0 => \A a \in Assets : Reserve(a) > 0

\* A withdrawal never lowers the coins per LP coin of those who stay.
WithdrawNeverDilutes ==
    [][Supply' < Supply =>
          \A a \in Assets : bank'[Pair][a] * Supply >= bank[Pair][a] * Supply']_vars

\* "SwapExactAmountOut swaps as many tokens in as possible for an exact amount of tokens
\* out": the trader gets no more than the amount asked for.
ExactAmountOut ==
    [][dex # NoCall /\ dex.call = "exact_out" /\ dex' # NoCall
          => bank'[dex.sender][Other(dex.offer)] - bank[dex.sender][Other(dex.offer)]
               <= dex.limit]_vars

\* The protocol with the DEX implements one-step orders: seen at message boundaries, a
\* swap moves coins only between its payer, the pool, the receiver the payer named and
\* the fee collector, respects the payer's limit, or leaves no trace.
Ledger == INSTANCE PoolLedger WITH bank <- committed.bank
LedgerSpec == Ledger!Spec

\* The calls and replies of the protocol amount to operations that move the reserves and
\* write BALANCES in one step: whatever the DEX still owes or is owed, whoever receives the
\* payout and whichever message is rolled back, within a block (height 1) the records are
\* those of BalanceHistory.
NeverTracked == [a \in Assets |-> -1]
Records == INSTANCE BalanceHistory WITH
    MaxAmount <- Cardinality(Users) * Endowment,
    MaxHeight <- 1,
    height <- 1,
    reserves <- [a \in Assets |-> Reserve(a)],
    balances <- IF track THEN balances ELSE NeverTracked,
    changelog <- [a \in Assets |-> IF track THEN [h \in {1} |-> -1] ELSE <<>>],
    atStart <- [h \in {1} |-> NeverTracked]
RecordsSpec == Records!Spec
==============================================================================
