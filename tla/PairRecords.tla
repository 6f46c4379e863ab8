----------------------------- MODULE PairRecords ------------------------------
(***************************************************************************)
(* What a pair writes down for later readers, block after block: price     *)
(* observations by the second and balances by the height.  A swap writes   *)
(* both, the other operations the balances only.  A block has any number   *)
(* of operations and a second any number of blocks.                        *)
(***************************************************************************)
EXTENDS PriceObservation, Sequences

CONSTANTS
    MinTrade,      \* MIN_TRADE_SIZE
    Deposits,      \* coins of both assets that are provided or withdrawn
    Swaps,         \* coins paid, received, maker fee, and received by the pair itself, of a swap
    MaxAmount,     \* bound on a reserve
    MaxHeight,     \* bound on the block height
    MaxPerSecond,  \* bound on the recorded trades of a second
    MaxTime,       \* bound on the time
    MaxOperations  \* bound on the number of operations

ASSUME BoundsAssumption ==
    /\ MaxAmount \in Nat \ {0}
    /\ Deposits \subseteq [{0, 1} -> 0 .. MaxAmount]
    /\ Swaps \subseteq [paid: 1 .. MaxAmount, dy: 1 .. MaxAmount, fee: 0 .. MaxAmount,
                       returned: 0 .. MaxAmount]
    /\ \A s \in Swaps : s.returned \in {0, s.dy}

VARIABLES
    now, ring, head, precommit, traded, lastSwap,
    height, track, reserves, balances, changelog, untracked, atStart,
    operations     \* number of operations so far, to bound it

Oracle == INSTANCE Observations WITH MaxVolume <- MaxAmount
History == INSTANCE BalanceHistory

oracle == <<now, ring, head, precommit, traded, lastSwap>>
history == <<height, track, reserves, balances, changelog, untracked, atStart>>
vars == <<oracle, history, operations>>

Assets == {0, 1}

Init == Oracle!Init /\ History!Init /\ operations = 0

\* The base is the first asset, whichever side of the trade it is; small trades are
\* not recorded.
TradeOf(offer, paid, dy) ==
    IF paid < MinTrade \/ dy < MinTrade THEN None
    ELSE IF offer = 0 THEN [base |-> paid, quote |-> dy] ELSE [base |-> dy, quote |-> paid]

Bounded ==
    /\ \A a \in Assets : reserves'[a] <= MaxAmount
    /\ operations < MaxOperations
    /\ operations' = operations + 1

Swap(offer, paid, dy, fee, returned) ==
    /\ History!Swap(offer, paid, dy, fee, returned)
    /\ Oracle!Swap(TradeOf(offer, paid, dy))
    /\ Bounded

Liquidity(d) ==
    /\ History!ProvideLiquidity(d) \/ History!WithdrawLiquidity(d)
    /\ Bounded
    /\ UNCHANGED oracle

Donate(a, n) == History!Donate(a, n) /\ Bounded /\ UNCHANGED oracle

EnableAssetBalancesTracking ==
    History!EnableAssetBalancesTracking /\ UNCHANGED <<oracle, operations>>

\* The next block is in the same second or in a later one.
NewBlock == History!NewBlock /\ (Oracle!Tick \/ UNCHANGED oracle) /\ UNCHANGED operations

Next ==
    \/ \E offer \in Assets, s \in Swaps : Swap(offer, s.paid, s.dy, s.fee, s.returned)
    \/ \E d \in Deposits : Liquidity(d)
    \/ \E a \in Assets : Donate(a, 1)
    \/ EnableAssetBalancesTracking
    \/ NewBlock

Spec == Init /\ [][Next]_vars

----------------------------------------------------------------------------
(* Properties *)

\* Both records keep their types: no observation is from the future and nothing is logged for a
\* block to come.
TypeOK == Oracle!TypeOK /\ History!TypeOK /\ operations \in Nat

\* A second with recorded trades has its observation after the first swap of a later second.
SecondsObserved == Oracle!SecondsObserved

\* price_sma is the mean of the prices in the buffer, but for less than a DecimalUnit-th for
\* each second with trades.
SmaNearMean == Oracle!SmaNearMean

\* Rounding never makes the average of a precommit that is due negative, which would fail this
\* and every later swap.
AverageNeverRefused == Oracle!AverageNeverRefused

\* The circular buffer implements a window of the latest seconds with trades.
WindowSpec == Oracle!WindowSpec

\* AssetBalanceAt answers with the balance at the beginning of the block asked for,
\* however many operations the block has and whenever tracking was enabled.
HistoryRight == History!HistoryRight
==============================================================================
