---------------------------- MODULE BalanceHistory ----------------------------
(***************************************************************************)
(* BALANCES, the snapshot map behind the query AssetBalanceAt.  Every      *)
(* operation of the pair that changes its reserves writes the balances     *)
(* anew with the height of its block, and several operations share a       *)
(* block.                                                                  *)
(*                                                                         *)
(* Messages are steps, as PoolLedger shows they may be.  SnapshotMap is    *)
(* library code, with its strategy EveryBlock: a write keeps what it       *)
(* replaces under its height, unless something is kept there already.      *)
(***************************************************************************)
EXTENDS Integers, FiniteSetsExt

CONSTANTS
    MaxAmount,   \* bound on a reserve
    MaxHeight    \* bound on the block height

VARIABLES
    height,      \* env.block.height
    track,       \* config.track_asset_balances
    reserves,    \* the pair's bank balances
    balances,    \* BALANCES, the latest values
    changelog,   \* BALANCES, per asset: height to the value replaced there
    untracked,   \* history: coins that came in since the contract last wrote BALANCES
    atStart      \* history: the tracked reserves when each block began

vars == <<height, track, reserves, balances, changelog, untracked, atStart>>

\* The two entries of pair_info.asset_infos, by index.
Assets == {0, 1}
Amounts == [Assets -> Nat]

\* An absent value, and the query's null.
NotTracked == -1
Values == Nat \cup {NotTracked}

\* Reserves less what reached the pair behind the contract's back.
TrackedReserves ==
    [a \in Assets |-> IF track THEN reserves[a] - untracked[a] ELSE NotTracked]

\* The pair is instantiated in block 1, by someone's message or by the factory.
Init ==
    /\ height = 1
    /\ track \in BOOLEAN
    /\ reserves = [a \in Assets |-> 0]
    /\ balances = [a \in Assets |-> IF track THEN 0 ELSE NotTracked]
    /\ changelog = [a \in Assets |-> IF track THEN [h \in {1} |-> NotTracked] ELSE <<>>]
    /\ untracked = [a \in Assets |-> 0]
    /\ atStart = [h \in {1} |-> [a \in Assets |-> NotTracked]]

\* changelog of one asset after a write at this height.
Logged(log, old) ==
    [h \in DOMAIN log \cup {height} |-> IF h \in DOMAIN log THEN log[h] ELSE old]

\* BALANCES.save for both assets.
Save(values) ==
    /\ balances' = values
    /\ changelog' = [a \in Assets |-> Logged(changelog[a], balances[a])]

SaveIfTracked(values) == IF track THEN Save(values) ELSE UNCHANGED <<balances, changelog>>

NothingUntracked == untracked' = [a \in Assets |-> 0]

ProvideLiquidity(deposits) ==
    /\ reserves' = [a \in Assets |-> reserves[a] + deposits[a]]
    /\ SaveIfTracked([a \in Assets |-> reserves[a] + deposits[a]])
    /\ NothingUntracked
    /\ UNCHANGED <<height, track, atStart>>

WithdrawLiquidity(refund) ==
    /\ \A a \in Assets : refund[a] <= reserves[a]
    /\ reserves' = [a \in Assets |-> reserves[a] - refund[a]]
    /\ SaveIfTracked([a \in Assets |-> reserves[a] - refund[a]])
    /\ NothingUntracked
    /\ UNCHANGED <<height, track, atStart>>

\* What a swap writes: the pools it saw, with the offer and without payout and maker fee.
SwapBalances_FeeKept(offer, paid, dy, fee) ==
    [a \in Assets |-> IF a = offer THEN reserves[a] + paid ELSE reserves[a] - dy]
SwapBalances_SidesExchanged(offer, paid, dy, fee) ==
    [a \in Assets |-> IF a = offer THEN reserves[a] - dy - fee ELSE reserves[a] + paid]
SwapBalances(offer, paid, dy, fee) ==
    [a \in Assets |-> IF a = offer THEN reserves[a] + paid ELSE reserves[a] - dy - fee]

\* A swap of either kind: paid coins of the offer for dy of the other and a maker fee.
\* Should the pair itself be the receiver, the payout is back in its account.
Swap(offer, paid, dy, fee, returned) ==
    /\ reserves[offer] > 0
    /\ dy + fee < reserves[1 - offer]
    /\ reserves' = [a \in Assets |-> IF a = offer THEN reserves[a] + paid
                                                 ELSE reserves[a] - dy - fee + returned]
    /\ SaveIfTracked(SwapBalances(offer, paid, dy, fee))
    /\ untracked' = [a \in Assets |-> IF a = offer THEN 0 ELSE returned]
    /\ UNCHANGED <<height, track, atStart>>

EnableAssetBalancesTracking ==
    /\ ~track
    /\ track' = TRUE
    /\ Save(reserves)
    /\ NothingUntracked
    /\ UNCHANGED <<height, reserves, atStart>>

\* Coins can be sent to the pair by anyone.
Donate(a, n) ==
    /\ reserves' = [reserves EXCEPT ![a] = @ + n]
    /\ untracked' = [untracked EXCEPT ![a] = @ + n]
    /\ UNCHANGED <<height, track, balances, changelog, atStart>>

NewBlock ==
    /\ height < MaxHeight
    /\ height' = height + 1
    /\ atStart' = [h \in DOMAIN atStart \cup {height'} |->
                      IF h = height' THEN TrackedReserves ELSE atStart[h]]
    /\ UNCHANGED <<track, reserves, balances, changelog, untracked>>

\* No other message touches the reserves or their records.
OtherMessage == UNCHANGED vars

Next ==
    \/ OtherMessage
    \/ \E d \in [Assets -> 0 .. MaxAmount] : ProvideLiquidity(d) \/ WithdrawLiquidity(d)
    \/ \E offer \in Assets, paid, dy \in 1 .. MaxAmount, fee \in 0 .. MaxAmount :
          \E returned \in {0, dy} : Swap(offer, paid, dy, fee, returned)
    \/ EnableAssetBalancesTracking
    \/ \E a \in Assets, n \in 1 .. MaxAmount : Donate(a, n)
    \/ NewBlock

Spec == Init /\ [][Next]_vars

----------------------------------------------------------------------------
(* Properties *)

\* query_asset_balances_at: the value the first write at or after h replaced, else the latest.
AssetBalanceAt(a, h) ==
    LET later == {k \in DOMAIN changelog[a] : h <= k} IN
    IF later = {} THEN balances[a] ELSE changelog[a][Min(later)]

\* Every variable keeps its type; in particular nothing is logged for a block to come.
TypeOK ==
    /\ height \in Nat \ {0}
    /\ track \in BOOLEAN
    /\ reserves \in Amounts
    /\ balances \in [Assets -> Values]
    /\ DOMAIN changelog = Assets
    /\ \A a \in Assets :
          /\ DOMAIN changelog[a] \subseteq 1 .. height
          /\ \A h \in DOMAIN changelog[a] : changelog[a][h] \in Values
    /\ untracked \in Amounts
    /\ DOMAIN atStart = 1 .. height
    /\ \A h \in 1 .. height : atStart[h] \in [Assets -> Values]

\* "The balance of the specified asset that was in the pool just preceding the moment of
\* the specified block height creation", and null "if the balance was not tracked up to
\* the specified block height": for every block so far, and for the next one.  The
\* balance is the one the contract tracks, without coins sent to it by no operation.
HistoryRight ==
    \A a \in Assets :
        /\ \A h \in 1 .. height : AssetBalanceAt(a, h) = atStart[h][a]
        /\ AssetBalanceAt(a, height + 1) = TrackedReserves[a]
==============================================================================
