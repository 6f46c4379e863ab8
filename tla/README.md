# Verification of Astroport on Osmosis

TLA+ modules, TLC configurations and TLAPS proofs about the contracts of this
repository: the concentrated liquidity pair that runs as a CosmWasm pool of the
Osmosis DEX, the factory that creates pairs, and the maker that sells their fees.

## The system

| component | state it keeps | operations | talks to |
|---|---|---|---|
| pair (`contracts/pair_concentrated`) | `CONFIG` (pool parameters and state, owner, tracking flag), `SWAP_PARAMS`, `POOL_ID`, `BALANCES` (snapshot map), `OBSERVATIONS` (circular buffer) and a precommit observation, `OWNERSHIP_PROPOSAL` | instantiate and its reply (LP denom), `SetPoolId`, `ProvideLiquidity`, `WithdrawLiquidity`, `Swap`, `UpdateConfig`, ownership; sudo `SwapExactAmountIn`, `SwapExactAmountOut` | the DEX module (dispatches swaps to it, is called back through sudo), bank and token factory (coins, LP coins), the factory (registered pairs, fee address, owner) |
| factory (`contracts/factory`) | `CONFIG`, `PAIR_CONFIGS`, `PAIRS`, `TMP_PAIR_INFO`, `OWNERSHIP_PROPOSAL` | `CreatePair` with two replies, `UpdateConfig`, `UpdatePairConfig`, `Deregister`, ownership | the DEX module (creates the pool and instantiates the pair), the pairs (`SetPoolId`) |
| maker (`contracts/maker`) | `CONFIG`, `ROUTES`, `LAST_COLLECT_TS`, ownership proposal | `Collect` with a reply per collect, `UpdateConfig`, `SetPoolRoutes`, ownership | the DEX module (spot prices, swaps), bank |
| messages (`packages/astroport_on_osmosis`) | none | types of the messages | |

External to the repository and modelled only as far as the code relies on it: the
DEX module (`x/poolmanager`, `x/cosmwasmpool`), bank, token factory, the PCL
curve (`astroport_pcl_common`), the circular buffer, `cw-storage-plus`.

A swap has two entrances. A user may call the pair's `Swap`: the pair stores what the
user asked for in `SWAP_PARAMS` and sends `MsgSwapExactAmountIn` to the DEX in its own
name, with a minimum of 1; the DEX calls `sudo` of the same contract, which finds the
parameters in its storage. Or a user sends `MsgSwapExactAmountIn` or
`MsgSwapExactAmountOut` to the DEX, which calls `sudo` with the user as sender. In
both cases the coins reach the pair before sudo runs. For an exact amount out the DEX
sends the maximum, and takes back what sudo did not consume after sudo returned. An
error anywhere rolls the whole message back.

### What is hard

* State handed over through storage and bank balances between two entry points of
  one contract: `SWAP_PARAMS`, the coins of the swap in flight, the excess that the DEX
  refunds after the handler has written `BALANCES`.
* Balances the contract does not control: anyone can send coins or LP coins to it.
* Errors between the steps of a message, and the rollback.
* Rounding: shares, refunds, limits; the first provide, the last withdrawal.
* Several actions in one block, for the price observations and the balance snapshots.
* The factory's replies, and pairs that are deregistered and replaced.
* The maker's routes, which share steps, and its cooldown.

### What makes each component correct

* Pair: every swap moves coins only between its payer, the pool, the receiver the
  payer named and the fee collector, within the payer's limit, or leaves no trace;
  `SWAP_PARAMS` are gone after every message; `BALANCES` are the reserves; the locked
  liquidity stays locked; reserves never run out; a withdrawal does not dilute others;
  observations are in order of time and every second with trades gets one; the moving average
  is that of the prices kept; `AssetBalanceAt` answers for a block boundary.
* Factory: one pair per pair of coins, no registered pair without an address, a reply
  completes the `CreatePair` that caused it; the steps of `CreatePair` are one registration.
* Maker: new routes cut no coin off from ASTRO, a collect is at least a cooldown after the
  one before, it is all or nothing and forwards every ASTRO.
* Ownership: only the proposed owner, in time, becomes owner, and only on a proposal of who has
  the say now.

## Modules

| module | what it is |
|---|---|
| `Coins` | the bank: accounts, the two coins of the pool, transfers |
| `PclPair` | the pair contract with the DEX module as its environment |
| `PoolLedger` | the abstract specification: orders that are settled or cancelled in one step |
| `PclPairProofs` | theorems about `PclPair`, among them that it implements `PoolLedger` and `BalanceHistory` |
| `MCPclPair` | `PclPair` on a small instance, with `MCPclPair.cfg`, `MCPclPairShares.cfg`, `PclPairExactOut.cfg` |
| `Factory` | the factory's registry, with the DEX creating pools for it and around it |
| `FactoryProofs` | theorems about `Factory` and their proofs |
| `MCFactory` | `Factory` on a small instance, with `MCFactory.cfg`, `FactoryFree.cfg` |
| `PairRegistry` | the abstract specification of the factory's registry: registration in one step |
| `Sums` | lemmas about sums over finite sets |
| `PriceObservation` | vocabulary of the oracle: observations, Decimals, the averages of the library |
| `Observations` | the pair's price oracle: precommit observation and circular buffer |
| `PriceWindow` | the abstract specification of the oracle: the latest seconds with trades, no buffer |
| `ObservationsProofs` | theorems about `Observations` and their proofs |
| `MCObservations` | `Observations` on a small instance, with `PairOracle.cfg` |
| `BalanceHistory` | `BALANCES`, the snapshot map, and `AssetBalanceAt` |
| `BalanceHistoryProofs` | theorems about `BalanceHistory` and their proofs |
| `PairRecords` | `Observations` and `BalanceHistory` composed: what a pair writes down, block by block |
| `PairRecordsProofs` | what is proved about the two, for the composition |
| `MCPairRecords` | `PairRecords` on a small instance, with `MCPairRecords.cfg` |
| `Governance` | the owners of the factory and its pairs, and which pairs take deposits |
| `GovernanceProofs` | theorems about `Governance` and their proofs |
| `MCGovernance` | `Governance` on small instances, with `MCGovernance.cfg`, `PairUnregistered.cfg` |
| `Maker` | the maker, with the DEX swapping what it collects |
| `MakerProofs` | theorems about `Maker` and their proofs |
| `MCMaker` | `Maker` on small instances, with `MCMakerRoutes.cfg`, `MCMakerCollect.cfg`, `MakerCooldown.cfg` |

### PclPair

One action per handler of the pair, and one per thing its environment does:

| action | code |
|---|---|
| `SetPoolId`, `EnableAssetBalancesTracking` | `set_pool_id`, that arm of `update_config` |
| `ProvideLiquidity`, `WithdrawLiquidity` | the handlers of the same names, with the mint and burn messages they send |
| `ExecuteSwap` | `execute_swap` up to the DEX's call of sudo |
| `SudoSwapExactAmountIn` | sudo with `internal_swap` |
| `SudoSwapExactAmountOut` | `swap_exact_amount_out` |
| `DexSwap`, `DexRefundExcess` | the DEX: a user's own swap before sudo, the refund after it |
| `Revert` | an error in sudo and the rollback of the message |
| `Donate` | bank sends to the pair |
| `FactoryChanges` | the factory's `reply` and `deregister` (`FactoryRegisters`) and its `execute_update_config` (`FactorySetsFeeAddress`), as far as the pair sees them |

Variables: `swapParams`, `poolIdSet`, `track`, `balances` are the contract's storage
(`SWAP_PARAMS`, `POOL_ID`, `track_asset_balances`, the latest `BALANCES`); `bank`,
`lpHeld`, `lpLocked` the bank module; `registered`, `feeAddress` what the pair reads of
the factory; `dex` the call in progress; `committed` the rollback point. `order` and
`untracked` are history: what the user in whose message we are asked for, and the coins
that reached the pair since the contract last wrote `BALANCES`. No action's guard reads
them.

Abstractions. An LP holder is anyone outside the pair: `lpHeld` is a total, since any
holder may withdraw. The PCL curve (`compute_swap`, `compute_offer_amount`, `calc_d`)
is a choice: any positive payout and maker fee that leave something in the pool
(`CurveOutcomes`), any positive LP share for a later provide; a curve error is `Revert`.
The pair of `belief_price` and `max_spread` is the least outcome it accepts (`limit`);
for a swap sent to the DEX that is its minimum, which the DEX enforces. The rounding of
`assert_max_spread` is therefore not in this module. A sudo that panics because the
minimum is zero is a `Revert`. The oracle's part of the handlers and the history of `BALANCES`
are in `PairRecords`; the update of the internal price is left out. Nothing of either is read
by what is modelled here.

Between `Call` and the end of the message only `dex`'s own steps are enabled: a block
executes its messages one after another, so two messages never interleave, but the
steps inside a message do meet every state the messages before left.

### PoolLedger

What the pair promises, without the DEX in between: `Place` an order, then `Settle` it
or `Cancel` it, each in one step; `Provide`, `Withdraw`, `Donate`. `PclPair` implements it
with the bank of the last completed message as `bank` (`Ledger`, `LedgerSpec`). What the pair
promises about its own records is `BalanceHistory`, which it implements as well (below).

### Factory

`CreatePair` is one message in which four parties act one after another, so it is one
action per step, and `message` says which step comes next:

| action | code |
|---|---|
| `CreatePair` | `execute_create_pair`, up to the message to the DEX |
| `DexCreatesPool` | the DEX: charges the fee, instantiates the pair |
| `ReplyRegisters` | `reply` with `INSTANTIATE_PAIR_REPLY_ID` |
| `SetPoolId`, `ReplySetPoolIdFailed` | the pair's `set_pool_id`; `reply` with `SET_POOL_ID_FAILED_REPLY_ID` |
| `Rollback` | an error of any other step: storage, pools and payment are as before |
| `UpdateConfig`, `UpdatePairConfig`, `Deregister` | the handlers |
| `OwnerChanges` | `ClaimOwnership`, as one step |
| `UserCreatesPool` | a pool with a pair contract that was created without the factory |
| `Donate`, `ParamsChange` | bank sends to the factory; new pool creation fees |

Variables: `owner` and `generator` are fields of `CONFIG`; `pairConfigs`, `pairs`,
`tmpPairKey` are `PAIR_CONFIGS`, `PAIRS`, `TMP_PAIR_INFO`; `pools` are the DEX's pools with
what matters of their contracts (`POOL_ID` among it); `creationFee` and `purse` belong to
the poolmanager and the bank; `inactive` collects the `DeactivatePool` messages to the
generator, which `Deregister` sends; no property is about it or `generator`. A pair is named by its pool's id instead of its address, which lets a property say
"its own pool id".

Abstractions. A denom is a sequence of bytes because `pair_key` sorts and concatenates
bytes. Without params of the poolmanager the code has an empty list of fees, which `Fees` therefore
leaves out: both are `None`. The factory accepts one or three assets, which the pair's `instantiate` then
refuses; here there are two. A code in `Supporting` is a pair binary whose pinned
`FACTORY_ADDRESS` is this factory. The fees of a pair type, `fee_address` and
`coin_registry_address` are not read by the registry and left out, as is the validation of
fees in `UpdatePairConfig`. That the denoms exist (`query_supply`) is taken for granted.

`pair_key` is not injective: the coins `1`, `23` and `12`, `3` have one key. `RegistryFaithful`
therefore says that a pair is registered under the key of its coins; that a lookup finds
the pair of the coins asked for follows only when keys differ, as they do in the runs. Whether
denoms of the chain can collide is a question about the names the token factory and IBC give,
which are not in this repository.

### PairRegistry

What `CreatePair` promises to everyone else: `Register` a new contract as the only pair of its
market, `Deregister` one, or somebody else `Instantiate`s a contract that is never registered,
each in one step. `Factory` implements it (`Registry`, `RegistrySpec`): its state is the registry
and the pools of the last completed message (`CommittedPairs`, `CommittedPools`), and the
registry is seen as a client of the factory sees it, through a lookup by coins in whichever order
(`Lookup`). `Governance` builds on `PairRegistry` instead of `Factory`, which is sound because of
that refinement.

### Observations and PriceWindow

| action | code |
|---|---|
| `Swap` | `accumulate_swap_sizes`, then `PrecommitObservation::save` if both sides reach `MIN_TRADE_SIZE`; the oracle's part of `internal_swap` and of `swap_exact_amount_out`, which agree on it |
| `Tick` | the next second |

Variables: `ring` and `head` are the slots and the head of `OBSERVATIONS`, `precommit` is the
precommit observation. `traded` (the volumes of each second after each of its trades) and
`lastSwap` are history; only the bound on the trades of a second (`MaxPerSecond`) reads them.

The first swap of a second turns the precommit of an earlier second into an observation; its
price is that of the volumes of the whole second. There is an exception in the code,
`utils.rs:59`: once the buffer has an observation, a precommit is pushed by the next swap even
in its own second, and the trades of that second that follow do not reach its observation.
`Observations` models what the code does, and `pair_oracle` shows the consequence.

The circular buffer and the rolling averages are library code (`astroport_circular_buffer`,
`astroport::observation`) and modelled from their use: the head is the slot written last, at
first 0, so the first write goes to slot 1 and the slot after the head holds the oldest
observation as soon as all slots are filled. While they are not, the head is the number of
observations the average counts. A `Decimal` is a number of `DecimalUnit`-ths, and ratios
round down. An average that would be negative is an error of the unsigned arithmetic, which would
fail that swap and every later one, since the precommit stays as it is: a guard of
`AccumulateSwapSizes`. `AverageNeverRefused` says that rounding alone never disables a swap by it. It
needs prices of no less than one unit (10^-18 in the code) for each second with trades, and the code
itself has no such floor.

`PriceWindow` is what a reader of the oracle relies on and knows neither slots nor precommits: each
second with trades gets one observation, in order of time, at a price its trades had reached,
and the latest `Capacity` of them are kept. It leaves open when within the allowed steps an
observation is made. `Observations` implements it (`WindowSpec`); `SecondsObserved` adds by when.

### BalanceHistory

| action | code |
|---|---|
| `ProvideLiquidity`, `WithdrawLiquidity`, `Swap` | what these handlers do to the reserves, and their write of `BALANCES` |
| `EnableAssetBalancesTracking` | that arm of `update_config` |
| `Donate` | coins that reach the pair without any operation |
| `NewBlock` | the next height |
| `OtherMessage` | all that leaves the reserves and `BALANCES` alone |

Messages are steps here. That this is sound, although a swap is several steps that meet a
refund, an error or coins of its own in the account, is a refinement: within a block (heights stay
at 1) `PclPair` implements `BalanceHistory` (`Records`, `RecordsSpec`), with the coins that back
the LP coins (`Reserve`: the pair's account without what is in flight) for `reserves`, and for
`changelog` the one entry a block can have. An exact-amount-out swap is the history's `Swap` when
sudo returns, before the DEX takes back the excess; a call, that refund and a rollback are
`OtherMessage`. The refinement is also why `Swap` has a parameter `returned`: the receiver of a
swap may be the pair itself, and then the payout is written off in `BALANCES` and stays in the
account, untracked until the next operation.

`balances` and `changelog` are the two maps of the `SnapshotMap` with strategy `EveryBlock`: a
write keeps the value it replaces under the height of its block, but only the first write of a
block does (`Logged`). `AssetBalanceAt` is the query's lookup: the earliest entry at or after
the height asked for, else the latest value. `atStart` and `untracked` are history: the tracked
reserves when each block began, and what came in since the last write behind its back.

`HistoryRight` is stated for the balance the contract tracks. A donation changes the bank balance
and not `BALANCES`, so between a donation and the next operation the answer is less than the
bank balance of that block; the query's documentation ("the balance of the specified asset that
was in the pool", `packages/astroport_on_osmosis/src/pair_pcl.rs:120`) can be read either way.
`WithdrawLiquidity` is enabled for any refund the reserves have, and `Swap` for any
payout and fee that leave something: what the amounts are is the business of `PclPair`.

### PairRecords

`Observations` and `BalanceHistory` side by side, joined by the operations: a swap is a
step of both, the others of the balances only, and a block (`NewBlock`) may be in the same second
as the one before. `TradeOf` turns the swap's payment and payout into the volumes of the
oracle, base and quote being the two assets whichever way the swap goes, and nothing when one is
too small. The records are composed because they are written by the same handlers, in the same
order, with different clocks: heights for one, seconds for the other.

### Governance

`Factory = 0` and the pairs by number are contracts with an owner (`Ownables`).

| action | code |
|---|---|
| `ProposeNewOwner`, `DropOwnershipProposal`, `ClaimOwnership` | those arms of `execute` in the factory and in the pair (the maker's are the factory's), with `astroport::common` |
| `CreatePair`, `Deregister`, `UserCreatesPool` | one-step messages of `PairRegistry` |
| `ProvideLiquidity` | `check_pair_registered` and a deposit |
| `Tick` | the time that proposals are limited by |

A pair is instantiated without an owner, and then the owner of the factory has its say
(`Authority`), at the time of each call. So one proposal of a pair may be made by the owner
of the factory, who hands the factory over before it is claimed; another by a pair's own owner.
`mandate` is history: the last proposal for a contract as it was made (by whom, for whom, when and
for how long), unless withdrawn. It outlives the claim, so that a second claim on a used mandate
would be noticed, and `OwnershipMandated` measures each claim by it: the claimer is the one proposed
last, in the time his proposal was given and `MaxTtl` at most. `OwnershipMandated` does not
exclude that a proposal of the factory's former owner is claimed for a pair that has none: the
code allows it, and whoever takes over can drop it.

### Maker

| action | code |
|---|---|
| `Collect` | `collect`: cooldown, routes, one swap message per coin |
| `DexSwap` | the DEX: one of these swaps |
| `ReplyForwards` | `reply` with `POST_COLLECT_REPLY_ID` |
| `Rollback` | a swap or the satellite failed: purse and `LAST_COLLECT_TS` are as before |
| `SetPoolRoutes`, `UpdateConfig` | the handlers |
| `OwnerChanges` | `ClaimOwnership`, as one step |
| `Tick`, `Deposit` | block time; fees, or anyone's coins, reach the maker |

Variables: `owner`, `astro`, `cooldown` are fields of `CONFIG`; `routes` and `lastTs` are `ROUTES`
and `LAST_COLLECT_TS`; `purse` is the maker's account. `message` holds the swaps left of the
collect in progress and what an error restores. `lastDone` and `wanted` are history: when the
last collect completed, and the cooldown that was asked for last.

Abstractions. A route step is the next coin; its pool id only selects a pool of the DEX that
holds both coins, so it is a condition on `Pools` and not stored. `Follow` stays where it is
at a coin without a route, where the code returns an error: neither reaches ASTRO. The spot
price, `max_spread` and the DEX's minimum only decide whether a swap fails, so a swap has any
positive proceeds or there is a `Rollback`. A pool on the way may pay the maker its fee for
that very swap, in the coin it gives out. `Cooldowns` are the values that pass
`validate_cooldown`. The satellite's address is not kept.

`SetPoolRoutes` checks the coins it has routes for and no other. That these and all others reach
ASTRO afterwards is `RoutesNeverCutOff`, in however many steps: a coin whose way grows beyond
`MAX_SWAPS_DEPTH` because another route changed is refused by `Collect`, and the code does
not prevent it.

A collect computes all its amounts from the balances before its first swap. `SoldWithinAsked` and
`SwapsCovered` say what that is worth later: no coin is sold beyond what was asked for, and each
swap still finds its coins, but for a coin that is listed twice. Then the second swap may lack
them, and the collect is rolled back.

## Runs

| run | instance | properties |
|---|---|---|
| `pair_routing` | 2 users with 2 coins each, limits 0 and 2, MinLiquidity 1, LP supply up to 3 | `TypeOK`, `SwapParamsConsumed`, `LedgerSpec`, `RecordsSpec` |
| `pair_shares` | 1 user with 5 coins, limit 1, MinLiquidity 2, LP supply up to 5 | `TrackedBalancesExact`, `MinLiquidityLocked`, `ReservesNeverEmpty`, `WithdrawNeverDilutes` |
| `pair_exact_out` | as `pair_shares` | `ExactAmountOut`, violated |
| `factory_registry` | 2 people, 3 coins, a code with and one without `SetPoolId`, fees of 1 in each of up to 2 coins, 2 pools | `TypeOK`, `RegistryFaithful`, `PairsKnowTheirPool`, `FeePassedOn`, `RegistrySpec` |
| `factory_free` | 2 coins, fees of up to 2 in each of 2 coins, 1 pool | `FreeWithoutParams`, violated |
| `maker_routes` | 7 coins, 7 pools, up to 2 routes per message, 2 coins that may be ASTRO | `RoutesNeverCutOff` |
| `maker_collect` | 3 coins, 2 pools, up to 2 assets per collect, 2 coins of each kind, cooldown 2, 4 instants | `TypeOK`, `SwapsCovered`, `CollectAllOrNothing`, `SoldWithinAsked`, `CooldownKept` |
| `maker_cooldown` | as `maker_collect` | `InstantiatedCooldownKept`, violated |
| `pair_records` | 2 slots, amounts up to 6, 3 kinds of swaps, 6 operations, 4 blocks, 4 seconds, 2 recorded trades per second, `DecimalUnit` 10 | `TypeOK`, `SecondsObserved`, `SmaNearMean`, `AverageNeverRefused`, `HistoryRight`, `WindowSpec` |
| `pair_oracle` | 2 slots, volumes up to 2, 3 seconds, 2 recorded trades per second | `TradesReflected`, violated |
| `governance` | 3 people, 1 market, 1 pair, proposals of up to 1 second, 4 seconds | `TypeOK`, `OwnershipMandated` |
| `pair_unregistered` | 2 people, 1 market, 2 pairs | `DepositsOnlyIfRegistered`, violated |

`pair_routing` is about who: two users are what it takes for a swap executed for the
wrong user, for SWAP_PARAMS of one met by a swap of the other, and for a receiver that
is neither payer nor pool; two coins let both a payout and a fee be positive. The users
are interchangeable (symmetry). `RecordsSpec` needs a swap with an excess to be refunded, one paid
to the pair and donations before and after, which two coins of each kind suffice for. `pair_shares` is about how much: the roundings of a share
need a supply of several coins with some locked, and the second withdrawal or swap works
on what the first left. `DecimalUnit` is 10 there instead of 10^18: shares of a
supply of 3 or 4 round down at the first division of `get_share_in_assets`, what they are worth at
the second.

`factory_registry`: with two pools a pair can be deregistered and replaced, or created
after a pool of a stranger or under other coins than the one before; three coins give
keys that share a coin, each pair of them in either order. A
third pool adds no step that these two do not have. Two fee coins let the factory
accept one while the DEX charges both; donations make up for the other or do not, and the message
fails. `FeePassedOn` then asks for the exact account. People and fee coins are interchangeable
(symmetry). `factory_free` is about amounts only and needs one pool.

`maker_routes` has no coins to sell and is about routes only. Its pools form a ring through
ASTRO with one pool of three coins as a shortcut: the way around the ring is one step longer than
`MAX_SWAPS_DEPTH` allows, so some updates are refused for their length, others for a loop or a
dead end, and two routes in one message can turn a direction around. `maker_collect`
is about amounts and time: two assets are what it takes for one swap to fail after another
succeeded, for a coin to be listed twice, and for the first swap's fee to be in a coin the second
one sells; four instants fit two collects a cooldown apart and a rolled back one between
them.

`pair_records`: a buffer of two slots wraps with the third observation, which four seconds and
six operations leave room for, with two swaps in one of these seconds. Four heights are two
blocks in one second, a block without operations, and a query between them. The swaps are one at
an even price, one at another price with a maker fee, and one below `MIN_TRADE_SIZE` that is paid
to the pair itself; averages
of prices in tenths round down at every step, so `SmaNearMean` allows the loss of less than one
tenth of the mean for each second with trades and no more, and prices of 6 to 15 tenths in at most
four seconds always meet the condition of `AverageNeverRefused`.

`governance`: three people are an owner, his nominee and a third one who tries; proposals of
0, 1 and 2 seconds (the last refused) are claimed in time, at the last moment and too late within
four seconds. One pair and the factory are what a stand-in takes. `pair_unregistered` needs two
pairs of one market.

Deadlock is not checked where it is no error: a pool that has all the users' coins may have
nothing left to do (the runs of `PclPair`), and the bounds on operations, time and volumes
end every behaviour of `PairRecords` and `Observations`. It is checked for the others.

No fairness is assumed and no liveness property is stated. A message is executed to its end by
one transaction: the steps of a swap, of `CreatePair` and of `Collect` cannot be left undone by the
chain, and where they have nowhere to go there is a rollback. Between messages nothing has to
happen: nobody is obliged to swap, to collect or to claim, the contracts have no jobs of their
own, and a precommit observation does wait forever if no swap follows. What the code promises
is "with the next swap", "not before the cooldown", "until the ttl", and these are safety
properties (`SecondsObserved`, `CooldownKept`, `OwnershipMandated`).

Five runs show disagreements of the code with its documentation.

`pair_exact_out`: `packages/astroport_on_osmosis/src/pair_pcl.rs:72` promises "an exact amount of tokens
out", `sudo.rs` pays the outcome of a fresh `compute_swap`. A test
(`pair_concentrated_integration.rs`, around line 1688) knows of it: "User received
slightly more uusd than expected cuz PCL has dynamic fee".

`factory_free`: `execute_create_pair` starts from "Free if poolmanager params not set"
(`contracts/factory/src/contract.rs:276`) with an empty list of allowed fees, but then
requires exactly one coin and looks it up in that list. Without params no pair can be
created at all.

`maker_cooldown`: `instantiate` validates the `collect_cooldown` of its message, "If set
defines the period when maker collect can be called"
(`packages/astroport_on_osmosis/src/maker.rs:26`), and stores none. Until the owner sends
`UpdateConfig` two collects can complete at the same time.

`pair_oracle`: where `contract.rs:771` and `sudo.rs:210` store the volumes of a swap they say
"This data will be reflected in observations in the next action". With an observation in the buffer
the condition at `utils.rs:59`, `last_obs.ts < precommit_ts`, is met within the second of the
precommit. The second of two swaps in a second then makes an observation of the first alone,
and no later one takes in the second.

`pair_unregistered`: the error at `contracts/pair_concentrated/src/error.rs:41` reads "Pair is not
registered in the factory. Only swap and withdraw are allowed". `check_pair_registered`
(called at `contract.rs:310`) asks the factory for a pair of the same coins and not for this pair,
so a pair that was deregistered, or created around the factory, takes deposits as soon as
another pair of its coins is registered.

## Proofs

TLC checks the properties on the instances above; `tlapm` proves the following for every
value of the constants that meets the named assumptions of the modules.

`PclPairProofs`: for every finite set of users, every endowment, every `MinLiquidity > 0`, every
positive `DecimalUnit` and any curve, in every reachable state

* `TypeCorrect`, `BalancesExact`, `LiquidityLocked`, `ReservesLast`, `ParamsConsumed`: the
  invariants of the runs;
* `NoDilution`: the action property `WithdrawNeverDilutes`.

They follow from one inductive invariant `IInv` (`Invariance`): `TypeOK`,
`TrackedBalancesExact`, `MinLiquidityLocked`, `ReservesNeverEmpty` and two conjuncts no run
states, which are what makes it inductive. `AtRest` says that between messages the
committed state is the current one and no parameters or order are left. `InCall` says what
is true while the DEX is calling: the coins in flight are in the pair's account on top of
the reserves, the parameters in storage are there exactly if the pair is the DEX's sender,
and rolling back restores reserves that were right. Without `InCall` an error would lead
anywhere. The arithmetic is in lemmas of its own: a share rounded down twice is at most the
exact share, leaves something of each coin, and does not lower what backs an LP coin.

`ImplementsLedger` proves `Spec => LedgerSpec`: the protocol of several
steps implements one-step orders. It rests on the invariant `OrderInFlight`: between
the DEX's call and its end the bank is the committed bank after the order's payment, and the
call and the stored parameters say what the order said. The settlement is the step of sudo
(or of the refund), all others stutter or are the ledger's own steps.

`ImplementsRecords` proves `Spec => RecordsSpec`: the same steps amount to operations that move the
reserves together with their record. What the two sudo handlers do is one operator (`Trades`), from
which both the inductive invariant and the refinement follow; everything else keeps every `Reserve`
and every record (`NotRecorded`), a rollback because of `InCall`. `BalanceHistory` bounds
its amounts, so a bound is needed on what can be deposited, traded or refunded: all coins there
are. That is the invariant `CoinsConserved` (the lemma `NoCoinsMade`): the balances of all accounts add up
to the endowments, whatever moves. It is a sum over the accounts and the one place where the
users have to be finitely many (`UsersAssumption`).

`FactoryProofs`: for any coins, codes, pair types and fees, `FactoryTypeCorrect`,
`RegistryIsFaithful`, `PoolIdsRight` and `PaymentPassedOn`. The
inductive invariant (`FactoryInvariance`) adds to the properties what a step of
`CreatePair` leaves for the next: before the pool exists TMP_PAIR_INFO is the key of the
message's own coins and the purse is that of the snapshot with the fee in one coin added
(`CreatingPool`); afterwards the last pool is the message's and is known to nobody
(`PoolCreated`, `Replying`); and the snapshot an error restores is itself consistent
(`SnapshotRight`).

`RegistryAtomic` proves `Spec => RegistrySpec` for any coins whose keys differ (`DistinctKeys`, the
theorem's assumption; without it two pairs of coins share an entry and a lookup by coins
answers wrongly). The argument has three parts. `Underway` says what the steps of a message have
changed so far, compared to the snapshot: nothing, one pool more, one pool and one pair more;
so the step that ends the message is a `Register` and all before it stutter. `KeySymmetric`: the
byte order is antisymmetric and total, the latter by the first position at which two denoms
differ, so both orders of the coins have one key. `LookupWith` and `LookupWithout`: one key more or
less in the storage is one market more or less for those who look pairs up.

`MakerProofs`: for any coins, pools, assets and cooldowns, `RoutesOpen`, `CollectsApart`,
`MakerTypeCorrect`, `AllOrNothing`, `SoldAsAsked` and `CoinsForEverySwap`.
Whether a coin reaches ASTRO is about ways of any length; it is stated with sets the
routes do not lead out of, so that the proof needs no induction along a way: in such a set
without ASTRO no coin of the message can be, since each of those reaches ASTRO within it
(`WayStaysInside`), so the old routes did not lead out of it either (`AcceptedRoutesOpen`), and no coin with a new
route is in it.
`CollectsApart` rests on `StampRight`: `LAST_COLLECT_TS` is the time of the collect in
progress, a rollback restores that of the last completed one. `MakerTypeCorrect` needs the types
of the swaps that are left and of what a rollback restores (`MessageTyped`), `AllOrNothing` that
the reply belongs to the last of them (`ReplyLast`): a collect that is not rolled back ends with
that reply, which forwards all ASTRO.

`SoldAsAsked` proves `SoldWithinAsked`, the sums over the assets of a collect that a coin listed
twice could break. The invariant `SoldSoFar` is about each coin but ASTRO: unless some
asset asks for all of it, what the purse holds, plus what is asked for by the assets whose swaps
were executed or not needed, is no less than what it held before the collect; and each swap that
is left is of its asset's coin and of no more than that asset asks for. A swap takes its own asset
from the swaps left to the executed ones and pays with no more than it asked for (`Sums`).

`CoinsForEverySwap` proves `SwapsCovered`: a collect starts with amounts the purse has, a swap takes
of its own coin only, so that a swap that is left and lacks its coins has a companion in the assets,
and the reply, which empties the purse of ASTRO, comes when none is left (`ReplyLast`).

`ObservationsProofs`: for any capacity, volumes and times, `WindowSpec` (`BufferIsWindow`),
`SecondsObserved` and `TypeOK`. The inductive invariant adds to the type `PrecommitLatest` (the precommit is
what its second has traded, and no second with trades is later) and `Ordered`: the slots, counted
back from the head (`Age`), are filled up to some age and get older with it. Hence the
slot after the head is empty or the oldest, which is what makes the overwriting slot of the
ring the one the window drops.

`SmaFollowsMean` proves `SmaNearMean`. The average is computed from its own predecessor and rounded
down, so the invariant is about its drift: the sum of the prices kept less the average times
their number is never negative, and at most that number less one for each second with trades up
to the latest observation (`Drift`, `Seen`, `DriftBounded`), since a push adds less than one unit
of the mean and an observation stands for a second of trades. `Filling` says which slots the mean is over
until the buffer is full: those from 1 to the head.

`SwapsNeverStuck` proves `AverageNeverRefused` from the same bound. What is left of the sum when the
oldest price leaves it is the other prices less the drift; the drift is at most one unit per other
price and second, and each of these prices is at least that (`OthersOutweigh`).

`Sums` has what these proofs need of sums over finite sets: adding and removing an element, equal
or large summands, transfers from one summand to another. The library defines a sum by a recursive
choice and its induction theorems cannot be used (they take an operator), so the induction is
done by hand, once: `SubsetInduction` replaces the formula by the set of the subsets that
satisfy it, and is proved from the well-foundedness of `<`; `SumByChosen` says that the library's
recursion has the value it describes.

`BalanceHistoryProofs`: for any amounts and heights, `HistoryRight`. The changelog is never read at
an entry a later write could still change: the only heights an operation writes at are the current
one, and it does so once. The lookup of the earliest entry is `Min`, and that a nonempty set of
heights has one comes from the well-foundedness of `<`.

A payout that returned to the pair is tracked by none of these writes and, like a donation, moves
the bank balance without the history noticing.

`PairRecordsProofs` carries these over to the composition, in which each component takes a step of
its own or stutters: `PairHasOracle` and `PairHasHistory` (the composed system implements
both), then `PairTradesObserved`, `PairHistoryRight`, `PairBufferIsWindow`,
`PairRecordsTypeCorrect`, `PairSmaFollowsMean` and `PairSwapsNeverStuck`.

`GovernanceProofs`: for any people, markets, time to live and number of pairs, `TypeOK` and
`OwnershipMandated`. The invariant `ProposalsMandated` ties each stored proposal to the last mandate
of its contract: the same nominee, valid until exactly what that mandate offered and at most
`MaxTtl` from it, and, for a contract with an owner, made by that owner.

The assumptions are on constants only: the sets and bounds are what their names say
(`BoundsAssumption`, `LimitsAssumption`, ...), `MinLiquidity` and `DecimalUnit` are positive, the
special accounts differ from the users, of whom there are finitely many, and absent values are no
records.

Only model-checked: that the five documented promises above fail. Every property of a
run that passes is the statement of a theorem. No liveness is claimed, and none could be proved:
tlapm has no support for ENABLED and fairness. It has none for RECURSIVE operators either, and no
module has one; induction over data is possible where it can be stated with sets, as in `Sums`.

## Not modelled

* The PCL curve, its price repegging (`update_price`) and the ramping of pool parameters: library
  code (`astroport_pcl_common`). The models allow any outcome the handlers would accept.
* The arithmetic of `assert_max_spread`, also of that library: the minimum of a swap that comes
  from the DEX becomes a belief price rounded down, and the guard a least outcome (`limit`). A
  comparison with the exact minimum would be a statement about code that is not in the repository.
* Queries and simulations other than `AssetBalanceAt`, among them `Observe`, which interpolates
  between two observations: computations over one state. Migrations: version checks. Tests,
  scripts.
* Fee settings of a pair type, `fee_address`, `coin_registry_address` and the satellite's
  address: stored and read back, no decision of what is modelled depends on them.
* Messages the pair rejects by type (CW20 tokens, unknown denoms, wrong funds).
* Names of denoms, and with them whether two pairs of coins can have one key.

## Plan

`PclPair` with `PoolLedger`, `Factory` with `PairRegistry`, `Maker`, `Observations` with
`PriceWindow`, `BalanceHistory`, `PairRecords` and `Governance` are written, checked and, where said
above, proved. A module for the arithmetic of limits was dropped for the reason given
under "Not modelled".

What is left, in this order:

1. A lower bound on what a recorded second loses to the early push that `pair_oracle` shows, over
   larger instances: with how many swaps per second the observation is off by how much.
2. The fee settings of pair types and `fee_address`, should a property of the fee collector across
   factory and pairs be stated.
