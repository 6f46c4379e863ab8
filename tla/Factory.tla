------------------------------- MODULE Factory -------------------------------
(***************************************************************************)
(* The factory: which pair is registered for which coins.  CreatePair is a *)
(* message of several steps: the factory asks the DEX module for a pool,   *)
(* the DEX instantiates the pair contract, the reply registers it and      *)
(* tells it its pool id.  Each step is an action; an error rolls the whole *)
(* message back, except one of SetPoolId, which is passed through.         *)
(*                                                                         *)
(* A pair contract is named by the id of its pool in the DEX.              *)
(***************************************************************************)
EXTENDS Integers, Sequences

CONSTANTS
    People,        \* accounts that send messages
    Denoms,        \* coins, as sequences of bytes
    PairTypes,
    Codes,         \* code ids of pair contracts
    Supporting,    \* those whose SetPoolId accepts this factory as FACTORY_ADDRESS
    FeeDenoms,     \* coins the DEX may charge for a pool
    MaxFee,        \* bound on a fee
    MaxPools,      \* bound on the number of pools
    None           \* an absent value

ASSUME DenomsAssumption == Denoms \subseteq Seq(Nat)
ASSUME CodesAssumption == Supporting \subseteq Codes
ASSUME BoundsAssumption == MaxFee \in Nat /\ MaxPools \in Nat

VARIABLES
    owner,         \* config.owner
    generator,     \* config.generator_address is set
    pairConfigs,   \* PAIR_CONFIGS
    pairs,         \* PAIRS: pair key to pair
    tmpPairKey,    \* TMP_PAIR_INFO
    pools,         \* the DEX's pools: creator, and coins, code and POOL_ID of the contract
    creationFee,   \* pool_creation_fee of the poolmanager, None without params
    purse,         \* coins in the factory's account
    inactive,      \* pairs whose LP token the generator was told to deactivate
    message        \* the step of CreatePair to execute next, if any

vars == <<owner, generator, pairConfigs, pairs, tmpPairKey, pools, creationFee, purse,
          inactive, message>>

settings == <<owner, generator, pairConfigs>>
registry == <<pairs, tmpPairKey>>
dex == <<pools, creationFee, purse>>

AssetInfos == Denoms \X Denoms
PairConfigs == [code: Codes, permissioned: BOOLEAN, disabled: BOOLEAN]
Pools == [assets: AssetInfos, code: Codes, byFactory: BOOLEAN, poolId: Nat \cup {None}]

\* The code takes absent params for an empty list of fees.
Fees == UNION {[D -> 1 .. MaxFee] : D \in SUBSET FeeDenoms \ {{}}}
Coins == [denom: FeeDenoms, amount: 1 .. MaxFee]

\* The order of byte strings.
Before(s, t) ==
    \E i \in 1 .. Len(t) :
        /\ i <= Len(s) + 1
        /\ \A j \in 1 .. i - 1 : s[j] = t[j]
        /\ i <= Len(s) => s[i] < t[i]

\* The denoms in order, one after the other.
pair_key_Unsorted(assets) == assets[1] \o assets[2]
pair_key(assets) ==
    IF Before(assets[1], assets[2]) THEN assets[1] \o assets[2] ELSE assets[2] \o assets[1]

Registered == DOMAIN pairs

\* No message is being executed.
NoMessage == [step |-> "none"]
Idle == message.step = "none"

Init ==
    /\ owner \in People
    /\ generator \in BOOLEAN
    /\ pairConfigs \in UNION {[T -> PairConfigs] : T \in SUBSET PairTypes}
    /\ pairs = <<>>
    /\ tmpPairKey = None
    /\ pools = <<>>
    /\ creationFee \in Fees \cup {None}
    /\ purse = [d \in FeeDenoms |-> 0]
    /\ inactive = {}
    /\ message = NoMessage

----------------------------------------------------------------------------
(* The owner's messages *)

\* generator_address can be set, never removed.
UpdateConfig(sender) ==
    /\ Idle
    /\ sender = owner
    /\ generator' = TRUE
    /\ UNCHANGED <<owner, pairConfigs, registry, dex, inactive, message>>

UpdatePairConfig(sender, type, config) ==
    /\ Idle
    /\ sender = owner
    /\ pairConfigs' = [t \in DOMAIN pairConfigs \cup {type} |->
                          IF t = type THEN config ELSE pairConfigs[t]]
    /\ UNCHANGED <<owner, generator, registry, dex, inactive, message>>

\* PAIRS without the key.
PairsWithout(key) == [k \in Registered \ {key} |-> pairs[k]]

\* The generator, if there is one, is told to deactivate the pair's LP token.
Deregister(sender, assets) ==
    /\ Idle
    /\ assets[1] # assets[2]
    /\ sender = owner
    /\ pair_key(assets) \in Registered
    /\ pairs' = PairsWithout(pair_key(assets))
    /\ inactive' = IF generator THEN inactive \cup {pairs[pair_key(assets)]} ELSE inactive
    /\ UNCHANGED <<settings, tmpPairKey, dex, message>>

\* Ownership proposals, claimed.
OwnerChanges ==
    /\ Idle
    /\ owner' \in People
    /\ UNCHANGED <<generator, pairConfigs, registry, dex, inactive, message>>

----------------------------------------------------------------------------
(* CreatePair, step by step *)

\* Exactly one coin is sent, and it is one of the poolmanager's fees.
PaymentAccepted_FreeWithoutParams(paid) ==
    /\ paid # None
    /\ creationFee # None
          => paid.denom \in DOMAIN creationFee /\ paid.amount = creationFee[paid.denom]
PaymentAccepted(paid) ==
    /\ paid # None
    /\ creationFee # None
    /\ paid.denom \in DOMAIN creationFee /\ paid.amount = creationFee[paid.denom]

\* What TMP_PAIR_INFO holds while the pair for these assets is being created.
TmpPairKey_NotSaved(assets) == tmpPairKey
TmpPairKey_KeptOld(assets) == IF tmpPairKey = None THEN pair_key(assets) ELSE tmpPairKey
TmpPairKey(assets) == pair_key(assets)

\* What an error later in the message rolls back to.
Snapshot == [pairs |-> pairs, tmpPairKey |-> tmpPairKey, pools |-> pools, purse |-> purse]

CreatePair(sender, type, assets, paid) ==
    /\ Idle
    /\ PaymentAccepted(paid)
    /\ assets[1] # assets[2]
    /\ pair_key(assets) \notin Registered
    /\ type \in DOMAIN pairConfigs
    /\ pairConfigs[type].permissioned => sender = owner
    /\ ~pairConfigs[type].disabled
    /\ tmpPairKey' = TmpPairKey(assets)
    /\ purse' = [purse EXCEPT ![paid.denom] = @ + paid.amount]
    /\ message' = [step |-> "create_pool", code |-> pairConfigs[type].code,
                   assets |-> assets, before |-> Snapshot]
    /\ UNCHANGED <<settings, pairs, pools, creationFee, inactive>>

NewPool(assets, code, byFactory) ==
    /\ Len(pools) < MaxPools
    /\ pools' = Append(pools, [assets |-> assets, code |-> code, byFactory |-> byFactory,
                              poolId |-> None])

Fee(d) == IF creationFee # None /\ d \in DOMAIN creationFee THEN creationFee[d] ELSE 0

\* The DEX charges the factory every coin of the fee and instantiates the pair.
DexCreatesPool ==
    /\ message.step = "create_pool"
    /\ \A d \in FeeDenoms : Fee(d) <= purse[d]
    /\ purse' = [d \in FeeDenoms |-> purse[d] - Fee(d)]
    /\ NewPool(message.assets, message.code, TRUE)
    /\ message' = [step |-> "reply", pool |-> Len(pools'), before |-> message.before]
    /\ UNCHANGED <<settings, registry, creationFee, inactive>>

\* INSTANTIATE_PAIR_REPLY_ID: the pair is registered under the key in TMP_PAIR_INFO.
ReplyRegisters ==
    /\ message.step = "reply"
    /\ tmpPairKey \notin Registered
    /\ pairs' = [k \in Registered \cup {tmpPairKey} |->
                    IF k = tmpPairKey THEN message.pool ELSE pairs[k]]
    /\ message' = [step |-> "set_pool_id", pool |-> message.pool,
                   before |-> message.before]
    /\ UNCHANGED <<settings, tmpPairKey, dex, inactive>>

\* The calls of SetPoolId: the factory's, and anyone's between messages.
SetPoolIdCalls ==
    IF Idle
    THEN [fromFactory: {FALSE}, pool: 1 .. Len(pools), id: 1 .. MaxPools]
    ELSE {c \in [fromFactory: {TRUE}, pool: 1 .. Len(pools), id: 1 .. Len(pools)] :
             message.step = "set_pool_id" /\ c.pool = message.pool /\ c.id = message.pool}

\* set_pool_id: only FACTORY_ADDRESS, only once.
SetPoolIdAllowed_AnySender(call) ==
    /\ pools[call.pool].code \in Supporting
    /\ pools[call.pool].poolId = None
SetPoolIdAllowed(call) ==
    /\ call.fromFactory /\ pools[call.pool].code \in Supporting
    /\ pools[call.pool].poolId = None

SetPoolId ==
    /\ \E call \in SetPoolIdCalls :
          /\ SetPoolIdAllowed(call)
          /\ pools' = [pools EXCEPT ![call.pool].poolId = call.id]
    /\ message' = NoMessage
    /\ UNCHANGED <<settings, registry, creationFee, purse, inactive>>

\* SET_POOL_ID_FAILED_REPLY_ID: the failure is passed through.
ReplySetPoolIdFailed ==
    /\ message.step = "set_pool_id"
    /\ \A call \in SetPoolIdCalls : ~SetPoolIdAllowed(call)
    /\ message' = NoMessage
    /\ UNCHANGED <<settings, registry, dex, inactive>>

\* An error outside SetPoolId: the message leaves no trace.
Rollback ==
    /\ ~Idle
    /\ pairs' = message.before.pairs
    /\ tmpPairKey' = message.before.tmpPairKey
    /\ pools' = message.before.pools
    /\ purse' = message.before.purse
    /\ message' = NoMessage
    /\ UNCHANGED <<settings, creationFee, inactive>>

----------------------------------------------------------------------------
(* The DEX and its users *)

\* Anyone can instantiate a pair's code as a pool of the DEX, without the factory.
UserCreatesPool(assets, code) ==
    /\ Idle
    /\ assets[1] # assets[2]
    /\ NewPool(assets, code, FALSE)
    /\ UNCHANGED <<settings, registry, creationFee, purse, inactive, message>>

\* Anyone can send coins to the factory's account.
Donate ==
    /\ Idle
    /\ \E d \in FeeDenoms :
          /\ purse[d] < MaxFee
          /\ purse' = [purse EXCEPT ![d] = @ + 1]
    /\ UNCHANGED <<settings, registry, pools, creationFee, inactive, message>>

ParamsChange ==
    /\ Idle
    /\ creationFee' \in Fees \cup {None}
    /\ UNCHANGED <<settings, registry, pools, purse, inactive, message>>

----------------------------------------------------------------------------

Execute(sender) ==
    \/ UpdateConfig(sender)
    \/ \E type \in PairTypes, config \in PairConfigs : UpdatePairConfig(sender, type, config)
    \/ \E assets \in AssetInfos : Deregister(sender, assets)
    \/ \E type \in PairTypes, assets \in AssetInfos, paid \in Coins \cup {None} :
          CreatePair(sender, type, assets, paid)

Next ==
    \/ \E sender \in People : Execute(sender)
    \/ OwnerChanges
    \/ DexCreatesPool
    \/ ReplyRegisters
    \/ SetPoolId
    \/ ReplySetPoolIdFailed
    \/ Rollback
    \/ \E assets \in AssetInfos, code \in Codes : UserCreatesPool(assets, code)
    \/ Donate
    \/ ParamsChange

Spec == Init /\ [][Next]_vars

----------------------------------------------------------------------------
(* Properties *)

Keys == {pair_key(assets) : assets \in AssetInfos}

\* Every variable keeps its type; in particular every registered pair is a contract that
\* exists and the factory's account is never overdrawn.
TypeOK ==
    /\ owner \in People
    /\ generator \in BOOLEAN
    /\ DOMAIN pairConfigs \subseteq PairTypes
    /\ \A t \in DOMAIN pairConfigs : pairConfigs[t] \in PairConfigs
    /\ Registered \subseteq Keys
    /\ \A key \in Registered : pairs[key] \in 1 .. Len(pools)
    /\ tmpPairKey \in Keys \cup {None}
    /\ pools \in Seq(Pools)
    /\ creationFee \in Fees \cup {None}
    /\ purse \in [FeeDenoms -> Nat]
    /\ inactive \subseteq 1 .. Len(pools)

\* A pair is found under the coins it trades, and only contracts the factory had created
\* are found: the reply of one CreatePair never registers its pair under the key of
\* another, whatever failed, was deregistered or was created around the factory.
RegistryFaithful ==
    \A key \in Registered :
        /\ pair_key(pools[pairs[key]].assets) = key
        /\ pools[pairs[key]].byFactory

\* Between messages every pair the factory had created knows its own pool id, if its
\* code can, and no other contract knows one: a pair instantiated around the factory
\* stays without ("swap and withdraw endpoints will be broken forever").
PairsKnowTheirPool ==
    \A i \in 1 .. Len(pools) :
        /\ pools[i].poolId # None => pools[i].poolId = i /\ pools[i].byFactory
        /\ Idle /\ pools[i].byFactory /\ pools[i].code \in Supporting
              => pools[i].poolId = i

\* A CreatePair that is not rolled back leaves the factory's account as it was, when the fee
\* is in one coin: all of the payment goes to the DEX.  Of a fee in several coins the sender
\* pays one, in full, and the factory's own coins pay the others, no more and no less.
FeePassedOn ==
    [][~Idle /\ Idle'
          => \/ purse' = message.before.purse
             \/ /\ creationFee # None
                /\ \E paid \in DOMAIN creationFee : \A d \in FeeDenoms :
                      purse'[d] = message.before.purse[d] - IF d = paid THEN 0 ELSE Fee(d)]_vars

\* The steps of CreatePair implement one registration: seen between messages and by those
\* who look pairs up by their coins, in whichever order, a pair is created and registered
\* at once as the only one of its coins, or nothing happened.
CoinsOf(assets) == {assets[1], assets[2]}
ValidInfos == {assets \in AssetInfos : assets[1] # assets[2]}
KeyOf == [assets \in ValidInfos |-> pair_key(assets)]
Lookup(p) ==
    LET known == {assets \in ValidInfos : KeyOf[assets] \in DOMAIN p} IN
    [m \in {CoinsOf(assets) : assets \in known} |->
        p[KeyOf[CHOOSE assets \in known : CoinsOf(assets) = m]]]
CommittedPairs == IF Idle THEN pairs ELSE message.before.pairs
CommittedPools == IF Idle THEN pools ELSE message.before.pools
Registry == INSTANCE PairRegistry WITH
    Markets <- {CoinsOf(assets) : assets \in ValidInfos},
    registry <- Lookup(CommittedPairs),
    contracts <- [i \in 1 .. Len(CommittedPools) |->
                     [market |-> CoinsOf(CommittedPools[i].assets),
                      official |-> CommittedPools[i].byFactory]]
RegistrySpec == Registry!Spec

\* "Free if poolmanager params not set": a CreatePair without funds is accepted then.
FreeWithoutParams == creationFee = None => PaymentAccepted(None)
==============================================================================
