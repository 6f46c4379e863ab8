----------------------------- MODULE FactoryProofs -----------------------------
(***************************************************************************)
(* The factory's registry is right for any coins, codes and fees, and the  *)
(* steps of CreatePair implement one registration.                         *)
(***************************************************************************)
EXTENDS Factory, WellFoundedInduction, TLAPS

\* What contract i knows of its pool id is right.
IdRight(pls, i) == pls[i].poolId # None => pls[i].poolId = i /\ pls[i].byFactory

\* Contract i knows its pool id if it should.
IdKnown(pls, i) == pls[i].byFactory /\ pls[i].code \in Supporting => pls[i].poolId = i

\* The pair registered under a key.
EntryRight(prs, pls, key) ==
    /\ prs[key] \in 1 .. Len(pls)
    /\ pair_key(pls[prs[key]].assets) = key
    /\ pls[prs[key]].byFactory

\* A registry and the contracts it points to fit together.
Consistent(prs, pls) ==
    /\ pls \in Seq(Pools)
    /\ DOMAIN prs \subseteq Keys
    /\ \A key \in DOMAIN prs : EntryRight(prs, pls, key)
    /\ \A i \in 1 .. Len(pls) : IdRight(pls, i)
    /\ inactive \subseteq 1 .. Len(pls)

\* An error may roll back to the snapshot of the message in flight.
SnapshotRight ==
    LET b == message.before IN
    /\ Consistent(b.pairs, b.pools)
    /\ \A i \in 1 .. Len(b.pools) : IdKnown(b.pools, i)
    /\ b.tmpPairKey \in Keys \cup {None}
    /\ b.purse \in [FeeDenoms -> Nat]

\* Before the DEX has created the pool the payment is still in the account.
CreatingPool ==
    /\ message.assets \in AssetInfos
    /\ message.code \in Codes
    /\ tmpPairKey = pair_key(message.assets)
    /\ \A i \in 1 .. Len(pools) : IdKnown(pools, i)
    /\ creationFee # None
    /\ \E paid \in DOMAIN creationFee : \A d \in FeeDenoms :
          purse[d] = message.before.purse[d] + IF d = paid THEN Fee(d) ELSE 0

\* Afterwards the last pool is the one the message is about, and knows no id yet.
PoolCreated ==
    /\ Len(pools) > 0
    /\ message.pool = Len(pools)
    /\ pools[Len(pools)].byFactory
    /\ pools[Len(pools)].poolId = None
    /\ \A i \in 1 .. Len(pools) - 1 : IdKnown(pools, i)
    /\ creationFee # None
    /\ \E paid \in DOMAIN creationFee : \A d \in FeeDenoms :
          purse[d] = message.before.purse[d] - IF d = paid THEN 0 ELSE Fee(d)

\* TMP_PAIR_INFO is about this very pool when the reply reads it.
Replying == pair_key(pools[Len(pools)].assets) = tmpPairKey

MessageRight ==
    /\ message.step \in {"none", "create_pool", "reply", "set_pool_id"}
    /\ Idle => \A i \in 1 .. Len(pools) : IdKnown(pools, i)
    /\ ~Idle => SnapshotRight
    /\ message.step = "create_pool" => CreatingPool
    /\ message.step \in {"reply", "set_pool_id"} => PoolCreated
    /\ message.step = "reply" => Replying

\* The inductive invariant.
IInv == TypeOK /\ Consistent(pairs, pools) /\ MessageRight

----------------------------------------------------------------------------
(* Helpers *)

\* The key of two assets is one of Keys.
LEMMA KeyOfAssets == \A assets \in AssetInfos : pair_key(assets) \in Keys
BY DEF Keys

\* A fee is an amount.
LEMMA FeeIsAmount == TypeOK => \A d \in FeeDenoms : Fee(d) \in Nat
<1> SUFFICES ASSUME TypeOK, NEW d \in FeeDenoms PROVE Fee(d) \in Nat
  OBVIOUS
<1>1. CASE creationFee = None
  BY <1>1 DEF Fee
<1>2. CASE creationFee # None
  <2>1. PICK D \in SUBSET FeeDenoms : creationFee \in [D -> 1 .. MaxFee]
    BY <1>2 DEF TypeOK, Fees
  <2>2. QED
    BY <2>1, BoundsAssumption DEF Fee
<1>3. QED
  BY <1>1, <1>2

\* A pool that is appended leaves the others and the registry as they were.
LEMMA AppendedPool ==
    ASSUME TypeOK, Consistent(pairs, pools), NEW p \in Pools, p.poolId = None
    PROVE  /\ Consistent(pairs, Append(pools, p))
           /\ Len(Append(pools, p)) = Len(pools) + 1
           /\ Append(pools, p)[Len(pools) + 1] = p
           /\ \A i \in 1 .. Len(pools) : Append(pools, p)[i] = pools[i]
<1> DEFINE pls == Append(pools, p)
<1>1. pools \in Seq(Pools) /\ Len(pools) \in Nat
  BY DEF Consistent
<1>2. /\ pls \in Seq(Pools)
      /\ Len(pls) = Len(pools) + 1
      /\ pls[Len(pools) + 1] = p
      /\ \A i \in 1 .. Len(pools) : pls[i] = pools[i]
  BY <1>1
<1> HIDE DEF pls
<1>3. \A key \in Registered : EntryRight(pairs, pls, key)
  BY <1>1, <1>2 DEF Consistent, EntryRight, Registered
<1>4. \A i \in 1 .. Len(pls) : IdRight(pls, i)
  BY <1>1, <1>2 DEF Consistent, IdRight
<1>5. Consistent(pairs, pls)
  BY <1>1, <1>2, <1>3, <1>4 DEF Consistent, Registered
<1>6. QED
  BY <1>2, <1>5 DEF pls

----------------------------------------------------------------------------
(* Steps between messages *)

\* The initial state.
LEMMA InitHolds == Init => IInv
<1> SUFFICES ASSUME Init PROVE IInv
  OBVIOUS
<1>1. /\ Len(pools) = 0
      /\ pools \in Seq(Pools)
      /\ Registered = {}
      /\ message.step = "none"
  BY DEF Init, Registered, NoMessage
<1>2. TypeOK
  <2>1. DOMAIN pairConfigs \subseteq PairTypes
        /\ \A t \in DOMAIN pairConfigs : pairConfigs[t] \in PairConfigs
    BY DEF Init
  <2>2. QED
    BY <1>1, <2>1 DEF Init, TypeOK
<1>3. Consistent(pairs, pools)
  BY <1>1 DEF Init, Consistent, Registered
<1>4. MessageRight
  BY <1>1 DEF MessageRight, Idle
<1>5. QED
  BY <1>2, <1>3, <1>4 DEF IInv

\* A step that leaves the registry, the pools and the message alone keeps all that is
\* known of them.
LEMMA NothingDisturbed ==
    ASSUME IInv, Idle, TypeOK', UNCHANGED <<pairs, pools, inactive, message>>
    PROVE  IInv'
<1>1. Consistent(pairs, pools)'
  BY DEF IInv, Consistent, EntryRight, IdRight
<1>2. MessageRight'
  BY DEF IInv, MessageRight, Idle, IdKnown
<1>3. QED
  BY <1>1, <1>2 DEF IInv

\* The settings, the fee and the coins of the factory's account.
LEMMA OutsideStep ==
    ASSUME IInv,
           \/ \E sender \in People : UpdateConfig(sender)
           \/ \E sender \in People, type \in PairTypes, config \in PairConfigs :
                 UpdatePairConfig(sender, type, config)
           \/ OwnerChanges
           \/ Donate
           \/ ParamsChange
    PROVE  IInv'
<1> USE DEF settings, registry, dex
<1>1. CASE \E sender \in People : UpdateConfig(sender)
  <2>1. TypeOK'
    BY <1>1 DEF UpdateConfig, IInv, TypeOK, Registered
  <2>2. QED
    BY <1>1, <2>1, NothingDisturbed DEF UpdateConfig
<1>2. CASE \E sender \in People, type \in PairTypes, config \in PairConfigs :
              UpdatePairConfig(sender, type, config)
  <2>1. PICK sender \in People, type \in PairTypes, config \in PairConfigs :
              UpdatePairConfig(sender, type, config)
    BY <1>2
  <2>2. DOMAIN pairConfigs' = DOMAIN pairConfigs \cup {type}
        /\ \A t \in DOMAIN pairConfigs' :
              pairConfigs'[t] = IF t = type THEN config ELSE pairConfigs[t]
    BY <2>1 DEF UpdatePairConfig
  <2>3. TypeOK'
    BY <2>1, <2>2 DEF UpdatePairConfig, IInv, TypeOK, Registered
  <2>4. QED
    BY <2>1, <2>3, NothingDisturbed DEF UpdatePairConfig
<1>3. CASE OwnerChanges
  <2>1. TypeOK'
    BY <1>3 DEF OwnerChanges, IInv, TypeOK, Registered
  <2>2. QED
    BY <1>3, <2>1, NothingDisturbed DEF OwnerChanges
<1>4. CASE Donate
  <2>1. TypeOK'
    BY <1>4 DEF Donate, IInv, TypeOK, Registered
  <2>2. QED
    BY <1>4, <2>1, NothingDisturbed DEF Donate
<1>5. CASE ParamsChange
  <2>1. TypeOK'
    BY <1>5 DEF ParamsChange, IInv, TypeOK, Registered
  <2>2. QED
    BY <1>5, <2>1, NothingDisturbed DEF ParamsChange
<1>6. QED
  BY <1>1, <1>2, <1>3, <1>4, <1>5

\* Deregister: the pair that goes was registered under one key only.
LEMMA DeregisterStep ==
    ASSUME IInv, NEW sender \in People, NEW assets \in AssetInfos, Deregister(sender, assets)
    PROVE  IInv'
<1> DEFINE gone == pair_key(assets)
<1>1. /\ gone \in Registered
      /\ Registered' = Registered \ {gone}
      /\ \A key \in Registered' : pairs'[key] = pairs[key]
      /\ inactive' \subseteq inactive \cup {pairs[gone]}
      /\ UNCHANGED <<owner, generator, pairConfigs, tmpPairKey, pools, creationFee, purse,
                    message>>
      /\ Idle
  BY DEF Deregister, PairsWithout, Registered, settings, dex
<1> HIDE DEF gone
<1>2. \A key \in Registered' : pairs[key] # pairs[gone]
  BY <1>1 DEF IInv, Consistent, EntryRight, Registered
<1>3. TypeOK'
  BY <1>1 DEF IInv, TypeOK, Registered
<1>4. \A key \in Registered' : EntryRight(pairs, pools, key)'
  BY <1>1, <1>2 DEF IInv, Consistent, EntryRight, Registered
<1>5. Consistent(pairs, pools)'
  BY <1>1, <1>4 DEF IInv, Consistent, EntryRight, IdRight, Registered
<1>6. MessageRight'
  BY <1>1 DEF IInv, MessageRight, Idle, IdKnown
<1>7. QED
  BY <1>3, <1>5, <1>6 DEF IInv

\* A pool that is created around the factory is not the factory's.
LEMMA UserCreatesPoolStep ==
    ASSUME IInv, NEW assets \in AssetInfos, NEW code \in Codes, UserCreatesPool(assets, code)
    PROVE  IInv'
<1> DEFINE p == [assets |-> assets, code |-> code, byFactory |-> FALSE, poolId |-> None]
<1>1. p \in Pools /\ p.poolId = None /\ ~p.byFactory
  BY DEF Pools
<1>2. /\ pools' = Append(pools, p)
      /\ UNCHANGED <<owner, generator, pairConfigs, pairs, tmpPairKey, creationFee, purse,
                    inactive, message>>
      /\ Idle
  BY DEF UserCreatesPool, NewPool, settings, registry
<1> HIDE DEF p
<1>3. /\ Consistent(pairs, Append(pools, p))
      /\ Len(pools') = Len(pools) + 1
      /\ pools'[Len(pools) + 1] = p
      /\ \A i \in 1 .. Len(pools) : pools'[i] = pools[i]
  BY <1>1, <1>2, AppendedPool DEF IInv
<1>4. Len(pools) \in Nat
  BY DEF IInv, TypeOK
<1>5. Consistent(pairs, pools)'
  BY <1>2, <1>3 DEF Consistent, EntryRight
<1>6. TypeOK'
  BY <1>2, <1>3, <1>4, <1>5 DEF IInv, TypeOK, Consistent, Registered
<1>7. MessageRight'
  BY <1>1, <1>2, <1>3, <1>4 DEF IInv, MessageRight, Idle, IdKnown
<1>8. QED
  BY <1>5, <1>6, <1>7 DEF IInv

----------------------------------------------------------------------------
(* The steps of CreatePair *)

\* CreatePair: the payment is one coin of the fee.
LEMMA CreatePairStep ==
    ASSUME IInv, NEW sender \in People, NEW type \in PairTypes, NEW assets \in AssetInfos,
           NEW paid \in Coins \cup {None}, CreatePair(sender, type, assets, paid)
    PROVE  IInv'
<1>1. /\ Idle
      /\ PaymentAccepted(paid)
      /\ type \in DOMAIN pairConfigs
      /\ tmpPairKey' = pair_key(assets)
      /\ purse' = [purse EXCEPT ![paid.denom] = @ + paid.amount]
      /\ message' = [step |-> "create_pool", code |-> pairConfigs[type].code,
                     assets |-> assets, before |-> Snapshot]
      /\ UNCHANGED <<owner, generator, pairConfigs, pairs, pools, creationFee, inactive>>
  BY DEF CreatePair, TmpPairKey, settings
<1>2. /\ paid \in Coins /\ paid.amount = Fee(paid.denom)
      /\ creationFee # None /\ paid.denom \in DOMAIN creationFee
  BY <1>1 DEF PaymentAccepted, Fee
<1>3. paid.denom \in FeeDenoms /\ paid.amount \in Nat
  BY <1>2, BoundsAssumption DEF Coins
<1>4. /\ message'.step = "create_pool"
      /\ message'.code = pairConfigs[type].code
      /\ message'.assets = assets
      /\ message'.before.pairs = pairs
      /\ message'.before.pools = pools
      /\ message'.before.tmpPairKey = tmpPairKey
      /\ message'.before.purse = purse
  BY <1>1 DEF Snapshot
<1>5. TypeOK'
  BY <1>1, <1>3, KeyOfAssets DEF IInv, TypeOK, Registered
<1>6. Consistent(pairs, pools)'
  BY <1>1 DEF IInv, Consistent, EntryRight, IdRight
<1>7. SnapshotRight'
  <2>1. Consistent(message.before.pairs, message.before.pools)'
    BY <1>1, <1>4 DEF IInv, Consistent, EntryRight, IdRight
  <2>2. \A i \in 1 .. Len(pools) : IdKnown(pools, i)
    BY <1>1 DEF IInv, MessageRight
  <2>3. \A i \in 1 .. Len(message'.before.pools) : IdKnown(message.before.pools, i)'
    BY <1>4, <2>2 DEF IdKnown
  <2>4. QED
    BY <1>4, <2>1, <2>3 DEF IInv, TypeOK, SnapshotRight
<1>8. CreatingPool'
  <2>1. \A d \in FeeDenoms : purse'[d] = purse[d] + IF d = paid.denom THEN Fee(d) ELSE 0
    BY <1>1, <1>2, <1>3, FeeIsAmount DEF IInv, TypeOK
  <2>2. \A d \in FeeDenoms : Fee(d)' = Fee(d)
    BY <1>1 DEF Fee
  <2>3. pairConfigs[type].code \in Codes
    BY <1>1 DEF IInv, TypeOK, PairConfigs
  <2>4. QED
    BY <1>1, <1>2, <1>4, <2>1, <2>2, <2>3 DEF IInv, MessageRight, CreatingPool, IdKnown
<1>9. MessageRight'
  BY <1>4, <1>7, <1>8 DEF MessageRight, Idle
<1>10. QED
  BY <1>5, <1>6, <1>9 DEF IInv

\* The snapshot is still right if the message keeps it.
LEMMA SnapshotKept ==
    ASSUME SnapshotRight, message'.before = message.before, UNCHANGED inactive
    PROVE  SnapshotRight'
BY DEF SnapshotRight, Consistent, EntryRight, IdRight

\* The DEX creates the pool: the new contract is not registered yet and knows no id.
LEMMA DexCreatesPoolStep ==
    ASSUME IInv, DexCreatesPool
    PROVE  IInv'
<1> DEFINE p == [assets |-> message.assets, code |-> message.code, byFactory |-> TRUE,
                 poolId |-> None]
<1>1. /\ message.step = "create_pool"
      /\ ~Idle
      /\ SnapshotRight
      /\ CreatingPool
  BY DEF DexCreatesPool, IInv, MessageRight, Idle
<1>2. p \in Pools /\ p.poolId = None /\ p.byFactory /\ p.assets = message.assets
  BY <1>1 DEF Pools, CreatingPool
<1>3. /\ \A d \in FeeDenoms : Fee(d) <= purse[d]
      /\ purse' = [d \in FeeDenoms |-> purse[d] - Fee(d)]
      /\ pools' = Append(pools, p)
      /\ message' = [step |-> "reply", pool |-> Len(pools'), before |-> message.before]
      /\ UNCHANGED <<owner, generator, pairConfigs, pairs, tmpPairKey, creationFee, inactive>>
  BY DEF DexCreatesPool, NewPool, settings, registry
<1> HIDE DEF p
<1>4. /\ Consistent(pairs, Append(pools, p))
      /\ Len(pools') = Len(pools) + 1
      /\ pools'[Len(pools) + 1] = p
      /\ \A i \in 1 .. Len(pools) : pools'[i] = pools[i]
      /\ Len(pools) \in Nat
  BY <1>2, <1>3, AppendedPool DEF IInv, TypeOK
<1>5. Consistent(pairs, pools)'
  BY <1>3, <1>4 DEF Consistent, EntryRight
<1>6. TypeOK'
  <2>1. purse' \in [FeeDenoms -> Nat]
    BY <1>3, FeeIsAmount DEF IInv, TypeOK
  <2>2. QED
    BY <1>3, <1>4, <1>5, <2>1 DEF IInv, TypeOK, Consistent, Registered
<1>7. message'.step = "reply" /\ message'.pool = Len(pools') /\ message'.before = message.before
  BY <1>3
<1>8. SnapshotRight'
  BY <1>1, <1>3, <1>7, SnapshotKept
<1>9. PoolCreated'
  <2>1. PICK paid \in DOMAIN creationFee : \A d \in FeeDenoms :
           purse[d] = message.before.purse[d] + IF d = paid THEN Fee(d) ELSE 0
    BY <1>1 DEF CreatingPool
  <2>2. \A d \in FeeDenoms : Fee(d)' = Fee(d)
    BY <1>3 DEF Fee
  <2>3. \A d \in FeeDenoms :
           purse'[d] = message'.before.purse[d] - IF d = paid THEN 0 ELSE Fee(d)
    BY <1>1, <1>3, <1>7, <2>1, FeeIsAmount DEF IInv, SnapshotRight
  <2>4. \A i \in 1 .. Len(pools') - 1 : IdKnown(pools, i)'
    BY <1>1, <1>4 DEF CreatingPool, IdKnown
  <2>5. creationFee' # None /\ \E q \in DOMAIN creationFee' : \A d \in FeeDenoms :
           purse'[d] = message'.before.purse[d] - IF d = q THEN 0 ELSE Fee(d)'
    BY <1>1, <1>3, <2>1, <2>2, <2>3 DEF CreatingPool
  <2>6. QED
    BY <1>2, <1>4, <1>7, <2>4, <2>5 DEF PoolCreated
<1>10. Replying'
  BY <1>1, <1>2, <1>3, <1>4 DEF Replying, CreatingPool, IInv, TypeOK
<1>11. MessageRight'
  BY <1>7, <1>8, <1>9, <1>10 DEF MessageRight, Idle
<1>12. QED
  BY <1>5, <1>6, <1>11 DEF IInv

\* The reply: the last pool is registered under its own key.
LEMMA ReplyRegistersStep ==
    ASSUME IInv, ReplyRegisters
    PROVE  IInv'
<1>1. /\ message.step = "reply"
      /\ ~Idle
      /\ SnapshotRight
      /\ PoolCreated
      /\ Replying
  BY DEF ReplyRegisters, IInv, MessageRight, Idle
<1>2. /\ Registered' = Registered \cup {tmpPairKey}
      /\ \A k \in Registered' :
            pairs'[k] = IF k = tmpPairKey THEN message.pool ELSE pairs[k]
      /\ message' = [step |-> "set_pool_id", pool |-> message.pool, before |-> message.before]
      /\ UNCHANGED <<owner, generator, pairConfigs, tmpPairKey, pools, creationFee, purse,
                    inactive>>
  BY DEF ReplyRegisters, Registered, settings, dex
<1>3. /\ message.pool = Len(pools)
      /\ Len(pools) \in 1 .. Len(pools)
      /\ pools[Len(pools)] \in Pools
  BY <1>1 DEF PoolCreated, IInv, TypeOK
<1>4. tmpPairKey \in Keys
  BY <1>1, <1>3, KeyOfAssets DEF Replying, Pools
<1>5. \A key \in Registered' : EntryRight(pairs, pools, key)'
  <2> SUFFICES ASSUME NEW key \in Registered' PROVE EntryRight(pairs, pools, key)'
    OBVIOUS
  <2>1. CASE key = tmpPairKey
    BY <1>1, <1>2, <1>3, <2>1 DEF EntryRight, PoolCreated, Replying
  <2>2. CASE key # tmpPairKey
    <3>1. EntryRight(pairs, pools, key)
      BY <1>2, <2>2 DEF IInv, Consistent, Registered
    <3>2. QED
      BY <1>2, <2>2, <3>1 DEF EntryRight
  <2>3. QED
    BY <2>1, <2>2
<1>6. Consistent(pairs, pools)'
  BY <1>2, <1>4, <1>5 DEF IInv, Consistent, IdRight, Registered
<1>7. TypeOK'
  BY <1>2, <1>3, <1>4 DEF IInv, TypeOK
<1>8. /\ message'.step = "set_pool_id"
      /\ message'.pool = message.pool
      /\ message'.before = message.before
  BY <1>2
<1>9. SnapshotRight'
  BY <1>1, <1>2, <1>8, SnapshotKept
<1>10. PoolCreated'
  BY <1>1, <1>2, <1>8 DEF PoolCreated, IdKnown, Fee
<1>11. MessageRight'
  BY <1>8, <1>9, <1>10 DEF MessageRight, Idle
<1>12. QED
  BY <1>6, <1>7, <1>11 DEF IInv

\* SetPoolId: between messages nobody is the factory; in the message the call names the
\* last pool and its id.
LEMMA SetPoolIdStep ==
    ASSUME IInv, SetPoolId
    PROVE  IInv'
<1>1. PICK call \in SetPoolIdCalls :
         /\ SetPoolIdAllowed(call)
         /\ pools' = [pools EXCEPT ![call.pool].poolId = call.id]
  BY DEF SetPoolId
<1>2. /\ message.step = "set_pool_id"
      /\ call.pool = Len(pools)
      /\ call.id = Len(pools)
  <2>1. ~Idle
    BY <1>1 DEF SetPoolIdCalls, SetPoolIdAllowed
  <2>2. /\ message.step = "set_pool_id"
        /\ call.pool = message.pool
        /\ call.id = message.pool
    BY <1>1, <2>1 DEF SetPoolIdCalls
  <2>3. QED
    BY <2>2 DEF IInv, MessageRight, PoolCreated
<1>3. PoolCreated
  BY <1>2 DEF IInv, MessageRight
<1> DEFINE n == Len(pools)
<1>4. /\ n \in 1 .. n
      /\ pools \in Seq(Pools)
      /\ pools[n] \in Pools
      /\ pools[n].byFactory
  BY <1>3 DEF IInv, TypeOK, PoolCreated
<1>5. [pools[n] EXCEPT !.poolId = n] \in Pools
  BY <1>4 DEF Pools
<1>6. pools' = [pools EXCEPT ![n] = [pools[n] EXCEPT !.poolId = n]]
  BY <1>1, <1>2
<1>7. /\ pools' \in Seq(Pools)
      /\ Len(pools') = n
      /\ \A i \in 1 .. n : i # n => pools'[i] = pools[i]
      /\ pools'[n] = [pools[n] EXCEPT !.poolId = n]
  BY <1>4, <1>5, <1>6
<1>8. /\ pools'[n].poolId = n
      /\ pools'[n].byFactory
      /\ pools'[n].assets = pools[n].assets
  BY <1>4, <1>7 DEF Pools
<1>9. /\ message' = NoMessage
      /\ UNCHANGED <<owner, generator, pairConfigs, pairs, tmpPairKey, creationFee, purse,
                    inactive>>
  BY DEF SetPoolId, settings, registry
<1>10. TypeOK'
  BY <1>7, <1>9 DEF IInv, TypeOK, Registered
<1> HIDE DEF n
<1>11. \A i \in 1 .. n : /\ pools'[i].assets = pools[i].assets
                          /\ pools'[i].byFactory = pools[i].byFactory
  BY <1>4, <1>7, <1>8
<1>12. Consistent(pairs, pools)'
  <2>1. \A key \in Registered : EntryRight(pairs, pools, key)'
    BY <1>7, <1>9, <1>11 DEF IInv, Consistent, EntryRight, Registered, n
  <2>2. \A i \in 1 .. n : IdRight(pools, i)'
    BY <1>7, <1>8 DEF IInv, Consistent, IdRight, n
  <2>3. QED
    BY <1>7, <1>9, <2>1, <2>2 DEF IInv, Consistent, Registered, n
<1>13. MessageRight'
  <2>1. \A i \in 1 .. n : IdKnown(pools, i)'
    <3> SUFFICES ASSUME NEW i \in 1 .. n PROVE IdKnown(pools, i)'
      OBVIOUS
    <3>1. CASE i = n
      BY <1>8, <3>1 DEF IdKnown
    <3>2. CASE i # n
      <4>1. i \in 1 .. Len(pools) - 1
        BY <1>4, <3>2 DEF n
      <4>2. IdKnown(pools, i)
        BY <1>3, <4>1 DEF PoolCreated
      <4>3. QED
        BY <1>7, <3>2, <4>2 DEF IdKnown
    <3>3. QED
      BY <3>1, <3>2
  <2>2. QED
    BY <1>7, <1>9, <2>1 DEF MessageRight, Idle, NoMessage
<1>14. QED
  BY <1>10, <1>12, <1>13 DEF IInv

\* A failure of SetPoolId is passed through: only a contract that cannot know its id is
\* left without.
LEMMA ReplySetPoolIdFailedStep ==
    ASSUME IInv, ReplySetPoolIdFailed
    PROVE  IInv'
<1>1. /\ message.step = "set_pool_id"
      /\ ~Idle
      /\ PoolCreated
  BY DEF ReplySetPoolIdFailed, IInv, MessageRight, Idle
<1>2. /\ message' = NoMessage
      /\ UNCHANGED <<owner, generator, pairConfigs, pairs, tmpPairKey, pools, creationFee,
                    purse, inactive>>
  BY DEF ReplySetPoolIdFailed, settings, registry, dex
<1> DEFINE n == Len(pools)
           call == [fromFactory |-> TRUE, pool |-> n, id |-> n]
<1>3. call \in SetPoolIdCalls /\ call.fromFactory /\ call.pool = n
  BY <1>1 DEF SetPoolIdCalls, PoolCreated, IInv, TypeOK
<1>4. pools[n].code \notin Supporting
  BY <1>1, <1>3 DEF ReplySetPoolIdFailed, SetPoolIdAllowed, PoolCreated
<1>5. TypeOK'
  BY <1>2 DEF IInv, TypeOK, Registered
<1>6. Consistent(pairs, pools)'
  BY <1>2 DEF IInv, Consistent, EntryRight, IdRight
<1>7. MessageRight'
  <2>1. \A i \in 1 .. n : IdKnown(pools, i)
    BY <1>1, <1>4 DEF PoolCreated, IdKnown, IInv, TypeOK
  <2>2. QED
    BY <1>2, <2>1 DEF MessageRight, Idle, NoMessage, IdKnown
<1>8. QED
  BY <1>5, <1>6, <1>7 DEF IInv

\* An error: the snapshot comes back.
LEMMA RollbackStep ==
    ASSUME IInv, Rollback
    PROVE  IInv'
<1>1. SnapshotRight
  BY DEF Rollback, IInv, MessageRight
<1>2. /\ pairs' = message.before.pairs
      /\ tmpPairKey' = message.before.tmpPairKey
      /\ pools' = message.before.pools
      /\ purse' = message.before.purse
      /\ message' = NoMessage
      /\ UNCHANGED <<owner, generator, pairConfigs, creationFee, inactive>>
  BY DEF Rollback, settings
<1>3. Consistent(pairs, pools)'
  BY <1>1, <1>2 DEF SnapshotRight, Consistent, EntryRight, IdRight
<1>4. TypeOK'
  BY <1>1, <1>2, <1>3 DEF SnapshotRight, Consistent, EntryRight, IInv, TypeOK, Registered
<1>5. MessageRight'
  BY <1>1, <1>2 DEF SnapshotRight, MessageRight, Idle, NoMessage, IdKnown
<1>6. QED
  BY <1>3, <1>4, <1>5 DEF IInv

----------------------------------------------------------------------------
(* Theorems *)

\* Every step keeps the invariant.
LEMMA NextStep == IInv /\ [Next]_vars => IInv'
<1> SUFFICES ASSUME IInv, [Next]_vars PROVE IInv'
  OBVIOUS
<1>1. CASE \E sender \in People : Execute(sender)
  BY <1>1, OutsideStep, DeregisterStep, CreatePairStep DEF Execute
<1>2. CASE DexCreatesPool
  BY <1>2, DexCreatesPoolStep
<1>3. CASE ReplyRegisters
  BY <1>3, ReplyRegistersStep
<1>4. CASE SetPoolId
  BY <1>4, SetPoolIdStep
<1>5. CASE ReplySetPoolIdFailed
  BY <1>5, ReplySetPoolIdFailedStep
<1>6. CASE Rollback
  BY <1>6, RollbackStep
<1>7. CASE OwnerChanges \/ Donate \/ ParamsChange
  BY <1>7, OutsideStep
<1>8. CASE \E assets \in AssetInfos, code \in Codes : UserCreatesPool(assets, code)
  BY <1>8, UserCreatesPoolStep
<1>9. CASE UNCHANGED vars
  BY <1>9 DEF vars, IInv, TypeOK, Registered, Consistent, EntryRight, IdRight, MessageRight, Idle,
     IdKnown, SnapshotRight, CreatingPool, Fee, PoolCreated, Replying
<1>10. QED
  BY <1>1, <1>2, <1>3, <1>4, <1>5, <1>6, <1>7, <1>8, <1>9 DEF Next

\* The invariant holds in every reachable state of the factory.
THEOREM FactoryInvariance == Spec => []IInv
<1>1. QED
  BY InitHolds, NextStep, PTL DEF Spec

\* Every registered pair is a contract that exists, and the factory's account is never
\* overdrawn.
THEOREM FactoryTypeCorrect == Spec => []TypeOK
<1>1. IInv => TypeOK
  BY DEF IInv
<1>2. QED
  BY <1>1, FactoryInvariance, PTL

\* A pair is registered under the coins it trades, whatever failed, was deregistered or
\* was created around the factory.
THEOREM RegistryIsFaithful == Spec => []RegistryFaithful
<1>1. IInv => RegistryFaithful
  BY DEF IInv, Consistent, EntryRight, RegistryFaithful, Registered
<1>2. QED
  BY <1>1, FactoryInvariance, PTL

\* The factory's pairs, and no others, know their pool ids.
THEOREM PoolIdsRight == Spec => []PairsKnowTheirPool
<1>1. IInv => PairsKnowTheirPool
  BY DEF IInv, Consistent, IdRight, MessageRight, IdKnown, PairsKnowTheirPool
<1>2. QED
  BY <1>1, FactoryInvariance, PTL

\* A CreatePair leaves of the factory's account what it was, less the coins of the fee that
\* were not sent, however many coins the fee is in.
THEOREM PaymentPassedOn == Spec => FeePassedOn
<1> DEFINE OthersTaken ==
              \/ purse' = message.before.purse
              \/ /\ creationFee # None
                 /\ \E paid \in DOMAIN creationFee : \A d \in FeeDenoms :
                       purse'[d] = message.before.purse[d] - IF d = paid THEN 0 ELSE Fee(d)
<1>1. ASSUME IInv, [Next]_vars PROVE [~Idle /\ Idle' => OthersTaken]_vars
  <2> SUFFICES ASSUME Next, ~Idle, Idle'
               PROVE  OthersTaken
    BY <1>1
  <2>1. CASE SetPoolId
    <3>1. message.step = "set_pool_id"
      BY <2>1 DEF SetPoolId, SetPoolIdCalls
    <3>2. QED
      BY <1>1, <2>1, <3>1 DEF SetPoolId, IInv, MessageRight, PoolCreated
  <2>2. CASE ReplySetPoolIdFailed
    BY <1>1, <2>2 DEF ReplySetPoolIdFailed, dex, IInv, MessageRight, PoolCreated
  <2>3. CASE Rollback
    BY <2>3 DEF Rollback
  <2>4. CASE DexCreatesPool \/ ReplyRegisters
    <3>1. DexCreatesPool => message'.step = "reply"
      BY DEF DexCreatesPool
    <3>2. ReplyRegisters => message'.step = "set_pool_id"
      BY DEF ReplyRegisters
    <3>3. QED
      BY <2>4, <3>1, <3>2 DEF Idle
  <2>5. QED
    BY <2>1, <2>2, <2>3, <2>4 DEF Next, Execute, UpdateConfig, UpdatePairConfig, Deregister,
       CreatePair, OwnerChanges, UserCreatesPool, Donate, ParamsChange
<1>2. QED
  BY <1>1, FactoryInvariance, PTL DEF Spec, FeePassedOn

----------------------------------------------------------------------------
(* Refinement: the steps of CreatePair implement one registration *)

\* A set of positions has a first one.
LEMMA FirstPosition ==
    ASSUME NEW S \in SUBSET Nat, S # {}
    PROVE  \E n \in S : \A k \in S : n <= k
<1> DEFINE R == OpToRel(<, Nat)
<1>1. IsWellFoundedOn(R, Nat)
  BY NatLessThanWellFounded
<1>2. ASSUME NEW n \in Nat, NEW k \in Nat PROVE n < k => <<n, k>> \in R
  BY DEF OpToRel
<1> HIDE DEF R
<1>3. PICK n \in S : \A k \in S : ~ (<<k, n>> \in R)
  BY <1>1, WFMin
<1>4. ASSUME NEW k \in S PROVE n <= k
  <2>1. ~ (k < n)
    BY <1>2, <1>3
  <2> QED BY <2>1
<1> QED BY <1>4

\* Of two denoms at most one comes before the other ...
LEMMA BeforeAntisymmetric ==
    ASSUME NEW s \in Seq(Nat), NEW t \in Seq(Nat), Before(s, t), Before(t, s)
    PROVE  FALSE
<1>1. PICK i \in 1 .. Len(t) :
         /\ i <= Len(s) + 1
         /\ \A j \in 1 .. i - 1 : s[j] = t[j]
         /\ i <= Len(s) => s[i] < t[i]
  BY DEF Before
<1>2. PICK k \in 1 .. Len(s) :
         /\ k <= Len(t) + 1
         /\ \A j \in 1 .. k - 1 : t[j] = s[j]
         /\ k <= Len(t) => t[k] < s[k]
  BY DEF Before
<1>3. s[i] \in Nat \/ i > Len(s)
  BY <1>1
<1>4. t[k] \in Nat \/ k > Len(t)
  BY <1>2
<1>5. CASE i < k
  BY <1>1, <1>2, <1>3, <1>5
<1>6. CASE k < i
  BY <1>1, <1>2, <1>4, <1>6
<1>7. CASE i = k
  <2>1. s[i] \in Nat /\ t[i] \in Nat
    BY <1>1, <1>2, <1>7
  <2> QED BY <1>1, <1>2, <1>7, <2>1
<1> QED BY <1>5, <1>6, <1>7

\* ... and at least one, if they differ.
LEMMA BeforeTotal ==
    ASSUME NEW s \in Seq(Nat), NEW t \in Seq(Nat), s # t
    PROVE  Before(s, t) \/ Before(t, s)
<1> DEFINE Same(i) == i <= Len(s) /\ i <= Len(t) /\ s[i] = t[i]
           Apart == {i \in Nat \ {0} : ~ Same(i)}
<1>1. Len(s) \in Nat /\ Len(t) \in Nat
  OBVIOUS
<1>2. Len(s) + 1 \in Apart
  BY <1>1
<1>3. PICK i \in Apart : \A k \in Apart : i <= k
  BY <1>2, FirstPosition
<1>4. \A j \in 1 .. i - 1 : j <= Len(s) /\ j <= Len(t) /\ s[j] = t[j]
  BY <1>3
<1>5. i \in Nat \ {0} /\ i <= Len(s) + 1 /\ i <= Len(t) + 1
  <2>1. Len(t) + 1 \in Apart
    BY <1>1
  <2> QED BY <1>2, <1>3, <2>1
<1>6. ~ Same(i)
  BY <1>3
<1> HIDE DEF Apart
<1>7. CASE i > Len(s) /\ i > Len(t)
  <2>1. Len(s) = Len(t) /\ i = Len(s) + 1
    BY <1>1, <1>5, <1>7
  <2>2. \A j \in 1 .. Len(s) : s[j] = t[j]
    BY <1>1, <1>4, <2>1
  <2> QED BY <2>1, <2>2
<1>8. CASE i > Len(s) /\ i <= Len(t)
  BY <1>1, <1>4, <1>5, <1>8 DEF Before
<1>9. CASE i <= Len(s) /\ i > Len(t)
  BY <1>1, <1>4, <1>5, <1>9 DEF Before
<1>10. CASE i <= Len(s) /\ i <= Len(t)
  <2>1. s[i] \in Nat /\ t[i] \in Nat /\ s[i] # t[i]
    BY <1>5, <1>6, <1>10
  <2>2. CASE s[i] < t[i]
    BY <1>4, <1>5, <1>10, <2>2 DEF Before
  <2>3. CASE t[i] < s[i]
    BY <1>4, <1>5, <1>10, <2>3 DEF Before
  <2> QED BY <2>1, <2>2, <2>3
<1> QED BY <1>1, <1>5, <1>7, <1>8, <1>9, <1>10

\* A pair has one key, in whichever order its coins are given.
LEMMA KeySymmetric ==
    ASSUME NEW a \in ValidInfos, NEW b \in ValidInfos, CoinsOf(a) = CoinsOf(b)
    PROVE  pair_key(a) = pair_key(b)
<1>1. /\ a[1] \in Seq(Nat) /\ a[2] \in Seq(Nat) /\ a[1] # a[2]
      /\ \/ b[1] = a[1] /\ b[2] = a[2]
         \/ b[1] = a[2] /\ b[2] = a[1]
  BY DenomsAssumption DEF ValidInfos, AssetInfos, CoinsOf
<1>2. ~ (Before(a[1], a[2]) /\ Before(a[2], a[1]))
  BY <1>1, BeforeAntisymmetric
<1>3. Before(a[1], a[2]) \/ Before(a[2], a[1])
  BY <1>1, BeforeTotal
<1> QED BY <1>1, <1>2, <1>3 DEF pair_key

\* pair_key concatenates: the registry is one by coins as long as no two pairs of coins have
\* the same key.
DistinctKeys ==
    \A a, b \in ValidInfos : pair_key(a) = pair_key(b) => CoinsOf(a) = CoinsOf(b)

\* A lookup finds exactly the coins of the keys, and under them what the keys map to.
LookupRight(p) ==
    /\ \A m : m \in DOMAIN Lookup(p)
              <=> \E a \in ValidInfos : pair_key(a) \in DOMAIN p /\ m = CoinsOf(a)
    /\ \A a \in ValidInfos : pair_key(a) \in DOMAIN p => Lookup(p)[CoinsOf(a)] = p[pair_key(a)]
    /\ Lookup(p) = [m \in DOMAIN Lookup(p) |-> Lookup(p)[m]]

\* Whichever of the two orders of the coins the lookup chooses.
LEMMA LookupFinds == ASSUME NEW p PROVE LookupRight(p)
<1> DEFINE known == {a \in ValidInfos : KeyOf[a] \in DOMAIN p}
           first(m) == CHOOSE a \in known : CoinsOf(a) = m
<1>1. \A a \in ValidInfos : KeyOf[a] = pair_key(a)
  BY DEF KeyOf
<1>2. known = {b \in ValidInfos : pair_key(b) \in DOMAIN p}
  BY <1>1
<1>3. Lookup(p) = [m \in {CoinsOf(a) : a \in known} |-> p[KeyOf[first(m)]]]
  BY DEF Lookup
<1>4. ASSUME NEW a \in ValidInfos, pair_key(a) \in DOMAIN p
      PROVE  Lookup(p)[CoinsOf(a)] = p[pair_key(a)]
  <2>1. a \in known
    BY <1>2, <1>4
  <2>2. first(CoinsOf(a)) \in known /\ CoinsOf(first(CoinsOf(a))) = CoinsOf(a)
    BY <2>1
  <2> HIDE DEF first
  <2>3. first(CoinsOf(a)) \in ValidInfos
    BY <2>2
  <2>4. KeyOf[first(CoinsOf(a))] = pair_key(a)
    BY <1>1, <2>2, <2>3, KeySymmetric
  <2> HIDE DEF known
  <2> QED BY <1>3, <2>1, <2>4
<1> HIDE DEF known, first
<1>5. DOMAIN Lookup(p) = {CoinsOf(a) : a \in known}
  BY <1>3
<1>6. Lookup(p) = [m \in DOMAIN Lookup(p) |-> Lookup(p)[m]]
  BY <1>3
<1> QED BY <1>2, <1>4, <1>5, <1>6 DEF LookupRight

\* Without a key, its market is gone and no other.
LEMMA LookupWithout ==
    ASSUME DistinctKeys, NEW p, NEW q, NEW a \in ValidInfos,
           DOMAIN q = DOMAIN p \ {pair_key(a)},
           \A k \in DOMAIN q : q[k] = p[k]
    PROVE  /\ DOMAIN Lookup(q) = DOMAIN Lookup(p) \ {CoinsOf(a)}
           /\ \A m \in DOMAIN Lookup(q) : Lookup(q)[m] = Lookup(p)[m]
<1>found. LookupRight(p) /\ LookupRight(q)
  BY LookupFinds
<1>2. \A b \in ValidInfos : pair_key(b) = pair_key(a) <=> CoinsOf(b) = CoinsOf(a)
  BY KeySymmetric DEF DistinctKeys
<1>3. DOMAIN Lookup(q) = DOMAIN Lookup(p) \ {CoinsOf(a)}
  BY <1>2, <1>found DEF LookupRight
<1>4. ASSUME NEW m \in DOMAIN Lookup(q) PROVE Lookup(q)[m] = Lookup(p)[m]
  <2>1. PICK b \in ValidInfos : pair_key(b) \in DOMAIN q /\ m = CoinsOf(b)
    BY <1>found DEF LookupRight
  <2> QED BY <2>1, <1>found DEF LookupRight
<1> QED BY <1>3, <1>4, <1>found DEF LookupRight

\* Of two registries, q has one key more than p.
OneKeyMore(p, q, key) ==
    /\ key \notin DOMAIN p
    /\ DOMAIN q = DOMAIN p \cup {key}
    /\ \A k \in DOMAIN p : q[k] = p[k]

\* With a new key, its market is new and no other changes.
LEMMA LookupWith ==
    ASSUME DistinctKeys, NEW p, NEW q, NEW a \in ValidInfos, OneKeyMore(p, q, pair_key(a))
    PROVE  /\ CoinsOf(a) \notin DOMAIN Lookup(p)
           /\ DOMAIN Lookup(q) = DOMAIN Lookup(p) \cup {CoinsOf(a)}
           /\ \A m \in DOMAIN Lookup(q) :
                 Lookup(q)[m] = IF m = CoinsOf(a) THEN q[pair_key(a)] ELSE Lookup(p)[m]
<1>found. LookupRight(p) /\ LookupRight(q)
  BY LookupFinds
<1>1. \A b \in ValidInfos : pair_key(b) = pair_key(a) <=> CoinsOf(b) = CoinsOf(a)
  BY KeySymmetric DEF DistinctKeys
<1>2. CoinsOf(a) \notin DOMAIN Lookup(p)
  BY <1>1, <1>found DEF LookupRight, OneKeyMore
<1>3. DOMAIN Lookup(q) = DOMAIN Lookup(p) \cup {CoinsOf(a)}
  BY <1>1, <1>found DEF LookupRight, OneKeyMore
<1>4. ASSUME NEW m \in DOMAIN Lookup(q)
      PROVE  Lookup(q)[m] = IF m = CoinsOf(a) THEN q[pair_key(a)] ELSE Lookup(p)[m]
  <2>1. PICK b \in ValidInfos : pair_key(b) \in DOMAIN q /\ m = CoinsOf(b)
    BY <1>found DEF LookupRight
  <2>2. Lookup(q)[m] = q[pair_key(b)]
    BY <2>1, <1>found DEF LookupRight
  <2>3. CASE m = CoinsOf(a)
    BY <1>1, <2>1, <2>2, <2>3
  <2>4. CASE m # CoinsOf(a)
    <3>1. pair_key(b) \in DOMAIN p
      BY <1>1, <2>1, <2>4 DEF OneKeyMore
    <3>2. Lookup(p)[m] = p[pair_key(b)]
      BY <2>1, <3>1, <1>found DEF LookupRight
    <3> QED BY <1>1, <2>1, <2>2, <2>4, <3>1, <3>2 DEF OneKeyMore
  <2> QED BY <2>3, <2>4
<1> QED BY <1>2, <1>3, <1>4, <1>found DEF LookupRight

\* The pools are those before the message and one for its coins.
OnePoolMore ==
    LET before == message.before.pools IN
    /\ Len(pools) = Len(before) + 1
    /\ Len(pools) <= MaxPools
    /\ \A i \in 1 .. Len(before) : pools[i] = before[i]
    /\ pools[Len(pools)].assets \in ValidInfos

\* The registry is the one before the message and the last pool.
OnePairMore ==
    LET before == message.before.pairs
        key == pair_key(pools[Len(pools)].assets)
    IN  /\ key \notin DOMAIN before
        /\ Registered = DOMAIN before \cup {key}
        /\ \A k \in Registered : pairs[k] = IF k = key THEN Len(pools) ELSE before[k]

\* What the steps of CreatePair done so far have changed.
Underway ==
    /\ message.step = "create_pool" =>
          /\ pairs = message.before.pairs /\ pools = message.before.pools
          /\ message.assets \in ValidInfos
    /\ message.step = "reply" => pairs = message.before.pairs /\ OnePoolMore
    /\ message.step = "set_pool_id" => OnePoolMore /\ OnePairMore

\* No step of CreatePair changes more, and what fails leaves no message underway.
LEMMA UnderwayStep == IInv /\ Underway /\ [Next]_vars => Underway'
<1> SUFFICES ASSUME IInv, Underway, [Next]_vars PROVE Underway'
  OBVIOUS
<1> USE DEF settings, registry, dex
<1>1. CASE Idle'
  BY <1>1 DEF Idle, Underway
<1>2. ASSUME NEW sender \in People, NEW type \in PairTypes, NEW assets \in AssetInfos,
             NEW paid \in Coins \cup {None}, CreatePair(sender, type, assets, paid)
      PROVE  Underway'
  BY <1>2 DEF CreatePair, Snapshot, Underway, ValidInfos
<1>3. CASE DexCreatesPool
  <2>1. /\ message.step = "create_pool"
        /\ message'.step = "reply"
        /\ message'.before = message.before
        /\ pairs' = message'.before.pairs
        /\ pools = message'.before.pools
        /\ message.assets \in ValidInfos
    BY <1>3 DEF DexCreatesPool, Underway
  <2> DEFINE p == [assets |-> message.assets, code |-> message.code, byFactory |-> TRUE,
                   poolId |-> None]
  <2>2. pools' = Append(pools, p) /\ Len(pools) < MaxPools /\ p.assets = message.assets
    BY <1>3 DEF DexCreatesPool, NewPool
  <2> HIDE DEF p
  <2>3. pools \in Seq(Pools) /\ Len(pools) \in Nat
    BY DEF IInv, TypeOK
  <2>4. /\ Len(pools') = Len(pools) + 1
        /\ \A i \in 1 .. Len(pools) : pools'[i] = pools[i]
        /\ pools'[Len(pools) + 1] = p
    BY <2>2, <2>3
  <2>5. OnePoolMore'
    BY <2>1, <2>2, <2>3, <2>4, BoundsAssumption DEF OnePoolMore
  <2> QED BY <2>1, <2>5 DEF Underway
<1>4. CASE ReplyRegisters
  <2>1. /\ message.step = "reply"
        /\ message'.step = "set_pool_id"
        /\ message'.before = message.before
        /\ pools' = pools
        /\ tmpPairKey \notin Registered
        /\ pairs' = [k \in Registered \cup {tmpPairKey} |->
                        IF k = tmpPairKey THEN message.pool ELSE pairs[k]]
    BY <1>4 DEF ReplyRegisters
  <2>2. pairs = message.before.pairs /\ OnePoolMore
    BY <2>1 DEF Underway
  <2>3. message.pool = Len(pools) /\ tmpPairKey = pair_key(pools[Len(pools)].assets)
    BY <2>1 DEF IInv, MessageRight, PoolCreated, Replying
  <2>4. OnePoolMore'
    BY <2>1, <2>2 DEF OnePoolMore
  <2>5. OnePairMore'
    BY <2>1, <2>2, <2>3 DEF OnePairMore, Registered
  <2> QED BY <2>1, <2>4, <2>5 DEF Underway
<1>6. CASE UNCHANGED <<pairs, pools, message>>
  BY <1>6 DEF Underway, OnePoolMore, OnePairMore, Registered
<1>7. CASE SetPoolId \/ ReplySetPoolIdFailed \/ Rollback
  BY <1>1, <1>7 DEF SetPoolId, ReplySetPoolIdFailed, Rollback, Idle, NoMessage
<1>8. ASSUME NEW sender \in People, NEW assets \in AssetInfos, Deregister(sender, assets)
      PROVE  Idle'
  BY <1>8 DEF Deregister, Idle
<1>9. ASSUME NEW assets, NEW code, UserCreatesPool(assets, code) PROVE Idle'
  BY <1>9 DEF UserCreatesPool, Idle
<1>10. CASE \E sender \in People : Execute(sender)
  <2>1. PICK sender \in People : Execute(sender)
    BY <1>10
  <2>2. CASE UpdateConfig(sender)
    BY <1>6, <2>2 DEF UpdateConfig
  <2>3. CASE \E type \in PairTypes, config \in PairConfigs :
                UpdatePairConfig(sender, type, config)
    BY <1>6, <2>3 DEF UpdatePairConfig
  <2> QED BY <1>1, <1>2, <1>8, <2>1, <2>2, <2>3 DEF Execute
<1>11. CASE OwnerChanges \/ Donate \/ ParamsChange
  BY <1>6, <1>11 DEF OwnerChanges, Donate, ParamsChange
<1> QED
  BY <1>1, <1>3, <1>4, <1>6, <1>7, <1>9, <1>10, <1>11 DEF Next, vars

\* No message is underway at the start.
LEMMA InitUnderway == Init => Underway
  BY DEF Init, NoMessage, Underway

\* The market of a pool and whether the factory made it, for each pool.
Contracts(pls) == [i \in 1 .. Len(pls) |->
                      [market |-> CoinsOf(pls[i].assets), official |-> pls[i].byFactory]]

\* Of two lists of pools, new has one contract more than pls.
OneContractMore(pls, new, m, official) ==
    /\ pls \in Seq(Pools) /\ new \in Seq(Pools)
    /\ Len(new) = Len(pls) + 1
    /\ \A i \in 1 .. Len(pls) :
          new[i].assets = pls[i].assets /\ new[i].byFactory = pls[i].byFactory
    /\ CoinsOf(new[Len(new)].assets) = m
    /\ new[Len(new)].byFactory = official

\* The list of contracts has then that contract more.
LEMMA ContractsAppend ==
    ASSUME NEW pls, NEW new, NEW m, NEW official, OneContractMore(pls, new, m, official)
    PROVE  Contracts(new) = Append(Contracts(pls), [market |-> m, official |-> official])
<1> USE DEF OneContractMore
<1> DEFINE C == [market : {CoinsOf(a) : a \in AssetInfos}, official : BOOLEAN]
<1>1. \A p \in Pools : p.assets \in AssetInfos /\ p.byFactory \in BOOLEAN
  BY DEF Pools
<1>2. Contracts(pls) \in Seq(C) /\ Len(Contracts(pls)) = Len(pls)
  BY <1>1 DEF Contracts
<1>3. Contracts(new) \in Seq(C) /\ Len(Contracts(new)) = Len(new)
  BY <1>1 DEF Contracts
<1>4. [market |-> m, official |-> official] \in C
  BY <1>1
<1> DEFINE longer == Append(Contracts(pls), [market |-> m, official |-> official])
<1>5. longer \in Seq(C) /\ Len(longer) = Len(new)
  BY <1>2, <1>4
<1>6. ASSUME NEW i \in 1 .. Len(new) PROVE Contracts(new)[i] = longer[i]
  <2>1. CASE i = Len(new)
    BY <1>2, <1>4, <2>1 DEF Contracts
  <2>2. CASE i # Len(new)
    BY <1>2, <1>4, <2>2 DEF Contracts
  <2> QED BY <2>1, <2>2
<1> HIDE DEF longer, C
<1>7. Contracts(new) = longer
  BY <1>3, <1>5, <1>6
<1> QED BY <1>7 DEF longer

\* The markets of the registry.
MarketsOf == {CoinsOf(assets) : assets \in ValidInfos}

\* Steps inside a message, and those that touch neither registry nor pools.
LEMMA MappedUnchanged ==
    ASSUME CommittedPairs' = CommittedPairs, CommittedPools' = CommittedPools
    PROVE  UNCHANGED Registry!vars
  BY DEF Registry!vars, Lookup

\* The registry as it is found through Lookup, when CreatePair has added the pair of a.
LookupGrown(a) ==
    LET before == Lookup(message.before.pairs) IN
    /\ CoinsOf(a) \notin DOMAIN before
    /\ Lookup(pairs) = [m \in DOMAIN before \cup {CoinsOf(a)} |->
                            IF m = CoinsOf(a) THEN Len(pools) ELSE before[m]]

\* The last step of CreatePair adds one market.
LEMMA LookupGrows ==
    ASSUME DistinctKeys, NEW a \in ValidInfos,
           OneKeyMore(message.before.pairs, pairs, pair_key(a)), pairs[pair_key(a)] = Len(pools)
    PROVE  LookupGrown(a)
<1>1. /\ CoinsOf(a) \notin DOMAIN Lookup(message.before.pairs)
      /\ DOMAIN Lookup(pairs) = DOMAIN Lookup(message.before.pairs) \cup {CoinsOf(a)}
      /\ \A m \in DOMAIN Lookup(pairs) :
            Lookup(pairs)[m] =
               IF m = CoinsOf(a) THEN pairs[pair_key(a)] ELSE Lookup(message.before.pairs)[m]
  BY LookupWith
<1>2. LookupRight(pairs)
  BY LookupFinds
<1> QED BY <1>1, <1>2 DEF LookupRight, LookupGrown

\* A message that ends well, and a pool of a stranger, are one step of the registry.
LEMMA RegisterMapped ==
    ASSUME DistinctKeys, OnePoolMore, OnePairMore, PoolCreated, ~Idle, Idle',
           pools \in Seq(Pools), pools' \in Seq(Pools), message.before.pools \in Seq(Pools),
           pairs' = pairs, Len(pools') = Len(pools),
           \A i \in 1 .. Len(pools) :
              pools'[i].assets = pools[i].assets /\ pools'[i].byFactory = pools[i].byFactory
    PROVE  Registry!Next
<1> DEFINE before == message.before
<1>1. Len(pools) \in 1 .. Len(pools) /\ Len(before.pools) \in Nat
  BY DEF PoolCreated
<1>3. /\ CommittedPairs = before.pairs /\ CommittedPairs' = pairs
      /\ CommittedPools = before.pools /\ CommittedPools' = pools'
  BY DEF CommittedPairs, CommittedPools
<1>4. PICK a \in ValidInfos : a = pools[Len(pools)].assets
  BY DEF OnePoolMore
<1>5. LookupGrown(a)
  <2>1. OneKeyMore(before.pairs, pairs, pair_key(a)) /\ pairs[pair_key(a)] = Len(pools)
    BY <1>4 DEF OnePairMore, OneKeyMore, Registered
  <2> QED BY <2>1, LookupGrows
<1>6. Contracts(pools') = Append(Contracts(before.pools),
                                 [market |-> CoinsOf(a), official |-> TRUE])
  <2>1. \A i \in 1 .. Len(before.pools) :
           /\ pools'[i].assets = before.pools[i].assets
           /\ pools'[i].byFactory = before.pools[i].byFactory
    BY <1>1 DEF OnePoolMore
  <2>2. pools'[Len(pools')].assets = a /\ pools'[Len(pools')].byFactory = TRUE
    BY <1>1, <1>4 DEF PoolCreated
  <2>3. Len(pools') = Len(before.pools) + 1
    BY <1>1 DEF OnePoolMore
  <2> HIDE DEF before
  <2>4. PICK old : old = message.before.pools
    OBVIOUS
  <2>5. PICK new : new = pools'
    OBVIOUS
  <2>6. PICK m : m = CoinsOf(a)
    OBVIOUS
  <2>7. OneContractMore(old, new, m, TRUE)
    BY <2>1, <2>2, <2>3, <2>4, <2>5, <2>6 DEF before, OneContractMore
  <2>8. Contracts(new) = Append(Contracts(old), [market |-> m, official |-> TRUE])
    BY <2>7, ContractsAppend
  <2> QED BY <2>4, <2>5, <2>6, <2>8 DEF before
<1>7. Len(Contracts(before.pools)) = Len(before.pools) /\ Len(pools) = Len(before.pools) + 1
      /\ Len(before.pools) < MaxPools
  BY <1>1, BoundsAssumption DEF Contracts, OnePoolMore
<1> HIDE DEF before
<1>8. PICK m \in MarketsOf : m = CoinsOf(a)
  BY <1>4 DEF MarketsOf
<1>9. /\ Lookup(CommittedPairs) = Lookup(message.before.pairs)
      /\ Lookup(CommittedPairs)' = Lookup(pairs)
  BY <1>3 DEF before, Lookup
<1>10. m \notin Registry!Registered
  BY <1>5, <1>8, <1>9 DEF LookupGrown, Registry!Registered
<1>11. Registry!NewContract(m, TRUE)
  BY <1>3, <1>6, <1>7, <1>8 DEF Registry!NewContract, Contracts
<1>12. Len([i \in 1 .. Len(CommittedPools) |->
              [market |-> CoinsOf(CommittedPools[i].assets),
               official |-> CommittedPools[i].byFactory]]) + 1 = Len(pools)
  BY <1>3, <1>7 DEF Contracts
<1>13. Registry!Register(m)
  BY <1>5, <1>8, <1>9, <1>10, <1>11, <1>12
     DEF LookupGrown, Registry!Register, Registry!Registered
<1> QED BY <1>8, <1>13 DEF Registry!Next, MarketsOf

\* Deregister takes one market out of the registry.
LEMMA DeregisterMapped ==
    ASSUME DistinctKeys, NEW sender \in People, NEW assets \in AssetInfos,
           Deregister(sender, assets)
    PROVE  Registry!Next
<1>1. /\ assets \in ValidInfos
      /\ pair_key(assets) \in DOMAIN pairs
      /\ DOMAIN pairs' = DOMAIN pairs \ {pair_key(assets)}
      /\ \A k \in DOMAIN pairs' : pairs'[k] = pairs[k]
      /\ CommittedPairs = pairs /\ CommittedPairs' = pairs'
      /\ CommittedPools' = CommittedPools
  BY DEF Deregister, PairsWithout, Registered, ValidInfos, CommittedPairs, CommittedPools,
         Idle, dex
<1>2. Lookup(pairs') = [m \in DOMAIN Lookup(pairs) \ {CoinsOf(assets)} |-> Lookup(pairs)[m]]
  <2>1. /\ DOMAIN Lookup(pairs') = DOMAIN Lookup(pairs) \ {CoinsOf(assets)}
        /\ \A m \in DOMAIN Lookup(pairs') : Lookup(pairs')[m] = Lookup(pairs)[m]
    BY <1>1, LookupWithout
  <2>2. LookupRight(pairs')
    BY LookupFinds
  <2> QED BY <2>1, <2>2 DEF LookupRight
<1>3. CoinsOf(assets) \in DOMAIN Lookup(pairs)
  BY <1>1, LookupFinds DEF LookupRight
<1>4. Registry!Deregister(CoinsOf(assets))
  BY <1>1, <1>2, <1>3 DEF Registry!Deregister, Registry!Registered
<1> QED BY <1>1, <1>4 DEF Registry!Next

\* A pool someone else creates is a contract the registry never has.
LEMMA UserCreatesPoolMapped ==
    ASSUME IInv, IInv', NEW assets \in AssetInfos, NEW code \in Codes,
           UserCreatesPool(assets, code)
    PROVE  Registry!Next
<1> DEFINE p == [assets |-> assets, code |-> code, byFactory |-> FALSE, poolId |-> None]
<1>1. /\ assets \in ValidInfos
      /\ pools' = Append(pools, p)
      /\ Len(pools) < MaxPools
      /\ CommittedPairs' = CommittedPairs
      /\ CommittedPools = pools /\ CommittedPools' = pools'
  BY DEF UserCreatesPool, NewPool, ValidInfos, CommittedPairs, CommittedPools, Idle, registry
<1>2. p.assets = assets /\ p.byFactory = FALSE
  OBVIOUS
<1> HIDE DEF p
<1>3. pools \in Seq(Pools) /\ pools' \in Seq(Pools)
  BY DEF IInv, TypeOK
<1>4. /\ Len(pools') = Len(pools) + 1
      /\ \A i \in 1 .. Len(pools) : pools'[i] = pools[i]
      /\ pools'[Len(pools')] = p
  BY <1>1, <1>3
<1>5. Contracts(pools')
         = Append(Contracts(pools), [market |-> CoinsOf(assets), official |-> FALSE])
  <2>1. PICK old : old = pools
    OBVIOUS
  <2>2. PICK new : new = pools'
    OBVIOUS
  <2>3. PICK m : m = CoinsOf(assets)
    OBVIOUS
  <2>4. OneContractMore(old, new, m, FALSE)
    BY <1>2, <1>3, <1>4, <2>1, <2>2, <2>3 DEF OneContractMore
  <2>5. Contracts(new) = Append(Contracts(old), [market |-> m, official |-> FALSE])
    BY <2>4, ContractsAppend
  <2> QED BY <2>1, <2>2, <2>3, <2>5
<1>6. Len(Contracts(pools)) = Len(pools)
  BY <1>3 DEF Contracts
<1>7. Registry!Instantiate(CoinsOf(assets))
  BY <1>1, <1>5, <1>6
     DEF Registry!Instantiate, Registry!NewContract, Contracts, Lookup
<1> QED BY <1>1, <1>7 DEF Registry!Next

\* Every step of the factory is a step of the registry, or none.
LEMMA StepMapped ==
    ASSUME DistinctKeys
    PROVE  IInv /\ IInv' /\ Underway /\ [Next]_vars => [Registry!Next]_(Registry!vars)
<1> SUFFICES ASSUME IInv, IInv', Underway, [Next]_vars PROVE [Registry!Next]_(Registry!vars)
  OBVIOUS
<1> USE DEF settings, registry, dex
<1>1. CASE CommittedPairs' = CommittedPairs /\ CommittedPools' = CommittedPools
  BY <1>1, MappedUnchanged
<1>2. CASE UNCHANGED <<pairs, pools, message>>
  BY <1>1, <1>2 DEF CommittedPairs, CommittedPools, Idle
<1>3. CASE \E sender \in People : Execute(sender)
  <2>1. ASSUME NEW sender \in People, NEW type \in PairTypes, NEW assets \in AssetInfos,
               NEW paid \in Coins \cup {None}, CreatePair(sender, type, assets, paid)
        PROVE  CommittedPairs' = CommittedPairs /\ CommittedPools' = CommittedPools
    BY <2>1 DEF CreatePair, Snapshot, CommittedPairs, CommittedPools, Idle
  <2>2. PICK sender \in People : Execute(sender)
    BY <1>3
  <2>3. CASE UpdateConfig(sender)
    BY <1>2, <2>3 DEF UpdateConfig
  <2>4. CASE \E type \in PairTypes, config \in PairConfigs :
                UpdatePairConfig(sender, type, config)
    BY <1>2, <2>4 DEF UpdatePairConfig
  <2> QED BY <1>1, <2>1, <2>2, <2>3, <2>4, DeregisterMapped DEF Execute
<1>4. CASE OwnerChanges \/ Donate \/ ParamsChange
  BY <1>2, <1>4 DEF OwnerChanges, Donate, ParamsChange
<1>5. CASE DexCreatesPool \/ ReplyRegisters
  <2>1. ~Idle /\ ~Idle' /\ message'.before = message.before
    <3>1. CASE DexCreatesPool
      BY <3>1 DEF DexCreatesPool, Idle
    <3>2. CASE ReplyRegisters
      BY <3>2 DEF ReplyRegisters, Idle
    <3> QED BY <1>5, <3>1, <3>2
  <2> QED BY <1>1, <2>1 DEF CommittedPairs, CommittedPools
<1>6. CASE Rollback
  BY <1>1, <1>6 DEF Rollback, CommittedPairs, CommittedPools, Idle, NoMessage
<1>messages. message.step = "set_pool_id" =>
               /\ OnePoolMore /\ OnePairMore /\ PoolCreated /\ ~Idle
               /\ pools \in Seq(Pools) /\ pools' \in Seq(Pools)
               /\ message.before.pools \in Seq(Pools)
  BY DEF Underway, IInv, TypeOK, MessageRight, SnapshotRight, Consistent, Idle
<1>7. CASE SetPoolId
  <2>1. PICK call \in SetPoolIdCalls :
           /\ SetPoolIdAllowed(call)
           /\ pools' = [pools EXCEPT ![call.pool].poolId = call.id]
    BY <1>7 DEF SetPoolId
  <2>2. message.step = "set_pool_id" /\ call.pool = message.pool /\ ~Idle
    BY <2>1 DEF SetPoolIdCalls, SetPoolIdAllowed
  <2>3. Idle' /\ pairs' = pairs
    BY <1>7 DEF SetPoolId, Idle, NoMessage
  <2>4. pools \in Seq(Pools) /\ Len(pools) \in Nat
    BY DEF IInv, TypeOK
  <2>5. call.pool \in 1 .. Len(pools)
    BY <2>2, <2>4 DEF IInv, MessageRight, PoolCreated
  <2>6. Len(pools') = Len(pools)
    BY <2>1, <2>4, <2>5
  <2>7. \A i \in 1 .. Len(pools) :
           pools'[i].assets = pools[i].assets /\ pools'[i].byFactory = pools[i].byFactory
    BY <2>1, <2>4, <2>5 DEF Pools
  <2> QED BY <1>messages, <2>2, <2>3, <2>6, <2>7, RegisterMapped
<1>8. CASE ReplySetPoolIdFailed
  BY <1>messages, <1>8, RegisterMapped DEF ReplySetPoolIdFailed, Idle, NoMessage
<1>9. CASE \E assets \in AssetInfos, code \in Codes : UserCreatesPool(assets, code)
  BY <1>9, UserCreatesPoolMapped
<1> QED
  BY <1>2, <1>3, <1>4, <1>5, <1>6, <1>7, <1>8, <1>9 DEF Next, vars

\* The registry starts empty.
LEMMA InitMapped == Init => Registry!Init
<1> SUFFICES ASSUME Init PROVE Registry!Init
  OBVIOUS
<1>1. CommittedPairs = <<>> /\ CommittedPools = <<>>
  BY DEF Init, Idle, NoMessage, CommittedPairs, CommittedPools
<1>2. DOMAIN Lookup(<<>>) = {} /\ Lookup(<<>>) = [m \in DOMAIN Lookup(<<>>) |-> Lookup(<<>>)[m]]
  <2>1. DOMAIN <<>> = {}
    OBVIOUS
  <2>2. LookupRight(<<>>)
    BY LookupFinds
  <2> QED BY <2>1, <2>2 DEF LookupRight
<1>3. Lookup(<<>>) = <<>>
  BY <1>2
<1>4. [i \in 1 .. Len(CommittedPools) |->
          [market |-> CoinsOf(CommittedPools[i].assets),
           official |-> CommittedPools[i].byFactory]] = <<>>
  BY <1>1
<1> QED BY <1>1, <1>3, <1>4 DEF Registry!Init

\* As long as keys tell pairs of coins apart, the messages and replies of CreatePair implement
\* one registration: whatever fails in between, the registry is that of PairRegistry.
THEOREM RegistryAtomic ==
    ASSUME DistinctKeys
    PROVE  Spec => RegistrySpec
<1>1. Spec => []Underway
  BY InitUnderway, UnderwayStep, FactoryInvariance, PTL DEF Spec
<1> QED
  BY <1>1, InitMapped, StepMapped, FactoryInvariance, PTL DEF Spec, RegistrySpec, Registry!Spec

==============================================================================
