---------------------------- MODULE PclPairProofs ----------------------------
(***************************************************************************)
(* Theorems about the pair contract, for every set of users, every         *)
(* endowment and every curve.                                              *)
(***************************************************************************)
EXTENDS PclPair, Sums

\* Decimal division rounds down.
LEMMA DivRoundsDown ==
    ASSUME NEW a \in Nat, NEW b \in Nat \ {0}
    PROVE  a \div b \in Nat /\ (a \div b) * b <= a
  OBVIOUS

\* Naturals are closed under multiplication.
LEMMA ProductPositive ==
    ASSUME NEW x \in Nat, NEW y \in Nat
    PROVE  x * y \in Nat
  OBVIOUS

\* Multiplication by a natural keeps order.
LEMMA ScaleUp ==
    ASSUME NEW x \in Int, NEW y \in Int, NEW z \in Nat, x <= y
    PROVE  x * z <= y * z
  OBVIOUS

\* Division by a positive natural keeps order.
LEMMA ScaleDown ==
    ASSUME NEW x \in Int, NEW y \in Int, NEW z \in Nat \ {0}, x * z <= y * z
    PROVE  x <= y
  OBVIOUS

\* What a share of n of T is worth of x coins, through a Decimal ratio: a natural
\* number of coins, at most the exact share.
LEMMA ShareRoundsDown ==
    ASSUME NEW x \in Nat, NEW T \in Nat \ {0}, NEW n \in Nat
    PROVE  LET refund == (x * ((n * DecimalUnit) \div T)) \div DecimalUnit
           IN  refund \in Nat /\ refund * T <= x * n
<1> DEFINE D == DecimalUnit
           ratio == (n * D) \div T
           refund == (x * ratio) \div D
<1>1. D \in Nat \ {0}
  BY DecimalUnitAssumption
<1> HIDE DEF D
<1>2. n * D \in Nat
  BY <1>1, ProductPositive
<1>3. ratio \in Nat /\ ratio * T <= n * D
  BY <1>2, DivRoundsDown
<1> HIDE DEF ratio
<1>4. x * ratio \in Nat
  BY <1>3, ProductPositive
<1>5. refund \in Nat /\ refund * D <= x * ratio
  BY <1>1, <1>4, DivRoundsDown
<1> HIDE DEF refund
<1>6. (refund * D) * T <= (x * ratio) * T
  BY <1>1, <1>3, <1>4, <1>5, ScaleUp
<1>7. (ratio * T) * x <= (n * D) * x
  BY <1>1, <1>2, <1>3, ScaleUp
<1>8. (refund * T) * D <= (x * n) * D
  <2>1. (refund * D) * T = (refund * T) * D
    BY <1>1, <1>5
  <2>2. (x * ratio) * T = (ratio * T) * x
    BY <1>3
  <2>3. (n * D) * x = (x * n) * D
    BY <1>1
  <2>4. refund * D \in Int /\ refund * T \in Int /\ x * n \in Int
    BY <1>1, <1>5
  <2> QED
    BY <1>6, <1>7, <2>1, <2>2, <2>3, <1>1, <1>3, <1>4, <1>5
<1>9. refund * T <= x * n
  BY <1>1, <1>5, <1>8, ScaleDown
<1> QED
  BY <1>5, <1>9 DEF refund, ratio, D

\* A proper share leaves something.
LEMMA ProperShareLeavesSome ==
    ASSUME NEW x \in Nat \ {0}, NEW T \in Nat \ {0}, NEW n \in Nat, NEW r \in Nat,
           n < T, r * T <= x * n
    PROVE  r < x
<1> SUFFICES ASSUME r >= x PROVE FALSE
  OBVIOUS
<1>1. x * T <= r * T
  BY ScaleUp
<1>2. x * n < x * T
  OBVIOUS
<1> QED
  BY <1>1, <1>2

\* Moving n coins that are there keeps the balances well formed, and changes only the
\* two accounts named.
LEMMA MoveFacts ==
    ASSUME NEW b \in Holdings, NEW from \in Accounts, NEW to \in Accounts,
           NEW a \in Assets, NEW n \in Nat, n <= b[from][a]
    PROVE  /\ Move(b, from, to, a, n) \in Holdings
           /\ \A p \in Accounts, x \in Assets :
                 Move(b, from, to, a, n)[p][x] =
                    b[p][x] - (IF p = from /\ x = a THEN n ELSE 0)
                            + (IF p = to /\ x = a THEN n ELSE 0)
  BY DEF Move, Holdings

\* The same for an amount of each asset.
LEMMA MoveBothFacts ==
    ASSUME NEW b \in Holdings, NEW from \in Accounts, NEW to \in Accounts, from # to,
           NEW d \in [Assets -> Nat], \A x \in Assets : d[x] <= b[from][x],
           NEW c, c = Move(Move(b, from, to, 0, d[0]), from, to, 1, d[1])
    PROVE  /\ c \in Holdings
           /\ \A x \in Assets : c[from][x] = b[from][x] - d[x]
           /\ \A x \in Assets : c[to][x] = b[to][x] + d[x]
<1> DEFINE b1 == Move(b, from, to, 0, d[0])
<1>1. /\ b1 \in Holdings
      /\ \A p \in Accounts, x \in Assets :
            b1[p][x] = b[p][x] - (IF p = from /\ x = 0 THEN d[0] ELSE 0)
                               + (IF p = to /\ x = 0 THEN d[0] ELSE 0)
  BY MoveFacts DEF Assets
<1>2. d[1] <= b1[from][1] /\ d[1] \in Nat
  BY <1>1 DEF Assets, Holdings
<1> HIDE DEF b1
<1>3. /\ c \in Holdings
      /\ \A p \in Accounts, x \in Assets :
            c[p][x] = b1[p][x] - (IF p = from /\ x = 1 THEN d[1] ELSE 0)
                               + (IF p = to /\ x = 1 THEN d[1] ELSE 0)
  <2>1. c = Move(b1, from, to, 1, d[1])
    BY DEF b1
  <2>2. 1 \in Assets
    BY DEF Assets
  <2> QED
    BY <1>1, <1>2, <2>1, <2>2, MoveFacts
<1> QED
  BY <1>1, <1>3 DEF Assets, Holdings

----------------------------------------------------------------------------
(* The inductive invariant *)

\* Between messages nothing is in flight, in the store or in the bank.
AtRest == Idle => swapParams = None /\ order = NoOrder /\ committed.bank = bank

\* During a call the coins sent in are still in the pair's account, and a rollback takes
\* back exactly those.
InCall ==
    dex # NoCall =>
        /\ order \in Orders
        /\ \A a \in Assets : Reserve(a) \in Nat
        /\ dex.call # "refund" =>
              \A a \in Assets : committed.bank[Pair][a] = Reserve(a)
        /\ dex.call # "exact_in" => swapParams = None /\ dex.sender \in Users

IInv ==
    /\ TypeOK
    /\ AtRest
    /\ InCall
    /\ TrackedBalancesExact
    /\ MinLiquidityLocked
    /\ ReservesNeverEmpty

\* The pair, the fee collector and the users are distinct accounts.
LEMMA AccountFacts == /\ Pair \in Accounts /\ FeeCollector \in Accounts
                      /\ Users \subseteq Accounts
                      /\ Pair # FeeCollector /\ Pair \notin Users
                      /\ \A u \in Users : u # Pair /\ u # FeeCollector
  BY AccountsAssumption DEF Accounts

\* The state a fresh instantiate leaves satisfies the inductive invariant.
LEMMA InitInvariant == Init => IInv
<1> SUFFICES ASSUME Init PROVE IInv
  OBVIOUS
<1> USE DEF Init
<1>1. InitBank \in Holdings
  BY EndowmentAssumption DEF InitBank, Holdings
<1>2. TypeOK
  BY <1>1 DEF TypeOK
<1>3. AtRest /\ InCall
  BY DEF AtRest, InCall, Idle
<1>4. TrackedBalancesExact
  BY AccountsAssumption DEF TrackedBalancesExact, Reserve, InFlight, InitBank, Accounts, Assets
<1>5. MinLiquidityLocked /\ ReservesNeverEmpty
  BY DEF MinLiquidityLocked, ReservesNeverEmpty, Supply
<1> QED
  BY <1>2, <1>3, <1>4, <1>5 DEF IInv

\* Steps that leave coins, LP coins and the call alone.
LEMMA ConfigurationStep ==
    ASSUME IInv, SetPoolId \/ FactoryChanges \/ EnableAssetBalancesTracking
    PROVE  IInv'
<1> USE DEF IInv, lp
<1>1. TypeOK'
  <2>1. bank[Pair] \in [Assets -> Nat] /\ [a \in Assets |-> 0] \in [Assets -> Nat]
    BY AccountFacts DEF TypeOK, Holdings
  <2>2. CASE SetPoolId
    BY <2>2 DEF TypeOK, SetPoolId
  <2>3. CASE FactoryChanges
    BY <2>3 DEF TypeOK, FactoryChanges, FactoryRegisters, FactorySetsFeeAddress
  <2>4. CASE EnableAssetBalancesTracking
    BY <2>1, <2>4 DEF TypeOK, EnableAssetBalancesTracking
  <2> QED
    BY <2>2, <2>3, <2>4
<1>2. AtRest' /\ InCall'
  BY DEF AtRest, InCall, Idle, Reserve, InFlight,
         SetPoolId, FactoryChanges,
              FactoryRegisters, FactorySetsFeeAddress, EnableAssetBalancesTracking
<1>3. TrackedBalancesExact'
  <2>1. CASE SetPoolId \/ FactoryChanges
    BY <2>1 DEF TrackedBalancesExact, Reserve, InFlight, SetPoolId, FactoryChanges,
         FactoryRegisters, FactorySetsFeeAddress
  <2>2. CASE EnableAssetBalancesTracking
    <3>1. \A a \in Assets : bank[Pair][a] \in Nat
      BY AccountFacts DEF TypeOK, Holdings
    <3>2. \A a \in Assets : Reserve(a)' = bank[Pair][a]
      BY <2>2, <3>1 DEF Reserve, InFlight, EnableAssetBalancesTracking, Idle
    <3> QED
      BY <2>2, <3>1, <3>2 DEF TrackedBalancesExact, EnableAssetBalancesTracking
  <2> QED
    BY <2>1, <2>2
<1>4. MinLiquidityLocked' /\ ReservesNeverEmpty'
  BY DEF MinLiquidityLocked, ReservesNeverEmpty, Supply, Reserve, InFlight,
         SetPoolId, FactoryChanges,
              FactoryRegisters, FactorySetsFeeAddress, EnableAssetBalancesTracking
<1> QED
  BY <1>1, <1>2, <1>3, <1>4

\* Facts about a state between messages that every liquidity operation uses.
LEMMA RestFacts ==
    ASSUME IInv, Idle
    PROVE  /\ \A a \in Assets : Reserve(a) = bank[Pair][a] /\ bank[Pair][a] \in Nat
           /\ Supply \in Nat
           /\ swapParams = None
           /\ order = NoOrder
  BY AccountFacts DEF IInv, TypeOK, AtRest, Idle, Reserve, InFlight, Supply, Holdings

\* provide_liquidity keeps the inductive invariant: deposits and BALANCES move together,
\* and the first provider locks MinLiquidity.
LEMMA ProvideStep ==
    ASSUME IInv, NEW u \in Users, NEW d \in [Assets -> Nat],
           \A a \in Assets : d[a] <= bank[u][a],
           NEW receiver \in {u, Pair}, ProvideLiquidity(u, d, receiver)
    PROVE  IInv'
<1> USE DEF ProvideLiquidity, environment
<1>1. /\ bank' \in Holdings
      /\ \A a \in Assets : bank'[Pair][a] = bank[Pair][a] + d[a]
  BY MoveBothFacts, AccountFacts DEF IInv, TypeOK
<1>2. \A a \in Assets : Reserve(a)' = bank'[Pair][a] /\ bank'[Pair][a] \in Nat
  BY <1>1, AccountFacts DEF Reserve, InFlight, Idle, Holdings
<1>3. /\ lpHeld' \in Nat /\ lpLocked' \in Nat
      /\ lpLocked' >= lpLocked
      /\ Supply = 0 => lpLocked' >= MinLiquidity
  <2>1. PICK share \in 1 .. MaxSupply - Supply :
           IF Supply = 0 THEN MintFirst(receiver, share) ELSE MintLp(receiver, share)
    OBVIOUS
  <2>2. lpHeld \in Nat /\ lpLocked \in Nat /\ share \in Nat
    BY MaxSupplyAssumption DEF IInv, TypeOK, Supply
  <2> QED
    BY <2>1, <2>2, MinLiquidityAssumption DEF MintFirst, MintLp, Supply
<1>4. /\ [a \in Assets |-> bank'[Pair][a]] \in [Assets -> Nat]
      /\ [a \in Assets |-> 0] \in [Assets -> Nat]
  BY <1>2
<1>5. committed' = [bank |-> bank', swapParams |-> None]
  BY RestFacts DEF Commit
<1>6. TypeOK'
  BY <1>1, <1>3, <1>4, <1>5 DEF IInv, TypeOK
<1>7. AtRest' /\ InCall'
  BY <1>5, RestFacts DEF AtRest, InCall, Idle
<1>8. TrackedBalancesExact'
  BY <1>2 DEF TrackedBalancesExact
<1>9. MinLiquidityLocked'
  <2>1. lpHeld \in Nat /\ lpLocked \in Nat
    BY DEF IInv, TypeOK
  <2>2. Supply > 0 => lpLocked >= MinLiquidity
    BY DEF IInv, MinLiquidityLocked
  <2> QED
    BY <1>3, <2>1, <2>2, MinLiquidityAssumption DEF MinLiquidityLocked, Supply
<1>10. ReservesNeverEmpty'
  BY <1>1, <1>2, RestFacts DEF ReservesNeverEmpty, DepositsOk, IInv, Assets
<1> QED
  BY <1>6, <1>7, <1>8, <1>9, <1>10 DEF IInv

\* What a withdrawal pays: never more than the exact share, and never a whole reserve.
LEMMA RefundFacts ==
    ASSUME IInv, Idle, NEW amount \in 1 .. lpHeld, Supply - amount > 0
    PROVE  \A a \in Assets :
              /\ RefundAssets(amount)[a] \in Nat
              /\ RefundAssets(amount)[a] * Supply <= bank[Pair][a] * (amount - 1)
              /\ RefundAssets(amount)[a] < bank[Pair][a]
<1>1. /\ Supply \in Nat \ {0} /\ amount - 1 \in Nat /\ amount - 1 < Supply
      /\ amount \in Nat
  BY RestFacts DEF IInv, TypeOK
<1> TAKE a \in Assets
<1>2. bank[Pair][a] \in Nat \ {0}
  BY <1>1, RestFacts DEF IInv, ReservesNeverEmpty
<1>3. RefundAssets(amount)[a] =
         (bank[Pair][a] * (((amount - 1) * DecimalUnit) \div Supply)) \div DecimalUnit
  BY DEF RefundAssets
<1>4. /\ RefundAssets(amount)[a] \in Nat
      /\ RefundAssets(amount)[a] * Supply <= bank[Pair][a] * (amount - 1)
  BY <1>1, <1>2, <1>3, ShareRoundsDown
<1>5. RefundAssets(amount)[a] < bank[Pair][a]
  BY <1>1, <1>2, <1>4, ProperShareLeavesSome
<1> QED
  BY <1>4, <1>5

\* withdraw_liquidity keeps the inductive invariant: the refunds leave some of each coin.
LEMMA WithdrawStep ==
    ASSUME IInv, NEW u \in Users, NEW amount \in 1 .. lpHeld, WithdrawLiquidity(u, amount)
    PROVE  IInv'
<1> DEFINE refund == RefundAssets(amount)
<1> USE DEF WithdrawLiquidity, environment
<1>1. \A a \in Assets : refund[a] \in Nat /\ refund[a] < bank[Pair][a]
  BY RefundFacts
<1>2. refund \in [Assets -> Nat]
  BY <1>1 DEF RefundAssets
<1> HIDE DEF refund
<1>3. /\ bank' \in Holdings
      /\ \A a \in Assets : bank'[Pair][a] = bank[Pair][a] - refund[a]
  <2>1. bank' = Move(Move(bank, Pair, u, 0, refund[0]), Pair, u, 1, refund[1])
    BY DEF refund
  <2>2. \A a \in Assets : refund[a] <= bank[Pair][a]
    BY <1>1, RestFacts
  <2> QED
    BY <1>2, <2>1, <2>2, MoveBothFacts, AccountFacts DEF IInv, TypeOK
<1>4. \A a \in Assets : Reserve(a)' = bank'[Pair][a] /\ bank'[Pair][a] \in Nat \ {0}
  BY <1>1, <1>3, RestFacts DEF Reserve, InFlight, Idle
<1>5. /\ lpHeld' \in Nat /\ lpLocked' \in Nat /\ lpLocked' = lpLocked
      /\ Supply > 0
  BY DEF IInv, TypeOK, Supply
<1>6. [a \in Assets |-> bank[Pair][a] - refund[a]] \in [Assets -> Nat]
  BY <1>3, <1>4
<1>7. committed' = [bank |-> bank', swapParams |-> None]
  BY RestFacts DEF Commit
<1>8. TypeOK'
  <2>1. balances' = IF track THEN [a \in Assets |-> bank[Pair][a] - refund[a]] ELSE balances
    BY DEF refund
  <2>2. [a \in Assets |-> 0] \in [Assets -> Nat]
    OBVIOUS
  <2> QED
    BY <1>3, <1>5, <1>6, <1>7, <2>1, <2>2 DEF IInv, TypeOK
<1>9. AtRest' /\ InCall'
  BY <1>7, RestFacts DEF AtRest, InCall, Idle
<1>10. TrackedBalancesExact'
  BY <1>1, <1>3, <1>4, RestFacts DEF TrackedBalancesExact, refund
<1>11. MinLiquidityLocked' /\ ReservesNeverEmpty'
  BY <1>4, <1>5 DEF IInv, MinLiquidityLocked, ReservesNeverEmpty
<1> QED
  BY <1>8, <1>9, <1>10, <1>11 DEF IInv

\* Coins or LP coins sent to the pair keep the inductive invariant.
LEMMA DonateStep ==
    ASSUME IInv, Donate
    PROVE  IInv'
<1> USE DEF environment
<1>1. committed' = [bank |-> bank', swapParams |-> None]
  BY RestFacts DEF Donate, Commit
<1>2. CASE \E u \in Users, a \in Assets : \E n \in 1 .. bank[u][a] :
              /\ bank' = Move(bank, u, Pair, a, n)
              /\ untracked' = [untracked EXCEPT ![a] = @ + n]
              /\ UNCHANGED lp
  <2>1. PICK u \in Users, a \in Assets : \E n \in 1 .. bank[u][a] :
              /\ bank' = Move(bank, u, Pair, a, n)
              /\ untracked' = [untracked EXCEPT ![a] = @ + n]
              /\ UNCHANGED lp
    BY <1>2
  <2>2. PICK n \in 1 .. bank[u][a] :
              /\ bank' = Move(bank, u, Pair, a, n)
              /\ untracked' = [untracked EXCEPT ![a] = @ + n]
              /\ UNCHANGED lp
    BY <2>1
  <2>3. bank[u][a] \in Nat /\ n \in Nat /\ n <= bank[u][a] /\ n > 0
    BY AccountFacts DEF IInv, TypeOK, Holdings
  <2>4. /\ bank' \in Holdings
        /\ \A x \in Assets : bank'[Pair][x] = bank[Pair][x] + (IF x = a THEN n ELSE 0)
    <3>1. /\ u \in Accounts /\ Pair \in Accounts /\ u # Pair
          /\ bank \in Holdings
      BY AccountFacts DEF IInv, TypeOK
    <3>2. /\ bank' \in Holdings
          /\ \A p \in Accounts, x \in Assets :
                bank'[p][x] = bank[p][x] - (IF p = u /\ x = a THEN n ELSE 0)
                                         + (IF p = Pair /\ x = a THEN n ELSE 0)
      BY <2>2, <2>3, <3>1, MoveFacts
    <3>3. \A x \in Assets : bank[Pair][x] \in Nat
      BY <3>1 DEF Holdings
    <3> QED
      BY <2>3, <3>1, <3>2, <3>3
  <2>5. /\ untracked' \in [Assets -> Nat]
        /\ \A x \in Assets : untracked'[x] = untracked[x] + (IF x = a THEN n ELSE 0)
    BY <2>2, <2>3 DEF IInv, TypeOK
  <2>6. \A x \in Assets : /\ Reserve(x)' = Reserve(x) + (IF x = a THEN n ELSE 0)
                          /\ Reserve(x) \in Nat
    BY <2>3, <2>4, RestFacts DEF Donate, Reserve, InFlight, Idle
  <2>7. TypeOK'
    BY <1>1, <2>2, <2>4, <2>5 DEF Donate, IInv, TypeOK, lp
  <2>8. AtRest' /\ InCall'
    BY <1>1, RestFacts DEF Donate, AtRest, InCall, Idle
  <2>9. TrackedBalancesExact'
    BY <2>3, <2>5, <2>6 DEF Donate, IInv, TypeOK, TrackedBalancesExact
  <2>10. MinLiquidityLocked' /\ ReservesNeverEmpty'
    BY <2>2, <2>3, <2>6 DEF IInv, MinLiquidityLocked, ReservesNeverEmpty, Supply, lp
  <2> QED
    BY <2>7, <2>8, <2>9, <2>10 DEF IInv
<1>3. CASE /\ \E n \in 1 .. lpHeld : lpHeld' = lpHeld - n /\ lpLocked' = lpLocked + n
           /\ UNCHANGED <<bank, untracked>>
  <2>1. /\ lpHeld' \in Nat /\ lpLocked' \in Nat /\ lpLocked' >= lpLocked
        /\ Supply' = Supply
    BY <1>3 DEF IInv, TypeOK, Supply
  <2>2. TypeOK'
    BY <1>1, <1>3, <2>1 DEF Donate, IInv, TypeOK
  <2>3. AtRest' /\ InCall'
    BY <1>1, RestFacts DEF Donate, AtRest, InCall, Idle
  <2>4. \A x \in Assets : Reserve(x)' = Reserve(x)
    BY <1>3 DEF Donate, Reserve, InFlight
  <2>5. TrackedBalancesExact'
    BY <1>3, <2>4 DEF Donate, IInv, TrackedBalancesExact
  <2>6. MinLiquidityLocked' /\ ReservesNeverEmpty'
    BY <2>1, <2>4, MinLiquidityAssumption
       DEF IInv, TypeOK, MinLiquidityLocked, ReservesNeverEmpty
  <2> QED
    BY <2>2, <2>3, <2>5, <2>6 DEF IInv
<1> QED
  BY <1>2, <1>3 DEF Donate

----------------------------------------------------------------------------
(* Swaps *)

\* The user's coins reach the pair: its reserves stay what they were.
LEMMA CallStep ==
    ASSUME IInv, NEW kind \in {"exact_in", "exact_out"}, NEW sender \in Users \cup {Pair},
           NEW o \in Orders, o.amount > 0, o.amount <= bank[o.payer][o.offer],
           swapParams' \in SwapParams \cup {None},
           kind # "exact_in" => swapParams' = None /\ sender \in Users,
           Call(kind, sender, o)
    PROVE  IInv'
<1> USE DEF Call, environment, lp
<1>1. /\ o.payer \in Users /\ o.offer \in Assets /\ o.amount \in Nat /\ o.limit \in Nat
  BY DEF Orders
<1>2. /\ dex' \in Calls /\ dex' # NoCall
      /\ dex'.call = kind /\ dex'.offer = o.offer /\ dex'.amount = o.amount
      /\ dex'.sender = sender
  BY <1>1, AbsentAssumption DEF Calls
<1>3. /\ bank' \in Holdings
      /\ \A a \in Assets :
            bank'[Pair][a] = bank[Pair][a] + (IF a = o.offer THEN o.amount ELSE 0)
  <2>1. o.payer \in Accounts /\ Pair \in Accounts /\ o.payer # Pair /\ bank \in Holdings
    BY <1>1, AccountFacts DEF IInv, TypeOK
  <2>2. /\ bank' \in Holdings
        /\ \A p \in Accounts, x \in Assets :
              bank'[p][x] = bank[p][x] - (IF p = o.payer /\ x = o.offer THEN o.amount ELSE 0)
                                       + (IF p = Pair /\ x = o.offer THEN o.amount ELSE 0)
    BY <1>1, <2>1, MoveFacts
  <2>3. \A x \in Assets : bank[Pair][x] \in Nat
    BY <2>1 DEF Holdings
  <2> QED
    BY <1>1, <2>1, <2>2, <2>3
<1>4. \A a \in Assets : Reserve(a)' = Reserve(a) /\ Reserve(a)' = bank[Pair][a]
                        /\ Reserve(a)' \in Nat
  BY <1>1, <1>2, <1>3, RestFacts DEF Reserve, InFlight
<1>5. TypeOK'
  BY <1>2, <1>3 DEF IInv, TypeOK
<1>6. AtRest'
  BY <1>2 DEF AtRest, Idle
<1>7. InCall'
  BY <1>2, <1>4 DEF InCall, IInv, AtRest
<1>8. TrackedBalancesExact'
  BY <1>4 DEF IInv, TrackedBalancesExact
<1>9. MinLiquidityLocked' /\ ReservesNeverEmpty'
  BY <1>4 DEF IInv, MinLiquidityLocked, ReservesNeverEmpty, Supply
<1> QED
  BY <1>5, <1>6, <1>7, <1>8, <1>9 DEF IInv

\* Both ways to start a swap, through the contract and through the DEX, keep the
\* inductive invariant.
LEMMA SwapStep ==
    ASSUME IInv, NEW u \in Users, Swap(u)
    PROVE  IInv'
<1>1. PICK offer \in Assets, limit \in Limits : \E amount \in 1 .. bank[u][offer] :
         \/ \E to \in Users \cup {Pair, None} : ExecuteSwap(u, offer, amount, limit, to)
         \/ \E kind \in {"exact_in", "exact_out"} : DexSwap(kind, u, offer, amount, limit)
  BY DEF Swap
<1>2. PICK amount \in 1 .. bank[u][offer] :
         \/ \E to \in Users \cup {Pair, None} : ExecuteSwap(u, offer, amount, limit, to)
         \/ \E kind \in {"exact_in", "exact_out"} : DexSwap(kind, u, offer, amount, limit)
  BY <1>1
<1>3. /\ amount \in Nat /\ amount > 0 /\ amount <= bank[u][offer] /\ limit \in Nat
  BY AccountFacts, LimitsAssumption DEF IInv, TypeOK, Holdings
<1>4. ASSUME NEW to \in Users \cup {Pair, None}, ExecuteSwap(u, offer, amount, limit, to)
      PROVE  IInv'
  <2> DEFINE o == [kind |-> "exact_in", payer |-> u, receiver |-> IF to = None THEN u ELSE to,
                   offer |-> offer, amount |-> amount, limit |-> limit]
  <2>1. o \in Orders /\ o.amount = amount /\ o.payer = u /\ o.offer = offer
    BY <1>3 DEF Orders
  <2>2. Call("exact_in", Pair, o) /\ swapParams' \in SwapParams \cup {None}
    BY <1>3, <1>4 DEF ExecuteSwap, SwapParams
  <2> HIDE DEF o
  <2> QED
    BY <1>3, <2>1, <2>2, CallStep
<1>5. ASSUME NEW kind \in {"exact_in", "exact_out"}, DexSwap(kind, u, offer, amount, limit)
      PROVE  IInv'
  <2> DEFINE o == [kind |-> kind, payer |-> u, receiver |-> u,
                   offer |-> offer, amount |-> amount, limit |-> limit]
  <2>1. o \in Orders /\ o.amount = amount /\ o.payer = u /\ o.offer = offer
    BY <1>3 DEF Orders
  <2>2. Call(kind, u, o) /\ swapParams' = None
    BY <1>5, RestFacts DEF DexSwap, Call
  <2> HIDE DEF o
  <2> QED
    BY <1>3, <2>1, <2>2, CallStep
<1> QED
  BY <1>2, <1>4, <1>5

\* During a call the pools a sudo handler computes with are the reserves.
LEMMA PoolsAreReserves ==
    ASSUME IInv, dex # NoCall
    PROVE  /\ dex \in Calls /\ dex.offer \in Assets /\ Other(dex.offer) \in Assets
           /\ Other(dex.offer) # dex.offer
           /\ \A a \in Assets : PoolsBefore[a] = Reserve(a) /\ Reserve(a) \in Nat
           /\ \A a \in Assets : bank[Pair][a] \in Nat
           /\ dex.amount \in Nat
<1>1. dex \in Calls
  BY DEF IInv, TypeOK
<1>2. dex.offer \in Assets /\ dex.amount \in Nat
  BY <1>1 DEF Calls
<1>3. Other(dex.offer) \in Assets /\ Other(dex.offer) # dex.offer
  BY <1>2 DEF Other, Assets
<1>4. \A a \in Assets : PoolsBefore[a] = Reserve(a)
  BY DEF PoolsBefore, Reserve, InFlight
<1>5. \A a \in Assets : Reserve(a) \in Nat /\ bank[Pair][a] \in Nat
  BY AccountFacts DEF IInv, InCall, TypeOK, Holdings
<1> QED
  BY <1>1, <1>2, <1>3, <1>4, <1>5

\* What the sudo handlers do to the coins: the ask reserve pays, the offer reserve has
\* yet to be credited, and BALANCES are what will be left.
LEMMA PayOutFacts ==
    ASSUME IInv, dex # NoCall, NEW receiver \in Users \cup {Pair}, NEW taken \in Nat,
           NEW ask, ask = Other(dex.offer),
           NEW r \in CurveOutcomes, PayOut(receiver, taken, r)
    PROVE  /\ \A a \in Assets : PoolsBefore[a] > 0
           /\ r.dy \in Nat \ {0} /\ r.fee \in Nat /\ r.dy + r.fee < Reserve(ask)
           /\ bank' \in Holdings
           /\ bank'[Pair][dex.offer] = bank[Pair][dex.offer]
           /\ bank'[Pair][ask] = bank[Pair][ask] - r.dy - r.fee + untracked'[ask]
           /\ untracked'[dex.offer] = 0 /\ untracked'[ask] \in {0, r.dy}
           /\ untracked' \in [Assets -> Nat]
           /\ balances' \in [Assets -> Nat]
           /\ track => /\ balances'[dex.offer] = Reserve(dex.offer) + taken
                       /\ balances'[ask] = Reserve(ask) - r.dy - r.fee
<1>1. /\ r \in [dy: 1 .. PoolsBefore[ask] - 1, fee: 0 .. PoolsBefore[ask] - 1]
      /\ r.dy + r.fee < PoolsBefore[ask]
      /\ \A a \in Assets : PoolsBefore[a] > 0
  BY DEF CurveOutcomes
<1>2. r.dy \in Nat \ {0} /\ r.fee \in Nat /\ r.dy + r.fee < Reserve(ask)
  BY <1>1, PoolsAreReserves
<1>3. Reserve(ask) = bank[Pair][ask]
  BY PoolsAreReserves DEF Reserve, InFlight
<1> DEFINE b1 == Move(bank, Pair, receiver, ask, r.dy)
<1>4. receiver \in Accounts /\ Pair \in Accounts /\ FeeCollector \in Accounts
      /\ ask \in Assets /\ dex.offer \in Assets /\ ask # dex.offer /\ Pair # FeeCollector
      /\ bank \in Holdings
  BY PoolsAreReserves, AccountFacts DEF IInv, TypeOK
<1>5. /\ b1 \in Holdings
      /\ \A p \in Accounts, x \in Assets :
            b1[p][x] = bank[p][x] - (IF p = Pair /\ x = ask THEN r.dy ELSE 0)
                                  + (IF p = receiver /\ x = ask THEN r.dy ELSE 0)
  <2>1. r.dy <= bank[Pair][ask]
    BY <1>2, <1>3, PoolsAreReserves
  <2> QED
    BY <1>2, <1>4, <2>1, MoveFacts
<1>6. bank' = Move(b1, Pair, FeeCollector, ask, r.fee)
  BY DEF PayOut
<1> HIDE DEF b1
<1>7. /\ b1[Pair][ask] = bank[Pair][ask] - r.dy + (IF receiver = Pair THEN r.dy ELSE 0)
      /\ b1[Pair][dex.offer] = bank[Pair][dex.offer]
      /\ r.fee <= b1[Pair][ask]
  BY <1>2, <1>3, <1>4, <1>5, PoolsAreReserves
<1>8. /\ bank' \in Holdings
      /\ \A p \in Accounts, x \in Assets :
            bank'[p][x] = b1[p][x] - (IF p = Pair /\ x = ask THEN r.fee ELSE 0)
                                   + (IF p = FeeCollector /\ x = ask THEN r.fee ELSE 0)
  BY <1>2, <1>4, <1>5, <1>6, <1>7, MoveFacts
<1>9. /\ bank'[Pair][dex.offer] = bank[Pair][dex.offer]
      /\ bank'[Pair][ask] = bank[Pair][ask] - r.dy - r.fee + untracked'[ask]
  <2>1. untracked'[ask] = IF receiver = Pair THEN r.dy ELSE 0
    BY <1>4 DEF PayOut
  <2> QED
    BY <1>2, <1>4, <1>7, <1>8, <2>1, PoolsAreReserves
<1>10. /\ untracked'[dex.offer] = 0 /\ untracked'[ask] \in {0, r.dy}
       /\ untracked' \in [Assets -> Nat]
  BY <1>2, <1>4 DEF PayOut
<1>11. CASE track
  <2>1. balances' = [a \in Assets |-> IF a = ask THEN PoolsBefore[a] - r.dy - r.fee
                                                 ELSE PoolsBefore[a] + taken]
    BY <1>11 DEF PayOut
  <2>2. \A a \in Assets : balances'[a] \in Nat
    BY <1>2, <2>1, PoolsAreReserves
  <2>3. balances' \in [Assets -> Nat]
    BY <2>1, <2>2
  <2>4. /\ balances'[dex.offer] = Reserve(dex.offer) + taken
        /\ balances'[ask] = Reserve(ask) - r.dy - r.fee
    BY <1>4, <2>1, PoolsAreReserves
  <2> QED
    BY <1>1, <1>2, <1>8, <1>9, <1>10, <2>3, <2>4
<1>12. CASE ~track
  BY <1>1, <1>2, <1>8, <1>9, <1>10, <1>12 DEF PayOut, IInv, TypeOK
<1> QED
  BY <1>11, <1>12

\* What a sudo handler's swap comes to: taken coins of the offer become reserve, the other
\* reserve pays r out, and BALANCES are what is left but for coins paid to the pair itself.
Trades(offer, ask, taken, r) ==
    /\ offer \in Assets /\ ask = Other(offer) /\ ask # offer /\ Assets = {ask, offer}
    /\ taken \in Nat
    /\ r.dy \in Nat \ {0} /\ r.fee \in Nat /\ r.dy + r.fee < Reserve(ask)
    /\ Reserve(offer) \in Nat \ {0} /\ Reserve(ask) \in Nat
    /\ Reserve(offer)' = Reserve(offer) + taken
    /\ Reserve(ask)' = Reserve(ask) - r.dy - r.fee + untracked'[ask]
    /\ bank' \in Holdings
    /\ untracked' \in [Assets -> Nat]
    /\ untracked'[offer] = 0 /\ untracked'[ask] \in {0, r.dy}
    /\ balances' \in [Assets -> Nat]
    /\ track => /\ balances'[offer] = Reserve(offer) + taken
                /\ balances'[ask] = Reserve(ask) - r.dy - r.fee

\* sudo SwapExactAmountIn trades all the coins sent in.
LEMMA SudoInTrades ==
    ASSUME IInv, SudoSwapExactAmountIn
    PROVE  \E offer \in Assets, ask \in Assets, taken \in Nat, r \in CurveOutcomes :
              offer = dex.offer /\ taken = dex.amount /\ Trades(offer, ask, taken, r)
<1>1. dex # NoCall /\ dex.call = "exact_in"
  BY DEF SudoSwapExactAmountIn
<1>2. PICK receiver \in Users \cup {Pair} :
         receiver = IF SwapRequest.to = None THEN SwapRequest.sender ELSE SwapRequest.to
  BY <1>1, PoolsAreReserves, NoneAssumption, AccountFacts
     DEF SwapRequest, IInv, TypeOK, SwapParams, Calls, Accounts
<1>3. PICK offer \in Assets, ask \in Assets, taken \in Nat :
         offer = dex.offer /\ ask = Other(offer) /\ taken = dex.amount
  BY <1>1, PoolsAreReserves
<1>4. PICK r \in CurveOutcomes : PayOut(receiver, taken, r)
  BY <1>2, <1>3 DEF SudoSwapExactAmountIn
<1>5. offer \in Assets /\ ask \in Assets /\ ask # offer /\ dex.amount \in Nat
      /\ ask = Other(offer) /\ Assets = {ask, offer}
  BY <1>1, <1>3, PoolsAreReserves DEF Assets
<1>6. /\ \A a \in Assets : PoolsBefore[a] > 0
      /\ r.dy \in Nat \ {0} /\ r.fee \in Nat /\ r.dy + r.fee < Reserve(ask)
      /\ bank' \in Holdings
      /\ bank'[Pair][offer] = bank[Pair][offer]
      /\ bank'[Pair][ask] = bank[Pair][ask] - r.dy - r.fee + untracked'[ask]
      /\ untracked'[offer] = 0 /\ untracked'[ask] \in {0, r.dy}
      /\ untracked' \in [Assets -> Nat]
      /\ balances' \in [Assets -> Nat]
      /\ track => /\ balances'[offer] = Reserve(offer) + taken
                  /\ balances'[ask] = Reserve(ask) - r.dy - r.fee
  <2>1. ask = Other(dex.offer) /\ dex # NoCall
    BY <1>1, <1>3
  <2> QED
    BY <1>3, <1>4, <2>1, PayOutFacts
<1>7. dex' = NoCall
  BY DEF SudoSwapExactAmountIn
<1>8. /\ Reserve(offer)' = bank'[Pair][offer]
      /\ Reserve(ask)' = bank'[Pair][ask]
  BY <1>5, <1>6, <1>7, AccountFacts DEF Reserve, InFlight, Holdings
<1>9. /\ Reserve(ask) = bank[Pair][ask]
      /\ Reserve(offer) = bank[Pair][offer] - dex.amount
      /\ Reserve(offer) \in Nat \ {0} /\ Reserve(ask) \in Nat
  BY <1>1, <1>3, <1>5, <1>6, PoolsAreReserves DEF Reserve, InFlight
<1>10. /\ Reserve(offer)' = Reserve(offer) + taken
       /\ Reserve(ask)' = Reserve(ask) - r.dy - r.fee + untracked'[ask]
  BY <1>1, <1>3, <1>5, <1>6, <1>8, <1>9, PoolsAreReserves
<1> QED
  BY <1>3, <1>5, <1>6, <1>9, <1>10 DEF Trades

\* A trade leaves some of both coins, and records exact.
LEMMA TradesExactly ==
    ASSUME NEW offer, NEW ask, NEW taken, NEW r, Trades(offer, ask, taken, r), track' = track
    PROVE  /\ \A a \in Assets : Reserve(a)' \in Nat /\ Reserve(a)' > 0
           /\ TrackedBalancesExact'
<1>1. Reserve(offer)' \in Nat /\ Reserve(offer)' > 0
  BY DEF Trades
<1>2. Reserve(ask)' \in Nat /\ Reserve(ask)' > 0
  BY DEF Trades
<1>3. ASSUME track
      PROVE  /\ Reserve(offer)' = balances'[offer] + untracked'[offer]
             /\ Reserve(ask)' = balances'[ask] + untracked'[ask]
  BY <1>3 DEF Trades
<1>4. \A a \in Assets : a = ask \/ a = offer
  BY DEF Trades
<1> QED
  BY <1>1, <1>2, <1>3, <1>4 DEF TrackedBalancesExact

\* sudo SwapExactAmountIn keeps the inductive invariant: the coins sent in become reserve.
LEMMA SudoInStep ==
    ASSUME IInv, SudoSwapExactAmountIn
    PROVE  IInv'
<1> USE DEF environment, lp
<1>1. PICK r, offer, ask, taken : Trades(offer, ask, taken, r)
  BY SudoInTrades
<1>2. /\ dex' = NoCall /\ order' = NoOrder /\ swapParams' = None
      /\ committed' = [bank |-> bank', swapParams |-> None]
      /\ UNCHANGED <<lp, environment>>
  BY DEF SudoSwapExactAmountIn, SwapParamsAfterSudo, Commit
<1>3. TypeOK'
  BY <1>1, <1>2 DEF IInv, TypeOK, Trades
<1>4. AtRest' /\ InCall'
  BY <1>2 DEF AtRest, InCall
<1>5. TrackedBalancesExact'
  BY <1>1, <1>2, TradesExactly
<1>6. MinLiquidityLocked' /\ ReservesNeverEmpty'
  BY <1>1, <1>2, TradesExactly DEF IInv, MinLiquidityLocked, ReservesNeverEmpty, Supply
<1> QED
  BY <1>3, <1>4, <1>5, <1>6 DEF IInv

\* sudo SwapExactAmountOut trades some of the coins sent in and leaves the rest to be
\* refunded.
LEMMA SudoOutTrades ==
    ASSUME IInv, SudoSwapExactAmountOut
    PROVE  \E offer \in Assets, ask \in Assets, taken \in Nat, r \in CurveOutcomes :
              /\ offer = dex.offer /\ taken > 0 /\ taken <= dex.amount
              /\ Trades(offer, ask, taken, r)
              /\ dex' \in Calls /\ dex' # NoCall /\ dex'.call = "refund"
              /\ dex'.sender = dex.sender
<1>1. dex # NoCall /\ dex.call = "exact_out"
  BY DEF SudoSwapExactAmountOut
<1>2. PICK receiver \in Users \cup {Pair} : receiver = dex.sender
  BY <1>1, PoolsAreReserves DEF Calls
<1>3. PICK offer \in Assets, ask \in Assets : offer = dex.offer /\ ask = Other(offer)
  BY <1>1, PoolsAreReserves
<1>4. PICK r \in CurveOutcomes, taken \in Nat :
         /\ taken > 0 /\ taken <= dex.amount
         /\ PayOut(receiver, taken, r)
         /\ dex' = [dex EXCEPT !.call = "refund", !.amount = @ - taken]
  <2>1. \E r \in CurveOutcomes, taken \in 1 .. dex.amount :
           /\ PayOut(receiver, taken, r)
           /\ dex' = [dex EXCEPT !.call = "refund", !.amount = @ - taken]
    BY <1>2 DEF SudoSwapExactAmountOut, OfferAmounts
  <2>2. \A n \in 1 .. dex.amount : n \in Nat /\ n > 0 /\ n <= dex.amount
    BY <1>1, PoolsAreReserves
  <2> QED
    BY <2>1, <2>2
<1>5. /\ offer \in Assets /\ ask # offer /\ Assets = {ask, offer}
      /\ dex.amount \in Nat /\ taken \in Nat /\ taken <= dex.amount
  BY <1>1, <1>3, <1>4, PoolsAreReserves DEF Assets
<1>6. /\ \A a \in Assets : PoolsBefore[a] > 0
      /\ r.dy \in Nat \ {0} /\ r.fee \in Nat /\ r.dy + r.fee < Reserve(ask)
      /\ bank' \in Holdings
      /\ bank'[Pair][offer] = bank[Pair][offer]
      /\ bank'[Pair][ask] = bank[Pair][ask] - r.dy - r.fee + untracked'[ask]
      /\ untracked'[offer] = 0 /\ untracked'[ask] \in {0, r.dy}
      /\ untracked' \in [Assets -> Nat]
      /\ balances' \in [Assets -> Nat]
      /\ track => /\ balances'[offer] = Reserve(offer) + taken
                  /\ balances'[ask] = Reserve(ask) - r.dy - r.fee
  <2>1. dex # NoCall /\ ask = Other(dex.offer) /\ taken \in Nat /\ PayOut(receiver, taken, r)
    BY <1>1, <1>3, <1>4, <1>5
  <2> QED
    BY <1>3, <2>1, PayOutFacts
<1>7. /\ dex' \in Calls /\ dex' # NoCall /\ dex'.call = "refund"
      /\ dex'.offer = dex.offer /\ dex'.amount = dex.amount - taken
      /\ dex'.sender = dex.sender
  <2>1. dex \in Calls /\ dex.amount - taken \in Nat
    BY <1>1, <1>5, PoolsAreReserves
  <2> QED
    BY <1>4, <2>1, AbsentAssumption DEF Calls
<1>8. /\ Reserve(offer)' = bank'[Pair][offer] - (dex.amount - taken)
      /\ Reserve(ask)' = bank'[Pair][ask]
  BY <1>3, <1>5, <1>6, <1>7, AccountFacts DEF Reserve, InFlight, Holdings
<1>9. /\ Reserve(ask) = bank[Pair][ask]
      /\ Reserve(offer) = bank[Pair][offer] - dex.amount
      /\ Reserve(offer) \in Nat \ {0} /\ Reserve(ask) \in Nat
  BY <1>1, <1>3, <1>5, <1>6, PoolsAreReserves DEF Reserve, InFlight
<1>10. /\ Reserve(offer)' = Reserve(offer) + taken
       /\ Reserve(ask)' = Reserve(ask) - r.dy - r.fee + untracked'[ask]
  BY <1>1, <1>3, <1>5, <1>6, <1>8, <1>9, PoolsAreReserves
<1>11. Trades(offer, ask, taken, r)
  BY <1>3, <1>5, <1>6, <1>9, <1>10 DEF Trades
<1> QED
  BY <1>3, <1>4, <1>7, <1>11

\* sudo SwapExactAmountOut keeps the inductive invariant: what it consumes becomes
\* reserve, the rest stays in flight.
LEMMA SudoOutStep ==
    ASSUME IInv, SudoSwapExactAmountOut
    PROVE  IInv'
<1> USE DEF environment, lp
<1>1. PICK r, offer, ask, taken :
         /\ Trades(offer, ask, taken, r)
         /\ dex' \in Calls /\ dex' # NoCall /\ dex'.call = "refund"
         /\ dex'.sender = dex.sender
  BY SudoOutTrades
<1>2. /\ UNCHANGED <<lp, swapParams, environment, committed, order>>
      /\ dex # NoCall /\ dex.call = "exact_out"
  BY DEF SudoSwapExactAmountOut
<1>3. TypeOK'
  BY <1>1, <1>2 DEF IInv, TypeOK, Trades
<1>4. AtRest'
  BY <1>1 DEF AtRest, Idle
<1>5. InCall'
  <2>1. \A a \in Assets : Reserve(a)' \in Nat
    BY <1>1, <1>2, TradesExactly
  <2>2. order' \in Orders /\ swapParams' = None /\ dex'.sender \in Users
    BY <1>1, <1>2 DEF IInv, InCall
  <2> QED
    BY <1>1, <2>1, <2>2 DEF InCall
<1>6. TrackedBalancesExact'
  BY <1>1, <1>2, TradesExactly
<1>7. MinLiquidityLocked' /\ ReservesNeverEmpty'
  BY <1>1, <1>2, TradesExactly DEF IInv, MinLiquidityLocked, ReservesNeverEmpty, Supply
<1> QED
  BY <1>3, <1>4, <1>5, <1>6, <1>7 DEF IInv

\* The DEX's refund of the excess takes no reserve.
LEMMA RefundFromCall ==
    ASSUME IInv, DexRefundExcess
    PROVE  /\ bank' \in Holdings
           /\ \A a \in Assets : Reserve(a)' = Reserve(a)
<1> USE DEF DexRefundExcess
<1>1. dex # NoCall /\ swapParams = None
  BY DEF IInv, InCall
<1>2. PICK to \in Users, a0 \in Assets, n \in Nat :
         to = dex.sender /\ a0 = dex.offer /\ n = dex.amount
  BY <1>1, PoolsAreReserves DEF IInv, InCall
<1>3. bank' = Move(bank, Pair, to, a0, n) /\ n <= bank[Pair][a0]
  BY <1>1, <1>2, PoolsAreReserves DEF Reserve, InFlight
<1>4. /\ bank' \in Holdings
      /\ \A p \in Accounts, x \in Assets :
            bank'[p][x] = bank[p][x] - (IF p = Pair /\ x = a0 THEN n ELSE 0)
                                     + (IF p = to /\ x = a0 THEN n ELSE 0)
  BY <1>2, <1>3, AccountFacts, MoveFacts DEF IInv, TypeOK
<1>5. dex' = NoCall
  OBVIOUS
<1>6. \A a \in Assets : Reserve(a)' = Reserve(a)
  <2>1. \A a \in Assets : bank'[Pair][a] = bank[Pair][a] - (IF a = a0 THEN n ELSE 0)
                          /\ bank[Pair][a] \in Nat
    BY <1>1, <1>2, <1>4, AccountFacts, PoolsAreReserves
  <2> QED
    BY <1>1, <1>2, <1>5, <2>1 DEF Reserve, InFlight
<1> QED
  BY <1>4, <1>6

\* Once the excess is refunded nothing is in flight.
LEMMA RefundStep ==
    ASSUME IInv, DexRefundExcess
    PROVE  IInv'
<1> USE DEF DexRefundExcess, environment, lp
<1>1. /\ bank' \in Holdings
      /\ \A a \in Assets : Reserve(a)' = Reserve(a)
  BY RefundFromCall
<1>2. /\ dex' = NoCall /\ order' = NoOrder /\ swapParams' = None
      /\ UNCHANGED <<lp, environment, balances, untracked>>
      /\ committed' = [bank |-> bank', swapParams |-> None]
  BY DEF Commit, IInv, InCall
<1>3. TypeOK'
  BY <1>1, <1>2 DEF IInv, TypeOK
<1>4. AtRest' /\ InCall'
  BY <1>2 DEF AtRest, InCall
<1>5. TrackedBalancesExact' /\ MinLiquidityLocked' /\ ReservesNeverEmpty'
  BY <1>1, <1>2 DEF IInv, TrackedBalancesExact, MinLiquidityLocked, ReservesNeverEmpty, Supply
<1> QED
  BY <1>3, <1>4, <1>5 DEF IInv

\* An error in sudo restores a state in which the inductive invariant holds.
LEMMA RevertStep ==
    ASSUME IInv, Revert
    PROVE  IInv'
<1> USE DEF Revert, environment, lp
<1>1. dex # NoCall /\ dex.call # "refund"
  OBVIOUS
<1>2. committed \in [bank : Holdings, swapParams : {None}]
  BY DEF IInv, TypeOK
<1>3. bank' = committed.bank /\ bank' \in Holdings /\ swapParams' = None
  BY <1>2
<1>4. dex' = NoCall /\ order' = NoOrder
      /\ UNCHANGED <<lp, environment, balances, committed, untracked>>
  OBVIOUS
<1>5. \A a \in Assets : Reserve(a)' = Reserve(a)
  <2>1. \A a \in Assets : Reserve(a)' = bank'[Pair][a]
    BY <1>3, <1>4, AccountFacts DEF Reserve, InFlight, Holdings
  <2>2. \A a \in Assets : committed.bank[Pair][a] = Reserve(a)
    BY <1>1 DEF IInv, InCall
  <2> QED
    BY <1>3, <2>1, <2>2
<1>6. TypeOK'
  BY <1>3, <1>4 DEF IInv, TypeOK
<1>7. AtRest' /\ InCall'
  BY <1>3, <1>4 DEF AtRest, InCall
<1>8. TrackedBalancesExact' /\ MinLiquidityLocked' /\ ReservesNeverEmpty'
  BY <1>4, <1>5 DEF IInv, TrackedBalancesExact, MinLiquidityLocked, ReservesNeverEmpty, Supply
<1> QED
  BY <1>6, <1>7, <1>8 DEF IInv

\* Providing and withdrawing keep the inductive invariant.
LEMMA LiquidityStep ==
    ASSUME IInv, NEW u \in Users, Liquidity(u)
    PROVE  IInv'
<1>1. ASSUME NEW d0 \in 0 .. bank[u][0], NEW d1 \in 0 .. bank[u][1], NEW receiver \in {u, Pair},
             ProvideLiquidity(u, [a \in Assets |-> IF a = 0 THEN d0 ELSE d1], receiver)
      PROVE  IInv'
  <2>1. PICK d : d = [a \in Assets |-> IF a = 0 THEN d0 ELSE d1]
    OBVIOUS
  <2>2. bank[u][0] \in Nat /\ bank[u][1] \in Nat
    BY AccountFacts DEF IInv, TypeOK, Holdings, Assets
  <2>3. d \in [Assets -> Nat] /\ \A a \in Assets : d[a] <= bank[u][a]
    BY <2>1, <2>2 DEF Assets
  <2>4. ProvideLiquidity(u, d, receiver)
    BY <1>1, <2>1
  <2> QED
    BY <2>3, <2>4, ProvideStep
<1>2. ASSUME NEW amount \in 1 .. lpHeld, WithdrawLiquidity(u, amount)
      PROVE  IInv'
  BY <1>2, WithdrawStep
<1> QED
  BY <1>1, <1>2 DEF Liquidity

\* The inductive invariant depends on the variables of the specification only.
LEMMA StutterStep ==
    ASSUME IInv, UNCHANGED vars
    PROVE  IInv'
  BY DEF IInv, vars, TypeOK, AtRest, InCall, TrackedBalancesExact, MinLiquidityLocked,
         ReservesNeverEmpty, Reserve, InFlight, Supply, Idle

\* The inductive invariant holds in every reachable state.
THEOREM Invariance == Spec => []IInv
<1>1. Init => IInv
  BY InitInvariant
<1>2. IInv /\ [Next]_vars => IInv'
  BY ConfigurationStep, DonateStep, LiquidityStep, SwapStep, SudoInStep, SudoOutStep,
     RefundStep, RevertStep, StutterStep DEF Next
<1> QED
  BY <1>1, <1>2, PTL DEF Spec

\* No account is ever overdrawn and every variable keeps its type.
THEOREM TypeCorrect == Spec => []TypeOK
<1>1. IInv => TypeOK
  BY DEF IInv
<1> QED
  BY <1>1, Invariance, PTL

\* SWAP_PARAMS never survive the message that wrote them.
THEOREM ParamsConsumed == Spec => []SwapParamsConsumed
<1>1. IInv => SwapParamsConsumed
  BY DEF IInv, AtRest, SwapParamsConsumed
<1> QED
  BY <1>1, Invariance, PTL

\* BALANCES account for every coin that backs the LP coins but the donations.
THEOREM BalancesExact == Spec => []TrackedBalancesExact
<1>1. IInv => TrackedBalancesExact
  BY DEF IInv
<1> QED
  BY <1>1, Invariance, PTL

\* The first provider's MINIMUM_LIQUIDITY_AMOUNT is never withdrawn.
THEOREM LiquidityLocked == Spec => []MinLiquidityLocked
<1>1. IInv => MinLiquidityLocked
  BY DEF IInv
<1> QED
  BY <1>1, Invariance, PTL

\* A pool with LP coins never runs out of either coin.
THEOREM ReservesLast == Spec => []ReservesNeverEmpty
<1>1. IInv => ReservesNeverEmpty
  BY DEF IInv
<1> QED
  BY <1>1, Invariance, PTL

----------------------------------------------------------------------------
(* Withdrawals and those who stay *)

\* A refund of at most the share n of T leaves at least the rest of the share.
LEMMA RestKeepsShare ==
    ASSUME NEW x \in Nat, NEW T \in Nat, NEW n \in Nat \ {0}, NEW r \in Nat,
           r * T <= x * (n - 1)
    PROVE  (x - r) * T >= x * (T - n)
<1>1. x * (n - 1) <= x * n
  OBVIOUS
<1>2. (x - r) * T = x * T - r * T /\ x * (T - n) = x * T - x * n
  OBVIOUS
<1>3. x * T \in Int /\ r * T \in Int /\ x * n \in Int /\ x * (n - 1) \in Int
  OBVIOUS
<1> QED
  BY <1>1, <1>2, <1>3

\* A withdrawal leaves at least the coins per LP coin that were there.
LEMMA WithdrawKeepsShares ==
    ASSUME IInv, NEW u \in Users, NEW amount \in 1 .. lpHeld, WithdrawLiquidity(u, amount)
    PROVE  \A a \in Assets : bank'[Pair][a] * Supply >= bank[Pair][a] * Supply'
<1>1. PICK refund : refund = RefundAssets(amount)
  OBVIOUS
<1>2. \A a \in Assets :
         /\ refund[a] \in Nat
         /\ refund[a] * Supply <= bank[Pair][a] * (amount - 1)
         /\ refund[a] < bank[Pair][a]
  BY <1>1, RefundFacts DEF WithdrawLiquidity
<1>3. refund \in [Assets -> Nat]
  BY <1>1, <1>2 DEF RefundAssets
<1>4. \A a \in Assets : bank'[Pair][a] = bank[Pair][a] - refund[a]
  <2>1. bank' = Move(Move(bank, Pair, u, 0, refund[0]), Pair, u, 1, refund[1])
    BY <1>1 DEF WithdrawLiquidity
  <2>2. \A a \in Assets : refund[a] <= bank[Pair][a]
    BY <1>2, RestFacts DEF WithdrawLiquidity
  <2> QED
    BY <1>3, <2>1, <2>2, MoveBothFacts, AccountFacts DEF IInv, TypeOK
<1>5. Supply' = Supply - amount /\ Supply \in Nat /\ amount \in Nat \ {0}
  BY DEF WithdrawLiquidity, Supply, IInv, TypeOK
<1>6. \A a \in Assets : bank[Pair][a] \in Nat
  BY RestFacts DEF WithdrawLiquidity
<1> QED
  BY <1>2, <1>4, <1>5, <1>6, RestKeepsShare

\* No other step burns LP coins.
LEMMA SupplyGrows ==
    ASSUME IInv, [Next]_vars, Supply' < Supply
    PROVE  \E u \in Users, amount \in 1 .. lpHeld : WithdrawLiquidity(u, amount)
<1> USE DEF lp
<1>1. lpHeld \in Nat /\ lpLocked \in Nat
  BY DEF IInv, TypeOK
<1>2. CASE UNCHANGED <<lpHeld, lpLocked>>
  BY <1>1, <1>2 DEF Supply
<1>3. CASE Donate
  BY <1>1, <1>3 DEF Donate, Supply
<1>4. ASSUME NEW u \in Users, Liquidity(u)
      PROVE  \E amount \in 1 .. lpHeld : WithdrawLiquidity(u, amount)
  <2>1. ASSUME NEW d, NEW receiver, ProvideLiquidity(u, d, receiver)
        PROVE  FALSE
    <3>1. PICK share \in 1 .. MaxSupply - Supply :
             IF Supply = 0 THEN MintFirst(receiver, share) ELSE MintLp(receiver, share)
      BY <2>1 DEF ProvideLiquidity
    <3>2. share \in Nat
      BY <1>1, MaxSupplyAssumption DEF Supply
    <3> QED
      BY <1>1, <3>1, <3>2, MinLiquidityAssumption DEF MintFirst, MintLp, Supply
  <2> QED
    BY <1>4, <2>1 DEF Liquidity
<1>5. CASE SetPoolId \/ FactoryChanges \/ EnableAssetBalancesTracking
  BY <1>2, <1>5 DEF SetPoolId, FactoryChanges,
       FactoryRegisters, FactorySetsFeeAddress, EnableAssetBalancesTracking
<1>6. CASE \E u \in Users : Swap(u)
  BY <1>2, <1>6 DEF Swap, ExecuteSwap, DexSwap, Call
<1>7. CASE SudoSwapExactAmountIn \/ SudoSwapExactAmountOut \/ DexRefundExcess \/ Revert
  BY <1>2, <1>7 DEF SudoSwapExactAmountIn, SudoSwapExactAmountOut, DexRefundExcess, Revert
<1>8. CASE UNCHANGED vars
  BY <1>2, <1>8 DEF vars
<1> QED
  BY <1>3, <1>4, <1>5, <1>6, <1>7, <1>8 DEF Next

\* A withdrawal never lowers the coins per LP coin of those who stay, whatever the
\* rounding of the Decimals.
THEOREM NoDilution == Spec => WithdrawNeverDilutes
<1>1. IInv /\ [Next]_vars =>
         [Supply' < Supply =>
             \A a \in Assets : bank'[Pair][a] * Supply >= bank[Pair][a] * Supply']_vars
  BY SupplyGrows, WithdrawKeepsShares
<1> QED
  BY <1>1, Invariance, PTL DEF Spec, WithdrawNeverDilutes

----------------------------------------------------------------------------
(* The pair's protocol with the DEX implements PoolLedger: every step is a step of the *)
(* ledger or leaves it alone, seen with the bank of the last completed message.        *)

\* The swap in progress is the order of the user who sent it: what sudo reads from
\* SWAP_PARAMS or from the DEX's message is what that user asked for, and the bank
\* differs from the last committed one by this order only.
OrderInFlight ==
    dex # NoCall =>
        /\ order.amount \in 1 .. committed.bank[order.payer][order.offer]
        /\ dex.offer = order.offer
        /\ dex.call # "refund" =>
              /\ dex.call = order.kind
              /\ dex.amount = order.amount
              /\ bank = Move(committed.bank, order.payer, Pair, order.offer, order.amount)
        /\ dex.call = "exact_in" =>
              /\ SwapRequest.limit = order.limit
              /\ order.receiver = IF SwapRequest.to = None THEN SwapRequest.sender
                                                           ELSE SwapRequest.to
        /\ dex.call # "exact_in" =>
              order.kind = "exact_out" /\ order.receiver = order.payer /\ dex.sender = order.payer
        /\ dex.call = "refund" =>
              /\ dex.amount < order.amount
              /\ \E got, fee \in Nat :
                    /\ got + fee < committed.bank[Pair][Other(order.offer)]
                    /\ bank = Swapped(committed.bank, order.payer, order.receiver,
                                      order.offer, order.amount, got, fee)

\* The ledger's bank is the pair's.
LEMMA SameBank ==
    /\ \A b, from, to, a, n : Ledger!Move(b, from, to, a, n) = Move(b, from, to, a, n)
    /\ \A b, payer, receiver, a, paid, got, fee :
          Ledger!Swapped(b, payer, receiver, a, paid, got, fee)
             = Swapped(b, payer, receiver, a, paid, got, fee)
    /\ Ledger!InitBank = InitBank
    /\ Ledger!Assets = Assets
    /\ \A a : Ledger!Other(a) = Other(a)
    /\ Ledger!Orders = Orders
    /\ Ledger!Supply = Supply
  BY DEF Ledger!Move, Move, Ledger!Swapped, Swapped, Ledger!InitBank, InitBank,
         Ledger!Accounts, Accounts, Ledger!Assets, Assets, Ledger!Other, Other,
         Ledger!Orders, Orders, Ledger!Supply, Supply

\* Taking back the part of the payment that a swap did not consume is the same as paying
\* only the rest.
LEMMA TakeBack ==
    ASSUME NEW b \in Holdings, NEW payer \in Users, NEW offer \in Assets,
           NEW sent \in Nat, NEW rest \in Nat, NEW got \in Nat, NEW fee \in Nat
    PROVE  Move(Swapped(b, payer, payer, offer, sent, got, fee), Pair, payer, offer, rest)
              = Swapped(b, payer, payer, offer, sent - rest, got, fee)
<1> DEFINE S == Swapped(b, payer, payer, offer, sent, got, fee)
           R == Swapped(b, payer, payer, offer, sent - rest, got, fee)
<1>1. payer # Pair /\ payer # FeeCollector /\ Pair # FeeCollector
      /\ payer \in Accounts /\ Pair \in Accounts
  BY AccountFacts
<1>2. \A p \in Accounts, x \in Assets : b[p][x] \in Int
  BY DEF Holdings
<1>3. Other(offer) # offer
  BY DEF Other, Assets
<1>4. \A p \in Accounts, x \in Assets :
         S[p][x] - (IF p = Pair /\ x = offer THEN rest ELSE 0)
                 + (IF p = payer /\ x = offer THEN rest ELSE 0) = R[p][x]
  BY <1>1, <1>2, <1>3 DEF Swapped, Move
<1>5. R = [p \in Accounts |-> [x \in Assets |-> R[p][x]]]
  BY DEF Swapped, Move
<1> HIDE DEF S, R
<1>6. Move(S, Pair, payer, offer, rest) = [p \in Accounts |-> [x \in Assets |-> R[p][x]]]
  BY <1>4 DEF Move
<1> QED
  BY <1>5, <1>6 DEF S, R

----------------------------------------------------------------------------
(* The order stays the one in flight *)

\* A call starts from an order that its payer can pay.
LEMMA CallKeepsOrder ==
    ASSUME IInv, NEW kind \in {"exact_in", "exact_out"}, NEW sender \in Users \cup {Pair},
           NEW o \in Orders, o.amount \in 1 .. bank[o.payer][o.offer],
           Call(kind, sender, o), kind = o.kind,
           kind = "exact_in" =>
              /\ SwapRequest'.limit = o.limit
              /\ o.receiver = IF SwapRequest'.to = None THEN SwapRequest'.sender
                                                        ELSE SwapRequest'.to,
           kind = "exact_out" => o.receiver = o.payer /\ sender = o.payer
    PROVE  OrderInFlight'
<1>1. committed.bank = bank
  BY DEF Call, IInv, AtRest
<1>2. /\ order' = o /\ committed' = committed
      /\ bank' = Move(bank, o.payer, Pair, o.offer, o.amount)
      /\ dex'.call = kind /\ dex'.sender = sender
      /\ dex'.offer = o.offer /\ dex'.amount = o.amount
  BY DEF Call
<1> QED
  BY <1>1, <1>2 DEF OrderInFlight

\* Both ways to start a swap.
LEMMA SwapKeepsOrder ==
    ASSUME IInv, IInv', NEW u \in Users, Swap(u)
    PROVE  OrderInFlight'
<1>1. PICK offer \in Assets, limit \in Limits : \E amount \in 1 .. bank[u][offer] :
         \/ \E to \in Users \cup {Pair, None} : ExecuteSwap(u, offer, amount, limit, to)
         \/ \E kind \in {"exact_in", "exact_out"} : DexSwap(kind, u, offer, amount, limit)
  BY DEF Swap
<1>2. PICK amount \in 1 .. bank[u][offer] :
         \/ \E to \in Users \cup {Pair, None} : ExecuteSwap(u, offer, amount, limit, to)
         \/ \E kind \in {"exact_in", "exact_out"} : DexSwap(kind, u, offer, amount, limit)
  BY <1>1
<1>3. amount \in Nat /\ limit \in Nat
  BY AccountFacts, LimitsAssumption DEF IInv, TypeOK, Holdings
<1>4. ASSUME NEW to \in Users \cup {Pair, None}, ExecuteSwap(u, offer, amount, limit, to)
      PROVE  OrderInFlight'
  <2> DEFINE o == [kind |-> "exact_in", payer |-> u, receiver |-> IF to = None THEN u ELSE to,
                   offer |-> offer, amount |-> amount, limit |-> limit]
  <2>1. /\ o \in Orders /\ o.amount = amount /\ o.payer = u /\ o.offer = offer
        /\ o.kind = "exact_in" /\ o.limit = limit /\ o.receiver = IF to = None THEN u ELSE to
    BY <1>3 DEF Orders
  <2>2. Call("exact_in", Pair, o)
    BY <1>4 DEF ExecuteSwap
  <2>3. /\ SwapRequest'.limit = limit
        /\ SwapRequest'.sender = u /\ SwapRequest'.to = to
    <3>1. swapParams' = [limit |-> limit, sender |-> u, to |-> to]
      BY <1>4 DEF ExecuteSwap
    <3>2. swapParams' \in SwapParams
      BY <1>3, <3>1 DEF SwapParams
    <3> QED
      BY <3>1, <3>2, AbsentAssumption DEF SwapRequest
  <2> HIDE DEF o
  <2> QED
    BY <1>2, <2>1, <2>2, <2>3, CallKeepsOrder
<1>5. ASSUME NEW kind \in {"exact_in", "exact_out"}, DexSwap(kind, u, offer, amount, limit)
      PROVE  OrderInFlight'
  <2> DEFINE o == [kind |-> kind, payer |-> u, receiver |-> u,
                   offer |-> offer, amount |-> amount, limit |-> limit]
  <2>1. /\ o \in Orders /\ o.amount = amount /\ o.payer = u /\ o.offer = offer
        /\ o.kind = kind /\ o.limit = limit /\ o.receiver = u
    BY <1>3 DEF Orders
  <2>2. Call(kind, u, o) /\ swapParams' = None
    BY <1>5, RestFacts DEF DexSwap, Call
  <2>3. /\ SwapRequest'.limit = limit
        /\ SwapRequest'.sender = u /\ SwapRequest'.to = None
    <3>1. dex'.limit = limit /\ dex'.sender = u
      BY <1>5, AccountFacts DEF DexSwap, Call
    <3> QED
      BY <2>2, <3>1 DEF SwapRequest
  <2> HIDE DEF o
  <2> QED
    BY <1>2, <2>1, <2>2, <2>3, CallKeepsOrder
<1> QED
  BY <1>2, <1>4, <1>5

\* A payout and its fee leave something of the pool as of the last message.
LEMMA OutcomeFitsPool ==
    ASSUME IInv, dex # NoCall, dex.call # "refund", NEW r \in CurveOutcomes
    PROVE  /\ r.dy \in Nat /\ r.fee \in Nat
           /\ committed.bank[Pair][Other(dex.offer)] \in Nat
           /\ r.dy + r.fee < committed.bank[Pair][Other(dex.offer)]
<1>1. r \in [dy: 1 .. PoolsBefore[Other(dex.offer)] - 1,
             fee: 0 .. PoolsBefore[Other(dex.offer)] - 1]
      /\ r.dy + r.fee < PoolsBefore[Other(dex.offer)]
  BY DEF CurveOutcomes
<1>2. PoolsBefore[Other(dex.offer)] = committed.bank[Pair][Other(dex.offer)]
      /\ PoolsBefore[Other(dex.offer)] \in Nat
  BY PoolsAreReserves DEF IInv, InCall
<1> QED
  BY <1>1, <1>2

\* Between sudo and the refund the bank is that of a trade for the whole amount sent.
LEMMA SudoOutKeepsOrder ==
    ASSUME IInv, IInv', OrderInFlight, SudoSwapExactAmountOut
    PROVE  OrderInFlight'
<1>1. dex # NoCall /\ dex.call = "exact_out"
  BY DEF SudoSwapExactAmountOut
<1>2. /\ dex.offer = order.offer /\ dex.amount = order.amount
      /\ bank = Move(committed.bank, order.payer, Pair, order.offer, order.amount)
      /\ order.kind = "exact_out" /\ order.receiver = order.payer /\ dex.sender = order.payer
      /\ order.amount \in 1 .. committed.bank[order.payer][order.offer]
  BY <1>1 DEF OrderInFlight
<1>3. PICK r \in CurveOutcomes, taken \in 1 .. dex.amount :
         /\ PayOut(dex.sender, taken, r)
         /\ dex' = [dex EXCEPT !.call = "refund", !.amount = @ - taken]
  BY DEF SudoSwapExactAmountOut, OfferAmounts
<1>4. committed' = committed /\ order' = order
  BY DEF SudoSwapExactAmountOut
<1>5. bank' = Swapped(committed.bank, order.payer, order.receiver,
                      order.offer, order.amount, r.dy, r.fee)
  BY <1>2, <1>3 DEF PayOut, Swapped
<1>6. /\ r.dy \in Nat /\ r.fee \in Nat
      /\ r.dy + r.fee < committed.bank[Pair][Other(order.offer)]
  BY <1>1, <1>2, OutcomeFitsPool
<1>7. /\ dex'.call = "refund" /\ dex'.offer = dex.offer /\ dex'.sender = dex.sender
      /\ dex'.amount < order.amount
  BY <1>1, <1>2, <1>3, PoolsAreReserves DEF Calls
<1> QED
  BY <1>1, <1>2, <1>4, <1>5, <1>6, <1>7 DEF OrderInFlight

\* Every other step ends the call, or leaves it alone.
LEMMA OrderStep ==
    ASSUME IInv, IInv', OrderInFlight, [Next]_vars
    PROVE  OrderInFlight'
<1>1. CASE \E u \in Users : Swap(u)
  BY <1>1, SwapKeepsOrder
<1>2. CASE SudoSwapExactAmountOut
  BY <1>2, SudoOutKeepsOrder
<1>3. CASE dex' = NoCall
  BY <1>3 DEF OrderInFlight
<1>4. CASE SetPoolId \/ FactoryChanges \/ EnableAssetBalancesTracking \/ Donate
  BY <1>3, <1>4 DEF SetPoolId, FactoryChanges,
       FactoryRegisters, FactorySetsFeeAddress, EnableAssetBalancesTracking, Donate, Idle
<1>5. CASE \E u \in Users : Liquidity(u)
  BY <1>3, <1>5 DEF Liquidity, ProvideLiquidity, WithdrawLiquidity, Idle
<1>6. CASE SudoSwapExactAmountIn \/ DexRefundExcess \/ Revert
  BY <1>3, <1>6 DEF SudoSwapExactAmountIn, DexRefundExcess, Revert
<1>7. CASE UNCHANGED vars
  BY <1>7 DEF vars, OrderInFlight, SwapRequest
<1> QED
  BY <1>1, <1>2, <1>4, <1>5, <1>6, <1>7 DEF Next

----------------------------------------------------------------------------
(* Every step is a step of the ledger *)

\* A swap leaves the DEX calling the pair.
LEMMA SwapCalls ==
    ASSUME IInv, NEW u \in Users, Swap(u)
    PROVE  dex' # NoCall
<1>1. PICK offer \in Assets, limit \in Limits : \E amount \in 1 .. bank[u][offer] :
         \/ \E to \in Users \cup {Pair, None} : ExecuteSwap(u, offer, amount, limit, to)
         \/ \E kind \in {"exact_in", "exact_out"} : DexSwap(kind, u, offer, amount, limit)
  BY DEF Swap
<1>2. PICK amount \in 1 .. bank[u][offer] :
         \/ \E to \in Users \cup {Pair, None} : ExecuteSwap(u, offer, amount, limit, to)
         \/ \E kind \in {"exact_in", "exact_out"} : DexSwap(kind, u, offer, amount, limit)
  BY <1>1
<1>3. amount \in Nat /\ limit \in Nat
  BY AccountFacts, LimitsAssumption DEF IInv, TypeOK, Holdings
<1>4. dex' \in Calls
  BY <1>2, <1>3 DEF ExecuteSwap, DexSwap, Call, Calls
<1> QED
  BY <1>4, AbsentAssumption

\* Starting a swap places its order.
LEMMA SwapPlaces ==
    ASSUME IInv, IInv', OrderInFlight', NEW u \in Users, Swap(u)
    PROVE  Ledger!Place
<1>1. PICK kind, sender, o : Call(kind, sender, o)
  BY DEF Swap, ExecuteSwap, DexSwap
<1>2. order = NoOrder
  BY <1>1 DEF Call, IInv, AtRest
<1>3. committed' = committed /\ UNCHANGED lp /\ dex' # NoCall
  BY <1>1, SwapCalls DEF Call
<1>4. order' \in Orders /\ order'.amount \in 1 .. committed.bank[order'.payer][order'.offer]
  BY <1>3 DEF IInv, InCall, OrderInFlight
<1> QED
  BY <1>2, <1>3, <1>4, SameBank DEF Ledger!Place, lp

\* sudo SwapExactAmountIn settles the order.
LEMMA SudoInSettles ==
    ASSUME IInv, OrderInFlight, SudoSwapExactAmountIn
    PROVE  Ledger!Settle
<1>1. dex # NoCall /\ dex.call = "exact_in"
  BY DEF SudoSwapExactAmountIn
<1>2. /\ dex.offer = order.offer /\ order.kind = "exact_in"
      /\ bank = Move(committed.bank, order.payer, Pair, order.offer, order.amount)
      /\ SwapRequest.limit = order.limit
      /\ order.receiver = IF SwapRequest.to = None THEN SwapRequest.sender ELSE SwapRequest.to
      /\ order.amount \in 1 .. committed.bank[order.payer][order.offer]
  BY <1>1 DEF OrderInFlight
<1>3. order \in Orders /\ order # NoOrder
  BY <1>1, AbsentAssumption DEF IInv, InCall
<1>4. PICK r \in CurveOutcomes : r.dy >= SwapRequest.limit /\ PayOut(order.receiver, dex.amount, r)
  BY <1>2 DEF SudoSwapExactAmountIn
<1>5. committed'.bank = bank' /\ order' = NoOrder /\ UNCHANGED lp
  BY DEF SudoSwapExactAmountIn, Commit
<1>6. bank' = Swapped(committed.bank, order.payer, order.receiver,
                      order.offer, order.amount, r.dy, r.fee)
  BY <1>2, <1>4 DEF PayOut, Swapped
<1>7. /\ r.dy \in Nat /\ r.fee \in Nat /\ committed.bank[Pair][Other(order.offer)] \in Nat
      /\ r.dy + r.fee < committed.bank[Pair][Other(order.offer)]
  BY <1>1, <1>2, OutcomeFitsPool
<1>8. /\ order.amount \in 1 .. order.amount
      /\ r.dy \in 0 .. committed.bank[Pair][Other(order.offer)]
      /\ r.fee \in 0 .. committed.bank[Pair][Other(order.offer)]
  BY <1>3, <1>2, <1>7 DEF Orders
<1> QED
  BY <1>2, <1>3, <1>4, <1>5, <1>6, <1>7, <1>8, SameBank DEF Ledger!Settle, lp

\* The refund of the excess settles the order for what sudo consumed.
LEMMA RefundSettles ==
    ASSUME IInv, OrderInFlight, DexRefundExcess
    PROVE  Ledger!Settle
<1>1. dex # NoCall /\ dex.call = "refund"
  BY DEF DexRefundExcess
<1>2. /\ dex.offer = order.offer /\ dex.sender = order.payer
      /\ order.kind = "exact_out" /\ order.receiver = order.payer
      /\ dex.amount < order.amount
  BY <1>1 DEF OrderInFlight
<1>3. PICK got \in Nat, fee \in Nat :
         /\ got + fee < committed.bank[Pair][Other(order.offer)]
         /\ bank = Swapped(committed.bank, order.payer, order.receiver,
                           order.offer, order.amount, got, fee)
  BY <1>1 DEF OrderInFlight
<1>4. /\ order \in Orders /\ order # NoOrder
      /\ order.payer \in Users /\ order.offer \in Assets /\ order.amount \in Nat
      /\ dex.amount \in Nat
  BY <1>1, AbsentAssumption, PoolsAreReserves DEF IInv, InCall, Orders
<1>5. committed'.bank = bank' /\ order' = NoOrder /\ UNCHANGED lp
  BY DEF DexRefundExcess, Commit
<1>6. committed.bank \in Holdings /\ committed.bank[Pair][Other(order.offer)] \in Nat
  <2>1. committed.bank \in Holdings
    BY DEF IInv, TypeOK
  <2> QED
    BY <1>1, <1>2, <2>1, PoolsAreReserves, AccountFacts DEF Holdings
<1>7. bank' = Swapped(committed.bank, order.payer, order.receiver,
                      order.offer, order.amount - dex.amount, got, fee)
  <2>1. bank' = Move(bank, Pair, order.payer, order.offer, dex.amount)
    BY <1>2 DEF DexRefundExcess
  <2>2. PICK b \in Holdings, payer \in Users, offer \in Assets, sent \in Nat, rest \in Nat :
           /\ b = committed.bank /\ payer = order.payer /\ offer = order.offer
           /\ sent = order.amount /\ rest = dex.amount
    BY <1>4, <1>6
  <2>3. Move(Swapped(b, payer, payer, offer, sent, got, fee), Pair, payer, offer, rest)
           = Swapped(b, payer, payer, offer, sent - rest, got, fee)
    BY TakeBack
  <2> QED
    BY <1>2, <1>3, <2>1, <2>2, <2>3
<1>8. PICK paid \in 1 .. order.amount : paid = order.amount - dex.amount
  BY <1>2, <1>4
<1>9. /\ got \in 0 .. committed.bank[Pair][Other(order.offer)]
      /\ fee \in 0 .. committed.bank[Pair][Other(order.offer)]
  BY <1>3, <1>6
<1> QED
  BY <1>2, <1>3, <1>4, <1>5, <1>7, <1>8, <1>9, SameBank DEF Ledger!Settle, lp

\* A rolled back message cancels its order.
LEMMA RevertCancels ==
    ASSUME IInv, Revert
    PROVE  Ledger!Cancel
  BY AbsentAssumption DEF Revert, IInv, InCall, Ledger!Cancel, lp

\* provide_liquidity is the ledger's.
LEMMA ProvideProvides ==
    ASSUME IInv, NEW u \in Users, NEW d0 \in 0 .. bank[u][0], NEW d1 \in 0 .. bank[u][1],
           NEW receiver \in {u, Pair},
           ProvideLiquidity(u, [a \in Assets |-> IF a = 0 THEN d0 ELSE d1], receiver)
    PROVE  Ledger!Provide
<1>1. PICK d : d = [a \in Assets |-> IF a = 0 THEN d0 ELSE d1]
  OBVIOUS
<1>2. d[0] = d0 /\ d[1] = d1
  BY <1>1 DEF Assets
<1>3. /\ order = NoOrder /\ committed.bank = bank
      /\ committed'.bank = bank' /\ order' = order
      /\ bank' = Move(Move(bank, u, Pair, 0, d0), u, Pair, 1, d1)
      /\ Supply = 0 => d0 > 0 /\ d1 > 0
  BY <1>1, <1>2 DEF ProvideLiquidity, DepositsOk, Commit, IInv, AtRest
<1>4. /\ lpHeld' >= lpHeld /\ lpHeld' + lpLocked' > Supply
      /\ lpLocked' >= (IF Supply = 0 THEN MinLiquidity ELSE lpLocked)
  <2>1. PICK share \in 1 .. MaxSupply - Supply :
           IF Supply = 0 THEN MintFirst(receiver, share) ELSE MintLp(receiver, share)
    BY DEF ProvideLiquidity
  <2>2. lpHeld \in Nat /\ lpLocked \in Nat /\ share \in Nat /\ share > 0
    BY MaxSupplyAssumption DEF IInv, TypeOK, Supply
  <2> QED
    BY <2>1, <2>2, MinLiquidityAssumption DEF MintFirst, MintLp, Supply
<1> QED
  BY <1>3, <1>4, SameBank DEF Ledger!Provide

\* withdraw_liquidity is the ledger's: each refund is positive and at most the share.
LEMMA WithdrawWithdraws ==
    ASSUME IInv, NEW u \in Users, NEW amount \in 1 .. lpHeld, WithdrawLiquidity(u, amount)
    PROVE  Ledger!Withdraw
<1>1. PICK refund : refund = RefundAssets(amount)
  OBVIOUS
<1>2. \A a \in Assets :
         /\ refund[a] \in 1 .. bank[Pair][a]
         /\ refund[a] * Supply <= bank[Pair][a] * amount
  <2> TAKE a \in Assets
  <2>1. /\ refund[a] \in Nat /\ refund[a] > 0
        /\ refund[a] * Supply <= bank[Pair][a] * (amount - 1)
        /\ refund[a] < bank[Pair][a]
    BY <1>1, RefundFacts DEF WithdrawLiquidity
  <2>2. bank[Pair][a] \in Nat /\ Supply \in Nat /\ amount \in Nat
    BY RestFacts DEF WithdrawLiquidity, IInv, TypeOK
  <2>3. bank[Pair][a] * (amount - 1) <= bank[Pair][a] * amount
    BY <2>2
  <2> QED
    BY <2>1, <2>2, <2>3
<1>3. 0 \in Assets /\ 1 \in Assets
  BY DEF Assets
<1>4. /\ order = NoOrder /\ committed.bank = bank
      /\ committed'.bank = bank' /\ order' = order
      /\ bank' = Move(Move(bank, Pair, u, 0, refund[0]), Pair, u, 1, refund[1])
      /\ lpHeld' = lpHeld - amount /\ lpLocked' = lpLocked
  BY <1>1 DEF WithdrawLiquidity, Commit, IInv, AtRest
<1> QED
  BY <1>2, <1>3, <1>4, SameBank DEF Ledger!Withdraw

\* Donations are the ledger's.
LEMMA DonateDonates ==
    ASSUME IInv, Donate
    PROVE  Ledger!Donate
<1>1. /\ order = NoOrder /\ committed.bank = bank
      /\ committed'.bank = bank' /\ order' = order
  BY DEF Donate, Commit, IInv, AtRest
<1> QED
  BY <1>1, SameBank DEF Donate, Ledger!Donate, lp

\* Every step of the pair is a step of the ledger or leaves it alone.
LEMMA LedgerStep ==
    ASSUME IInv, IInv', OrderInFlight, OrderInFlight', [Next]_vars
    PROVE  [Ledger!Next]_(Ledger!vars)
<1> USE DEF Ledger!Next
<1>1. CASE \E u \in Users : Swap(u)
  BY <1>1, SwapPlaces
<1>2. ASSUME NEW u \in Users, Liquidity(u)
      PROVE  Ledger!Next
  BY <1>2, ProvideProvides, WithdrawWithdraws DEF Liquidity
<1>3. CASE SudoSwapExactAmountIn
  BY <1>3, SudoInSettles
<1>4. CASE DexRefundExcess
  BY <1>4, RefundSettles
<1>5. CASE Revert
  BY <1>5, RevertCancels
<1>6. CASE Donate
  BY <1>6, DonateDonates
<1>7. CASE SetPoolId \/ FactoryChanges \/ EnableAssetBalancesTracking
           \/ SudoSwapExactAmountOut \/ UNCHANGED vars
  BY <1>7 DEF SetPoolId, FactoryChanges,
       FactoryRegisters, FactorySetsFeeAddress, EnableAssetBalancesTracking,
              SudoSwapExactAmountOut, vars, lp, Ledger!vars
<1> QED
  BY <1>1, <1>2, <1>3, <1>4, <1>5, <1>6, <1>7 DEF Next

\* The pair and its protocol with the DEX implement one-step orders: whatever happens
\* between a swap's first message and its last, it ends as one settlement of the order its
\* payer placed, or without a trace.
THEOREM ImplementsLedger == Spec => LedgerSpec
<1>1. Init => Ledger!Init /\ OrderInFlight
  BY SameBank DEF Init, Ledger!Init, OrderInFlight
<1>2. IInv /\ IInv' /\ OrderInFlight /\ [Next]_vars => OrderInFlight'
  BY OrderStep
<1>3. IInv /\ IInv' /\ OrderInFlight /\ OrderInFlight' /\ [Next]_vars
         => [Ledger!Next]_(Ledger!vars)
  BY LedgerStep
<1> QED
  BY <1>1, <1>2, <1>3, Invariance, PTL DEF Spec, LedgerSpec, Ledger!Spec
----------------------------------------------------------------------------
(* No coins are made: amounts are bounded by what the users started with *)

Total(b, x) == SumFunctionOnSet([p \in Accounts |-> b[p][x]], Accounts)

AllCoins == Cardinality(Users) * Endowment

Ints == [Accounts -> [Assets -> Int]]
Conserved(b) == \A x \in Assets : Total(b, x) = AllCoins
CoinsConserved == Conserved(bank) /\ Conserved(committed.bank)

\* There are as many accounts as it takes for a sum.
LEMMA AccountsFinite == IsFiniteSet(Accounts) /\ Cardinality(Users) \in Nat /\ AllCoins \in Nat
<1>1. IsFiniteSet(Users \cup {Pair})
  BY UsersAssumption, FS_AddElement
<1>2. IsFiniteSet(Accounts)
  <2>1. PICK S : S = Users \cup {Pair}
    OBVIOUS
  <2>2. Accounts = S \cup {FeeCollector}
    BY <2>1 DEF Accounts
  <2> QED
    BY <1>1, <2>1, <2>2, FS_AddElement
<1>3. Cardinality(Users) \in Nat
  BY UsersAssumption, FS_CardinalityType
<1>4. AllCoins \in Nat
  BY <1>3, EndowmentAssumption DEF AllCoins
<1> QED
  BY <1>2, <1>3, <1>4

\* The users' endowments are all there is at first.
LEMMA InitConserved == Conserved(InitBank)
<1> SUFFICES ASSUME NEW x \in Assets PROVE Total(InitBank, x) = AllCoins
  BY DEF Conserved
<1> DEFINE f == [p \in Accounts |-> InitBank[p][x]]
<1>1. \A p \in Accounts : f[p] = IF p \in Users THEN Endowment ELSE 0
  BY DEF InitBank
<1>2. \A p \in Accounts : f[p] \in Int
  BY <1>1, EndowmentAssumption
<1>3. PICK S : S = Users \cup {Pair}
  OBVIOUS
<1>4. /\ IsFiniteSet(Users) /\ Pair \notin Users
      /\ IsFiniteSet(S) /\ FeeCollector \notin S /\ Accounts = S \cup {FeeCollector}
  BY <1>3, UsersAssumption, AccountsAssumption, FS_AddElement DEF Accounts
<1>5. /\ \A p \in S \cup {FeeCollector} : f[p] \in Int
      /\ \A p \in Users \cup {Pair} : f[p] \in Int
      /\ \A p \in Users : f[p] = Endowment
      /\ f[Pair] = 0 /\ f[FeeCollector] = 0
  BY <1>1, <1>2, AccountFacts, <1>3, <1>4
<1> HIDE DEF f
<1>6. SumFunctionOnSet(f, S \cup {FeeCollector}) = 0 + SumFunctionOnSet(f, S)
  BY <1>4, <1>5, SumAdd
<1>7. SumFunctionOnSet(f, Users \cup {Pair}) = 0 + SumFunctionOnSet(f, Users)
  BY <1>4, <1>5, SumAdd
<1>8. SumFunctionOnSet(f, Users) = Endowment * Cardinality(Users)
  BY <1>4, <1>5, EndowmentAssumption, SumConstant
<1>9. SumFunctionOnSet(f, Accounts) = Endowment * Cardinality(Users)
  <2>1. Endowment * Cardinality(Users) \in Int
    BY EndowmentAssumption, AccountsFinite
  <2> QED
    BY <1>3, <1>4, <1>6, <1>7, <1>8, <2>1
<1>10. Endowment * Cardinality(Users) = AllCoins
  BY EndowmentAssumption, AccountsFinite DEF AllCoins
<1> QED
  BY <1>9, <1>10 DEF Total, f

\* A transfer makes no coins, even one of coins that are not there.
LEMMA MoveConserves ==
    ASSUME NEW b \in Ints, Conserved(b), NEW from \in Accounts, NEW to \in Accounts,
           NEW a \in Assets, NEW n \in Int
    PROVE  Move(b, from, to, a, n) \in Ints /\ Conserved(Move(b, from, to, a, n))
<1> DEFINE c == Move(b, from, to, a, n)
<1>1. \A p \in Accounts, x \in Assets :
         /\ c[p][x] = b[p][x] - (IF p = from /\ x = a THEN n ELSE 0)
                             + (IF p = to /\ x = a THEN n ELSE 0)
         /\ b[p][x] \in Int
  BY DEF Move, Ints
<1>2. c \in Ints
  BY <1>1 DEF Move, Ints
<1> HIDE DEF c
<1>3. ASSUME NEW x \in Assets PROVE Total(c, x) = Total(b, x)
  <2> DEFINE f == [p \in Accounts |-> b[p][x]]
             g == [p \in Accounts |-> c[p][x]]
  <2>1. PICK m \in Int : m = IF x = a THEN n ELSE 0
    OBVIOUS
  <2>2. /\ \A p \in Accounts : f[p] \in Int
        /\ \A p \in Accounts :
              g[p] = f[p] - (IF p = from THEN m ELSE 0) + (IF p = to THEN m ELSE 0)
    BY <1>1, <2>1
  <2> HIDE DEF f, g
  <2>3. SumFunctionOnSet(g, Accounts) = SumFunctionOnSet(f, Accounts)
    BY <2>2, AccountsFinite, SumTransfer
  <2> QED
    BY <2>3 DEF Total, f, g
<1> QED
  BY <1>2, <1>3 DEF c, Conserved

\* Nobody has more than all.
LEMMA NobodyHasMore ==
    ASSUME NEW b \in Holdings, Conserved(b), NEW p \in Accounts, NEW x \in Assets
    PROVE  b[p][x] \in 0 .. AllCoins
<1> DEFINE f == [q \in Accounts |-> b[q][x]]
<1>1. \A q \in Accounts : f[q] \in Nat
  BY DEF Holdings
<1>2. f[p] = b[p][x] /\ SumFunctionOnSet(f, Accounts) = AllCoins
  BY DEF Conserved, Total
<1> HIDE DEF f
<1>3. SumFunctionOnSet(f, Accounts) = f[p] + SumFunctionOnSet(f, Accounts \ {p})
  BY <1>1, AccountsFinite, SumRemove
<1>4. SumFunctionOnSet(f, Accounts \ {p}) \in Nat
  BY <1>1, AccountsFinite, SumNat, FS_Subset
<1> QED
  BY <1>1, <1>2, <1>3, <1>4

\* Two transfers in a row make no coins either.
LEMMA MovesConserve ==
    ASSUME NEW b \in Ints, Conserved(b), NEW from \in Accounts, NEW to \in Accounts,
           NEW from2 \in Accounts, NEW to2 \in Accounts,
           NEW a \in Assets, NEW n \in Int, NEW a2 \in Assets, NEW n2 \in Int
    PROVE  Conserved(Move(Move(b, from, to, a, n), from2, to2, a2, n2))
<1>1. PICK c : c = Move(b, from, to, a, n)
  OBVIOUS
<1>2. c \in Ints /\ Conserved(c)
  BY <1>1, MoveConserves
<1>3. Conserved(Move(c, from2, to2, a2, n2))
  BY <1>2, MoveConserves
<1> QED
  BY <1>1, <1>3

\* The coins of a pool that a sudo handler pays out are all there were before.
LEMMA PayOutConserves ==
    ASSUME IInv, dex # NoCall, Conserved(bank), NEW receiver \in Users \cup {Pair},
           NEW taken, NEW r \in CurveOutcomes, PayOut(receiver, taken, r)
    PROVE  Conserved(bank')
<1>1. bank \in Ints
  BY DEF IInv, TypeOK, Holdings, Ints
<1>2. r.dy \in Int /\ r.fee \in Int
  BY PoolsAreReserves DEF CurveOutcomes
<1>3. PICK ask \in Assets : ask = Other(dex.offer)
  BY PoolsAreReserves
<1>4. bank' = Move(Move(bank, Pair, receiver, ask, r.dy), Pair, FeeCollector, ask, r.fee)
  BY <1>3 DEF PayOut
<1>5. receiver \in Accounts /\ Pair \in Accounts /\ FeeCollector \in Accounts
  BY AccountFacts
<1> QED
  BY <1>1, <1>2, <1>4, <1>5, MovesConserve

\* No step makes coins or loses any: rollbacks, refunds and payouts to the pair included.
LEMMA BankConserved ==
    ASSUME IInv, CoinsConserved, [Next]_vars
    PROVE  Conserved(bank')
<1>1. /\ bank \in Ints /\ Conserved(bank) /\ Conserved(committed.bank)
      /\ Pair \in Accounts /\ Users \subseteq Accounts /\ 0 \in Assets /\ 1 \in Assets
  BY AccountFacts DEF IInv, TypeOK, Holdings, Ints, CoinsConserved, Assets
<1>2. ASSUME NEW u \in Users, Liquidity(u)
      PROVE  Conserved(bank')
  <2>1. ASSUME NEW d0 \in 0 .. bank[u][0], NEW d1 \in 0 .. bank[u][1], NEW receiver \in {u, Pair},
               ProvideLiquidity(u, [a \in Assets |-> IF a = 0 THEN d0 ELSE d1], receiver)
        PROVE  Conserved(bank')
    <3>1. PICK d : d = [a \in Assets |-> IF a = 0 THEN d0 ELSE d1]
      OBVIOUS
    <3>2. d0 \in Int /\ d1 \in Int /\ d[0] = d0 /\ d[1] = d1
      BY <3>1 DEF Assets
    <3>3. bank' = Move(Move(bank, u, Pair, 0, d0), u, Pair, 1, d1)
      BY <2>1, <3>1, <3>2 DEF ProvideLiquidity
    <3> QED
      BY <1>1, <3>2, <3>3, MovesConserve
  <2>2. ASSUME NEW amount \in 1 .. lpHeld, WithdrawLiquidity(u, amount)
        PROVE  Conserved(bank')
    <3>1. PICK refund : refund = RefundAssets(amount)
      OBVIOUS
    <3>2. \A a \in Assets : refund[a] \in Int
      BY <2>2, <3>1, RefundFacts DEF WithdrawLiquidity
    <3>3. bank' = Move(Move(bank, Pair, u, 0, refund[0]), Pair, u, 1, refund[1])
      BY <2>2, <3>1 DEF WithdrawLiquidity
    <3> QED
      BY <1>1, <3>2, <3>3, MovesConserve
  <2> QED
    BY <1>2, <2>1, <2>2 DEF Liquidity
<1>3. ASSUME NEW u \in Users, Swap(u)
      PROVE  Conserved(bank')
  <2>1. PICK offer, n : /\ offer \in Assets
                        /\ n \in 1 .. bank[u][offer]
                        /\ bank' = Move(bank, u, Pair, offer, n)
    BY <1>3 DEF Swap, ExecuteSwap, DexSwap, Call
  <2>2. n \in Int
    BY <2>1
  <2> QED
    BY <1>1, <2>1, <2>2, MoveConserves
<1>4. CASE Donate
  <2>1. CASE bank' = bank
    BY <1>1, <2>1
  <2>2. CASE \E u \in Users, a \in Assets : \E n \in 1 .. bank[u][a] :
                bank' = Move(bank, u, Pair, a, n)
    BY <1>1, <2>2, MoveConserves
  <2> QED
    BY <1>4, <2>1, <2>2 DEF Donate
<1>5. CASE SudoSwapExactAmountIn
  <2>1. dex # NoCall
    BY <1>5 DEF SudoSwapExactAmountIn
  <2>2. PICK receiver \in Users \cup {Pair} :
           receiver = IF SwapRequest.to = None THEN SwapRequest.sender ELSE SwapRequest.to
    BY <2>1, PoolsAreReserves, NoneAssumption, AccountFacts
       DEF SwapRequest, IInv, TypeOK, SwapParams, Calls, Accounts
  <2>3. PICK r \in CurveOutcomes : PayOut(receiver, dex.amount, r)
    BY <1>5, <2>2 DEF SudoSwapExactAmountIn
  <2> QED
    BY <1>1, <2>1, <2>3, PayOutConserves
<1>6. CASE SudoSwapExactAmountOut
  <2>1. dex # NoCall /\ dex.sender \in Users \cup {Pair}
    BY <1>6, PoolsAreReserves DEF SudoSwapExactAmountOut, Calls
  <2>2. PICK r, taken : r \in CurveOutcomes /\ PayOut(dex.sender, taken, r)
    BY <1>6 DEF SudoSwapExactAmountOut
  <2> QED
    BY <1>1, <2>1, <2>2, PayOutConserves
<1>7. CASE DexRefundExcess
  <2>1. PICK to \in Users, a \in Assets, n \in Int :
           to = dex.sender /\ a = dex.offer /\ n = dex.amount
    BY <1>7, PoolsAreReserves DEF DexRefundExcess, IInv, InCall
  <2>2. bank' = Move(bank, Pair, to, a, n)
    BY <1>7, <2>1 DEF DexRefundExcess
  <2> QED
    BY <1>1, <2>2, MoveConserves
<1>8. CASE Revert
  BY <1>1, <1>8 DEF Revert
<1>9. CASE SetPoolId \/ FactoryChanges \/ EnableAssetBalancesTracking \/ UNCHANGED vars
  BY <1>1, <1>9 DEF SetPoolId, FactoryChanges,
       FactoryRegisters, FactorySetsFeeAddress, EnableAssetBalancesTracking, vars
<1> QED
  BY <1>2, <1>3, <1>4, <1>5, <1>6, <1>7, <1>8, <1>9 DEF Next

\* Nor does the point a later error rolls back to hold any others.
LEMMA ConservedStep ==
    ASSUME IInv, CoinsConserved, [Next]_vars
    PROVE  CoinsConserved'
<1>1. Conserved(bank')
  BY BankConserved
<1>2. \/ committed' = committed
      \/ Commit
  <2>1. ASSUME NEW u \in Users, Liquidity(u) \/ Swap(u)
        PROVE  committed' = committed \/ Commit
    <3>1. \A d, receiver, amount :
             ProvideLiquidity(u, d, receiver) \/ WithdrawLiquidity(u, amount) => Commit
      BY DEF ProvideLiquidity, WithdrawLiquidity
    <3>2. \A kind, sender, o : Call(kind, sender, o) => committed' = committed
      BY DEF Call
    <3>3. Liquidity(u) => Commit
      BY <3>1 DEF Liquidity
    <3>4. Swap(u) => committed' = committed
      BY <3>2 DEF Swap, ExecuteSwap, DexSwap
    <3> QED
      BY <2>1, <3>3, <3>4
  <2>2. SudoSwapExactAmountIn \/ DexRefundExcess \/ Donate => Commit
    BY DEF SudoSwapExactAmountIn, DexRefundExcess, Donate
  <2>3. SudoSwapExactAmountOut \/ Revert \/ UNCHANGED vars => committed' = committed
    BY DEF SudoSwapExactAmountOut, Revert, vars
  <2>4. SetPoolId \/ FactoryChanges \/ EnableAssetBalancesTracking => committed' = committed
    BY DEF SetPoolId, FactoryChanges,
         FactoryRegisters, FactorySetsFeeAddress, EnableAssetBalancesTracking
  <2> QED
    BY <2>1, <2>2, <2>3, <2>4 DEF Next
<1> QED
  BY <1>1, <1>2 DEF CoinsConserved, Commit

\* The coins in the accounts, a message in flight included, are always the endowments.
LEMMA NoCoinsMade == Spec => []CoinsConserved
<1>1. Init => CoinsConserved
  BY InitConserved DEF Init, CoinsConserved
<1>2. IInv /\ CoinsConserved /\ [Next]_vars => CoinsConserved'
  BY ConservedStep
<1> QED
  BY <1>1, <1>2, Invariance, PTL DEF Spec

----------------------------------------------------------------------------
(* The pair's protocol with the DEX implements BalanceHistory within a block: its *)
(* messages amount to steps that move the reserves and write BALANCES at once.    *)

\* The snapshot map of a pair whose tracking is on, or off.
Kept == [h \in {1} |-> -1]
LogOf(tracked) == [a \in Assets |-> IF tracked THEN Kept ELSE <<>>]

\* Within a block the first write keeps what was there before the block, and no later one
\* keeps more.
LEMMA LogOnce ==
    /\ \A old : Records!Logged(Kept, old) = Kept
    /\ Records!Logged(<<>>, -1) = Kept
    /\ Records!Assets = Assets
  BY DEF Records!Logged, Kept, Records!Assets, Assets

\* A write of BALANCES, the one that starts tracking included.
LEMMA RecordsSave ==
    ASSUME track \in BOOLEAN, track', NEW values, balances' = values
    PROVE  Records!Save(values)
<1>1. [a \in Assets |-> Records!Logged(IF track THEN Kept ELSE <<>>,
                                       (IF track THEN balances ELSE NeverTracked)[a])]
         = [a \in Assets |-> Kept]
  <2>1. CASE track
    BY <2>1, LogOnce
  <2>2. CASE ~track
    BY <2>2, LogOnce DEF NeverTracked
  <2> QED
    BY <2>1, <2>2
<1>2. (IF track THEN balances ELSE NeverTracked)' = values
  OBVIOUS
<1>3. \A a \in Assets : Records!Logged(
            [b \in Assets |-> IF track THEN [h \in {1} |-> -1] ELSE <<>>][a],
            (IF track THEN balances ELSE NeverTracked)[a]) = Kept
  BY <1>1, LogOnce DEF Kept
<1> QED
  BY <1>2, <1>3, LogOnce DEF Records!Save, Kept

\* Operations write BALANCES only while they are tracked.
LEMMA RecordsSaveIfTracked ==
    ASSUME track \in BOOLEAN, track' = track, NEW values, track => balances' = values
    PROVE  Records!SaveIfTracked(values)
<1>1. CASE track
  BY <1>1, RecordsSave DEF Records!SaveIfTracked
<1>2. CASE ~track
  BY <1>2 DEF Records!SaveIfTracked
<1> QED
  BY <1>1, <1>2

\* What a sudo handler does to the reserves and to their record is one recorded swap.
LEMMA SwapRecorded ==
    ASSUME track \in BOOLEAN, track' = track,
           NEW offer \in Assets, NEW ask, ask = Other(offer),
           NEW paid \in 1 .. AllCoins, NEW dy \in 1 .. AllCoins, NEW fee \in 0 .. AllCoins,
           NEW returned \in {0, dy},
           Reserve(offer) > 0, dy + fee < Reserve(ask),
           Reserve(offer)' = Reserve(offer) + paid,
           Reserve(ask)' = Reserve(ask) - dy - fee + returned,
           track => /\ balances' \in [Assets -> Nat]
                    /\ balances'[offer] = Reserve(offer) + paid
                    /\ balances'[ask] = Reserve(ask) - dy - fee,
           untracked' \in [Assets -> Nat],
           untracked'[offer] = 0, untracked'[ask] = returned
    PROVE  Records!Next
<1>1. /\ offer \in Records!Assets /\ ask = 1 - offer /\ ask # offer
      /\ \A a \in Assets : a = offer \/ a = ask
      /\ Records!Assets = Assets
  BY LogOnce DEF Other, Assets
<1>2. PICK values : values = [a \in Assets |-> IF a = offer THEN Reserve(a) + paid
                                                          ELSE Reserve(a) - dy - fee]
  OBVIOUS
<1>3. values = Records!SwapBalances(offer, paid, dy, fee)
  BY <1>1, <1>2 DEF Records!SwapBalances
<1>4. track => balances' = values
  <2> SUFFICES ASSUME track PROVE balances' = values
    OBVIOUS
  <2>1. balances' = [a \in Assets |-> balances'[a]]
    OBVIOUS
  <2>2. \A a \in Assets : balances'[a] = values[a]
    BY <1>1, <1>2
  <2> QED
    BY <1>2, <2>1, <2>2
<1>5. Records!SaveIfTracked(Records!SwapBalances(offer, paid, dy, fee))
  BY <1>3, <1>4, RecordsSaveIfTracked
<1>6. [a \in Assets |-> Reserve(a)]' =
         [a \in Assets |-> IF a = offer THEN Reserve(a) + paid
                                        ELSE Reserve(a) - dy - fee + returned]
  <2>1. \A a \in Assets : Reserve(a)' = IF a = offer THEN Reserve(a) + paid
                                        ELSE Reserve(a) - dy - fee + returned
    BY <1>1
  <2> QED
    BY <2>1
<1>7. untracked' = [a \in Assets |-> IF a = offer THEN 0 ELSE returned]
  BY <1>1
<1>8. Records!Swap(offer, paid, dy, fee, returned)
  <2>1. /\ [a \in Assets |-> Reserve(a)][offer] > 0
        /\ dy + fee < [a \in Assets |-> Reserve(a)][1 - offer]
    <3>1. ask \in Assets
      BY DEF Other, Assets
    <3>2. /\ [a \in Assets |-> Reserve(a)][offer] = Reserve(offer)
          /\ [a \in Assets |-> Reserve(a)][ask] = Reserve(ask)
      BY <3>1
    <3>3. ask = 1 - offer
      BY <1>1
    <3> QED
      BY <3>2, <3>3, Zenon
  <2>2. [a \in Assets |-> Reserve(a)]' =
           [a \in Records!Assets |-> IF a = offer THEN [b \in Assets |-> Reserve(b)][a] + paid
                                     ELSE [b \in Assets |-> Reserve(b)][a] - dy - fee + returned]
    BY <1>1, <1>6
  <2>3. untracked' = [a \in Records!Assets |-> IF a = offer THEN 0 ELSE returned]
    BY <1>1, <1>7
  <2>4. UNCHANGED <<1, track, [h \in {1} |-> NeverTracked]>>
    OBVIOUS
  <2> QED
    BY <1>5, <2>1, <2>2, <2>3, <2>4 DEF Records!Swap
<1> QED
  BY <1>1, <1>8 DEF Records!Next, AllCoins

\* A trade in the middle of a call is a recorded swap of coins there are.
LEMMA TradesRecorded ==
    ASSUME IInv, OrderInFlight, CoinsConserved, dex # NoCall, dex.call # "refund", track' = track,
           NEW offer \in Assets, NEW ask \in Assets, NEW taken \in Nat, NEW r,
           offer = dex.offer, taken > 0, taken <= dex.amount, Trades(offer, ask, taken, r)
    PROVE  Records!Next
<1>1. taken \in 1 .. AllCoins
  <2>1. /\ order \in Orders /\ dex.amount = order.amount /\ dex.offer = order.offer
        /\ order.amount \in 1 .. committed.bank[order.payer][order.offer]
    BY DEF IInv, InCall, OrderInFlight
  <2>2. committed.bank[order.payer][order.offer] \in 0 .. AllCoins
    <3>1. PICK b : b = committed.bank
      OBVIOUS
    <3>2. b \in Holdings /\ Conserved(b)
      BY <3>1 DEF IInv, TypeOK, CoinsConserved
    <3>3. PICK p \in Accounts, x \in Assets : p = order.payer /\ x = order.offer
      BY <2>1, AccountFacts DEF Orders
    <3> QED
      BY <3>1, <3>2, <3>3, NobodyHasMore
  <2> QED
    BY <2>1, <2>2, AccountsFinite
<1>2. r.dy \in 1 .. AllCoins /\ r.fee \in 0 .. AllCoins
  <2>1. PICK b : b = bank
    OBVIOUS
  <2>2. b \in Holdings /\ Conserved(b)
    BY <2>1 DEF IInv, TypeOK, CoinsConserved
  <2>3. bank[Pair][ask] \in 0 .. AllCoins
    BY <2>1, <2>2, NobodyHasMore, AccountFacts
  <2>4. Reserve(ask) = bank[Pair][ask]
    BY <2>3, AccountsFinite DEF Trades, Reserve, InFlight
  <2> QED
    BY <2>3, <2>4, AccountsFinite DEF Trades
<1>3. PICK dy \in 1 .. AllCoins, fee \in 0 .. AllCoins : dy = r.dy /\ fee = r.fee
  BY <1>2
<1>4. PICK returned \in {0, dy} : returned = untracked'[ask]
  BY <1>3 DEF Trades
<1>5. /\ ask = Other(offer)
      /\ Reserve(offer) > 0 /\ dy + fee < Reserve(ask)
      /\ Reserve(offer)' = Reserve(offer) + taken
      /\ Reserve(ask)' = Reserve(ask) - dy - fee + returned
      /\ track => /\ balances' \in [Assets -> Nat]
                  /\ balances'[offer] = Reserve(offer) + taken
                  /\ balances'[ask] = Reserve(ask) - dy - fee
      /\ untracked' \in [Assets -> Nat]
      /\ untracked'[offer] = 0 /\ untracked'[ask] = returned
  BY <1>3, <1>4 DEF Trades
<1>6. track \in BOOLEAN
  BY DEF IInv, TypeOK
<1> QED
  BY <1>1, <1>5, <1>6, SwapRecorded

\* Both sudo handlers are recorded swaps, the second before the DEX refunds the excess.
LEMMA SudoRecorded ==
    ASSUME IInv, OrderInFlight, CoinsConserved, SudoSwapExactAmountIn \/ SudoSwapExactAmountOut
    PROVE  Records!Next
<1>1. CASE SudoSwapExactAmountIn
  <2>1. PICK offer \in Assets, ask \in Assets, taken \in Nat, r \in CurveOutcomes :
           offer = dex.offer /\ taken = dex.amount /\ Trades(offer, ask, taken, r)
    BY <1>1, SudoInTrades
  <2>2. dex # NoCall /\ dex.call # "refund" /\ track' = track
    BY <1>1 DEF SudoSwapExactAmountIn, environment
  <2>3. dex.amount > 0
    BY <2>2, PoolsAreReserves DEF OrderInFlight, IInv, InCall, Orders
  <2> QED
    BY <2>1, <2>2, <2>3, TradesRecorded
<1>2. CASE SudoSwapExactAmountOut
  <2>1. PICK offer \in Assets, ask \in Assets, taken \in Nat, r \in CurveOutcomes :
           /\ offer = dex.offer /\ taken > 0 /\ taken <= dex.amount
           /\ Trades(offer, ask, taken, r)
    BY <1>2, SudoOutTrades
  <2>2. dex # NoCall /\ dex.call # "refund" /\ track' = track
    BY <1>2 DEF SudoSwapExactAmountOut, environment
  <2> QED
    BY <2>1, <2>2, TradesRecorded
<1> QED
  BY <1>1, <1>2

\* Between messages an account's coins are the reserves, or bound a deposit.
LEMMA RestBounds ==
    ASSUME IInv, CoinsConserved, Idle
    PROVE  /\ \A p \in Accounts, a \in Assets : bank[p][a] \in 0 .. AllCoins
           /\ track \in BOOLEAN
<1>1. PICK b : b = bank
  OBVIOUS
<1>2. b \in Holdings /\ Conserved(b) /\ track \in BOOLEAN
  BY <1>1 DEF IInv, TypeOK, CoinsConserved
<1> QED
  BY <1>1, <1>2, NobodyHasMore

\* provide_liquidity is a recorded deposit.
LEMMA ProvideRecorded ==
    ASSUME IInv, CoinsConserved, NEW u \in Users, NEW d \in [Assets -> Nat],
           \A a \in Assets : d[a] <= bank[u][a],
           NEW receiver, ProvideLiquidity(u, d, receiver)
    PROVE  Records!Next
<1> USE DEF ProvideLiquidity, environment
<1>1. Idle /\ track \in BOOLEAN /\ track' = track /\ dex' = dex
      /\ \A a \in Assets : d[a] \in 0 .. AllCoins
  BY RestBounds, AccountFacts, AccountsFinite
<1>2. /\ bank' \in Holdings
      /\ \A a \in Assets : bank'[Pair][a] = bank[Pair][a] + d[a]
  BY MoveBothFacts, AccountFacts DEF IInv, TypeOK
<1>3. \A a \in Assets : Reserve(a) = bank[Pair][a] /\ Reserve(a)' = bank'[Pair][a]
  BY <1>1, <1>2, RestFacts, AccountFacts DEF Reserve, InFlight, Idle, Holdings
<1>4. PICK values : values = [a \in Assets |-> Reserve(a) + d[a]]
  OBVIOUS
<1>5. /\ values = [a \in Records!Assets |-> [b \in Assets |-> Reserve(b)][a] + d[a]]
      /\ [a \in Assets |-> Reserve(a)]' = values
      /\ [a \in Assets |-> bank'[Pair][a]] = values
  BY <1>2, <1>3, <1>4, LogOnce
<1>6. track => balances' = values
  BY <1>5
<1>7. Records!SaveIfTracked(values) /\ Records!NothingUntracked
  BY <1>1, <1>6, LogOnce, RecordsSaveIfTracked DEF Records!NothingUntracked
<1>8. d \in [Records!Assets -> 0 .. Cardinality(Users) * Endowment]
  BY <1>1, LogOnce DEF AllCoins
<1>9. UNCHANGED <<1, track, [h \in {1} |-> NeverTracked]>>
  BY <1>1
<1>10. Records!ProvideLiquidity(d)
  BY <1>5, <1>7, <1>9 DEF Records!ProvideLiquidity
<1> QED
  BY <1>8, <1>10 DEF Records!Next

\* withdraw_liquidity is a recorded withdrawal.
LEMMA WithdrawRecorded ==
    ASSUME IInv, CoinsConserved, NEW u \in Users, NEW amount \in 1 .. lpHeld,
           WithdrawLiquidity(u, amount)
    PROVE  Records!Next
<1> USE DEF WithdrawLiquidity, environment
<1>1. PICK refund : refund = RefundAssets(amount)
  OBVIOUS
<1>2. /\ Idle /\ track \in BOOLEAN /\ track' = track /\ dex' = dex
      /\ refund \in [Assets -> Nat]
      /\ \A a \in Assets : refund[a] <= bank[Pair][a] /\ refund[a] \in 0 .. AllCoins
  <2>1. \A a \in Assets : refund[a] \in Nat /\ refund[a] < bank[Pair][a]
    BY <1>1, RefundFacts
  <2>2. \A a \in Assets : bank[Pair][a] \in 0 .. AllCoins
    BY RestBounds, AccountFacts
  <2>3. refund \in [Assets -> Nat]
    BY <1>1, <2>1 DEF RefundAssets
  <2> QED
    BY <2>1, <2>2, <2>3, RestBounds, AccountsFinite
<1>3. /\ bank' \in Holdings
      /\ \A a \in Assets : bank'[Pair][a] = bank[Pair][a] - refund[a]
  <2>1. bank' = Move(Move(bank, Pair, u, 0, refund[0]), Pair, u, 1, refund[1])
    BY <1>1
  <2> QED
    BY <1>2, <2>1, MoveBothFacts, AccountFacts DEF IInv, TypeOK
<1>4. \A a \in Assets : Reserve(a) = bank[Pair][a] /\ Reserve(a)' = bank'[Pair][a]
  BY <1>2, <1>3, RestFacts, AccountFacts DEF Reserve, InFlight, Idle, Holdings
<1>5. PICK values : values = [a \in Assets |-> Reserve(a) - refund[a]]
  OBVIOUS
<1>6. /\ values = [a \in Records!Assets |-> [b \in Assets |-> Reserve(b)][a] - refund[a]]
      /\ [a \in Assets |-> Reserve(a)]' = values
      /\ [a \in Assets |-> bank[Pair][a] - refund[a]] = values
      /\ \A a \in Records!Assets : refund[a] <= [b \in Assets |-> Reserve(b)][a]
  BY <1>2, <1>3, <1>4, <1>5, LogOnce
<1>7. track => balances' = values
  BY <1>1, <1>6
<1>8. Records!SaveIfTracked(values) /\ Records!NothingUntracked
  BY <1>2, <1>7, LogOnce, RecordsSaveIfTracked DEF Records!NothingUntracked
<1>9. refund \in [Records!Assets -> 0 .. Cardinality(Users) * Endowment]
  BY <1>2, LogOnce DEF AllCoins
<1>10. UNCHANGED <<1, track, [h \in {1} |-> NeverTracked]>>
  BY <1>2
<1>11. Records!WithdrawLiquidity(refund)
  BY <1>6, <1>8, <1>10 DEF Records!WithdrawLiquidity
<1> QED
  BY <1>9, <1>11 DEF Records!Next

\* Liquidity operations are recorded.
LEMMA LiquidityRecorded ==
    ASSUME IInv, CoinsConserved, NEW u \in Users, Liquidity(u)
    PROVE  Records!Next
<1>1. ASSUME NEW d0 \in 0 .. bank[u][0], NEW d1 \in 0 .. bank[u][1], NEW receiver \in {u, Pair},
             ProvideLiquidity(u, [a \in Assets |-> IF a = 0 THEN d0 ELSE d1], receiver)
      PROVE  Records!Next
  <2>1. PICK d : d = [a \in Assets |-> IF a = 0 THEN d0 ELSE d1]
    OBVIOUS
  <2>2. bank[u][0] \in Nat /\ bank[u][1] \in Nat
    BY AccountFacts DEF IInv, TypeOK, Holdings, Assets
  <2>3. d \in [Assets -> Nat] /\ \A a \in Assets : d[a] <= bank[u][a]
    BY <2>1, <2>2 DEF Assets
  <2>4. ProvideLiquidity(u, d, receiver)
    BY <1>1, <2>1
  <2> QED
    BY <2>3, <2>4, ProvideRecorded
<1> QED
  BY <1>1, WithdrawRecorded DEF Liquidity

\* Enabling the tracking records the reserves as they are.
LEMMA EnableRecorded ==
    ASSUME IInv, EnableAssetBalancesTracking
    PROVE  Records!Next
<1> USE DEF EnableAssetBalancesTracking
<1>1. /\ \A a \in Assets : Reserve(a) = bank[Pair][a] /\ Reserve(a)' = Reserve(a)
      /\ bank[Pair] \in [Assets -> Nat] /\ track \in BOOLEAN
  BY RestFacts, AccountFacts DEF Reserve, InFlight, IInv, TypeOK, Holdings
<1>2. bank[Pair] = [a \in Assets |-> Reserve(a)]
  BY <1>1
<1>3. Records!Save([a \in Assets |-> Reserve(a)]) /\ Records!NothingUntracked
  BY <1>1, <1>2, LogOnce, RecordsSave DEF Records!NothingUntracked
<1>4. UNCHANGED <<1, [a \in Assets |-> Reserve(a)], [h \in {1} |-> NeverTracked]>>
  BY <1>1
<1>5. Records!EnableAssetBalancesTracking
  BY <1>3, <1>4 DEF Records!EnableAssetBalancesTracking
<1> QED
  BY <1>5 DEF Records!Next

\* Steps that move no reserve and write no record are none of the history's.
LEMMA NotRecorded ==
    ASSUME \A a \in Assets : Reserve(a)' = Reserve(a), UNCHANGED <<track, balances, untracked>>
    PROVE  Records!Next
<1>1. UNCHANGED [a \in Assets |-> Reserve(a)]
  OBVIOUS
<1>2. UNCHANGED (IF track THEN balances ELSE NeverTracked)
  OBVIOUS
<1>3. UNCHANGED [a \in Assets |-> IF track THEN [h \in {1} |-> -1] ELSE <<>>]
  OBVIOUS
<1>4. Records!OtherMessage
  BY <1>1, <1>2, <1>3 DEF Records!OtherMessage, Records!vars
<1> QED
  BY <1>4 DEF Records!Next

\* Donated coins are recorded as untracked, donated LP coins not at all.
LEMMA DonateRecorded ==
    ASSUME IInv, CoinsConserved, Donate
    PROVE  Records!Next
<1> USE DEF Donate
<1>1. dex' = NoCall /\ dex = NoCall /\ UNCHANGED <<track, balances>>
  BY DEF Idle, environment
<1>2. ASSUME NEW u \in Users, NEW a \in Assets, NEW n \in 1 .. bank[u][a],
             bank' = Move(bank, u, Pair, a, n),
             untracked' = [untracked EXCEPT ![a] = @ + n]
      PROVE  Records!Next
  <2>1. n \in Nat /\ n <= bank[u][a] /\ n \in 1 .. AllCoins
    BY RestBounds, AccountFacts, AccountsFinite
  <2>2. /\ bank' \in Holdings
        /\ \A x \in Assets : bank'[Pair][x] = bank[Pair][x] + IF x = a THEN n ELSE 0
    <3>1. bank \in Holdings /\ \A x \in Assets : bank[Pair][x] \in Nat
      BY RestFacts DEF IInv, TypeOK
    <3> QED
      BY <1>2, <2>1, <3>1, MoveFacts, AccountFacts
  <2>3. \A x \in Assets : /\ Reserve(x) = bank[Pair][x]
                          /\ Reserve(x)' = bank'[Pair][x]
                          /\ bank[Pair][x] \in Nat
    BY <1>1, <2>2, RestFacts, AccountFacts DEF Reserve, InFlight, Holdings
  <2>4. PICK held, held2 : held = [x \in Assets |-> Reserve(x)] /\ held2 = [x \in Assets |-> Reserve(x)']
    OBVIOUS
  <2>5. held2 = [held EXCEPT ![a] = @ + n]
    BY <2>1, <2>2, <2>3, <2>4
  <2>6. [x \in Assets |-> Reserve(x)]' = [[x \in Assets |-> Reserve(x)] EXCEPT ![a] = @ + n]
    BY <2>4, <2>5
  <2>7. UNCHANGED <<1, track, IF track THEN balances ELSE NeverTracked,
                    [x \in Assets |-> IF track THEN [h \in {1} |-> -1] ELSE <<>>],
                    [h \in {1} |-> NeverTracked]>>
    BY <1>1
  <2>8. Records!Donate(a, n)
    BY <1>2, <2>6, <2>7 DEF Records!Donate
  <2> QED
    BY <2>1, <2>8, LogOnce DEF Records!Next, AllCoins
<1>3. CASE UNCHANGED <<bank, untracked>>
  <2>1. \A a \in Assets : Reserve(a)' = Reserve(a)
    BY <1>1, <1>3 DEF Reserve, InFlight
  <2> QED
    BY <1>1, <1>3, <2>1, NotRecorded
<1> QED
  BY <1>2, <1>3

\* The coins of a call just made are no reserve yet.
LEMMA CallNotRecorded ==
    ASSUME IInv, IInv', OrderInFlight', NEW u \in Users, Swap(u)
    PROVE  Records!Next
<1>1. PICK kind, sender, o : kind \in {"exact_in", "exact_out"} /\ Call(kind, sender, o)
  <2>1. PICK offer \in Assets, limit \in Limits : \E amount \in 1 .. bank[u][offer] :
           \/ \E to \in Users \cup {Pair, None} : ExecuteSwap(u, offer, amount, limit, to)
           \/ \E k \in {"exact_in", "exact_out"} : DexSwap(k, u, offer, amount, limit)
    BY DEF Swap
  <2>2. CASE \E amount, to : ExecuteSwap(u, offer, amount, limit, to)
    BY <2>2 DEF ExecuteSwap
  <2>3. CASE \E amount : \E k \in {"exact_in", "exact_out"} : DexSwap(k, u, offer, amount, limit)
    BY <2>3 DEF DexSwap
  <2> QED
    BY <2>1, <2>2, <2>3
<1>2. /\ Idle /\ committed' = committed /\ dex' # NoCall /\ dex'.call # "refund"
      /\ UNCHANGED <<track, balances, untracked>>
  BY <1>1, SwapCalls DEF Call, environment
<1>3. \A a \in Assets : committed'.bank[Pair][a] = Reserve(a)'
  BY <1>2 DEF IInv, InCall
<1>4. committed.bank = bank
  BY <1>2 DEF IInv, AtRest
<1>5. \A a \in Assets : Reserve(a) = bank[Pair][a]
  BY <1>2, RestFacts
<1> QED
  BY <1>2, <1>3, <1>4, <1>5, NotRecorded

\* Nor are those that come back, to a swap's payer or by a rollback.
LEMMA ReturnNotRecorded ==
    ASSUME IInv, DexRefundExcess \/ Revert
    PROVE  Records!Next
<1>1. UNCHANGED <<track, balances, untracked>>
  BY DEF DexRefundExcess, Revert, environment
<1>2. CASE DexRefundExcess
  BY <1>1, <1>2, RefundFromCall, NotRecorded
<1>3. CASE Revert
  <2>1. dex # NoCall /\ dex.call # "refund" /\ dex' = NoCall /\ bank' = committed.bank
    BY <1>3 DEF Revert
  <2>2. committed.bank \in Holdings
    BY DEF IInv, TypeOK
  <2>3. \A a \in Assets : Reserve(a)' = bank'[Pair][a]
    BY <2>1, <2>2, AccountFacts DEF Reserve, InFlight, Holdings
  <2>4. \A a \in Assets : committed.bank[Pair][a] = Reserve(a)
    BY <2>1 DEF IInv, InCall
  <2> QED
    BY <1>1, <2>1, <2>3, <2>4, NotRecorded
<1> QED
  BY <1>2, <1>3

\* Every step of the pair is a step of the history.
LEMMA RecordsStep ==
    ASSUME IInv, IInv', OrderInFlight, OrderInFlight', CoinsConserved, [Next]_vars
    PROVE  Records!Next
<1>1. CASE SetPoolId \/ FactoryChanges \/ UNCHANGED vars
  <2>1. UNCHANGED <<bank, dex, track, balances, untracked>>
    BY <1>1 DEF SetPoolId, FactoryChanges, FactoryRegisters, FactorySetsFeeAddress, vars
  <2>2. \A a \in Assets : Reserve(a)' = Reserve(a)
    BY <2>1 DEF Reserve, InFlight
  <2> QED
    BY <2>1, <2>2, NotRecorded
<1>2. CASE SudoSwapExactAmountIn \/ SudoSwapExactAmountOut
  BY <1>2, SudoRecorded
<1>3. CASE DexRefundExcess \/ Revert
  BY <1>3, ReturnNotRecorded
<1>4. CASE EnableAssetBalancesTracking
  BY <1>4, EnableRecorded
<1>5. CASE Donate
  BY <1>5, DonateRecorded
<1>6. ASSUME NEW u \in Users, Liquidity(u) \/ Swap(u)
      PROVE  Records!Next
  BY <1>6, LiquidityRecorded, CallNotRecorded
<1> QED
  BY <1>1, <1>2, <1>3, <1>4, <1>5, <1>6 DEF Next

\* An instantiated pair starts an empty history.
LEMMA InitRecorded == Init => Records!Init
<1> SUFFICES ASSUME Init PROVE Records!Init
  OBVIOUS
<1>1. \A a \in Assets : Reserve(a) = 0
  BY AccountFacts DEF Init, InitBank, Reserve, InFlight
<1>2. [a \in Assets |-> Reserve(a)] = [a \in Records!Assets |-> 0]
  BY <1>1, LogOnce
<1>3. /\ track \in BOOLEAN /\ balances = [a \in Assets |-> 0]
      /\ untracked = [a \in Records!Assets |-> 0]
  BY LogOnce DEF Init
<1>4. (IF track THEN balances ELSE NeverTracked)
         = [a \in Records!Assets |-> IF track THEN 0 ELSE -1]
  BY <1>3, LogOnce DEF NeverTracked
<1>5. [a \in Assets |-> IF track THEN [h \in {1} |-> -1] ELSE <<>>]
         = [a \in Records!Assets |-> IF track THEN [h \in {1} |-> -1] ELSE <<>>]
  BY LogOnce
<1>6. [h \in {1} |-> NeverTracked] = [h \in {1} |-> [a \in Records!Assets |-> -1]]
  BY LogOnce DEF NeverTracked
<1> QED
  BY <1>2, <1>3, <1>4, <1>5, <1>6 DEF Records!Init, Records!NotTracked

\* The pair and its protocol with the DEX implement the balance history within a block:
\* every message, whether it completes, fails or pays the pair itself, is one operation on
\* the reserves and the matching write of BALANCES, so that what is proved of the history
\* of many blocks, made of such operations, is about this code.
THEOREM ImplementsRecords == Spec => RecordsSpec
<1>1. Init => OrderInFlight /\ CoinsConserved
  BY InitConserved DEF Init, OrderInFlight, CoinsConserved
<1>2. IInv /\ IInv' /\ OrderInFlight /\ [Next]_vars => OrderInFlight'
  BY OrderStep
<1>3. IInv /\ IInv' /\ OrderInFlight /\ OrderInFlight' /\ CoinsConserved /\ [Next]_vars
         => [Records!Next]_(Records!vars)
  BY RecordsStep
<1> QED
  BY <1>1, <1>2, <1>3, InitRecorded, ConservedStep, Invariance, PTL DEF Spec, RecordsSpec, Records!Spec
==============================================================================
