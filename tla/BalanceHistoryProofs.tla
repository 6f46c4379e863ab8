------------------------- MODULE BalanceHistoryProofs -------------------------
(* Theorems about BalanceHistory: AssetBalanceAt never misremembers a block. *)
EXTENDS BalanceHistory, WellFoundedInduction, TLAPS

\* TypeOK and HistoryRight are inductive together.
IInv == TypeOK /\ HistoryRight

\* A set of heights has a first one.
LEMMA LeastHeight ==
    ASSUME NEW S \in SUBSET Nat, S # {}
    PROVE  Min(S) \in S /\ \A n \in S : Min(S) <= n
<1> DEFINE R == OpToRel(<, Nat)
<1>1. IsWellFoundedOn(R, Nat)
  BY NatLessThanWellFounded
<1>2. ASSUME NEW n \in Nat, NEW k \in Nat PROVE n < k => <<n, k>> \in R
  BY DEF OpToRel
<1> HIDE DEF R
<1>3. PICK n \in S : \A k \in S : ~ (<<k, n>> \in R)
  BY <1>1, WFMin
<1>4. ASSUME NEW k \in S PROVE n <= k
  <2>1. ~ (k < n)
    BY <1>2, <1>3
  <2> QED BY <2>1
<1> QED BY <1>4 DEF Min

\* To find the least element of a set it is enough to know it.
LEMMA LeastIs ==
    ASSUME NEW S \in SUBSET Nat, NEW n \in S, \A k \in S : n <= k
    PROVE  Min(S) = n
<1> DEFINE m == Min(S)
<1>1. m \in S /\ m <= n
  BY LeastHeight
<1>2. n <= m /\ m \in Nat /\ n \in Nat
  BY <1>1
<1> HIDE DEF m
<1>3. m = n
  BY <1>1, <1>2
<1> QED BY <1>3 DEF m

\* A block beyond all that is logged has the latest value.
LEMMA BeyondLog ==
    ASSUME NEW a, NEW h \in Nat, \A k \in DOMAIN changelog[a] : k \in Nat /\ k < h
    PROVE  AssetBalanceAt(a, h) = balances[a]
<1> DEFINE later == {k \in DOMAIN changelog[a] : h <= k}
<1>1. later = {}
  OBVIOUS
<1> QED BY <1>1 DEF AssetBalanceAt

\* A write changes what is known of the next block, and of no earlier one.
LEMMA SaveRemembers ==
    ASSUME TypeOK, NEW values, Save(values), height' = height, values \in [Assets -> Values],
           NEW a \in Assets, NEW h \in 1 .. height
    PROVE  AssetBalanceAt(a, h)' = AssetBalanceAt(a, h)
<1> DEFINE log == changelog[a]
           later == {k \in DOMAIN log : h <= k}
           log2 == Logged(log, balances[a])
           later2 == {k \in DOMAIN log2 : h <= k}
<1>1. /\ DOMAIN log \subseteq 1 .. height
      /\ height \in Nat
      /\ \A k \in DOMAIN log : log[k] \in Values
  BY DEF TypeOK
<1>2. changelog'[a] = log2 /\ balances'[a] = values[a]
  BY DEF Save
<1>3. /\ DOMAIN log2 = DOMAIN log \cup {height}
      /\ \A k \in DOMAIN log2 : log2[k] = IF k \in DOMAIN log THEN log[k] ELSE balances[a]
  BY DEF Logged
<1> HIDE DEF log2
<1>4. later2 = later \cup {height} /\ later2 \in SUBSET Nat /\ later \in SUBSET (1 .. height)
  BY <1>1, <1>3
<1>5. AssetBalanceAt(a, h)' = log2[Min(later2)]
  BY <1>2, <1>4 DEF AssetBalanceAt
<1>6. CASE later = {}
  <2>1. Min(later2) = height
    BY <1>1, <1>4, <1>6, LeastIs
  <2>2. height \notin DOMAIN log
    BY <1>1, <1>6
  <2>3. AssetBalanceAt(a, h) = balances[a]
    BY <1>6 DEF AssetBalanceAt
  <2> QED BY <1>3, <1>4, <1>5, <2>1, <2>2, <2>3
<1>7. CASE later # {}
  <2>1. Min(later) \in later /\ \A k \in later : Min(later) <= k
    BY <1>4, <1>7, LeastHeight
  <2>2. Min(later) \in later2 /\ \A k \in later2 : Min(later) <= k
    BY <1>1, <1>4, <2>1
  <2>3. Min(later2) = Min(later)
    BY <1>4, <2>2, LeastIs
  <2>4. AssetBalanceAt(a, h) = log[Min(later)]
    BY <1>7 DEF AssetBalanceAt
  <2>5. log2[Min(later)] = log[Min(later)]
    BY <1>3, <1>4, <2>1
  <2> QED BY <1>5, <2>3, <2>4, <2>5
<1> QED BY <1>6, <1>7

\* A write of Values keeps the types of the records.
LEMMA SaveKeepsTypes ==
    ASSUME TypeOK, NEW values \in [Assets -> Values], Save(values), UNCHANGED <<height, atStart>>,
           track' \in BOOLEAN, reserves' \in Amounts, untracked' \in Amounts
    PROVE  TypeOK'
<1>1. balances' \in [Assets -> Values]
  BY DEF Save
<1>2. height \in Nat /\ 1 .. height = 1 .. height' /\ DOMAIN atStart = 1 .. height
  BY DEF TypeOK
<1>3. DOMAIN changelog' = Assets
  BY DEF Save
<1>4. height \in 1 .. height
  BY DEF TypeOK
<1>5. ASSUME NEW a \in Assets
      PROVE  /\ DOMAIN changelog'[a] \subseteq 1 .. height
             /\ \A h \in DOMAIN changelog'[a] : changelog'[a][h] \in Values
  <2>1. /\ DOMAIN changelog[a] \subseteq 1 .. height
        /\ \A h \in DOMAIN changelog[a] : changelog[a][h] \in Values
        /\ balances[a] \in Values
    BY DEF TypeOK
  <2>2. changelog'[a] = Logged(changelog[a], balances[a])
    BY DEF Save
  <2> QED BY <1>4, <2>1, <2>2 DEF Logged
<1> QED BY <1>1, <1>2, <1>3, <1>5 DEF TypeOK

\* What a write is to record keeps history right: the values it writes are the reserves but
\* for what it does not track.
LEMMA SaveKeeps ==
    ASSUME IInv, NEW values \in [Assets -> Values], Save(values), UNCHANGED <<height, atStart>>,
           track' = TRUE, reserves' \in Amounts, untracked' \in Amounts,
           \A a \in Assets : values[a] = reserves'[a] - untracked'[a]
    PROVE  IInv'
<1>1. TypeOK'
  BY SaveKeepsTypes DEF IInv
<1>2. ASSUME NEW a \in Assets, NEW h \in 1 .. height
      PROVE  AssetBalanceAt(a, h)' = atStart'[h][a]
  <2>1. AssetBalanceAt(a, h)' = AssetBalanceAt(a, h)
    BY SaveRemembers DEF IInv
  <2> QED BY <2>1 DEF IInv, HistoryRight
<1>3. ASSUME NEW a \in Assets PROVE AssetBalanceAt(a, height + 1)' = TrackedReserves'[a]
  <2>1. PICK n : n = height + 1
    OBVIOUS
  <2>2. n \in Nat /\ \A k \in DOMAIN changelog'[a] : k \in Nat /\ k < n
    BY <1>1, <2>1 DEF TypeOK, IInv
  <2>3. AssetBalanceAt(a, n)' = balances'[a]
    <3> DEFINE later == {k \in DOMAIN changelog'[a] : n <= k}
    <3>1. later = {}
      BY <2>2
    <3> QED BY <3>1 DEF AssetBalanceAt
  <2>4. TrackedReserves'[a] = reserves'[a] - untracked'[a]
    BY DEF TrackedReserves
  <2>5. balances'[a] = reserves'[a] - untracked'[a]
    BY DEF Save
  <2>6. AssetBalanceAt(a, height + 1)' = AssetBalanceAt(a, n)'
    BY <2>1
  <2> QED BY <2>3, <2>4, <2>5, <2>6
<1>4. HistoryRight'
  BY <1>2, <1>3 DEF HistoryRight
<1> QED BY <1>1, <1>4 DEF IInv

\* So does leaving the records alone, as long as the tracked reserves stay what they are.
LEMMA NoSaveKeeps ==
    ASSUME IInv, UNCHANGED <<height, track, balances, changelog, atStart>>,
           reserves' \in Amounts, untracked' \in Amounts,
           \A a \in Assets : TrackedReserves'[a] = TrackedReserves[a]
    PROVE  IInv'
<1>1. TypeOK'
  BY DEF IInv, TypeOK
<1>2. ASSUME NEW a \in Assets, NEW h \in Nat PROVE AssetBalanceAt(a, h)' = AssetBalanceAt(a, h)
  BY DEF AssetBalanceAt
<1>3. height \in Nat /\ \A h \in 1 .. height : h \in Nat
  BY DEF IInv, TypeOK
<1>4. ASSUME NEW a \in Assets, NEW h \in 1 .. height
      PROVE  AssetBalanceAt(a, h)' = atStart'[h][a]
  BY <1>2, <1>3 DEF IInv, HistoryRight
<1>5. ASSUME NEW a \in Assets PROVE AssetBalanceAt(a, height + 1)' = TrackedReserves'[a]
  <2>1. PICK n \in Nat : n = height + 1
    BY <1>3
  <2>2. AssetBalanceAt(a, n)' = AssetBalanceAt(a, n)
    BY <1>2
  <2>3. AssetBalanceAt(a, height + 1)' = AssetBalanceAt(a, n)'
    BY <2>1
  <2> QED BY <2>1, <2>2, <2>3 DEF IInv, HistoryRight
<1>6. HistoryRight'
  BY <1>4, <1>5 DEF HistoryRight
<1> QED BY <1>1, <1>6 DEF IInv

\* An operation on the reserves that writes them if they are tracked.
LEMMA OperationKeeps ==
    ASSUME IInv, reserves' \in Amounts, untracked' \in Amounts, UNCHANGED <<height, track, atStart>>,
           NEW values \in Amounts, SaveIfTracked(values),
           \A a \in Assets : values[a] = reserves'[a] - untracked'[a]
    PROVE  IInv'
<1>1. CASE track
  <2>1. Save(values) /\ track' = TRUE /\ values \in [Assets -> Values]
    BY <1>1 DEF SaveIfTracked, Amounts, Values
  <2> QED BY <2>1, SaveKeeps
<1>2. CASE ~track
  <2>1. UNCHANGED <<balances, changelog>>
    BY <1>2 DEF SaveIfTracked
  <2>2. \A a \in Assets : TrackedReserves'[a] = TrackedReserves[a]
    BY <1>2 DEF TrackedReserves
  <2> QED BY <2>1, <2>2, NoSaveKeeps
<1> QED BY <1>1, <1>2 DEF IInv, TypeOK

\* The next block begins with what the last one left.
LEMMA NewBlockKeeps ==
    ASSUME IInv, NewBlock
    PROVE  IInv'
<1> USE DEF NewBlock
<1>1. height \in Nat \ {0} /\ height' = height + 1
  BY DEF IInv, TypeOK
<1>2. TrackedReserves \in [Assets -> Values]
  <2>1. ASSUME NEW a \in Assets PROVE TrackedReserves[a] \in Values
    <3>1. CASE track
      <4>1. balances[a] \in Values /\ TrackedReserves[a] = AssetBalanceAt(a, height + 1)
        BY DEF IInv, TypeOK, HistoryRight
      <4>2. AssetBalanceAt(a, height + 1) = balances[a]
        BY <1>1, BeyondLog DEF IInv, TypeOK
      <4> QED BY <4>1, <4>2
    <3>2. CASE ~track
      BY <3>2 DEF TrackedReserves, Values
    <3> QED BY <3>1, <3>2 DEF IInv, TypeOK
  <2> QED BY <2>1 DEF TrackedReserves
<1>3. /\ DOMAIN atStart' = 1 .. height'
      /\ atStart'[height'] = TrackedReserves
      /\ \A h \in 1 .. height : atStart'[h] = atStart[h]
  BY <1>1 DEF IInv, TypeOK
<1>4. TypeOK'
  BY <1>1, <1>2, <1>3 DEF IInv, TypeOK
<1>5. ASSUME NEW a \in Assets, NEW h \in Nat PROVE AssetBalanceAt(a, h)' = AssetBalanceAt(a, h)
  BY DEF AssetBalanceAt
<1>6. ASSUME NEW a \in Assets, NEW h \in 1 .. height'
      PROVE  AssetBalanceAt(a, h)' = atStart'[h][a]
  <2>1. CASE h \in 1 .. height
    BY <1>1, <1>3, <1>5, <2>1 DEF IInv, HistoryRight
  <2>2. CASE h = height + 1
    <3>1. AssetBalanceAt(a, h) = TrackedReserves[a]
      BY <2>2 DEF IInv, HistoryRight
    <3> QED BY <1>1, <1>3, <1>5, <2>2, <3>1
  <2> QED BY <1>1, <2>1, <2>2
<1>7. ASSUME NEW a \in Assets PROVE AssetBalanceAt(a, height + 1)' = TrackedReserves'[a]
  <2>1. PICK n \in Nat : n = height' + 1
    BY <1>1
  <2>2. AssetBalanceAt(a, n)' = AssetBalanceAt(a, n)
    BY <1>5
  <2>3. AssetBalanceAt(a, height + 1)' = AssetBalanceAt(a, n)'
    BY <2>1
  <2>4. AssetBalanceAt(a, n) = balances[a] /\ AssetBalanceAt(a, height + 1) = balances[a]
    BY <1>1, <2>1, BeyondLog DEF IInv, TypeOK
  <2>5. TrackedReserves'[a] = TrackedReserves[a]
    BY DEF TrackedReserves
  <2> QED BY <2>2, <2>3, <2>4, <2>5 DEF IInv, HistoryRight
<1>8. HistoryRight'
  BY <1>6, <1>7 DEF HistoryRight
<1> QED BY <1>4, <1>8 DEF IInv

\* Every operation and every new block keeps types and history.
LEMMA Inductive ==
    ASSUME IInv, [Next]_vars
    PROVE  IInv'
<1> USE DEF NothingUntracked
<1>0. reserves \in Amounts /\ \A a \in Assets : reserves[a] \in Nat
  BY DEF IInv, TypeOK, Amounts
<1>1. ASSUME NEW d \in [Assets -> 0 .. MaxAmount], ProvideLiquidity(d) PROVE IInv'
  <2>1. PICK values : values = [a \in Assets |-> reserves[a] + d[a]]
    OBVIOUS
  <2>2. /\ reserves' = values /\ untracked' = [a \in Assets |-> 0]
        /\ SaveIfTracked(values) /\ UNCHANGED <<height, track, atStart>>
    BY <1>1, <2>1 DEF ProvideLiquidity
  <2>3. values \in Amounts /\ untracked' \in Amounts
    BY <1>0, <2>1, <2>2 DEF Amounts
  <2> QED BY <2>2, <2>3, OperationKeeps DEF Amounts
<1>2. ASSUME NEW d \in [Assets -> 0 .. MaxAmount], WithdrawLiquidity(d) PROVE IInv'
  <2>1. PICK values : values = [a \in Assets |-> reserves[a] - d[a]]
    OBVIOUS
  <2>2. /\ reserves' = values /\ untracked' = [a \in Assets |-> 0]
        /\ SaveIfTracked(values) /\ UNCHANGED <<height, track, atStart>>
        /\ \A a \in Assets : d[a] <= reserves[a]
    BY <1>2, <2>1 DEF WithdrawLiquidity
  <2>3. values \in Amounts /\ untracked' \in Amounts
    BY <1>0, <2>1, <2>2 DEF Amounts
  <2> QED BY <2>2, <2>3, OperationKeeps DEF Amounts
<1>3. ASSUME NEW offer \in Assets, NEW paid \in 1 .. MaxAmount, NEW dy \in 1 .. MaxAmount,
             NEW fee \in 0 .. MaxAmount, NEW returned \in {0, dy},
             Swap(offer, paid, dy, fee, returned)
      PROVE  IInv'
  <2>1. PICK values : values = SwapBalances(offer, paid, dy, fee)
    OBVIOUS
  <2>2. /\ reserves' = [a \in Assets |-> IF a = offer THEN reserves[a] + paid
                                                     ELSE reserves[a] - dy - fee + returned]
        /\ untracked' = [a \in Assets |-> IF a = offer THEN 0 ELSE returned]
        /\ SaveIfTracked(values) /\ UNCHANGED <<height, track, atStart>>
        /\ dy + fee < reserves[1 - offer]
    BY <1>3, <2>1 DEF Swap
  <2>3. \A a \in Assets : a # offer => a = 1 - offer
    BY DEF Assets
  <2>4. values \in Amounts
    BY <1>0, <2>1, <2>2, <2>3 DEF SwapBalances, Amounts
  <2>5. reserves' \in Amounts /\ untracked' \in Amounts
    BY <1>0, <2>2, <2>3 DEF Amounts
  <2>6. \A a \in Assets : values[a] = reserves'[a] - untracked'[a]
    BY <1>0, <2>1, <2>2 DEF SwapBalances
  <2> QED BY <2>2, <2>4, <2>5, <2>6, OperationKeeps
<1>4. CASE EnableAssetBalancesTracking
  <2>1. /\ Save(reserves) /\ UNCHANGED <<height, atStart>> /\ track' = TRUE
        /\ reserves' = reserves /\ untracked' = [a \in Assets |-> 0]
    BY <1>4 DEF EnableAssetBalancesTracking
  <2>2. reserves \in [Assets -> Values] /\ untracked' \in Amounts
    BY <1>0, <2>1 DEF Amounts, Values
  <2> QED BY <1>0, <2>1, <2>2, SaveKeeps
<1>5. ASSUME NEW a \in Assets, NEW n \in 1 .. MaxAmount, Donate(a, n) PROVE IInv'
  <2>1. reserves \in [Assets -> Nat] /\ untracked \in [Assets -> Nat]
    BY DEF IInv, TypeOK, Amounts
  <2>2. /\ reserves' = [reserves EXCEPT ![a] = @ + n]
        /\ untracked' = [untracked EXCEPT ![a] = @ + n]
        /\ UNCHANGED <<height, track, balances, changelog, atStart>>
    BY <1>5 DEF Donate
  <2>3. reserves' \in Amounts /\ untracked' \in Amounts
    BY <2>1, <2>2 DEF Amounts
  <2>4. \A b \in Assets : reserves'[b] - untracked'[b] = reserves[b] - untracked[b]
    BY <2>1, <2>2
  <2>5. \A b \in Assets : TrackedReserves'[b] = TrackedReserves[b]
    BY <2>2, <2>4 DEF TrackedReserves
  <2> QED BY <2>2, <2>3, <2>5, NoSaveKeeps
<1>6. CASE UNCHANGED vars
  <2>1. \A b \in Assets : TrackedReserves'[b] = TrackedReserves[b]
    BY <1>6 DEF TrackedReserves, vars
  <2> QED BY <1>6, <2>1, NoSaveKeeps DEF vars, IInv, TypeOK
<1> QED BY <1>1, <1>2, <1>3, <1>4, <1>5, <1>6, NewBlockKeeps DEF Next, OtherMessage

\* Before the first operation nothing is remembered wrongly.
LEMMA Initially == Init => IInv
<1> SUFFICES ASSUME Init PROVE IInv
  OBVIOUS
<1> USE DEF Init
<1>1. TypeOK
  BY DEF TypeOK, Amounts, Values
<1>2. ASSUME NEW a \in Assets PROVE AssetBalanceAt(a, 1) = NotTracked
  <2>1. CASE track
    <3> DEFINE later == {k \in DOMAIN changelog[a] : 1 <= k}
    <3>1. changelog[a] = [h \in {1} |-> NotTracked]
      BY <2>1
    <3>2. DOMAIN changelog[a] = {1} /\ changelog[a][1] = NotTracked
      BY <3>1
    <3>3. later = {1}
      BY <3>2
    <3>4. Min(later) = 1
      BY <3>3, LeastIs
    <3> QED BY <3>2, <3>3, <3>4 DEF AssetBalanceAt
  <2>2. CASE ~track
    BY <2>2 DEF AssetBalanceAt
  <2> QED BY <2>1, <2>2
<1>3. ASSUME NEW a \in Assets PROVE AssetBalanceAt(a, 2) = balances[a]
  BY BeyondLog DEF TypeOK
<1>4. \A a \in Assets : balances[a] = TrackedReserves[a]
  BY DEF TrackedReserves
<1>5. HistoryRight
  BY <1>2, <1>3, <1>4 DEF HistoryRight
<1> QED BY <1>1, <1>5 DEF IInv

\* In every reachable state the records have their types and AssetBalanceAt is right.
THEOREM HistoryInvariance == Spec => []IInv
  BY Initially, Inductive, PTL DEF Spec

\* Types; nothing is logged for a block to come.
THEOREM HistoryTypeCorrect == Spec => []TypeOK
<1>1. IInv => TypeOK
  BY DEF IInv
<1> QED BY <1>1, HistoryInvariance, PTL

\* AssetBalanceAt answers with the tracked balance at the beginning of the block, for any
\* number of blocks and operations, amounts of any size, and whenever tracking is enabled.
THEOREM HistoryAlwaysRight == Spec => []HistoryRight
<1>1. IInv => HistoryRight
  BY DEF IInv
<1> QED BY <1>1, HistoryInvariance, PTL
==============================================================================
