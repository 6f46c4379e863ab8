-------------------------- MODULE ObservationsProofs --------------------------
(* Theorems about Observations: the circular buffer implements PriceWindow. *)
EXTENDS Observations, Sums

\* The precommit is of the latest second with trades and has its volumes; the seconds before
\* are observed.
PrecommitLatest ==
    /\ precommit = None => DOMAIN traded = {}
    /\ precommit # None =>
          /\ precommit.ts \in DOMAIN traded
          /\ precommit.ts <= lastSwap
          /\ precommit.base = traded[precommit.ts][Len(traded[precommit.ts])].base
          /\ precommit.quote = traded[precommit.ts][Len(traded[precommit.ts])].quote
          /\ \A t \in DOMAIN traded :
                /\ t <= precommit.ts
                /\ t < precommit.ts => LastObs # None /\ t <= LastObs.ts
    /\ LastObs # None => precommit # None /\ LastObs.ts <= precommit.ts

\* How many writes ago a slot was written, if it was.
Age(slot) == IF slot <= head THEN head - slot ELSE head + Capacity - slot

\* The slots were filled one after the other, in order of time.
Ordered ==
    \A s, older \in Slots :
        ring[older] # None /\ Age(s) < Age(older)
          => ring[s] # None /\ ring[older].ts < ring[s].ts

IInv == TypeOK /\ SecondsObserved /\ PrecommitLatest /\ Ordered

\* The slot after the head, without the modulus.
LEMMA FollowingHead ==
    ASSUME head \in Slots
    PROVE  /\ Following(head) = IF head = Capacity - 1 THEN 0 ELSE head + 1
           /\ Following(head) \in Slots
<1>1. CASE head = Capacity - 1
  BY <1>1, CapacityAssumption DEF Following, Slots
<1>2. CASE head # Capacity - 1
  BY <1>2, CapacityAssumption DEF Following, Slots
<1> QED BY <1>1, <1>2

\* The fields of a precommit observation.
LEMMA PrecommitTyped ==
    ASSUME TypeOK, precommit # None
    PROVE  /\ precommit \in [base: Nat \ {0}, quote: Nat \ {0}, ts: Nat]
           /\ precommit.ts <= now
  BY DEF TypeOK, Precommits

\* The fields of an observation in the buffer.
LEMMA SlotTyped ==
    ASSUME TypeOK, NEW slot \in Slots, ring[slot] # None
    PROVE  ring[slot] \in [ts: Nat, price: Nat, sma: Nat]
  BY DEF TypeOK, Observed

\* Prices are natural numbers.
LEMMA PriceTyped ==
    ASSUME NEW b \in Nat \ {0}, NEW q \in Nat \ {0}
    PROVE  (b * DecimalUnit) \div q \in Nat
<1>1. b * DecimalUnit \in Nat
  BY UnitAssumption
<1> QED BY <1>1

\* The averages are integers; those below zero are refused.
LEMMA SmaTyped ==
    ASSUME TypeOK, NEW price \in Nat
    PROVE  PriceSma(price) \in Int
<1>1. head \in Nat /\ head \in Slots
  BY CapacityAssumption DEF TypeOK, Slots
<1>2. CASE LastObs = None
  BY <1>2 DEF PriceSma
<1>3. CASE LastObs # None
  <2>1. LastObs.sma \in Nat
    BY <1>1, <1>3, SlotTyped DEF LastObs
  <2>2. CASE OldestObs # None
    <3>1. OldestObs.price \in Nat
      BY <1>1, <2>2, FollowingHead, SlotTyped DEF OldestObs
    <3>2. LastObs.sma * Capacity \in Nat
      BY <2>1, CapacityAssumption
    <3>3. LastObs.sma * Capacity + price - OldestObs.price \in Int
      BY <3>1, <3>2
    <3> QED BY <1>3, <2>2, <3>3, CapacityAssumption DEF PriceSma, SmaAfterEviction
  <2>3. CASE OldestObs = None
    <3>1. LastObs.sma * head \in Nat
      BY <1>1, <2>1
    <3>2. LastObs.sma * head + price \in Int /\ head + 1 \in Nat \ {0}
      BY <1>1, <3>1
    <3> QED BY <1>3, <2>3, <3>2 DEF PriceSma, SmaAfterAddition
  <2> QED BY <2>2, <2>3
<1> QED BY <1>2, <1>3

----------------------------------------------------------------------------
(* What one swap does to the buffer *)

\* The observation that is pushed.
Pushed == [ts |-> precommit.ts, price |-> PriceOf(precommit), sma |-> PriceSma(PriceOf(precommit))]

\* A swap pushes the precommit or leaves the buffer alone.
LEMMA PushesPrecommit ==
    ASSUME TypeOK, NEW trade, AccumulateSwapSizes(PrecommitFound(trade)), PushDue(precommit)
    PROVE  /\ Pushed \in Observed
           /\ Pushed # None
           /\ Pushed.ts = precommit.ts
           /\ ring' = [ring EXCEPT ![Following(head)] = Pushed]
           /\ head' = Following(head)
           /\ ring' \in [Slots -> Observed \cup {None}]
           /\ head' \in Slots
           /\ LastObs' = Pushed
<1>1. precommit # None /\ precommit \in [base: Nat \ {0}, quote: Nat \ {0}, ts: Nat]
  BY PrecommitTyped DEF PushDue
<1>2. PriceOf(precommit) \in Nat
  BY <1>1, PriceTyped DEF PriceOf
<1>3. PriceSma(PriceOf(precommit)) \in Nat
  BY <1>2, SmaTyped DEF AccumulateSwapSizes, PrecommitFound
<1>4. Pushed \in Observed /\ Pushed # None /\ Pushed.ts = precommit.ts
  BY <1>1, <1>2, <1>3, AbsentObservationAssumption DEF Pushed, Observed
<1>5. ring' = [ring EXCEPT ![Following(head)] = Pushed] /\ head' = Following(head)
  BY DEF AccumulateSwapSizes, PrecommitFound, Pushed, PushSlot
<1>6. Following(head) \in Slots /\ ring \in [Slots -> Observed \cup {None}]
  BY FollowingHead DEF TypeOK
<1> QED BY <1>4, <1>5, <1>6 DEF LastObs

\* Of the slots only the pushed one changes, and all others are one write older.
LEMMA PushAges ==
    ASSUME head \in Slots, head' = Following(head)
    PROVE  /\ Age(head)' = 0
           /\ Age(Following(head)) = Capacity - 1
           /\ \A slot \in Slots : Age(slot) \in 0 .. Capacity - 1
           /\ \A slot \in Slots : slot # Following(head) => Age(slot)' = Age(slot) + 1
<1>1. PICK f \in Slots : f = Following(head)
  BY FollowingHead
<1>2. f = IF head = Capacity - 1 THEN 0 ELSE head + 1
  BY <1>1, FollowingHead
<1>3. Age(head)' = 0 /\ Age(f) = Capacity - 1
  BY <1>1, <1>2, CapacityAssumption DEF Age, Slots
<1>4. ASSUME NEW slot \in Slots PROVE Age(slot) \in 0 .. Capacity - 1
  BY CapacityAssumption DEF Age, Slots
<1>5. ASSUME NEW slot \in Slots, slot # f PROVE Age(slot)' = Age(slot) + 1
  BY <1>1, <1>2, <1>5, CapacityAssumption DEF Age, Slots
<1> QED BY <1>1, <1>3, <1>4, <1>5

\* The buffer is in order of time, so the head has its latest observation.
LEMMA HeadIsLatest ==
    ASSUME TypeOK, Ordered, NEW slot \in Slots, ring[slot] # None
    PROVE  /\ LastObs # None
           /\ slot # head => ring[slot].ts < LastObs.ts
<1>1. CASE slot = head
  BY <1>1 DEF LastObs
<1>2. CASE slot # head
  <2>1. head \in Slots /\ Age(head) < Age(slot)
    BY <1>2, CapacityAssumption DEF TypeOK, Age, Slots
  <2> QED BY <2>1 DEF Ordered, LastObs
<1> QED BY <1>1, <1>2

\* A push of a later second keeps the buffer in order of time.
LEMMA PushKeepsOrder ==
    ASSUME IInv, NEW trade, AccumulateSwapSizes(PrecommitFound(trade)), PushDue(precommit)
    PROVE  Ordered'
<1> DEFINE f == Following(head)
<1>1. /\ ring' = [ring EXCEPT ![f] = Pushed] /\ head' = f
      /\ ring \in [Slots -> Observed \cup {None}] /\ f \in Slots
      /\ Pushed # None /\ Pushed.ts = precommit.ts
      /\ head \in Slots
  BY PushesPrecommit, FollowingHead DEF IInv, TypeOK
<1>2. precommit # None /\ precommit.ts \in Nat
  BY PrecommitTyped DEF PushDue, IInv
<1>3. ASSUME NEW slot \in Slots, ring[slot] # None PROVE ring[slot].ts \in Nat /\ ring[slot].ts < precommit.ts
  <2>1. ring[slot].ts \in Nat
    BY <1>3, SlotTyped DEF IInv
  <2>2. /\ LastObs # None
        /\ slot # head => ring[slot].ts < LastObs.ts
    BY <1>3, HeadIsLatest DEF IInv
  <2>3. LastObs.ts \in Nat /\ LastObs.ts < precommit.ts
    BY <1>1, <2>2, SlotTyped DEF PushDue, LastObs, IInv
  <2> QED BY <1>2, <2>1, <2>2, <2>3 DEF LastObs
<1>4. /\ Age(head)' = 0
      /\ Age(f) = Capacity - 1
      /\ \A slot \in Slots : Age(slot) \in 0 .. Capacity - 1
      /\ \A slot \in Slots : slot # f => Age(slot)' = Age(slot) + 1
  BY <1>1, PushAges
<1>5. ASSUME NEW slot \in Slots PROVE slot = f => Age(slot)' = 0
  BY <1>1, <1>4 DEF Age
<1> HIDE DEF f
<1>6. ASSUME NEW s \in Slots, NEW older \in Slots, ring'[older] # None, Age(s)' < Age(older)'
      PROVE  ring'[s] # None /\ ring'[older].ts < ring'[s].ts
  <2>1. CASE older = f
    BY <1>4, <1>5, <1>6, <2>1, CapacityAssumption
  <2>2. CASE older # f /\ s = f
    BY <1>1, <1>2, <1>3, <1>6, <2>2
  <2>3. CASE older # f /\ s # f
    <3>1. Age(s) < Age(older)
      BY <1>4, <1>6, <2>3
    <3>2. ring'[s] = ring[s] /\ ring'[older] = ring[older]
      BY <1>1, <2>3
    <3> QED BY <1>6, <3>1, <3>2 DEF IInv, Ordered
  <2> QED BY <2>1, <2>2, <2>3
<1> QED BY <1>6 DEF Ordered

\* After a swap the precommit it found is observed, unless its second is not over.
LEMMA BufferAfterSwap ==
    ASSUME IInv, NEW trade, AccumulateSwapSizes(PrecommitFound(trade))
    PROVE  /\ ring' \in [Slots -> Observed \cup {None}]
           /\ \A slot \in Slots : ring'[slot] # None => ring'[slot].ts <= now
           /\ head' \in Slots
           /\ Ordered'
           /\ precommit # None /\ precommit.ts < now => LastObs' # None /\ precommit.ts <= LastObs'.ts
           /\ LastObs' # None => precommit # None /\ LastObs'.ts <= precommit.ts
           /\ LastObs # None => LastObs' # None /\ LastObs.ts <= LastObs'.ts
<1>1. CASE PushDue(precommit)
  <2>1. /\ ring' \in [Slots -> Observed \cup {None}] /\ head' \in Slots
        /\ LastObs' # None /\ LastObs'.ts = precommit.ts
    BY <1>1, PushesPrecommit DEF IInv
  <2>2. precommit # None /\ precommit.ts \in Nat
    BY <1>1, PrecommitTyped DEF PushDue, IInv
  <2>3. LastObs # None => LastObs.ts <= precommit.ts
    BY DEF IInv, PrecommitLatest
  <2>4. \A slot \in Slots : ring'[slot] # None => ring'[slot].ts <= now
    <3>1. ring' = [ring EXCEPT ![Following(head)] = Pushed] /\ Pushed.ts = precommit.ts
      BY <1>1, PushesPrecommit DEF IInv
    <3>2. precommit.ts <= now
      BY <2>2, PrecommitTyped DEF IInv
    <3> QED BY <3>1, <3>2 DEF IInv, TypeOK
  <2> QED BY <1>1, <2>1, <2>2, <2>3, <2>4, PushKeepsOrder
<1>2. CASE ~PushDue(precommit)
  <2>1. ring' = ring /\ head' = head /\ LastObs' = LastObs
    BY <1>2 DEF AccumulateSwapSizes, PrecommitFound, LastObs
  <2>2. Ordered'
    BY <2>1 DEF IInv, Ordered, Age
  <2>3. precommit # None => precommit.ts \in Nat /\ precommit.ts <= now
    BY PrecommitTyped DEF IInv
  <2>4. LastObs # None => precommit # None /\ LastObs.ts \in Nat /\ LastObs.ts <= precommit.ts
    BY SlotTyped DEF IInv, PrecommitLatest, LastObs, TypeOK
  <2>5. precommit # None /\ precommit.ts < now => LastObs # None /\ precommit.ts <= LastObs.ts
    BY <1>2, <2>3, <2>4 DEF PushDue, IInv, TypeOK
  <2> QED BY <2>1, <2>2, <2>4, <2>5 DEF IInv, TypeOK
<1> QED BY <1>1, <1>2

\* A recorded trade appears in the history and in the precommit of the current second.
LEMMA TradeRecorded ==
    ASSUME IInv, NEW trade \in Volumes, precommit' = PrecommitAfter(trade), traded' = Recorded(trade),
           now' = now
    PROVE  /\ precommit' \in Precommits /\ precommit' # None /\ precommit'.ts = now
           /\ DOMAIN traded' = DOMAIN traded \cup {now}
           /\ \A t \in DOMAIN traded' : traded'[t] \in Seq(Volumes) /\ traded'[t] # <<>>
           /\ \A t \in DOMAIN traded \ {now} : traded'[t] = traded[t]
           /\ precommit'.base = traded'[now][Len(traded'[now])].base
           /\ precommit'.quote = traded'[now][Len(traded'[now])].quote
<1>1. now \in Nat /\ trade \in [base: Nat \ {0}, quote: Nat \ {0}]
  BY DEF IInv, TypeOK, Volumes
<1>2. \A t \in DOMAIN traded : traded[t] \in Seq(Volumes) /\ traded[t] # <<>>
  BY DEF IInv, TypeOK
<1>3. CASE now \in DOMAIN traded
  <2> DEFINE before == traded[now]
             last == before[Len(before)]
             sum == Plus(last, trade)
  <2>1. before \in Seq(Volumes) /\ before # <<>> /\ last \in [base: Nat \ {0}, quote: Nat \ {0}]
    <3>1. before \in Seq(Volumes) /\ Len(before) \in 1 .. Len(before)
      BY <1>2, <1>3
    <3>2. last \in Volumes
      BY <3>1
    <3> QED BY <1>2, <1>3, <3>2 DEF Volumes
  <2>2. sum = [base |-> last.base + trade.base, quote |-> last.quote + trade.quote]
    BY DEF Plus
  <2>3. sum \in Volumes /\ sum.base = last.base + trade.base /\ sum.quote = last.quote + trade.quote
    BY <1>1, <2>1, <2>2 DEF Volumes
  <2>4. /\ precommit # None /\ precommit.ts = now
        /\ precommit.base = last.base /\ precommit.quote = last.quote
    <3>1. precommit # None /\ now <= precommit.ts
      BY <1>3 DEF IInv, PrecommitLatest
    <3>2. precommit.ts \in Nat /\ precommit.ts <= now
      BY <3>1, PrecommitTyped DEF IInv
    <3>3. precommit.ts = now
      BY <1>1, <3>1, <3>2
    <3> QED BY <3>1, <3>3 DEF IInv, PrecommitLatest
  <2> HIDE DEF last, sum
  <2>5. /\ precommit' = [base |-> precommit.base + trade.base,
                         quote |-> precommit.quote + trade.quote, ts |-> now]
        /\ precommit.base \in Nat \ {0} /\ precommit.quote \in Nat \ {0}
    BY <2>1, <2>4 DEF PrecommitAfter
  <2>6. /\ precommit' \in Precommits /\ precommit'.ts = now
        /\ precommit'.base = sum.base /\ precommit'.quote = sum.quote
    BY <1>1, <2>1, <2>3, <2>4, <2>5 DEF Precommits
  <2>7. traded' = [traded EXCEPT ![now] = Append(before, sum)]
    BY <1>3 DEF Recorded, last, sum
  <2>8. /\ DOMAIN traded' = DOMAIN traded /\ traded'[now] = Append(before, sum)
        /\ \A t \in DOMAIN traded \ {now} : traded'[t] = traded[t]
    BY <1>3, <2>7
  <2> HIDE DEF before
  <2>9. /\ Append(before, sum) \in Seq(Volumes) /\ Append(before, sum) # <<>>
        /\ Append(before, sum)[Len(Append(before, sum))] = sum
    BY <2>1, <2>3
  <2> QED BY <1>2, <1>3, <2>6, <2>8, <2>9, AbsentObservationAssumption
<1>4. CASE now \notin DOMAIN traded
  <2>1. precommit # None => precommit.ts # now
    BY <1>4 DEF IInv, PrecommitLatest
  <2>2. precommit' = [base |-> trade.base, quote |-> trade.quote, ts |-> now]
    BY <2>1 DEF PrecommitAfter
  <2>3. precommit' \in Precommits /\ precommit'.ts = now
        /\ precommit'.base = trade.base /\ precommit'.quote = trade.quote
    BY <1>1, <2>2 DEF Precommits
  <2>4. traded' = [t \in DOMAIN traded \cup {now} |-> IF t = now THEN <<trade>> ELSE traded[t]]
    BY <1>4 DEF Recorded
  <2>5. /\ DOMAIN traded' = DOMAIN traded \cup {now} /\ traded'[now] = <<trade>>
        /\ \A t \in DOMAIN traded \ {now} : traded'[t] = traded[t]
    BY <2>4
  <2>6. <<trade>> \in Seq(Volumes) /\ <<trade>> # <<>> /\ Len(<<trade>>) = 1 /\ <<trade>>[1] = trade
    OBVIOUS
  <2> QED BY <1>2, <2>3, <2>5, <2>6, AbsentObservationAssumption
<1> QED BY <1>3, <1>4

Trades == [base: 1 .. MaxVolume, quote: 1 .. MaxVolume] \cup {None}

\* A swap that is recorded, or is too small for that, leaves its effects behind in order.
LEMMA SwapKeeps ==
    ASSUME IInv, NEW trade \in Trades, Swap(trade)
    PROVE  IInv'
<1>1. /\ ring' \in [Slots -> Observed \cup {None}]
      /\ \A slot \in Slots : ring'[slot] # None => ring'[slot].ts <= now
      /\ head' \in Slots
      /\ Ordered'
      /\ precommit # None /\ precommit.ts < now => LastObs' # None /\ precommit.ts <= LastObs'.ts
      /\ LastObs' # None => precommit # None /\ LastObs'.ts <= precommit.ts
      /\ LastObs # None => LastObs' # None /\ LastObs.ts <= LastObs'.ts
  BY BufferAfterSwap DEF Swap
<1>2. now' = now /\ lastSwap' = now /\ now \in Nat /\ 0 .. now = 0 .. now'
  BY DEF Swap, IInv, TypeOK
<1>3. /\ precommit # None => precommit.ts \in Nat /\ precommit.ts <= now
      /\ LastObs' # None => LastObs'.ts \in Nat
  BY <1>1, PrecommitTyped DEF IInv, LastObs, Observed
<1>4. DOMAIN traded \subseteq 0 .. now
  BY DEF IInv, TypeOK
<1>5. ASSUME NEW t \in DOMAIN traded, t < now PROVE LastObs' # None /\ t <= LastObs'.ts
  <2>1. /\ precommit # None /\ t <= precommit.ts
        /\ t < precommit.ts => LastObs # None /\ t <= LastObs.ts
    BY DEF IInv, PrecommitLatest
  <2>2. t \in Nat
    BY <1>4
  <2>3. CASE t < precommit.ts
    <3>1. LastObs.ts \in Nat
      BY <2>1, <2>3, SlotTyped DEF LastObs, IInv, TypeOK
    <3> QED BY <1>1, <1>3, <2>1, <2>2, <2>3, <3>1
  <2>4. CASE t = precommit.ts
    BY <1>1, <1>5, <2>1, <2>4
  <2> QED BY <1>3, <2>1, <2>2, <2>3, <2>4
<1>6. CASE trade = None
  <2>1. precommit' = precommit /\ traded' = traded
    BY <1>6 DEF Swap
  <2>2. TypeOK'
    BY <1>1, <1>2, <2>1 DEF IInv, TypeOK
  <2>3. SecondsObserved'
    BY <1>2, <1>5, <2>1 DEF SecondsObserved
  <2>4. PrecommitLatest'
    <3>1. ASSUME precommit # None, NEW t \in DOMAIN traded, t < precommit.ts
          PROVE  LastObs' # None /\ t <= LastObs'.ts
      BY <1>3, <1>4, <1>5, <1>2, <3>1
    <3> QED BY <1>1, <1>2, <1>3, <2>1, <3>1 DEF IInv, PrecommitLatest
  <2> QED BY <1>1, <2>2, <2>3, <2>4 DEF IInv
<1>7. CASE trade # None
  <2>1. trade \in Volumes
    BY <1>7 DEF Trades, Volumes
  <2>2. precommit' = PrecommitAfter(trade) /\ traded' = Recorded(trade)
    BY <1>7 DEF Swap
  <2>3. /\ precommit' \in Precommits /\ precommit' # None /\ precommit'.ts = now
        /\ DOMAIN traded' = DOMAIN traded \cup {now}
        /\ \A t \in DOMAIN traded' : traded'[t] \in Seq(Volumes) /\ traded'[t] # <<>>
        /\ precommit'.base = traded'[now][Len(traded'[now])].base
        /\ precommit'.quote = traded'[now][Len(traded'[now])].quote
    BY <1>2, <2>1, <2>2, TradeRecorded
  <2>4. TypeOK'
    BY <1>1, <1>2, <1>4, <2>3 DEF TypeOK
  <2>5. SecondsObserved'
    BY <1>2, <1>5, <2>3 DEF SecondsObserved
  <2>6. LastObs' # None => LastObs'.ts <= now
    BY <1>1, <1>2, <1>3
  <2>7. PrecommitLatest'
    BY <1>2, <1>4, <1>5, <2>3, <2>6 DEF PrecommitLatest
  <2> QED BY <1>1, <2>4, <2>5, <2>7 DEF IInv
<1> QED BY <1>6, <1>7

\* Every swap and every tick keeps the invariant.
LEMMA Inductive ==
    ASSUME IInv, [Next]_vars
    PROVE  IInv'
<1>1. CASE Tick
  <2>1. /\ now' = now + 1 /\ now \in Nat
        /\ UNCHANGED <<ring, head, precommit, traded, lastSwap>>
    BY <1>1 DEF Tick, IInv, TypeOK
  <2>2. 0 .. now \subseteq 0 .. now'
    BY <2>1
  <2>3. precommit # None => precommit.ts \in Nat /\ precommit.ts <= now
    BY PrecommitTyped DEF IInv
  <2>4. \A slot \in Slots : ring[slot] # None => ring[slot].ts \in Nat /\ ring[slot].ts <= now
    BY SlotTyped DEF IInv, TypeOK
  <2>5. TypeOK'
    BY <2>1, <2>2, <2>3, <2>4 DEF IInv, TypeOK
  <2> QED BY <1>1, <2>5 DEF Tick, IInv, SecondsObserved, PrecommitLatest, Ordered, Age, LastObs
<1>2. CASE UNCHANGED vars
  <2>1. TypeOK'
    BY <1>2 DEF vars, IInv, TypeOK
  <2> QED BY <1>2, <2>1 DEF vars, IInv, SecondsObserved, PrecommitLatest, Ordered, Age, LastObs
<1> QED BY <1>1, <1>2, SwapKeeps DEF Next, Trades

\* An empty buffer is in order and owes no observation.
LEMMA Initially == Init => IInv
<1> SUFFICES ASSUME Init PROVE IInv
  OBVIOUS
<1>1. head \in Slots /\ DOMAIN traded = {}
  BY CapacityAssumption DEF Init, Slots
<1>2. TypeOK
  BY <1>1 DEF Init, TypeOK
<1>3. SecondsObserved /\ PrecommitLatest /\ Ordered
  BY <1>1 DEF Init, SecondsObserved, PrecommitLatest, Ordered, LastObs
<1> QED BY <1>2, <1>3 DEF IInv

\* In every reachable state the buffer is in order of time, the precommit is of the latest
\* second with trades, and every trade of a second before the last swap is observed.
THEOREM OracleInvariance == Spec => []IInv
  BY Initially, Inductive, PTL DEF Spec

\* The oracle's state keeps its types; no observation is from the future, whatever is pushed
\* before its second is over.
THEOREM OracleTypeCorrect == Spec => []TypeOK
<1>1. IInv => TypeOK
  BY DEF IInv
<1> QED BY <1>1, OracleInvariance, PTL

\* A second with trades waits for its observation until the first swap of a later second and no longer,
\* for a buffer of any size and any trades.
THEOREM TradesObserved == Spec => []SecondsObserved
<1>1. IInv => SecondsObserved
  BY DEF IInv
<1> QED BY <1>1, OracleInvariance, PTL

----------------------------------------------------------------------------
(* The buffer implements the window *)

\* What the window knows of a slot.
View(slot) == [ts |-> ring[slot].ts, price |-> ring[slot].price]

\* Both modules count with the same operator.
LEMMA SameCardinality == \A S : Window!Cardinality(S) = Cardinality(S)
  BY DEF Window!Cardinality, Cardinality, Window!IsFiniteSet, IsFiniteSet

\* The buffer has Capacity slots.
LEMMA SlotsFinite == IsFiniteSet(Slots) /\ Cardinality(Slots) = Capacity
  BY FS_Interval, CapacityAssumption DEF Slots

\* No two slots show the same observation.
LEMMA KeptCounted ==
    ASSUME IInv
    PROVE  /\ IsFiniteSet(Filled)
           /\ IsFiniteSet(Kept)
           /\ Cardinality(Kept) = Cardinality(Filled)
           /\ Cardinality(Filled) \in Nat
<1> DEFINE f == [slot \in Filled |-> View(slot)]
<1>1. IsFiniteSet(Filled) /\ Cardinality(Filled) \in Nat
  BY SlotsFinite, FS_Subset, FS_CardinalityType DEF Filled
<1>2. f \in [Filled -> Kept] /\ \A o \in Kept : \E slot \in Filled : f[slot] = o
  BY DEF Kept, View
<1>3. f \in Surjection(Filled, Kept)
  BY <1>2 DEF Surjection
<1>4. ASSUME NEW a \in Filled, NEW b \in Filled, a # b PROVE f[a] # f[b]
  <2>1. a \in Slots /\ b \in Slots /\ ring[a] # None /\ ring[b] # None /\ head \in Slots
    BY DEF Filled, IInv, TypeOK
  <2>2. ring[a].ts \in Nat /\ ring[b].ts \in Nat
    BY <2>1, SlotTyped DEF IInv
  <2>3. Age(a) < Age(b) \/ Age(b) < Age(a)
    BY <1>4, <2>1, CapacityAssumption DEF Age, Slots
  <2>4. ring[a].ts # ring[b].ts
    BY <2>1, <2>2, <2>3 DEF IInv, Ordered
  <2>5. f[a].ts = ring[a].ts /\ f[b].ts = ring[b].ts
    BY DEF View
  <2> QED BY <2>4, <2>5
<1> HIDE DEF f
<1>5. f \in Injection(Filled, Kept)
  BY <1>2, <1>4 DEF Injection, IsInjective
<1> QED BY <1>1, <1>3, <1>5, FS_Surjection

\* A push adds the observation to the window, and drops the oldest of a full one.
LEMMA PushMovesWindow ==
    ASSUME IInv, NEW trade, AccumulateSwapSizes(PrecommitFound(trade)), PushDue(precommit)
    PROVE  Kept' = Window!Latest(Kept \cup {[ts |-> precommit.ts, price |-> PriceOf(precommit)]})
<1> DEFINE f == Following(head)
           new == [ts |-> precommit.ts, price |-> PriceOf(precommit)]
           all == Kept \cup {new}
<1>1. /\ ring' = [ring EXCEPT ![f] = Pushed] /\ f \in Slots
      /\ ring \in [Slots -> Observed \cup {None}]
      /\ Pushed # None /\ Pushed.ts = precommit.ts /\ Pushed.price = PriceOf(precommit)
      /\ head \in Slots
  BY PushesPrecommit, FollowingHead DEF IInv, TypeOK, Pushed
<1>2. new.ts = precommit.ts /\ precommit.ts \in Nat
  BY PrecommitTyped DEF PushDue, IInv
<1>3. ASSUME NEW slot \in Slots, ring[slot] # None
      PROVE  ring[slot].ts \in Nat /\ ring[slot].ts < precommit.ts
  <2>1. ring[slot].ts \in Nat
    BY <1>3, SlotTyped DEF IInv
  <2>2. /\ LastObs # None
        /\ slot # head => ring[slot].ts < LastObs.ts
    BY <1>3, HeadIsLatest DEF IInv
  <2>3. LastObs.ts \in Nat /\ LastObs.ts < precommit.ts
    BY <1>1, <2>2, SlotTyped DEF PushDue, LastObs, IInv
  <2> QED BY <1>2, <2>1, <2>2, <2>3 DEF LastObs
<1>4. ASSUME NEW slot \in Slots, ring[slot] # None
      PROVE  View(slot) \in Kept /\ View(slot).ts = ring[slot].ts
  BY <1>4 DEF Kept, View, Filled
<1>5. ASSUME NEW o \in Kept
      PROVE  \E slot \in Slots : ring[slot] # None /\ o = View(slot) /\ o.ts = ring[slot].ts
  BY DEF Kept, View, Filled
<1>6. new \notin Kept
  BY <1>2, <1>3, <1>5
<1>7. ASSUME NEW slot \in Slots, slot # f
      PROVE  ring'[slot] = ring[slot]
  BY <1>1, <1>7
<1>8. ring'[f] # None /\ [ts |-> ring'[f].ts, price |-> ring'[f].price] = new
  BY <1>1
<1>9. ASSUME NEW o
      PROVE  o \in Kept' <=> \/ o = new
                             \/ \E slot \in Slots : slot # f /\ ring[slot] # None /\ o = View(slot)
  <2>1. o \in Kept' <=> \E slot \in Slots : ring'[slot] # None
                           /\ o = [ts |-> ring'[slot].ts, price |-> ring'[slot].price]
    BY DEF Kept, Filled
  <2>2. ASSUME NEW slot \in Slots, slot # f
        PROVE  View(slot) = [ts |-> ring'[slot].ts, price |-> ring'[slot].price]
    BY <1>7, <2>2 DEF View
  <2> HIDE DEF f
  <2> QED BY <1>1, <1>7, <1>8, <2>1, <2>2
<1>10. /\ IsFiniteSet(all) /\ Cardinality(all) = Cardinality(Filled) + 1
       /\ Cardinality(Filled) \in Nat
  BY <1>6, KeptCounted, FS_AddElement
<1>11. CASE ring[f] = None
  <2>1. Filled \in SUBSET (Slots \ {f})
    BY <1>11 DEF Filled
  <2>2. IsFiniteSet(Slots \ {f}) /\ Cardinality(Slots \ {f}) = Capacity - 1
    BY <1>1, SlotsFinite, FS_RemoveElement
  <2>3. Cardinality(Filled) <= Capacity - 1
    BY <2>1, <2>2, FS_Subset
  <2>4. Cardinality(all) <= Capacity
    BY <1>10, <2>3, CapacityAssumption
  <2>5. Window!Latest(all) = all
    BY <2>4, SameCardinality DEF Window!Latest
  <2>6. ASSUME NEW o PROVE o \in Kept' <=> o \in all
    BY <1>4, <1>5, <1>9, <1>11
  <2> QED BY <2>5, <2>6
<1>12. CASE ring[f] # None
  <2>1. ASSUME NEW slot \in Slots, slot # f
        PROVE  ring[slot] # None /\ ring[f].ts < ring[slot].ts
    <3>1. Age(slot) < Age(f)
      BY <1>1, <2>1, FollowingHead, CapacityAssumption DEF Age, Slots
    <3> QED BY <1>1, <1>12, <3>1 DEF IInv, Ordered
  <2>2. Filled = Slots
    BY <1>12, <2>1 DEF Filled
  <2>3. ~ (Cardinality(all) <= Capacity)
    BY <1>10, <2>2, SlotsFinite, CapacityAssumption
  <2>4. Window!Latest(all) = {o \in all : \E older \in all : older.ts < o.ts}
    BY <2>3, SameCardinality DEF Window!Latest
  <2>5. View(f) \in all /\ View(f).ts = ring[f].ts /\ ring[f].ts \in Nat /\ ring[f].ts < precommit.ts
    BY <1>1, <1>3, <1>4, <1>12
  <2>6. ASSUME NEW o \in all PROVE ring[f].ts <= o.ts /\ o.ts \in Nat
    <3>1. CASE o = new
      BY <1>2, <2>5, <3>1
    <3>2. CASE o \in Kept
      <4>1. PICK slot \in Slots : ring[slot] # None /\ o.ts = ring[slot].ts
        BY <1>5, <3>2
      <4> QED BY <1>3, <2>1, <2>5, <4>1
    <3> QED BY <3>1, <3>2
  <2> HIDE DEF f, new
  <2>7. ASSUME NEW o PROVE o \in Kept' <=> o \in all /\ \E older \in all : older.ts < o.ts
    <3>1. CASE o = new
      BY <1>2, <1>9, <2>5, <3>1
    <3>2. CASE o # new /\ o \in Kept'
      <4>1. PICK slot \in Slots : slot # f /\ ring[slot] # None /\ o = View(slot)
        BY <1>9, <3>2
      <4>2. o \in Kept /\ o.ts = ring[slot].ts
        BY <1>4, <4>1
      <4> QED BY <2>1, <2>5, <3>2, <4>1, <4>2
    <3>3. CASE o # new /\ o \in all /\ \E older \in all : older.ts < o.ts
      <4>1. PICK slot \in Slots : ring[slot] # None /\ o = View(slot) /\ o.ts = ring[slot].ts
        BY <1>5, <3>3
      <4>2. slot # f
        BY <2>6, <3>3, <4>1
      <4> QED BY <1>9, <3>3, <4>1, <4>2
    <3> QED BY <3>1, <3>2, <3>3
  <2> QED BY <2>4, <2>7 DEF new
<1> QED BY <1>11, <1>12

\* The observation pushed is of the earliest second without one, at its last price.
LEMMA PushObserves ==
    ASSUME IInv, NEW trade, AccumulateSwapSizes(PrecommitFound(trade)), PushDue(precommit)
    PROVE  Window!Observe
<1> DEFINE t == precommit.ts
           i == Len(traded[t])
<1>1. /\ precommit # None /\ t \in DOMAIN traded /\ t \in Nat
      /\ precommit.base = traded[t][i].base /\ precommit.quote = traded[t][i].quote
  BY PrecommitTyped DEF PushDue, IInv, PrecommitLatest
<1>2. i \in DOMAIN traded[t]
  <2>1. traded[t] \in Seq(Volumes) /\ traded[t] # <<>>
    BY <1>1 DEF IInv, TypeOK
  <2> QED BY <2>1
<1>3. ASSUME NEW o \in Kept PROVE o.ts \in Nat /\ o.ts <= LastObs.ts /\ LastObs # None
  <2>1. PICK slot \in Slots : ring[slot] # None /\ o.ts = ring[slot].ts
    BY DEF Kept, Filled
  <2>2. /\ LastObs # None
        /\ slot # head => ring[slot].ts < LastObs.ts
    BY <2>1, HeadIsLatest DEF IInv
  <2>3. ring[slot].ts \in Nat /\ LastObs.ts \in Nat
    BY <2>1, <2>2, SlotTyped DEF LastObs, IInv, TypeOK
  <2> QED BY <2>1, <2>2, <2>3 DEF LastObs
<1>4. ASSUME LastObs # None
      PROVE  /\ LastObs.ts \in Nat /\ LastObs.ts < t
             /\ \E o \in Kept : o.ts = LastObs.ts
  <2>1. LastObs.ts \in Nat /\ LastObs.ts < t
    BY <1>4, SlotTyped DEF PushDue, LastObs, IInv, TypeOK
  <2>2. head \in Filled
    BY <1>4 DEF Filled, LastObs, IInv, TypeOK
  <2>3. View(head) \in Kept /\ View(head).ts = LastObs.ts
    BY <2>2 DEF Kept, View, LastObs
  <2> QED BY <2>1, <2>3
<1>5. t \in Window!Pending
  <2>1. ASSUME NEW o \in Kept PROVE o.ts < t
    BY <1>1, <1>3, <1>4
  <2> QED BY <1>1, <2>1 DEF Window!Pending, Window!Before
<1>6. ASSUME NEW later \in Window!Pending PROVE t <= later
  <2>1. later \in DOMAIN traded /\ later \in Nat /\ \A o \in Kept : o.ts < later
    BY DEF Window!Pending, Window!Before, IInv, TypeOK
  <2>2. later < t => LastObs # None /\ later <= LastObs.ts
    BY <1>1, <2>1 DEF IInv, PrecommitLatest
  <2> QED BY <1>1, <1>4, <2>1, <2>2
<1>7. Window!PriceOf(traded[t][i]) = PriceOf(precommit)
  BY <1>1 DEF Window!PriceOf, PriceOf
<1>8. Kept' = Window!Latest(Kept \cup {[ts |-> t, price |-> Window!PriceOf(traded[t][i])]})
  BY <1>7, PushMovesWindow
<1> HIDE DEF t, i
<1>9. \E j \in DOMAIN traded[t] :
        /\ \A later \in Window!Pending : t <= later
        /\ Kept' = Window!Latest(Kept \cup {[ts |-> t, price |-> Window!PriceOf(traded[t][j])]})
  BY <1>2, <1>6, <1>8
<1> QED BY <1>5, <1>9 DEF Window!Observe

\* A swap observes the pending second of the window or leaves the window alone.
LEMMA StepImplements ==
    ASSUME IInv, [Next]_vars
    PROVE  [Window!Next]_(Window!vars)
<1>1. ASSUME NEW trade \in Trades, Swap(trade) PROVE Window!Next
  <2>1. Window!Observe \/ UNCHANGED Kept
    <3>1. CASE PushDue(precommit)
      BY <1>1, <3>1, PushObserves DEF Swap
    <3>2. CASE ~PushDue(precommit)
      BY <1>1, <3>2 DEF Swap, AccumulateSwapSizes, PrecommitFound, Kept, Filled
    <3> QED BY <3>1, <3>2
  <2>2. Window!Trade
    <3>1. CASE trade = None
      BY <1>1, <3>1 DEF Swap, Window!Trade
    <3>2. CASE trade # None
      <4>1. trade \in Volumes
        BY <3>2 DEF Trades, Volumes
      <4>2. /\ DOMAIN traded' = DOMAIN traded \cup {now}
            /\ \A t \in DOMAIN traded \ {now} : traded'[t] = traded[t]
        BY <1>1, <3>2, <4>1, TradeRecorded DEF Swap
      <4> QED BY <4>2 DEF Window!Trade
    <3> QED BY <3>1, <3>2
  <2> QED BY <1>1, <2>1, <2>2 DEF Window!Next, Window!Swap, Swap
<1>2. CASE Tick
  BY <1>2 DEF Tick, IInv, TypeOK, Window!Next, Window!Tick, Kept, Filled
<1>3. CASE UNCHANGED vars
  BY <1>3 DEF vars, Window!vars, Kept, Filled
<1> QED BY <1>1, <1>2, <1>3 DEF Next, Trades

\* An empty buffer is an empty window.
LEMMA InitImplements == Init => Window!Init
  BY DEF Init, Window!Init, Kept, Filled

\* The precommit and the circular buffer of any size implement the window: one observation
\* for each second with trades, in order, and of a full window the oldest is dropped.
THEOREM BufferIsWindow == Spec => WindowSpec
  BY OracleInvariance, StepImplements, InitImplements, PTL DEF Spec, WindowSpec, Window!Spec

----------------------------------------------------------------------------
(* The moving average *)

\* Quotients and what integer division loses.
LEMMA Quotient ==
    ASSUME NEW a \in Int, NEW n \in Nat \ {0}
    PROVE  a \div n \in Int /\ a - (a \div n) * n \in 0 .. n - 1
  OBVIOUS

\* In an eviction.
LEMMA EvictionLoses ==
    ASSUME NEW n \in Nat \ {0}, NEW sma \in Nat, NEW price \in Nat, NEW oldest \in Nat,
           NEW after, after = (sma * n + price - oldest) \div n
    PROVE  sma * n + price - oldest - after * n \in 0 .. n - 1
<1>1. PICK a \in Int : a = sma * n + price - oldest
  OBVIOUS
<1> QED
  BY <1>1, Quotient

\* In an addition.
LEMMA AdditionLoses ==
    ASSUME NEW n \in Nat, NEW sma \in Nat, NEW price \in Nat,
           NEW after, after = (sma * n + price) \div (n + 1)
    PROVE  sma * n + price - after * (n + 1) \in 0 .. (n + 1) - 1
<1>1. PICK a \in Int, m \in Nat \ {0} : a = sma * n + price /\ m = n + 1
  OBVIOUS
<1>2. a - (a \div m) * m \in 0 .. m - 1
  BY Quotient
<1> QED
  BY <1>1, <1>2

\* Products grow with their factors.
LEMMA Products ==
    ASSUME NEW c \in Nat \ {0}, NEW m \in Nat, NEW n \in Nat
    PROVE  /\ (c - 1) * m \in Nat
           /\ m <= n => (c - 1) * m <= (c - 1) * n
           /\ m + 1 <= n => (c - 1) * m + (c - 1) <= (c - 1) * n
           /\ \A b \in 1 .. c : (b - 1) * m <= (c - 1) * m /\ (b - 1) * m \in Nat
<1>1. PICK k \in Nat : k = c - 1
  OBVIOUS
<1>2. k * m \in Nat /\ k * n \in Nat
  OBVIOUS
<1>3. ASSUME NEW i \in Nat, n = m + i PROVE k * n = k * m + k * i /\ k * i \in Nat
  BY <1>3
<1>4. m <= n => k * m <= k * n
  BY <1>2, <1>3
<1>5. m + 1 <= n => k * m + k <= k * n
  <2> SUFFICES ASSUME m + 1 <= n PROVE k * m + k <= k * n
    OBVIOUS
  <2>1. PICK i \in Nat : n = m + 1 + i
    OBVIOUS
  <2>2. k * n = k * m + k + k * i /\ k * i \in Nat
    BY <2>1
  <2> QED
    BY <1>2, <2>2
<1>6. ASSUME NEW b \in 1 .. c PROVE (b - 1) * m <= (c - 1) * m /\ (b - 1) * m \in Nat
  <2>1. PICK a \in Nat, i \in Nat : a = b - 1 /\ c - 1 = a + i
    OBVIOUS
  <2>2. (a + i) * m = a * m + i * m /\ a * m \in Nat /\ i * m \in Nat
    OBVIOUS
  <2> QED
    BY <2>1, <2>2
<1> QED
  BY <1>1, <1>2, <1>4, <1>5, <1>6

\* Until the buffer is full its observations are in the slots from 1 to the head.
Filling == OldestObs = None => Filled = 1 .. head

\* The seconds with trades up to the latest observation: no fewer than observations were made.
Seen == {t \in DOMAIN traded : LastObs # None /\ t <= LastObs.ts}

\* Each observation adds less than the number of observations kept to what the average lost.
DriftBounded ==
    LastObs # None
      => /\ Cardinality(Filled) \in Nat \ {0}
         /\ Drift \in Int /\ 0 <= Drift /\ Drift <= (Cardinality(Filled) - 1) * Cardinality(Seen)

\* The slots in use and the seconds seen are finite sets.
LEMMA FilledFinite ==
    ASSUME TypeOK
    PROVE  /\ IsFiniteSet(Filled) /\ Cardinality(Filled) \in Nat
           /\ IsFiniteSet(DOMAIN traded) /\ Cardinality(DOMAIN traded) \in Nat
           /\ IsFiniteSet(Seen) /\ Cardinality(Seen) \in Nat
           /\ Cardinality(Seen) <= Cardinality(DOMAIN traded)
<1>1. IsFiniteSet(Filled)
  BY SlotsFinite, FS_Subset DEF Filled
<1>2. IsFiniteSet(0 .. now)
  BY FS_Interval DEF TypeOK
<1>3. IsFiniteSet(DOMAIN traded)
  BY <1>2, FS_Subset DEF TypeOK
<1>4. Seen \in SUBSET (DOMAIN traded)
  BY DEF Seen
<1>5. IsFiniteSet(Seen) /\ Cardinality(Seen) <= Cardinality(DOMAIN traded)
  BY <1>3, <1>4, FS_Subset
<1> QED
  BY <1>1, <1>3, <1>5, FS_CardinalityType

\* A full buffer has an observation in every slot.
LEMMA FullBuffer ==
    ASSUME IInv, OldestObs # None
    PROVE  Filled = Slots
<1>1. head \in Slots /\ Following(head) \in Slots
  BY FollowingHead DEF IInv, TypeOK
<1>2. ASSUME NEW slot \in Slots PROVE ring[slot] # None
  <2>1. slot # Following(head) => Age(slot) < Age(Following(head))
    BY <1>1, FollowingHead, CapacityAssumption DEF Age, Slots
  <2> QED
    BY <1>1, <2>1 DEF IInv, Ordered, OldestObs
<1> QED
  BY <1>2 DEF Filled

\* The oldest observation after a push is in a slot.
LEMMA NextSlot ==
    ASSUME head' \in Slots
    PROVE  \E slot \in Slots : OldestObs' = ring'[slot]
<1>1. PICK h \in Slots : h = head'
  OBVIOUS
<1>2. (h + 1) % Capacity \in Slots
  BY CapacityAssumption DEF Slots
<1> QED
  BY <1>1, <1>2 DEF OldestObs, Following

\* The average that is pushed is that of the prices, but for less than a unit of the mean.
LEMMA PushDrifts ==
    ASSUME IInv, Filling, NEW trade, AccumulateSwapSizes(PrecommitFound(trade)),
           PushDue(precommit), LastObs # None => Drift \in Int
    PROVE  /\ Filling'
           /\ Drift' \in Int
           /\ Cardinality(Filled') \in Nat \ {0}
           /\ LastObs = None => Drift' = 0
           /\ LastObs # None => /\ Cardinality(Filled) <= Cardinality(Filled')
                               /\ Drift' - Drift \in 0 .. Cardinality(Filled') - 1
<1> DEFINE price == PriceOf(precommit)
<1>1. PICK f \in Slots : f = Following(head)
  BY FollowingHead DEF IInv, TypeOK
<1>2. /\ f = IF head = Capacity - 1 THEN 0 ELSE head + 1
      /\ head \in Slots /\ head \in Nat /\ Capacity \in Nat \ {0}
  BY <1>1, FollowingHead, CapacityAssumption DEF IInv, TypeOK, Slots
<1>3. /\ ring \in [Slots -> Observed \cup {None}] /\ Pushed # None /\ Pushed \in Observed
      /\ ring' = [ring EXCEPT ![f] = Pushed] /\ head' = f /\ LastObs' = Pushed
      /\ Pushed.price = price /\ Pushed.sma = PriceSma(price)
  BY <1>1, PushesPrecommit DEF IInv, TypeOK, Pushed
<1>4. price \in Nat /\ PriceSma(price) \in Nat
  BY <1>3 DEF Observed
<1>5. Filled' = Filled \cup {f} /\ Filled \in SUBSET Slots
  BY <1>3 DEF Filled
<1>6. /\ IsFiniteSet(Filled) /\ IsFiniteSet(Filled \ {f}) /\ IsFiniteSet(Filled')
      /\ \A slot \in Filled : PricesKept[slot] \in Nat
      /\ \A slot \in Filled \cup {f} : PricesKept'[slot] \in Nat
      /\ \A slot \in Filled \ {f} : PricesKept'[slot] = PricesKept[slot]
      /\ PricesKept'[f] = price
  <2>1. \A slot \in Slots : ring[slot] # None => ring[slot].price \in Nat
    BY SlotTyped DEF IInv
  <2>2. \A slot \in Filled : PricesKept[slot] = ring[slot].price /\ ring[slot] # None /\ slot \in Slots
    BY DEF PricesKept, Filled
  <2>3. \A slot \in Filled \cup {f} : PricesKept'[slot] = ring'[slot].price
    BY <1>5 DEF PricesKept
  <2>4. ring'[f] = Pushed /\ \A slot \in Slots \ {f} : ring'[slot] = ring[slot]
    BY <1>3
  <2>5. IsFiniteSet(Filled) /\ IsFiniteSet(Filled \ {f}) /\ IsFiniteSet(Filled')
    BY <1>5, FilledFinite, FS_AddElement, FS_RemoveElement DEF IInv
  <2> QED
    BY <1>3, <1>4, <1>5, <2>1, <2>2, <2>3, <2>4, <2>5
<1> DEFINE sum == SumFunctionOnSet(PricesKept, Filled)
           others == SumFunctionOnSet(PricesKept, Filled \ {f})
<1>7. SumFunctionOnSet(PricesKept', Filled \ {f}) = others
  BY <1>6, SumEqual
<1>8. (Filled \cup {f}) \ {f} = Filled \ {f}
  OBVIOUS
<1>9. others \in Int /\ sum \in Int /\ SumFunctionOnSet(PricesKept', Filled') = price + others
  <2>1. sum \in Int /\ others \in Int
    BY <1>6, SumNat
  <2>2. \A slot \in Filled' : PricesKept'[slot] \in Int
    BY <1>5, <1>6
  <2>3. f \in Filled' /\ IsFiniteSet(Filled')
    BY <1>5, <1>6
  <2>4. SumFunctionOnSet(PricesKept', Filled') = PricesKept'[f] + SumFunctionOnSet(PricesKept', Filled' \ {f})
    BY <2>2, <2>3, SumRemove
  <2> QED
    BY <1>5, <1>6, <1>7, <1>8, <2>1, <2>4
<1> HIDE DEF sum, others, price
<1>10. Drift' = price + others - PriceSma(price) * Cardinality(Filled')
  <2>1. Drift' = SumFunctionOnSet(PricesKept', Filled') - (LastObs').sma * Cardinality(Filled')
    BY DEF Drift
  <2>2. (LastObs').sma = PriceSma(price)
    BY <1>3
  <2>3. Cardinality(Filled') \in Int
    BY <1>6, FS_CardinalityType
  <2> QED
    BY <1>4, <1>9, <2>1, <2>2, <2>3
<1>11. Drift = sum - LastObs.sma * Cardinality(Filled)
  BY DEF Drift, sum
<1>12. LastObs # None => LastObs.sma \in Nat
  BY <1>2, SlotTyped DEF LastObs, IInv
<1>13. CASE OldestObs # None
  <2>1. Filled = Slots /\ f \in Filled /\ Filled' = Slots
    BY <1>5, <1>13, FullBuffer
  <2>2. Cardinality(Filled) = Capacity /\ Cardinality(Filled') = Capacity
    BY <2>1, SlotsFinite
  <2>3. OldestObs = ring[f] /\ ring[f] # None /\ PricesKept[f] = OldestObs.price
    BY <1>1, <1>13, <2>1 DEF OldestObs, PricesKept
  <2>4. sum = OldestObs.price + others /\ OldestObs.price \in Nat
    <3>1. \A slot \in Filled : PricesKept[slot] \in Int
      BY <1>6
    <3>2. sum = PricesKept[f] + others
      BY <1>6, <2>1, <3>1, SumRemove DEF sum, others
    <3> QED
      BY <1>6, <2>1, <2>3, <3>2
  <2>5. LastObs # None
    BY <1>2, <2>1 DEF Filled, LastObs
  <2>6. PriceSma(price) = (LastObs.sma * Capacity + price - OldestObs.price) \div Capacity
    BY <1>13, <2>5 DEF PriceSma, SmaAfterEviction
  <2>7. LastObs.sma * Capacity + price - OldestObs.price - PriceSma(price) * Capacity \in 0 .. Capacity - 1
    BY <1>2, <1>4, <1>12, <2>4, <2>5, <2>6, EvictionLoses
  <2>8. Drift' - Drift = LastObs.sma * Capacity + price - OldestObs.price - PriceSma(price) * Capacity
        /\ Drift' \in Int
    <3>1. LastObs.sma * Capacity \in Int /\ PriceSma(price) * Capacity \in Int
      BY <1>2, <1>4, <1>12, <2>5
    <3> QED
      BY <1>4, <1>9, <1>10, <1>11, <2>2, <2>4, <3>1
  <2>9. Filling'
    <3>1. OldestObs' # None
      BY <1>3, <2>1, NextSlot DEF Filled
    <3> QED
      BY <3>1 DEF Filling
  <2> QED
    BY <1>2, <2>2, <2>5, <2>7, <2>8, <2>9
<1>14. CASE OldestObs = None
  <2>1. Filled = 1 .. head /\ f \notin Filled
    BY <1>1, <1>14 DEF Filling, OldestObs, Filled
  <2>2. Cardinality(Filled) = head /\ Cardinality(Filled') = head + 1
    <3>1. Cardinality(1 .. head) = head
      BY <1>2, FS_Interval
    <3> QED
      BY <1>5, <1>6, <2>1, <3>1, FS_AddElement
  <2>3. sum = others
    BY <2>1 DEF sum, others
  <2>4. Filling'
    <3>1. CASE f = head + 1
      BY <1>2, <1>3, <1>5, <2>1, <3>1 DEF Filling
    <3>2. CASE f = 0 /\ head = Capacity - 1
      <4>1. Filled' = Slots
        BY <1>2, <1>5, <2>1, <3>2 DEF Slots
      <4>2. OldestObs' # None
        BY <1>3, <4>1, NextSlot DEF Filled
      <4> QED
        BY <4>2 DEF Filling
    <3> QED
      BY <1>2, <3>1, <3>2
  <2>5. CASE LastObs = None
    <3>1. head \notin Filled
      BY <2>5 DEF Filled, LastObs
    <3>2. head = 0
      BY <1>2, <2>1, <3>1
    <3>3. sum = 0
      <4>1. Filled = {}
        BY <2>1, <3>2
      <4> QED
        BY <4>1, SumEmpty DEF sum
    <3>4. PriceSma(price) = price
      BY <2>5 DEF PriceSma
    <3> QED
      BY <1>2, <1>4, <1>10, <2>2, <2>3, <2>4, <2>5, <3>2, <3>3, <3>4
  <2>6. CASE LastObs # None
    <3>1. PriceSma(price) = (LastObs.sma * head + price) \div (head + 1)
      BY <1>14, <2>6 DEF PriceSma, SmaAfterAddition
    <3>2. LastObs.sma * head \in Int /\ PriceSma(price) * (head + 1) \in Int
      BY <1>2, <1>4, <1>12, <2>6
    <3>3. LastObs.sma * head + price - PriceSma(price) * (head + 1) \in 0 .. (head + 1) - 1
      BY <1>2, <1>4, <1>12, <2>6, <3>1, AdditionLoses
    <3>4. Drift' - Drift = LastObs.sma * head + price - PriceSma(price) * (head + 1)
          /\ Drift' \in Int
      BY <1>4, <1>9, <1>10, <1>11, <2>2, <2>3, <3>2
    <3>5. Drift' - Drift \in 0 .. Cardinality(Filled') - 1
      BY <1>2, <2>2, <3>3, <3>4
    <3> QED
      BY <1>2, <2>2, <2>4, <2>6, <3>4, <3>5
  <2> QED
    BY <2>5, <2>6
<1> QED
  BY <1>13, <1>14

\* The mean of the prices and the average stay together in a swap.
LEMMA SwapDrifts ==
    ASSUME IInv, Filling, DriftBounded, NEW trade \in Trades, Swap(trade)
    PROVE  Filling' /\ DriftBounded'
<1>1. IInv'
  BY SwapKeeps
<1>2. DOMAIN traded \subseteq DOMAIN traded'
  <2>1. CASE trade = None
    BY <2>1 DEF Swap
  <2>2. CASE trade # None
    <3>1. trade \in Volumes
      BY <2>2 DEF Trades, Volumes
    <3> QED
      BY <2>2, <3>1, TradeRecorded DEF Swap
  <2> QED
    BY <2>1, <2>2
<1>3. AccumulateSwapSizes(PrecommitFound(trade))
  BY DEF Swap
<1>4. /\ IsFiniteSet(Seen) /\ IsFiniteSet(Seen')
      /\ Cardinality(Seen) \in Nat /\ Cardinality(Seen') \in Nat /\ Capacity \in Nat \ {0}
  <2>1. IsFiniteSet(Seen) /\ Cardinality(Seen) \in Nat
    BY FilledFinite DEF IInv
  <2>2. IsFiniteSet(Seen')
    <3>1. now' \in Nat /\ DOMAIN traded' \subseteq 0 .. now'
      BY <1>1 DEF IInv, TypeOK
    <3>2. PICK n \in Nat : n = now'
      BY <3>1
    <3>3. IsFiniteSet(0 .. n)
      BY FS_Interval
    <3>4. Seen' \in SUBSET (0 .. n)
      BY <3>1, <3>2 DEF Seen
    <3> QED
      BY <3>3, <3>4, FS_Subset
  <2> QED
    BY <2>1, <2>2, FS_CardinalityType, CapacityAssumption
<1>5. CASE ~PushDue(precommit)
  <2>1. ring' = ring /\ head' = head
    BY <1>3, <1>5 DEF AccumulateSwapSizes, PrecommitFound
  <2>2. Filling' /\ Drift' = Drift /\ LastObs' = LastObs /\ Filled' = Filled
    BY <2>1 DEF Filling, Drift, PricesKept, Filled, LastObs, OldestObs, Following
  <2>3. Seen \in SUBSET Seen'
    BY <1>2, <2>2 DEF Seen
  <2>4. Cardinality(Seen) <= Cardinality(Seen')
    BY <1>4, <2>3, FS_Subset
  <2>5. ASSUME NEW c \in Nat \ {0}
        PROVE  (c - 1) * Cardinality(Seen) <= (c - 1) * Cardinality(Seen')
               /\ (c - 1) * Cardinality(Seen) \in Nat /\ (c - 1) * Cardinality(Seen') \in Nat
    BY <1>4, <2>4, Products
  <2> QED
    BY <2>2, <2>5 DEF DriftBounded
<1>6. CASE PushDue(precommit)
  <2>1. /\ LastObs' # None /\ LastObs'.ts = precommit.ts
        /\ precommit # None /\ precommit.ts \in DOMAIN traded /\ precommit.ts \in Nat
    BY <1>3, <1>6, PushesPrecommit, PrecommitTyped DEF IInv, PrecommitLatest, PushDue
  <2>2. LastObs # None => LastObs.ts \in Nat /\ LastObs.ts < precommit.ts
    BY <1>6, SlotTyped DEF LastObs, PushDue, IInv, TypeOK
  <2>3. precommit.ts \notin Seen
    BY <2>1, <2>2 DEF Seen
  <2>4. Seen \cup {precommit.ts} \in SUBSET Seen'
    <3>1. \A t \in Seen : t \in Nat /\ t <= precommit.ts /\ t \in DOMAIN traded
      BY <2>1, <2>2 DEF Seen, IInv, TypeOK
    <3> QED
      BY <1>2, <2>1, <3>1 DEF Seen
  <2>5. Cardinality(Seen) + 1 <= Cardinality(Seen')
    <3>1. Cardinality(Seen \cup {precommit.ts}) = Cardinality(Seen) + 1
      BY <1>4, <2>3, FS_AddElement
    <3> QED
      BY <1>4, <2>4, <3>1, FS_Subset
  <2> DEFINE before == Cardinality(Filled)
             after == Cardinality(Filled')
  <2>6. /\ Filling' /\ Drift' \in Int /\ after \in Nat \ {0}
        /\ LastObs = None => Drift' = 0
        /\ LastObs # None => /\ Drift' - Drift \in 0 .. after - 1 /\ Drift \in Int
                            /\ before \in 1 .. after
    BY <1>3, <1>6, PushDrifts DEF DriftBounded
  <2> HIDE DEF before, after
  <2>7. /\ (after - 1) * Cardinality(Seen) + (after - 1) <= (after - 1) * Cardinality(Seen')
        /\ (after - 1) * Cardinality(Seen) \in Nat /\ (after - 1) * Cardinality(Seen') \in Nat
        /\ LastObs # None => /\ (before - 1) * Cardinality(Seen) <= (after - 1) * Cardinality(Seen)
                            /\ (before - 1) * Cardinality(Seen) \in Nat
    BY <1>4, <2>5, <2>6, Products
  <2>8. LastObs # None => 0 <= Drift /\ Drift <= (before - 1) * Cardinality(Seen)
    BY DEF DriftBounded, before
  <2>9. 0 <= Drift' /\ Drift' <= (after - 1) * Cardinality(Seen')
    BY <2>6, <2>7, <2>8
  <2> QED
    BY <2>6, <2>9 DEF DriftBounded, after
<1> QED
  BY <1>5, <1>6

\* No swap and no tick lets them drift apart further.
LEMMA StepDrifts ==
    ASSUME IInv, Filling, DriftBounded, [Next]_vars
    PROVE  Filling' /\ DriftBounded'
<1>1. CASE UNCHANGED <<ring, head, traded>>
  BY <1>1 DEF Filling, DriftBounded, Drift, PricesKept, Filled, LastObs, OldestObs, Following, Seen
<1> QED
  BY <1>1, SwapDrifts DEF Next, Trades, Tick, vars

\* At first there is nothing to keep together.
LEMMA DriftsFrom == Init => Filling /\ DriftBounded
  BY CapacityAssumption DEF Init, Filling, DriftBounded, Filled, LastObs, Slots

\* The moving average is the mean of the prices in a buffer of any size, after any trades, but
\* for less than a DecimalUnit-th for each second with trades.
THEOREM SmaFollowsMean == Spec => []SmaNearMean
<1>1. Init => Filling /\ DriftBounded
  BY DriftsFrom
<1>2. IInv /\ DriftBounded => SmaNearMean
  <2> SUFFICES ASSUME IInv, DriftBounded PROVE SmaNearMean
    OBVIOUS
  <2>1. /\ Cardinality(Seen) \in Nat /\ Cardinality(DOMAIN traded) \in Nat
        /\ Cardinality(Seen) <= Cardinality(DOMAIN traded)
    BY FilledFinite DEF IInv
  <2>2. ASSUME NEW c \in Nat \ {0}
        PROVE  (c - 1) * Cardinality(Seen) <= (c - 1) * Cardinality(DOMAIN traded)
               /\ (c - 1) * Cardinality(Seen) \in Nat /\ (c - 1) * Cardinality(DOMAIN traded) \in Nat
    BY <2>1, Products
  <2> QED
    BY <2>2 DEF DriftBounded, SmaNearMean
<1> QED
  BY <1>1, <1>2, OracleInvariance, StepDrifts, PTL DEF Spec

\* What a full buffer has left over for the price that comes in: the other prices outweigh what
\* the average has lost.
LEMMA OthersOutweigh ==
    ASSUME IInv, DriftBounded, OldestObs # None,
           \A slot \in Filled : ring[slot].price >= Cardinality(DOMAIN traded)
    PROVE  /\ LastObs # None /\ LastObs.sma \in Nat /\ OldestObs.price \in Nat
           /\ LastObs.sma * Capacity - OldestObs.price >= 0
<1> DEFINE seconds == Cardinality(DOMAIN traded)
           sum == SumFunctionOnSet(PricesKept, Filled)
<1>1. PICK f \in Slots : f = Following(head)
  BY FollowingHead DEF IInv, TypeOK
<1>2. /\ Filled = Slots /\ IsFiniteSet(Filled) /\ Cardinality(Filled) = Capacity
      /\ head \in Slots /\ Capacity \in Nat \ {0}
  BY FullBuffer, SlotsFinite, CapacityAssumption DEF IInv, TypeOK
<1>3. /\ LastObs # None /\ LastObs.sma \in Nat
      /\ OldestObs = ring[f] /\ OldestObs.price \in Nat
  BY <1>1, <1>2, SlotTyped DEF LastObs, OldestObs, Filled, IInv
<1>4. /\ seconds \in Nat /\ Cardinality(Seen) \in Nat /\ Cardinality(Seen) <= seconds
  BY FilledFinite DEF IInv
<1>5. \A slot \in Filled : PricesKept[slot] \in Nat /\ PricesKept[slot] >= seconds
  <2>1. \A slot \in Filled : PricesKept[slot] = ring[slot].price /\ slot \in Slots /\ ring[slot] # None
    BY DEF PricesKept, Filled
  <2> QED
    BY <2>1, SlotTyped DEF IInv
<1>6. PricesKept[f] = OldestObs.price
  BY <1>1, <1>2, <1>3 DEF PricesKept
<1> HIDE DEF seconds
<1> DEFINE others == SumFunctionOnSet(PricesKept, Filled \ {f})
<1>7. sum = OldestObs.price + others
  <2>1. \A slot \in Filled : PricesKept[slot] \in Int
    BY <1>5
  <2>2. sum = PricesKept[f] + others
    BY <1>2, <2>1, SumRemove
  <2> QED
    BY <1>6, <2>2
<1>8. others \in Nat /\ others >= seconds * (Capacity - 1)
  <2>1. IsFiniteSet(Filled \ {f}) /\ Cardinality(Filled \ {f}) = Capacity - 1
    BY <1>2, FS_RemoveElement
  <2>2. \A slot \in Filled \ {f} : PricesKept[slot] \in Nat /\ PricesKept[slot] >= seconds
    BY <1>5
  <2> QED
    BY <1>4, <2>1, <2>2, SumAtLeast, SumNat
<1> HIDE DEF sum, others
<1>9. sum - LastObs.sma * Capacity <= (Capacity - 1) * Cardinality(Seen)
  BY <1>2, <1>3 DEF DriftBounded, Drift, sum
<1>10. /\ (Capacity - 1) * Cardinality(Seen) <= (Capacity - 1) * seconds
       /\ (Capacity - 1) * Cardinality(Seen) \in Nat /\ (Capacity - 1) * seconds \in Nat
       /\ (Capacity - 1) * seconds = seconds * (Capacity - 1)
  BY <1>2, <1>4, Products
<1>11. LastObs.sma * Capacity \in Nat
  BY <1>2, <1>3
<1> QED
  BY <1>3, <1>7, <1>8, <1>9, <1>10, <1>11

\* No rounding ever disables a swap, for a buffer of any size and any trades, as long as no
\* price is below a DecimalUnit-th for each second with trades.
THEOREM SwapsNeverStuck == Spec => []AverageNeverRefused
<1>1. IInv /\ DriftBounded => AverageNeverRefused
  <2> SUFFICES ASSUME IInv, DriftBounded, PushDue(precommit),
                      \A slot \in Filled : ring[slot].price >= Cardinality(DOMAIN traded)
               PROVE  PriceSma(PriceOf(precommit)) >= 0
    BY DEF AverageNeverRefused
  <2>1. PICK price \in Nat : price = PriceOf(precommit)
    BY PrecommitTyped, PriceTyped DEF PushDue, PriceOf, IInv
  <2>2. head \in Nat /\ Capacity \in Nat \ {0}
    BY CapacityAssumption DEF IInv, TypeOK, Slots
  <2>3. CASE LastObs = None
    BY <2>1, <2>3 DEF PriceSma
  <2>4. CASE LastObs # None /\ OldestObs # None
    <3>1. /\ LastObs.sma \in Nat /\ OldestObs.price \in Nat
          /\ LastObs.sma * Capacity - OldestObs.price >= 0
      BY <2>4, OthersOutweigh
    <3>2. PICK a \in Nat : a = LastObs.sma * Capacity + price - OldestObs.price
      <4>1. LastObs.sma * Capacity \in Nat
        BY <2>2, <3>1
      <4> QED
        BY <2>1, <3>1, <4>1
    <3>3. a \div Capacity >= 0
      BY <2>2
    <3> QED
      BY <2>1, <2>4, <3>2, <3>3 DEF PriceSma, SmaAfterEviction
  <2>5. CASE LastObs # None /\ OldestObs = None
    <3>1. LastObs.sma \in Nat
      BY <2>5, SlotTyped DEF LastObs, IInv, TypeOK
    <3>2. PICK a \in Nat, n \in Nat \ {0} : a = LastObs.sma * head + price /\ n = head + 1
      BY <2>2, <3>1
    <3>3. a \div n >= 0
      OBVIOUS
    <3> QED
      BY <2>1, <2>5, <3>2, <3>3 DEF PriceSma, SmaAfterAddition
  <2> QED
    BY <2>1, <2>3, <2>4, <2>5
<1> QED
  BY <1>1, DriftsFrom, OracleInvariance, StepDrifts, PTL DEF Spec
==============================================================================
