-------------------------- MODULE PairRecordsProofs ---------------------------
(* Theorems about PairRecords: the operations of a pair are steps of both records, so what *)
(* is proved of Observations and of BalanceHistory holds for a pair.                       *)
EXTENDS PairRecords, TLAPS

OracleFacts == INSTANCE ObservationsProofs WITH MaxVolume <- MaxAmount
HistoryFacts == INSTANCE BalanceHistoryProofs

\* Trades are recorded with both sides in the bounds, or not at all.
LEMMA TradeBounded ==
    ASSUME NEW offer \in Assets, NEW s \in Swaps
    PROVE  TradeOf(offer, s.paid, s.dy) \in [base: 1 .. MaxAmount, quote: 1 .. MaxAmount] \cup {None}
<1>1. s \in [paid: 1 .. MaxAmount, dy: 1 .. MaxAmount, fee: 0 .. MaxAmount,
             returned: 0 .. MaxAmount]
  BY BoundsAssumption
<1> QED BY <1>1 DEF TradeOf

\* A swap is a swap of both records.
LEMMA SwapIsBoth ==
    ASSUME NEW offer \in Assets, NEW s \in Swaps, Swap(offer, s.paid, s.dy, s.fee, s.returned)
    PROVE  Oracle!Next /\ History!Next
<1>1. Oracle!Next
  BY TradeBounded DEF Swap, Oracle!Next
<1>2. /\ s.paid \in 1 .. MaxAmount /\ s.dy \in 1 .. MaxAmount /\ s.fee \in 0 .. MaxAmount
      /\ offer \in History!Assets /\ s.returned \in {0, s.dy}
  BY BoundsAssumption DEF Assets, History!Assets
<1>3. History!Swap(offer, s.paid, s.dy, s.fee, s.returned)
  BY DEF Swap
<1> QED BY <1>1, <1>2, <1>3 DEF History!Next

\* Every operation is a step of each record or leaves it alone.
LEMMA StepIsBoth ==
    ASSUME [Next]_vars
    PROVE  [Oracle!Next]_(Oracle!vars) /\ [History!Next]_(History!vars)
<1>1. ASSUME NEW d \in Deposits, Liquidity(d)
      PROVE  UNCHANGED Oracle!vars /\ History!Next
  <2>1. d \in [History!Assets -> 0 .. MaxAmount]
    BY BoundsAssumption DEF History!Assets
  <2> QED BY <1>1, <2>1 DEF Liquidity, History!Next, Oracle!vars, oracle
<1>2. ASSUME NEW a \in Assets, Donate(a, 1) PROVE UNCHANGED Oracle!vars /\ History!Next
  <2>1. a \in History!Assets /\ 1 \in 1 .. MaxAmount
    BY BoundsAssumption DEF Assets, History!Assets
  <2> QED BY <1>2, <2>1 DEF Donate, History!Next, Oracle!vars, oracle
<1>3. CASE EnableAssetBalancesTracking
  BY <1>3 DEF EnableAssetBalancesTracking, History!Next, Oracle!vars, oracle
<1>4. CASE NewBlock
  BY <1>4 DEF NewBlock, History!Next, Oracle!Next, Oracle!vars, oracle
<1>5. CASE UNCHANGED vars
  BY <1>5 DEF vars, oracle, history, Oracle!vars, History!vars
<1> QED BY <1>1, <1>2, <1>3, <1>4, <1>5, SwapIsBoth DEF Next

\* A pair's oracle behaves as Observations describes, whatever else the pair does.
THEOREM PairHasOracle == Spec => Oracle!Spec
<1>1. Init => Oracle!Init
  BY DEF Init
<1> QED BY <1>1, StepIsBoth, PTL DEF Spec, Oracle!Spec

\* A pair's balance history behaves as BalanceHistory describes.
THEOREM PairHasHistory == Spec => History!Spec
<1>1. Init => History!Init
  BY DEF Init
<1> QED BY <1>1, StepIsBoth, PTL DEF Spec, History!Spec

\* The proofs speak of their own instance of the same module.
LEMMA SameHistory ==
    /\ History!Init => HistoryFacts!Init
    /\ [History!Next]_(History!vars) => [HistoryFacts!Next]_(HistoryFacts!vars)
    /\ HistoryFacts!HistoryRight => HistoryRight
  BY ZenonT(60)
     DEF HistoryRight, History!Assets, HistoryFacts!Assets, History!Amounts, HistoryFacts!Amounts,
         History!NotTracked, HistoryFacts!NotTracked, History!Values, HistoryFacts!Values,
         History!TrackedReserves, HistoryFacts!TrackedReserves, History!Init,
         HistoryFacts!Init, History!vars, HistoryFacts!vars, History!Logged,
         HistoryFacts!Logged, History!Save, HistoryFacts!Save, History!SaveIfTracked,
         HistoryFacts!SaveIfTracked, History!NothingUntracked,
         HistoryFacts!NothingUntracked, History!OtherMessage, HistoryFacts!OtherMessage,
         History!ProvideLiquidity, HistoryFacts!ProvideLiquidity, History!WithdrawLiquidity,
         HistoryFacts!WithdrawLiquidity, History!SwapBalances, HistoryFacts!SwapBalances,
         History!Swap, HistoryFacts!Swap, History!EnableAssetBalancesTracking,
         HistoryFacts!EnableAssetBalancesTracking, History!Donate, HistoryFacts!Donate,
         History!NewBlock, HistoryFacts!NewBlock, History!Next, HistoryFacts!Next,
         History!AssetBalanceAt, HistoryFacts!AssetBalanceAt, History!Min, HistoryFacts!Min,
         History!HistoryRight, HistoryFacts!HistoryRight

\* As do the proofs about the oracle.
LEMMA SameOracle ==
    /\ Oracle!Init => OracleFacts!Init
    /\ [Oracle!Next]_(Oracle!vars) => [OracleFacts!Next]_(OracleFacts!vars)
    /\ OracleFacts!SecondsObserved => SecondsObserved
  BY ZenonT(60)
     DEF SecondsObserved, Oracle!Init, OracleFacts!Init, Oracle!vars, OracleFacts!vars, Oracle!Slots,
         OracleFacts!Slots, Oracle!Following, OracleFacts!Following, Oracle!LastObs,
         OracleFacts!LastObs, Oracle!PushDue, OracleFacts!PushDue, Oracle!OldestObs,
         OracleFacts!OldestObs, Oracle!SmaAfterEviction, OracleFacts!SmaAfterEviction,
         Oracle!SmaAfterAddition, OracleFacts!SmaAfterAddition, Oracle!PriceSma,
         OracleFacts!PriceSma, Oracle!PushSlot, OracleFacts!PushSlot, Oracle!PriceOf,
         OracleFacts!PriceOf, Oracle!AccumulateSwapSizes, OracleFacts!AccumulateSwapSizes,
         Oracle!PrecommitAfter, OracleFacts!PrecommitAfter, Oracle!PrecommitFound,
         OracleFacts!PrecommitFound, Oracle!Plus, OracleFacts!Plus, Oracle!Recorded,
         OracleFacts!Recorded, Oracle!Swap, OracleFacts!Swap, Oracle!Tick, OracleFacts!Tick,
         Oracle!Next, OracleFacts!Next, Oracle!SecondsObserved, OracleFacts!SecondsObserved

\* AssetBalanceAt of a pair answers with the balance at the beginning of the block, for any
\* operations in any blocks.
THEOREM PairHistoryRight == Spec => []HistoryRight
<1>1. HistoryFacts!Spec => []HistoryFacts!HistoryRight
  BY HistoryFacts!HistoryAlwaysRight
<1>2. History!Spec => HistoryFacts!Spec
  BY SameHistory, PTL DEF History!Spec, HistoryFacts!Spec
<1> QED BY <1>1, <1>2, SameHistory, PairHasHistory, PTL

\* The absent values of the proofs are those of PriceObservation.
LEMMA AbsentObservations ==
    None \notin OracleFacts!Precommits \cup OracleFacts!Observed \cup OracleFacts!Volumes
  BY AbsentObservationAssumption
     DEF Precommits, Observed, Volumes,
         OracleFacts!Precommits, OracleFacts!Observed, OracleFacts!Volumes

\* No second with recorded trades of a pair waits for its observation beyond the first swap of a
\* later second.
THEOREM PairTradesObserved == Spec => []SecondsObserved
<1>1. OracleFacts!Spec => []OracleFacts!SecondsObserved
  BY AbsentObservations, OracleFacts!TradesObserved, CapacityAssumption, UnitAssumption
<1>2. Oracle!Spec => OracleFacts!Spec
  BY SameOracle, PTL DEF Oracle!Spec, OracleFacts!Spec
<1> QED BY <1>1, <1>2, SameOracle, PairHasOracle, PTL

\* Both instances sum up and count alike.
LEMMA SameMean == OracleFacts!SmaNearMean => SmaNearMean
<1>1. \A f, S : OracleFacts!SumFunctionOnSet(f, S) = Oracle!SumFunctionOnSet(f, S)
  BY ZenonT(60)
     DEF Oracle!SumFunctionOnSet, OracleFacts!SumFunctionOnSet, Oracle!FoldFunctionOnSet,
         OracleFacts!FoldFunctionOnSet, Oracle!MapThenFoldSet, OracleFacts!MapThenFoldSet
<1>2. \A S : OracleFacts!Cardinality(S) = Oracle!Cardinality(S)
  BY ZenonT(60)
     DEF Oracle!Cardinality, OracleFacts!Cardinality, Oracle!IsFiniteSet, OracleFacts!IsFiniteSet
<1> QED
  BY <1>1, <1>2, ZenonT(60)
     DEF SmaNearMean, Oracle!SmaNearMean, OracleFacts!SmaNearMean, Oracle!Drift, OracleFacts!Drift,
         Oracle!PricesKept, OracleFacts!PricesKept, Oracle!Filled, OracleFacts!Filled,
         Oracle!Slots, OracleFacts!Slots, Oracle!LastObs, OracleFacts!LastObs

\* The price_sma of a pair is the mean of the prices in its buffer, but for rounding, through
\* any operations.
THEOREM PairSmaFollowsMean == Spec => []SmaNearMean
<1>1. OracleFacts!Spec => []OracleFacts!SmaNearMean
  BY AbsentObservations, OracleFacts!SmaFollowsMean, CapacityAssumption, UnitAssumption
<1>2. Oracle!Spec => OracleFacts!Spec
  BY SameOracle, PTL DEF Oracle!Spec, OracleFacts!Spec
<1> QED
  BY <1>1, <1>2, SameMean, PairHasOracle, PTL

\* Both instances judge the precommit that is due alike.
LEMMA SameAverage == OracleFacts!AverageNeverRefused => AverageNeverRefused
<1>1. \A S : OracleFacts!Cardinality(S) = Oracle!Cardinality(S)
  BY ZenonT(60)
     DEF Oracle!Cardinality, OracleFacts!Cardinality, Oracle!IsFiniteSet, OracleFacts!IsFiniteSet
<1> QED
  BY <1>1, ZenonT(60)
     DEF AverageNeverRefused, Oracle!AverageNeverRefused, OracleFacts!AverageNeverRefused,
         Oracle!PushDue, OracleFacts!PushDue, Oracle!PriceSma, OracleFacts!PriceSma,
         Oracle!PriceOf, OracleFacts!PriceOf, Oracle!OldestObs, OracleFacts!OldestObs,
         Oracle!Following, OracleFacts!Following, Oracle!SmaAfterEviction,
         OracleFacts!SmaAfterEviction, Oracle!SmaAfterAddition, OracleFacts!SmaAfterAddition,
         Oracle!Filled, OracleFacts!Filled, Oracle!Slots, OracleFacts!Slots, Oracle!LastObs,
         OracleFacts!LastObs

\* No rounding of the averages ever fails the swaps of a pair, through any operations.
THEOREM PairSwapsNeverStuck == Spec => []AverageNeverRefused
<1>1. OracleFacts!Spec => []OracleFacts!AverageNeverRefused
  BY AbsentObservations, OracleFacts!SwapsNeverStuck, CapacityAssumption, UnitAssumption
<1>2. Oracle!Spec => OracleFacts!Spec
  BY SameOracle, PTL DEF Oracle!Spec, OracleFacts!Spec
<1> QED
  BY <1>1, <1>2, SameAverage, PairHasOracle, PTL

\* Both instances of the typing invariants are the same, too.
LEMMA SameTypes ==
    /\ OracleFacts!TypeOK => Oracle!TypeOK
    /\ HistoryFacts!TypeOK => History!TypeOK
<1>1. OracleFacts!TypeOK => Oracle!TypeOK
  BY ZenonT(60)
     DEF Oracle!TypeOK, OracleFacts!TypeOK, Oracle!Slots, OracleFacts!Slots,
         Oracle!Observed, OracleFacts!Observed, Oracle!Precommits, OracleFacts!Precommits,
         Oracle!Volumes, OracleFacts!Volumes
<1>2. HistoryFacts!TypeOK => History!TypeOK
  BY ZenonT(60)
     DEF History!TypeOK, HistoryFacts!TypeOK, History!Assets, HistoryFacts!Assets,
         History!Amounts, HistoryFacts!Amounts, History!Values, HistoryFacts!Values,
         History!NotTracked, HistoryFacts!NotTracked
<1> QED BY <1>1, <1>2

\* Both records of a pair keep their types, through any operations.
THEOREM PairRecordsTypeCorrect == Spec => []TypeOK
<1>1. OracleFacts!Spec => []OracleFacts!TypeOK
  BY AbsentObservations, OracleFacts!OracleTypeCorrect, CapacityAssumption, UnitAssumption
<1>2. Oracle!Spec => OracleFacts!Spec
  BY SameOracle, PTL DEF Oracle!Spec, OracleFacts!Spec
<1>3. HistoryFacts!Spec => []HistoryFacts!TypeOK
  BY HistoryFacts!HistoryTypeCorrect
<1>4. History!Spec => HistoryFacts!Spec
  BY SameHistory, PTL DEF History!Spec, HistoryFacts!Spec
<1>5. Init => operations \in Nat
  BY DEF Init
<1>6. operations \in Nat /\ [Next]_vars => (operations \in Nat)'
  BY DEF Next, vars, Swap, Liquidity, Donate, Bounded, EnableAssetBalancesTracking, NewBlock
<1> QED
  BY <1>1, <1>2, <1>3, <1>4, <1>5, <1>6, SameTypes, PairHasOracle, PairHasHistory, PTL
     DEF Spec, TypeOK

\* And both instances of the window.
LEMMA SameWindow ==
    /\ OracleFacts!Window!Init => Oracle!Window!Init
    /\ [OracleFacts!Window!Next]_(OracleFacts!Window!vars)
         => [Oracle!Window!Next]_(Oracle!Window!vars)
  BY ZenonT(60)
     DEF Oracle!Window!Init, OracleFacts!Window!Init, Oracle!Window!vars,
         OracleFacts!Window!vars, Oracle!Window!Next, OracleFacts!Window!Next,
         Oracle!Window!Swap, OracleFacts!Window!Swap, Oracle!Window!Tick,
         OracleFacts!Window!Tick, Oracle!Window!Trade, OracleFacts!Window!Trade,
         Oracle!Window!Observe, OracleFacts!Window!Observe, Oracle!Window!Pending,
         OracleFacts!Window!Pending, Oracle!Window!Before,
         OracleFacts!Window!Before, Oracle!Window!Latest, OracleFacts!Window!Latest,
         Oracle!Window!PriceOf, OracleFacts!Window!PriceOf,
         Oracle!Window!Cardinality, OracleFacts!Window!Cardinality,
         Oracle!Window!IsFiniteSet, OracleFacts!Window!IsFiniteSet, Oracle!Kept,
         OracleFacts!Kept, Oracle!Filled, OracleFacts!Filled, Oracle!Slots,
         OracleFacts!Slots

\* The buffer of a pair implements the window of the latest seconds with trades.
THEOREM PairBufferIsWindow == Spec => WindowSpec
<1>1. OracleFacts!Spec => OracleFacts!WindowSpec
  BY AbsentObservations, OracleFacts!BufferIsWindow, CapacityAssumption, UnitAssumption
<1>2. Oracle!Spec => OracleFacts!Spec
  BY SameOracle, PTL DEF Oracle!Spec, OracleFacts!Spec
<1>3. OracleFacts!WindowSpec => WindowSpec
  BY SameWindow, PTL
     DEF WindowSpec, Oracle!WindowSpec, OracleFacts!WindowSpec,
         Oracle!Window!Spec, OracleFacts!Window!Spec
<1> QED BY <1>1, <1>2, <1>3, PairHasOracle, PTL
==============================================================================
