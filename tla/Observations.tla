----------------------------- MODULE Observations -----------------------------
(***************************************************************************)
(* The pair's price oracle.  A swap adds its volume to the precommit       *)
(* observation of the current second; a later swap turns the precommit     *)
(* into an observation in a circular buffer.  Several swaps, in one block  *)
(* or in several, share a second.  Providing and withdrawing liquidity     *)
(* does not touch any of this.                                             *)
(*                                                                         *)
(* The circular buffer is library code: its head is the slot written last, *)
(* the slot after it the one to be written next, which holds the oldest    *)
(* observation once the buffer is full.                                    *)
(***************************************************************************)
EXTENDS PriceObservation, Sequences, FiniteSets, Functions

CONSTANTS
    MaxVolume,     \* bound on each side of a trade
    MaxPerSecond,  \* bound on the recorded trades of a second
    MaxTime        \* bound on the time

VARIABLES
    now,        \* env.block.time, in seconds
    ring,       \* the slots of OBSERVATIONS
    head,       \* the slot written last, 0 at first
    precommit,  \* the PrecommitObservation
    traded,     \* history: per second, the total volumes after each recorded trade
    lastSwap    \* history: the time of the latest swap

vars == <<now, ring, head, precommit, traded, lastSwap>>

Slots == 0 .. Capacity - 1
Following(slot) == (slot + 1) % Capacity
LastObs == ring[head]

Init ==
    /\ now = 0
    /\ ring = [slot \in Slots |-> None]
    /\ head = 0
    /\ precommit = None
    /\ traded = <<>>
    /\ lastSwap = 0

\* The first observation waits for its second to be over, a later one does not.
PushDue_SameTs(p) ==
    /\ p # None
    /\ IF LastObs = None THEN now > p.ts ELSE LastObs.ts <= p.ts
PushDue(p) ==
    /\ p # None
    /\ IF LastObs = None THEN now > p.ts ELSE LastObs.ts < p.ts

\* "Since this is circular buffer the next index contains the oldest value".
OldestObs_Last == ring[head]
OldestObs == ring[Following(head)]

PriceSma(price) ==
    IF LastObs = None THEN price
    ELSE IF OldestObs # None
    THEN SmaAfterEviction(LastObs.sma, OldestObs.price, Capacity, price)
    ELSE SmaAfterAddition(LastObs.sma, head, price)

\* instant_push: into the slot after the head, which becomes the head.
PushSlot == Following(head)

\* accumulate_swap_sizes, given the precommit it finds; an average below zero is an error.
AccumulateSwapSizes(p) ==
    IF PushDue(p)
    THEN /\ PriceSma(PriceOf(p)) >= 0
         /\ ring' = [ring EXCEPT ![PushSlot] =
                        [ts |-> p.ts, price |-> PriceOf(p), sma |-> PriceSma(PriceOf(p))]]
         /\ head' = PushSlot
    ELSE UNCHANGED <<ring, head>>

\* PrecommitObservation::save: volumes of one second add up, a later second starts anew.
PrecommitAfter(trade) ==
    IF precommit # None /\ precommit.ts = now
    THEN [base |-> precommit.base + trade.base, quote |-> precommit.quote + trade.quote,
          ts |-> now]
    ELSE [base |-> trade.base, quote |-> trade.quote, ts |-> now]

\* What accumulate_swap_sizes finds: the precommit as the swaps before left it.
PrecommitFound_Saved(trade) == IF trade = None THEN precommit ELSE PrecommitAfter(trade)
PrecommitFound(trade) == precommit

\* History: the second's total volume after the trade.
Recorded(trade) ==
    IF now \in DOMAIN traded
    THEN [traded EXCEPT ![now] = Append(@, Plus(@[Len(@)], trade))]
    ELSE [t \in DOMAIN traded \cup {now} |-> IF t = now THEN <<trade>> ELSE traded[t]]

\* A swap of either kind; trade is None when one of its sides is below MIN_TRADE_SIZE.
Swap(trade) ==
    /\ AccumulateSwapSizes(PrecommitFound(trade))
    /\ IF trade = None
       THEN UNCHANGED <<precommit, traded>>
       ELSE /\ now \in DOMAIN traded => Len(traded[now]) < MaxPerSecond
            /\ precommit' = PrecommitAfter(trade)
            /\ traded' = Recorded(trade)
    /\ lastSwap' = now
    /\ UNCHANGED now

\* Longer gaps are several ticks without a swap.
Tick ==
    /\ now < MaxTime
    /\ now' = now + 1
    /\ UNCHANGED <<ring, head, precommit, traded, lastSwap>>

Next ==
    \/ \E trade \in [base: 1 .. MaxVolume, quote: 1 .. MaxVolume] \cup {None} : Swap(trade)
    \/ Tick

Spec == Init /\ [][Next]_vars

----------------------------------------------------------------------------
(* Properties *)

\* Every variable keeps its type; in particular no observation and no precommit is from the
\* future.
TypeOK ==
    /\ now \in Nat
    /\ ring \in [Slots -> Observed \cup {None}]
    /\ \A slot \in Slots : ring[slot] # None => ring[slot].ts <= now
    /\ head \in Slots
    /\ precommit \in Precommits \cup {None}
    /\ precommit # None => precommit.ts <= now
    /\ DOMAIN traded \subseteq 0 .. now
    /\ \A t \in DOMAIN traded : traded[t] \in Seq(Volumes) /\ traded[t] # <<>>
    /\ lastSwap \in 0 .. now

Filled == {slot \in Slots : ring[slot] # None}

\* A second with recorded trades waits for the first swap of a later second and no longer:
\* after it the latest observation is from that second or a later one.
SecondsObserved ==
    \A t \in DOMAIN traded : t < lastSwap => LastObs # None /\ LastObs.ts >= t

\* price_sma is the mean of the prices in the buffer but for what integer division loses: less
\* than a DecimalUnit-th for each second with trades, whether the buffer is full or not.
PricesKept == [slot \in Filled |-> ring[slot].price]
Drift == SumFunctionOnSet(PricesKept, Filled) - LastObs.sma * Cardinality(Filled)
SmaNearMean ==
    LastObs # None
      => /\ Drift >= 0
         /\ Drift <= (Cardinality(Filled) - 1) * Cardinality(DOMAIN traded)

\* The rounding never makes an average negative, an error that would fail every later swap:
\* while no price is below a DecimalUnit-th for each second with trades, the precommit that is
\* due has an average, whichever observation it takes the place of.
AverageNeverRefused ==
    PushDue(precommit) /\ (\A slot \in Filled : ring[slot].price >= Cardinality(DOMAIN traded))
      => PriceSma(PriceOf(precommit)) >= 0

\* "This data will be reflected in observations in the next action": once a swap of a
\* later second was executed, the observation of a second shows all trades of it.
TradesReflected ==
    \A slot \in Filled :
        LET obs == ring[slot] IN
        obs.ts < lastSwap => obs.price = PriceOf(traded[obs.ts][Len(traded[obs.ts])])

\* The buffer implements a window of the latest observations, one for each second with
\* trades, in order of time and each at a price of its own second.
Kept == {[ts |-> ring[slot].ts, price |-> ring[slot].price] : slot \in Filled}
Window == INSTANCE PriceWindow WITH window <- Kept
WindowSpec == Window!Spec
==============================================================================
