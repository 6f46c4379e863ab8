--------------------------- MODULE PriceObservation ---------------------------
(***************************************************************************)
(* The vocabulary of the pair's price oracle: observations, the precommit  *)
(* observation, Decimals as numbers of DecimalUnit-ths, and the moving     *)
(* averages of astroport::observation (external code, modelled from the    *)
(* way contracts/pair_concentrated/src/utils.rs calls it).                 *)
(***************************************************************************)
EXTENDS Integers

CONSTANTS
    None,         \* an absent Option
    Capacity,     \* OBSERVATIONS_SIZE
    DecimalUnit   \* 10^18: one, as a Decimal

ASSUME CapacityAssumption == Capacity \in Nat \ {0}
ASSUME UnitAssumption == DecimalUnit \in Nat \ {0}

Volumes == [base: Nat \ {0}, quote: Nat \ {0}]
Precommits == [base: Nat \ {0}, quote: Nat \ {0}, ts: Nat]
Observed == [ts: Nat, price: Nat, sma: Nat]

\* The absent values are told apart from the records they stand in for.
ASSUME AbsentObservationAssumption == None \notin Precommits \cup Observed \cup Volumes

\* Decimal::from_ratio of the two sides of a trade, or of all trades of a second.
PriceOf(v) == (v.base * DecimalUnit) \div v.quote

Plus(v, w) == [base |-> v.base + w.base, quote |-> v.quote + w.quote]

\* The average over count prices after price took the place of oldest.
SmaAfterEviction_OthersOnly(sma, oldest, count, price) == (sma * (count - 1) + price - oldest) \div count
SmaAfterEviction(sma, oldest, count, price) == (sma * count + price - oldest) \div count

\* The average over count + 1 prices.
SmaAfterAddition(sma, count, price) == (sma * count + price) \div (count + 1)
==============================================================================
