----------------------------- MODULE PriceWindow ------------------------------
(***************************************************************************)
(* What the price oracle promises, with no buffer: of the seconds in which *)
(* trades were recorded, each gets one observation, in order of time, at a *)
(* price the trades of that second had reached; the latest Capacity of     *)
(* them are kept.                                                          *)
(***************************************************************************)
EXTENDS PriceObservation, FiniteSets

CONSTANT MaxTime

VARIABLES
    now,      \* the time, in seconds
    traded,   \* per second, the total volumes after each recorded trade
    window    \* the observations kept: second and price

vars == <<now, traded, window>>

Init == now = 0 /\ traded = <<>> /\ window = {}

Before(t) == \A obs \in window : obs.ts < t

\* The seconds with trades that have no observation yet.
Pending == {t \in DOMAIN traded : Before(t)}

\* Of one observation too many, the oldest goes.
Latest(set) ==
    IF Cardinality(set) <= Capacity THEN set
    ELSE {obs \in set : \E older \in set : older.ts < obs.ts}

\* The earliest of the pending seconds, at the price after one of its trades.
Observe ==
    \E t \in Pending : \E i \in DOMAIN traded[t] :
        /\ \A later \in Pending : t <= later
        /\ window' = Latest(window \cup {[ts |-> t, price |-> PriceOf(traded[t][i])]})

Trade ==
    \/ UNCHANGED traded
    \/ /\ DOMAIN traded' = DOMAIN traded \cup {now}
       /\ \A t \in DOMAIN traded \ {now} : traded'[t] = traded[t]

Swap == (Observe \/ UNCHANGED window) /\ Trade /\ UNCHANGED now

Tick == now' > now /\ UNCHANGED <<traded, window>>

Next == Swap \/ Tick

Spec == Init /\ [][Next]_vars
==============================================================================
