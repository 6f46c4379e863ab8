----------------------------- MODULE MakerProofs -----------------------------
(***************************************************************************)
(* The maker's routes, its cooldown and its collects are right for any     *)
(* coins and pools.                                                        *)
(***************************************************************************)
EXTENDS Maker, Sums

RoutesType ==
    /\ DOMAIN routes \subseteq Denoms
    /\ \A d \in DOMAIN routes : routes[d] \in Denoms

----------------------------------------------------------------------------
(* Routes *)

\* What SetPoolRoutes stores.
LEMMA OverwrittenType ==
    ASSUME RoutesType, NEW new \in NewRoutes
    PROVE  /\ DOMAIN Overwritten(new) = DOMAIN routes \cup DOMAIN new
           /\ DOMAIN new \subseteq Denoms
           /\ \A d \in DOMAIN Overwritten(new) : Overwritten(new)[d] \in Denoms
<1>1. PICK D \in SUBSET Denoms : new \in [D -> Denoms]
  BY DEF NewRoutes
<1> QED
  BY <1>1 DEF Overwritten, RoutesType

\* A set the steps of next do not leave keeps the whole way in it.
LEMMA WayStaysInside ==
    ASSUME NEW next, NEW goal, NEW S, NEW d \in S,
           \A x \in S : Follow(next, goal, x) \in S
    PROVE  Way(next, goal, d) \subseteq S
<1> DEFINE F(x) == Follow(next, goal, x)
<1>1. \A x \in S : F(x) \in S
  OBVIOUS
<1>2. Way(next, goal, d) = {F(d), F(F(d)), F(F(F(d))), F(F(F(F(d)))), F(F(F(F(F(d)))))}
  BY DEF Way
<1> HIDE DEF F
<1>3. F(d) \in S
  BY <1>1
<1>4. F(F(d)) \in S
  BY <1>1, <1>3
<1>5. F(F(F(d))) \in S
  BY <1>1, <1>4
<1>6. F(F(F(F(d)))) \in S
  BY <1>1, <1>5
<1>7. F(F(F(F(F(d))))) \in S
  BY <1>1, <1>6
<1> QED
  BY <1>2, <1>3, <1>4, <1>5, <1>6, <1>7

\* Outside of the coins it is for, a message changes no step.
LEMMA OtherStepsKept ==
    ASSUME RoutesType, NEW new \in NewRoutes, NEW d, d \notin DOMAIN new, NEW goal
    PROVE  Follow(Overwritten(new), goal, d) = Follow(routes, goal, d)
<1>1. DOMAIN Overwritten(new) = DOMAIN routes \cup DOMAIN new
  BY OverwrittenType
<1>2. d \in DOMAIN routes => Overwritten(new)[d] = routes[d]
  BY DEF Overwritten
<1> QED
  BY <1>1, <1>2 DEF Follow

\* A set of coins without ASTRO that the new routes do not lead out of holds none of the
\* coins the message is for, each of which reaches ASTRO, so the old routes did not lead out
\* of it either.
LEMMA AcceptedRoutesOpen ==
    ASSUME RoutesType, NEW new \in NewRoutes, RoutesAccepted(new), NEW S \in SUBSET Denoms,
           \A x \in S : Follow(Overwritten(new), astro, x) \in S, astro \notin S
    PROVE  Closed(S)
<1>1. \A d \in DOMAIN new : d \notin S
  <2> SUFFICES ASSUME NEW d \in DOMAIN new, d \in S PROVE FALSE
    OBVIOUS
  <2>1. Way(Overwritten(new), astro, d) \subseteq S
    BY WayStaysInside
  <2> QED
    BY <2>1 DEF RoutesAccepted, Buildable
<1>2. \A x \in S : Follow(routes, astro, x) \in S
  BY <1>1, OtherStepsKept
<1> QED
  BY <1>2 DEF Closed

\* ROUTES map coins to coins, whatever the messages.
LEMMA RoutesTyped == Spec => []RoutesType
<1>1. Init => RoutesType
  BY DEF Init, RoutesType
<1>2. RoutesType /\ [Next]_vars => RoutesType'
  <2> SUFFICES ASSUME RoutesType, [Next]_vars PROVE RoutesType'
    OBVIOUS
  <2>1. CASE UNCHANGED routes
    BY <2>1 DEF RoutesType
  <2>2. ASSUME NEW sender, NEW new \in NewRoutes, SetPoolRoutes(sender, new) PROVE RoutesType'
    BY <2>2, OverwrittenType DEF SetPoolRoutes, RoutesType
  <2> QED
    BY <2>1, <2>2 DEF Next, Execute, vars, Collect, UpdateConfig, OwnerChanges, DexSwap,
       ReplyForwards, Rollback, Tick, Deposit, config, history
<1> QED
  BY <1>1, <1>2, PTL DEF Spec

\* The routes SetPoolRoutes stores lead to ASTRO and cut no coin off from it, however many
\* coins share them.
THEOREM RoutesOpen == Spec => RoutesNeverCutOff
<1> DEFINE Kept == astro' = astro
                     => \A d \in Denoms : ReachesAstro(d) \/ d \in Rerouted => ReachesAstro(d)'
<1>1. RoutesType /\ [Next]_vars => Kept
  <2> SUFFICES ASSUME RoutesType, [Next]_vars, astro' = astro PROVE
                 \A d \in Denoms : ReachesAstro(d) \/ d \in Rerouted => ReachesAstro(d)'
    OBVIOUS
  <2>1. CASE UNCHANGED routes
    BY <2>1 DEF ReachesAstro, Closed, Rerouted
  <2>2. ASSUME NEW sender, NEW new \in NewRoutes, SetPoolRoutes(sender, new)
        PROVE  \A d \in Denoms : ReachesAstro(d) \/ d \in Rerouted => ReachesAstro(d)'
    <3>1. routes' = Overwritten(new) /\ RoutesAccepted(new)
      BY <2>2 DEF SetPoolRoutes
    <3>2. ASSUME NEW S \in SUBSET Denoms, Closed(S)', astro \notin S PROVE Closed(S)
      <4>1. \A x \in S : Follow(Overwritten(new), astro, x) \in S
        BY <3>1, <3>2 DEF Closed
      <4> QED
        BY <4>1, <3>1, <3>2, AcceptedRoutesOpen
    <3>3. \A d \in Rerouted : d \in DOMAIN new
      <4>1. DOMAIN routes' = DOMAIN routes \cup DOMAIN new
        BY <3>1, OverwrittenType
      <4>2. \A d \in DOMAIN routes \ DOMAIN new : routes'[d] = routes[d]
        BY <3>1 DEF Overwritten
      <4> QED
        BY <4>1, <4>2 DEF Rerouted
    <3>4. ASSUME NEW d \in DOMAIN new, NEW S \in SUBSET Denoms, d \in S, Closed(S)'
          PROVE  astro \in S
      <4>1. \A x \in S : Follow(Overwritten(new), astro, x) \in S
        BY <3>1, <3>4 DEF Closed
      <4>2. Way(Overwritten(new), astro, d) \subseteq S
        BY <3>4, <4>1, WayStaysInside
      <4> QED
        BY <3>1, <4>2 DEF RoutesAccepted, Buildable
    <3> QED
      BY <3>2, <3>3, <3>4 DEF ReachesAstro
  <2> QED
    BY <2>1, <2>2 DEF Next, Execute, vars, Collect, UpdateConfig, OwnerChanges, DexSwap,
       ReplyForwards, Rollback, Tick, Deposit, config, history
<1> HIDE DEF Kept
<1>2. RoutesType /\ [Next]_vars => [Kept]_vars
  BY <1>1
<1>3. Spec => [][Kept]_vars
  BY <1>2, RoutesTyped, PTL DEF Spec
<1> QED
  BY <1>3 DEF RoutesNeverCutOff, Kept

----------------------------------------------------------------------------
(* Cooldown *)

\* A collect that is being executed, and what its rollback restores.
Collecting(b) ==
    /\ message.step \in {"swap", "reply"}
    /\ message = [step |-> message.step, swaps |-> message.swaps,
                  replyOn |-> message.replyOn, assets |-> message.assets, before |-> b]

\* Between collects LAST_COLLECT_TS is when the last one completed; while one is executed
\* it is the current time, and a rollback restores when the last one completed.
StampRight ==
    \/ message = NoMessage /\ lastDone \in {None, lastTs}
    \/ \E b : Collecting(b) /\ lastTs = now /\ lastDone \in {None, b.lastTs}

\* A collect that goes on keeps its time and its snapshot; one that completes leaves its time.
LEMMA GoingOn ==
    ASSUME NEW b, NEW left, Collecting(b), lastTs = now, lastDone \in {None, b.lastTs},
           UNCHANGED <<lastTs, now>>, lastDone' = CompletedAt(message'),
           message' \in {Continued(left), [message EXCEPT !.step = "reply", !.swaps = left]}
    PROVE  StampRight'
<1>1. PICK step, swaps, replyOn, assets :
         message = [step |-> step, swaps |-> swaps, replyOn |-> replyOn,
                    assets |-> assets, before |-> b]
  BY DEF Collecting
<1>2. CASE message' = NoMessage
  BY <1>2 DEF CompletedAt, StampRight
<1>3. CASE message' # NoMessage
  <2>1. lastDone' = lastDone
    BY <1>3 DEF CompletedAt
  <2>2. Collecting(b)'
    <3>1. CASE message' = [message EXCEPT !.step = "reply", !.swaps = left]
      BY <1>1, <3>1 DEF Collecting
    <3>2. CASE message' = [message EXCEPT !.step = "swap", !.swaps = left]
      BY <1>1, <3>2 DEF Collecting
    <3> QED
      BY <1>3, <3>1, <3>2 DEF Continued
  <2> QED
    BY <2>1, <2>2 DEF StampRight
<1> QED
  BY <1>2, <1>3

\* LAST_COLLECT_TS keeps its meaning through every step of a collect and its rollback.
LEMMA StampKept == StampRight /\ [Next]_vars => StampRight'
<1> SUFFICES ASSUME StampRight, [Next]_vars PROVE StampRight'
  OBVIOUS
<1>idle. Idle => message = NoMessage /\ lastDone \in {None, lastTs}
  BY DEF StampRight, Collecting, Idle, NoMessage
<1>busy. ASSUME ~Idle
         PROVE  \E b : /\ Collecting(b) /\ lastTs = now /\ lastDone \in {None, b.lastTs}
                       /\ message.before = b
  BY <1>busy DEF StampRight, Collecting, Idle, NoMessage
<1>1. CASE UNCHANGED <<lastTs, now, message, lastDone>>
  BY <1>1 DEF StampRight, Collecting
<1>2. CASE Tick
  BY <1>2, <1>idle DEF Tick, StampRight, history
<1>3. ASSUME NEW assets, Collect(assets) PROVE StampRight'
  <2>0. PICK b : b = [purse |-> purse, lastTs |-> lastTs]
    OBVIOUS
  <2>1. message' = [step |-> "swap", swaps |-> Swaps(assets),
                    replyOn |-> ReplyOn(Swaps(assets)), assets |-> assets, before |-> b]
    BY <1>3, <2>0 DEF Collect
  <2>2. Collecting(b)'
    BY <2>1 DEF Collecting
  <2>3. lastTs' = now /\ now' = now /\ lastDone' = lastDone /\ Idle
    BY <1>3 DEF Collect, CollectTs, history
  <2> QED
    BY <2>0, <2>2, <2>3, <1>idle DEF StampRight
<1>4. CASE DexSwap
  <2>1. PICK left :
           message' \in {Continued(left), [message EXCEPT !.step = "reply", !.swaps = left]}
    BY <1>4 DEF DexSwap
  <2>2. ~Idle /\ UNCHANGED <<lastTs, now>> /\ lastDone' = CompletedAt(message')
    BY <1>4 DEF DexSwap, Idle
  <2> QED
    BY <2>1, <2>2, <1>busy, GoingOn
<1>5. CASE ReplyForwards
  <2>1. ~Idle /\ message' = Continued(message.swaps)
    BY <1>5 DEF ReplyForwards, Idle
  <2>2. UNCHANGED <<lastTs, now>> /\ lastDone' = CompletedAt(message')
    BY <1>5 DEF ReplyForwards
  <2> QED
    BY <2>1, <2>2, <1>busy, GoingOn
<1>6. CASE Rollback
  BY <1>6, <1>busy DEF Rollback, StampRight, history
<1> QED
  BY <1>1, <1>2, <1>3, <1>4, <1>5, <1>6 DEF Next, Execute, vars, UpdateConfig, SetPoolRoutes,
     OwnerChanges, Deposit, config, history

\* Collects that complete are a cooldown apart, however many were rolled back in between:
\* LAST_COLLECT_TS is written before the swaps and restored if one of them fails.
THEOREM CollectsApart == Spec => CooldownKept
<1> DEFINE Kept == Idle /\ ~Idle' /\ cooldown # None /\ lastDone # None
                     => now >= lastDone + cooldown
<1>1. Init => StampRight
  BY DEF Init, StampRight
<1>2. StampRight /\ [Next]_vars => [Kept]_vars
  <2> SUFFICES ASSUME StampRight, Next, Idle, ~Idle', cooldown # None, lastDone # None
               PROVE  now >= lastDone + cooldown
    OBVIOUS
  <2>1. PICK assets : Collect(assets)
    BY DEF Next, Execute, UpdateConfig, SetPoolRoutes, OwnerChanges, DexSwap, ReplyForwards,
       Rollback, Tick, Deposit, Idle
  <2>2. lastDone = lastTs
    BY DEF StampRight, Collecting, Idle, NoMessage
  <2> QED
    BY <2>1, <2>2 DEF Collect, CooldownOver
<1> HIDE DEF Kept
<1>3. Spec => [][Kept]_vars
  BY <1>1, <1>2, StampKept, PTL DEF Spec
<1> QED
  BY <1>3 DEF CooldownKept, Kept

----------------------------------------------------------------------------
(* Types *)

SwapMsgs == [denom: Denoms, amount: Nat]

\* The swaps that are left are typed, and a rollback restores a purse and a time of the past.
MessageTyped ==
    \/ message = NoMessage
    \/ /\ message.step \in {"swap", "reply"}
       /\ \A i \in DOMAIN message.swaps : message.swaps[i] \in SwapMsgs
       /\ message.before.purse \in [Denoms -> Nat]
       /\ message.before.lastTs \in 0 .. now

\* An asset is sold for as much as the maker has or was asked for.
LEMMA SwapsTyped ==
    ASSUME purse \in [Denoms -> Nat], NEW assets \in BoundedSeq(CoinsWithLimit, MaxAssets),
           NEW i \in DOMAIN Swaps(assets)
    PROVE  Swaps(assets)[i] \in SwapMsgs
<1>1. assets[i] \in CoinsWithLimit
  BY DEF Swaps, BoundedSeq, SeqOf
<1>2. SwapAmount(assets[i]) \in Nat
  BY <1>1, BoundsAssumption DEF SwapAmount, CoinsWithLimit
<1> QED BY <1>1, <1>2 DEF Swaps, SwapMsgs, CoinsWithLimit

\* The purse is not overdrawn by a swap.
LEMMA SwapPaysTyped ==
    ASSUME purse \in [Denoms -> Nat], NEW swap \in SwapMsgs, SwapPays(swap)
    PROVE  purse' \in [Denoms -> Nat]
<1>1. PICK out \in 1 .. MaxOut, fee \in Denoms \cup {None} :
         purse' = [d \in Denoms |->
                      purse[d] - (IF d = swap.denom THEN swap.amount ELSE 0)
                               + (IF d = astro THEN out ELSE 0)
                               + (IF d = fee THEN 1 ELSE 0)]
  BY DEF SwapPays
<1>2. swap.amount <= purse[swap.denom] /\ swap.amount \in Nat /\ swap.denom \in Denoms
  BY DEF SwapPays, SwapMsgs
<1>3. out \in Nat
  BY BoundsAssumption
<1> QED BY <1>1, <1>2, <1>3

\* Every step of a collect keeps the types, whatever is left of it.
LEMMA TypesKept == TypeOK /\ MessageTyped /\ [Next]_vars => (TypeOK /\ MessageTyped)'
<1> SUFFICES ASSUME TypeOK, MessageTyped, [Next]_vars PROVE (TypeOK /\ MessageTyped)'
  OBVIOUS
<1> USE DEF config, history
<1>1. CASE UNCHANGED vars
  BY <1>1 DEF vars, TypeOK, MessageTyped
<1>2. ASSUME NEW sender, NEW new \in NewRoutes, SetPoolRoutes(sender, new)
      PROVE  (TypeOK /\ MessageTyped)'
  <2>1. DOMAIN routes' \subseteq Denoms /\ \A d \in DOMAIN routes' : routes'[d] \in Denoms
    BY <1>2 DEF SetPoolRoutes, Overwritten, NewRoutes, TypeOK
  <2> QED BY <1>2, <2>1 DEF SetPoolRoutes, TypeOK, MessageTyped
<1>3. ASSUME NEW sender, NEW newAstro \in AstroDenoms \cup {None},
             NEW newCooldown \in Cooldowns \cup {None},
             UpdateConfig(sender, newAstro, newCooldown)
      PROVE  (TypeOK /\ MessageTyped)'
  BY <1>3 DEF UpdateConfig, TypeOK, MessageTyped
<1>4. ASSUME NEW assets \in BoundedSeq(CoinsWithLimit, MaxAssets), Collect(assets)
      PROVE  (TypeOK /\ MessageTyped)'
  <2>1. lastTs' \in 0 .. now
    BY <1>4 DEF Collect, CollectTs, TypeOK
  <2>2. MessageTyped'
    <3>1. /\ message'.step = "swap" /\ message'.swaps = Swaps(assets)
          /\ message'.before = [purse |-> purse, lastTs |-> lastTs]
          /\ now' = now
      BY <1>4 DEF Collect
    <3> QED BY <3>1, SwapsTyped DEF MessageTyped, TypeOK
  <2> QED BY <1>4, <2>1, <2>2 DEF Collect, TypeOK
<1>5. CASE OwnerChanges
  BY <1>5 DEF OwnerChanges, TypeOK, MessageTyped
<1>6. CASE DexSwap
  <2>1. PICK i \in DOMAIN message.swaps :
           LET left == [j \in DOMAIN message.swaps \ {i} |-> message.swaps[j]] IN
           /\ SwapPays(message.swaps[i])
           /\ message' = IF i = message.replyOn
                         THEN [message EXCEPT !.step = "reply", !.swaps = left]
                         ELSE Continued(left)
    BY <1>6 DEF DexSwap
  <2>2. message # NoMessage
    BY <1>6 DEF DexSwap, NoMessage
  <2>3. message.swaps[i] \in SwapMsgs
    BY <2>2 DEF MessageTyped
  <2>4. purse' \in [Denoms -> Nat]
    BY <2>1, <2>3, SwapPaysTyped DEF TypeOK
  <2>5. MessageTyped'
    <3>1. now' = now
      BY <1>6 DEF DexSwap
    <3>2. CASE message' = NoMessage
      BY <3>2 DEF MessageTyped
    <3>3. CASE message' # NoMessage
      <4>1. /\ message'.step \in {"swap", "reply"}
            /\ message'.before = message.before
            /\ message'.swaps = [j \in DOMAIN message.swaps \ {i} |-> message.swaps[j]]
        BY <2>1, <3>3 DEF Continued
      <4> QED BY <2>2, <3>1, <4>1 DEF MessageTyped
    <3> QED BY <3>2, <3>3
  <2> QED BY <1>6, <2>4, <2>5 DEF DexSwap, TypeOK
<1>7. CASE ReplyForwards
  <2>1. MessageTyped'
    <3>1. now' = now /\ message' = Continued(message.swaps) /\ message # NoMessage
      BY <1>7 DEF ReplyForwards, NoMessage
    <3>2. CASE message' = NoMessage
      BY <3>2 DEF MessageTyped
    <3>3. CASE message' # NoMessage
      <4>1. /\ message'.step \in {"swap", "reply"}
            /\ message'.before = message.before
            /\ message'.swaps = message.swaps
        BY <3>1, <3>3 DEF Continued
      <4> QED BY <3>1, <4>1 DEF MessageTyped
    <3> QED BY <3>2, <3>3
  <2>2. purse' \in [Denoms -> Nat]
    BY <1>7 DEF ReplyForwards, TypeOK
  <2> QED BY <1>7, <2>1, <2>2 DEF ReplyForwards, TypeOK
<1>8. CASE Rollback
  BY <1>8 DEF Rollback, Idle, NoMessage, TypeOK, MessageTyped
<1>9. CASE Tick
  BY <1>9 DEF Tick, TypeOK, MessageTyped
<1>10. CASE Deposit
  BY <1>10 DEF Deposit, TypeOK, MessageTyped
<1> QED
  BY <1>1, <1>2, <1>3, <1>4, <1>5, <1>6, <1>7, <1>8, <1>9, <1>10 DEF Next, Execute

\* The maker's state keeps its types: LAST_COLLECT_TS is never in the future and the stored
\* routes lead from coins to coins, whichever collects are rolled back.
THEOREM MakerTypeCorrect == Spec => []TypeOK
<1>1. Init => TypeOK /\ MessageTyped
  BY DEF Init, TypeOK, MessageTyped
<1> QED BY <1>1, TypesKept, PTL DEF Spec

----------------------------------------------------------------------------
(* All or nothing *)

\* The last of the swaps that are left is the one with the reply; in its reply none is left.
ReplyLast ==
    \/ message = NoMessage
    \/ /\ message.step = "swap"
       /\ message.replyOn \in DOMAIN message.swaps
       /\ \A i \in DOMAIN message.swaps : i \in Nat /\ i <= message.replyOn
    \/ message.step = "reply" /\ DOMAIN message.swaps = {}

\* Positions in a list have a last one.
LEMMA LastPosition ==
    ASSUME NEW n \in Nat, NEW S \in SUBSET (1 .. n), S # {}
    PROVE  Max(S) \in S /\ \A i \in S : i <= Max(S)
<1> DEFINE R == OpToRel(<, Nat)
           T == {k \in Nat : n - k \in S}
<1>1. IsWellFoundedOn(R, Nat)
  BY NatLessThanWellFounded
<1>2. ASSUME NEW k \in Nat, NEW m \in Nat, k < m PROVE <<k, m>> \in R
  BY <1>2 DEF OpToRel
<1>3. T \in SUBSET Nat /\ \A i \in S : n - i \in T
  OBVIOUS
<1>4. \A m \in T : n - m \in S
  OBVIOUS
<1> HIDE DEF R, T
<1>5. T # {}
  BY <1>3
<1>6. PICK m \in T : \A k \in T : ~ (<<k, m>> \in R)
  BY <1>1, <1>3, <1>5, WFMin
<1>7. ASSUME NEW i \in S PROVE i <= n - m
  <2>1. n - i \in T /\ n - i \in Nat /\ m \in Nat
    BY <1>3
  <2>2. ~ (n - i < m)
    BY <1>2, <1>6, <2>1
  <2> QED BY <2>1, <2>2
<1>8. n - m \in S
  BY <1>4
<1> QED BY <1>7, <1>8 DEF Max

\* A collect does not end before the swap with the reply.
LEMMA ReplyLastKept == ReplyLast /\ [Next]_vars => ReplyLast'
<1> SUFFICES ASSUME ReplyLast, [Next]_vars PROVE ReplyLast'
  OBVIOUS
<1>1. CASE UNCHANGED message
  BY <1>1 DEF ReplyLast
<1>2. ASSUME NEW assets \in BoundedSeq(CoinsWithLimit, MaxAssets), Collect(assets)
      PROVE  ReplyLast'
  <2>1. /\ message'.step = "swap" /\ message'.swaps = Swaps(assets)
        /\ message'.replyOn = Max(DOMAIN Swaps(assets))
        /\ DOMAIN Swaps(assets) # {}
    BY <1>2 DEF Collect, ReplyOn
  <2>2. PICK n \in Nat : DOMAIN assets = 1 .. n
    BY DEF BoundedSeq, SeqOf
  <2>3. DOMAIN Swaps(assets) \in SUBSET (1 .. n)
    BY <2>2 DEF Swaps
  <2> QED BY <2>1, <2>3, LastPosition DEF ReplyLast
<1>3. CASE DexSwap
  <2>1. PICK i \in DOMAIN message.swaps :
           LET left == [j \in DOMAIN message.swaps \ {i} |-> message.swaps[j]] IN
           /\ \A j \in DOMAIN left : i < j
           /\ message' = IF i = message.replyOn
                         THEN [message EXCEPT !.step = "reply", !.swaps = left]
                         ELSE Continued(left)
    BY <1>3 DEF DexSwap
  <2> DEFINE left == [j \in DOMAIN message.swaps \ {i} |-> message.swaps[j]]
  <2>2. /\ message.replyOn \in DOMAIN message.swaps
        /\ \A j \in DOMAIN message.swaps : j \in Nat /\ j <= message.replyOn
    BY <1>3 DEF DexSwap, ReplyLast, NoMessage
  <2>3. CASE i = message.replyOn
    <3>1. DOMAIN left = {}
      BY <2>1, <2>2, <2>3
    <3> QED BY <2>1, <2>3, <3>1 DEF ReplyLast
  <2>4. CASE i # message.replyOn
    <3>1. message.replyOn \in DOMAIN left
      BY <2>2, <2>4
    <3>2. message' = [message EXCEPT !.step = "swap", !.swaps = left]
      BY <2>1, <2>4, <3>1 DEF Continued
    <3> QED BY <2>2, <3>1, <3>2 DEF ReplyLast
  <2> QED BY <2>3, <2>4
<1>4. CASE ReplyForwards \/ Rollback
  <2>1. CASE ReplyForwards
    BY <2>1 DEF ReplyForwards, ReplyLast, Continued, NoMessage
  <2> QED BY <1>4, <2>1 DEF Rollback, ReplyLast
<1> QED
  BY <1>1, <1>2, <1>3, <1>4 DEF Next, Execute, vars, SetPoolRoutes, UpdateConfig, OwnerChanges,
     Tick, Deposit

\* A collect that neither goes on nor is rolled back has forwarded the ASTRO.
LEMMA CompletesInReply ==
    ASSUME ReplyLast, Next, Completes
    PROVE  ReplyForwards
<1>1. DexSwap \/ ReplyForwards
  BY DEF Next, Execute, Completes, Idle, UpdateConfig, SetPoolRoutes, OwnerChanges, Collect,
     Rollback, Tick, Deposit
<1>2. ~DexSwap
  <2> SUFFICES ASSUME DexSwap PROVE FALSE
    OBVIOUS
  <2>1. PICK i \in DOMAIN message.swaps :
           LET left == [j \in DOMAIN message.swaps \ {i} |-> message.swaps[j]] IN
           message' = IF i = message.replyOn
                      THEN [message EXCEPT !.step = "reply", !.swaps = left]
                      ELSE Continued(left)
    BY DEF DexSwap
  <2>2. message.step = "swap" /\ message.replyOn \in DOMAIN message.swaps
    BY DEF DexSwap, ReplyLast, NoMessage
  <2>3. message.step # "none" /\ message'.step = "none"
    BY DEF Completes, Idle
  <2>4. CASE i = message.replyOn
    BY <2>1, <2>3, <2>4
  <2>5. CASE i # message.replyOn
    BY <2>1, <2>2, <2>3, <2>5 DEF Continued
  <2> QED BY <2>4, <2>5
<1> QED BY <1>1, <1>2

\* A collect leaves no trace or passes on every ASTRO, for any assets and however many of its
\* coins the maker has none of: the reply that does so comes after the last swap.
THEOREM AllOrNothing == Spec => CollectAllOrNothing
<1> DEFINE Kept == Completes => purse'[astro] = 0
<1>1. Init => TypeOK /\ MessageTyped /\ ReplyLast
  BY DEF Init, TypeOK, MessageTyped, ReplyLast
<1>2. TypeOK /\ ReplyLast /\ [Next]_vars => [Kept]_vars
  <2> SUFFICES ASSUME TypeOK, ReplyLast, Next, Completes PROVE purse'[astro] = 0
    OBVIOUS
  <2>1. ReplyForwards
    BY CompletesInReply
  <2> QED BY <2>1, AstroAssumption DEF ReplyForwards, TypeOK
<1> HIDE DEF Kept
<1>3. Spec => [][Kept]_vars
  BY <1>1, <1>2, TypesKept, ReplyLastKept, PTL DEF Spec
<1> QED BY <1>3 DEF CollectAllOrNothing, Kept

----------------------------------------------------------------------------
(* Sold within what was asked for *)

\* Of every coin the maker has left what it had before the collect, less what the assets ask
\* for whose swaps were executed, and no swap that is left exceeds its asset.
SoldSoFar ==
    \/ message = NoMessage
    \/ /\ message.step \in {"swap", "reply"}
       /\ message.assets \in BoundedSeq(CoinsWithLimit, MaxAssets)
       /\ \A i \in DOMAIN message.swaps :
             /\ i \in DOMAIN message.assets
             /\ message.swaps[i].denom = message.assets[i].denom
             /\ message.assets[i].amount # None
                   => message.swaps[i].amount <= message.assets[i].amount
       /\ \A d \in Denoms \ {astro} :
             \/ AsksForAll(message.assets, d)
             \/ purse[d] + AskedAt(message.assets, DOMAIN message.assets \ DOMAIN message.swaps, d)
                  >= message.before.purse[d]

\* The assets of a collect, those that set a limit on a coin in particular.
LEMMA AssetsTyped ==
    ASSUME NEW assets \in BoundedSeq(CoinsWithLimit, MaxAssets)
    PROVE  /\ IsFiniteSet(DOMAIN assets)
           /\ \A i \in DOMAIN assets :
                 /\ assets[i] \in CoinsWithLimit
                 /\ ~ AsksForAll(assets, assets[i].denom) => assets[i].amount \in Nat /\ assets[i].amount # None
<1>1. PICK n \in Nat : assets \in [1 .. n -> CoinsWithLimit]
  BY DEF BoundedSeq, SeqOf
<1>2. IsFiniteSet(DOMAIN assets)
  BY <1>1, FS_Interval
<1>3. ASSUME NEW i \in DOMAIN assets, ~ AsksForAll(assets, assets[i].denom)
      PROVE  assets[i].amount \in Nat /\ assets[i].amount # None
  <2>1. assets[i] \in CoinsWithLimit /\ assets[i] \in Range(assets)
    BY <1>1 DEF Range
  <2>2. assets[i] = [denom |-> assets[i].denom, amount |-> assets[i].amount]
    BY <2>1 DEF CoinsWithLimit
  <2>3. assets[i].amount # None
    BY <1>3, <2>1, <2>2 DEF AsksForAll
  <2> QED
    BY <2>1, <2>3, BoundsAssumption DEF CoinsWithLimit
<1> QED
  BY <1>1, <1>2, <1>3

\* What assets ask for is a natural number, and one asset more asks for its amount more.
LEMMA AskedTyped ==
    ASSUME NEW assets \in BoundedSeq(CoinsWithLimit, MaxAssets),
           NEW S \in SUBSET (DOMAIN assets), NEW d, ~ AsksForAll(assets, d)
    PROVE  /\ AskedAt(assets, S, d) \in Nat
           /\ \A i \in DOMAIN assets \ S :
                 AskedAt(assets, S \cup {i}, d) =
                    AskedAt(assets, S, d) + (IF assets[i].denom = d THEN assets[i].amount ELSE 0)
<1> DEFINE amounts == [i \in DOMAIN assets |-> assets[i].amount]
           Of(T) == {i \in T : assets[i].denom = d}
<1>1. \A T : AskedAt(assets, T, d) = SumFunctionOnSet(amounts, Of(T))
  BY DEF AskedAt
<1>2. \A T \in SUBSET (DOMAIN assets) : \A i \in Of(T) : amounts[i] \in Nat
  BY AssetsTyped
<1>3. \A T \in SUBSET (DOMAIN assets) : IsFiniteSet(Of(T))
  BY AssetsTyped, FS_Subset
<1>4. AskedAt(assets, S, d) \in Nat
  <2>1. IsFiniteSet(Of(S)) /\ \A i \in Of(S) : amounts[i] \in Nat
    BY <1>2, <1>3
  <2> HIDE DEF amounts, Of
  <2> QED
    BY <1>1, <2>1, SumNat
<1>5. ASSUME NEW i \in DOMAIN assets \ S
      PROVE  AskedAt(assets, S \cup {i}, d) =
                AskedAt(assets, S, d) + (IF assets[i].denom = d THEN assets[i].amount ELSE 0)
  <2>1. CASE assets[i].denom = d
    <3>1. Of(S \cup {i}) = Of(S) \cup {i} /\ i \notin Of(S)
      BY <2>1
    <3>2. \A y \in Of(S) \cup {i} : amounts[y] \in Int
      <4>1. S \cup {i} \in SUBSET (DOMAIN assets)
        OBVIOUS
      <4>2. \A y \in Of(S \cup {i}) : amounts[y] \in Nat
        BY <1>2, <4>1
      <4> QED
        BY <3>1, <4>2
    <3>3. SumFunctionOnSet(amounts, Of(S) \cup {i}) = amounts[i] + SumFunctionOnSet(amounts, Of(S))
      <4>1. IsFiniteSet(Of(S))
        BY <1>3
      <4> HIDE DEF amounts, Of
      <4> QED
        BY <3>1, <3>2, <4>1, SumAdd
    <3>4. amounts[i] \in Nat /\ amounts[i] = assets[i].amount
      BY <2>1, AssetsTyped
    <3> QED
      BY <1>1, <1>4, <2>1, <3>1, <3>3, <3>4
  <2>2. CASE assets[i].denom # d
    <3>1. Of(S \cup {i}) = Of(S)
      BY <2>2
    <3>2. AskedAt(assets, S \cup {i}, d) = AskedAt(assets, S, d)
      <4> HIDE DEF Of
      <4> QED
        BY <1>1, <3>1
    <3> QED
      BY <1>4, <2>2, <3>2
  <2> QED
    BY <2>1, <2>2
<1> QED
  BY <1>4, <1>5

\* What a collect starts with and what every step of it leaves keeps the account of what is
\* sold.
LEMMA SoldSoFarKept ==
    ASSUME TypeOK, MessageTyped, SoldSoFar, [Next]_vars
    PROVE  SoldSoFar'
<1> USE DEF config, history
<1>1. CASE UNCHANGED <<message, purse, astro>>
  BY <1>1 DEF SoldSoFar
<1>2. CASE Idle /\ message' = message
  BY <1>2 DEF SoldSoFar, Idle, NoMessage
<1>3. ASSUME NEW assets \in BoundedSeq(CoinsWithLimit, MaxAssets), Collect(assets)
      PROVE  SoldSoFar'
  <2> DEFINE swaps == Swaps(assets)
             skipped == DOMAIN assets \ DOMAIN swaps
  <2>1. /\ message'.step = "swap" /\ message'.swaps = swaps /\ message'.assets = assets
        /\ message'.before.purse = purse /\ purse' = purse /\ astro' = astro
    BY <1>3 DEF Collect
  <2>2. ASSUME NEW i \in DOMAIN swaps
        PROVE  /\ i \in DOMAIN assets
               /\ swaps[i].denom = assets[i].denom
               /\ assets[i].amount # None => swaps[i].amount <= assets[i].amount
    <3>1. i \in DOMAIN assets /\ swaps[i] = [denom |-> assets[i].denom, amount |-> SwapAmount(assets[i])]
      BY DEF Swaps
    <3>2. assets[i].denom \in Denoms /\ purse[assets[i].denom] \in Nat
      BY <3>1, AssetsTyped DEF CoinsWithLimit, TypeOK
    <3>3. assets[i].amount # None => assets[i].amount \in Nat
      <4>1. assets[i] \in CoinsWithLimit /\ MaxAmount \in Nat
        BY <3>1, AssetsTyped, BoundsAssumption
      <4> QED
        BY <4>1 DEF CoinsWithLimit
    <3> QED
      BY <3>1, <3>2, <3>3 DEF SwapAmount
  <2>3. ASSUME NEW d \in Denoms \ {astro}, ~ AsksForAll(assets, d)
        PROVE  purse[d] + AskedAt(assets, skipped, d) >= purse[d]
    <3>1. AskedAt(assets, skipped, d) \in Nat /\ purse[d] \in Nat
      BY <2>3, AskedTyped DEF TypeOK
    <3> QED
      BY <3>1
  <2> HIDE DEF swaps
  <2> QED
    BY <2>1, <2>2, <2>3 DEF SoldSoFar
<1>4. CASE DexSwap
  <2>1. PICK i \in DOMAIN message.swaps :
           LET left == [j \in DOMAIN message.swaps \ {i} |-> message.swaps[j]] IN
           /\ SwapPays(message.swaps[i])
           /\ message' = IF i = message.replyOn
                         THEN [message EXCEPT !.step = "reply", !.swaps = left]
                         ELSE Continued(left)
    BY <1>4 DEF DexSwap
  <2>2. message # NoMessage /\ astro' = astro
    BY <1>4 DEF DexSwap, NoMessage
  <2> DEFINE assets == message.assets
             before == DOMAIN assets \ DOMAIN message.swaps
             left == [j \in DOMAIN message.swaps \ {i} |-> message.swaps[j]]
             swap == message.swaps[i]
  <2>3. CASE message' = NoMessage
    BY <2>3 DEF SoldSoFar
  <2>4. CASE message' # NoMessage
    <3>1. /\ message'.step \in {"swap", "reply"} /\ message'.swaps = left
          /\ message'.assets = assets /\ message'.before = message.before
      BY <2>1, <2>2, <2>4 DEF Continued, SoldSoFar
    <3>2. /\ assets \in BoundedSeq(CoinsWithLimit, MaxAssets)
          /\ i \in DOMAIN assets /\ swap.denom = assets[i].denom
          /\ assets[i].amount # None => swap.amount <= assets[i].amount
          /\ swap \in SwapMsgs
      BY <2>2 DEF SoldSoFar, MessageTyped
    <3>3. DOMAIN assets \ DOMAIN left = before \cup {i} /\ i \in DOMAIN assets \ before
      BY <3>2
    <3>4. ASSUME NEW d \in Denoms \ {astro}, ~ AsksForAll(assets, d)
          PROVE  purse'[d] + AskedAt(assets, before \cup {i}, d) >= message.before.purse[d]
      <4>1. purse[d] + AskedAt(assets, before, d) >= message.before.purse[d]
        BY <2>2, <3>4 DEF SoldSoFar
      <4>2. /\ AskedAt(assets, before, d) \in Nat
            /\ AskedAt(assets, before \cup {i}, d) =
                 AskedAt(assets, before, d) + (IF assets[i].denom = d THEN assets[i].amount ELSE 0)
        <5>1. PICK a, S : a = assets /\ S = before
          OBVIOUS
        <5>2. /\ a \in BoundedSeq(CoinsWithLimit, MaxAssets) /\ S \in SUBSET (DOMAIN a)
              /\ i \in DOMAIN a \ S /\ ~ AsksForAll(a, d)
          BY <3>2, <3>3, <3>4, <5>1
        <5>3. /\ AskedAt(a, S, d) \in Nat
              /\ AskedAt(a, S \cup {i}, d) =
                   AskedAt(a, S, d) + (IF a[i].denom = d THEN a[i].amount ELSE 0)
          BY <5>2, AskedTyped
        <5> QED
          BY <5>1, <5>3
      <4>3. purse'[d] >= purse[d] - (IF d = swap.denom THEN swap.amount ELSE 0) /\ purse'[d] \in Int
        <5>1. PICK out \in 1 .. MaxOut, fee \in Denoms \cup {None} :
                 purse' = [c \in Denoms |->
                              purse[c] - (IF c = swap.denom THEN swap.amount ELSE 0)
                                       + (IF c = astro THEN out ELSE 0)
                                       + (IF c = fee THEN 1 ELSE 0)]
          BY <2>1 DEF SwapPays
        <5>2. purse[d] \in Nat /\ swap.amount \in Nat
          BY <3>2 DEF TypeOK, SwapMsgs
        <5> HIDE DEF swap
        <5> QED
          BY <5>1, <5>2
      <4>4. purse[d] \in Nat /\ swap.amount \in Nat /\ message.before.purse[d] \in Nat
        BY <2>2, <3>2 DEF TypeOK, SwapMsgs, MessageTyped
      <4>5. assets[i].denom = d => assets[i].amount \in Nat /\ assets[i].amount # None
        BY <3>2, <3>4, AssetsTyped
      <4> HIDE DEF swap, assets, before
      <4> QED
        BY <3>2, <4>1, <4>2, <4>3, <4>4, <4>5
    <3>5. ASSUME NEW j \in DOMAIN left
          PROVE  /\ j \in DOMAIN assets
                 /\ left[j].denom = assets[j].denom
                 /\ assets[j].amount # None => left[j].amount <= assets[j].amount
      BY <2>2 DEF SoldSoFar
    <3> HIDE DEF left, before, assets
    <3> QED
      BY <2>2, <3>1, <3>2, <3>3, <3>4, <3>5 DEF SoldSoFar
  <2> QED
    BY <2>3, <2>4
<1>5. CASE ReplyForwards
  <2>1. /\ message # NoMessage /\ astro' = astro /\ message' = Continued(message.swaps)
        /\ purse' = [purse EXCEPT ![astro] = 0]
    BY <1>5 DEF ReplyForwards, NoMessage
  <2>2. CASE message' = NoMessage
    BY <2>2 DEF SoldSoFar
  <2>3. CASE message' # NoMessage
    <3>1. /\ message'.step \in {"swap", "reply"} /\ message'.swaps = message.swaps
          /\ message'.assets = message.assets /\ message'.before = message.before
      BY <2>1, <2>3 DEF Continued, SoldSoFar
    <3>2. \A d \in Denoms \ {astro} : purse'[d] = purse[d]
      BY <2>1 DEF TypeOK
    <3> QED
      BY <2>1, <3>1, <3>2 DEF SoldSoFar
  <2> QED
    BY <2>2, <2>3
<1>6. CASE Rollback
  BY <1>6 DEF Rollback, SoldSoFar
<1> QED
  BY <1>1, <1>2, <1>3, <1>4, <1>5, <1>6 DEF Next, Execute, vars, SetPoolRoutes, UpdateConfig,
     OwnerChanges, Tick, Deposit

\* No coin is sold beyond what a collect asked for in all its assets together, for any assets,
\* routes and fees paid by the pools in the meantime.
THEOREM SoldAsAsked == Spec => SoldWithinAsked
<1> DEFINE Kept == Completes
                     => \A d \in Denoms \ {astro} :
                           \/ AsksForAll(message.assets, d)
                           \/ purse'[d] + AmountAsked(message.assets, d) >= message.before.purse[d]
<1>1. Init => TypeOK /\ MessageTyped /\ ReplyLast /\ SoldSoFar
  BY DEF Init, TypeOK, MessageTyped, ReplyLast, SoldSoFar
<1>2. TypeOK /\ ReplyLast /\ SoldSoFar /\ [Next]_vars => [Kept]_vars
  <2> SUFFICES ASSUME TypeOK, ReplyLast, SoldSoFar, Next, Completes,
                      NEW d \in Denoms \ {astro}, ~ AsksForAll(message.assets, d)
               PROVE  purse'[d] + AmountAsked(message.assets, d) >= message.before.purse[d]
    OBVIOUS
  <2>1. ReplyForwards
    BY CompletesInReply
  <2>2. message.step = "reply" /\ message # NoMessage /\ purse'[d] = purse[d]
    BY <2>1 DEF ReplyForwards, NoMessage, TypeOK
  <2>3. DOMAIN message.assets \ DOMAIN message.swaps = DOMAIN message.assets
    BY <2>2 DEF ReplyLast
  <2> QED
    BY <2>2, <2>3 DEF SoldSoFar, AmountAsked
<1> HIDE DEF Kept
<1>3. Spec => [][Kept]_vars
  BY <1>1, <1>2, TypesKept, ReplyLastKept, SoldSoFarKept, PTL DEF Spec
<1> QED
  BY <1>3 DEF SoldWithinAsked, Kept

----------------------------------------------------------------------------
(* Coins for every swap *)

\* What Collect gives a swap and what the swaps before it leave of its coin.
LEMMA SwapsCoveredKept ==
    ASSUME TypeOK, MessageTyped, ReplyLast, SoldSoFar, SwapsCovered, [Next]_vars
    PROVE  SwapsCovered'
<1> USE DEF config, history
<1>1. CASE UNCHANGED <<message, purse>>
  BY <1>1 DEF SwapsCovered, Idle
<1>2. CASE Idle /\ message' = message
  BY <1>2 DEF SwapsCovered, Idle
<1>3. ASSUME NEW assets \in BoundedSeq(CoinsWithLimit, MaxAssets), Collect(assets)
      PROVE  SwapsCovered'
  <2>1. message'.swaps = Swaps(assets) /\ purse' = purse
    BY <1>3 DEF Collect
  <2>2. ASSUME NEW i \in DOMAIN Swaps(assets)
        PROVE  Swaps(assets)[i].amount <= purse[Swaps(assets)[i].denom]
    <3>1. i \in DOMAIN assets /\ Swaps(assets)[i] = [denom |-> assets[i].denom, amount |-> SwapAmount(assets[i])]
      BY DEF Swaps
    <3>2. assets[i] \in CoinsWithLimit /\ purse[assets[i].denom] \in Nat
      BY <3>1, AssetsTyped DEF CoinsWithLimit, TypeOK
    <3>3. assets[i].amount # None => assets[i].amount \in Nat
      BY <3>2, BoundsAssumption DEF CoinsWithLimit
    <3> QED
      BY <3>1, <3>2, <3>3 DEF SwapAmount
  <2> QED
    BY <2>1, <2>2 DEF SwapsCovered
<1>4. CASE DexSwap
  <2>1. PICK i \in DOMAIN message.swaps :
           LET left == [j \in DOMAIN message.swaps \ {i} |-> message.swaps[j]] IN
           /\ SwapPays(message.swaps[i])
           /\ message' = IF i = message.replyOn
                         THEN [message EXCEPT !.step = "reply", !.swaps = left]
                         ELSE Continued(left)
    BY <1>4 DEF DexSwap
  <2> DEFINE left == [j \in DOMAIN message.swaps \ {i} |-> message.swaps[j]]
             swap == message.swaps[i]
  <2>2. message # NoMessage /\ ~Idle
    BY <1>4 DEF DexSwap, NoMessage, Idle
  <2>3. CASE message' = NoMessage
    BY <2>3 DEF SwapsCovered, Idle, NoMessage
  <2>4. CASE message' # NoMessage
    <3>1. message'.swaps = left /\ message'.assets = message.assets
      BY <2>1, <2>2, <2>4 DEF Continued, SoldSoFar
    <3>2. i \in DOMAIN message.assets /\ swap.denom = message.assets[i].denom /\ swap \in SwapMsgs
      BY <2>2 DEF SoldSoFar, MessageTyped
    <3>3. \A d \in Denoms : d # swap.denom => purse'[d] >= purse[d]
      <4>1. PICK out \in 1 .. MaxOut, fee \in Denoms \cup {None} :
               purse' = [c \in Denoms |->
                            purse[c] - (IF c = swap.denom THEN swap.amount ELSE 0)
                                     + (IF c = astro THEN out ELSE 0)
                                     + (IF c = fee THEN 1 ELSE 0)]
        BY <2>1 DEF SwapPays
      <4>2. out \in Nat /\ \A d \in Denoms : purse[d] \in Nat
        BY BoundsAssumption DEF TypeOK
      <4> HIDE DEF swap
      <4> QED
        BY <4>1, <4>2
    <3>4. \A d \in Denoms : purse[d] \in Nat /\ purse'[d] \in Int
      <4>1. PICK out \in 1 .. MaxOut, fee \in Denoms \cup {None} :
               purse' = [c \in Denoms |->
                            purse[c] - (IF c = swap.denom THEN swap.amount ELSE 0)
                                     + (IF c = astro THEN out ELSE 0)
                                     + (IF c = fee THEN 1 ELSE 0)]
        BY <2>1 DEF SwapPays
      <4>2. out \in Nat /\ swap.amount \in Nat /\ \A d \in Denoms : purse[d] \in Nat
        BY <3>2, BoundsAssumption DEF TypeOK, SwapMsgs
      <4> HIDE DEF swap
      <4> QED
        BY <4>1, <4>2
    <3>5. ASSUME NEW k \in DOMAIN left
          PROVE  \/ left[k].amount <= purse'[left[k].denom]
                 \/ \E j \in DOMAIN message.assets \ {k} :
                       message.assets[j].denom = message.assets[k].denom
      <4>1. k \in DOMAIN message.swaps /\ k # i /\ left[k] = message.swaps[k]
        OBVIOUS
      <4>2. message.swaps[k] \in SwapMsgs /\ message.swaps[k].denom = message.assets[k].denom
        BY <2>2, <4>1 DEF SoldSoFar, MessageTyped
      <4>3. CASE message.swaps[k].denom = swap.denom
        BY <3>2, <4>1, <4>2, <4>3
      <4>4. CASE message.swaps[k].denom # swap.denom
        <5>1. \/ message.swaps[k].amount <= purse[message.swaps[k].denom]
              \/ \E j \in DOMAIN message.assets \ {k} :
                    message.assets[j].denom = message.assets[k].denom
          BY <2>2, <4>1 DEF SwapsCovered
        <5>2. /\ purse'[message.swaps[k].denom] >= purse[message.swaps[k].denom]
              /\ purse[message.swaps[k].denom] \in Nat /\ purse'[message.swaps[k].denom] \in Int
              /\ message.swaps[k].amount \in Nat
          BY <3>3, <3>4, <4>2, <4>4 DEF SwapMsgs
        <5> HIDE DEF left, swap
        <5> QED
          BY <4>1, <5>1, <5>2
      <4> QED
        BY <4>3, <4>4
    <3> HIDE DEF left, swap
    <3> QED
      BY <3>1, <3>5 DEF SwapsCovered
  <2> QED
    BY <2>3, <2>4
<1>5. CASE ReplyForwards
  <2>1. message.step = "reply" /\ message' = Continued(message.swaps) /\ message # NoMessage
    BY <1>5 DEF ReplyForwards, NoMessage
  <2>2. DOMAIN message.swaps = {}
    BY <2>1 DEF ReplyLast
  <2> QED
    BY <2>1, <2>2 DEF Continued, SwapsCovered, Idle, NoMessage
<1>6. CASE Rollback
  BY <1>6 DEF Rollback, SwapsCovered, Idle, NoMessage
<1> QED
  BY <1>1, <1>2, <1>3, <1>4, <1>5, <1>6 DEF Next, Execute, vars, SetPoolRoutes, UpdateConfig,
     OwnerChanges, Tick, Deposit

\* The maker has the coins of every swap it sends, for any limits, routes and fees of the pools,
\* unless the collect lists the swap's coin twice.
THEOREM CoinsForEverySwap == Spec => []SwapsCovered
<1>1. Init => TypeOK /\ MessageTyped /\ ReplyLast /\ SoldSoFar /\ SwapsCovered
  BY DEF Init, TypeOK, MessageTyped, ReplyLast, SoldSoFar, SwapsCovered, Idle, NoMessage
<1> QED
  BY <1>1, TypesKept, ReplyLastKept, SoldSoFarKept, SwapsCoveredKept, PTL DEF Spec

==============================================================================
