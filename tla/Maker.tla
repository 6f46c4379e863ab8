-------------------------------- MODULE Maker --------------------------------
(***************************************************************************)
(* The maker: sells the coins it was paid as fees for ASTRO, along routes  *)
(* that its owner sets, and passes the ASTRO on.  A collect is one message *)
(* that sends a swap per coin to the DEX; the last of them has a reply,    *)
(* which forwards the ASTRO.  While the DEX swaps, pools on the route may  *)
(* pay the maker new fees.  An error rolls the whole collect back.         *)
(***************************************************************************)
EXTENDS Integers, Sequences, SequencesExt

CONSTANTS
    People,       \* accounts that send messages
    Denoms,
    AstroDenoms,  \* values of config.astro_denom
    Pools,        \* the DEX's pools, each the set of coins it holds
    Cooldowns,    \* cooldowns within COOLDOWN_LIMITS
    MaxTime,      \* bound on the clock
    MaxAmount,    \* bound on the coins sent to the maker
    MaxAssets,    \* bound on the coins of a collect
    MaxRoutes,    \* bound on the routes of one SetPoolRoutes
    MaxOut,       \* bound on the proceeds of a swap
    None          \* an absent value

ASSUME AstroAssumption == AstroDenoms \subseteq Denoms
ASSUME CooldownsAssumption == Cooldowns \subseteq Nat
ASSUME BoundsAssumption == {MaxTime, MaxAmount, MaxAssets, MaxRoutes, MaxOut} \subseteq Nat

VARIABLES
    owner,     \* config.owner
    astro,     \* config.astro_denom
    cooldown,  \* config.collect_cooldown
    routes,    \* ROUTES: coin to the next coin on its way to ASTRO
    lastTs,    \* LAST_COLLECT_TS
    purse,     \* coins in the maker's account
    now,       \* block time
    message,   \* what is left to do of a collect
    lastDone,  \* history: when the last collect completed, None before the first
    wanted     \* history: the cooldown that was asked for last

vars == <<owner, astro, cooldown, routes, lastTs, purse, now, message, lastDone, wanted>>

config == <<owner, astro, cooldown>>
history == <<lastDone, wanted>>

CoinsWithLimit == [denom: Denoms, amount: (0 .. MaxAmount) \cup {None}]
NewRoutes == UNION {[D -> Denoms] : D \in {D \in SUBSET Denoms : Cardinality(D) \in 1 .. MaxRoutes}}

\* No collect is being executed.
NoMessage == [step |-> "none"]
Idle == message.step = "none"

\* instantiate stores no cooldown, whatever its message asks for.
Init ==
    /\ owner \in People
    /\ astro \in AstroDenoms
    /\ cooldown = None
    /\ routes = <<>>
    /\ lastTs = 0
    /\ purse = [d \in Denoms |-> 0]
    /\ now = 0
    /\ message = NoMessage
    /\ lastDone = None
    /\ wanted \in Cooldowns \cup {None}

----------------------------------------------------------------------------
(* Routes *)

\* One step of build_routes; a coin without a route stays where it is.
Follow(next, goal, d) == IF d = goal \/ d \notin DOMAIN next THEN d ELSE next[d]

\* The coins build_routes passes on MAX_SWAPS_DEPTH = 5 steps from d.
Way(next, goal, d) ==
    LET F(x) == Follow(next, goal, x)
    IN  {F(d), F(F(d)), F(F(F(d))), F(F(F(F(d)))), F(F(F(F(F(d)))))}

Buildable(next, goal, d) == goal \in Way(next, goal, d)

\* The routes with those of the message in place of the stored ones.
Overwritten(new) ==
    [d \in DOMAIN routes \cup DOMAIN new |-> IF d \in DOMAIN new THEN new[d] ELSE routes[d]]

\* Check all updated routes end up in ASTRO.
RoutesAccepted_StaleCache(new) ==
    LET cache == [d \in DOMAIN routes \cup DOMAIN new |->
                     IF d \in DOMAIN routes THEN routes[d] ELSE new[d]]
    IN  \A d \in DOMAIN new : Buildable(cache, astro, d)
RoutesAccepted(new) == \A d \in DOMAIN new : Buildable(Overwritten(new), astro, d)

SetPoolRoutes(sender, new) ==
    /\ Idle
    /\ sender = owner
    /\ astro \notin DOMAIN new
    /\ \A d \in DOMAIN new : \E pool \in Pools : {d, new[d]} \subseteq pool
    /\ RoutesAccepted(new)
    /\ routes' = Overwritten(new)
    /\ UNCHANGED <<config, lastTs, purse, now, message, history>>

UpdateConfig(sender, newAstro, newCooldown) ==
    /\ Idle
    /\ sender = owner
    /\ astro' = IF newAstro = None THEN astro ELSE newAstro
    /\ cooldown' = IF newCooldown = None THEN cooldown ELSE newCooldown
    /\ wanted' = IF newCooldown = None THEN wanted ELSE newCooldown
    /\ UNCHANGED <<owner, routes, lastTs, purse, now, message, lastDone>>

\* Ownership proposals, claimed.
OwnerChanges ==
    /\ Idle
    /\ owner' \in People
    /\ UNCHANGED <<astro, cooldown, routes, lastTs, purse, now, message, history>>

----------------------------------------------------------------------------
(* Collect *)

CooldownOver == cooldown # None => now >= lastTs + cooldown

\* What LAST_COLLECT_TS becomes.
CollectTs_NotUpdated == lastTs
CollectTs_Next == IF cooldown = None THEN now ELSE now + cooldown
CollectTs == now

\* The whole balance, or the amount asked for if there is that much.
SwapAmount_Balance(asset) == purse[asset.denom]
SwapAmount_Unlimited(asset) ==
    IF asset.amount # None THEN asset.amount ELSE purse[asset.denom]
SwapAmount(asset) ==
    IF asset.amount # None /\ asset.amount < purse[asset.denom] THEN asset.amount
    ELSE purse[asset.denom]

\* One swap per asset, by its position; coins the maker has none of are skipped silently.
Swaps(assets) ==
    [i \in {i \in DOMAIN assets : SwapAmount(assets[i]) > 0} |->
        [denom |-> assets[i].denom, amount |-> SwapAmount(assets[i])]]

\* The swap that has the reply.
ReplyOn_First(swaps) == Min(DOMAIN swaps)
ReplyOn(swaps) == Max(DOMAIN swaps)

Collect(assets) ==
    LET swaps == Swaps(assets) IN
    /\ Idle
    /\ CooldownOver
    /\ DOMAIN swaps # {}
    /\ \A i \in DOMAIN swaps : Buildable(routes, astro, swaps[i].denom)
    /\ lastTs' = CollectTs
    /\ message' = [step |-> "swap", swaps |-> swaps, replyOn |-> ReplyOn(swaps),
                   assets |-> assets, before |-> [purse |-> purse, lastTs |-> lastTs]]
    /\ UNCHANGED <<config, routes, purse, now, history>>

\* What the message goes on with after a swap and its reply, given the swaps that are left.
Continued(left) ==
    IF DOMAIN left = {} THEN NoMessage
    ELSE [message EXCEPT !.step = "swap", !.swaps = left]

CompletedAt(m) == IF m = NoMessage THEN now ELSE lastDone

\* The DEX takes the coins and pays at least the minimum, which is positive; a pool on
\* the route may pay the maker a fee.  Routes without steps are refused.
SwapPays(swap) ==
    /\ swap.denom # astro
    /\ swap.amount <= purse[swap.denom]
    /\ \E out \in 1 .. MaxOut, fee \in Denoms \cup {None} :
          /\ fee # None => purse[fee] < MaxAmount /\ fee \in Way(routes, astro, swap.denom)
          /\ purse' = [d \in Denoms |->
                          purse[d] - (IF d = swap.denom THEN swap.amount ELSE 0)
                                   + (IF d = astro THEN out ELSE 0)
                                   + (IF d = fee THEN 1 ELSE 0)]

\* The swaps are executed in order.
DexSwap ==
    /\ message.step = "swap"
    /\ \E i \in DOMAIN message.swaps :
          LET left == [j \in DOMAIN message.swaps \ {i} |-> message.swaps[j]] IN
          /\ \A j \in DOMAIN left : i < j
          /\ SwapPays(message.swaps[i])
          /\ message' = IF i = message.replyOn
                        THEN [message EXCEPT !.step = "reply", !.swaps = left]
                        ELSE Continued(left)
    /\ lastDone' = CompletedAt(message')
    /\ UNCHANGED <<config, routes, lastTs, now, wanted>>

\* POST_COLLECT_REPLY_ID: all ASTRO goes to the satellite.
ReplyForwards ==
    /\ message.step = "reply"
    /\ purse[astro] > 0
    /\ purse' = [purse EXCEPT ![astro] = 0]
    /\ message' = Continued(message.swaps)
    /\ lastDone' = CompletedAt(message')
    /\ UNCHANGED <<config, routes, lastTs, now, wanted>>

\* A swap misses its minimum, coins are short, the satellite refuses: no trace is left.
Rollback ==
    /\ ~Idle
    /\ purse' = message.before.purse
    /\ lastTs' = message.before.lastTs
    /\ message' = NoMessage
    /\ UNCHANGED <<config, routes, now, history>>

----------------------------------------------------------------------------
(* The chain *)

Tick ==
    /\ Idle
    /\ now < MaxTime
    /\ now' = now + 1
    /\ UNCHANGED <<config, routes, lastTs, purse, message, history>>

\* Pools, or anyone, pay the maker.
Deposit ==
    /\ Idle
    /\ \E d \in Denoms :
          /\ purse[d] < MaxAmount
          /\ purse' = [purse EXCEPT ![d] = @ + 1]
    /\ UNCHANGED <<config, routes, lastTs, now, message, history>>

----------------------------------------------------------------------------

Execute(sender) ==
    \/ \E assets \in BoundedSeq(CoinsWithLimit, MaxAssets) : Collect(assets)
    \/ \E newAstro \in AstroDenoms \cup {None}, newCooldown \in Cooldowns \cup {None} :
          UpdateConfig(sender, newAstro, newCooldown)
    \/ \E new \in NewRoutes : SetPoolRoutes(sender, new)

Next ==
    \/ \E sender \in People : Execute(sender)
    \/ OwnerChanges
    \/ DexSwap
    \/ ReplyForwards
    \/ Rollback
    \/ Tick
    \/ Deposit

Spec == Init /\ [][Next]_vars

----------------------------------------------------------------------------
(* Properties *)

\* Every variable keeps its type; in particular LAST_COLLECT_TS is never in the future, whether
\* it was written by a collect or restored by a rollback.
TypeOK ==
    /\ owner \in People
    /\ astro \in AstroDenoms
    /\ cooldown \in Cooldowns \cup {None}
    /\ DOMAIN routes \subseteq Denoms
    /\ \A d \in DOMAIN routes : routes[d] \in Denoms
    /\ lastTs \in 0 .. now
    /\ purse \in [Denoms -> Nat]
    /\ now \in Nat

\* A set of coins no route leads out of.
Closed(S) == \A d \in S : Follow(routes, astro, d) \in S

\* The routes lead from d to ASTRO, in however many steps.
ReachesAstro(d) == \A S \in SUBSET Denoms : d \in S /\ Closed(S) => astro \in S

\* The coins that SetPoolRoutes gives a first or another next coin.
Rerouted == {d \in DOMAIN routes' : d \notin DOMAIN routes \/ routes'[d] # routes[d]}

\* Every route that is stored leads to ASTRO, over the steps of other coins' routes too, and
\* cuts no other coin off from ASTRO, although only the coins of the message are checked:
\* whichever coins' ways pass through them, no loop and no dead end can arise.
RoutesNeverCutOff ==
    [][astro' = astro => \A d \in Denoms : ReachesAstro(d) \/ d \in Rerouted => ReachesAstro(d)']_vars

\* Whatever limits a collect gives, the maker still has the coins of every swap that is left,
\* after the swaps before it and the fees that pools paid in the meantime: for want of coins a
\* collect fails only over a coin that it lists twice.
SwapsCovered ==
    \/ Idle
    \/ \A i \in DOMAIN message.swaps :
          \/ message.swaps[i].amount <= purse[message.swaps[i].denom]
          \/ \E j \in DOMAIN message.assets \ {i} :
                message.assets[j].denom = message.assets[i].denom

AsksForAll(assets, d) == [denom |-> d, amount |-> None] \in Range(assets)

\* How much of d the assets of a collect ask for, those at some positions and all of them.
AskedAt(assets, positions, d) ==
    SumFunctionOnSet([i \in DOMAIN assets |-> assets[i].amount],
                     {i \in positions : assets[i].denom = d})
AmountAsked(assets, d) == AskedAt(assets, DOMAIN assets, d)

\* The steps of a collect that is neither being executed any more nor rolled back.
Completes ==
    /\ ~Idle /\ Idle'
    /\ purse' # message.before.purse \/ lastTs' # message.before.lastTs

\* A collect leaves no trace or passes on every ASTRO, of all its swaps and what pools paid
\* in the meantime.
CollectAllOrNothing == [][Completes => purse'[astro] = 0]_vars

\* A collect sells no more of any coin than it was asked to, even if it lists a coin twice.
SoldWithinAsked ==
    [][Completes
          => \A d \in Denoms \ {astro} :
                \/ AsksForAll(message.assets, d)
                \/ purse'[d] + AmountAsked(message.assets, d) >= message.before.purse[d]]_vars

\* A collect starts no sooner than the cooldown after the last one that completed; those
\* that were rolled back do not count.
CooldownKept ==
    [][Idle /\ ~Idle' /\ cooldown # None /\ lastDone # None => now >= lastDone + cooldown]_vars

\* "If set defines the period when maker collect can be called": also the cooldown that
\* instantiate was sent keeps the collects that complete apart.
InstantiatedCooldownKept ==
    [][message.step = "reply" /\ purse' # message.before.purse /\ wanted # None /\ lastDone # None
          => now >= lastDone + wanted]_vars
==============================================================================
