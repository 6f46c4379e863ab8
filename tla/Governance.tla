------------------------------ MODULE Governance ------------------------------
(***************************************************************************)
(* The factory and its pairs over time: who may decide about a pair, and   *)
(* whether the pair takes deposits.  Both depend on the factory as it is   *)
(* when the pair asks: its owner stands in for the owner a pair does not   *)
(* have, and its registry knows pairs by their coins only.                 *)
(*                                                                         *)
(* Messages are steps; the factory's side of CreatePair is the atomic      *)
(* PairRegistry that Factory implements.  The maker has an owner like the  *)
(* factory's, with the same three handlers.                                *)
(***************************************************************************)
EXTENDS Integers, Sequences

CONSTANTS
    People,    \* accounts that send messages
    Markets,   \* the coins of a pair
    MaxTtl,    \* MAX_PROPOSAL_TTL
    None,      \* an absent Option
    MaxPools,  \* bound on the number of pair contracts
    MaxTime    \* bound on the time

ASSUME PeopleAssumption == None \notin People
ASSUME MaxTtlAssumption == MaxTtl \in Nat
ASSUME MaxPoolsAssumption == MaxPools \in Nat

VARIABLES
    now,        \* env.block.time, in seconds
    registry,   \* the factory's PAIRS, by market
    contracts,  \* the pair contracts, the factory's and others
    owner,      \* config.owner of the factory and of each pair
    proposal,   \* OWNERSHIP_PROPOSAL of the factory and of each pair
    provided,   \* pairs that have liquidity
    mandate     \* history: the last proposal for a contract as it was made, unless withdrawn

vars == <<now, registry, contracts, owner, proposal, provided, mandate>>

Registry == INSTANCE PairRegistry

\* The factory, and the pairs by number.
Factory == 0
Ownables == 0 .. MaxPools
Existing == 0 .. Len(contracts)

Proposals == [owner: People, ttl: Nat]
Mandates == [by: People, nominee: People, at: Nat, validFor: Nat]
ASSUME AbsentProposalAssumption == None \notin Proposals \cup Mandates

ownership == <<owner, proposal, mandate>>

\* A pair is instantiated without an owner.
Init ==
    /\ now = 0
    /\ Registry!Init
    /\ \E p \in People : owner = [c \in Ownables |-> IF c = Factory THEN p ELSE None]
    /\ proposal = [c \in Ownables |-> None]
    /\ provided = {}
    /\ mandate = [c \in Ownables |-> None]

\* config.owner.unwrap_or(factory_config.owner), as of now.
Authority_Factory(c) == owner[Factory]
Authority(c) == IF owner[c] = None THEN owner[Factory] ELSE owner[c]

----------------------------------------------------------------------------
(* Ownership, by astroport::common *)

\* The proposal may not outlive MAX_PROPOSAL_TTL.
ExpiryAccepted_Any(seconds) == TRUE
ExpiryAccepted(seconds) == seconds <= MaxTtl

ProposeNewOwner(sender, c, nominee, expiresIn) ==
    /\ sender = Authority(c)
    /\ nominee # Authority(c)
    /\ ExpiryAccepted(expiresIn)
    /\ proposal' = [proposal EXCEPT ![c] = [owner |-> nominee, ttl |-> now + expiresIn]]
    /\ mandate' = [mandate EXCEPT ![c] = [by |-> sender, nominee |-> nominee,
                                          at |-> now, validFor |-> expiresIn]]
    /\ UNCHANGED <<now, registry, contracts, owner, provided>>

DropOwnershipProposal(sender, c) ==
    /\ sender = Authority(c)
    /\ proposal' = [proposal EXCEPT ![c] = None]
    /\ mandate' = [mandate EXCEPT ![c] = None]
    /\ UNCHANGED <<now, registry, contracts, owner, provided>>

\* Until its ttl, included.
Claimable(sender, c) ==
    /\ proposal[c] # None
    /\ sender = proposal[c].owner
    /\ now <= proposal[c].ttl

ClaimOwnership(sender, c) ==
    /\ Claimable(sender, c)
    /\ owner' = [owner EXCEPT ![c] = sender]
    /\ proposal' = [proposal EXCEPT ![c] = None]
    /\ UNCHANGED <<now, registry, contracts, provided, mandate>>

----------------------------------------------------------------------------
(* Pairs *)

CreatePair(m) ==
    /\ Registry!Register(m)
    /\ UNCHANGED <<now, ownership, provided>>

Deregister(sender, m) ==
    /\ sender = owner[Factory]
    /\ Registry!Deregister(m)
    /\ UNCHANGED <<now, ownership, provided>>

\* A pair contract created without the factory.
UserCreatesPool(m) ==
    /\ Registry!Instantiate(m)
    /\ UNCHANGED <<now, ownership, provided>>

\* check_pair_registered: the factory knows a pair for these coins.
ProvideLiquidity(c) ==
    /\ contracts[c].market \in Registry!Registered
    /\ provided' = provided \cup {c}
    /\ UNCHANGED <<now, registry, contracts, ownership>>

Tick ==
    /\ now < MaxTime
    /\ now' = now + 1
    /\ UNCHANGED <<registry, contracts, ownership, provided>>

----------------------------------------------------------------------------

Execute(sender) ==
    \/ \E c \in Existing :
          \/ \E nominee \in People, expiresIn \in 0 .. MaxTtl + 1 :
                ProposeNewOwner(sender, c, nominee, expiresIn)
          \/ DropOwnershipProposal(sender, c)
          \/ ClaimOwnership(sender, c)
    \/ \E m \in Markets : Deregister(sender, m)

Next ==
    \/ \E sender \in People : Execute(sender)
    \/ \E m \in Markets : CreatePair(m) \/ UserCreatesPool(m)
    \/ \E c \in 1 .. Len(contracts) : ProvideLiquidity(c)
    \/ Tick

Spec == Init /\ [][Next]_vars

----------------------------------------------------------------------------
(* Properties *)

\* Every variable keeps its type; in particular the factory always has an owner, contracts
\* that do not exist are owned by nobody, and no proposal is valid for longer than MaxTtl.
TypeOK ==
    /\ now \in Nat
    /\ contracts \in Seq([market: Markets, official: BOOLEAN])
    /\ Len(contracts) <= MaxPools
    /\ DOMAIN registry \subseteq Markets
    /\ \A m \in DOMAIN registry : registry[m] \in 1 .. Len(contracts)
    /\ provided \subseteq 1 .. Len(contracts)
    /\ owner \in [Ownables -> People \cup {None}]
    /\ owner[Factory] \in People
    /\ proposal \in [Ownables -> Proposals \cup {None}]
    /\ \A c \in Ownables : proposal[c] # None => proposal[c].ttl <= now + MaxTtl
    /\ \A c \in Ownables \ Existing : owner[c] = None /\ proposal[c] = None
    /\ mandate \in [Ownables -> Mandates \cup {None}]

\* A contract gets no new owner but the one who was proposed last, unless that was withdrawn,
\* and only as long as its proposer allowed, MaxTtl at most; the proposer of a contract with
\* an owner is that owner, never somebody who had the say before: a former owner, or the
\* factory's owner from the time when the pair had none.
OwnershipMandated ==
    [][\A c \in Ownables : owner'[c] # owner[c]
          => /\ mandate[c] # None
             /\ owner'[c] = mandate[c].nominee
             /\ now <= mandate[c].at + mandate[c].validFor
             /\ mandate[c].validFor <= MaxTtl
             /\ owner[c] # None => mandate[c].by = owner[c]]_vars

\* "Pair is not registered in the factory. Only swap and withdraw are allowed": a deposit
\* goes to a pair that is registered itself.
DepositsOnlyIfRegistered ==
    [][\A c \in provided' \ provided : \E m \in Registry!Registered : registry[m] = c]_vars
==============================================================================
