--------------------------- MODULE GovernanceProofs ---------------------------
(* Theorems about Governance: nobody comes to own a contract without a mandate. *)
EXTENDS Governance, TLAPS

\* What makes OwnershipMandated inductive: a pending proposal is the mandate's, and was made
\* by the owner where there is one.
ProposalsMandated ==
    \A c \in Ownables : proposal[c] # None =>
        /\ mandate[c] # None
        /\ proposal[c].owner = mandate[c].nominee
        /\ proposal[c].ttl = mandate[c].at + mandate[c].validFor
        /\ mandate[c].validFor <= MaxTtl
        /\ owner[c] # None => mandate[c].by = owner[c]

IInv == TypeOK /\ ProposalsMandated

\* Contracts that exist have a place in the maps.
LEMMA ExistingOwnable ==
    ASSUME TypeOK
    PROVE  /\ Len(contracts) \in Nat
           /\ Existing \subseteq Ownables
           /\ Factory \in Existing
  BY MaxPoolsAssumption DEF TypeOK, Existing, Ownables, Factory

\* Whoever has the say is somebody.
LEMMA AuthorityIsPerson ==
    ASSUME TypeOK, NEW c \in Existing
    PROVE  Authority(c) \in People
  BY ExistingOwnable DEF TypeOK, Authority

\* A proposal stays within MaxTtl and carries its proposer's mandate.
LEMMA ProposeKeeps ==
    ASSUME IInv, NEW sender \in People, NEW c \in Existing, NEW nominee \in People,
           NEW expiresIn \in 0 .. MaxTtl + 1,
           ProposeNewOwner(sender, c, nominee, expiresIn)
    PROVE  IInv'
<1> USE MaxTtlAssumption, MaxPoolsAssumption, PeopleAssumption, AbsentProposalAssumption
<1>1. c \in Ownables /\ Authority(c) \in People
  BY ExistingOwnable, AuthorityIsPerson DEF IInv
<1>2. expiresIn \in Nat /\ expiresIn <= MaxTtl
  BY DEF ProposeNewOwner, ExpiryAccepted
<1> DEFINE p == [owner |-> nominee, ttl |-> now + expiresIn]
           g == [by |-> sender, nominee |-> nominee, at |-> now, validFor |-> expiresIn]
<1>3. /\ p \in Proposals /\ p # None /\ p.owner = nominee /\ p.ttl = now + expiresIn
      /\ g \in Mandates /\ g # None /\ g.by = sender /\ g.nominee = nominee
      /\ g.at = now /\ g.validFor = expiresIn
  BY <1>2 DEF IInv, TypeOK, Proposals, Mandates
<1>4. /\ proposal' = [proposal EXCEPT ![c] = p]
      /\ mandate' = [mandate EXCEPT ![c] = g]
      /\ UNCHANGED <<now, registry, contracts, owner, provided>>
  BY DEF ProposeNewOwner
<1>5. owner[c] # None => sender = owner[c]
  BY DEF ProposeNewOwner, Authority
<1> HIDE DEF p, g
<1>6. TypeOK'
  <2>1. proposal' \in [Ownables -> Proposals \cup {None}] /\ mandate' \in [Ownables -> Mandates \cup {None}]
    BY <1>1, <1>3, <1>4 DEF IInv, TypeOK
  <2>2. \A d \in Ownables : proposal'[d] # None => proposal'[d].ttl <= now' + MaxTtl
    BY <1>1, <1>2, <1>3, <1>4 DEF IInv, TypeOK
  <2>3. \A d \in Ownables \ Existing' : owner'[d] = None /\ proposal'[d] = None
    BY <1>1, <1>4 DEF IInv, TypeOK, Existing
  <2> QED BY <1>4, <2>1, <2>2, <2>3 DEF IInv, TypeOK, Existing
<1>7. ProposalsMandated'
  BY <1>1, <1>2, <1>3, <1>4, <1>5 DEF IInv, TypeOK, ProposalsMandated
<1> QED BY <1>6, <1>7 DEF IInv

\* Dropping a proposal leaves none.
LEMMA DropKeeps ==
    ASSUME IInv, NEW sender \in People, NEW c \in Existing, DropOwnershipProposal(sender, c)
    PROVE  IInv'
<1> USE DEF DropOwnershipProposal
<1>1. c \in Ownables
  BY ExistingOwnable DEF IInv
<1>2. TypeOK'
  BY <1>1 DEF IInv, TypeOK, Existing
<1>3. ProposalsMandated'
  BY <1>1 DEF IInv, TypeOK, ProposalsMandated
<1> QED BY <1>2, <1>3 DEF IInv

\* A claim uses the proposal up.
LEMMA ClaimKeeps ==
    ASSUME IInv, NEW sender \in People, NEW c \in Existing, ClaimOwnership(sender, c)
    PROVE  IInv'
<1> USE DEF ClaimOwnership
<1>1. c \in Ownables
  BY ExistingOwnable DEF IInv
<1>2. TypeOK'
  BY <1>1 DEF IInv, TypeOK, Existing
<1>3. ProposalsMandated'
  BY <1>1 DEF IInv, TypeOK, ProposalsMandated
<1> QED BY <1>2, <1>3 DEF IInv

\* A new pair contract starts without owner and proposal.
LEMMA NewContractKeeps ==
    ASSUME IInv, NEW m \in Markets, CreatePair(m) \/ UserCreatesPool(m)
    PROVE  IInv'
<1> USE MaxPoolsAssumption
<1>1. /\ \E official \in BOOLEAN : contracts' = Append(contracts, [market |-> m, official |-> official])
      /\ Len(contracts) < MaxPools
      /\ UNCHANGED <<now, owner, proposal, mandate, provided>>
  BY DEF CreatePair, UserCreatesPool, Registry!Register, Registry!Instantiate,
         Registry!NewContract, ownership
<1>2. /\ contracts \in Seq([market: Markets, official: BOOLEAN])
      /\ Len(contracts) \in Nat
  BY DEF IInv, TypeOK
<1>3. contracts' \in Seq([market: Markets, official: BOOLEAN]) /\ Len(contracts') = Len(contracts) + 1
  BY <1>1, <1>2
<1>4. DOMAIN registry' \subseteq Markets /\ \A k \in DOMAIN registry' : registry'[k] \in 1 .. Len(contracts')
  <2>1. CASE CreatePair(m)
    <3>1. registry' = [k \in DOMAIN registry \cup {m} |->
                          IF k = m THEN Len(contracts) + 1 ELSE registry[k]]
      BY <2>1 DEF CreatePair, Registry!Register, Registry!Registered
    <3>2. DOMAIN registry \subseteq Markets /\ \A k \in DOMAIN registry : registry[k] \in 1 .. Len(contracts)
      BY DEF IInv, TypeOK
    <3>3. DOMAIN registry' = DOMAIN registry \cup {m}
      BY <3>1
    <3>4. ASSUME NEW k \in DOMAIN registry' PROVE registry'[k] \in 1 .. Len(contracts')
      BY <3>1, <3>2, <3>3, <1>2, <1>3
    <3> QED BY <3>2, <3>3, <3>4
  <2>2. CASE UserCreatesPool(m)
    BY <2>2, <1>2, <1>3 DEF UserCreatesPool, Registry!Instantiate, IInv, TypeOK
  <2> QED BY <2>1, <2>2
<1>5. TypeOK'
  BY <1>1, <1>2, <1>3, <1>4 DEF IInv, TypeOK, Existing
<1>6. ProposalsMandated'
  BY <1>1 DEF IInv, ProposalsMandated
<1> QED BY <1>5, <1>6 DEF IInv

\* Deregistering a pair touches no contract and no proposal.
LEMMA DeregisterKeeps ==
    ASSUME IInv, NEW sender \in People, NEW m \in Markets, Deregister(sender, m)
    PROVE  IInv'
<1>1. /\ registry' = [k \in DOMAIN registry \ {m} |-> registry[k]]
      /\ UNCHANGED <<contracts, now, owner, proposal, mandate, provided>>
  BY DEF Deregister, Registry!Deregister, Registry!Registered, ownership
<1>2. TypeOK'
  BY <1>1 DEF IInv, TypeOK, Existing
<1> QED BY <1>1, <1>2 DEF IInv, ProposalsMandated

\* Every message keeps types and the mandates of the proposals.
LEMMA Inductive ==
    ASSUME IInv, [Next]_vars
    PROVE  IInv'
<1>1. CASE \E sender \in People : Execute(sender)
  BY <1>1, ProposeKeeps, DropKeeps, ClaimKeeps, DeregisterKeeps DEF Execute
<1>2. CASE \E m \in Markets : CreatePair(m) \/ UserCreatesPool(m)
  BY <1>2, NewContractKeeps
<1>3. CASE \E c \in 1 .. Len(contracts) : ProvideLiquidity(c)
  <2>1. TypeOK'
    BY <1>3 DEF IInv, TypeOK, Existing, ProvideLiquidity, ownership
  <2> QED BY <1>3, <2>1 DEF IInv, ProposalsMandated, ProvideLiquidity, ownership
<1>4. CASE Tick
  <2>1. TypeOK'
    BY <1>4, MaxTtlAssumption DEF IInv, TypeOK, Existing, Tick, ownership, Proposals
  <2> QED BY <1>4, <2>1 DEF IInv, ProposalsMandated, Tick, ownership
<1>5. CASE UNCHANGED vars
  BY <1>5 DEF IInv, TypeOK, Existing, ProposalsMandated, vars
<1> QED BY <1>1, <1>2, <1>3, <1>4, <1>5 DEF Next

\* Nothing is proposed for contracts that were just instantiated.
LEMMA Initially == Init => IInv
<1> SUFFICES ASSUME Init PROVE IInv
  OBVIOUS
<1> USE MaxPoolsAssumption, MaxTtlAssumption
<1>1. TypeOK
  BY DEF Init, TypeOK, Registry!Init, Ownables, Existing, Factory
<1> QED BY <1>1 DEF Init, IInv, ProposalsMandated

\* The inductive invariant holds in every reachable state.
THEOREM GovernanceInvariance == Spec => []IInv
  BY Initially, Inductive, PTL DEF Spec

\* Types, the factory's owner, and the validity of proposals.
THEOREM GovernanceTypeCorrect == Spec => []TypeOK
<1>1. IInv => TypeOK
  BY DEF IInv
<1> QED BY <1>1, GovernanceInvariance, PTL

\* No message but ClaimOwnership changes an owner.
LEMMA OnlyClaimsMoveOwners ==
    ASSUME IInv, [Next]_vars, NEW c \in Ownables, owner'[c] # owner[c]
    PROVE  \E sender \in People : c \in Existing /\ ClaimOwnership(sender, c)
<1>1. owner' # owner
  OBVIOUS
<1>2. \E sender \in People, d \in Existing : ClaimOwnership(sender, d)
  BY <1>1 DEF Next, vars, Execute, ProposeNewOwner, DropOwnershipProposal, Deregister,
              CreatePair, UserCreatesPool, ProvideLiquidity, Tick, ownership
<1>3. PICK sender \in People, d \in Existing : ClaimOwnership(sender, d)
  BY <1>2
<1>4. d = c
  BY <1>3, ExistingOwnable DEF ClaimOwnership, IInv, TypeOK
<1> QED BY <1>3, <1>4

\* A contract gets no new owner but the one its owner, if it has one, proposed last, did not
\* withdraw, and allowed to claim it for that long, which is MaxTtl at most.
THEOREM MandatedOwnership == Spec => OwnershipMandated
<1> DEFINE Mandated(c) ==
              /\ mandate[c] # None
              /\ owner'[c] = mandate[c].nominee
              /\ now <= mandate[c].at + mandate[c].validFor
              /\ mandate[c].validFor <= MaxTtl
              /\ owner[c] # None => mandate[c].by = owner[c]
           Moved == \A c \in Ownables : owner'[c] # owner[c] => Mandated(c)
<1>1. ASSUME IInv, [Next]_vars PROVE [Moved]_vars
  <2> SUFFICES ASSUME NEW c \in Ownables, owner'[c] # owner[c]
               PROVE  Mandated(c)
    OBVIOUS
  <2>1. PICK sender \in People : c \in Existing /\ ClaimOwnership(sender, c)
    BY <1>1, OnlyClaimsMoveOwners
  <2>2. /\ proposal[c] # None /\ now <= proposal[c].ttl
        /\ owner'[c] = proposal[c].owner
    BY <1>1, <2>1 DEF ClaimOwnership, Claimable, IInv, TypeOK
  <2> QED BY <1>1, <2>2 DEF IInv, ProposalsMandated
<1> QED BY <1>1, GovernanceInvariance, PTL DEF Spec, OwnershipMandated
==============================================================================
