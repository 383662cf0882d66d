--------------------------- MODULE Tables_proofs ---------------------------
(***************************************************************************)
(* Proofs about the two groups of tables that the agents of a run share:   *)
(* ClaimLedger, for every number of agents, resources, beneficiaries,      *)
(* claims and commitments, and CredibilityBank, for every set of agents,   *)
(* every budget and every price.  The ledger's inductive invariant joins   *)
(* the types to what the schema, the status column and the log owe each    *)
(* other: no part of it is preserved without some of the others.           *)
(***************************************************************************)
EXTENDS ClaimLedger, CredibilityBank, FiniteSetTheorems, TLAPS
-----------------------------------------------------------------------------
(* The ledger: what its tables owe each other *)

\* PRIMARY KEY (resource_id, beneficiary): one row at most for a unit.
OneRowPerUnit ==
  \A x, y \in alloc : x.resource = y.resource /\ x.ben = y.ben => x = y

\* What the allocations table and the log owe each other, whoever calls.
UnitsInv ==
  /\ alloc \subseteq Allocation
  /\ IsFiniteSet(alloc)
  /\ CapacityRespected
  /\ OneUnitPerGroup
  /\ OneRowPerUnit
  /\ ReplayAgrees

IInv ==
  /\ TypeOK
  /\ UnitsInv
  /\ UnitsBelongToGrantedClaims
  /\ NextIdsAreFree
-----------------------------------------------------------------------------
(* The two ways units move *)

\* The rows one claim inserts are as many as the beneficiaries it names.
LEMMA RowsCount ==
  ASSUME NEW c, NEW r, NEW S, IsFiniteSet(S)
  PROVE  LET rows == [resource : {r}, ben : S, claim : {c}]
         IN  IsFiniteSet(rows) /\ Cardinality(rows) <= Cardinality(S)
<1> DEFINE rows == [resource : {r}, ben : S, claim : {c}]
           f == [b \in S |-> [resource |-> r, ben |-> b, claim |-> c]]
<1>1. f \in Surjection(S, rows)
  BY DEF Surjection
<1> QED BY <1>1, FS_Surjection

\* A beneficiary list has as many entries as it names, or more.
LEMMA LengthBound ==
  ASSUME NEW l \in BenList
  PROVE  /\ IsFiniteSet(l.bens)
         /\ Cardinality(l.bens) \in Nat
         /\ Length(l) \in Nat /\ Cardinality(l.bens) <= Length(l)
<1>1. IsFiniteSet(l.bens)
  BY BeneficiaryAssumption, FS_Subset DEF BenList
<1>2. Cardinality(l.bens) \in Nat
  BY <1>1, FS_CardinalityType
<1> QED BY <1>1, <1>2 DEF Length

\* Units that passed both pre-checks and the schema keep every constraint.
LEMMA AllocateKeepsUnits ==
  ASSUME UnitsInv, NEW c \in ClaimId, NEW r \in Resource, NEW l \in BenList,
         TryAllocate(r, l) = "granted", Allocate(c, r, l.bens)
  PROVE  UnitsInv'
<1> DEFINE rows == [resource : {r}, ben : l.bens, claim : {c}]
           out(s) == {x \in alloc : x.resource = s}
<1> USE DEF UnitsInv
<1>1. /\ FitsCapacity(r, l) /\ FitsGroup(r, l) /\ SchemaAccepts(r, l)
  BY DEF TryAllocate
<1>2. alloc' = alloc \union rows /\ replayed' = replayed \union {<<r, b>> : b \in l.bens}
  BY DEF Allocate
<1>3. rows \subseteq Allocation
  BY DEF Allocation, BenList
<1>4. IsFiniteSet(rows) /\ Cardinality(rows) <= Cardinality(l.bens)
  BY LengthBound, RowsCount
<1>5. alloc' \subseteq Allocation /\ IsFiniteSet(alloc')
  BY <1>2, <1>3, <1>4, FS_Union
<1>6. CapacityRespected'
  <2> SUFFICES ASSUME NEW s \in Resource
               PROVE  Cardinality({x \in alloc' : x.resource = s}) <= Capacity[s]
    BY DEF CapacityRespected
  <2>1. Cardinality(out(s)) <= Capacity[s]
    BY DEF CapacityRespected
  <2>2. CASE s # r
    <3>1. {x \in alloc' : x.resource = s} = out(s)
      BY <1>2, <2>2
    <3> QED BY <3>1, <2>1
  <2>3. CASE s = r
    <3>1. {x \in alloc' : x.resource = s} = out(r) \union rows
      BY <1>2, <2>3
    <3>2. IsFiniteSet(out(r))
      BY FS_Subset
    <3>3. Cardinality(out(r) \union rows) <= Cardinality(out(r)) + Cardinality(rows)
      <4>1. IsFiniteSet(out(r) \cap rows)
        BY <3>2, FS_Intersection
      <4>2. Cardinality(out(r) \cap rows) \in Nat /\ Cardinality(out(r)) \in Nat
            /\ Cardinality(rows) \in Nat
        BY <4>1, <3>2, <1>4, FS_CardinalityType
      <4>3. Cardinality(out(r) \union rows) =
              Cardinality(out(r)) + Cardinality(rows) - Cardinality(out(r) \cap rows)
        BY <3>2, <1>4, FS_Union
      <4> QED BY <4>2, <4>3
    <3>4. Cardinality(out(r)) + Length(l) <= Capacity[r]
      BY <1>1 DEF FitsCapacity, Used
    <3>5. Cardinality(out(r)) \in Nat /\ Cardinality(rows) \in Nat
          /\ Cardinality(out(r) \union rows) \in Nat
      BY <3>2, <1>4, FS_CardinalityType, FS_Union
    <3>6. /\ Length(l) \in Nat /\ Cardinality(l.bens) \in Nat
          /\ Cardinality(l.bens) <= Length(l) /\ Capacity[r] \in Nat
      BY LengthBound, CapacityAssumption
    <3>7. Cardinality(out(r) \union rows) <= Capacity[r]
      BY <3>3, <3>4, <3>5, <3>6, <1>4
    <3> QED BY <3>1, <3>7, <2>3
  <2> QED BY <2>2, <2>3
<1>7. OneUnitPerGroup'
  BY <1>1, <1>2 DEF OneUnitPerGroup, FitsGroup, HeldInGroup
<1>8. OneRowPerUnit'
  BY <1>1, <1>2 DEF OneRowPerUnit, SchemaAccepts
<1>9. ReplayAgrees'
  <2>1. {<<x.resource, x.ben>> : x \in rows} = {<<r, b>> : b \in l.bens}
    <3>1. \A x \in rows : x.resource = r /\ x.ben \in l.bens
      OBVIOUS
    <3>2. ASSUME NEW b \in l.bens
          PROVE  \E x \in rows : x.resource = r /\ x.ben = b
      <4>1. [resource |-> r, ben |-> b, claim |-> c] \in rows
        OBVIOUS
      <4> QED BY <4>1
    <3> HIDE DEF rows
    <3> QED BY <3>1, <3>2, SMT
  <2>2. {<<x.resource, x.ben>> : x \in alloc \union rows} =
          {<<x.resource, x.ben>> : x \in alloc} \union {<<x.resource, x.ben>> : x \in rows}
    OBVIOUS
  <2> QED BY <1>2, <2>1, <2>2 DEF ReplayAgrees
<1> QED BY <1>5, <1>6, <1>7, <1>8, <1>9

\* Units given back never break a constraint, and the log forgets the same.
LEMMA DeallocateKeepsUnits ==
  ASSUME UnitsInv, NEW c, NEW r, NEW S \in SUBSET Holders(c),
         \A x \in alloc : x.claim = c => x.resource = r,
         Deallocate(c, r, S)
  PROVE  UnitsInv'
<1> USE DEF UnitsInv
<1>1. alloc' \subseteq alloc /\ IsFiniteSet(alloc')
  BY FS_Subset DEF Deallocate
<1>2. CapacityRespected'
  <2> SUFFICES ASSUME NEW s \in Resource
               PROVE  Cardinality({x \in alloc' : x.resource = s}) <= Capacity[s]
    BY DEF CapacityRespected
  <2>1. {x \in alloc' : x.resource = s} \subseteq {x \in alloc : x.resource = s}
    BY <1>1
  <2>2. IsFiniteSet({x \in alloc : x.resource = s})
    BY FS_Subset
  <2>3. /\ Cardinality({x \in alloc' : x.resource = s})
             <= Cardinality({x \in alloc : x.resource = s})
        /\ Cardinality({x \in alloc' : x.resource = s}) \in Nat
        /\ Cardinality({x \in alloc : x.resource = s}) \in Nat
    BY <2>1, <2>2, FS_Subset, FS_CardinalityType
  <2> QED BY <2>3, CapacityAssumption DEF CapacityRespected
<1>3. OneUnitPerGroup' /\ OneRowPerUnit'
  BY <1>1 DEF OneUnitPerGroup, OneRowPerUnit
<1>4. ReplayAgrees'
  <2>1. ASSUME NEW x \in alloc PROVE <<x.resource, x.ben>> \in replayed'
                                     <=> x \in alloc'
    BY DEF Deallocate, ReplayAgrees, OneRowPerUnit, Holders, Allocation
  <2> QED BY <2>1, <1>1 DEF Deallocate, ReplayAgrees
<1> QED BY <1>1, <1>2, <1>3, <1>4
-----------------------------------------------------------------------------
(* What the shared steps do to the invariant *)

\* A row that exists is a claim with all its columns.
LEMMA RowIsClaim ==
  ASSUME TypeOK, NEW c \in ClaimId, HasClaim(c)
  PROVE  claims[c] \in Claim
BY DEF TypeOK, HasClaim, NoClaim

\* Updating the status column touches no other column and no other row.
LEMMA SetStatusEffect ==
  ASSUME TypeOK, NEW c \in ClaimId, HasClaim(c), NEW s \in ClaimStatus,
         SetStatus(c, s)
  PROVE  /\ claims' \in [ClaimId -> Claim \union {NoClaim}]
         /\ claims'[c].status = s
         /\ claims'[c].resource = claims[c].resource
         /\ claims'[c].agent = claims[c].agent
         /\ claims'[c].bens = claims[c].bens
         /\ claims'[c].commit = claims[c].commit
         /\ \A d \in ClaimId \ {c} : claims'[d] = claims[d]
<1>1. claims[c] \in Claim
  BY RowIsClaim
<1>2. [claims[c] EXCEPT !.status = s] \in Claim
  BY <1>1 DEF Claim
<1>3. claims' = [claims EXCEPT ![c] = [claims[c] EXCEPT !.status = s]]
  BY DEF SetStatus, TypeOK
<1>4. claims'[c] = [claims[c] EXCEPT !.status = s]
  BY <1>3 DEF TypeOK
<1>5. /\ claims'[c].status = s
      /\ claims'[c].resource = claims[c].resource
      /\ claims'[c].agent = claims[c].agent
      /\ claims'[c].bens = claims[c].bens
      /\ claims'[c].commit = claims[c].commit
  BY <1>1, <1>4 DEF Claim
<1> QED BY <1>2, <1>3, <1>5 DEF TypeOK

LEMMA NoEffectKeeps ==
  ASSUME IInv, NEW kind \in Outcome, NoEffect(kind)
  PROVE  IInv'
<1>1. UNCHANGED <<registered, commitments, claims, alloc, claimSeq, commitSeq, replayed>>
  BY DEF NoEffect, tables
<1>2. TypeOK'
  BY <1>1 DEF IInv, TypeOK, NoEffect
<1>3. UnitsInv'
  BY <1>1 DEF IInv, UnitsInv, CapacityRespected, OneUnitPerGroup, OneRowPerUnit, ReplayAgrees
<1>4. UnitsBelongToGrantedClaims' /\ NextIdsAreFree'
  BY <1>1 DEF IInv, UnitsBelongToGrantedClaims, NextIdsAreFree, Granted, HasClaim
<1> QED BY <1>2, <1>3, <1>4 DEF IInv

\* release and revoke: what is left still belongs to a granted claim, since
\* the status changes only when nothing is left.
LEMMA GiveBackKeeps ==
  ASSUME IInv, NEW c \in ClaimId, NEW l \in BenList, NEW final \in ClaimStatus,
         Granted(c), GiveBack(c, l, final)
  PROVE  IInv'
<1>1. /\ l.bens \subseteq Holders(c)
      /\ Deallocate(c, claims[c].resource, l.bens)
      /\ Holders(c) = l.bens => SetStatus(c, final)
      /\ Holders(c) # l.bens => UNCHANGED claims
      /\ UNCHANGED <<registered, commitments, claimSeq, commitSeq>>
      /\ outcome' = "ok"
  BY DEF GiveBack, CanDeallocate
<1>2. HasClaim(c)
  BY DEF Granted, HasClaim
<1>3. \A x \in alloc : x.claim = c => x.resource = claims[c].resource
  BY DEF IInv, UnitsBelongToGrantedClaims
<1>4. UnitsInv'
  BY <1>1, <1>3, DeallocateKeepsUnits DEF IInv
<1>5. claims' \in [ClaimId -> Claim \union {NoClaim}]
      /\ \A d \in ClaimId \ {c} : claims'[d] = claims[d]
  BY <1>1, <1>2, SetStatusEffect DEF IInv, TypeOK
<1>6. TypeOK'
  <2>1. replayed' \subseteq Resource \X Beneficiary
    BY <1>4 DEF UnitsInv, ReplayAgrees, Allocation
  <2> QED BY <1>1, <1>4, <1>5, <2>1 DEF IInv, TypeOK, UnitsInv, Outcome
<1>7. UnitsBelongToGrantedClaims'
  <2> SUFFICES ASSUME NEW x \in alloc'
               PROVE  Granted(x.claim)' /\ claims'[x.claim].resource = x.resource
    BY DEF UnitsBelongToGrantedClaims
  <2>1. x \in alloc /\ x \in Allocation /\ ~(x.claim = c /\ x.resource = claims[c].resource
                                             /\ x.ben \in l.bens)
    BY <1>1 DEF Deallocate, IInv, TypeOK
  <2>2. Granted(x.claim) /\ claims[x.claim].resource = x.resource
    BY <2>1 DEF IInv, UnitsBelongToGrantedClaims
  <2>3. CASE x.claim # c
    BY <2>1, <2>2, <2>3, <1>5 DEF Granted, Allocation
  <2>4. CASE x.claim = c
    <3>1. x.ben \in Holders(c) /\ x.ben \notin l.bens
      BY <2>1, <2>2, <2>4 DEF Holders
    <3> QED BY <3>1, <1>1, <2>2 DEF Granted
  <2> QED BY <2>3, <2>4
<1>8. NextIdsAreFree'
  BY <1>1, <1>2, <1>5 DEF IInv, NextIdsAreFree, HasClaim
<1> QED BY <1>4, <1>6, <1>7, <1>8 DEF IInv

\* The second half of a reveal or a plain submission.  The claim's row did not
\* exist, so nothing in the allocations table is its own.
LEMMA InsertKeeps ==
  ASSUME IInv, NEW p \in Proposal, NEW m \in 0..MaxCommits,
         claimSeq < MaxClaims, claimSeq' = claimSeq + 1,
         InsertAndApply(claimSeq', p, m),
         UNCHANGED <<registered, commitSeq>>,
         commitments' \in [CommitId -> Commitment \union {NoCommitment}],
         \A n \in CommitId : n > commitSeq => commitments'[n].state = "absent"
  PROVE  IInv'
<1> DEFINE c == claimSeq'
           l == Listing(p.bens)
           r == p.resource
           row(s) == [agent |-> p.agent, resource |-> p.resource, bens |-> p.bens,
                      status |-> s, commit |-> m]
<1>1. c \in ClaimId /\ claimSeq' \in 0..MaxClaims /\ claimSeq \in 0..MaxClaims
  BY BoundsAssumption DEF IInv, TypeOK, ClaimId
<1>2. l \in BenList /\ l.bens = p.bens /\ r \in Resource
  BY DEF Listing, BenList, Proposal
<1>3. ~HasClaim(c) /\ \A x \in alloc : x.claim # c
  BY <1>1 DEF IInv, TypeOK, NextIdsAreFree, UnitsBelongToGrantedClaims, Granted, HasClaim
<1>4. /\ outcome' \in Outcome
      /\ \/ UNCHANGED <<claims, alloc, replayed>>
         \/ /\ claims' = [claims EXCEPT ![c] = row("blocked")]
            /\ UNCHANGED <<alloc, replayed>>
         \/ /\ claims' = [claims EXCEPT ![c] = row("granted")]
            /\ TryAllocate(r, l) = "granted"
            /\ Allocate(c, r, l.bens)
  BY <1>2 DEF InsertAndApply, Outcome
<1>5. /\ claims' \in [ClaimId -> Claim \union {NoClaim}]
      /\ \A d \in ClaimId \ {c} : claims'[d] = claims[d]
  <2>1. row("blocked") \in Claim /\ row("granted") \in Claim
    BY DEF Claim, Proposal, ClaimStatus
  <2> QED BY <1>1, <1>4, <2>1 DEF IInv, TypeOK
<1>6. UnitsInv'
  <2>1. CASE UNCHANGED <<alloc, replayed>>
    BY <2>1 DEF IInv, UnitsInv, CapacityRespected, OneUnitPerGroup, OneRowPerUnit,
                ReplayAgrees
  <2>2. CASE TryAllocate(r, l) = "granted" /\ Allocate(c, r, l.bens)
    BY <2>2, <1>1, <1>2, AllocateKeepsUnits DEF IInv
  <2> QED BY <1>4, <2>1, <2>2
<1>7. TypeOK'
  <2>1. replayed' \subseteq Resource \X Beneficiary
    BY <1>6 DEF UnitsInv, ReplayAgrees, Allocation
  <2> QED BY <1>1, <1>4, <1>5, <1>6, <2>1 DEF IInv, TypeOK, UnitsInv
<1>8. UnitsBelongToGrantedClaims'
  <2> SUFFICES ASSUME NEW x \in alloc'
               PROVE  Granted(x.claim)' /\ claims'[x.claim].resource = x.resource
    BY DEF UnitsBelongToGrantedClaims
  <2>1. CASE x \in alloc
    BY <2>1, <1>3, <1>5 DEF IInv, TypeOK, Allocation, UnitsBelongToGrantedClaims, Granted
  <2>2. CASE x \notin alloc
    <3>1. claims' = [claims EXCEPT ![c] = row("granted")] /\ Allocate(c, r, l.bens)
      BY <1>4, <2>2
    <3>2. x.claim = c /\ x.resource = r
      BY <3>1, <2>2 DEF Allocate
    <3> QED BY <3>1, <3>2, <1>1 DEF IInv, TypeOK, Granted
  <2> QED BY <2>1, <2>2
<1>9. NextIdsAreFree'
  BY <1>1, <1>5 DEF IInv, NextIdsAreFree, HasClaim, TypeOK, ClaimId
<1> QED BY <1>6, <1>7, <1>8, <1>9 DEF IInv
-----------------------------------------------------------------------------
(* The invariant *)

LEMMA InitIInv == Init => IInv
<1> SUFFICES ASSUME Init PROVE IInv
  OBVIOUS
<1>1. TypeOK
  BY BoundsAssumption DEF Init, TypeOK, Outcome
<1>2. UnitsInv
  <2>1. CapacityRespected
    <3>1. \A r \in Resource : {x \in alloc : x.resource = r} = {}
      BY DEF Init
    <3> QED BY <3>1, FS_EmptySet, CapacityAssumption DEF CapacityRespected
  <2> QED BY <2>1, FS_EmptySet DEF Init, UnitsInv, OneUnitPerGroup, OneRowPerUnit,
                                  ReplayAgrees
<1>3. UnitsBelongToGrantedClaims /\ NextIdsAreFree
  BY DEF Init, UnitsBelongToGrantedClaims, NextIdsAreFree, HasClaim, NoClaim, NoCommitment
<1> QED BY <1>1, <1>2, <1>3 DEF IInv

\* A step that leaves claims, allocations and the log alone.
LEMMA UnitsUntouched ==
  ASSUME IInv, UNCHANGED <<claims, alloc, replayed>>
  PROVE  UnitsInv' /\ UnitsBelongToGrantedClaims'
BY DEF IInv, UnitsInv, CapacityRespected, OneUnitPerGroup, OneRowPerUnit,
       ReplayAgrees, UnitsBelongToGrantedClaims, Granted

LEMMA CommitKeeps ==
  ASSUME IInv, NEW a \in Agent, NEW p \in Proposal, Commit(a, p)
  PROVE  IInv'
<1>1. UNCHANGED <<claims, alloc, replayed, registered, claimSeq>>
  BY DEF Commit
<1>2. commitSeq \in Nat /\ commitSeq < MaxCommits /\ commitSeq' = commitSeq + 1
  BY DEF Commit, IInv, TypeOK
<1>3. [agent |-> a, digest |-> p, state |-> "sealed", claim |-> 0] \in Commitment
  BY BoundsAssumption DEF Commitment
<1>4. /\ commitments' \in [CommitId -> Commitment \union {NoCommitment}]
      /\ \A m \in CommitId : m # commitSeq' => commitments'[m] = commitments[m]
  BY <1>3 DEF Commit, IInv, TypeOK
<1>5. TypeOK'
  BY <1>1, <1>2, <1>4, BoundsAssumption DEF IInv, TypeOK, Commit, Outcome
<1>6. NextIdsAreFree'
  <2>1. \A m \in CommitId : m > commitSeq' => m > commitSeq /\ m # commitSeq'
    BY <1>2, BoundsAssumption DEF CommitId
  <2> QED BY <1>1, <1>4, <2>1 DEF IInv, NextIdsAreFree, HasClaim
<1> QED BY <1>1, <1>5, <1>6, UnitsUntouched DEF IInv

LEMMA RevealKeeps ==
  ASSUME IInv, NEW m \in CommitId, NEW p \in Proposal, NEW n \in BOOLEAN,
         Reveal(m, p, n)
  PROVE  IInv'
<1>1. CASE NoEffect("ledger_error")
  BY <1>1, NoEffectKeeps DEF Outcome
<1>2. ASSUME CanReveal(m, p)
      PROVE  /\ commitments[m] \in Commitment
             /\ m <= commitSeq
  BY <1>2, BoundsAssumption
     DEF CanReveal, IInv, TypeOK, NoCommitment, NextIdsAreFree, CommitId
<1>3. CASE CanReveal(m, p) /\ RevealMismatch(m)
  <2>1. [commitments[m] EXCEPT !.state = "rejected"] \in Commitment
    BY <1>2, <1>3 DEF Commitment
  <2>2. /\ commitments' \in [CommitId -> Commitment \union {NoCommitment}]
        /\ \A k \in CommitId : k # m => commitments'[k] = commitments[k]
    BY <1>3, <2>1 DEF RevealMismatch, IInv, TypeOK
  <2>3. UNCHANGED <<claims, alloc, replayed, registered, claimSeq, commitSeq>>
    BY <1>3 DEF RevealMismatch
  <2>4. TypeOK'
    BY <1>3, <2>2, <2>3 DEF IInv, TypeOK, RevealMismatch, Outcome
  <2>5. NextIdsAreFree'
    BY <1>2, <1>3, <2>2, <2>3, BoundsAssumption
       DEF IInv, TypeOK, NextIdsAreFree, HasClaim, CommitId
  <2> QED BY <2>3, <2>4, <2>5, UnitsUntouched DEF IInv
<1>4. CASE CanReveal(m, p) /\ RevealMatch(m, p)
  <2>1. claimSeq < MaxClaims /\ claimSeq' = claimSeq + 1 /\ claimSeq' \in 0..MaxClaims
    BY <1>4, BoundsAssumption DEF RevealMatch, IInv, TypeOK
  <2>2. [commitments[m] EXCEPT !.state = "accepted", !.claim = claimSeq'] \in Commitment
    BY <1>2, <1>4, <2>1 DEF Commitment
  <2>3. /\ commitments' \in [CommitId -> Commitment \union {NoCommitment}]
        /\ \A k \in CommitId : k # m => commitments'[k] = commitments[k]
    BY <1>4, <2>2 DEF RevealMatch, IInv, TypeOK
  <2>4. \A k \in CommitId : k > commitSeq => commitments'[k].state = "absent"
    BY <1>2, <1>4, <2>3, BoundsAssumption DEF IInv, TypeOK, NextIdsAreFree, CommitId
  <2>5. m \in 0..MaxCommits
    BY BoundsAssumption DEF CommitId
  <2> QED BY <1>4, <2>1, <2>3, <2>4, <2>5, InsertKeeps DEF RevealMatch
<1> QED BY <1>1, <1>3, <1>4 DEF Reveal

LEMMA GrantKeeps ==
  ASSUME IInv, NEW c \in ClaimId, NEW l \in BenList, GrantOp(c, l)
  PROVE  IInv'
<1>1. CASE NoEffect("ledger_error") \/ NoEffect("integrity_violation")
  BY <1>1, NoEffectKeeps DEF Outcome
<1>2. CASE /\ claims[c].status = "blocked"
           /\ TryAllocate(claims[c].resource, l) = "granted"
           /\ Allocate(c, claims[c].resource, l.bens)
           /\ SetStatus(c, "granted")
           /\ outcome' = "ok"
           /\ UNCHANGED <<registered, commitments, claimSeq, commitSeq>>
  <2>1. HasClaim(c) /\ claims[c] \in Claim /\ claims[c].resource \in Resource
    BY <1>2, RowIsClaim DEF HasClaim, IInv, Claim
  <2>2. /\ claims' \in [ClaimId -> Claim \union {NoClaim}]
        /\ claims'[c].status = "granted"
        /\ claims'[c].resource = claims[c].resource
        /\ \A d \in ClaimId \ {c} : claims'[d] = claims[d]
    BY <1>2, <2>1, SetStatusEffect DEF IInv, ClaimStatus
  <2>3. UnitsInv'
    BY <1>2, <2>1, AllocateKeepsUnits DEF IInv
  <2>4. TypeOK'
    <3>1. replayed' \subseteq Resource \X Beneficiary
      BY <2>3 DEF UnitsInv, ReplayAgrees, Allocation
    <3> QED BY <1>2, <2>2, <2>3, <3>1 DEF IInv, TypeOK, UnitsInv, Outcome
  <2>5. UnitsBelongToGrantedClaims'
    <3> SUFFICES ASSUME NEW x \in alloc'
                 PROVE  Granted(x.claim)' /\ claims'[x.claim].resource = x.resource
      BY DEF UnitsBelongToGrantedClaims
    <3>1. CASE x \in alloc
      BY <3>1, <1>2, <2>2 DEF IInv, TypeOK, Allocation, UnitsBelongToGrantedClaims, Granted
    <3>2. CASE x \notin alloc
      <4>1. x.claim = c /\ x.resource = claims[c].resource
        BY <1>2, <3>2 DEF Allocate
      <4> QED BY <4>1, <2>2 DEF Granted
    <3> QED BY <3>1, <3>2
  <2>6. NextIdsAreFree'
    BY <1>2, <2>1, <2>2 DEF IInv, NextIdsAreFree, HasClaim
  <2> QED BY <2>3, <2>4, <2>5, <2>6 DEF IInv
<1> QED BY <1>1, <1>2 DEF GrantOp

\* A change of status of a claim that holds nothing.
LEMMA StatusKeeps ==
  ASSUME IInv, NEW c \in ClaimId, HasClaim(c), ~Granted(c),
         NEW s \in ClaimStatus, SetStatus(c, s), outcome' = "ok",
         UNCHANGED <<registered, commitments, alloc, replayed, claimSeq, commitSeq>>
  PROVE  IInv'
<1>1. /\ claims' \in [ClaimId -> Claim \union {NoClaim}]
      /\ claims'[c].status = s
      /\ \A d \in ClaimId \ {c} : claims'[d] = claims[d]
  BY SetStatusEffect DEF IInv
<1>2. TypeOK'
  BY <1>1 DEF IInv, TypeOK, Outcome
<1>3. UnitsInv'
  BY DEF IInv, UnitsInv, CapacityRespected, OneUnitPerGroup, OneRowPerUnit, ReplayAgrees
<1>4. UnitsBelongToGrantedClaims'
  BY <1>1 DEF IInv, TypeOK, Allocation, UnitsBelongToGrantedClaims, Granted
<1>5. NextIdsAreFree'
  BY <1>1 DEF IInv, NextIdsAreFree, HasClaim
<1> QED BY <1>2, <1>3, <1>4, <1>5 DEF IInv

LEMMA VoidKeeps ==
  ASSUME IInv, NEW c \in ClaimId, VoidClaim(c)
  PROVE  IInv'
<1>1. CASE NoEffect("ledger_error") \/ NoEffect("ok")
  BY <1>1, NoEffectKeeps DEF Outcome
<1>2. CASE /\ Granted(c)
           /\ Deallocate(c, claims[c].resource, Holders(c))
           /\ SetStatus(c, "voided")
           /\ outcome' = "ok"
           /\ UNCHANGED <<registered, commitments, claimSeq, commitSeq>>
  <2>1. HasClaim(c)
    BY <1>2 DEF Granted, HasClaim
  <2>2. /\ claims' \in [ClaimId -> Claim \union {NoClaim}]
        /\ \A d \in ClaimId \ {c} : claims'[d] = claims[d]
    BY <1>2, <2>1, SetStatusEffect DEF IInv, ClaimStatus
  <2>3. \A x \in alloc : x.claim = c => x.resource = claims[c].resource
    BY DEF IInv, UnitsBelongToGrantedClaims
  <2>4. UnitsInv'
    BY <1>2, <2>3, DeallocateKeepsUnits DEF IInv
  <2>5. TypeOK'
    <3>1. replayed' \subseteq Resource \X Beneficiary
      BY <2>4 DEF UnitsInv, ReplayAgrees, Allocation
    <3> QED BY <1>2, <2>2, <2>4, <3>1 DEF IInv, TypeOK, UnitsInv, Outcome
  <2>6. \A x \in alloc' : x \in alloc /\ x.claim # c
    BY <1>2, <2>3 DEF Deallocate, Holders
  <2>7. UnitsBelongToGrantedClaims'
    BY <2>2, <2>6 DEF IInv, TypeOK, Allocation, UnitsBelongToGrantedClaims, Granted
  <2>8. NextIdsAreFree'
    BY <1>2, <2>1, <2>2 DEF IInv, NextIdsAreFree, HasClaim
  <2> QED BY <2>4, <2>5, <2>7, <2>8 DEF IInv
<1>3. CASE /\ claims[c].status \in {"blocked", "withdrawn"}
           /\ UNCHANGED <<alloc, replayed>>
           /\ SetStatus(c, "voided")
           /\ outcome' = "ok"
           /\ UNCHANGED <<registered, commitments, claimSeq, commitSeq>>
  <2>1. HasClaim(c) /\ ~Granted(c)
    BY <1>3 DEF HasClaim, Granted
  <2> QED BY <1>3, <2>1, StatusKeeps DEF ClaimStatus
<1> QED BY <1>1, <1>2, <1>3 DEF VoidClaim, Granted

LEMMA ReopenKeeps ==
  ASSUME IInv, Reopen
  PROVE  IInv'
<1>1. UNCHANGED <<registered, commitments, claims, alloc, replayed>>
  BY DEF Reopen, tables
<1>2. TypeOK'
  BY <1>1 DEF IInv, TypeOK, Reopen, Outcome
<1>3. claimSeq' \in Nat /\ commitSeq' \in Nat
  BY <1>2, BoundsAssumption DEF TypeOK
<1>4. NextIdsAreFree'
  BY <1>1, <1>3, BoundsAssumption DEF Reopen, NextIdsAreFree, HasClaim, ClaimId, CommitId
<1> QED BY <1>1, <1>2, <1>4, UnitsUntouched DEF IInv

LEMMA StepIInv == IInv /\ [Next]_vars => IInv'
<1> SUFFICES ASSUME IInv, [Next]_vars PROVE IInv'
  OBVIOUS
<1>1. ASSUME NEW r \in Resource, RegisterResource(r) PROVE IInv'
  <2>1. CASE NoEffect("ledger_error")
    BY <2>1, NoEffectKeeps DEF Outcome
  <2>2. CASE /\ registered' = registered \union {r}
             /\ outcome' = "ok"
             /\ UNCHANGED <<commitments, claims, alloc, claimSeq, commitSeq, replayed>>
    <3>1. TypeOK' /\ NextIdsAreFree'
      BY <2>2 DEF IInv, TypeOK, Outcome, NextIdsAreFree, HasClaim
    <3> QED BY <2>2, <3>1, UnitsUntouched DEF IInv
  <2> QED BY <1>1, <2>1, <2>2 DEF RegisterResource
<1>2. ASSUME NEW a \in Agent, NEW p \in Proposal, Commit(a, p) PROVE IInv'
  BY <1>2, CommitKeeps
<1>3. ASSUME NEW m \in CommitId, NEW p \in Proposal, NEW n \in BOOLEAN, Reveal(m, p, n)
      PROVE  IInv'
  BY <1>3, RevealKeeps
<1>4. ASSUME NEW p \in Proposal, SubmitPlain(p) PROVE IInv'
  <2>1. /\ commitments' \in [CommitId -> Commitment \union {NoCommitment}]
        /\ \A k \in CommitId : k > commitSeq => commitments'[k].state = "absent"
        /\ 0 \in 0..MaxCommits
    BY <1>4, BoundsAssumption DEF SubmitPlain, IInv, TypeOK, NextIdsAreFree
  <2> QED BY <1>4, <2>1, InsertKeeps DEF SubmitPlain
<1>5. ASSUME NEW a \in Agent, NEW c \in ClaimId, NEW l \in BenList, Release(a, c, l)
      PROVE  IInv'
  BY <1>5, NoEffectKeeps, GiveBackKeeps DEF Release, Outcome, ClaimStatus
<1>6. ASSUME NEW c \in ClaimId, NEW l \in BenList, RevokeOp(c, l) PROVE IInv'
  BY <1>6, NoEffectKeeps, GiveBackKeeps DEF RevokeOp, Outcome, ClaimStatus
<1>7. ASSUME NEW c \in ClaimId, NEW l \in BenList, GrantOp(c, l) PROVE IInv'
  BY <1>7, GrantKeeps
<1>8. ASSUME NEW a \in Agent, NEW c \in ClaimId, Withdraw(a, c) PROVE IInv'
  <2>1. CASE NoEffect("ledger_error")
    BY <2>1, NoEffectKeeps DEF Outcome
  <2>2. CASE claims[c].status = "blocked" /\ ~NoEffect("ledger_error")
    <3>1. HasClaim(c) /\ ~Granted(c)
      BY <2>2 DEF HasClaim, Granted
    <3> QED BY <1>8, <2>2, <3>1, StatusKeeps DEF Withdraw, ClaimStatus
  <2> QED BY <1>8, <2>1, <2>2 DEF Withdraw
<1>9. ASSUME NEW c \in ClaimId, VoidClaim(c) PROVE IInv'
  BY <1>9, VoidKeeps
<1>10. CASE Reopen
  BY <1>10, ReopenKeeps
<1>11. CASE UNCHANGED vars
  BY <1>11, UnitsUntouched DEF vars, IInv, TypeOK, NextIdsAreFree, HasClaim
<1> QED
  BY <1>1, <1>2, <1>3, <1>4, <1>5, <1>6, <1>7, <1>8, <1>9, <1>10, <1>11 DEF Next
-----------------------------------------------------------------------------
(* The theorems *)

LEMMA Invariance == Spec => []IInv
BY InitIInv, StepIInv, PTL DEF Spec

\* Every table the ledger writes keeps the rows and statuses its readers can
\* parse, whatever sequence of calls, failed calls and reopenings led here.
THEOREM Typing == Spec => []TypeOK
<1>1. IInv => TypeOK
  BY DEF IInv
<1> QED BY <1>1, Invariance, PTL

\* I1, for any number of resources and beneficiaries: grants by claims and by
\* rulings never exceed a capacity (_try_allocate, the capacity trigger).
THEOREM Capacity_I1 == Spec => []CapacityRespected
<1>1. IInv => CapacityRespected
  BY DEF IInv, UnitsInv
<1> QED BY <1>1, Invariance, PTL

\* I1, exclusivity: one unit of a group per beneficiary (_try_allocate).
THEOREM Exclusivity_I1 == Spec => []OneUnitPerGroup
<1>1. IInv => OneUnitPerGroup
  BY DEF IInv, UnitsInv
<1> QED BY <1>1, Invariance, PTL

\* I5: the log alone gives the manifest (verify.py, replay_manifest).
THEOREM Replay_I5 == Spec => []ReplayAgrees
<1>1. IInv => ReplayAgrees
  BY DEF IInv, UnitsInv
<1> QED BY <1>1, Invariance, PTL

\* The ids the ledger takes next have no row yet, however claims were refused
\* and the ledger reopened over the same database (_resume_ids).
THEOREM FreshIds == Spec => []NextIdsAreFree
<1>1. IInv => NextIdsAreFree
  BY DEF IInv
<1> QED BY <1>1, Invariance, PTL

\* No unit outlives the claim it was given to (_deallocate and its callers).
THEOREM NoOrphanUnits == Spec => []UnitsBelongToGrantedClaims
<1>1. IInv => UnitsBelongToGrantedClaims
  BY DEF IInv
<1> QED BY <1>1, Invariance, PTL
-----------------------------------------------------------------------------
(* The ledger implements UnitAllocation *)

\* What TryAllocate checks is at least what Take asks for.
LEMMA GrantedIsTake ==
  ASSUME IInv, NEW c \in ClaimId, NEW r \in Resource, NEW l \in BenList,
         \A x \in alloc : x.claim # c,
         TryAllocate(r, l) = "granted", Allocate(c, r, l.bens)
  PROVE  Units!Next
<1>1. FitsCapacity(r, l) /\ FitsGroup(r, l) /\ SchemaAccepts(r, l)
  BY DEF TryAllocate
<1>2. Cardinality(Units!UnitsOut(r)) + Cardinality(l.bens) <= Capacity[r]
  <2> DEFINE out == {x \in alloc : x.resource = r}
  <2>1. Cardinality(out) \in Nat
    BY FS_Subset, FS_CardinalityType DEF IInv, UnitsInv
  <2>2. Cardinality(out) + Length(l) <= Capacity[r] /\ Capacity[r] \in Nat
    BY <1>1, CapacityAssumption DEF FitsCapacity, Used
  <2>3. /\ Length(l) \in Nat /\ Cardinality(l.bens) \in Nat
        /\ Cardinality(l.bens) <= Length(l)
    BY LengthBound
  <2>4. Cardinality(out) + Cardinality(l.bens) <= Capacity[r]
    BY <2>1, <2>2, <2>3
  <2> QED BY <2>4 DEF Units!UnitsOut
<1>3. Units!CanTake(r, l.bens)
  <2>1. ASSUME NEW x \in alloc, x.ben \in l.bens PROVE x.resource # r
    BY <1>1, <2>1 DEF SchemaAccepts
  <2>2. ASSUME NEW x \in alloc, x.ben \in l.bens, Group[r] # NoGroup
        PROVE  Group[x.resource] # Group[r]
    <3>1. HeldInGroup(r, x.ben) = {}
      BY <1>1, <2>2 DEF FitsGroup
    <3> QED BY <2>2, <3>1 DEF HeldInGroup
  <2>3. \A S : Units!Cardinality(S) = Cardinality(S)
    BY DEF Units!Cardinality, Cardinality
  <2> QED BY <1>2, <2>1, <2>2, <2>3 DEF Units!CanTake
<1>4. Units!UnitsOf(c) = {}
  BY DEF Units!UnitsOf
<1>5. Units!Take(c, r, l.bens)
  BY <1>3, <1>4 DEF Units!Take, Allocate
<1>6. l.bens \in SUBSET Beneficiary
  BY DEF BenList
<1> QED BY <1>5, <1>6 DEF Units!Next

LEMMA DeallocateIsGiveBack ==
  ASSUME NEW c \in ClaimId, NEW r, NEW S, Deallocate(c, r, S)
  PROVE  Units!Next
<1> DEFINE gone == {x \in alloc : x.claim = c /\ x.resource = r /\ x.ben \in S}
<1>1. gone \in SUBSET Units!UnitsOf(c)
  BY DEF Units!UnitsOf
<1>2. alloc' = alloc \ gone
  BY DEF Deallocate
<1>3. Units!GiveBack(c, gone)
  BY <1>1, <1>2 DEF Units!GiveBack
<1> QED BY <1>1, <1>3 DEF Units!Next

LEMMA InsertIsTake ==
  ASSUME IInv, NEW p \in Proposal, NEW m, claimSeq < MaxClaims,
         claimSeq' = claimSeq + 1, InsertAndApply(claimSeq', p, m)
  PROVE  Units!Next \/ UNCHANGED alloc
<1> DEFINE l == Listing(p.bens)
<1>1. claimSeq' \in ClaimId /\ claimSeq' > claimSeq
  BY BoundsAssumption DEF IInv, TypeOK, ClaimId
<1>2. \A x \in alloc : x.claim # claimSeq'
  BY <1>1 DEF IInv, NextIdsAreFree, UnitsBelongToGrantedClaims, Granted, HasClaim
<1>3. l \in BenList /\ l.bens = p.bens /\ p.resource \in Resource
  BY DEF Listing, BenList, Proposal
<1>4. \/ UNCHANGED alloc
      \/ /\ TryAllocate(p.resource, l) = "granted"
         /\ Allocate(claimSeq', p.resource, l.bens)
  BY <1>3 DEF InsertAndApply
<1> QED BY <1>1, <1>2, <1>3, <1>4, GrantedIsTake

LEMMA StepUnits == IInv /\ [Next]_vars => [Units!Next]_alloc
<1> SUFFICES ASSUME IInv, [Next]_vars PROVE Units!Next \/ UNCHANGED alloc
  OBVIOUS
<1>1. ASSUME NEW r \in Resource, RegisterResource(r) PROVE UNCHANGED alloc
  BY <1>1 DEF RegisterResource, NoEffect, tables
<1>2. ASSUME NEW a \in Agent, NEW p \in Proposal, Commit(a, p) PROVE UNCHANGED alloc
  BY <1>2 DEF Commit
<1>3. ASSUME NEW m \in CommitId, NEW p \in Proposal, NEW n \in BOOLEAN, Reveal(m, p, n)
      PROVE  Units!Next \/ UNCHANGED alloc
  BY <1>3, InsertIsTake DEF Reveal, NoEffect, tables, RevealMismatch, RevealMatch
<1>4. ASSUME NEW p \in Proposal, SubmitPlain(p) PROVE Units!Next \/ UNCHANGED alloc
  BY <1>4, InsertIsTake DEF SubmitPlain
<1>5. ASSUME NEW a \in Agent, NEW c \in ClaimId, NEW l \in BenList, Release(a, c, l)
      PROVE  Units!Next \/ UNCHANGED alloc
  BY <1>5, DeallocateIsGiveBack DEF Release, GiveBack, NoEffect, tables
<1>6. ASSUME NEW c \in ClaimId, NEW l \in BenList, RevokeOp(c, l)
      PROVE  Units!Next \/ UNCHANGED alloc
  BY <1>6, DeallocateIsGiveBack DEF RevokeOp, GiveBack, NoEffect, tables
<1>7. ASSUME NEW c \in ClaimId, NEW l \in BenList, GrantOp(c, l)
      PROVE  Units!Next \/ UNCHANGED alloc
  <2>1. CASE NoEffect("ledger_error") \/ NoEffect("integrity_violation")
    BY <2>1 DEF NoEffect, tables
  <2>2. CASE /\ claims[c].status = "blocked"
             /\ TryAllocate(claims[c].resource, l) = "granted"
             /\ Allocate(c, claims[c].resource, l.bens)
    <3>1. claims[c].resource \in Resource
      BY <2>2, RowIsClaim DEF HasClaim, IInv, Claim
    <3>2. \A x \in alloc : x.claim # c
      BY <2>2 DEF IInv, UnitsBelongToGrantedClaims, Granted
    <3> QED BY <2>2, <3>1, <3>2, GrantedIsTake
  <2> QED BY <1>7, <2>1, <2>2 DEF GrantOp
<1>8. ASSUME NEW a \in Agent, NEW c \in ClaimId, Withdraw(a, c) PROVE UNCHANGED alloc
  BY <1>8 DEF Withdraw, NoEffect, tables
<1>9. ASSUME NEW c \in ClaimId, VoidClaim(c) PROVE Units!Next \/ UNCHANGED alloc
  BY <1>9, DeallocateIsGiveBack DEF VoidClaim, NoEffect, tables
<1>10. CASE Reopen
  BY <1>10 DEF Reopen, tables
<1>11. CASE UNCHANGED vars
  BY <1>11 DEF vars
<1> QED
  BY <1>1, <1>2, <1>3, <1>4, <1>5, <1>6, <1>7, <1>8, <1>9, <1>10, <1>11 DEF Next

\* Bids, rulings, failures and reopenings seen from the units alone: one claim
\* at a time takes units that fit or gives its own back.
THEOREM ImplementsUnits == Spec => UnitsSpec
<1>1. Init => Units!Init
  BY DEF Init, Units!Init
<1> QED BY <1>1, StepUnits, Invariance, PTL DEF Spec, UnitsSpec, Units!Spec
-----------------------------------------------------------------------------
(* Finished claims, and the seals *)

LEMMA StepFinished ==
  ASSUME IInv, [Next]_vars, NEW k \in ClaimId,
         claims[k].status \in {"revoked", "released", "voided", "withdrawn"}
  PROVE  claims'[k].status \in {claims[k].status, "voided"}
<1> DEFINE Good == claims'[k].status \in {claims[k].status, "voided"}
<1>1. ASSUME UNCHANGED claims PROVE Good
  BY <1>1
<1>2. ASSUME NEW kind, NoEffect(kind) PROVE Good
  BY <1>2 DEF NoEffect, tables
<1>3. ASSUME NEW c \in ClaimId, HasClaim(c), NEW s \in ClaimStatus, SetStatus(c, s),
             c # k \/ s = "voided"
      PROVE  Good
  BY <1>3, SetStatusEffect DEF IInv
<1>4. ASSUME NEW p, NEW m, claimSeq < MaxClaims, claimSeq' = claimSeq + 1,
             InsertAndApply(claimSeq', p, m)
      PROVE  Good
  <2>1. claimSeq' # k
    BY <1>4 DEF IInv, TypeOK, NextIdsAreFree, HasClaim, ClaimId
  <2> QED BY <1>4, <2>1 DEF InsertAndApply, IInv, TypeOK
<1>5. ASSUME NEW a, NEW p, Commit(a, p) PROVE Good
  BY <1>5, <1>1 DEF Commit
<1>6. ASSUME NEW m \in CommitId, NEW p, NEW n, Reveal(m, p, n) PROVE Good
  BY <1>6, <1>1, <1>2, <1>4 DEF Reveal, RevealMismatch, RevealMatch
<1>7. ASSUME NEW p, SubmitPlain(p) PROVE Good
  BY <1>7, <1>4 DEF SubmitPlain
<1>8. ASSUME NEW c \in ClaimId, NEW l, NEW s \in ClaimStatus, Granted(c), GiveBack(c, l, s)
      PROVE  Good
  <2>1. c # k /\ HasClaim(c)
    BY <1>8 DEF Granted, HasClaim
  <2> QED BY <1>8, <2>1, <1>1, <1>3 DEF GiveBack
<1>9. ASSUME NEW a, NEW c \in ClaimId, NEW l, Release(a, c, l) PROVE Good
  BY <1>9, <1>2, <1>8 DEF Release, ClaimStatus
<1>10. ASSUME NEW c \in ClaimId, NEW l, RevokeOp(c, l) PROVE Good
  BY <1>10, <1>2, <1>8 DEF RevokeOp, ClaimStatus
<1>11. ASSUME NEW c \in ClaimId, NEW l, GrantOp(c, l) PROVE Good
  <2>1. CASE claims[c].status = "blocked" /\ SetStatus(c, "granted")
    <3>1. c # k /\ HasClaim(c)
      BY <2>1 DEF HasClaim
    <3> QED BY <2>1, <3>1, <1>3 DEF ClaimStatus
  <2> QED BY <1>11, <2>1, <1>2 DEF GrantOp
<1>12. ASSUME NEW a, NEW c \in ClaimId, Withdraw(a, c) PROVE Good
  <2>1. CASE claims[c].status = "blocked" /\ SetStatus(c, "withdrawn")
    <3>1. c # k /\ HasClaim(c)
      BY <2>1 DEF HasClaim
    <3> QED BY <2>1, <3>1, <1>3 DEF ClaimStatus
  <2> QED BY <1>12, <2>1, <1>2 DEF Withdraw
<1>13. ASSUME NEW c \in ClaimId, VoidClaim(c) PROVE Good
  BY <1>13, <1>2, <1>3 DEF VoidClaim, ClaimStatus, HasClaim
<1>14. ASSUME NEW r, RegisterResource(r) PROVE Good
  BY <1>14, <1>1, <1>2 DEF RegisterResource
<1>15. ASSUME Reopen PROVE Good
  BY <1>15, <1>1 DEF Reopen, tables
<1>16. CASE UNCHANGED vars
  BY <1>16 DEF vars
<1> QED
  BY <1>5, <1>6, <1>7, <1>9, <1>10, <1>11, <1>12, <1>13, <1>14, <1>15, <1>16 DEF Next

\* release, the rulings' ops, withdraw_claim and void_claim never bring a
\* finished claim back, in any order and after any failure.
THEOREM NoRevival == Spec => FinishedClaimsStayFinished
<1>1. IInv /\ [Next]_vars =>
        [\A c \in ClaimId :
           claims[c].status \in {"revoked", "released", "voided", "withdrawn"}
           => claims'[c].status \in {claims[c].status, "voided"}]_vars
  BY StepFinished
<1> QED BY <1>1, Invariance, PTL DEF Spec, FinishedClaimsStayFinished

\* A claim's seal as seen by one claim.
SealHolds(c) ==
  HasClaim(c) /\ claims[c].commit # 0 =>
    LET m == commitments[claims[c].commit]
    IN /\ m.state = "accepted" /\ m.claim = c
       /\ m.agent = claims[c].agent
       /\ m.digest = [agent |-> claims[c].agent, resource |-> claims[c].resource,
                      bens |-> claims[c].bens]

\* A seal survives steps that keep the claim's own columns and every
\* commitment that was already accepted.
LEMMA SealKept ==
  ASSUME IInv, NEW c \in ClaimId, SealHolds(c),
         \A m \in CommitId : commitments[m].state = "accepted"
                             => commitments'[m] = commitments[m],
         HasClaim(c)' => /\ HasClaim(c)
                         /\ claims'[c].agent = claims[c].agent
                         /\ claims'[c].resource = claims[c].resource
                         /\ claims'[c].bens = claims[c].bens
                         /\ claims'[c].commit = claims[c].commit
  PROVE  SealHolds(c)'
<1>1. HasClaim(c) /\ claims[c].commit # 0 => claims[c].commit \in CommitId
  BY RowIsClaim, BoundsAssumption DEF IInv, Claim, CommitId
<1> QED BY <1>1 DEF SealHolds

\* The claim a reveal or a plain submission inserts matches its seal.
LEMMA SealInserted ==
  ASSUME IInv, NEW p \in Proposal, NEW m \in 0..MaxCommits,
         claimSeq < MaxClaims, claimSeq' = claimSeq + 1,
         InsertAndApply(claimSeq', p, m),
         m # 0 => commitments'[m] = [agent |-> p.agent, digest |-> p,
                                     state |-> "accepted", claim |-> claimSeq'],
         \A k \in CommitId : commitments[k].state = "accepted"
                             => commitments'[k] = commitments[k],
         NEW c \in ClaimId, SealHolds(c)
  PROVE  SealHolds(c)'
<1> DEFINE row(s) == [agent |-> p.agent, resource |-> p.resource, bens |-> p.bens,
                      status |-> s, commit |-> m]
<1>1. \/ UNCHANGED claims
      \/ \E s \in {"blocked", "granted"} : claims' = [claims EXCEPT ![claimSeq'] = row(s)]
  BY DEF InsertAndApply
<1>2. CASE UNCHANGED claims \/ c # claimSeq'
  <2>1. claims'[c] = claims[c]
    BY <1>1, <1>2 DEF IInv, TypeOK
  <2> QED BY <2>1, SealKept DEF HasClaim
<1>3. CASE ~UNCHANGED claims /\ c = claimSeq'
  <2>1. PICK s \in {"blocked", "granted"} : claims'[c] = row(s)
    BY <1>1, <1>3 DEF IInv, TypeOK
  <2>2. p = [agent |-> p.agent, resource |-> p.resource, bens |-> p.bens]
    BY DEF Proposal
  <2> QED BY <1>3, <2>1, <2>2 DEF SealHolds
<1> QED BY <1>2, <1>3

LEMMA StepSeals ==
  ASSUME IInv, [Next]_vars, NEW k \in ClaimId, SealHolds(k)
  PROVE  SealHolds(k)'
<1>1. ASSUME UNCHANGED <<claims, commitments>> PROVE SealHolds(k)'
  BY <1>1 DEF SealHolds, HasClaim
<1>2. ASSUME NEW kind, NoEffect(kind) PROVE SealHolds(k)'
  BY <1>2, <1>1 DEF NoEffect, tables
<1>3. ASSUME NEW c \in ClaimId, HasClaim(c), NEW s \in ClaimStatus, SetStatus(c, s),
             UNCHANGED commitments
      PROVE  SealHolds(k)'
  <2>1. CASE k = c
    BY <1>3, <2>1, SetStatusEffect, SealKept DEF IInv
  <2>2. CASE k # c
    <3>1. claims'[k] = claims[k]
      BY <1>3, <2>2, SetStatusEffect DEF IInv
    <3> QED BY <1>3, <3>1, SealKept DEF HasClaim
  <2> QED BY <2>1, <2>2
<1>4. ASSUME NEW a \in Agent, NEW p \in Proposal, Commit(a, p) PROVE SealHolds(k)'
  <2>1. commitSeq' \in CommitId /\ commitSeq' > commitSeq
    BY <1>4, BoundsAssumption DEF Commit, IInv, TypeOK, CommitId
  <2>2. \A m \in CommitId : commitments[m].state = "accepted"
                            => commitments'[m] = commitments[m]
    BY <1>4, <2>1 DEF Commit, IInv, TypeOK, NextIdsAreFree
  <2> QED BY <1>4, <2>2, SealKept DEF Commit, HasClaim
<1>5. ASSUME NEW m \in CommitId, NEW p \in Proposal, NEW n \in BOOLEAN, Reveal(m, p, n)
      PROVE  SealHolds(k)'
  <2>1. CASE NoEffect("ledger_error")
    BY <2>1, <1>2
  <2>2. CASE CanReveal(m, p) /\ RevealMismatch(m)
    <3>1. \A j \in CommitId : commitments[j].state = "accepted"
                              => commitments'[j] = commitments[j]
      BY <2>2 DEF CanReveal, RevealMismatch, IInv, TypeOK
    <3> QED BY <2>2, <3>1, SealKept DEF RevealMismatch, HasClaim
  <2>3. CASE CanReveal(m, p) /\ p = commitments[m].digest /\ RevealMatch(m, p)
    <3>1. \A j \in CommitId : commitments[j].state = "accepted"
                              => commitments'[j] = commitments[j]
      BY <2>3 DEF CanReveal, RevealMatch, IInv, TypeOK
    <3>2. commitments[m] \in Commitment
      BY <2>3 DEF CanReveal, IInv, TypeOK, NoCommitment
    <3>3. commitments'[m] = [commitments[m] EXCEPT !.state = "accepted",
                                                   !.claim = claimSeq']
      BY <2>3 DEF RevealMatch, IInv, TypeOK
    <3>4. commitments'[m] = [agent |-> p.agent, digest |-> p, state |-> "accepted",
                             claim |-> claimSeq']
      BY <2>3, <3>2, <3>3 DEF Commitment, CanReveal
    <3>5. m \in 0..MaxCommits
      BY BoundsAssumption DEF CommitId
    <3> QED BY <2>3, <3>1, <3>4, <3>5, SealInserted DEF RevealMatch
  <2> QED BY <1>5, <2>1, <2>2, <2>3 DEF Reveal
<1>6. ASSUME NEW p \in Proposal, SubmitPlain(p) PROVE SealHolds(k)'
  <2>1. 0 \in 0..MaxCommits
    BY BoundsAssumption
  <2> QED BY <1>6, <2>1, SealInserted DEF SubmitPlain
<1>7. ASSUME NEW c \in ClaimId, NEW l, NEW s \in ClaimStatus, Granted(c), GiveBack(c, l, s)
      PROVE  SealHolds(k)'
  <2>1. HasClaim(c)
    BY <1>7 DEF Granted, HasClaim
  <2> QED BY <1>7, <2>1, <1>1, <1>3 DEF GiveBack
<1>8. ASSUME NEW a, NEW c \in ClaimId, NEW l, Release(a, c, l) PROVE SealHolds(k)'
  BY <1>8, <1>2, <1>7 DEF Release, ClaimStatus
<1>9. ASSUME NEW c \in ClaimId, NEW l, RevokeOp(c, l) PROVE SealHolds(k)'
  BY <1>9, <1>2, <1>7 DEF RevokeOp, ClaimStatus
<1>10. ASSUME NEW c \in ClaimId, NEW l, GrantOp(c, l) PROVE SealHolds(k)'
  <2>1. CASE claims[c].status = "blocked" /\ SetStatus(c, "granted") /\ UNCHANGED commitments
    <3>1. HasClaim(c)
      BY <2>1 DEF HasClaim
    <3> QED BY <2>1, <3>1, <1>3 DEF ClaimStatus
  <2> QED BY <1>10, <2>1, <1>2 DEF GrantOp
<1>11. ASSUME NEW a, NEW c \in ClaimId, Withdraw(a, c) PROVE SealHolds(k)'
  <2>1. CASE claims[c].status = "blocked" /\ SetStatus(c, "withdrawn") /\ UNCHANGED commitments
    <3>1. HasClaim(c)
      BY <2>1 DEF HasClaim
    <3> QED BY <2>1, <3>1, <1>3 DEF ClaimStatus
  <2> QED BY <1>11, <2>1, <1>2 DEF Withdraw
<1>12. ASSUME NEW c \in ClaimId, VoidClaim(c) PROVE SealHolds(k)'
  BY <1>12, <1>2, <1>3 DEF VoidClaim, ClaimStatus, HasClaim
<1>13. ASSUME NEW r, RegisterResource(r) PROVE SealHolds(k)'
  BY <1>13, <1>1, <1>2 DEF RegisterResource
<1>14. ASSUME Reopen \/ UNCHANGED vars PROVE SealHolds(k)'
  BY <1>14, <1>1 DEF Reopen, tables, vars
<1> QED
  BY <1>4, <1>5, <1>6, <1>8, <1>9, <1>10, <1>11, <1>12, <1>13, <1>14 DEF Next

\* I4 for every number of commitments: a sealed claim is what was sealed, and
\* a commitment is good for one claim (reveal).
THEOREM Seals_I4 == Spec => []ClaimsMatchTheirSeals
<1> DEFINE Seals == \A c \in ClaimId : SealHolds(c)
<1>1. Init => Seals
  BY DEF Init, SealHolds, HasClaim, NoClaim
<1>2. IInv /\ Seals /\ [Next]_vars => Seals'
  BY StepSeals
<1>3. Seals => ClaimsMatchTheirSeals
  BY DEF SealHolds, ClaimsMatchTheirSeals
<1> QED BY <1>1, <1>2, <1>3, Invariance, PTL DEF Spec
-----------------------------------------------------------------------------
(* The bank *)

\* How many contests of a are in one status.
Count(a, status) == Cardinality(In(a, status))

BankInv == BankTypeOK /\ BalanceIsAccountedFor

LEMMA InFinite ==
  ASSUME NEW a, NEW s
  PROVE  IsFiniteSet(In(a, s)) /\ Count(a, s) \in Nat
<1>1. IsFiniteSet(ContestId)
  BY MaxContestsAssumption, FS_Interval DEF ContestId
<1>2. IsFiniteSet(In(a, s))
  BY <1>1, FS_Subset DEF In
<1> QED BY <1>2, FS_CardinalityType DEF Count

\* The counts after contest x is opened by a: one more that is open.
LEMMA CountsOpened ==
  ASSUME NEW a, NEW t, NEW x \in ContestId,
         contests \in [ContestId -> Contest \union {NoContest}],
         contests[x].status = "absent",
         contests' = [contests EXCEPT ![x] = [agent |-> a, target |-> t, status |-> "open"]],
         NEW b
  PROVE  /\ Count(b, "open")' = Count(b, "open") + (IF b = a THEN 1 ELSE 0)
         /\ Count(b, "lost")' = Count(b, "lost")
         /\ Count(b, "won")' = Count(b, "won")
<1>1. In(b, "lost")' = In(b, "lost") /\ In(b, "won")' = In(b, "won")
  BY DEF In
<1>2. CASE b = a
  <2>1. In(b, "open")' = In(b, "open") \union {x} /\ x \notin In(b, "open")
    BY <1>2 DEF In
  <2> QED BY <1>1, <1>2, <2>1, InFinite, FS_AddElement DEF Count
<1>3. CASE b # a
  <2>1. In(b, "open")' = In(b, "open")
    BY <1>3 DEF In
  <2> QED BY <1>1, <1>3, <2>1, InFinite DEF Count
<1> QED BY <1>2, <1>3

\* The counts after the open contest x ends as s: one fewer open, one more s.
LEMMA CountsClosed ==
  ASSUME NEW x \in ContestId, NEW s \in {"won", "lost", "void"},
         contests \in [ContestId -> Contest \union {NoContest}],
         contests[x].status = "open",
         contests' = [contests EXCEPT ![x].status = s],
         NEW b
  PROVE  LET mine == IF b = contests[x].agent THEN 1 ELSE 0
         IN  /\ Count(b, "open")' = Count(b, "open") - mine
             /\ Count(b, "lost")' = Count(b, "lost") + (IF s = "lost" THEN mine ELSE 0)
             /\ Count(b, "won")' = Count(b, "won") + (IF s = "won" THEN mine ELSE 0)
             /\ Count(b, "open") >= mine
<1>1. contests[x] \in Contest
  BY DEF NoContest
<1>2. /\ contests'[x].status = s /\ contests'[x].agent = contests[x].agent
      /\ \A y \in ContestId \ {x} : contests'[y] = contests[y]
  BY <1>1 DEF Contest
<1>3. CASE b = contests[x].agent
  <2>1. In(b, "open")' = In(b, "open") \ {x} /\ x \in In(b, "open")
    BY <1>2, <1>3 DEF In
  <2>2. Count(b, "open")' = Count(b, "open") - 1
    BY <2>1, InFinite, FS_RemoveElement DEF Count
  <2>3. Count(b, "open") >= 1
    <3>1. Count(b, "open") # 0
      BY <2>1, InFinite, FS_EmptySet DEF Count
    <3> QED BY <3>1, InFinite
  <2>4. ASSUME NEW z \in {"won", "lost"}
        PROVE  Count(b, z)' = Count(b, z) + (IF s = z THEN 1 ELSE 0)
    <3>1. CASE s = z
      <4>1. In(b, z)' = In(b, z) \union {x} /\ x \notin In(b, z)
        BY <1>2, <1>3, <3>1 DEF In
      <4> QED BY <4>1, <3>1, InFinite, FS_AddElement DEF Count
    <3>2. CASE s # z
      <4>1. In(b, z)' = In(b, z)
        BY <1>2, <1>3, <3>2 DEF In
      <4> QED BY <4>1, <3>2, InFinite DEF Count
    <3> QED BY <3>1, <3>2
  <2> QED BY <1>3, <2>2, <2>3, <2>4
<1>4. CASE b # contests[x].agent
  <2>1. \A z : In(b, z)' = In(b, z)
    BY <1>2, <1>4 DEF In
  <2> QED BY <1>4, <2>1, InFinite DEF Count
<1> QED BY <1>3, <1>4

LEMMA OneMore ==
  ASSUME NEW k \in Nat, NEW n \in Nat
  PROVE  k * (n + 1) = k * n + k /\ k * n \in Nat
OBVIOUS

\* One account's balance sheet.
Accounted(a) ==
  balance[a] + ContestCost * (Count(a, "open") + Count(a, "lost"))
    = Budget[a] + Premium * Count(a, "won")

LEMMA BankInitInv == BankInit => BankInv
<1> SUFFICES ASSUME BankInit PROVE BankInv
  OBVIOUS
<1>1. BankTypeOK
  BY BudgetAssumption, MaxContestsAssumption
     DEF BankInit, BankTypeOK, NoContest, Answer, ContestId
<1>2. ASSUME NEW a \in Account PROVE Accounted(a)
  <2>1. ASSUME NEW z \in {"open", "lost", "won"} PROVE In(a, z) = {}
    BY DEF BankInit, In, NoContest
  <2>2. Count(a, "open") = 0 /\ Count(a, "lost") = 0 /\ Count(a, "won") = 0
    BY <2>1, FS_EmptySet DEF Count
  <2>3. balance[a] = Budget[a] /\ Budget[a] \in Nat
    BY BudgetAssumption DEF BankInit
  <2> QED BY <2>2, <2>3, PriceAssumption DEF Accounted
<1> QED BY <1>1, <1>2 DEF BankInv, BalanceIsAccountedFor, Accounted, Count

LEMMA UnchangedKeeps ==
  ASSUME BankInv, NEW how \in Answer, BankUnchanged(how)
  PROVE  BankInv'
BY DEF BankInv, BankUnchanged, BankTypeOK, BalanceIsAccountedFor, In

LEMMA OpenKeeps ==
  ASSUME BankInv, NEW a \in Filer, NEW t \in Target, OpenContest(a, t)
  PROVE  BankInv'
<1>1. CASE \E how \in Answer : BankUnchanged(how)
  BY <1>1, UnchangedKeeps
<1>2. CASE /\ a \in Account /\ CanContest(a) /\ ~HasOpen(a, t)
           /\ contestSeq < MaxContests
           /\ contestSeq' = contestSeq + 1
           /\ balance' = [balance EXCEPT ![a] = @ - ContestCost]
           /\ contests' = [contests EXCEPT ![contestSeq'] =
                [agent |-> a, target |-> t, status |-> "open"]]
           /\ answer' = "ok"
  <2>1. contestSeq' \in ContestId /\ contestSeq' \in 0..MaxContests /\ contestSeq \in Nat
    BY <1>2, MaxContestsAssumption DEF BankInv, BankTypeOK, ContestId
  <2>2. contests[contestSeq'].status = "absent"
    BY <1>2, <2>1 DEF BankInv, BankTypeOK
  <2>3. balance[a] \in Nat /\ balance[a] >= ContestCost /\ balance[a] - ContestCost \in Nat
    BY <1>2, PriceAssumption DEF BankInv, BankTypeOK, CanContest
  <2>4. BankTypeOK'
    <3>1. [agent |-> a, target |-> t, status |-> "open"] \in Contest
      BY <1>2 DEF Contest
    <3>2. balance' \in [Account -> Nat]
          /\ contests' \in [ContestId -> Contest \union {NoContest}]
      BY <1>2, <2>3, <3>1 DEF BankInv, BankTypeOK
    <3>3. \A x \in ContestId : contests'[x].status # "absent" <=> x <= contestSeq'
      BY <1>2, <2>1 DEF BankInv, BankTypeOK, ContestId
    <3> QED BY <1>2, <2>1, <3>2, <3>3 DEF BankTypeOK, Answer
  <2>5. ASSUME NEW b \in Account PROVE Accounted(b)'
    <3> DEFINE n == Count(b, "open") + Count(b, "lost")
    <3>1. /\ Count(b, "open")' = Count(b, "open") + (IF b = a THEN 1 ELSE 0)
          /\ Count(b, "lost")' = Count(b, "lost")
          /\ Count(b, "won")' = Count(b, "won")
      BY <1>2, <2>1, <2>2, CountsOpened DEF BankInv, BankTypeOK
    <3>2. n \in Nat /\ Count(b, "won") \in Nat /\ Count(b, "open") \in Nat
          /\ Count(b, "lost") \in Nat
      BY InFinite
    <3>3. balance[b] + ContestCost * n = Budget[b] + Premium * Count(b, "won")
      BY DEF BankInv, BalanceIsAccountedFor, Count
    <3>4. ContestCost * (n + 1) = ContestCost * n + ContestCost
          /\ ContestCost * n \in Nat /\ ContestCost \in Nat
      BY <3>2, PriceAssumption, OneMore
    <3>5. CASE b = a
      <4>1. balance'[b] = balance[b] - ContestCost /\ balance[b] \in Nat
        BY <1>2, <3>5 DEF BankInv, BankTypeOK
      <4>2. Count(b, "open")' + Count(b, "lost")' = n + 1
        BY <3>1, <3>2, <3>5
      <4>3. (balance[b] - ContestCost) + (ContestCost * n + ContestCost)
              = balance[b] + ContestCost * n
        BY <4>1, <3>4
      <4> QED BY <3>1, <3>3, <3>4, <4>1, <4>2, <4>3 DEF Accounted
    <3>6. CASE b # a
      <4>1. balance'[b] = balance[b]
        BY <1>2, <3>6 DEF BankInv, BankTypeOK
      <4>2. Count(b, "open")' = Count(b, "open")
        BY <3>1, <3>2, <3>6
      <4> QED BY <3>1, <3>3, <4>1, <4>2 DEF Accounted
    <3> QED BY <3>5, <3>6
  <2> QED BY <2>4, <2>5 DEF BankInv, BalanceIsAccountedFor, Accounted, Count
<1> QED BY <1>1, <1>2 DEF OpenContest, Answer

\* The three ways a contest ends, with what each pays.
Payoff == {<<"won", ContestCost + Premium>>, <<"lost", 0>>, <<"void", ContestCost>>}

LEMMA CloseKeeps ==
  ASSUME BankInv, NEW x \in ContestId, NEW end \in Payoff,
         Close(x, end[1], end[2])
  PROVE  BankInv'
<1> DEFINE s == end[1]
           refund == end[2]
<1>1. CASE BankUnchanged("currency_error")
  BY <1>1, UnchangedKeeps DEF Answer
<1>2. CASE /\ contests[x].status = "open"
           /\ contests' = [contests EXCEPT ![x].status = s]
           /\ balance' = [balance EXCEPT ![contests[x].agent] = @ + refund]
           /\ answer' = "ok"
           /\ UNCHANGED contestSeq
  <2>1. contests[x] \in Contest /\ contests[x].agent \in Account
    BY <1>2 DEF BankInv, BankTypeOK, NoContest, Contest
  <2>2. s \in {"won", "lost", "void"} /\ refund \in Nat
    BY PriceAssumption DEF Payoff
  <2>3. BankTypeOK'
    <3>1. [contests[x] EXCEPT !.status = s] \in Contest
      BY <2>1, <2>2 DEF Contest
    <3>2. /\ contests' \in [ContestId -> Contest \union {NoContest}]
          /\ contests'[x].status = s
          /\ \A y \in ContestId \ {x} : contests'[y] = contests[y]
      BY <1>2, <2>1, <3>1 DEF BankInv, BankTypeOK, Contest
    <3>3. balance' \in [Account -> Nat]
      BY <1>2, <2>1, <2>2 DEF BankInv, BankTypeOK
    <3>4. \A y \in ContestId : contests'[y].status # "absent" <=> y <= contestSeq'
      BY <1>2, <2>2, <3>2 DEF BankInv, BankTypeOK
    <3> QED BY <1>2, <3>2, <3>3, <3>4 DEF BankInv, BankTypeOK, Answer
  <2>4. ASSUME NEW b \in Account PROVE Accounted(b)'
    <3> DEFINE mine == IF b = contests[x].agent THEN 1 ELSE 0
               out == Count(b, "open") + Count(b, "lost")
               won == Count(b, "won")
    <3>1. /\ Count(b, "open")' = Count(b, "open") - mine
          /\ Count(b, "lost")' = Count(b, "lost") + (IF s = "lost" THEN mine ELSE 0)
          /\ Count(b, "won")' = won + (IF s = "won" THEN mine ELSE 0)
          /\ Count(b, "open") >= mine
      BY <1>2, <2>2, CountsClosed DEF BankInv, BankTypeOK
    <3>2. /\ Count(b, "open") \in Nat /\ Count(b, "lost") \in Nat /\ won \in Nat
          /\ out \in Nat
      BY InFinite
    <3>3. balance[b] + ContestCost * out = Budget[b] + Premium * won
      BY DEF BankInv, BalanceIsAccountedFor, Count
    <3>4. ContestCost \in Nat /\ Premium \in Nat /\ balance[b] \in Nat /\ Budget[b] \in Nat
      BY PriceAssumption, BudgetAssumption DEF BankInv, BankTypeOK
    <3>5. CASE b # contests[x].agent
      <4>1. balance'[b] = balance[b]
        BY <1>2, <2>1, <3>5 DEF BankInv, BankTypeOK
      <4>2. /\ Count(b, "open")' = Count(b, "open")
            /\ Count(b, "lost")' = Count(b, "lost")
            /\ Count(b, "won")' = won
        BY <3>1, <3>2, <3>5
      <4> QED BY <3>3, <4>1, <4>2 DEF Accounted
    <3>6. CASE b = contests[x].agent
      <4>1. balance'[b] = balance[b] + refund
        BY <1>2, <2>1, <3>6 DEF BankInv, BankTypeOK
      <4>2. CASE s = "lost"
        <5>1. refund = 0
          BY <4>2 DEF Payoff
        <5>2. Count(b, "open")' + Count(b, "lost")' = out /\ Count(b, "won")' = won
          BY <3>1, <3>2, <3>6, <4>2
        <5>3. balance'[b] = balance[b]
          BY <4>1, <5>1, <3>4
        <5> QED BY <3>3, <5>2, <5>3 DEF Accounted
      <4>3. CASE s # "lost"
        <5> DEFINE m == out - 1
        <5>1. m \in Nat /\ out = m + 1 /\ Count(b, "open")' + Count(b, "lost")' = m
          BY <3>1, <3>2, <3>6, <4>3
        <5>2. ContestCost * out = ContestCost * m + ContestCost /\ ContestCost * m \in Nat
          BY <3>4, <5>1, OneMore
        <5>3. balance[b] + ContestCost + ContestCost * m = Budget[b] + Premium * won
          BY <3>3, <3>4, <5>2
        <5>4. CASE s = "void"
          <6>1. refund = ContestCost /\ Count(b, "won")' = won
            BY <3>1, <3>2, <5>4 DEF Payoff
          <6> QED BY <4>1, <5>1, <5>3, <6>1 DEF Accounted
        <5>5. CASE s = "won"
          <6>1. refund = ContestCost + Premium /\ Count(b, "won")' = won + 1
            BY <3>1, <3>2, <3>6, <5>5 DEF Payoff
          <6>2. Premium * (won + 1) = Premium * won + Premium /\ Premium * won \in Nat
            BY <3>2, <3>4, OneMore
          <6>3. (balance[b] + refund) + ContestCost * m = Budget[b] + Premium * (won + 1)
            BY <3>4, <5>2, <5>3, <6>1, <6>2
          <6> QED BY <4>1, <5>1, <6>1, <6>3 DEF Accounted
        <5> QED BY <2>2, <4>3, <5>4, <5>5
      <4> QED BY <4>2, <4>3
    <3> QED BY <3>5, <3>6
  <2> QED BY <2>3, <2>4 DEF BankInv, BalanceIsAccountedFor, Accounted, Count
<1> QED BY <1>1, <1>2 DEF Close

LEMMA BankStepInv == BankInv /\ [BankNext]_bankVars => BankInv'
<1> SUFFICES ASSUME BankInv, [BankNext]_bankVars PROVE BankInv'
  OBVIOUS
<1>1. ASSUME NEW a \in Filer, NEW t \in Target, OpenContest(a, t) PROVE BankInv'
  BY <1>1, OpenKeeps
<1>2. ASSUME NEW x \in ContestId, NEW won \in BOOLEAN, Settle(x, won) PROVE BankInv'
  <2>1. <<"won", ContestCost + Premium>> \in Payoff /\ <<"lost", 0>> \in Payoff
    BY DEF Payoff
  <2>2. CASE won
    BY <1>2, <2>1, <2>2, CloseKeeps DEF Settle
  <2>3. CASE ~won
    BY <1>2, <2>1, <2>3, CloseKeeps DEF Settle
  <2> QED BY <2>2, <2>3
<1>3. ASSUME NEW x \in ContestId, VoidContest(x) PROVE BankInv'
  <2>1. <<"void", ContestCost>> \in Payoff
    BY DEF Payoff
  <2> QED BY <1>3, <2>1, CloseKeeps DEF VoidContest
<1>4. CASE BankReopen
  <2>1. contestSeq' = contestSeq
    BY <1>4, MaxContestsAssumption DEF BankReopen, BankInv, BankTypeOK, ContestId
  <2> QED BY <1>4, <2>1
          DEF BankReopen, BankInv, BankTypeOK, Answer, BalanceIsAccountedFor, In
<1>5. CASE UNCHANGED bankVars
  BY <1>5 DEF bankVars, BankInv, BankTypeOK, BalanceIsAccountedFor, In
<1> QED BY <1>1, <1>2, <1>3, <1>4, <1>5 DEF BankNext

LEMMA BankInvariance == BankSpec => []BankInv
BY BankInitInv, BankStepInv, PTL DEF BankSpec

\* A step leaves the contests alone, opens one under a new id, or ends an open one.
LEMMA ContestsChange ==
  ASSUME BankInv, [BankNext]_bankVars
  PROVE  \/ UNCHANGED contests
         \/ \E a \in Account, t \in Target, x \in ContestId :
              /\ contests[x].status = "absent" /\ ~HasOpen(a, t)
              /\ contests' = [contests EXCEPT ![x] =
                   [agent |-> a, target |-> t, status |-> "open"]]
         \/ \E x \in ContestId, s \in {"won", "lost", "void"} :
              /\ contests[x].status = "open"
              /\ contests' = [contests EXCEPT ![x].status = s]
<1>1. ASSUME NEW a \in Filer, NEW t \in Target, OpenContest(a, t), contests' # contests
      PROVE  \E x \in ContestId :
               /\ a \in Account /\ contests[x].status = "absent" /\ ~HasOpen(a, t)
               /\ contests' = [contests EXCEPT ![x] =
                    [agent |-> a, target |-> t, status |-> "open"]]
  <2>1. /\ a \in Account /\ ~HasOpen(a, t) /\ contestSeq < MaxContests
        /\ contestSeq' = contestSeq + 1
        /\ contests' = [contests EXCEPT ![contestSeq'] =
             [agent |-> a, target |-> t, status |-> "open"]]
    BY <1>1 DEF OpenContest, BankUnchanged
  <2>2. contestSeq' \in ContestId /\ ~(contestSeq' <= contestSeq)
    BY <2>1, MaxContestsAssumption DEF BankInv, BankTypeOK, ContestId
  <2>3. contests[contestSeq'].status = "absent"
    BY <2>2 DEF BankInv, BankTypeOK
  <2> QED BY <2>1, <2>2, <2>3
<1>2. ASSUME NEW x \in ContestId, NEW s, NEW refund, Close(x, s, refund), contests' # contests
      PROVE  contests[x].status = "open" /\ contests' = [contests EXCEPT ![x].status = s]
  BY <1>2 DEF Close, BankUnchanged
<1>3. CASE \E a \in Filer, t \in Target : OpenContest(a, t)
  BY <1>1, <1>3
<1>4. CASE \E x \in ContestId, won \in BOOLEAN : Settle(x, won)
  BY <1>2, <1>4 DEF Settle
<1>5. CASE \E x \in ContestId : VoidContest(x)
  BY <1>2, <1>5 DEF VoidContest
<1>6. CASE BankReopen \/ UNCHANGED bankVars
  BY <1>6 DEF BankReopen, bankVars
<1> QED BY <1>3, <1>4, <1>5, <1>6 DEF BankNext
-----------------------------------------------------------------------------
(* The theorems *)

\* No sequence of contests, settlements, voids and reopenings overdraws an
\* account (open_contest's can_contest before the charge).
THEOREM BankTyping == BankSpec => []BankTypeOK
<1>1. BankInv => BankTypeOK
  BY DEF BankInv
<1> QED BY <1>1, BankInvariance, PTL

\* The utility formula of currency.py as a conservation law, for every budget,
\* stake and premium and any number of contests.
THEOREM Conservation == BankSpec => []BalanceIsAccountedFor
<1>1. BankInv => BalanceIsAccountedFor
  BY DEF BankInv
<1> QED BY <1>1, BankInvariance, PTL

LEMMA StepOneOpen ==
  ASSUME BankInv, OneOpenContestPerTarget, [BankNext]_bankVars
  PROVE  OneOpenContestPerTarget'
<1> SUFFICES ASSUME NEW a \in Account,
                    NEW x \in In(a, "open")', NEW y \in In(a, "open")',
                    contests'[x].target = contests'[y].target
             PROVE  x = y
  BY DEF OneOpenContestPerTarget
<1>1. x \in ContestId /\ y \in ContestId
  BY DEF In
<1>2. CASE UNCHANGED contests
  BY <1>2 DEF OneOpenContestPerTarget, In
<1>3. ASSUME NEW b \in Account, NEW t \in Target, NEW z \in ContestId, ~HasOpen(b, t),
             contests' = [contests EXCEPT ![z] = [agent |-> b, target |-> t, status |-> "open"]]
      PROVE  x = y
  <2>1. contests'[z] = [agent |-> b, target |-> t, status |-> "open"]
        /\ \A k \in ContestId \ {z} : contests'[k] = contests[k]
    BY <1>3 DEF BankInv, BankTypeOK
  <2>2. CASE x # z /\ y # z
    BY <1>1, <2>1, <2>2 DEF OneOpenContestPerTarget, In
  <2>3. ASSUME NEW k \in {x, y}, k # z, z \in {x, y} PROVE FALSE
    <3>1. a = b /\ contests'[k].target = t
      BY <1>1, <2>1, <2>3 DEF In
    <3>2. k \in In(b, "open") /\ contests[k].target = t
      BY <1>1, <2>1, <2>3, <3>1 DEF In
    <3> QED BY <1>3, <3>2 DEF HasOpen
  <2> QED BY <2>2, <2>3
<1>4. ASSUME NEW z \in ContestId, NEW s \in {"won", "lost", "void"}, contests[z].status = "open",
             contests' = [contests EXCEPT ![z].status = s]
      PROVE  x = y
  <2>1. contests[z] \in Contest
    BY <1>4 DEF BankInv, BankTypeOK, NoContest
  <2>2. contests'[z].status = s /\ \A k \in ContestId \ {z} : contests'[k] = contests[k]
    BY <1>4, <2>1 DEF BankInv, BankTypeOK, Contest
  <2>3. x # z /\ y # z
    BY <2>2 DEF In
  <2> QED BY <1>1, <2>2, <2>3 DEF OneOpenContestPerTarget, In
<1> QED BY <1>2, <1>3, <1>4, ContestsChange

\* Nobody has two stakes out on one claim, through any number of refused and
\* settled contests and reopenings (open_contest's look for an open duplicate).
THEOREM OneStakePerTarget == BankSpec => []OneOpenContestPerTarget
<1>1. BankInit => OneOpenContestPerTarget
  BY DEF BankInit, OneOpenContestPerTarget, In, NoContest
<1>2. BankInv /\ OneOpenContestPerTarget /\ [BankNext]_bankVars => OneOpenContestPerTarget'
  BY StepOneOpen
<1> QED BY <1>1, <1>2, BankInvariance, PTL DEF BankSpec

\* settle, void_contest and the next open_contest never touch a contest that
\* has ended.
THEOREM PaidOnce == BankSpec => ContestsCloseOnce
<1>1. ASSUME BankInv, [BankNext]_bankVars, NEW x \in ContestId,
             contests[x].status \in {"won", "lost", "void"}
      PROVE  contests'[x] = contests[x]
  <2>1. ASSUME NEW z \in ContestId, NEW new, contests[z].status = "absent",
               contests' = [contests EXCEPT ![z] = new]
        PROVE  contests'[x] = contests[x]
    BY <1>1, <2>1 DEF BankInv, BankTypeOK
  <2>2. ASSUME NEW z \in ContestId, NEW s, contests[z].status = "open",
               contests' = [contests EXCEPT ![z].status = s]
        PROVE  contests'[x] = contests[x]
    BY <1>1, <2>2 DEF BankInv, BankTypeOK
  <2> QED BY <1>1, <2>1, <2>2, ContestsChange
<1>2. BankInv /\ [BankNext]_bankVars =>
        [\A x \in ContestId : contests[x].status \in {"won", "lost", "void"}
            => contests'[x] = contests[x]]_bankVars
  BY <1>1
<1> QED BY <1>2, BankInvariance, PTL DEF BankSpec, ContestsCloseOnce
=============================================================================
