---------------------------- MODULE ClaimLedger ----------------------------
(***************************************************************************)
(* The claim ledger (src/src/tarmac_society/ledger.py): resources with a   *)
(* capacity and an optional exclusivity group, sealed bids, claims and the *)
(* allocations the claims hold.  One action is one call of a public        *)
(* method, with everything that call does to the database and to the       *)
(* decision log.                                                           *)
(*                                                                         *)
(* Abstractions.  A digest is the proposal it seals.  A list of            *)
(* beneficiaries is a set plus the fact that it names somebody twice; an   *)
(* absent list (None) is the list of all holders, or of the claim's own    *)
(* beneficiaries, which the callers may pass as well.  Of the decision log *)
(* only the replayed alloc / dealloc stream is kept: it is what            *)
(* verify.py rebuilds.  Rounds, payloads and wording are left out.         *)
(***************************************************************************)
EXTENDS Naturals, FiniteSets

CONSTANTS Agent, Resource, Beneficiary,
          Capacity,     \* Resource -> Nat, the registered capacity
          Group,        \* Resource -> exclusivity group or NoGroup
          NoGroup,
          MaxClaims,    \* bound: claim ids issued by one ledger object
          MaxCommits    \* bound: commitments recorded

ASSUME CapacityAssumption == Capacity \in [Resource -> Nat]
ASSUME BeneficiaryAssumption == IsFiniteSet(Beneficiary)
ASSUME BoundsAssumption == MaxClaims \in Nat /\ MaxCommits \in Nat

VARIABLES
  registered,   \* the resources table
  commitments,  \* the commitments table
  claims,       \* the claims table
  alloc,        \* the allocations table
  claimSeq,     \* ClaimLedger._claim_seq
  commitSeq,    \* ClaimLedger._commit_seq
  replayed,     \* the manifest the logged alloc / dealloc events replay to
  outcome       \* how the last call ended

tables == <<registered, commitments, claims, alloc>>
vars == <<registered, commitments, claims, alloc, claimSeq, commitSeq,
          replayed, outcome>>

ClaimId == 1..MaxClaims
CommitId == 1..MaxCommits

Proposal == [agent : Agent, resource : Resource,
             bens : (SUBSET Beneficiary) \ {{}}]

\* A list of beneficiaries: who it names, and whether it names one twice.
BenList == {l \in [bens : SUBSET Beneficiary, repeats : BOOLEAN] :
              l.repeats => l.bens # {}}
Listing(S) == [bens |-> S, repeats |-> FALSE]
Length(l) == Cardinality(l.bens) + (IF l.repeats THEN 1 ELSE 0)

NoCommitment == [state |-> "absent"]
Commitment == [agent : Agent, digest : Proposal,
               state : {"sealed", "accepted", "rejected"},
               claim : 0..MaxClaims]

ClaimStatus == {"granted", "blocked", "revoked", "released", "voided",
                "withdrawn"}
NoClaim == [status |-> "absent"]
Claim == [agent : Agent, resource : Resource,
          bens : (SUBSET Beneficiary) \ {{}}, status : ClaimStatus,
          commit : 0..MaxCommits]
Allocation == [resource : Resource, ben : Beneficiary, claim : ClaimId]

Outcome == {"ok", "rejected", "ledger_error", "integrity_violation"}
-----------------------------------------------------------------------------
(* State functions *)

HasClaim(c) == claims[c].status # "absent"
Granted(c) == claims[c].status = "granted"
Holders(c) == {a.ben : a \in {x \in alloc : x.claim = c}}

\* SELECT COUNT( * ) FROM allocations WHERE resource_id = r
Used(r) == Cardinality({x \in alloc : x.resource = r})

\* What b holds in the exclusivity group of r.
HeldInGroup_SameResource(r, b) == {x \in alloc : x.ben = b /\ x.resource = r}
HeldInGroup(r, b) == {x \in alloc : x.ben = b /\ Group[x.resource] = Group[r]}

FitsGroup_Unchecked(r, l) == TRUE
FitsCapacity_OneIsEnough(r, l) == Used(r) < Capacity[r]
FitsCapacity(r, l) == Used(r) + Length(l) <= Capacity[r]
FitsGroup(r, l) ==
  Group[r] # NoGroup => \A b \in l.bens : HeldInGroup(r, b) = {}

\* The capacity trigger, the primary key and the group index of the schema.
SchemaAccepts(r, l) ==
  /\ FitsCapacity(r, l)
  /\ FitsGroup(r, l)
  /\ ~l.repeats
  /\ \A x \in alloc : ~(x.resource = r /\ x.ben \in l.bens)

TryAllocate(r, l) ==
  IF ~FitsCapacity(r, l) \/ ~FitsGroup(r, l) THEN "blocked"
  ELSE IF ~SchemaAccepts(r, l) THEN "integrity_violation"
  ELSE "granted"
-----------------------------------------------------------------------------
(* Steps the methods share *)

\* A call that ends with the database and the log as they were.
NoEffect(kind) ==
  outcome' = kind /\ UNCHANGED <<tables, claimSeq, commitSeq, replayed>>

\* Rows inserted, and one alloc event logged for each.
Allocate(c, r, S) ==
  /\ alloc' = alloc \union [resource : {r}, ben : S, claim : {c}]
  /\ replayed' = replayed \union {<<r, b>> : b \in S}

\* Rows deleted, and one dealloc event logged for each.
Deallocate_Unlogged(c, r, S) ==
  /\ alloc' = {x \in alloc : ~(x.claim = c /\ x.resource = r /\ x.ben \in S)}
  /\ UNCHANGED replayed
Deallocate_AllOfTheResource(c, r, S) ==
  /\ alloc' = {x \in alloc : x.resource # r}
  /\ replayed' = {u \in replayed : u[1] # r}
Deallocate(c, r, S) ==
  /\ alloc' = {x \in alloc : ~(x.claim = c /\ x.resource = r /\ x.ben \in S)}
  /\ replayed' = replayed \ {<<r, b>> : b \in S}

\* _deallocate raises, and rolls back, unless every entry of the list is held.
CanDeallocate(c, l) == l.bens \subseteq Holders(c) /\ ~l.repeats

SetStatus(c, status) == claims' = [claims EXCEPT ![c].status = status]

\* Giving back some of what c holds; the claim ends once nothing is left.
GiveBack(c, l, final) ==
  /\ CanDeallocate(c, l)
  /\ Deallocate(c, claims[c].resource, l.bens)
  /\ IF Holders(c) = l.bens THEN SetStatus(c, final) ELSE UNCHANGED claims
  /\ outcome' = "ok"
  /\ UNCHANGED <<registered, commitments, claimSeq, commitSeq>>

\* The second half of reveal and submit_plain: the row and the attempt to
\* allocate are one transaction, which an integrity violation rolls back.
InsertAndApply(c, p, m) ==
  LET verdict == TryAllocate(p.resource, Listing(p.bens))
      Insert(status) ==
        claims' = [claims EXCEPT ![c] =
          [agent |-> p.agent, resource |-> p.resource, bens |-> p.bens,
           status |-> status, commit |-> m]]
  IN \/ /\ p.resource \notin registered
        /\ outcome' = "ledger_error"
        /\ UNCHANGED <<claims, alloc, replayed>>
     \/ /\ p.resource \in registered
        /\ verdict = "integrity_violation"
        /\ outcome' = "integrity_violation"
        /\ UNCHANGED <<claims, alloc, replayed>>
     \/ /\ p.resource \in registered
        /\ verdict = "blocked"
        /\ Insert("blocked")
        /\ outcome' = "ok"
        /\ UNCHANGED <<alloc, replayed>>
     \/ /\ p.resource \in registered
        /\ verdict = "granted"
        /\ Insert("granted")
        /\ Allocate(c, p.resource, p.bens)
        /\ outcome' = "ok"
-----------------------------------------------------------------------------
(* The operations *)

Init ==
  /\ registered = {}
  /\ commitments = [m \in CommitId |-> NoCommitment]
  /\ claims = [c \in ClaimId |-> NoClaim]
  /\ alloc = {}
  /\ claimSeq = 0
  /\ commitSeq = 0
  /\ replayed = {}
  /\ outcome = "ok"

RegisterResource(r) ==
  \/ /\ r \in registered
     /\ NoEffect("ledger_error")
  \/ /\ r \notin registered
     /\ registered' = registered \union {r}
     /\ outcome' = "ok"
     /\ UNCHANGED <<commitments, claims, alloc, claimSeq, commitSeq, replayed>>

\* commit: agent a records a digest; nothing says the bid it seals is a's own.
Commit(a, digest) ==
  /\ commitSeq < MaxCommits
  /\ commitSeq' = commitSeq + 1
  /\ commitments' = [commitments EXCEPT ![commitSeq'] =
       [agent |-> a, digest |-> digest, state |-> "sealed", claim |-> 0]]
  /\ outcome' = "ok"
  /\ UNCHANGED <<registered, claims, alloc, claimSeq, replayed>>

CanReveal(m, p) ==
  /\ commitments[m].state = "sealed"
  /\ commitments[m].agent = p.agent

RevealMismatch(m) ==
  /\ commitments' = [commitments EXCEPT ![m].state = "rejected"]
  /\ outcome' = "rejected"
  /\ UNCHANGED <<registered, claims, alloc, claimSeq, commitSeq, replayed>>

\* The commitment is marked, with the id of the claim to be, in a transaction
\* of its own: whatever becomes of the claim, it stays marked.
RevealMatch_Reusable(m, p) ==
  /\ claimSeq < MaxClaims
  /\ claimSeq' = claimSeq + 1
  /\ commitments' = [commitments EXCEPT ![m].claim = claimSeq']
  /\ InsertAndApply(claimSeq', p, m)
  /\ UNCHANGED <<registered, commitSeq>>
RevealMatch(m, p) ==
  /\ claimSeq < MaxClaims
  /\ claimSeq' = claimSeq + 1
  /\ commitments' = [commitments EXCEPT ![m].state = "accepted",
                                        ![m].claim = claimSeq']
  /\ InsertAndApply(claimSeq', p, m)
  /\ UNCHANGED <<registered, commitSeq>>

Reveal(m, p, rightNonce) ==
  \/ ~CanReveal(m, p) /\ NoEffect("ledger_error")
  \/ /\ CanReveal(m, p)
     /\ ~(rightNonce /\ p = commitments[m].digest)
     /\ RevealMismatch(m)
  \/ /\ CanReveal(m, p)
     /\ rightNonce /\ p = commitments[m].digest
     /\ RevealMatch(m, p)

SubmitPlain(p) ==
  /\ claimSeq < MaxClaims
  /\ claimSeq' = claimSeq + 1
  /\ InsertAndApply(claimSeq', p, 0)
  /\ UNCHANGED <<registered, commitments, commitSeq>>

Release(a, c, l) ==
  \/ /\ Granted(c) /\ claims[c].agent = a
     /\ GiveBack(c, l, "released")
  \/ /\ ~(Granted(c) /\ claims[c].agent = a /\ CanDeallocate(c, l))
     /\ NoEffect("ledger_error")

\* apply_ruling_ops with one revoke
RevokeOp(c, l) ==
  \/ Granted(c) /\ GiveBack(c, l, "revoked")
  \/ ~(Granted(c) /\ CanDeallocate(c, l)) /\ NoEffect("ledger_error")

\* apply_ruling_ops with one grant; the list it names is not compared with
\* the claim's own beneficiaries.
GrantOp_AnyStatus(c, l) ==
  /\ HasClaim(c)
  /\ TryAllocate(claims[c].resource, l) = "granted"
  /\ Allocate(c, claims[c].resource, l.bens)
  /\ SetStatus(c, "granted")
  /\ outcome' = "ok"
  /\ UNCHANGED <<registered, commitments, claimSeq, commitSeq>>
GrantOp(c, l) ==
  LET blocked == claims[c].status = "blocked"
      verdict == TryAllocate(claims[c].resource, l)
  IN \/ /\ blocked
        /\ verdict = "granted"
        /\ Allocate(c, claims[c].resource, l.bens)
        /\ SetStatus(c, "granted")
        /\ outcome' = "ok"
        /\ UNCHANGED <<registered, commitments, claimSeq, commitSeq>>
     \/ ~(blocked /\ verdict # "blocked") /\ NoEffect("ledger_error")
     \/ blocked /\ verdict = "integrity_violation" /\ NoEffect("integrity_violation")

Withdraw_Misspelt(a, c) ==
  /\ claims[c].status = "blocked"
  /\ claims[c].agent = a
  /\ SetStatus(c, "yielded")
  /\ outcome' = "ok"
  /\ UNCHANGED <<registered, commitments, alloc, claimSeq, commitSeq, replayed>>
Withdraw(a, c) ==
  \/ /\ claims[c].status = "blocked"
     /\ claims[c].agent = a
     /\ SetStatus(c, "withdrawn")
     /\ outcome' = "ok"
     /\ UNCHANGED <<registered, commitments, alloc, claimSeq, commitSeq, replayed>>
  \/ /\ ~(claims[c].status = "blocked" /\ claims[c].agent = a)
     /\ NoEffect("ledger_error")

\* void_claim, and apply_ruling_ops with one void.  It returns early for a
\* claim that is voided, revoked or released, but not for a withdrawn one.
VoidClaim_KeepsUnits(c) ==
  /\ HasClaim(c)
  /\ claims[c].status \notin {"voided", "revoked", "released"}
  /\ SetStatus(c, "voided")
  /\ outcome' = "ok"
  /\ UNCHANGED <<alloc, replayed, registered, commitments, claimSeq, commitSeq>>
VoidClaim(c) ==
  \/ ~HasClaim(c) /\ NoEffect("ledger_error")
  \/ /\ claims[c].status \in {"voided", "revoked", "released"}
     /\ NoEffect("ok")
  \/ /\ claims[c].status \in {"granted", "blocked", "withdrawn"}
     /\ IF Granted(c)
          THEN Deallocate(c, claims[c].resource, Holders(c))
          ELSE UNCHANGED <<alloc, replayed>>
     /\ SetStatus(c, "voided")
     /\ outcome' = "ok"
     /\ UNCHANGED <<registered, commitments, claimSeq, commitSeq>>

\* A new ClaimLedger over the same storage: the counters come from the tables.
Reopen_FromZero ==
  /\ claimSeq' = 0
  /\ commitSeq' = 0
  /\ outcome' = "ok"
  /\ UNCHANGED <<tables, replayed>>
Reopen ==
  /\ claimSeq' \in {n \in 0..MaxClaims :
       /\ n = 0 \/ HasClaim(n)
       /\ \A c \in ClaimId : HasClaim(c) => c <= n}
  /\ commitSeq' \in {n \in 0..MaxCommits :
       /\ n = 0 \/ commitments[n].state # "absent"
       /\ \A m \in CommitId : commitments[m].state # "absent" => m <= n}
  /\ outcome' = "ok"
  /\ UNCHANGED <<tables, replayed>>

Next ==
  \/ \E r \in Resource : RegisterResource(r)
  \/ \E a \in Agent, p \in Proposal : Commit(a, p)
  \/ \E m \in CommitId, p \in Proposal, rightNonce \in BOOLEAN :
        Reveal(m, p, rightNonce)
  \/ \E p \in Proposal : SubmitPlain(p)
  \/ \E a \in Agent, c \in ClaimId, l \in BenList : Release(a, c, l)
  \/ \E c \in ClaimId, l \in BenList : RevokeOp(c, l)
  \/ \E c \in ClaimId, l \in BenList : GrantOp(c, l)
  \/ \E a \in Agent, c \in ClaimId : Withdraw(a, c)
  \/ \E c \in ClaimId : VoidClaim(c)
  \/ Reopen

Spec == Init /\ [][Next]_vars
-----------------------------------------------------------------------------
(* Properties *)

\* Every row the code can read back parses: statuses, ids and references are
\* ones the tables and ClaimStatus know.
TypeOK ==
  /\ registered \subseteq Resource
  /\ commitments \in [CommitId -> Commitment \union {NoCommitment}]
  /\ claims \in [ClaimId -> Claim \union {NoClaim}]
  /\ alloc \subseteq Allocation
  /\ claimSeq \in 0..MaxClaims
  /\ commitSeq \in 0..MaxCommits
  /\ replayed \subseteq Resource \X Beneficiary
  /\ outcome \in Outcome

\* I1, capacity: no resource has more units out than its capacity, whatever
\* mix of claims, partial releases and ruling grants led here.
CapacityRespected ==
  \A r \in Resource :
    Cardinality({x \in alloc : x.resource = r}) <= Capacity[r]

\* I1, exclusivity: a beneficiary never holds two units of one group, be they
\* of two resources, of two claims, or one of a claim and one of a ruling.
OneUnitPerGroup ==
  \A x, y \in alloc :
    /\ x.ben = y.ben
    /\ Group[x.resource] = Group[y.resource]
    /\ Group[x.resource] # NoGroup
    => x = y

\* I5: replaying the logged alloc / dealloc events gives the allocations the
\* database holds, although the log does not say which claim an event is for.
ReplayAgrees == replayed = {<<x.resource, x.ben>> : x \in alloc}

\* A unit is always held for a claim that stands: no release, revocation,
\* void or withdrawal, partial or whole, leaves a unit behind its claim.
UnitsBelongToGrantedClaims ==
  \A x \in alloc : /\ Granted(x.claim)
                   /\ claims[x.claim].resource = x.resource

\* I4: a claim that came through a sealed bid is the bid that was sealed, by
\* the agent that committed, and one commitment yields at most one claim.
ClaimsMatchTheirSeals ==
  \A c \in ClaimId : HasClaim(c) /\ claims[c].commit # 0 =>
    LET m == commitments[claims[c].commit]
    IN /\ m.state = "accepted" /\ m.claim = c
       /\ m.agent = claims[c].agent
       /\ m.digest = [agent |-> claims[c].agent, resource |-> claims[c].resource,
                      bens |-> claims[c].bens]

\* The ids the next calls will use have no row yet, across reopenings and
\* ids spent on claims that failed: no insert meets a primary key.
NextIdsAreFree ==
  /\ \A c \in ClaimId : c > claimSeq => ~HasClaim(c)
  /\ \A m \in CommitId : m > commitSeq => commitments[m].state = "absent"

\* A claim out of play stays out of play: no sequence of releases, rulings
\* and reopenings brings a finished claim back to granted or blocked.
FinishedClaimsStayFinished ==
  [][\A c \in ClaimId :
       claims[c].status \in {"revoked", "released", "voided", "withdrawn"}
       => claims'[c].status \in {claims[c].status, "voided"}]_vars

\* The ledger implements UnitAllocation: whatever the mix of bids, rulings and
\* failures, units move one claim at a time, all or nothing.
Units == INSTANCE UnitAllocation WITH held <- alloc
UnitsSpec == Units!Spec
-----------------------------------------------------------------------------
(* What the documentation says and the code does not do *)

\* tests/test_ledger.py: "A second ClaimLedger over the same storage must not
\* reuse claim/commit ids."
ClaimIdsNotReused ==
  \A m, n \in CommitId :
    commitments[m].state = "accepted" /\ commitments[n].state = "accepted"
    /\ commitments[m].claim = commitments[n].claim => m = n
=============================================================================
