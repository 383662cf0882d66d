--------------------------- MODULE UnitAllocation ---------------------------
(***************************************************************************)
(* What the ledger promises about units, without claims' life cycles,      *)
(* sealed bids or rulings: a claim that holds nothing takes units of one   *)
(* resource in one step, no step touches the units of two claims, and      *)
(* capacity and exclusivity hold throughout.  ClaimLedger implements this. *)
(***************************************************************************)
EXTENDS Naturals, FiniteSets

CONSTANTS Resource, Beneficiary, ClaimId, Capacity, Group, NoGroup

VARIABLE held    \* the units out: [resource, ben, claim]

UnitsOf(c) == {x \in held : x.claim = c}
UnitsOut(r) == {x \in held : x.resource = r}

\* Whether handing r to everybody in S keeps capacity and exclusivity.
CanTake(r, S) ==
  /\ Cardinality(UnitsOut(r)) + Cardinality(S) <= Capacity[r]
  /\ \A x \in held : x.ben \in S =>
       /\ x.resource # r
       /\ Group[r] # NoGroup => Group[x.resource] # Group[r]

Init == held = {}

\* A claim that holds nothing takes units of one resource, all or nothing.
Take(c, r, S) ==
  /\ UnitsOf(c) = {}
  /\ CanTake(r, S)
  /\ held' = held \union [resource : {r}, ben : S, claim : {c}]

\* Some of one claim's units go back; nobody else's do.
GiveBack(c, S) ==
  /\ S \subseteq UnitsOf(c)
  /\ held' = held \ S

Next ==
  \/ \E c \in ClaimId, r \in Resource, S \in SUBSET Beneficiary : Take(c, r, S)
  \/ \E c \in ClaimId : \E S \in SUBSET UnitsOf(c) : GiveBack(c, S)

Spec == Init /\ [][Next]_held
=============================================================================
