--------------------------- MODULE DetectorRounds ---------------------------
(***************************************************************************)
(* The detector over a sequence of rounds: claims change between scans, a  *)
(* ruling may reset a resource.  recent remembers what was contested in    *)
(* the last ContestedRounds scans, so that a streak is defined by what was *)
(* seen and not by how the detector counts it.                             *)
(***************************************************************************)
EXTENDS DeadlockDetector

CONSTANTS Owner,      \* ClaimId -> Agent
          Wanted,     \* ClaimId -> Resource
          CanBe,      \* ClaimId -> the standings the claim may have
          MaxScans,   \* bound: rounds
          MaxChanges  \* bound: claims that change between two scans

ASSUME RowsAssumption == Owner \in [ClaimId -> Agent] /\ Wanted \in [ClaimId -> Resource]

VARIABLES standing,   \* how each claim stands
          recent,     \* what was contested in the latest scans, oldest first
          scans

roundVars == <<detectorVars, standing, recent, scans>>

Standing == {s \in [ClaimId -> {"gone", "blocked", "held", "challenged"}] :
               \A c \in ClaimId : s[c] \in CanBe[c]}
Rows(how) ==
  {[claim |-> c, agent |-> Owner[c], resource |-> Wanted[c]] :
     c \in {d \in ClaimId : standing[d] \in how}}
CurrentView ==
  [blocked |-> Rows({"blocked"}), held |-> Rows({"held", "challenged"}),
   challenged |-> Rows({"challenged"})]

RoundsInit ==
  /\ DetectorInit
  /\ standing \in Standing
  /\ recent = <<>>
  /\ scans = 0

Round ==
  /\ scans < MaxScans
  /\ scans' = scans + 1
  /\ standing' \in {s \in Standing :
       Cardinality({c \in ClaimId : s[c] # standing[c]}) <= MaxChanges}
  /\ Scan(CurrentView')
  /\ recent' =
       LET longer == Append(recent, Contested(CurrentView'))
       IN IF Len(longer) > ContestedRounds THEN Tail(longer) ELSE longer

\* A ruling on a deadlock of r: what was seen of r before it no longer counts.
Ruled(r) ==
  /\ r \in UNION {d.resources : d \in found}
  /\ ResetResources({r})
  /\ recent' = [i \in DOMAIN recent |-> recent[i] \ {r}]
  /\ UNCHANGED <<standing, scans>>

RoundsNext == Round \/ \E r \in Resource : Ruled(r)

RoundsSpec == RoundsInit /\ [][RoundsNext]_roundVars
-----------------------------------------------------------------------------
(* Properties *)

ContestedThroughout(r) ==
  Len(recent) = ContestedRounds /\ \A i \in DOMAIN recent : r \in recent[i]

\* "a resource that stays contested for >= contested_rounds consecutive
\* rounds": by then the claims that contest it are on record as a deadlock of
\* their own, unless the resource escalates through a cycle that is on record.
ContestedEscalates ==
  \A r \in Resource : ContestedThroughout(r) =>
    \/ Key(ContestedDeadlock(CurrentView, r)) \in fired
    \/ \E d \in Cycles(CurrentView) : r \in d.resources /\ Key(d) \in fired

\* No resource is reported as contested before it was, in every one of the
\* last contested_rounds scans since a ruling touched it.  Reports stand until
\* the next scan, so a ruling in between is allowed for.
NoEarlyEscalation ==
  [][\A d \in found' : scans' # scans /\ d.kind = "contested" =>
       \A r \in d.resources : ContestedThroughout(r)']_roundVars

\* Every agent of a reported cycle waits on another agent of that cycle, for
\* a resource the report names and through claims the report names.
ReportedCyclesAreCycles ==
  [][\A d \in found' : scans' # scans /\ d.kind = "cycle" =>
       \A a \in d.agents : \E e \in Waits(CurrentView') :
         /\ e[1].agent = a /\ e[2].agent \in d.agents
         /\ e[1].resource = e[2].resource /\ e[1].resource \in d.resources
         /\ {e[1].claim, e[2].claim} \subseteq d.claims]_roundVars

\* y is in every set that contains x's successors and their successors.
Reaches(E, x, y) ==
  \A S \in SUBSET Agent :
    (\A e \in E : e[1] = x \/ e[1] \in S => e[2] \in S) => y \in S

\* The sets of agents that wait on one another, by the definition of a
\* strongly connected component.
Components(E) ==
  {{y \in Agent : Reaches(E, x, y) /\ Reaches(E, y, x)} :
      x \in {z \in Agent : Reaches(E, z, z)}}

\* "everyone in it is stuck by construction": whoever waits on one another,
\* two agents or a longer ring, is on record as one deadlock with the claims
\* that stand now, and the search reports no other set of agents.
CircularWaitsReported ==
  LET E == Edges(CurrentView)
  IN scans > 0 =>
       /\ \A C \in Components(E) : Key(CycleDeadlock(CurrentView, C)) \in fired
       /\ {d.agents : d \in {x \in found : x.kind = "cycle"}} \subseteq Components(E)
=============================================================================
