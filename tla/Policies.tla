------------------------------ MODULE Policies ------------------------------
(***************************************************************************)
(* What the five role agents answer in an offline run: the policies of     *)
(* src/src/tarmac_society/tarmac/personas.py, as functions of the view an  *)
(* agent is given.  A view has                                             *)
(*   round, sc            the round, and the scenario                      *)
(*   granted, blocked     the claims: [id, agent, resource, wish, holders,  *)
(*                        round]; wish lists the beneficiaries as asked for *)
(*   contests             the open contests: [agent, target]               *)
(*   free                 resource -> units left                           *)
(* A bid is [agent, resource, wish]; a position is [agent, stance, target, *)
(* release].  Arguments, citations and concessions are wording, and so is  *)
(* how often a claim that several agents challenge is defended.            *)
(***************************************************************************)
EXTENDS Scenario, SequencesExt

CONSTANTS Wave1   \* WAVE_1_QW519

ASSUME WaveAssumption == Wave1 \in Nat

AgentOrder == <<"rebooking", "crew_legality", "gate_ground", "hotel", "advocate">>

FirstN(s, n) == SubSeq(s, 1, IF n < Len(s) THEN n ELSE Len(s))
Mine(records, me) == {c \in records : c.agent = me}
HeldBy(records) == UNION {c.holders : c \in records}

\* Claims are shown in the order of their ids.
ById(records) == Listed(records, {z \in records \X records : z[1].id < z[2].id})
FirstOf(records) == CHOOSE c \in records : \A d \in records : c.id <= d.id

\* allocated_beneficiaries(group)
Allocated(v, group) == HeldBy({c \in v.granted : GroupOf(c.resource) = group})
Seated(v) == Allocated(v, "seat")

Pending(v, me) ==
  (UNION {ToSet(c.wish) : c \in Mine(v.blocked, me)}) \union HeldBy(Mine(v.granted, me))

BlockedOn(v, me, r) == {c \in Mine(v.blocked, me) : c.resource = r}
IContest(v, me, c) == [agent |-> me, target |-> c] \in v.contests

\* The grants of others on r, of which the one with the most holders comes first.
Rivals(v, me, r) ==
  {c \in v.granted : c.resource = r /\ c.agent # me /\ c.holders # {}}
Largest(records) ==
  CHOOSE c \in records : \A d \in records :
    LET m == Cardinality(c.holders)
        n == Cardinality(d.holders)
    IN m > n \/ (m = n /\ c.id <= d.id)

Bid(me, r, wish) == [agent |-> me, resource |-> r, wish |-> wish]
Take(me, stance, c, release) ==
  [agent |-> me, stance |-> stance, target |-> c, release |-> release]

\* The first rival I do not contest yet is contested.
ContestARival(v, me, r) ==
  LET rivals == {c \in Rivals(v, me, r) : ~IContest(v, me, c.id)}
  IN IF BlockedOn(v, me, r) = {} \/ rivals = {} THEN <<>>
     ELSE <<Take(me, "block", Largest(rivals).id, {})>>
-----------------------------------------------------------------------------
(* Rebooking: fill every seat, the highest connection risk first *)

Candidates_AnyFlight(v, f, taken) ==
  SortedBy(Passenger \ (Seated(v) \union Pending(v, "rebooking") \union taken),
           [p \in Passenger |-> 0 - ConnectionRisk(v.sc, p)])
Candidates(v, f, taken) ==
  SortedBy({p \in Passenger : f \in Legal(v.sc, p)}
             \ (Seated(v) \union Pending(v, "rebooking") \union taken),
           [p \in Passenger |-> 0 - ConnectionRisk(v.sc, p)])

\* One claim per flight of the plan, nobody on two of them.
Fill(v, plan) ==
  LET sofar[n \in 0..Len(plan)] ==
        IF n = 0 THEN [bids |-> <<>>, taken |-> {}]
        ELSE LET last == sofar[n - 1]
                 who == FirstN(Candidates(v, plan[n].flight, last.taken), plan[n].qty)
             IN IF who = <<>> THEN last
                ELSE [bids |-> Append(last.bids,
                                      Bid("rebooking", Seat(v.sc, plan[n].flight), who)),
                      taken |-> last.taken \union ToSet(who)]
  IN sofar[Len(plan)].bids

\* Nothing more is asked of a flight that waits for a ruling.
Undecided(v, f) == BlockedOn(v, "rebooking", Seat(v.sc, f)) # {}
AllFree(v, f) == [flight |-> f, qty |-> v.free[Seat(v.sc, f)]]
UnlessUndecided(v, x) == IF Undecided(v, x.flight) THEN [x EXCEPT !.qty = 0] ELSE x
LateWaves_NoFlexible(v) ==
  LET flights == <<"QW519", "QW602", "QW338", "QW258">>
  IN [i \in DOMAIN flights |-> UnlessUndecided(v, AllFree(v, flights[i]))]
LateWaves(v) ==
  LET flights == <<"QW519", "QW602", "QW338", "QW258", "QW777">>
  IN [i \in DOMAIN flights |-> UnlessUndecided(v, AllFree(v, flights[i]))]

RebookingProposes(v) ==
  LET seats519 == v.free[Seat(v.sc, "QW519")]
      rivals == HeldBy(Rivals(v, "rebooking", Seat(v.sc, "QW519")))
  IN CASE v.round = 1 ->
            <<Bid("rebooking", FerryCrew, <<"C1">>)>>
            \o Fill(v, <<AllFree(v, "QW441"),
                         [flight |-> "QW519",
                          qty |-> IF seats519 < Wave1 THEN seats519 ELSE Wave1]>>)
       [] v.round = 2 ->
            Fill(v, <<UnlessUndecided(v, [flight |-> "QW519",
                                          qty |-> seats519 + Cardinality(rivals)]),
                      AllFree(v, "QW338")>>)
       [] OTHER -> Fill(v, LateWaves(v))

RebookingResponds(v) ==
  LET challenged == ById({c \in Mine(v.granted, "rebooking") :
                            \E x \in v.contests : x.target = c.id})
  IN ContestARival(v, "rebooking", Seat(v.sc, "QW519"))
     \o [i \in DOMAIN challenged |-> Take("rebooking", "support", challenged[i].id, {})]
-----------------------------------------------------------------------------
(* Advocate: protected categories first *)

\* A special passenger who is not seated, and not blocked since less than two
\* rounds, goes to the earliest flight that is in time and has a seat, if that is
\* not the one they wait for.
Waiting(v, p) == {c \in Mine(v.blocked, "advocate") : p \in ToSet(c.wish)}
Patient(v, p) == Waiting(v, p) # {} /\ v.round - FirstOf(Waiting(v, p)).round < 2
Fallbacks(v, p) ==
  {f \in SlaFlights(v.sc, p) :
     /\ Waiting(v, p) # {} => FirstOf(Waiting(v, p)).resource # Seat(v.sc, f)
     /\ v.free[Seat(v.sc, f)] >= 1}

AdvocateProposes(v) ==
  LET wchr == ByPlace(Flagged({"WCHR"}))
      wave == ByPlace(Flagged({"MED"})) \o ByPlace(Flagged({"UM"})) \o <<wchr[1]>>
      moved == ByPlace({p \in SpecialNeeds \ Seated(v) :
                          ~Patient(v, p) /\ Fallbacks(v, p) # {}})
  IN IF v.round = 1
     THEN <<Bid("advocate", Seat(v.sc, "QW441"), wave),
            Bid("advocate", Seat(v.sc, "QW519"), Tail(wchr))>>
     ELSE [i \in DOMAIN moved |->
             Bid("advocate", Seat(v.sc, EarliestArrival(Fallbacks(v, moved[i]))),
                 <<moved[i]>>)]

AdvocateResponds(v) == ContestARival(v, "advocate", Seat(v.sc, "QW441"))
-----------------------------------------------------------------------------
(* Crew legality and gates: both veto the ferry *)

CrewClaims(v, me) ==
  {c \in v.granted : c.resource.kind = "crew" /\ c.agent # me /\ ~IContest(v, me, c.id)}
Veto(me, records) ==
  [i \in DOMAIN ById(records) |-> Take(me, "block", ById(records)[i].id, {})]

CrewLegalityResponds(v) ==
  LET disputed == {c \in v.blocked : c.agent = "advocate" /\ c.resource = Seat(v.sc, "QW441")}
      illegal == {c \in CrewClaims(v, "crew_legality") :
                    v.sc.duty[c.wish[1]] < FerryRequiredDuty}
  IN Veto("crew_legality", illegal)
     \o IF disputed # {} /\ \E x \in v.contests : x.agent = "advocate"
        THEN <<Take("crew_legality", "support", FirstOf(disputed).id, {})>> ELSE <<>>

GateGroundProposes(v) ==
  LET known == Mine(v.granted \union v.blocked, "gate_ground")
      plan == GatePlan(v.sc)
      open == {i \in DOMAIN plan : \A c \in known : c.wish[1] # plan[i].flight}
      next == Listed(open, {z \in open \X open : z[1] < z[2]})
  IN [i \in DOMAIN next |->
        Bid("gate_ground", plan[next[i]].gate, <<plan[next[i]].flight>>)]

GateGroundResponds(v) == Veto("gate_ground", CrewClaims(v, "gate_ground"))
-----------------------------------------------------------------------------
(* Hotel: lodge the stranded, take rooms back from whoever gets a seat *)

HotelProposes(v) ==
  LET rooms == HotelBlock(v.sc)
      stranded == SortedBy(Passenger \ (Seated(v) \union Allocated(v, "hotel")),
                           [p \in Passenger |-> PaxPriority(p) * (NPax + 1) + v.sc.order[p]])
      who == FirstN(stranded, v.free[rooms])
  IN IF v.round < 3 \/ who = <<>> THEN <<>> ELSE <<Bid("hotel", rooms, who)>>

HotelResponds_AllSeated(v) ==
  LET settled == ById({c \in Mine(v.granted, "hotel") : c.holders \intersect Seated(v) # {}})
  IN [i \in DOMAIN settled |-> Take("hotel", "yield", settled[i].id, Seated(v))]
HotelResponds_WholeClaimsOnly(v) ==
  LET settled == ById({c \in Mine(v.granted, "hotel") : c.holders \subseteq Seated(v)})
  IN [i \in DOMAIN settled |-> Take("hotel", "yield", settled[i].id, settled[i].holders)]
HotelResponds(v) ==
  LET settled == ById({c \in Mine(v.granted, "hotel") : c.holders \intersect Seated(v) # {}})
  IN [i \in DOMAIN settled |->
        Take("hotel", "yield", settled[i].id, settled[i].holders \intersect Seated(v))]
-----------------------------------------------------------------------------
(* FakeQwen: the policy registered for a persona answers *)

Proposals(me, v) ==
  CASE me = "rebooking" -> RebookingProposes(v)
    [] me = "advocate" -> AdvocateProposes(v)
    [] me = "gate_ground" -> GateGroundProposes(v)
    [] me = "hotel" -> HotelProposes(v)
    [] OTHER -> <<>>

Positions(me, v) ==
  CASE me = "rebooking" -> RebookingResponds(v)
    [] me = "advocate" -> AdvocateResponds(v)
    [] me = "crew_legality" -> CrewLegalityResponds(v)
    [] me = "gate_ground" -> GateGroundResponds(v)
    [] me = "hotel" -> HotelResponds(v)
-----------------------------------------------------------------------------
(* The single planner (baseline.py): elite, then fare class, then booking    *)
(* order; everybody onto the earliest flight that has a seat.                *)

FareRank == [F |-> 0, J |-> 1, W |-> 2, Y |-> 3]
CommercialKey_ByFareOnly(sc, p) == FareRank[sc.fare[p]] * (NPax + 1)
CommercialKey(sc, p) ==
  ((IF Category[p] = "elite" THEN 0 ELSE 1) * 4 + FareRank[sc.fare[p]]) * (NPax + 1)
    + sc.order[p]

PlannerOrder(sc) == SortedBy(Passenger, [p \in Passenger |-> CommercialKey(sc, p)])

\* The ferry and the gates first, with no word on legality.
PlannerFirst(sc) ==
  <<Bid("single_planner", FerryCrew, <<"C1">>)>>
  \o [i \in DOMAIN GatePlan(sc) |->
        Bid("single_planner", GatePlan(sc)[i].gate, <<GatePlan(sc)[i].flight>>)]

PlannerSeats(sc, p, free) == {f \in Legal(sc, p) : free[Seat(sc, f)] >= 1}
=============================================================================
