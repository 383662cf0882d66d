----------------------------- MODULE DutyManager -----------------------------
(***************************************************************************)
(* The mediator of an offline run: DutyManagerPolicy of                    *)
(* src/src/tarmac_society/tarmac/personas.py.  A ruling is [ops, winners,  *)
(* losers]; an op is [op, claim, bens].  Decisions, rationales and         *)
(* citations are wording; the citations are always ones that resolve.      *)
(***************************************************************************)
EXTENDS Policies

Op(op, c, bens) == [op |-> op, claim |-> c, bens |-> bens]
\* Crews and departures come after every passenger.
Protection(b) == IF b \in Passenger THEN PaxPriority(b) ELSE 9
MostProtected(c) == Min({Protection(c.wish[i]) : i \in DOMAIN c.wish})
ByProtection(records) ==
  Listed(records, {z \in records \X records :
    \/ MostProtected(z[1]) < MostProtected(z[2])
    \/ MostProtected(z[1]) = MostProtected(z[2]) /\ z[1].id < z[2].id})
Contesters(v, c) == {x.agent : x \in {y \in v.contests : y.target = c}}
Named(records, ids) == {c \in records : c.id \in ids}
MayFly_BlockOnly(v, c) == v.sc.duty[c.wish[1]] >= FerryBlock
MayFly(v, c) == v.sc.duty[c.wish[1]] >= FerryRequiredDuty
-----------------------------------------------------------------------------
(* A crew claim is void if the crew's duty does not cover the sector. *)

CrewRecords(v) == {c \in v.granted : c.resource.kind = "crew"}
Illegal(v, records) == {c \in records : ~MayFly(v, c)}
Lawful(v, records) == {c \in records : MayFly(v, c)}
Voids(records) == [i \in DOMAIN ById(records) |-> Op("void", ById(records)[i].id, {})]
Contesting(v, records) == UNION {Contesters(v, c.id) : c \in records}
Claiming(records) == {c.agent : c \in records}

RuleCrew(claims, v) ==
  LET records == Named(CrewRecords(v), claims)
  IN [ops |-> Voids(Illegal(v, records)),
      winners |-> Contesting(v, Illegal(v, records)) \union Claiming(Lawful(v, records)),
      losers |-> Claiming(Illegal(v, records)) \union Contesting(v, Lawful(v, records))]
-----------------------------------------------------------------------------
(* Seats: each blocked claim of the deadlock in turn, most protected first.  *)
(* plan.free and plan.reserved are working_free and reserved: what the ops   *)
(* planned so far leave, and what the bumped passengers will need.           *)

Usable(plan, r) == plan.free[r] - plan.reserved[r]

Alternatives(v, plan, p, r) ==
  {f \in Legal(v.sc, p) : Seat(v.sc, f) # r /\ Usable(plan, Seat(v.sc, f)) >= 1}

\* Who may be bumped for b: holders of other agents, less protected than the
\* best of b, with another flight.  Least protected first; within that by
\* claim, the last id first.
HoldersAgainst(v, b) ==
  UNION {[pax : c.holders, claim : {c.id}, agent : {c.agent}] :
           c \in {d \in v.granted : d.resource = b.resource /\ d.agent # b.agent}}
ByExposure(S) ==
  Listed(S, {z \in S \X S :
    LET m == PaxPriority(z[1].pax)
        n == PaxPriority(z[2].pax)
    IN \/ m > n
       \/ m = n /\ z[1].claim < z[2].claim
       \/ m = n /\ z[1].claim = z[2].claim /\ Place[z[1].pax] > Place[z[2].pax]})
Bumpable_Anybody(v, plan, b) ==
  ByExposure({x \in HoldersAgainst(v, b) : Alternatives(v, plan, x.pax, b.resource) # {}})
Bumpable(v, plan, b) ==
  ByExposure({x \in HoldersAgainst(v, b) :
    /\ PaxPriority(x.pax) > MostProtected(b)
    /\ Alternatives(v, plan, x.pax, b.resource) # {}})

\* The victims' seats count as free, and as many elsewhere as reserved: each
\* alternative is the one that was open before any of them was reserved.
Bump(v, plan, b) ==
  LET r == b.resource
      shortfall == Len(b.wish) - Usable(plan, r)
      victims == IF shortfall > 0 THEN FirstN(Bumpable(v, plan, b), shortfall) ELSE <<>>
      From(c) == {victims[i].pax : i \in {j \in DOMAIN victims : victims[j].claim = c}}
      hit == ById({c \in v.granted : From(c.id) # {}})
      To(s) == {i \in DOMAIN victims :
        Seat(v.sc, FirstById(Alternatives(v, plan, victims[i].pax, r))) = s}
  IN [plan EXCEPT
        !.free[r] = @ + Len(victims),
        !.reserved = [s \in DOMAIN @ |-> @[s] + Cardinality(To(s))],
        !.ops = @ \o [i \in DOMAIN hit |-> Op("revoke", hit[i].id, From(hit[i].id))],
        !.losers = @ \union {victims[i].agent : i \in DOMAIN victims}]

\* As much of b as there is room for is granted, in the order b asks for it.
Serve_LastFirst(b, plan, room) ==
  LET n == IF Len(b.wish) < room THEN Len(b.wish) ELSE room
  IN [plan EXCEPT !.free[b.resource] = @ - n,
                  !.ops = Append(@, Op("grant", b.id, ToSet(FirstN(Reverse(b.wish), n)))),
                  !.winners = @ \union {b.agent}]
Serve(b, plan, room) ==
  LET n == IF Len(b.wish) < room THEN Len(b.wish) ELSE room
  IN [plan EXCEPT !.free[b.resource] = @ - n,
                  !.ops = Append(@, Op("grant", b.id, ToSet(FirstN(b.wish, n)))),
                  !.winners = @ \union {b.agent}]

RuleSeats(claims, v) ==
  LET blocked == ByProtection(Named({c \in v.blocked : c.resource.kind = "seat"}, claims))
      Decide(plan, b) ==
        LET bumped == Bump(v, plan, b)
            room == Usable(bumped, b.resource)
        IN IF room <= 0 THEN bumped ELSE Serve(b, bumped, room)
      after[n \in 0..Len(blocked)] ==
        IF n = 0 THEN [free |-> v.free, reserved |-> [r \in DOMAIN v.free |-> 0],
                       ops |-> <<>>, winners |-> {}, losers |-> {}]
        ELSE Decide(after[n - 1], blocked[n])
      plan == after[Len(blocked)]
      opposed == UNION {Contesters(v, c) : c \in claims}
  IN [ops |-> plan.ops, winners |-> plan.winners,
      losers |-> plan.losers \union (opposed \ plan.winners)]

\* rule
Ruling(d, v) ==
  IF \E r \in d.resources : r.kind = "crew" THEN RuleCrew(d.claims, v)
  ELSE RuleSeats(d.claims, v)
-----------------------------------------------------------------------------
(* Fiat: illegal crew claims that are challenged are void; then what is      *)
(* blocked gets what is left, most protected first, and is void otherwise.   *)

FiatRuling(v) ==
  LET crew == {c \in CrewRecords(v) : Contesters(v, c.id) # {}}
      blocked == ByProtection(v.blocked)
      Decide(plan, b) ==
        IF plan.free[b.resource] <= 0
        THEN [plan EXCEPT !.ops = Append(@, Op("void", b.id, {}))]
        ELSE Serve(b, plan, plan.free[b.resource])
      after[n \in 0..Len(blocked)] ==
        IF n = 0 THEN [free |-> v.free, ops |-> Voids(Illegal(v, crew)),
                       winners |-> Contesting(v, Illegal(v, crew)),
                       losers |-> Claiming(Illegal(v, crew)) \union Contesting(v, Lawful(v, crew))]
        ELSE Decide(after[n - 1], blocked[n])
      plan == after[Len(blocked)]
  IN [ops |-> plan.ops, winners |-> plan.winners, losers |-> plan.losers]
=============================================================================
