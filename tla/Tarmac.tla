------------------------------- MODULE Tarmac -------------------------------
(***************************************************************************)
(* A run of the airline society (src/src/tarmac_society/tarmac/run.py and  *)
(* baseline.py): Society with the policies as agents, the duty manager as  *)
(* mediator and the storm's resources, under each of the three conditions. *)
(*                                                                         *)
(* Every step is the step of Society, or of the ledger, that the policies  *)
(* choose.  An agent's answers are computed when its turn starts and then  *)
(* filed one by one, a ruling's operations when the mediator is asked.     *)
(***************************************************************************)
EXTENDS Society, DutyManager

CONSTANTS Scenarios,                 \* the scenarios a run may be of
          Seats, Rooms, Gates, Crew  \* the values their fields are made of

ASSUME ScenariosAssumption ==
  \A sc \in Scenarios :
    /\ sc.rooms \in Rooms /\ sc.gates \in Seq(Gates)
    /\ sc.seats \in [Flight -> Seats] /\ sc.duty \in [Crew -> Nat]
    /\ sc.fare \in [Passenger -> {"F", "J", "W", "Y"}]
    /\ sc.flexible \subseteq General
    /\ Valid(sc)

\* The crew the ferry is asked for, who is no passenger, and the wheelchair users, of
\* whom the advocate puts the first on one flight and the others on another.
ASSUME CastAssumption ==
  /\ "C1" \in Crew /\ "C1" \notin Passenger
  /\ \E p, q \in Flagged({"WCHR"}) : p # q

VARIABLES scenario, condition,
          script,   \* what was decided and is still to be done, in order
          asked,    \* the agent whose turn it is has answered
          wish,     \* what each commitment asks for, in order, and since when
          named,    \* whom the ruling in hand names as winners and losers
          bumped    \* the passengers whose seat a recorded ruling revoked

stormVars == <<scenario, condition, wish, named, bumped>>
runVars == <<vars, script, asked, stormVars>>

Conditions == {"society", "society_minus_mediator", "single"}
Nobody == [winners |-> {}, losers |-> {}]
-----------------------------------------------------------------------------
(* What the ledger is made of: the constants of Society in a run of ours *)

TarmacAgents == ToSet(AgentOrder) \union {"single_planner"}
TarmacResources == [kind : {"seat"}, of : Flight, units : Seats]
                   \union {FerryCrew} \union {Gate(g) : g \in Gates}
                   \union [kind : {"hotel"}, of : {"block"}, units : Rooms]
TarmacBeneficiaries == Passenger \union Flight \union Crew
Capacities == [r \in TarmacResources |-> r.units]
Groups == [r \in TarmacResources |-> GroupOf(r)]
TarmacAccounts == ToSet(AgentOrder)
Budgets == [a \in TarmacAccounts |-> 100]
TarmacSettings == {[mediator |-> m, rounds |-> 6, careful |-> FALSE] : m \in BOOLEAN}

ASSUME AirlineAssumption ==
  /\ Agent = TarmacAgents /\ AgentList = AgentOrder
  /\ Resource = TarmacResources /\ Capacity = Capacities
  /\ Group = Groups /\ NoGroup = "none"
  /\ Beneficiary = TarmacBeneficiaries
  /\ Account = TarmacAccounts /\ Settings = TarmacSettings

\* What an agent is given for the run pays for a contest.
ASSUME PurseAssumption == Budget = Budgets /\ ContestCost <= 100
-----------------------------------------------------------------------------
(* _view_for *)

Free(r) == Capacity[r] - Ledger!Used(r)
Record(c) ==
  LET asking == IF claims[c].commit = 0 THEN [who |-> <<>>, round |-> 1]
                ELSE wish[claims[c].commit]
  IN [id |-> c, agent |-> claims[c].agent, resource |-> claims[c].resource,
      wish |-> asking.who, holders |-> Ledger!Holders(c), round |-> asking.round]
Records(status) == {Record(c) : c \in {d \in ClaimId : claims[d].status = status}}

View ==
  [round |-> round, sc |-> scenario,
   granted |-> Records("granted"), blocked |-> Records("blocked"),
   contests |-> {[agent |-> contests[x].agent, target |-> contests[x].target] :
                   x \in OpenContests},
   free |-> [r \in registered |-> Free(r)]]

\* A bid as the ledger gets it.
Sealed(bid) ==
  [agent |-> bid.agent, resource |-> bid.resource, bens |-> ToSet(bid.wish)]
-----------------------------------------------------------------------------
(* The run *)

StormInit ==
  /\ Init
  /\ scenario \in Scenarios
  /\ condition \in Conditions
  /\ setting = [mediator |-> condition = "society", rounds |-> 6, careful |-> FALSE]
  /\ script = Registrations(scenario)
  /\ asked = FALSE
  /\ wish = <<>>
  /\ named = Nobody
  /\ bumped = {}

\* The head of the script is done.
Done == script' = Tail(script) /\ UNCHANGED <<asked, stormVars>>
Idle == UNCHANGED <<script, asked, stormVars>>

Register ==
  /\ phase = "setup" /\ script # <<>>
  /\ Ledger!RegisterResource(Head(script))
  /\ Done
  /\ UNCHANGED <<bankVars, detectorVars, rulingVars, engineVars>>

StartSociety ==
  /\ phase = "setup" /\ script = <<>>
  /\ condition # "single"
  /\ Goto("propose")
  /\ Idle
  /\ UNCHANGED <<ledgerVars, bankVars, detectorVars, rulingVars, round, turn, sealed,
                 busy, quiescent, setting>>

\* The agent whose turn it is answers from what it can see now.
Consult ==
  /\ phase \in {"propose", "positions"}
  /\ ~asked
  /\ asked' = TRUE
  /\ script' = IF phase = "propose" THEN Proposals(Speaker, View)
               ELSE Positions(Speaker, View)
  /\ UNCHANGED <<vars, stormVars>>

File ==
  /\ phase = "propose" /\ asked /\ script # <<>>
  /\ Propose(Sealed(Head(script)))
  /\ wish' = Append(wish, [who |-> Head(script).wish, round |-> round])
  /\ script' = Tail(script)
  /\ UNCHANGED <<asked, scenario, condition, named, bumped>>

\* _process_position
TakePosition ==
  LET p == Head(script)
  IN /\ phase = "positions" /\ asked /\ script # <<>>
     /\ \/ p.stance = "block" /\ FileBlock(p.target)
        \/ p.stance = "yield" /\ FileYield(p.target, Ledger!Listing(p.release))
        \/ /\ p.stance = "support" \/ (p.stance = "block" /\ ~Contestable(p.target))
           /\ FileNote
     /\ Done

TurnOver ==
  /\ asked /\ script = <<>>
  /\ EndTurn
  /\ asked' = FALSE
  /\ UNCHANGED <<script, stormVars>>

\* Of the deadlocks of a round the cycles come first, then crews, then rooms,
\* then seats by flight: the order of the resources' ids.
Order(d) ==
  LET kinds == {r.kind : r \in d.resources}
  IN IF d.kind = "cycle" THEN 0
     ELSE IF "crew" \in kinds THEN 1
     ELSE IF "gate" \in kinds THEN 2
     ELSE IF "hotel" \in kinds THEN 3
     ELSE 4 + CHOOSE i \in DOMAIN FlightsById : Seat(scenario, FlightsById[i]) \in d.resources
Decree(r) ==
  /\ phase' = "ops"
  /\ script' = r.ops
  /\ named' = [winners |-> r.winners, losers |-> r.losers]
  /\ UNCHANGED <<asked, scenario, condition, wish, bumped>>

Mediate ==
  \E d \in pending :
    /\ \A e \in pending : Order(d) <= Order(e)
    /\ Rule(d)
    /\ Decree(Ruling(d, View))

MediateAtTheCap == Fiat /\ Decree(FiatRuling(View))

ApplyNext ==
  LET o == Head(script)
  IN /\ phase = "ops" /\ script # <<>>
     /\ RulingOp(o.op, o.claim, Ledger!Listing(o.bens))
     /\ bumped' = IF o.op = "revoke" /\ outcome' = "ok" THEN bumped \union o.bens ELSE bumped
     /\ script' = Tail(script)
     /\ UNCHANGED <<asked, scenario, condition, wish, named>>

VerdictOn(a) ==
  IF a \in named.winners THEN "winner" ELSE IF a \in named.losers THEN "loser" ELSE "none"
ApplyDone ==
  /\ script = <<>>
  /\ EndOps
  /\ verdict' = [a \in Agent |-> VerdictOn(a)]
  /\ named' = Nobody
  /\ UNCHANGED <<script, asked, scenario, condition, wish, bumped>>

\* The engine's own steps, which decide nothing.
Engine ==
  /\ \/ RevealNext \/ EndReveals \/ ScanRound \/ EndRulings
     \/ \E x \in settling : SettleContest(x)
     \/ EndSettlement \/ EndRound \/ SafetyFinalize
     \/ \E x \in settling : SweepContest(x)
     \/ EndContestSweep
     \/ \E c \in clearing : SweepClaim(c)
     \/ EndSweep
  /\ Idle
-----------------------------------------------------------------------------
(* run_single_planner: no bids, no bank, one pass over the passengers *)

StartPlanner ==
  /\ phase = "setup" /\ script = <<>>
  /\ condition = "single"
  /\ Goto("plan")
  /\ script' = PlannerFirst(scenario)
  /\ UNCHANGED <<ledgerVars, bankVars, detectorVars, rulingVars, round, turn, sealed,
                 busy, quiescent, setting, asked, stormVars>>

PlanFirst ==
  /\ phase = "plan" /\ script # <<>>
  /\ Ledger!SubmitPlain(Sealed(Head(script)))
  /\ Done
  /\ UNCHANGED <<bankVars, detectorVars, rulingVars, engineVars>>

PlanSeats ==
  /\ phase = "plan" /\ script = <<>>
  /\ Goto("seats")
  /\ script' = PlannerOrder(scenario)
  /\ UNCHANGED <<ledgerVars, bankVars, detectorVars, rulingVars, round, turn, sealed,
                 busy, quiescent, setting, asked, stormVars>>

SeatNext ==
  LET p == Head(script)
      open == PlannerSeats(scenario, p, [r \in registered |-> Free(r)])
  IN /\ phase = "seats" /\ script # <<>>
     /\ \/ open = {} /\ UNCHANGED ledgerVars
        \/ /\ open # {}
           /\ Ledger!SubmitPlain([agent |-> "single_planner", bens |-> {p},
                                  resource |-> Seat(scenario, EarliestArrival(open))])
     /\ Done
     /\ UNCHANGED <<bankVars, detectorVars, rulingVars, engineVars>>

EndPlan ==
  /\ phase = "seats" /\ script = <<>>
  /\ Goto("done")
  /\ quiescent' = TRUE
  /\ Idle
  /\ UNCHANGED <<ledgerVars, bankVars, detectorVars, rulingVars, round, turn, sealed,
                 busy, setting>>

StormNext ==
  \/ Register \/ StartSociety \/ Consult \/ File \/ TakePosition \/ TurnOver
  \/ Mediate \/ MediateAtTheCap \/ ApplyNext \/ ApplyDone \/ Engine
  \/ StartPlanner \/ PlanFirst \/ PlanSeats \/ SeatNext \/ EndPlan

StormSpec == StormInit /\ [][StormNext]_runVars
-----------------------------------------------------------------------------
(* Properties *)

HasSeat(p, f) == \E u \in alloc : u.ben = p /\ u.resource = Seat(scenario, f)
SeatedPax == {p \in Passenger : \E f \in Flight : HasSeat(p, f)}
Roomed == {u.ben : u \in {x \in alloc : x.resource.kind = "hotel"}}
IsFree(f) == Free(Seat(scenario, f)) > 0

\* I2, "zero crew duty violations in the final manifest": with the mediator or
\* without it, no crew is on the ferry at the end of a run whose remaining duty
\* does not cover block and brief, although rebooking is granted the crew first.
NoIllegalCrewFlies ==
  phase = "done" /\ condition # "single" =>
    \A u \in alloc : u.resource.kind = "crew" =>
      scenario.duty[u.ben] >= FerryBlock + FerryBrief

\* Whoever asks for a seat, and whether it comes with the bid, by a ruling or
\* by fiat, nobody holds one on a flight that is not legal for them.
SeatsAreLegal ==
  \A u \in alloc : u.resource.kind = "seat" => u.resource.of \in Legal(scenario, u.ben)

\* "fill everything that is still open": once the bids of a late round are in,
\* a passenger without a seat has asked for one, or every flight they may take
\* is full or waits for a ruling.  QW441 is left to the advocate.
OpenSeatsAreClaimed ==
  phase = "positions" /\ turn = 0 /\ ~asked /\ round >= 3 =>
    \A p \in Passenger \ SeatedPax, f \in Flight \ {"QW441"} :
      f \in Legal(scenario, p) /\ IsFree(f) =>
        \E c \in Blocked : claims[c].resource.kind = "seat" /\
          (p \in claims[c].bens \/ claims[c].resource = Seat(scenario, f))

\* "release rooms the moment pax get seats": when the positions of a round are
\* in, nobody has both, whichever of a seat and a room came first.
NoRoomForTheSeated == phase = "scan" => Roomed \intersect SeatedPax = {}

\* "never bump equal-or-more protected pax", and nobody without a "lawful re-seat
\* alternative": a ruling takes a seat only for a blocked claim that names somebody
\* more protected, and when another flight still has a seat for who loses it.  It
\* is about each by themselves: two who lose theirs to one claim may have the same
\* seat left.
BumpsAreLawful ==
  [][\A p \in SeatedPax \ SeatedPax' : phase = "ops" =>
       \E f \in Flight :
         /\ HasSeat(p, f)
         /\ \E c \in Blocked : /\ claims[c].resource = Seat(scenario, f)
                               /\ \E q \in claims[c].bens : PaxPriority(q) < PaxPriority(p)
         /\ \E g \in Legal(scenario, p) \ {f} : IsFree(g)']_runVars

\* A mediated run that comes to rest has got the medical courier to Denver
\* before the deadline, although others took the only flight in round 1.
CourierMakesIt ==
  phase = "done" /\ condition = "society" /\ quiescent =>
    \A p \in Flagged({"MED"}) : \E f \in Flight : HasSeat(p, f) /\ FlightProtects(p, f)

\* The policies stay within the protocol: no answer of theirs, filed after the
\* answers of others changed what it was computed from, ends a run.
PoliciesNeverAbort == phase # "aborted"

\* "Standard airline re-booking order": elite, then fare, then booking.
Outranks(p, q) ==
  LET Elite(x) == Category[x] = "elite"
      Fare(x) == FareRank[scenario.fare[x]]
  IN \/ Elite(p) /\ ~Elite(q)
     \/ /\ Elite(p) = Elite(q)
        /\ \/ Fare(p) < Fare(q)
           \/ Fare(p) = Fare(q) /\ scenario.order[p] < scenario.order[q]

\* The planner leaves nobody with reason to complain: every flight that is legal
\* for p and arrives before p's own is full of passengers who outrank p.
PlannerHasNoEnvy ==
  phase = "done" /\ condition = "single" =>
    \A p \in Passenger : \A f \in Legal(scenario, p) :
      \/ \E g \in Flight : HasSeat(p, g) /\ Timetable[g].arr <= Timetable[f].arr
      \/ ~IsFree(f) /\ \A q \in Passenger : HasSeat(q, f) => Outranks(q, p)
-----------------------------------------------------------------------------
(* What the documentation says and the code does not do *)

\* docs/friction-log.md: whom the duty manager bumps "is revoked, not
\* teleported; a later Rebooking fill-round re-seats them".
BumpedAreReseated ==
  phase = "done" /\ condition = "society" /\ quiescent =>
    \A p \in bumped \ SeatedPax : \A f \in Legal(scenario, p) : ~IsFree(f)
=============================================================================
