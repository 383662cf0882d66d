------------------------------ MODULE Scenario ------------------------------
(***************************************************************************)
(* The storm (src/src/tarmac_society/tarmac/seed.py, scenario.py): the     *)
(* flights that still leave, the displaced passengers, what each of them   *)
(* may board, and what counts as reaching Denver in time.                  *)
(*                                                                         *)
(* The timetable is the generator's own.  The cast is a CONSTANT: the      *)
(* generator's is 180 passengers, an instance has fewer of each category.  *)
(* What the seed draws (booking orders, fares, who is flexible, the duty   *)
(* clocks) and the numbers the generator fixes for 180 passengers (seats,  *)
(* rooms, how late the protected book) are fields of a scenario record.    *)
(***************************************************************************)
EXTENDS Integers, Sequences, FiniteSets

CONSTANTS Roster,      \* the passengers' ids, in the order of the ids
          Category,    \* passenger -> its flag, or "elite", or "general"
          LateFrom     \* flag -> the earliest booking order it may have

Passenger == {Roster[i] : i \in DOMAIN Roster}
NPax == Len(Roster)

\* Ids are unique.
ASSUME RosterAssumption ==
  /\ Roster \in Seq(Passenger)
  /\ \A i, j \in DOMAIN Roster : Roster[i] = Roster[j] => i = j

Flagged(flags) == {p \in Passenger : Category[p] \in flags}
SpecialNeeds == Flagged({"MED", "UM", "WCHR"})
General == Flagged({"general"})

\* Ids are strings, which have no order in TLA+: p is the Place[p]-th of them.
Place == [p \in Passenger |-> CHOOSE i \in DOMAIN Roster : Roster[i] = p]

\* The elements of S in the order of before, a set of pairs: the one that has
\* i - 1 of the others before it is the i-th.
Listed(S, before) ==
  [i \in 1..Cardinality(S) |->
     CHOOSE x \in S : Cardinality({y \in S : <<y, x>> \in before}) = i - 1]

\* Passengers by a number, and by id where the number is the same.
SortedBy(S, key) ==
  Listed(S, {z \in S \X S : \/ key[z[1]] < key[z[2]]
                            \/ key[z[1]] = key[z[2]] /\ Place[z[1]] < Place[z[2]]})
ByPlace(S) == SortedBy(S, [p \in S |-> 0])
-----------------------------------------------------------------------------
(* The timetable, in minutes after midnight *)

FlightsById == <<"QW258", "QW338", "QW441", "QW519", "QW602", "QW777">>
Flight == {FlightsById[i] : i \in DOMAIN FlightsById}
Timetable ==
  [QW441 |-> [dep |-> 1180, arr |-> 1260, nonstop |-> TRUE],
   QW519 |-> [dep |-> 1265, arr |-> 1345, nonstop |-> TRUE],
   QW338 |-> [dep |-> 1215, arr |-> 1435, nonstop |-> FALSE],
   QW602 |-> [dep |-> 1330, arr |-> 1410, nonstop |-> TRUE],
   QW777 |-> [dep |-> 1290, arr |-> 1790, nonstop |-> FALSE],
   QW258 |-> [dep |-> 1425, arr |-> 1499, nonstop |-> TRUE]]
ByDeparture ==
  Listed(Flight, {z \in Flight \X Flight : Timetable[z[1]].dep < Timetable[z[2]].dep})
EarliestArrival(F) == CHOOSE f \in F : \A g \in F : Timetable[f].arr <= Timetable[g].arr
FirstById(F) ==
  FlightsById[CHOOSE i \in DOMAIN FlightsById :
    /\ FlightsById[i] \in F
    /\ \A j \in DOMAIN FlightsById : FlightsById[j] \in F => i <= j]

MedDeadline == 1290
TcCutoff == 1380
UmCurfew == 1320
WchrLimit == 1440
SameDayCutoff == 1440
FerryBlock == 170
FerryBrief == 45

FerryRequiredDuty == FerryBlock + FerryBrief
-----------------------------------------------------------------------------
(* Passengers *)

Legal(sc, p) ==
  {f \in Flight : Timetable[f].nonstop}
  \union (IF Category[p] \in {"elite", "general"} THEN {"QW338"} ELSE {})
  \union (IF p \in sc.flexible THEN {"QW777"} ELSE {})

\* 0 is the most protected.
PaxPriority(p) ==
  CASE Category[p] = "MED" -> 0
    [] Category[p] = "UM" -> 1
    [] Category[p] = "WCHR" -> 2
    [] Category[p] = "TC" -> 3
    [] Category[p] = "elite" -> 4
    [] OTHER -> 5

\* Does f get p to Denver in time?
FlightProtects(p, f) ==
  LET t == Timetable[f]
  IN CASE Category[p] = "MED" -> t.arr <= MedDeadline
       [] Category[p] = "UM" -> t.nonstop /\ t.dep <= UmCurfew
       [] Category[p] = "WCHR" -> t.nonstop /\ t.arr <= WchrLimit
       [] Category[p] = "TC" -> t.arr <= TcCutoff
       [] OTHER -> t.arr <= SameDayCutoff

SlaFlights(sc, p) == {f \in Legal(sc, p) : FlightProtects(p, f)}

\* Tight connections are numbered in the order of their ids.
ConnectionRisk(sc, p) ==
  IF Category[p] = "TC"
  THEN 95 - Cardinality({q \in Flagged({"TC"}) : Place[q] < Place[p]})
  ELSE LET risk == 80 - (sc.order[p] * 79) \div (NPax + 1)
       IN IF risk > 1 THEN risk ELSE 1

\* _force_late: p changes places with the first general passenger who booked
\* late enough.
ForceLate(order, p) ==
  LET least == LateFrom[Category[p]]
      partner == CHOOSE q \in General :
        /\ order[q] >= least
        /\ \A r \in General : order[r] >= least => order[q] <= order[r]
  IN IF order[p] >= least THEN order
     ELSE [order EXCEPT ![p] = order[partner], ![partner] = order[p]]

\* The medical courier, the minor and then the wheelchair users book late.
BookingOrder(drawn) ==
  LET protected == SortedBy(SpecialNeeds, [p \in Passenger |-> PaxPriority(p)])
      after[n \in 0..Len(protected)] ==
        IF n = 0 THEN drawn ELSE ForceLate(after[n - 1], protected[n])
  IN after[Len(protected)]
-----------------------------------------------------------------------------
(* The resources a run registers.  A resource is what it is registered as:   *)
(* its kind, which seat, gate or slot it is of, and its capacity.            *)

Seat(sc, f) == [kind |-> "seat", of |-> f, units |-> sc.seats[f]]
FerryCrew == [kind |-> "crew", of |-> "FERRY-1", units |-> 1]
Gate(g) == [kind |-> "gate", of |-> g, units |-> 1]
HotelBlock(sc) == [kind |-> "hotel", of |-> "block", units |-> sc.rooms]

\* register_resources, in its order
Registrations(sc) ==
  [i \in DOMAIN FlightsById |-> Seat(sc, FlightsById[i])]
  \o <<FerryCrew>>
  \o [i \in DOMAIN sc.gates |-> Gate(sc.gates[i])]
  \o <<HotelBlock(sc)>>

GroupOf(r) == IF r.kind \in {"seat", "hotel"} THEN r.kind ELSE "none"

\* One departure per gate, earliest first.
GatePlan(sc) ==
  [i \in 1..(IF Len(sc.gates) < Len(ByDeparture) THEN Len(sc.gates) ELSE Len(ByDeparture))
     |-> [gate |-> Gate(sc.gates[i]), flight |-> ByDeparture[i]]]

\* What validate_scenario asserts that does not count heads.
Valid(sc) ==
  /\ \A c \in DOMAIN sc.duty : sc.duty[c] < FerryRequiredDuty
  /\ {sc.order[p] : p \in Passenger} = 1..NPax
  /\ \A p \in Passenger :
       /\ Category[p] = "MED" => {f \in Legal(sc, p) : FlightProtects(p, f)} = {"QW441"}
       /\ Category[p] = "TC" =>
            {f \in Legal(sc, p) : FlightProtects(p, f)} = {"QW441", "QW519"}
       /\ p \notin sc.flexible => "QW777" \notin Legal(sc, p)
=============================================================================
