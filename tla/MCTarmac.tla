------------------------------ MODULE MCTarmac ------------------------------
(* Ten passengers, one of each kind at least, over the six flights.          *)
EXTENDS Tarmac, TLC

Pax == <<"EL-01", "MED-02", "PAX-001", "PAX-002", "PAX-003", "TC-01", "TC-02",
         "UM-07", "WCHR-1", "WCHR-2">>
Categories ==
  [i \in {"EL-01"} |-> "elite"] @@ [i \in {"MED-02"} |-> "MED"] @@ [i \in {"UM-07"} |-> "UM"]
  @@ [i \in {"TC-01", "TC-02"} |-> "TC"] @@ [i \in {"WCHR-1", "WCHR-2"} |-> "WCHR"]
  @@ [i \in {"PAX-001", "PAX-002", "PAX-003"} |-> "general"]
Late == [MED |-> 6, UM |-> 5, WCHR |-> 7]

\* Seats on QW441, QW519, QW602, QW258, QW338 and QW777.
SeatPlan(a, b, c, d, e, f) ==
  [QW441 |-> a, QW519 |-> b, QW602 |-> c, QW258 |-> d, QW338 |-> e, QW777 |-> f]
SeatPlans == {SeatPlan(2, 3, 2, 1, 1, 1), SeatPlan(3, 2, 1, 0, 1, 0), SeatPlan(1, 2, 2, 1, 0, 2),
              SeatPlan(4, 4, 0, 0, 1, 1), SeatPlan(2, 1, 1, 0, 0, 1), SeatPlan(1, 2, 2, 0, 0, 1),
              SeatPlan(3, 4, 2, 1, 0, 0), SeatPlan(1, 1, 1, 1, 0, 0)}

\* Who booked when, before the protected are made late.
Draws == {<<1, 2, 8, 9, 10, 3, 4, 5, 6, 7>>, <<4, 9, 7, 1, 10, 2, 3, 6, 5, 8>>,
          <<6, 9, 1, 2, 3, 4, 5, 10, 7, 8>>}
Drawn(d) == [p \in Passenger |-> d[Place[p]]]
Fares == [p \in Passenger |-> IF p = "EL-01" THEN "F" ELSE IF p = "PAX-002" THEN "J" ELSE "Y"]

MCScenarios ==
  {[seats |-> s, order |-> BookingOrder(Drawn(d)), flexible |-> x, fare |-> Fares,
    duty |-> [C1 |-> m, C2 |-> 100], rooms |-> n, gates |-> <<"G1", "G2">>] :
     s \in SeatPlans, d \in Draws, x \in {{"PAX-001"}, {"PAX-002", "PAX-003"}},
     m \in {200}, n \in {0, 1, 4}}
=============================================================================
