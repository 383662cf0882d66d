----------------------------- MODULE MCSociety -----------------------------
(* Two agents over the two seats of one flight, with one stake each. *)
EXTENDS Society, TLC

CONSTANTS a1, a2, p1, p2, seat

Agents == <<a1, a2>>
Capacities == (seat :> 2)
Groups == (seat :> "seat")
\* A mediated run of two rounds, a run of three without a mediator, and one
\* of two without a mediator whose agents misuse the protocol.
SomeSettings ==
  {[mediator |-> TRUE, rounds |-> 2, careful |-> TRUE],
   [mediator |-> FALSE, rounds |-> 3, careful |-> TRUE],
   [mediator |-> FALSE, rounds |-> 2, careful |-> FALSE]}
Budgets == (a1 :> 3) @@ (a2 :> 3)
=============================================================================
