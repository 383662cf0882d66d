----------------------------- MODULE MCLiveRun -----------------------------
(* Two agents, one with an account at the bank, the seats of a flight, a gate *)
(* without a group and a jetty that nobody registered: careless answers can   *)
(* end a run in every way.                                                    *)
EXTENDS LiveRun, TLC

CONSTANTS a1, a2, p1, seat, gate, jetty

Agents == <<a1, a2>>
Capacities == (seat :> 2) @@ (gate :> 2) @@ (jetty :> 1)
Groups == (seat :> "seat") @@ (gate :> NoGroup) @@ (jetty :> NoGroup)
MediatedSetting == {[mediator |-> TRUE, rounds |-> 2, careful |-> FALSE]}
Budgets == (a1 :> 3)
=============================================================================
