-------------------------- MODULE MCAuditedLedger --------------------------
(* Two agents over one seat on each of two flights of one exclusivity group. *)
EXTENDS AuditedLedger, TLC

CONSTANTS a1, a2, p1, f1, f2

Capacities == f1 :> 1 @@ f2 :> 1
Groups == f1 :> "seat" @@ f2 :> "seat"
Symmetries == Permutations({a1, a2}) \union Permutations({f1, f2})
=============================================================================
