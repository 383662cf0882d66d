-------------------------- MODULE MCLedgerThreads --------------------------
(* Two threads over one resource with a unit less than they may ask for. *)
EXTENDS LedgerThreads, TLC

CONSTANTS t1, t2, p1, p2

ThreadSymmetry == Permutations({t1, t2})
BeneficiarySymmetry == Permutations({p1, p2})
=============================================================================
