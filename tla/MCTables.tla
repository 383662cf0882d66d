------------------------------ MODULE MCTables ------------------------------
(* The ledger and the bank side by side.  They share no variable and neither *)
(* calls the other, so it is enough to run the one while the other rests.    *)
EXTENDS MCClaimLedger, CredibilityBank

CONSTANT stranger

\* a1 can pay for two contests at once, a2 for one and is then a point short;
\* the stranger the bank does not know.
Budgets == (a1 :> 6) @@ (a2 :> 5)

TablesInit == Init /\ BankInit
TablesNext ==
  \/ Next /\ BankInit /\ UNCHANGED bankVars
  \/ BankNext /\ Init /\ UNCHANGED vars
TablesSpec == TablesInit /\ [][TablesNext]_<<vars, bankVars>>
=============================================================================
