-------------------------- MODULE CredibilityBank --------------------------
(***************************************************************************)
(* The credibility bank (src/src/tarmac_society/currency.py): every agent  *)
(* has a budget; contesting another agent's claim costs a stake at once;   *)
(* a won contest returns it with a premium, a lost one burns it, a voided  *)
(* one returns it.  One action is one call.  The per-round balance         *)
(* snapshots are a report and are left out.                                *)
(***************************************************************************)
EXTENDS Naturals, FiniteSets

CONSTANTS Filer,        \* the agents, who may file a blocking position
          Account,      \* the agents the bank opened a balance for
          Target,       \* the claims that can be contested
          Budget,       \* Account -> Nat
          ContestCost, Premium,
          MaxContests   \* bound: contests opened

ASSUME AccountAssumption == Account \subseteq Filer
ASSUME BudgetAssumption == Budget \in [Account -> Nat]
ASSUME PriceAssumption == ContestCost \in Nat \ {0} /\ Premium \in Nat
ASSUME MaxContestsAssumption == MaxContests \in Nat

VARIABLES balance, contests,
          contestSeq,   \* CredibilityBank._seq
          answer        \* how the last call ended

bankVars == <<balance, contests, contestSeq, answer>>

ContestId == 1..MaxContests
NoContest == [status |-> "absent"]
Contest == [agent : Account, target : Target,
            status : {"open", "won", "lost", "void"}]
Answer == {"ok", "declined", "duplicate", "currency_error"}

\* The contests of a in one status.
In(a, status) ==
  {x \in ContestId : contests[x].status = status /\ contests[x].agent = a}

BankInit ==
  /\ balance = Budget
  /\ contests = [x \in ContestId |-> NoContest]
  /\ contestSeq = 0
  /\ answer = "ok"

BankUnchanged(how) ==
  answer' = how /\ UNCHANGED <<balance, contests, contestSeq>>

CanContest_AnyFunds(a) == balance[a] > 0
CanContest(a) == balance[a] >= ContestCost
HasOpen(a, t) == \E x \in In(a, "open") : contests[x].target = t

\* open_contest: the budget is looked at before the duplicate is.
OpenContest(a, t) ==
  \/ a \notin Account /\ BankUnchanged("currency_error")
  \/ a \in Account /\ ~CanContest(a) /\ BankUnchanged("declined")
  \/ a \in Account /\ CanContest(a) /\ HasOpen(a, t) /\ BankUnchanged("duplicate")
  \/ /\ a \in Account /\ CanContest(a) /\ ~HasOpen(a, t)
     /\ contestSeq < MaxContests
     /\ contestSeq' = contestSeq + 1
     /\ balance' = [balance EXCEPT ![a] = @ - ContestCost]
     /\ contests' = [contests EXCEPT ![contestSeq'] =
          [agent |-> a, target |-> t, status |-> "open"]]
     /\ answer' = "ok"

\* settle and void_contest close an open contest and pay what is due.
Close_Again(x, status, refund) ==
  /\ contests[x].status # "absent"
  /\ contests' = [contests EXCEPT ![x].status = status]
  /\ balance' = [balance EXCEPT ![contests[x].agent] = @ + refund]
  /\ answer' = "ok"
  /\ UNCHANGED contestSeq
Close(x, status, refund) ==
  \/ contests[x].status # "open" /\ BankUnchanged("currency_error")
  \/ /\ contests[x].status = "open"
     /\ contests' = [contests EXCEPT ![x].status = status]
     /\ balance' = [balance EXCEPT ![contests[x].agent] = @ + refund]
     /\ answer' = "ok"
     /\ UNCHANGED contestSeq

Settle(x, won) ==
  IF won THEN Close(x, "won", ContestCost + Premium) ELSE Close(x, "lost", 0)
VoidContest(x) == Close(x, "void", ContestCost)

\* A new bank over the same storage: balances that exist are not paid again.
BankReopen ==
  /\ contestSeq' \in {n \in 0..MaxContests :
       /\ n = 0 \/ contests[n].status # "absent"
       /\ \A x \in ContestId : contests[x].status # "absent" => x <= n}
  /\ answer' = "ok"
  /\ UNCHANGED <<balance, contests>>

BankNext ==
  \/ \E a \in Filer, t \in Target : OpenContest(a, t)
  \/ \E x \in ContestId, won \in BOOLEAN : Settle(x, won)
  \/ \E x \in ContestId : VoidContest(x)
  \/ BankReopen

BankSpec == BankInit /\ [][BankNext]_bankVars
-----------------------------------------------------------------------------
(* Properties *)

\* No balance is ever negative (the CHECK of the schema never has to fire) and
\* every contest has a known agent, target and status.
BankTypeOK ==
  /\ balance \in [Account -> Nat]
  /\ contests \in [ContestId -> Contest \union {NoContest}]
  /\ contestSeq \in 0..MaxContests
  /\ \A x \in ContestId : contests[x].status # "absent" <=> x <= contestSeq
  /\ answer \in Answer

\* "Formally: agent utility = objective score - stakes + refunds + premiums":
\* what an agent has is its budget, less the stakes that are out or burned,
\* plus a premium for every contest won; no credit is lost or made elsewhere.
BalanceIsAccountedFor ==
  \A a \in Account :
    balance[a] + ContestCost * (Cardinality(In(a, "open")) + Cardinality(In(a, "lost")))
      = Budget[a] + Premium * Cardinality(In(a, "won"))

\* "one open contest per (agent, target)": nobody stakes twice on one claim.
OneOpenContestPerTarget ==
  \A a \in Account : \A x, y \in In(a, "open") :
    contests[x].target = contests[y].target => x = y

\* A contest is adjudicated once: no later ruling, void or finalization pays
\* for it again or changes how it ended.
ContestsCloseOnce ==
  [][\A x \in ContestId :
       contests[x].status \in {"won", "lost", "void"}
       => contests'[x] = contests[x]]_bankVars
=============================================================================
