---------------------------- MODULE RunInvariant ----------------------------
(***************************************************************************)
(* The inductive invariant of Society: what holds of the ledger and of the *)
(* bank whoever calls them, and where the engine is in its round.  It is   *)
(* stated here once for the proofs about Society and those about Tarmac.   *)
(***************************************************************************)
EXTENDS Society

\* PRIMARY KEY (resource_id, beneficiary): one row at most for a unit.
OneRowPerUnit ==
  \A x, y \in alloc : x.resource = y.resource /\ x.ben = y.ben => x = y

LedgerHolds ==
  /\ Ledger!TypeOK
  /\ alloc \subseteq Ledger!Allocation
  /\ IsFiniteSet(alloc)
  /\ Ledger!CapacityRespected
  /\ Ledger!OneUnitPerGroup
  /\ OneRowPerUnit
  /\ Ledger!ReplayAgrees
  /\ Ledger!UnitsBelongToGrantedClaims
  /\ Ledger!NextIdsAreFree

BankHolds == Bank!BankTypeOK /\ Bank!BalanceIsAccountedFor
-----------------------------------------------------------------------------
(* Where the engine is *)

\* The round is over for good once it is past the last one.
Early == {"setup", "propose", "reveal", "positions", "scan", "rule", "round_end"}

ControlIsTyped ==
  /\ setting \in Setting
  /\ phase \in Phase
  /\ round \in 1..MaxRounds + 1
  /\ phase \in Early => round <= MaxRounds
  /\ turn \in Nat /\ turn < Len(AgentList)
  /\ phase \notin {"propose", "reveal", "aborted"} => sealed = <<>>
  /\ phase \notin {"ops", "settle", "aborted"} => ruling = NoRuling
  /\ phase \notin {"settle", "sweep"} => settling = {}
  /\ phase # "clear" => clearing = {}
  /\ ~HasMediator => phase \notin {"rule", "ops", "settle"}

\* What was committed this round is still sealed, each bid once.
SealsAreKept ==
  /\ sealed \in Seq(1..MaxCommits)
  /\ \A i \in 1..Len(sealed) : commitments[sealed[i]].state = "sealed"
  /\ \A i, j \in 1..Len(sealed) : sealed[i] = sealed[j] => i = j

RulingsAreOnClaims ==
  /\ \A d \in pending : d.claims \subseteq ClaimId
  /\ ruling.touched \subseteq ClaimId

\* The contests that a ruling has been through and that are still open are on
\* claims it does not name.
SettlementIsOnItsWay ==
  /\ settling \subseteq OpenContests
  /\ phase = "settle" => \A x \in OpenContests \ settling :
                           contests[x].target \notin ruling.touched

\* What the last sweep has listed is all there is for it to close.
SweepIsOnItsWay ==
  /\ phase = "sweep" => settling = OpenContests
  /\ phase = "clear" => OpenContests = {} /\ clearing = Blocked

DoneIsDone == phase = "done" => Blocked = {} /\ OpenContests = {}

\* Without a mediator only the last sweep closes a contest, and then the claim
\* that was contested holds nothing.
ClosedContestsHoldNothing ==
  ~HasMediator =>
    \A x \in Bank!ContestId : contests[x].status \notin {"absent", "open"} =>
      /\ phase \in {"sweep", "clear", "done"}
      /\ \A u \in alloc : u.claim # contests[x].target

EngineHolds ==
  /\ ControlIsTyped
  /\ SealsAreKept
  /\ RulingsAreOnClaims
  /\ SettlementIsOnItsWay
  /\ SweepIsOnItsWay
  /\ DoneIsDone
  /\ ClosedContestsHoldNothing

RunInv == LedgerHolds /\ BankHolds /\ EngineHolds
=============================================================================
