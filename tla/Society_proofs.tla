--------------------------- MODULE Society_proofs ---------------------------
(***************************************************************************)
(* Proofs about Society for every number of agents, resources, claims,     *)
(* contests and rounds.  A run makes only calls that the ledger and the    *)
(* bank have, so that what is proved of them holds in it; what a run owes  *)
(* of its own (nothing left hanging, no disputed grant in the manifest)    *)
(* follows from that and from where the engine is in its round.            *)
(***************************************************************************)
EXTENDS RunInvariant, FiniteSetTheorems, TLAPS

\* The theorems about the ledger and the bank, for those of a run.
TP == INSTANCE Tables_proofs WITH Filer <- Agent, Target <- 1..MaxClaims

\* Their definitions are those that Society uses.
LEMMA SameLedgerInit == Ledger!Init <=> TP!Init
  BY DEF Ledger!Init, TP!Init,
     Ledger!ClaimId, TP!ClaimId,
     Ledger!CommitId, TP!CommitId,
     Ledger!NoClaim, TP!NoClaim,
     Ledger!NoCommitment, TP!NoCommitment
LEMMA SameLedgerNext == (Ledger!Next <=> TP!Next) /\ Ledger!vars = TP!vars
  BY DEF Ledger!Next, TP!Next,
     Ledger!RegisterResource, TP!RegisterResource,
     Ledger!Commit, TP!Commit,
     Ledger!Reveal, TP!Reveal,
     Ledger!CanReveal, TP!CanReveal,
     Ledger!RevealMismatch, TP!RevealMismatch,
     Ledger!RevealMatch, TP!RevealMatch,
     Ledger!InsertAndApply, TP!InsertAndApply,
     Ledger!TryAllocate, TP!TryAllocate,
     Ledger!FitsCapacity, TP!FitsCapacity,
     Ledger!FitsGroup, TP!FitsGroup,
     Ledger!SchemaAccepts, TP!SchemaAccepts,
     Ledger!Used, TP!Used,
     Ledger!Length, TP!Length,
     Ledger!HeldInGroup, TP!HeldInGroup,
     Ledger!Listing, TP!Listing,
     Ledger!Allocate, TP!Allocate,
     Ledger!NoEffect, TP!NoEffect,
     Ledger!tables, TP!tables,
     Ledger!SubmitPlain, TP!SubmitPlain,
     Ledger!Release, TP!Release,
     Ledger!GiveBack, TP!GiveBack,
     Ledger!CanDeallocate, TP!CanDeallocate,
     Ledger!Deallocate, TP!Deallocate,
     Ledger!SetStatus, TP!SetStatus,
     Ledger!Holders, TP!Holders,
     Ledger!Granted, TP!Granted,
     Ledger!HasClaim, TP!HasClaim,
     Ledger!RevokeOp, TP!RevokeOp,
     Ledger!GrantOp, TP!GrantOp,
     Ledger!Withdraw, TP!Withdraw,
     Ledger!VoidClaim, TP!VoidClaim,
     Ledger!Reopen, TP!Reopen,
     Ledger!ClaimId, TP!ClaimId,
     Ledger!CommitId, TP!CommitId,
     Ledger!Proposal, TP!Proposal,
     Ledger!BenList, TP!BenList,
     Ledger!Cardinality, TP!Cardinality,
     Ledger!vars, TP!vars
LEMMA SameLedgerFacts == LedgerHolds <=> TP!IInv
  BY DEF LedgerHolds, TP!IInv, TP!UnitsInv, OneRowPerUnit, TP!OneRowPerUnit,
     IsFiniteSet, TP!IsFiniteSet,
     Ledger!TypeOK, TP!TypeOK,
     Ledger!UnitsBelongToGrantedClaims, TP!UnitsBelongToGrantedClaims,
     Ledger!NextIdsAreFree, TP!NextIdsAreFree,
     Ledger!CapacityRespected, TP!CapacityRespected,
     Ledger!OneUnitPerGroup, TP!OneUnitPerGroup,
     Ledger!ReplayAgrees, TP!ReplayAgrees,
     Ledger!ClaimId, TP!ClaimId,
     Ledger!CommitId, TP!CommitId,
     Ledger!Commitment, TP!Commitment,
     Ledger!NoCommitment, TP!NoCommitment,
     Ledger!Proposal, TP!Proposal,
     Ledger!Claim, TP!Claim,
     Ledger!NoClaim, TP!NoClaim,
     Ledger!ClaimStatus, TP!ClaimStatus,
     Ledger!Allocation, TP!Allocation,
     Ledger!Outcome, TP!Outcome,
     Ledger!Granted, TP!Granted,
     Ledger!HasClaim, TP!HasClaim,
     Ledger!Cardinality, TP!Cardinality
LEMMA SameBankInit == Bank!BankInit <=> TP!BankInit
  BY DEF Bank!BankInit, TP!BankInit,
     Bank!ContestId, TP!ContestId,
     Bank!NoContest, TP!NoContest
LEMMA SameBankNext == (Bank!BankNext <=> TP!BankNext) /\ Bank!bankVars = TP!bankVars
  BY DEF Bank!BankNext, TP!BankNext,
     Bank!OpenContest, TP!OpenContest,
     Bank!Settle, TP!Settle,
     Bank!VoidContest, TP!VoidContest,
     Bank!Close, TP!Close,
     Bank!BankReopen, TP!BankReopen,
     Bank!BankUnchanged, TP!BankUnchanged,
     Bank!CanContest, TP!CanContest,
     Bank!HasOpen, TP!HasOpen,
     Bank!In, TP!In,
     Bank!ContestId, TP!ContestId,
     Bank!bankVars, TP!bankVars
LEMMA SameBankFacts == BankHolds <=> TP!BankInv
  BY DEF BankHolds, TP!BankInv,
     Bank!BankTypeOK, TP!BankTypeOK,
     Bank!BalanceIsAccountedFor, TP!BalanceIsAccountedFor,
     Bank!ContestId, TP!ContestId,
     Bank!Contest, TP!Contest,
     Bank!NoContest, TP!NoContest,
     Bank!Answer, TP!Answer,
     Bank!In, TP!In,
     Bank!Cardinality, TP!Cardinality
LEMMA SameCardinality == \A S : Bank!Cardinality(S) = Cardinality(S)
  BY DEF Bank!Cardinality, Cardinality
LEMMA SameFinite == TP!IsFiniteSet(Beneficiary)
  BY LedgerAssumption DEF TP!IsFiniteSet, IsFiniteSet
-----------------------------------------------------------------------------
(* The ledger and the bank in a run *)

LEMMA LedgerHoldsInit == Ledger!Init => LedgerHolds
  BY SameLedgerInit, SameLedgerFacts, SameFinite, LedgerAssumption, BankAssumption, TP!InitIInv

LEMMA BankHoldsInit == Bank!BankInit => BankHolds
  BY SameBankInit, SameBankFacts, SameFinite, LedgerAssumption, BankAssumption, TP!BankInitInv

LEMMA LedgerGoesOn == LedgerHolds /\ [Ledger!Next]_ledgerVars => LedgerHolds'
<1>1. ledgerVars = TP!vars
  BY DEF ledgerVars, TP!vars
<1>2. LedgerHolds' <=> TP!IInv'
  BY SameLedgerFacts, PTL
<1> QED
  BY <1>1, <1>2, SameLedgerFacts, SameLedgerNext, SameFinite, LedgerAssumption, BankAssumption,
     TP!StepIInv DEF ledgerVars, TP!vars

LEMMA BankGoesOn == BankHolds /\ [Bank!BankNext]_bankVars => BankHolds'
<1>1. BankHolds' <=> TP!BankInv'
  BY SameBankFacts, PTL
<1> QED
  BY <1>1, SameBankFacts, SameBankNext, SameFinite, LedgerAssumption, BankAssumption,
     TP!BankStepInv
     DEF bankVars, TP!bankVars
-----------------------------------------------------------------------------
(* A step makes a call of the ledger, or none *)

LEMMA SpeakersAreAgents ==
  ControlIsTyped => Speaker \in Agent /\ \E i \in 1..Len(AgentList) : Speaker = AgentList[i]
<1> SUFFICES ASSUME ControlIsTyped
             PROVE  Speaker \in Agent /\ \E i \in 1..Len(AgentList) : Speaker = AgentList[i]
  OBVIOUS
<1> DEFINE n == Len(AgentList)
           k == round - 1 + turn
<1>1. n \in Nat \ {0}
  BY EngineAssumption
<1>2. k \in Nat
  <2>1. round \in Nat \ {0} /\ turn \in Nat
    BY DEF ControlIsTyped, Setting, MaxRounds
  <2> QED BY <2>1
<1> HIDE DEF k
<1>3. k % n \in 0..n - 1
  BY <1>1, <1>2
<1>4. 1 + (k % n) \in 1..n
  BY <1>1, <1>3
<1> QED
  BY <1>4, EngineAssumption DEF Speaker, k

\* A commitment that is there has a bid in it.
LEMMA SealedBidsAreBids ==
  ASSUME Ledger!TypeOK, NEW m \in 1..MaxCommits, commitments[m].state # "absent"
  PROVE  commitments[m].digest \in Ledger!Proposal
  BY DEF Ledger!TypeOK, Ledger!CommitId, Ledger!Commitment, Ledger!NoCommitment

\* The first of a sequence, and the others.
LEMMA HeadAndTail ==
  ASSUME NEW S, NEW q \in Seq(S), q # <<>>
  PROVE  /\ 1 \in 1..Len(q) /\ Head(q) = q[1] /\ Head(q) \in S
         /\ Tail(q) \in Seq(S) /\ Len(Tail(q)) = Len(q) - 1 /\ Len(q) \in Nat
         /\ \A i \in 1..Len(q) - 1 : Tail(q)[i] = q[i + 1] /\ i + 1 \in 1..Len(q)
         /\ \A i \in 1..Len(q) : q[i] \in S
<1>1. Len(q) \in Nat \ {0}
  OBVIOUS
<1>2. 1 \in 1..Len(q) /\ Head(q) = q[1] /\ q[1] \in S
  BY <1>1
<1>3. Tail(q) \in Seq(S) /\ Len(Tail(q)) = Len(q) - 1
  BY <1>1
<1>4. \A i \in 1..Len(q) - 1 : Tail(q)[i] = q[i + 1] /\ i + 1 \in 1..Len(q)
  BY <1>1
<1>5. \A i \in 1..Len(q) : q[i] \in S
  OBVIOUS
<1> QED
  BY <1>1, <1>2, <1>3, <1>4, <1>5

\* What the sweep has still to reach is open.
LEMMA SweptContestsAreOpen ==
  ASSUME RunInv, NEW x, SweepContest(x)
  PROVE  contests[x].status = "open"
  BY DEF RunInv, EngineHolds, SettlementIsOnItsWay, SweepContest, IsFirst, OpenContests

LEMMA CallsTheLedger == RunInv /\ [Next]_vars => [Ledger!Next]_ledgerVars
<1> SUFFICES ASSUME RunInv, [Next]_vars PROVE [Ledger!Next]_ledgerVars
  OBVIOUS
<1>0. Ledger!TypeOK /\ Bank!BankTypeOK /\ Speaker \in Agent
  BY SpeakersAreAgents DEF RunInv, EngineHolds, LedgerHolds, BankHolds
<1> USE DEF ClaimId, Ledger!ClaimId
<1>1. CASE Setup
  BY <1>1, EngineAssumption DEF Setup, Ledger!Next
<1>2. ASSUME NEW p \in Ledger!Proposal, Propose(p) PROVE Ledger!Next
  BY <1>0, <1>2 DEF Propose, Ledger!Next
<1>3. CASE RevealNext
  <2>1. sealed # <<>> /\ sealed \in Seq(1..MaxCommits)
    BY <1>3 DEF RevealNext, RunInv, EngineHolds, SealsAreKept
  <2>2. Head(sealed) \in 1..MaxCommits /\ Head(sealed) = sealed[1] /\ 1 \in 1..Len(sealed)
    BY <2>1, HeadAndTail
  <2>3. commitments[Head(sealed)].digest \in Ledger!Proposal
    BY <1>0, <2>2, SealedBidsAreBids DEF RunInv, EngineHolds, SealsAreKept
  <2> QED BY <1>3, <2>2, <2>3 DEF RevealNext, Ledger!Next, Ledger!CommitId
<1>4. ASSUME NEW c \in ClaimId, NEW l \in Ledger!BenList, FileYield(c, l) PROVE Ledger!Next
  BY <1>0, <1>4 DEF FileYield, Ledger!Next
<1>5. ASSUME NEW op, NEW c \in ClaimId, NEW l \in Ledger!BenList, RulingOp(op, c, l)
      PROVE  Ledger!Next
  BY <1>5 DEF RulingOp, ApplyOp, Ledger!Next
<1>6. ASSUME NEW x \in Bank!ContestId, SweepContest(x) PROVE [Ledger!Next]_ledgerVars
  <2>1. contests[x].status = "open"
    BY <1>6, SweptContestsAreOpen
  <2>2. contests[x].target \in ClaimId
    BY <1>0, <2>1 DEF Bank!BankTypeOK, Bank!Contest, Bank!NoContest
  <2> QED BY <1>6, <2>2 DEF SweepContest, Ledger!Next
<1>7. ASSUME NEW c \in ClaimId, SweepClaim(c) PROVE Ledger!Next
  BY <1>7 DEF SweepClaim, Ledger!Next
<1>8. ASSUME NEW c \in ClaimId, FileBlock(c) PROVE UNCHANGED ledgerVars
  BY <1>8 DEF FileBlock
<1>9. ASSUME NEW d \in pending, Rule(d) PROVE UNCHANGED ledgerVars
  BY <1>9 DEF Rule
<1>10. ASSUME NEW x \in Bank!ContestId, SettleContest(x) PROVE UNCHANGED ledgerVars
  BY <1>10 DEF SettleContest
<1>11. CASE EndTurn \/ Impersonate \/ EndReveals \/ FileNote \/ ScanRound
  BY <1>11 DEF EndTurn, Impersonate, EndReveals, FileNote, ScanRound
<1>12. CASE EndRulings \/ EndOps \/ EndSettlement \/ EndRound
  BY <1>12 DEF EndRulings, EndOps, EndSettlement, EndRound
<1>13. CASE Fiat \/ SafetyFinalize \/ EndContestSweep \/ EndSweep
  BY <1>13 DEF Fiat, SafetyFinalize, EndContestSweep, EndSweep
<1>14. CASE UNCHANGED vars
  BY <1>14 DEF vars
<1> QED
  BY <1>1, <1>2, <1>3, <1>4, <1>5, <1>6, <1>7, <1>8, <1>9, <1>10, <1>11, <1>12, <1>13,
     <1>14 DEF Next

LEMMA CallsTheBank == RunInv /\ [Next]_vars => [Bank!BankNext]_bankVars
<1> SUFFICES ASSUME RunInv, [Next]_vars PROVE [Bank!BankNext]_bankVars
  OBVIOUS
<1>0. Speaker \in Agent
  BY SpeakersAreAgents DEF RunInv, EngineHolds
<1>1. ASSUME NEW c \in ClaimId, FileBlock(c) PROVE Bank!BankNext
  BY <1>0, <1>1 DEF FileBlock, Bank!BankNext, ClaimId
<1>2. ASSUME NEW x \in Bank!ContestId, SettleContest(x) PROVE [Bank!BankNext]_bankVars
  BY <1>2 DEF SettleContest, Settlement, Bank!BankNext
<1>3. ASSUME NEW x \in Bank!ContestId, SweepContest(x) PROVE Bank!BankNext
  BY <1>3 DEF SweepContest, Bank!BankNext
<1>4. ASSUME NEW p \in Ledger!Proposal, Propose(p) PROVE UNCHANGED bankVars
  BY <1>4 DEF Propose
<1>5. ASSUME NEW c \in ClaimId, NEW l \in Ledger!BenList, FileYield(c, l)
      PROVE  UNCHANGED bankVars
  BY <1>5 DEF FileYield
<1>6. ASSUME NEW op, NEW c \in ClaimId, NEW l \in Ledger!BenList, RulingOp(op, c, l)
      PROVE  UNCHANGED bankVars
  BY <1>6 DEF RulingOp
<1>7. ASSUME NEW c \in ClaimId, SweepClaim(c) PROVE UNCHANGED bankVars
  BY <1>7 DEF SweepClaim
<1>8. ASSUME NEW d \in pending, Rule(d) PROVE UNCHANGED bankVars
  BY <1>8 DEF Rule
<1>9. CASE Setup \/ EndTurn \/ Impersonate \/ RevealNext \/ EndReveals \/ FileNote
  BY <1>9 DEF Setup, EndTurn, Impersonate, RevealNext, EndReveals, FileNote
<1>10. CASE ScanRound \/ EndRulings \/ EndOps \/ EndSettlement \/ EndRound
  BY <1>10 DEF ScanRound, EndRulings, EndOps, EndSettlement, EndRound
<1>11. CASE Fiat \/ SafetyFinalize \/ EndContestSweep \/ EndSweep
  BY <1>11 DEF Fiat, SafetyFinalize, EndContestSweep, EndSweep
<1>12. CASE UNCHANGED vars
  BY <1>12 DEF vars
<1> QED
  BY <1>1, <1>2, <1>3, <1>4, <1>5, <1>6, <1>7, <1>8, <1>9, <1>10, <1>11, <1>12 DEF Next
-----------------------------------------------------------------------------
(* The engine's own part of the invariant *)

LEMMA EngineInit == Init => EngineHolds
<1> SUFFICES ASSUME Init PROVE EngineHolds
  OBVIOUS
<1>1. setting \in Setting /\ MaxRounds \in Nat \ {0}
  BY SettingsAssumption DEF Init, Setting, MaxRounds
<1>2. Len(AgentList) \in Nat \ {0}
  BY EngineAssumption
<1>3. ControlIsTyped
  BY <1>1, <1>2 DEF Init, ControlIsTyped, Phase
<1>4. SealsAreKept
  BY DEF Init, SealsAreKept
<1>5. RulingsAreOnClaims
  BY DEF Init, Detector!DetectorInit, RulingsAreOnClaims, NoRuling
<1>6. \A x \in Bank!ContestId : contests[x].status = "absent"
  BY DEF Init, Bank!BankInit, Bank!NoContest
<1>7. /\ SettlementIsOnItsWay /\ SweepIsOnItsWay
      /\ DoneIsDone /\ ClosedContestsHoldNothing
  BY <1>6 DEF Init, SettlementIsOnItsWay, SweepIsOnItsWay, DoneIsDone,
     ClosedContestsHoldNothing
<1> QED
  BY <1>3, <1>4, <1>5, <1>7 DEF EngineHolds

LEMMA ControlStep == RunInv /\ [Next]_vars => ControlIsTyped'
<1> SUFFICES ASSUME RunInv, [Next]_vars PROVE ControlIsTyped'
  OBVIOUS
<1>1. /\ ControlIsTyped
      /\ MaxRounds \in Nat \ {0} /\ Len(AgentList) \in Nat \ {0}
      /\ round \in Nat \ {0}
  BY EngineAssumption DEF RunInv, EngineHolds, ControlIsTyped, Setting, MaxRounds
<1> USE DEF ControlIsTyped, Early, Phase, Goto, HasMediator, MaxRounds
<1>2. CASE Setup
  BY <1>1, <1>2 DEF Setup, engineVars, rulingVars
<1>3. CASE EndTurn
  BY <1>1, <1>3 DEF EndTurn, rulingVars
<1>4. CASE Impersonate
  BY <1>1, <1>4 DEF Impersonate, rulingVars
<1>5. ASSUME NEW p \in Ledger!Proposal, Propose(p) PROVE ControlIsTyped'
  BY <1>1, <1>5 DEF Propose, rulingVars
<1>6. CASE RevealNext
  BY <1>1, <1>6 DEF RevealNext, rulingVars
<1>7. CASE EndReveals
  BY <1>1, <1>7 DEF EndReveals, rulingVars
<1>8. CASE FileNote
  BY <1>1, <1>8 DEF FileNote, rulingVars
<1>9. ASSUME NEW c \in ClaimId, FileBlock(c) PROVE ControlIsTyped'
  BY <1>1, <1>9 DEF FileBlock, rulingVars
<1>10. ASSUME NEW c \in ClaimId, NEW l \in Ledger!BenList, FileYield(c, l)
       PROVE  ControlIsTyped'
  BY <1>1, <1>10 DEF FileYield, rulingVars
<1>11. CASE ScanRound
  BY <1>1, <1>11 DEF ScanRound, rulingVars
<1>12. ASSUME NEW d \in pending, Rule(d) PROVE ControlIsTyped'
  BY <1>1, <1>12 DEF Rule
<1>13. CASE EndRulings
  BY <1>1, <1>13 DEF EndRulings, rulingVars
<1>14. ASSUME NEW op, NEW c \in ClaimId, NEW l \in Ledger!BenList, RulingOp(op, c, l)
       PROVE  ControlIsTyped'
  BY <1>1, <1>14 DEF RulingOp
<1>15. CASE EndOps
  BY <1>1, <1>15 DEF EndOps
<1>16. ASSUME NEW x \in Bank!ContestId, SettleContest(x) PROVE ControlIsTyped'
  BY <1>1, <1>16 DEF SettleContest, engineVars
<1>17. CASE EndSettlement
  BY <1>1, <1>17 DEF EndSettlement, Final
<1>18. CASE EndRound
  BY <1>1, <1>18 DEF EndRound, rulingVars
<1>19. CASE Fiat
  BY <1>1, <1>19 DEF Fiat
<1>20. CASE SafetyFinalize
  BY <1>1, <1>20 DEF SafetyFinalize, rulingVars
<1>21. ASSUME NEW x \in Bank!ContestId, SweepContest(x) PROVE ControlIsTyped'
  BY <1>1, <1>21 DEF SweepContest, rulingVars, engineVars
<1>22. ASSUME NEW c \in ClaimId, SweepClaim(c) PROVE ControlIsTyped'
  BY <1>1, <1>22 DEF SweepClaim, rulingVars, engineVars
<1>23. CASE EndContestSweep
  BY <1>1, <1>23 DEF EndContestSweep
<1>24. CASE EndSweep
  BY <1>1, <1>24 DEF EndSweep, rulingVars
<1>25. CASE UNCHANGED vars
  BY <1>1, <1>25 DEF vars, rulingVars, engineVars
<1> QED
  BY <1>2, <1>3, <1>4, <1>5, <1>6, <1>7, <1>8, <1>9, <1>10, <1>11, <1>12, <1>13, <1>14,
     <1>15, <1>16, <1>17, <1>18, <1>19, <1>20, <1>21, <1>22, <1>23, <1>24, <1>25 DEF Next

\* Only commit and reveal touch commitments.
LEMMA OtherCallsKeepSeals ==
  ASSUME NEW c, NEW l, NEW a, NEW r,
         \/ Ledger!RegisterResource(r) \/ Ledger!Release(a, c, l) \/ Ledger!Withdraw(a, c)
         \/ Ledger!RevokeOp(c, l) \/ Ledger!GrantOp(c, l) \/ Ledger!VoidClaim(c)
  PROVE  UNCHANGED commitments
<1>1. CASE Ledger!RegisterResource(r) \/ Ledger!Withdraw(a, c)
  BY <1>1 DEF Ledger!RegisterResource, Ledger!Withdraw, Ledger!NoEffect, Ledger!tables
<1>2. CASE Ledger!Release(a, c, l) \/ Ledger!RevokeOp(c, l)
  BY <1>2 DEF Ledger!Release, Ledger!RevokeOp, Ledger!GiveBack, Ledger!NoEffect, Ledger!tables
<1>3. CASE Ledger!GrantOp(c, l)
  BY <1>3 DEF Ledger!GrantOp, Ledger!NoEffect, Ledger!tables
<1>4. CASE Ledger!VoidClaim(c)
  BY <1>4 DEF Ledger!VoidClaim, Ledger!NoEffect, Ledger!tables
<1> QED
  BY <1>1, <1>2, <1>3, <1>4

LEMMA ProposeKeepsSeals ==
  ASSUME RunInv, NEW p, Propose(p)
  PROVE  SealsAreKept'
<1> DEFINE n == Len(sealed)
           m == commitSeq + 1
<1>1. /\ SealsAreKept /\ Ledger!TypeOK /\ Ledger!NextIdsAreFree
      /\ MaxCommits \in Nat
  BY LedgerAssumption DEF RunInv, EngineHolds, LedgerHolds
<1>2. /\ commitSeq < MaxCommits /\ commitSeq' = m /\ sealed' = Append(sealed, m)
      /\ commitments' = [commitments EXCEPT ![m] =
           [agent |-> Speaker, digest |-> p, state |-> "sealed", claim |-> 0]]
  BY DEF Propose, Ledger!Commit
<1>3. commitSeq \in Nat /\ m \in 1..MaxCommits /\ DOMAIN commitments = 1..MaxCommits
  BY <1>1, <1>2 DEF Ledger!TypeOK, Ledger!CommitId
<1>4. ASSUME NEW i \in 1..n
      PROVE  sealed[i] \in 1..MaxCommits /\ sealed[i] # m
  <2>1. sealed[i] \in 1..MaxCommits /\ commitments[sealed[i]].state = "sealed"
    BY <1>1 DEF SealsAreKept
  <2> QED BY <1>1, <1>3, <2>1 DEF Ledger!NextIdsAreFree, Ledger!CommitId
<1>5. /\ n \in Nat /\ sealed' \in Seq(1..MaxCommits) /\ Len(sealed') = n + 1
      /\ sealed'[n + 1] = m
      /\ \A i \in 1..n : sealed'[i] = sealed[i]
  <2>1. sealed \in Seq(1..MaxCommits)
    BY <1>1 DEF SealsAreKept
  <2> HIDE DEF m
  <2> QED BY <1>2, <1>3, <2>1
<1>6. ASSUME NEW i \in 1..n + 1 PROVE commitments'[sealed'[i]].state = "sealed"
  <2>0. commitments'[m].state = "sealed" /\ \A k \in 1..MaxCommits : k # m =>
                                             commitments'[k] = commitments[k]
    BY <1>2, <1>3
  <2>1. CASE i = n + 1
    BY <2>0, <1>5, <2>1
  <2>2. CASE i \in 1..n
    BY <2>0, <1>1, <1>4, <1>5, <2>2 DEF SealsAreKept
  <2> QED BY <1>5, <2>1, <2>2
<1>7. ASSUME NEW i \in 1..n + 1, NEW j \in 1..n + 1, sealed'[i] = sealed'[j] PROVE i = j
  <2>1. i \in 1..n \/ i = n + 1
    BY <1>5
  <2>2. j \in 1..n \/ j = n + 1
    BY <1>5
  <2> QED BY <1>1, <1>4, <1>5, <1>7, <2>1, <2>2 DEF SealsAreKept
<1> QED
  BY <1>5, <1>6, <1>7 DEF SealsAreKept

LEMMA RevealKeepsSeals ==
  ASSUME RunInv, RevealNext
  PROVE  SealsAreKept'
<1> DEFINE m == Head(sealed)
           n == Len(sealed)
<1>0. SealsAreKept
  BY DEF RunInv, EngineHolds
<1>1. SealsAreKept /\ sealed # <<>> /\ sealed' = Tail(sealed)
  BY DEF RunInv, EngineHolds, RevealNext
<1>2. /\ 1 \in 1..n /\ m = sealed[1] /\ n \in Nat
      /\ sealed' \in Seq(1..MaxCommits) /\ Len(sealed') = n - 1
      /\ \A i \in 1..n - 1 : sealed'[i] = sealed[i + 1] /\ i + 1 \in 1..n
  BY <1>1, HeadAndTail DEF SealsAreKept
<1>3. \A k \in 1..MaxCommits : k # m => commitments'[k] = commitments[k]
  <2>1. Ledger!TypeOK
    BY DEF RunInv, LedgerHolds
  <2>2. commitments = [k \in 1..MaxCommits |-> commitments[k]]
    BY <2>1 DEF Ledger!TypeOK, Ledger!CommitId
  <2> HIDE DEF m
  <2>3. Ledger!Reveal(m, commitments[m].digest, TRUE)
    BY DEF RevealNext, m
  <2> QED
    BY <2>2, <2>3 DEF Ledger!Reveal, Ledger!NoEffect, Ledger!tables,
           Ledger!RevealMismatch, Ledger!RevealMatch
<1> HIDE DEF m
<1>9. \A k \in 1..n : sealed[k] \in 1..MaxCommits /\ commitments[sealed[k]].state = "sealed"
  BY <1>1, HeadAndTail DEF SealsAreKept
<1>4. ASSUME NEW i \in 1..n - 1 PROVE commitments'[sealed'[i]].state = "sealed"
  <2>0. i + 1 \in 1..n /\ i + 1 # 1
    BY <1>2
  <2>1. sealed[i + 1] \in 1..MaxCommits /\ commitments[sealed[i + 1]].state = "sealed"
    BY <2>0, <1>9
  <2>2. sealed[i + 1] # sealed[1]
    BY <1>0, <1>2, <2>0 DEF SealsAreKept
  <2> QED BY <1>2, <1>3, <2>1, <2>2
<1>5. ASSUME NEW i \in 1..n - 1, NEW j \in 1..n - 1, sealed'[i] = sealed'[j] PROVE i = j
  <2>1. i + 1 \in 1..n /\ j + 1 \in 1..n /\ sealed[i + 1] = sealed[j + 1]
    BY <1>2, <1>5
  <2>2. i + 1 = j + 1
    BY <1>0, <2>1 DEF SealsAreKept
  <2> QED BY <2>2
<1> QED
  BY <1>2, <1>4, <1>5 DEF SealsAreKept

LEMMA SealsStep == RunInv /\ [Next]_vars => SealsAreKept'
<1> SUFFICES ASSUME RunInv, [Next]_vars PROVE SealsAreKept'
  OBVIOUS
<1>1. ASSUME UNCHANGED <<commitments, sealed>> PROVE SealsAreKept'
  BY <1>1 DEF RunInv, EngineHolds, SealsAreKept
<1>2. ASSUME NEW p \in Ledger!Proposal, Propose(p) PROVE SealsAreKept'
  BY <1>2, ProposeKeepsSeals
<1>3. CASE RevealNext
  BY <1>3, RevealKeepsSeals
<1>4. CASE Setup
  BY <1>1, <1>4, OtherCallsKeepSeals DEF Setup, ledgerVars
<1>5. ASSUME NEW c \in ClaimId, NEW l \in Ledger!BenList, FileYield(c, l) PROVE SealsAreKept'
  BY <1>1, <1>5, OtherCallsKeepSeals DEF FileYield
<1>6. ASSUME NEW op, NEW c \in ClaimId, NEW l \in Ledger!BenList, RulingOp(op, c, l)
      PROVE  SealsAreKept'
  BY <1>1, <1>6, OtherCallsKeepSeals DEF RulingOp, ApplyOp
<1>7. ASSUME NEW x \in Bank!ContestId, SweepContest(x) PROVE SealsAreKept'
  BY <1>1, <1>7, OtherCallsKeepSeals DEF SweepContest, ledgerVars, engineVars
<1>8. ASSUME NEW c \in ClaimId, SweepClaim(c) PROVE SealsAreKept'
  BY <1>1, <1>8, OtherCallsKeepSeals DEF SweepClaim, engineVars
<1>9. ASSUME NEW c \in ClaimId, FileBlock(c) PROVE SealsAreKept'
  BY <1>1, <1>9 DEF FileBlock, ledgerVars
<1>10. ASSUME NEW d \in pending, Rule(d) PROVE SealsAreKept'
  BY <1>1, <1>10 DEF Rule, ledgerVars
<1>11. ASSUME NEW x \in Bank!ContestId, SettleContest(x) PROVE SealsAreKept'
  BY <1>1, <1>11 DEF SettleContest, ledgerVars, engineVars
<1>12. CASE EndTurn \/ Impersonate \/ EndReveals \/ FileNote \/ ScanRound
  BY <1>1, <1>12 DEF EndTurn, Impersonate, EndReveals, FileNote, ScanRound, ledgerVars
<1>13. CASE EndRulings \/ EndOps \/ EndSettlement \/ EndRound
  BY <1>1, <1>13 DEF EndRulings, EndOps, EndSettlement, EndRound, ledgerVars
<1>14. CASE Fiat \/ SafetyFinalize \/ EndContestSweep \/ EndSweep
  BY <1>1, <1>14 DEF Fiat, SafetyFinalize, EndContestSweep, EndSweep, ledgerVars
<1>15. CASE UNCHANGED vars
  BY <1>1, <1>15 DEF vars, ledgerVars, engineVars
<1> QED
  BY <1>2, <1>3, <1>4, <1>5, <1>6, <1>7, <1>8, <1>9, <1>10, <1>11, <1>12, <1>13, <1>14,
     <1>15 DEF Next

\* What a scan reports names claims of the ledger.
LEMMA ScansNameClaims ==
  ASSUME Ledger!TypeOK, NEW d,
         d \in Detector!NewCycles(CurrentView) \/ d \in Detector!NewContested(CurrentView)
  PROVE  d.claims \subseteq ClaimId
<1> DEFINE v == CurrentView
<1>1. \A x \in v.blocked \union v.held \union v.challenged : x.claim \in ClaimId
  <2>1. \A x \in alloc : x.claim \in ClaimId
    BY DEF Ledger!TypeOK, Ledger!Allocation, Ledger!ClaimId, ClaimId
  <2> QED BY <2>1 DEF CurrentView, RowOf, Blocked
<1> HIDE DEF v
<1>2. CASE d \in Detector!NewCycles(v)
  <2>1. PICK C : d = Detector!CycleDeadlock(v, C)
    BY <1>2 DEF Detector!NewCycles, Detector!Cycles
  <2>2. \A e \in Detector!Waits(v) : e[1].claim \in ClaimId /\ e[2].claim \in ClaimId
    BY <1>1 DEF Detector!Waits
  <2> QED BY <2>1, <2>2 DEF Detector!CycleDeadlock
<1>3. CASE d \in Detector!NewContested(v)
  <2>1. PICK r : d = Detector!ContestedDeadlock(v, r)
    BY <1>3 DEF Detector!NewContested
  <2>2. \A x \in Detector!ContestedRows(v, r) : x.claim \in ClaimId
    BY <1>1 DEF Detector!ContestedRows, Detector!On
  <2> QED BY <2>1, <2>2 DEF Detector!ContestedDeadlock
<1> QED
  BY <1>2, <1>3 DEF v

LEMMA RulingsStep == RunInv /\ [Next]_vars => RulingsAreOnClaims'
<1> SUFFICES ASSUME RunInv, [Next]_vars PROVE RulingsAreOnClaims'
  OBVIOUS
<1>0. RulingsAreOnClaims /\ Ledger!TypeOK /\ Bank!BankTypeOK
  BY DEF RunInv, EngineHolds, LedgerHolds, BankHolds
<1>1. ASSUME UNCHANGED <<pending, ruling>> PROVE RulingsAreOnClaims'
  BY <1>0, <1>1 DEF RulingsAreOnClaims
<1>2. CASE ScanRound
  <2>1. \A d \in pending' : d.claims \subseteq ClaimId
    BY <1>0, <1>2, ScansNameClaims DEF ScanRound, Detector!Scan
  <2>2. ruling' = ruling
    BY <1>2 DEF ScanRound, rulingVars
  <2> QED BY <1>0, <2>1, <2>2 DEF RulingsAreOnClaims
<1>3. ASSUME NEW d \in pending, Rule(d) PROVE RulingsAreOnClaims'
  BY <1>0, <1>3 DEF Rule, RulingsAreOnClaims
<1>4. ASSUME NEW op, NEW c \in ClaimId, NEW l \in Ledger!BenList, RulingOp(op, c, l)
      PROVE  RulingsAreOnClaims'
  <2>1. pending' = pending
    BY <1>4 DEF RulingOp, detectorVars
  <2>2. ruling' = [ruling EXCEPT !.touched = ruling.touched \union {c}]
    BY <1>4 DEF RulingOp
  <2>3. ruling'.touched \subseteq ruling.touched \union {c}
    <3> DEFINE T == ruling.touched \union {c}
    <3>1. ruling' = [ruling EXCEPT !.touched = T]
      BY <2>2
    <3> QED BY <3>1
  <2> QED BY <1>0, <2>1, <2>3 DEF RulingsAreOnClaims
<1>5. CASE EndSettlement
  BY <1>0, <1>5 DEF EndSettlement, Detector!ResetResources, RulingsAreOnClaims, NoRuling
<1>6. CASE EndRound
  BY <1>0, <1>6 DEF EndRound, rulingVars, RulingsAreOnClaims
<1>7. CASE Fiat
  <2>1. \A x \in OpenContests : contests[x].target \in ClaimId
    BY <1>0 DEF OpenContests, Bank!BankTypeOK, Bank!Contest, Bank!NoContest, ClaimId
  <2>2. pending' = pending
    BY <1>7 DEF Fiat, detectorVars
  <2>3. ruling'.touched \subseteq ClaimId
    BY <1>0, <1>7, <2>1 DEF Fiat, RulingsAreOnClaims, Blocked
  <2> QED BY <1>0, <2>2, <2>3 DEF RulingsAreOnClaims
<1>8. CASE Setup \/ EndTurn \/ Impersonate \/ RevealNext \/ EndReveals \/ FileNote
  BY <1>1, <1>8 DEF Setup, EndTurn, Impersonate, RevealNext, EndReveals, FileNote,
     detectorVars, rulingVars
<1>9. CASE EndRulings \/ EndOps \/ SafetyFinalize \/ EndContestSweep \/ EndSweep
  BY <1>1, <1>9 DEF EndRulings, EndOps, SafetyFinalize, EndContestSweep, EndSweep, detectorVars, rulingVars
<1>10. ASSUME NEW p \in Ledger!Proposal, Propose(p) PROVE RulingsAreOnClaims'
  BY <1>1, <1>10 DEF Propose, detectorVars, rulingVars
<1>11. ASSUME NEW c \in ClaimId, FileBlock(c) PROVE RulingsAreOnClaims'
  BY <1>1, <1>11 DEF FileBlock, detectorVars, rulingVars
<1>12. ASSUME NEW c \in ClaimId, NEW l \in Ledger!BenList, FileYield(c, l)
       PROVE  RulingsAreOnClaims'
  BY <1>1, <1>12 DEF FileYield, detectorVars, rulingVars
<1>13. ASSUME NEW x \in Bank!ContestId, SettleContest(x) PROVE RulingsAreOnClaims'
  BY <1>1, <1>13 DEF SettleContest, detectorVars
<1>14. ASSUME NEW x \in Bank!ContestId, SweepContest(x) PROVE RulingsAreOnClaims'
  BY <1>1, <1>14 DEF SweepContest, detectorVars, rulingVars
<1>15. ASSUME NEW c \in ClaimId, SweepClaim(c) PROVE RulingsAreOnClaims'
  BY <1>1, <1>15 DEF SweepClaim, detectorVars, rulingVars
<1>16. CASE UNCHANGED vars
  BY <1>1, <1>16 DEF vars, detectorVars, rulingVars
<1> QED
  BY <1>2, <1>3, <1>4, <1>5, <1>6, <1>7, <1>8, <1>9, <1>10, <1>11, <1>12, <1>13, <1>14,
     <1>15, <1>16 DEF Next

\* What settling or voiding a contest does to it and to the others.
LEMMA ContestCloses ==
  ASSUME Bank!BankTypeOK, NEW x \in Bank!ContestId, NEW won \in BOOLEAN,
         contests[x].status = "open",
         Bank!Settle(x, won) \/ Bank!VoidContest(x)
  PROVE  /\ contests'[x].status \in {"won", "lost", "void"}
         /\ contests'[x].target = contests[x].target
         /\ \A y \in Bank!ContestId \ {x} : contests'[y] = contests[y]
<1>1. PICK s \in {"won", "lost", "void"} : contests' = [contests EXCEPT ![x].status = s]
  BY DEF Bank!Settle, Bank!VoidContest, Bank!Close
<1>2. contests[x] \in Bank!Contest /\ contests = [y \in Bank!ContestId |-> contests[y]]
  BY DEF Bank!BankTypeOK, Bank!NoContest
<1>3. contests'[x] = [contests[x] EXCEPT !.status = s]
  BY <1>1, <1>2
<1>4. contests'[x].status = s /\ contests'[x].target = contests[x].target
  BY <1>2, <1>3 DEF Bank!Contest
<1> QED
  BY <1>1, <1>2, <1>4

\* Voiding a claim is all that happens to the claims.
LEMMA VoidedIsNotBlocked ==
  ASSUME Ledger!TypeOK, NEW c \in ClaimId, Ledger!VoidClaim(c), claims[c].status = "blocked"
  PROVE  Blocked' = Blocked \ {c}
<1>1. /\ claims = [d \in ClaimId |-> claims[d]]
      /\ claims[c] \in Ledger!Claim
  BY DEF Ledger!TypeOK, Ledger!ClaimId, ClaimId, Ledger!NoClaim
<1>2. claims' = [claims EXCEPT ![c] = [claims[c] EXCEPT !.status = "voided"]]
  BY DEF Ledger!VoidClaim, Ledger!HasClaim, Ledger!SetStatus
<1>3. claims'[c].status = "voided"
  BY <1>1, <1>2 DEF Ledger!Claim
<1>4. \A d \in ClaimId \ {c} : claims'[d] = claims[d]
  BY <1>1, <1>2
<1> QED BY <1>3, <1>4 DEF Blocked

LEMMA SweepStep == RunInv /\ [Next]_vars => SweepIsOnItsWay'
<1> SUFFICES ASSUME RunInv, [Next]_vars PROVE SweepIsOnItsWay'
  OBVIOUS
<1>0. /\ ControlIsTyped /\ SettlementIsOnItsWay /\ SweepIsOnItsWay
      /\ Bank!BankTypeOK /\ Ledger!TypeOK
  BY DEF RunInv, EngineHolds, BankHolds, LedgerHolds
<1> USE DEF Goto, engineVars
<1>1. ASSUME phase' \notin {"sweep", "clear"} PROVE SweepIsOnItsWay'
  BY <1>1 DEF SweepIsOnItsWay
<1>2. CASE EndSettlement \/ Fiat \/ SafetyFinalize
  BY <1>2 DEF EndSettlement, Fiat, SafetyFinalize, SweepIsOnItsWay, OpenContests, bankVars
<1>3. ASSUME NEW x \in Bank!ContestId, SweepContest(x) PROVE SweepIsOnItsWay'
  <2>1. /\ phase = "sweep" /\ phase' = "sweep" /\ settling' = settling \ {x}
        /\ Bank!VoidContest(x) /\ contests[x].status = "open"
    BY <1>3, SweptContestsAreOpen DEF SweepContest
  <2>2. /\ contests'[x].status \in {"won", "lost", "void"}
        /\ \A y \in Bank!ContestId \ {x} : contests'[y] = contests[y]
    BY <1>0, <2>1, ContestCloses
  <2>3. OpenContests' = OpenContests \ {x}
    BY <2>2 DEF OpenContests
  <2> QED BY <1>0, <2>1, <2>3 DEF SweepIsOnItsWay
<1>4. CASE EndContestSweep
  BY <1>0, <1>4 DEF EndContestSweep, SweepIsOnItsWay, OpenContests, Blocked, bankVars, ledgerVars
<1>5. ASSUME NEW c \in ClaimId, SweepClaim(c) PROVE SweepIsOnItsWay'
  <2>1. /\ phase = "clear" /\ phase' = "clear" /\ clearing' = clearing \ {c}
        /\ c \in clearing /\ Ledger!VoidClaim(c) /\ contests' = contests
    BY <1>5 DEF SweepClaim, IsFirst, bankVars
  <2>2. claims[c].status = "blocked"
    BY <1>0, <2>1 DEF SweepIsOnItsWay, Blocked
  <2>3. Blocked' = Blocked \ {c}
    BY <1>0, <2>1, <2>2, VoidedIsNotBlocked
  <2> QED BY <1>0, <2>1, <2>3 DEF SweepIsOnItsWay, OpenContests
<1>6. CASE EndSweep
  BY <1>1, <1>6 DEF EndSweep
<1>7. ASSUME NEW p \in Ledger!Proposal, Propose(p) PROVE SweepIsOnItsWay'
  BY <1>1, <1>7 DEF Propose
<1>8. ASSUME NEW c \in ClaimId, FileBlock(c) PROVE SweepIsOnItsWay'
  BY <1>1, <1>8 DEF FileBlock
<1>9. ASSUME NEW c \in ClaimId, NEW l \in Ledger!BenList, FileYield(c, l)
      PROVE  SweepIsOnItsWay'
  BY <1>1, <1>9 DEF FileYield
<1>10. ASSUME NEW d \in pending, Rule(d) PROVE SweepIsOnItsWay'
  BY <1>1, <1>10 DEF Rule
<1>11. ASSUME NEW op, NEW c \in ClaimId, NEW l \in Ledger!BenList, RulingOp(op, c, l)
       PROVE  SweepIsOnItsWay'
  BY <1>1, <1>11 DEF RulingOp
<1>12. ASSUME NEW x \in Bank!ContestId, SettleContest(x) PROVE SweepIsOnItsWay'
  BY <1>1, <1>12 DEF SettleContest
<1>13. CASE Setup \/ EndTurn \/ Impersonate \/ RevealNext \/ EndReveals \/ FileNote
  BY <1>1, <1>13 DEF Setup, EndTurn, Impersonate, RevealNext, EndReveals, FileNote
<1>14. CASE ScanRound \/ EndRulings \/ EndOps \/ EndRound
  BY <1>1, <1>14 DEF ScanRound, EndRulings, EndOps, EndRound
<1>15. CASE UNCHANGED vars
  BY <1>0, <1>15 DEF vars, bankVars, rulingVars, ledgerVars, SweepIsOnItsWay, OpenContests,
     Blocked
<1> QED
  BY <1>2, <1>3, <1>4, <1>5, <1>6, <1>7, <1>8, <1>9, <1>10, <1>11, <1>12, <1>13, <1>14,
     <1>15 DEF Next

LEMMA SettlementStep == RunInv /\ [Next]_vars => SettlementIsOnItsWay'
<1> SUFFICES ASSUME RunInv, [Next]_vars PROVE SettlementIsOnItsWay'
  OBVIOUS
<1>0. /\ ControlIsTyped /\ ControlIsTyped' /\ SettlementIsOnItsWay /\ SweepIsOnItsWay'
      /\ Bank!BankTypeOK
  BY ControlStep, SweepStep DEF RunInv, EngineHolds, BankHolds
<1>1. CASE phase' # "settle"
  BY <1>0, <1>1 DEF ControlIsTyped, SettlementIsOnItsWay, SweepIsOnItsWay
<1>2. CASE EndOps
  <2>1. settling' = OpenContests /\ contests' = contests
    BY <1>2 DEF EndOps, bankVars
  <2> QED BY <2>1 DEF SettlementIsOnItsWay, OpenContests
<1>3. ASSUME NEW x \in Bank!ContestId, SettleContest(x) PROVE SettlementIsOnItsWay'
  <2>1. /\ phase = "settle" /\ x \in settling /\ settling' = settling \ {x}
        /\ ruling' = ruling /\ Settlement(x)
    BY <1>3 DEF SettleContest, IsFirst
  <2>2. contests[x].status = "open"
    BY <1>0, <2>1 DEF SettlementIsOnItsWay, OpenContests
  <2>3. CASE contests' = contests /\ contests[x].target \notin ruling.touched
    BY <1>0, <2>1, <2>3 DEF SettlementIsOnItsWay, OpenContests
  <2>4. CASE Bank!Settle(x, TRUE) \/ Bank!Settle(x, FALSE) \/ Bank!VoidContest(x)
    <3>1. /\ contests'[x].status \in {"won", "lost", "void"}
          /\ \A y \in Bank!ContestId \ {x} : contests'[y] = contests[y]
      BY <1>0, <2>2, <2>4, ContestCloses
    <3>2. OpenContests' = OpenContests \ {x}
      BY <3>1 DEF OpenContests
    <3>3. \A y \in OpenContests' : contests'[y] = contests[y]
      BY <3>1, <3>2 DEF OpenContests
    <3> QED BY <1>0, <2>1, <3>2, <3>3 DEF SettlementIsOnItsWay
  <2> QED BY <2>1, <2>3, <2>4 DEF Settlement, bankVars
<1>4. CASE UNCHANGED vars
  BY <1>0, <1>4 DEF vars, bankVars, rulingVars, engineVars, SettlementIsOnItsWay, OpenContests
<1>5. ASSUME ~EndOps, \A x \in Bank!ContestId : ~SettleContest(x), Next
      PROVE  phase' # "settle"
  <2> USE DEF Goto, engineVars
  <2>1. ASSUME NEW p \in Ledger!Proposal, Propose(p) PROVE phase' # "settle"
    BY <2>1 DEF Propose
  <2>2. ASSUME NEW c \in ClaimId, FileBlock(c) PROVE phase' # "settle"
    BY <2>2 DEF FileBlock
  <2>3. ASSUME NEW c \in ClaimId, NEW l \in Ledger!BenList, FileYield(c, l)
        PROVE  phase' # "settle"
    BY <2>3 DEF FileYield
  <2>4. ASSUME NEW d \in pending, Rule(d) PROVE phase' # "settle"
    BY <2>4 DEF Rule
  <2>5. ASSUME NEW op, NEW c \in ClaimId, NEW l \in Ledger!BenList, RulingOp(op, c, l)
        PROVE  phase' # "settle"
    BY <2>5 DEF RulingOp
  <2>6. ASSUME NEW x \in Bank!ContestId, SweepContest(x) PROVE phase' # "settle"
    BY <2>6 DEF SweepContest
  <2>7. ASSUME NEW c \in ClaimId, SweepClaim(c) PROVE phase' # "settle"
    BY <2>7 DEF SweepClaim
  <2>8. CASE Setup \/ EndTurn \/ Impersonate \/ RevealNext \/ EndReveals \/ FileNote
    BY <2>8 DEF Setup, EndTurn, Impersonate, RevealNext, EndReveals, FileNote
  <2>9. CASE ScanRound \/ EndRulings \/ EndSettlement \/ EndRound
    BY <2>9 DEF ScanRound, EndRulings, EndSettlement, EndRound
  <2>10. CASE Fiat \/ SafetyFinalize \/ EndContestSweep \/ EndSweep
    BY <2>10 DEF Fiat, SafetyFinalize, EndContestSweep, EndSweep
  <2> QED
    BY <1>5, <2>1, <2>2, <2>3, <2>4, <2>5, <2>6, <2>7, <2>8, <2>9, <2>10 DEF Next
<1> QED
  BY <1>1, <1>2, <1>3, <1>4, <1>5

\* A run ends in two ways: in a quiet round, or when the sweep is through.
LEMMA RunsEndTwoWays ==
  ASSUME RunInv, Next, phase' = "done"
  PROVE  /\ EndRound \/ EndSweep
         /\ phase \in {"round_end", "clear"}
         /\ Blocked = {} /\ OpenContests = {} /\ UNCHANGED <<ledgerVars, bankVars, setting>>
<1> USE DEF Goto, engineVars
<1>1. ASSUME NEW p \in Ledger!Proposal, Propose(p) PROVE phase' # "done"
  BY <1>1 DEF Propose
<1>2. ASSUME NEW c \in ClaimId, FileBlock(c) PROVE phase' # "done"
  BY <1>2 DEF FileBlock
<1>3. ASSUME NEW c \in ClaimId, NEW l \in Ledger!BenList, FileYield(c, l) PROVE phase' # "done"
  BY <1>3 DEF FileYield
<1>4. ASSUME NEW d \in pending, Rule(d) PROVE phase' # "done"
  BY <1>4 DEF Rule
<1>5. ASSUME NEW op, NEW c \in ClaimId, NEW l \in Ledger!BenList, RulingOp(op, c, l)
      PROVE  phase' # "done"
  BY <1>5 DEF RulingOp
<1>6. ASSUME NEW x \in Bank!ContestId, SweepContest(x) \/ SettleContest(x) PROVE phase' # "done"
  BY <1>6 DEF SweepContest, SettleContest
<1>7. ASSUME NEW c \in ClaimId, SweepClaim(c) PROVE phase' # "done"
  BY <1>7 DEF SweepClaim
<1>8. CASE Setup \/ EndTurn \/ Impersonate \/ RevealNext \/ EndReveals \/ FileNote
  BY <1>8 DEF Setup, EndTurn, Impersonate, RevealNext, EndReveals, FileNote
<1>9. CASE ScanRound \/ EndRulings \/ EndOps \/ EndSettlement \/ Fiat \/ SafetyFinalize
       \/ EndContestSweep
  BY <1>9 DEF ScanRound, EndRulings, EndOps, EndSettlement, Fiat, SafetyFinalize,
     EndContestSweep
<1>10. EndRound \/ EndSweep
  BY <1>1, <1>2, <1>3, <1>4, <1>5, <1>6, <1>7, <1>8, <1>9 DEF Next
<1>11. CASE EndRound
  BY <1>11 DEF EndRound, Quiet
<1>12. CASE EndSweep
  BY <1>12 DEF EndSweep, RunInv, EngineHolds, SweepIsOnItsWay
<1> QED
  BY <1>10, <1>11, <1>12

LEMMA DoneStep == RunInv /\ [Next]_vars => DoneIsDone'
<1> SUFFICES ASSUME RunInv, [Next]_vars, phase' = "done"
             PROVE  (Blocked = {} /\ OpenContests = {})'
  BY DEF DoneIsDone
<1>1. CASE Next
  BY <1>1, RunsEndTwoWays DEF Blocked, OpenContests, ledgerVars, bankVars
<1>2. CASE UNCHANGED vars
  BY <1>2 DEF RunInv, EngineHolds, DoneIsDone, vars, ledgerVars, bankVars, engineVars,
     Blocked, OpenContests
<1> QED
  BY <1>1, <1>2

LEMMA SettingStays == [Next]_vars => setting' = setting
<1> SUFFICES ASSUME [Next]_vars PROVE setting' = setting
  OBVIOUS
<1> USE DEF engineVars
<1>1. ASSUME NEW p \in Ledger!Proposal, Propose(p) PROVE setting' = setting
  BY <1>1 DEF Propose
<1>2. ASSUME NEW c \in ClaimId, FileBlock(c) \/ SweepClaim(c) PROVE setting' = setting
  BY <1>2 DEF FileBlock, SweepClaim
<1>3. ASSUME NEW c \in ClaimId, NEW l \in Ledger!BenList, FileYield(c, l)
      PROVE  setting' = setting
  BY <1>3 DEF FileYield
<1>4. ASSUME NEW d \in pending, Rule(d) PROVE setting' = setting
  BY <1>4 DEF Rule
<1>5. ASSUME NEW op, NEW c \in ClaimId, NEW l \in Ledger!BenList, RulingOp(op, c, l)
      PROVE  setting' = setting
  BY <1>5 DEF RulingOp
<1>6. ASSUME NEW x \in Bank!ContestId, SweepContest(x) \/ SettleContest(x)
      PROVE  setting' = setting
  BY <1>6 DEF SweepContest, SettleContest
<1>7. CASE Setup \/ EndTurn \/ Impersonate \/ RevealNext \/ EndReveals \/ FileNote
  BY <1>7 DEF Setup, EndTurn, Impersonate, RevealNext, EndReveals, FileNote
<1>8. CASE ScanRound \/ EndRulings \/ EndOps \/ EndSettlement \/ EndRound
  BY <1>8 DEF ScanRound, EndRulings, EndOps, EndSettlement, EndRound
<1>9. CASE Fiat \/ SafetyFinalize \/ EndContestSweep \/ EndSweep \/ UNCHANGED vars
  BY <1>9 DEF Fiat, SafetyFinalize, EndContestSweep, EndSweep, vars
<1> QED
  BY <1>1, <1>2, <1>3, <1>4, <1>5, <1>6, <1>7, <1>8, <1>9 DEF Next

\* Voiding a claim takes what it holds, and nobody gains a unit.
LEMMA VoidingEmptiesTheClaim ==
  ASSUME Ledger!TypeOK, Ledger!UnitsBelongToGrantedClaims,
         NEW c \in ClaimId, Ledger!VoidClaim(c)
  PROVE  alloc' \subseteq alloc /\ \A u \in alloc' : u.claim # c
<1> USE DEF Ledger!NoEffect, Ledger!tables
<1>1. CASE Ledger!Granted(c)
  <2>1. alloc' = {x \in alloc : ~(x.claim = c /\ x.resource = claims[c].resource
                                  /\ x.ben \in Ledger!Holders(c))}
    BY <1>1 DEF Ledger!VoidClaim, Ledger!Granted, Ledger!HasClaim, Ledger!Deallocate
  <2>2. \A u \in alloc : u.claim = c => u.resource = claims[c].resource
                                        /\ u.ben \in Ledger!Holders(c)
    BY DEF Ledger!UnitsBelongToGrantedClaims, Ledger!Holders
  <2> QED BY <2>1, <2>2
<1>2. CASE ~Ledger!Granted(c)
  <2>1. alloc' = alloc
    BY <1>2 DEF Ledger!VoidClaim
  <2> QED BY <1>2, <2>1 DEF Ledger!UnitsBelongToGrantedClaims
<1> QED
  BY <1>1, <1>2

LEMMA SweepEmptiesTheTarget ==
  ASSUME RunInv, NEW y \in Bank!ContestId, SweepContest(y), ~HasMediator
  PROVE  /\ alloc' \subseteq alloc
         /\ \A u \in alloc' : u.claim # contests[y].target
<1>1. Ledger!TypeOK /\ Ledger!UnitsBelongToGrantedClaims /\ Bank!BankTypeOK
  BY DEF RunInv, LedgerHolds, BankHolds
<1>2. contests[y].status = "open"
  BY SweptContestsAreOpen
<1>3. contests[y].target \in ClaimId
  BY <1>1, <1>2 DEF Bank!BankTypeOK, Bank!Contest, Bank!NoContest, ClaimId
<1>4. CASE Ledger!Granted(contests[y].target)
  <2>1. Ledger!VoidClaim(contests[y].target)
    BY <1>4 DEF SweepContest
  <2> QED BY <1>1, <1>3, <2>1, VoidingEmptiesTheClaim
<1>5. CASE ~Ledger!Granted(contests[y].target)
  <2>1. alloc' = alloc
    BY <1>5 DEF SweepContest, ledgerVars
  <2> QED BY <1>1, <1>5, <2>1 DEF Ledger!UnitsBelongToGrantedClaims
<1> QED
  BY <1>4, <1>5

LEMMA DisputesStep == RunInv /\ [Next]_vars => ClosedContestsHoldNothing'
<1> SUFFICES ASSUME RunInv, [Next]_vars, ~HasMediator',
                    NEW x \in Bank!ContestId, contests'[x].status \notin {"absent", "open"}
             PROVE  /\ phase' \in {"sweep", "clear", "done"}
                    /\ \A u \in alloc' : u.claim # contests'[x].target
  BY DEF ClosedContestsHoldNothing
<1> DEFINE Closed == contests[x].status \notin {"absent", "open"}
           Concluded == /\ phase' \in {"sweep", "clear", "done"}
                        /\ \A u \in alloc' : u.claim # contests'[x].target
<1>0. ~HasMediator /\ Bank!BankTypeOK /\ Ledger!TypeOK /\ ControlIsTyped
      /\ Ledger!UnitsBelongToGrantedClaims
  BY SettingStays DEF HasMediator, RunInv, EngineHolds, LedgerHolds, BankHolds
<1>1. Closed => /\ phase \in {"sweep", "clear", "done"}
                /\ \A u \in alloc : u.claim # contests[x].target
  BY <1>0 DEF RunInv, EngineHolds, ClosedContestsHoldNothing
<1>2. ASSUME UNCHANGED contests, phase \notin {"sweep", "clear", "done"} PROVE FALSE
  BY <1>1, <1>2
<1>3. ASSUME NEW y \in Bank!ContestId, SweepContest(y) PROVE Concluded
  <2>1. phase' = "sweep" /\ Bank!VoidContest(y) /\ contests[y].status = "open"
    BY <1>3, SweptContestsAreOpen DEF SweepContest, engineVars
  <2>2. /\ contests'[y].target = contests[y].target
        /\ \A z \in Bank!ContestId \ {y} : contests'[z] = contests[z]
    BY <1>0, <2>1, ContestCloses
  <2>3. /\ alloc' \subseteq alloc
        /\ \A u \in alloc' : u.claim # contests[y].target
    BY <1>0, <1>3, SweepEmptiesTheTarget
  <2>4. CASE x = y
    BY <2>1, <2>2, <2>3, <2>4
  <2>5. CASE x # y
    BY <1>1, <2>1, <2>2, <2>3, <2>5
  <2> QED BY <2>4, <2>5
<1>4. ASSUME NEW y \in Bank!ContestId, SettleContest(y) PROVE FALSE
  BY <1>0, <1>4 DEF SettleContest, ControlIsTyped
<1>5. ASSUME NEW c \in ClaimId, FileBlock(c) PROVE FALSE
  <2>1. phase = "positions" /\ Bank!OpenContest(Speaker, c)
    BY <1>5 DEF FileBlock
  <2>2. ~Closed
    BY <1>1, <2>1
  <2>3. CASE UNCHANGED contests
    BY <2>2, <2>3
  <2>4. CASE contests' = [contests EXCEPT ![contestSeq'] =
                [agent |-> Speaker, target |-> c, status |-> "open"]]
    <3>1. contests = [z \in Bank!ContestId |-> contests[z]]
      BY <1>0 DEF Bank!BankTypeOK
    <3> QED BY <2>2, <2>4, <3>1
  <2> QED BY <2>1, <2>3, <2>4 DEF Bank!OpenContest, Bank!BankUnchanged
<1>6. ASSUME NEW c \in ClaimId, SweepClaim(c) PROVE Concluded
  <2>1. contests' = contests /\ phase' = "clear" /\ Ledger!VoidClaim(c)
    BY <1>6 DEF SweepClaim, bankVars, engineVars
  <2>2. alloc' \subseteq alloc
    BY <1>0, <2>1, VoidingEmptiesTheClaim
  <2> QED BY <1>1, <2>1, <2>2
<1>7. CASE EndContestSweep \/ EndSweep
  BY <1>1, <1>7 DEF EndContestSweep, EndSweep, Goto, bankVars, ledgerVars
<1>8. CASE UNCHANGED vars
  BY <1>1, <1>8 DEF vars, bankVars, ledgerVars, engineVars
<1>9. ASSUME NEW p \in Ledger!Proposal, Propose(p) PROVE FALSE
  BY <1>2, <1>9 DEF Propose, bankVars
<1>10. ASSUME NEW c \in ClaimId, NEW l \in Ledger!BenList, FileYield(c, l) PROVE FALSE
  BY <1>2, <1>10 DEF FileYield, bankVars
<1>11. ASSUME NEW op, NEW c \in ClaimId, NEW l \in Ledger!BenList, RulingOp(op, c, l)
       PROVE  FALSE
  BY <1>2, <1>11 DEF RulingOp, bankVars
<1>12. ASSUME NEW d \in pending, Rule(d) PROVE FALSE
  BY <1>2, <1>12 DEF Rule, bankVars
<1>13. CASE Setup \/ EndTurn \/ Impersonate \/ RevealNext \/ EndReveals \/ FileNote
  BY <1>2, <1>13 DEF Setup, EndTurn, Impersonate, RevealNext, EndReveals, FileNote, bankVars
<1>14. CASE ScanRound \/ EndRulings \/ EndOps \/ EndSettlement \/ EndRound
  BY <1>2, <1>14 DEF ScanRound, EndRulings, EndOps, EndSettlement, EndRound, bankVars
<1>15. CASE Fiat \/ SafetyFinalize
  BY <1>2, <1>15 DEF Fiat, SafetyFinalize, bankVars
<1> QED
  BY <1>3, <1>4, <1>5, <1>6, <1>7, <1>8, <1>9, <1>10, <1>11, <1>12, <1>13, <1>14, <1>15
     DEF Next
-----------------------------------------------------------------------------
(* The theorems *)

LEMMA RunInit == Init => RunInv
  BY LedgerHoldsInit, BankHoldsInit, EngineInit DEF Init, RunInv

LEMMA RunStep == RunInv /\ [Next]_vars => RunInv'
<1> SUFFICES ASSUME RunInv, [Next]_vars PROVE RunInv'
  OBVIOUS
<1>1. LedgerHolds'
  BY CallsTheLedger, LedgerGoesOn DEF RunInv
<1>2. BankHolds'
  BY CallsTheBank, BankGoesOn DEF RunInv
<1>3. EngineHolds'
  BY ControlStep, SealsStep, RulingsStep, SettlementStep, SweepStep, DoneStep, DisputesStep
     DEF EngineHolds
<1> QED
  BY <1>1, <1>2, <1>3 DEF RunInv

LEMMA RunInvHolds == Spec => []RunInv
BY RunInit, RunStep, PTL DEF Spec

\* Whatever agents and mediator do, the engine changes the tables of the ledger
\* only as one of the ledger's own calls does, so that all that is proved of the
\* ledger holds in every run.
THEOREM RunsUseTheLedger == Spec => LedgerSpec
<1>1. Init => Ledger!Init
  BY DEF Init
<1>2. RunInv /\ [Next]_vars => [Ledger!Next]_Ledger!vars
  BY CallsTheLedger DEF ledgerVars, Ledger!vars
<1> QED
  BY <1>1, <1>2, RunInvHolds, PTL DEF Spec, LedgerSpec, Ledger!Spec

\* In the same way a run moves credits and contests only as the bank does.
THEOREM RunsUseTheBank == Spec => Bank!BankSpec
<1>1. Init => Bank!BankInit
  BY DEF Init
<1>2. RunInv /\ [Next]_vars => [Bank!BankNext]_Bank!bankVars
  BY CallsTheBank DEF bankVars, Bank!bankVars
<1> QED
  BY <1>1, <1>2, RunInvHolds, PTL DEF Spec, Bank!BankSpec

LEMMA RunInvIsTyped == RunInv => EngineTypeOK
<1> SUFFICES ASSUME RunInv PROVE EngineTypeOK
  OBVIOUS
<1>1. DOMAIN sealed = 1..Len(sealed)
  BY DEF RunInv, EngineHolds, SealsAreKept
<1> QED
  BY <1>1 DEF RunInv, EngineHolds, EngineTypeOK, ControlIsTyped, SealsAreKept,
     RulingsAreOnClaims, SettlementIsOnItsWay, SweepIsOnItsWay

\* The engine's bookkeeping is right after every call: it never reveals what it
\* has revealed, never settles what is closed, and a ruling does not outlive
\* its deadlock.
THEOREM EngineIsTyped == Spec => []EngineTypeOK
BY RunInvIsTyped, RunInvHolds, PTL

LEMMA RunInvSettles == RunInv => SettledAtEnd
<1> SUFFICES ASSUME RunInv, phase = "done", NEW a \in Account
             PROVE  /\ Blocked = {}
                    /\ balance[a] + ContestCost * Cardinality(Bank!In(a, "lost"))
                         = Budget[a] + Premium * Cardinality(Bank!In(a, "won"))
  BY DEF SettledAtEnd, RunInv, EngineHolds, DoneIsDone
<1>1. Blocked = {} /\ OpenContests = {}
  BY DEF RunInv, EngineHolds, DoneIsDone
<1>2. Bank!In(a, "open") = {}
  BY <1>1 DEF Bank!In, OpenContests
<1>3. Bank!BalanceIsAccountedFor
  BY DEF RunInv, BankHolds
<1> DEFINE L == Cardinality(Bank!In(a, "lost"))
           W == Cardinality(Bank!In(a, "won"))
<1>4. balance[a] + ContestCost * (Cardinality({}) + L) = Budget[a] + Premium * W
  BY <1>2, <1>3, SameCardinality DEF Bank!BalanceIsAccountedFor
<1>5. Cardinality({}) = 0
  BY FS_EmptySet
<1>6. L \in Nat
  <2>1. IsFiniteSet(1..MaxContests)
    BY BankAssumption, FS_Interval
  <2>2. Bank!In(a, "lost") \subseteq 1..MaxContests
    BY DEF Bank!In, Bank!ContestId
  <2> QED BY <2>1, <2>2, FS_Subset, FS_CardinalityType
<1> HIDE DEF L, W
<1>7. Cardinality({}) + L = L
  BY <1>5, <1>6
<1>8. balance[a] + ContestCost * L = Budget[a] + Premium * W
  BY <1>4, <1>7
<1> QED BY <1>1, <1>8 DEF L, W

\* A run that is done has no claim blocked and no stake out, and every credit
\* of every account is kept, won or burned: _safety_finalize and _fiat_finalize
\* leave nothing hanging, whichever way the run ended.
THEOREM RunsSettle == Spec => []SettledAtEnd
BY RunInvSettles, RunInvHolds, PTL

LEMMA RunInvKeepsDisputesOut == RunInv => DisputedGrantsDoNotBoard
BY DEF RunInv, EngineHolds, DoneIsDone, ClosedContestsHoldNothing, OpenContests,
   DisputedGrantsDoNotBoard

\* "a disputed grant may not board": without a mediator no claim that anyone
\* ever contested is in the manifest of a run that is done.
THEOREM NoDisputedGrantBoards == Spec => []DisputedGrantsDoNotBoard
BY RunInvKeepsDisputesOut, RunInvHolds, PTL

\* Where a settlement ends.
SettlementEndsWell ==
  phase = "settle" /\ phase' # "settle" =>
    \A x \in OpenContests' : contests'[x].target \notin ruling.touched

LEMMA SettlementsEndWell == RunInv /\ [Next]_vars => [SettlementEndsWell]_vars
<1> SUFFICES ASSUME RunInv, Next, phase = "settle", phase' # "settle",
                    NEW x \in OpenContests'
             PROVE  contests'[x].target \notin ruling.touched
  BY DEF SettlementEndsWell
<1>1. EndSettlement
  <2> USE DEF Goto, engineVars
  <2>1. ASSUME NEW y \in Bank!ContestId, SettleContest(y) PROVE FALSE
    BY <2>1 DEF SettleContest
  <2>2. CASE Setup \/ EndTurn \/ Impersonate \/ RevealNext \/ EndReveals \/ FileNote
    BY <2>2 DEF Setup, EndTurn, Impersonate, RevealNext, EndReveals, FileNote
  <2>3. CASE ScanRound \/ EndRulings \/ EndOps \/ EndRound \/ Fiat
    BY <2>3 DEF ScanRound, EndRulings, EndOps, EndRound, Fiat
  <2>4. CASE SafetyFinalize \/ EndContestSweep \/ EndSweep
    BY <2>4 DEF SafetyFinalize, EndContestSweep, EndSweep
  <2> QED
    BY <2>1, <2>2, <2>3, <2>4 DEF Next, Propose, FileBlock, FileYield, Rule, RulingOp,
       SweepContest, SweepClaim
<1>2. settling = {} /\ contests' = contests
  BY <1>1 DEF EndSettlement, bankVars
<1>3. SettlementIsOnItsWay
  BY DEF RunInv, EngineHolds
<1> QED BY <1>2, <1>3 DEF SettlementIsOnItsWay, OpenContests

\* When the settlement of a ruling is through, no contest is open against a
\* claim that its deadlock or one of its operations names.
THEOREM RulingsCloseContests == Spec => RulingsCloseWhatTheyTouch
BY SettlementsEndWell, RunInvHolds, PTL DEF Spec, RulingsCloseWhatTheyTouch, SettlementEndsWell

\* With a group on every resource and no name listed twice, the group check
\* leaves nothing for the schema to refuse.
LEMMA GroupsGuardTheSchema ==
  ASSUME NEW r, Group[r] # NoGroup, NEW l, ~l.repeats
  PROVE  Ledger!TryAllocate(r, l) # "integrity_violation"
<1>1. ASSUME Ledger!FitsGroup(r, l), NEW x \in alloc, x.resource = r, x.ben \in l.bens
      PROVE  FALSE
  <2>1. x \in Ledger!HeldInGroup(r, x.ben)
    BY <1>1 DEF Ledger!HeldInGroup
  <2>2. Ledger!HeldInGroup(r, x.ben) = {}
    BY <1>1 DEF Ledger!FitsGroup
  <2> QED BY <2>1, <2>2
<1>2. Ledger!FitsCapacity(r, l) /\ Ledger!FitsGroup(r, l) => Ledger!SchemaAccepts(r, l)
  BY <1>1 DEF Ledger!SchemaAccepts
<1> QED
  BY <1>2 DEF Ledger!TryAllocate

LEMMA CarefulStepsGoOn ==
  ASSUME \A r \in Resource : Group[r] # NoGroup, Account = Agent,
         RunInv, Next, ~Careless, phase # "aborted"
  PROVE  phase' # "aborted"
<1>0. Ledger!TypeOK /\ Speaker \in Agent
  BY SpeakersAreAgents DEF RunInv, EngineHolds, LedgerHolds
<1> USE DEF Goto, engineVars
<1>1. CASE RevealNext
  <2> DEFINE m == Head(sealed)
             p == commitments[m].digest
  <2>1. m \in 1..MaxCommits /\ commitments[m].state = "sealed"
    <3>1. sealed # <<>> /\ sealed \in Seq(1..MaxCommits)
      BY <1>1 DEF RevealNext, RunInv, EngineHolds, SealsAreKept
    <3>2. m \in 1..MaxCommits /\ m = sealed[1] /\ 1 \in 1..Len(sealed)
      BY <3>1, HeadAndTail
    <3> QED BY <3>2 DEF RunInv, EngineHolds, SealsAreKept
  <2>2. p \in Ledger!Proposal
    BY <1>0, <2>1, SealedBidsAreBids
  <2>3. Group[p.resource] # NoGroup
    BY <2>2 DEF Ledger!Proposal
  <2> HIDE DEF p
  <2>4. Ledger!TryAllocate(p.resource, Ledger!Listing(p.bens)) # "integrity_violation"
    BY <2>3, GroupsGuardTheSchema DEF Ledger!Listing
  <2>5. Ledger!Reveal(m, p, TRUE)
    BY <1>1 DEF RevealNext, p
  <2> HIDE DEF m
  <2>6. outcome' # "integrity_violation"
    BY <2>4, <2>5 DEF Ledger!Reveal, Ledger!NoEffect, Ledger!RevealMismatch,
       Ledger!RevealMatch, Ledger!InsertAndApply
  <2> QED BY <1>1, <2>6 DEF RevealNext, Aborting
<1>2. ASSUME NEW c \in ClaimId, FileBlock(c) PROVE phase' # "aborted"
  <2>1. answer' # "currency_error"
    BY <1>0, <1>2 DEF FileBlock, Bank!OpenContest, Bank!BankUnchanged
  <2> QED BY <1>2, <2>1 DEF FileBlock
<1>3. ASSUME NEW c \in ClaimId, NEW l \in Ledger!BenList, FileYield(c, l)
      PROVE  phase' # "aborted"
  <2>1. outcome' # "ledger_error"
    BY <1>3 DEF FileYield, Ledger!Release, Ledger!Withdraw, Ledger!GiveBack
  <2> QED BY <1>3, <2>1 DEF FileYield, Aborting
<1>4. ASSUME NEW op, NEW c \in ClaimId, NEW l \in Ledger!BenList, RulingOp(op, c, l)
      PROVE  phase' # "aborted"
  <2>1. ~l.repeats
    BY <1>4 DEF RulingOp
  <2>2. ASSUME Ledger!GrantOp(c, l) PROVE outcome' # "integrity_violation"
    <3>1. ASSUME claims[c].status = "blocked"
          PROVE  Ledger!TryAllocate(claims[c].resource, l) # "integrity_violation"
      <4>1. claims[c].resource \in Resource
        BY <1>0, <3>1 DEF Ledger!TypeOK, Ledger!ClaimId, ClaimId, Ledger!Claim, Ledger!NoClaim
      <4> QED BY <2>1, <4>1, GroupsGuardTheSchema
    <3> QED BY <2>2, <3>1 DEF Ledger!GrantOp, Ledger!NoEffect
  <2>3. outcome' # "integrity_violation"
    BY <1>4, <2>2 DEF RulingOp, ApplyOp, Ledger!RevokeOp, Ledger!VoidClaim,
       Ledger!NoEffect, Ledger!GiveBack
  <2> QED BY <1>4, <2>3 DEF RulingOp, Aborting
<1>5. ASSUME NEW p \in Ledger!Proposal, Propose(p) PROVE phase' # "aborted"
  BY <1>5 DEF Propose
<1>6. ASSUME NEW d \in pending, Rule(d) PROVE phase' # "aborted"
  BY <1>6 DEF Rule
<1>7. ASSUME NEW x \in Bank!ContestId, SettleContest(x) \/ SweepContest(x)
      PROVE  phase' # "aborted"
  BY <1>7 DEF SettleContest, SweepContest
<1>8. ASSUME NEW c \in ClaimId, SweepClaim(c) PROVE phase' # "aborted"
  BY <1>8 DEF SweepClaim
<1>9. CASE Setup \/ EndTurn \/ Impersonate \/ EndReveals \/ FileNote
  BY <1>9 DEF Setup, EndTurn, Impersonate, EndReveals, FileNote
<1>10. CASE ScanRound \/ EndRulings \/ EndOps \/ EndSettlement \/ EndRound
  BY <1>10 DEF ScanRound, EndRulings, EndOps, EndSettlement, EndRound
<1>11. CASE Fiat \/ SafetyFinalize \/ EndContestSweep \/ EndSweep
  BY <1>11 DEF Fiat, SafetyFinalize, EndContestSweep, EndSweep
<1> QED
  BY <1>1, <1>2, <1>3, <1>4, <1>5, <1>6, <1>7, <1>8, <1>9, <1>10, <1>11 DEF Next

\* With a group on every resource and an account for every agent, agents and a
\* mediator that keep to the protocol cannot bring the engine down: none of
\* their calls ends in an exception that run() does not catch.
THEOREM CarefulRunsGoOn ==
  ASSUME \A r \in Resource : Group[r] # NoGroup, Account = Agent
  PROVE  Spec => []CarefulRunsDoNotAbort
<1>1. Init => CarefulRunsDoNotAbort
  BY DEF Init, CarefulRunsDoNotAbort
<1>2. RunInv /\ CarefulRunsDoNotAbort /\ [Next]_vars => CarefulRunsDoNotAbort'
  <2> SUFFICES ASSUME RunInv, CarefulRunsDoNotAbort, [Next]_vars, ~Careless'
               PROVE  phase' # "aborted"
    BY DEF CarefulRunsDoNotAbort
  <2>1. ~Careless /\ phase # "aborted"
    BY SettingStays DEF Careless, CarefulRunsDoNotAbort
  <2>2. CASE Next
    BY <2>1, <2>2, CarefulStepsGoOn
  <2>3. CASE UNCHANGED vars
    BY <2>1, <2>3 DEF vars, engineVars
  <2> QED BY <2>2, <2>3
<1> QED
  BY <1>1, <1>2, RunInvHolds, PTL DEF Spec
=============================================================================
