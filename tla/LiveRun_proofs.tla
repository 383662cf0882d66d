--------------------------- MODULE LiveRun_proofs ---------------------------
(***************************************************************************)
(* Proofs about LiveRun, for every set of live agents: a live run makes    *)
(* the steps of Society, except that it may also end, in an exception, at  *)
(* a request.  That leaves everything as it was, so the invariant of       *)
(* Society's runs holds in live runs too.  Of its own a live run owes that *)
(* an agent the model speaks for is heard under no other name.             *)
(***************************************************************************)
EXTENDS LiveRun, Society_proofs

\* The request in hand ends the run.
Cut ==
  /\ phase \in {"propose", "positions", "rule", "finalize"}
  /\ phase' = "aborted"
  /\ UNCHANGED <<ledgerVars, bankVars, detectorVars, rulingVars, round, turn, sealed,
                 busy, quiescent, setting>>

\* Between hearing an agent and the end of its turn, the turn is its own.
HeardIsOwn ==
  /\ answered \in BOOLEAN
  /\ answered => phase \in {"propose", "positions", "aborted"}
  /\ answered /\ phase # "aborted" /\ Speaker \in LiveAgents => speaksAs \subseteq {Speaker}

LiveInv == RunInv /\ HeardIsOwn
-----------------------------------------------------------------------------
\* A step of a live run is one of the engine's or cuts the run off.
LEMMA LiveStepsAreSteps == [LiveNext]_liveVars => [Next]_vars \/ Cut
<1> SUFFICES ASSUME [LiveNext]_liveVars PROVE [Next]_vars \/ Cut
  OBVIOUS
<1>1. ASSUME NEW why, Asks, Abort(why) PROVE Cut
  BY <1>1 DEF Asks, RoleDecides, MediatorDecides, Abort, Goto, Cut, HasMediator
<1>2. ASSUME NEW why, RoleDecides \/ MediatorDecides, Abort(why) PROVE Cut
  BY <1>2 DEF RoleDecides, MediatorDecides, Abort, Goto, Cut, HasMediator
<1>3. CASE Invalid \/ ClientFails \/ GiveUp
  BY <1>3, <1>1, <1>2 DEF Invalid, ClientFails, GiveUp
<1>4. CASE Answer \/ PassOver
  BY <1>4 DEF Answer, PassOver, Hear
<1>5. CASE OwnItem \/ ForeignItem \/ TurnOver
  BY <1>5 DEF OwnItem, ForeignItem, TurnOver, Engine, Next
<1>6. CASE Mediate \/ OpsOver
  BY <1>6 DEF Mediate, OpsOver, Next
<1>7. CASE Unasked
  BY <1>7 DEF Unasked, Engine, Next
<1>8. CASE UNCHANGED liveVars
  BY <1>8 DEF liveVars
<1> QED BY <1>3, <1>4, <1>5, <1>6, <1>7, <1>8 DEF LiveNext

\* Cutting a run off breaks nothing: nothing but the phase changes, and no
\* ruling is in hand then and no contest half settled.
LEMMA CutKeeps == RunInv /\ Cut => RunInv'
<1> SUFFICES ASSUME RunInv, Cut PROVE RunInv'
  OBVIOUS
<1>0. /\ phase \in {"propose", "positions", "rule", "finalize"} /\ phase' = "aborted"
      /\ UNCHANGED <<ledgerVars, bankVars, pending, ruling, settling, clearing, round, turn,
                     sealed, setting, alloc, contests, commitments>>
  BY DEF Cut, ledgerVars, bankVars, detectorVars, rulingVars
<1>1. LedgerHolds'
  BY <1>0, LedgerGoesOn DEF RunInv
<1>2. BankHolds'
  BY <1>0, BankGoesOn DEF RunInv
<1> USE DEF RunInv, EngineHolds
<1>3. ControlIsTyped'
  BY <1>0 DEF ControlIsTyped, Phase, Early, HasMediator, MaxRounds
<1>4. SealsAreKept' /\ RulingsAreOnClaims' /\ SweepIsOnItsWay' /\ DoneIsDone'
  BY <1>0 DEF SealsAreKept, RulingsAreOnClaims, SweepIsOnItsWay, DoneIsDone, ClaimId
<1>5. SettlementIsOnItsWay'
  BY <1>0 DEF SettlementIsOnItsWay, OpenContests, Bank!ContestId
<1>6. ClosedContestsHoldNothing'
  BY <1>0 DEF ClosedContestsHoldNothing, HasMediator, Bank!ContestId
<1> QED BY <1>1, <1>2, <1>3, <1>4, <1>5, <1>6

\* An answer is gone through in the turn it was given.
LEMMA HeardStep == HeardIsOwn /\ [LiveNext]_liveVars => HeardIsOwn'
<1> SUFFICES ASSUME HeardIsOwn, [LiveNext]_liveVars PROVE HeardIsOwn'
  OBVIOUS
<1> USE DEF HeardIsOwn
<1>1. ASSUME UNCHANGED <<answered, speaksAs, round, turn>>,
             ~answered \/ phase' = phase \/ phase' = "aborted"
      PROVE  HeardIsOwn'
  BY <1>1 DEF Speaker
<1>2. CASE Invalid
  BY <1>2, <1>1 DEF Invalid, vars, engineVars
<1>3. CASE ClientFails \/ GiveUp
  BY <1>3, <1>1 DEF ClientFails, GiveUp, Abort, Goto, askVars
<1>4. ASSUME NEW names, names \subseteq {Speaker} \/ Speaker \notin LiveAgents, Hear(names)
      PROVE  HeardIsOwn'
  BY <1>4 DEF Hear, RoleDecides, Speaker, vars, engineVars
<1>5. CASE Answer \/ PassOver
  BY <1>5, <1>4 DEF Answer, PassOver, OwnItems
<1>6. CASE OwnItem
  <2>1. UNCHANGED <<answered, speaksAs, round, turn>>
    BY <1>6 DEF OwnItem, Engine, askVars, Propose, FileNote, FileBlock, FileYield
  <2>2. phase' = phase \/ phase' = "aborted"
    BY <1>6 DEF OwnItem, Engine, Propose, FileNote, FileBlock, FileYield, Goto
  <2> QED BY <2>1, <2>2, <1>1
<1>7. CASE ForeignItem
  BY <1>7, <1>1 DEF ForeignItem, Impersonate, Goto, askVars
<1>8. CASE TurnOver
  BY <1>8 DEF TurnOver
<1>9. CASE Mediate
  BY <1>9 DEF Mediate, Rule, Fiat
<1>10. CASE OpsOver
  BY <1>10 DEF OpsOver, EndOps, askVars
<1>11. CASE Unasked
  <2>1. UNCHANGED <<answered, speaksAs>>
    BY <1>11 DEF Unasked, askVars
  <2>2. phase \notin {"propose", "positions", "aborted"}
    BY <1>11 DEF Unasked, Engine, Setup, RevealNext, EndReveals, ScanRound, EndRulings,
       RulingOp, SettleContest, EndSettlement, EndRound, SafetyFinalize, SweepContest,
       EndContestSweep, SweepClaim, EndSweep
  <2> QED BY <2>1, <2>2
<1>12. CASE UNCHANGED liveVars
  BY <1>12, <1>1 DEF liveVars, askVars, vars, engineVars
<1> QED BY <1>2, <1>3, <1>5, <1>6, <1>7, <1>8, <1>9, <1>10, <1>11, <1>12 DEF LiveNext

LEMMA LiveInvHolds == LiveSpec => []LiveInv
<1>1. LiveInit => LiveInv
  BY RunInit DEF LiveInit, LiveInv, HeardIsOwn
<1>2. LiveInv /\ [LiveNext]_liveVars => LiveInv'
  BY LiveStepsAreSteps, CutKeeps, RunStep, HeardStep DEF LiveInv
<1> QED BY <1>1, <1>2, PTL DEF LiveSpec
-----------------------------------------------------------------------------
(* Theorems *)

\* However a live run goes and wherever a request ends it, the tables of the
\* ledger change only by the ledger's calls.
THEOREM LiveRunsUseTheLedger == LiveSpec => LedgerSpec
<1>1. LiveInit => Ledger!Init
  BY DEF LiveInit, Init
<1>2. LiveInv /\ [LiveNext]_liveVars => [Ledger!Next]_Ledger!vars
  BY LiveStepsAreSteps, CallsTheLedger DEF LiveInv, Cut, ledgerVars, Ledger!vars
<1> QED
  BY <1>1, <1>2, LiveInvHolds, PTL DEF LiveSpec, LedgerSpec, Ledger!Spec

\* And credits and contests only by the bank's.
THEOREM LiveRunsUseTheBank == LiveSpec => Bank!BankSpec
<1>1. LiveInit => Bank!BankInit
  BY DEF LiveInit, Init
<1>2. LiveInv /\ [LiveNext]_liveVars => [Bank!BankNext]_Bank!bankVars
  BY LiveStepsAreSteps, CallsTheBank DEF LiveInv, Cut, bankVars, Bank!bankVars
<1> QED
  BY <1>1, <1>2, LiveInvHolds, PTL DEF LiveSpec, Bank!BankSpec

\* What a run owes in the end, a live run that comes to its end owes too.
THEOREM LiveRunsSettle ==
  LiveSpec => [](EngineTypeOK /\ SettledAtEnd /\ DisputedGrantsDoNotBoard)
<1>1. LiveInv => EngineTypeOK /\ SettledAtEnd /\ DisputedGrantsDoNotBoard
  BY RunInvIsTyped, RunInvSettles, RunInvKeepsDisputesOut DEF LiveInv
<1> QED BY <1>1, LiveInvHolds, PTL

\* What the ledger or the bank refuses with an exception, and that it rolls back.
LEMMA RefusedYields ==
  ASSUME NEW c \in ClaimId, NEW l, phase = "positions", FileYield(c, l), phase' = "aborted"
  PROVE  RaisesOnYield /\ UNCHANGED <<alloc, balance>>
<1>1. outcome' = "ledger_error"
  BY DEF FileYield, Aborting, Goto
<1>2. ~(claims[c].status = "blocked" /\ Ledger!Withdraw(Speaker, c))
  BY <1>1 DEF FileYield, Ledger!Withdraw, Ledger!HasClaim
<1>3. Ledger!Granted(c) /\ claims[c].agent = Speaker /\ Ledger!Release(Speaker, c, l)
  BY <1>2 DEF FileYield
<1>4. alloc' = alloc
  BY <1>1, <1>3 DEF Ledger!Release, Ledger!GiveBack, Ledger!NoEffect, Ledger!tables
<1> QED BY <1>1, <1>3, <1>4 DEF RaisesOnYield, FileYield, bankVars

LEMMA RefusedContests ==
  ASSUME NEW c, FileBlock(c), phase' = "aborted"
  PROVE  RaisesOnContest /\ UNCHANGED <<alloc, balance>>
<1>1. phase = "positions" /\ answer' = "currency_error" /\ Bank!OpenContest(Speaker, c)
      /\ alloc' = alloc
  BY DEF FileBlock, Goto, ledgerVars
<1>2. Speaker \notin Account /\ balance' = balance
  BY <1>1 DEF Bank!OpenContest, Bank!BankUnchanged
<1> QED BY <1>1, <1>2 DEF RaisesOnContest

LEMMA RefusedUnits ==
  ASSUME NEW op, NEW c, NEW l, RevealNext \/ RulingOp(op, c, l), phase' = "aborted"
  PROVE  RaisesOnUnits /\ UNCHANGED <<alloc, balance>>
<1>1. /\ outcome' = "integrity_violation" /\ phase \in {"reveal", "ops"}
      /\ balance' = balance
  BY DEF RevealNext, RulingOp, Aborting, Goto, bankVars
<1>2. ASSUME RevealNext PROVE alloc' = alloc
  BY <1>1, <1>2 DEF RevealNext, Ledger!Reveal, Ledger!RevealMatch, Ledger!RevealMismatch,
     Ledger!InsertAndApply, Ledger!NoEffect, Ledger!tables
<1>3. ASSUME RulingOp(op, c, l) PROVE alloc' = alloc
  BY <1>1, <1>3 DEF RulingOp, ApplyOp, Ledger!RevokeOp, Ledger!GrantOp, Ledger!VoidClaim,
     Ledger!GiveBack, Ledger!NoEffect, Ledger!tables
<1> QED BY <1>1, <1>2, <1>3 DEF RaisesOnUnits

\* What ends a run early is a client that raises, a mediator that gave no valid
\* ruling when asked twice, an agent that is not live and speaks in another's
\* name, or a refusal by the ledger or the bank that the engine does not catch;
\* no unit and no credit moves in the call that ends it.
THEOREM RunsEndForAReason == LiveSpec => WhatEndsARun
<1> DEFINE Ends == phase' = "aborted" /\ phase # "aborted"
           A == Ends =>
             /\ \/ cause' = "client_error" /\ Asks /\ tries < MaxTries
                \/ cause' = "transport_error" /\ MediatorDecides /\ tries = MaxTries
                \/ cause' = "protocol_error" /\ answered /\ Speaker \notin LiveAgents
                \/ cause' = "refused" /\ (RaisesOnYield \/ RaisesOnContest \/ RaisesOnUnits)
             /\ UNCHANGED <<alloc, balance>>
<1>1. LiveInv /\ [LiveNext]_liveVars => [A]_liveVars
  <2> SUFFICES ASSUME LiveInv, LiveNext, Ends PROVE A
    OBVIOUS
  <2>1. CASE Invalid \/ Answer \/ PassOver
    BY <2>1 DEF Invalid, Answer, PassOver, Hear, vars, engineVars
  <2>2. CASE ClientFails \/ GiveUp
    BY <2>2 DEF ClientFails, GiveUp, Abort, ledgerVars, bankVars
  <2>3. CASE OwnItem
    <3>1. cause' = "refused"
      BY <2>3 DEF OwnItem, Engine
    <3>2. ASSUME NEW p, Propose(p) \/ FileNote PROVE FALSE
      BY <3>2 DEF Propose, FileNote
    <3>3. ASSUME NEW c \in ClaimId, FileBlock(c) PROVE A
      BY <3>1, <3>3, RefusedContests
    <3>4. ASSUME NEW c \in ClaimId, NEW l \in Ledger!BenList, FileYield(c, l) PROVE A
      <4>1. phase = "positions"
        BY <3>4 DEF FileYield
      <4> QED BY <3>1, <3>4, <4>1, RefusedYields
    <3> QED BY <2>3, <3>2, <3>3, <3>4 DEF OwnItem, Engine
  <2>4. CASE ForeignItem
    BY <2>4 DEF ForeignItem, Impersonate, LiveInv, HeardIsOwn, ledgerVars, bankVars
  <2>5. CASE TurnOver
    BY <2>5 DEF TurnOver, EndTurn, Goto
  <2>6. CASE Mediate \/ OpsOver
    BY <2>6 DEF Mediate, OpsOver, Rule, Fiat, EndOps, Goto
  <2>7. CASE Unasked
    <3>1. cause' = "refused"
      BY <2>7 DEF Unasked, Engine
    <3>2. ASSUME NEW x, SettleContest(x) \/ SweepContest(x) \/ SweepClaim(x) PROVE FALSE
      BY <3>2 DEF SettleContest, SweepContest, SweepClaim, engineVars
    <3>3. ASSUME NEW op, NEW c, NEW l, RevealNext \/ RulingOp(op, c, l) PROVE A
      BY <3>1, <3>3, RefusedUnits
    <3>4. CASE Setup \/ EndReveals \/ ScanRound \/ EndRulings \/ EndSettlement \/ EndRound
      BY <3>4 DEF Setup, EndReveals, ScanRound, EndRulings, EndSettlement, EndRound, Goto
    <3>5. CASE SafetyFinalize \/ EndContestSweep \/ EndSweep
      BY <3>5 DEF SafetyFinalize, EndContestSweep, EndSweep, Goto
    <3> QED BY <2>7, <3>2, <3>3, <3>4, <3>5 DEF Unasked, Engine
  <2> QED BY <2>1, <2>2, <2>3, <2>4, <2>5, <2>6, <2>7 DEF LiveNext
<1> QED BY <1>1, LiveInvHolds, PTL DEF LiveSpec, WhatEndsARun
=============================================================================
