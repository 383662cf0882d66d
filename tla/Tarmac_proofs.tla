---------------------------- MODULE Tarmac_proofs ----------------------------
(***************************************************************************)
(* The theorems about Tarmac, for every cast, every scenario and any       *)
(* numbers of seats, rooms, gates and crew.  Each is an invariant of       *)
(* Tarmac_lemmas, or one that follows from it, carried through every move  *)
(* of a run; what is proved of the ledger, the bank and the engine holds   *)
(* in a run as well, because its moves are calls that those have.          *)
(***************************************************************************)
EXTENDS Tarmac_lemmas, Society_proofs
-----------------------------------------------------------------------------
(* The steps of a negotiated run *)

LEMMA SocietySteps ==
  ASSUME StormInv, condition # "single", UNCHANGED condition, [Next]_vars
  PROVE  LedgerHolds' /\ BankHolds' /\ EngineHolds' /\ phase' \in Phase
<1>1. RunInv
  BY DEF StormInv, StageIsSet, RunInv
<1>2. RunInv'
  BY <1>1, RunStep
<1> QED BY <1>2 DEF RunInv, EngineHolds, ControlIsTyped

\* What the steps after the setup have in common.
LEMMA NegotiatedStep ==
  ASSUME StormInv, condition # "single", phase # "setup", [Next]_vars,
         UNCHANGED <<scenario, condition>>,
         asked' => phase' \in {"propose", "positions", "aborted"},
         phase' = "propose" /\ asked' => script' \in Seq(Bids),
         phase' = "positions" /\ asked' => script' \in Seq(Stands),
         phase' = "ops" => script' \in Seq(Ops'),
         phase' # "setup",
         WishesAreSealed', ClaimsAreLegal', UnitsAreLegal', EverythingIsRegistered'
  PROVE  StormInv' /\ [Next]_vars
<1>1. LedgerHolds' /\ BankHolds' /\ EngineHolds' /\ phase' \in Phase
  BY SocietySteps
<1>2. phase' \notin {"plan", "seats"}
  BY <1>1 DEF Phase
<1>3. StageIsSet'
  BY <1>1 DEF StormInv, StageIsSet
<1>4. ScriptIsLegal'
  BY <1>2, BidsStay, StandsStay DEF ScriptIsLegal
<1> QED BY <1>1, <1>3, <1>4 DEF StormInv

LEMMA ConsultStep == StormInv /\ Consult => StormInv' /\ [Next]_vars
<1> SUFFICES ASSUME StormInv, Consult PROVE StormInv' /\ [Next]_vars
  OBVIOUS
<1>1. condition # "single" /\ Ready /\ ViewIsSound(View) /\ ControlIsTyped
  BY Negotiated DEF Consult
<1>2. /\ phase \in {"propose", "positions"} /\ phase' = phase
      /\ UNCHANGED <<scenario, condition, wish, ledgerVars, vars>>
  BY DEF Consult, vars, engineVars, stormVars
<1>3. phase = "propose" => script' \in Seq(Bids)
  <2>1. Proposals(Speaker, View) \in Seq(Bids)
    BY <1>1, ProposalsAreLegal
  <2> QED BY <2>1 DEF Consult
<1>4. phase = "positions" => script' \in Seq(Stands)
  <2>1. Speaker \in {"rebooking", "crew_legality", "gate_ground", "hotel", "advocate"}
    BY <1>1, SpeakerIsAnAgent, RolesAreAgents, AirlineAssumption
  <2>2. Positions(Speaker, View) \in Seq(Stands)
    BY <1>1, <2>1, PositionsAreTyped
  <2> QED BY <2>2 DEF Consult
<1>5. WishesAreSealed' /\ ClaimsAreLegal' /\ UnitsAreLegal' /\ EverythingIsRegistered'
  BY <1>2, TheLedgerStays
<1> QED BY <1>1, <1>2, <1>3, <1>4, <1>5, NegotiatedStep

LEMMA FileStep == StormInv /\ File => StormInv' /\ [Next]_vars
<1> SUFFICES ASSUME StormInv, File PROVE StormInv' /\ [Next]_vars
  OBVIOUS
<1> DEFINE b == Head(script)
           n == Len(wish)
           x == [who |-> b.wish, round |-> round]
<1>1. /\ condition # "single" /\ Ledger!TypeOK /\ Ledger!NextIdsAreFree /\ ControlIsTyped
      /\ WishesAreSealed /\ round \in Nat
  <2>1. condition # "single" /\ ControlIsTyped /\ Ledger!TypeOK
    BY Negotiated DEF File
  <2>2. round \in Nat
    BY <2>1 DEF ControlIsTyped, Setting, MaxRounds
  <2> QED BY <2>1, <2>2, LedgerFacts DEF StormInv
<1>2. /\ phase = "propose" /\ phase' = phase /\ asked /\ asked' = asked
      /\ script # <<>> /\ script' = Tail(script)
      /\ wish' = Append(wish, x) /\ UNCHANGED <<scenario, condition>>
      /\ Propose(Sealed(b))
  BY DEF File, Propose
<1>3. script \in Seq(Bids)
  BY <1>2 DEF StormInv, ScriptIsLegal
<1>4. b \in Bids /\ script' \in Seq(Bids)
  BY <1>2, <1>3, FirstAndRest
<1> HIDE DEF b
<1>5. /\ Sealed(b) \in Ledger!Proposal
      /\ Sealed(b).bens = ToSet(b.wish) /\ Sealed(b).resource = b.resource
      /\ b.wish \in Seq(Beneficiary) /\ b.wish # <<>>
      /\ MayBoard(b.resource, ToSet(b.wish))
  BY <1>4, SealedBidsAreProposals
<1>6. Next
  BY <1>2, <1>5 DEF Next
<1>7. /\ commitSeq < MaxCommits /\ commitSeq' = commitSeq + 1
      /\ commitments' = [commitments EXCEPT ![commitSeq + 1] =
           [agent |-> Speaker, digest |-> Sealed(b), state |-> "sealed", claim |-> 0]]
      /\ UNCHANGED <<registered, claims, alloc>>
  BY <1>2 DEF Propose, Ledger!Commit
<1>8. ClaimsStay /\ NoNewClaim /\ registered \subseteq registered'
  BY <1>7 DEF ClaimsStay, NoNewClaim
<1>9. ClaimsAreLegal'
  <2>1. NewClaim({}, {}, 0) /\ \E y : wish' = Append(wish, y)
    BY <1>2, <1>8 DEF NoNewClaim, NewClaim
  <2> QED BY <1>2, <1>8, <2>1, ClaimsStayLegal
<1>10. UnitsAreLegal'
  <2>1. NewUnits([kind |-> "none"], {}) /\ MayBoard([kind |-> "none"], {})
    BY <1>7 DEF NewUnits, MayBoard
  <2> QED BY <1>2, <2>1, UnitsStayLegal DEF StormInv
<1>11. WishesAreSealed'
  <2>1. /\ wish \in Seq([who : Seq(Beneficiary), round : Nat]) /\ n = commitSeq /\ n \in Nat
        /\ x \in [who : Seq(Beneficiary), round : Nat] /\ x.who = b.wish
    BY <1>1, <1>5 DEF WishesAreSealed
  <2>2. /\ wish' \in Seq([who : Seq(Beneficiary), round : Nat]) /\ Len(wish') = n + 1
        /\ wish'[n + 1] = x /\ \A m \in 1..n : wish'[m] = wish[m]
    <3> HIDE DEF x
    <3> QED BY <1>2, <2>1
  <2>3. MaxCommits \in Nat /\ n + 1 \in 1..MaxCommits
    BY <1>7, <2>1, LedgerAssumption
  <2>4. commitments = [m \in 1..MaxCommits |-> commitments[m]]
    BY <1>1 DEF Ledger!TypeOK, Ledger!CommitId
  <2>5. /\ commitments'[n + 1].digest = Sealed(b)
        /\ \A m \in 1..MaxCommits : m # n + 1 => commitments'[m] = commitments[m]
    BY <1>7, <2>1, <2>3, <2>4
  <2>6. ASSUME NEW m \in 1..n + 1
        PROVE  /\ wish'[m].who # <<>>
               /\ commitments'[m].digest.bens = ToSet(wish'[m].who)
               /\ MayBoard(commitments'[m].digest.resource, commitments'[m].digest.bens)
    <3>1. CASE m = n + 1
      BY <3>1, <1>5, <2>1, <2>2, <2>5
    <3>2. CASE m # n + 1
      <4>1. m \in 1..n /\ m \in 1..MaxCommits
        BY <3>2, <2>1, <2>3
      <4>2. /\ wish[m].who # <<>> /\ commitments[m].digest.bens = ToSet(wish[m].who)
            /\ MayBoard(commitments[m].digest.resource, commitments[m].digest.bens)
        BY <1>1, <4>1 DEF WishesAreSealed
      <4> QED BY <3>2, <4>1, <4>2, <2>2, <2>5
    <3> QED BY <3>1, <3>2
  <2> HIDE DEF x
  <2> QED BY <1>2, <1>7, <2>1, <2>2, <2>6 DEF WishesAreSealed, MayBoard
<1>12. EverythingIsRegistered'
  BY <1>2, <1>8, RegistrationStays DEF StormInv
<1> QED BY <1>1, <1>2, <1>4, <1>6, <1>9, <1>10, <1>11, <1>12, NegotiatedStep

LEMMA TakePositionStep == StormInv /\ TakePosition => StormInv' /\ [Next]_vars
<1> SUFFICES ASSUME StormInv, TakePosition PROVE StormInv' /\ [Next]_vars
  OBVIOUS
<1> DEFINE p == Head(script)
           l == Ledger!Listing(p.release)
<1>1. /\ phase = "positions" /\ asked /\ asked' = asked
      /\ script # <<>> /\ script' = Tail(script)
      /\ UNCHANGED <<scenario, condition, wish>>
      /\ FileBlock(p.target) \/ FileYield(p.target, l) \/ FileNote
  BY DEF TakePosition, Done, stormVars
<1>2. condition # "single" /\ Ledger!TypeOK
  BY <1>1, Negotiated
<1>3. script \in Seq(Stands)
  BY <1>1 DEF StormInv, ScriptIsLegal
<1>4. p \in Stands /\ script' \in Seq(Stands)
  BY <1>1, <1>3, FirstAndRest
<1>5. p.target \in ClaimId /\ p.release \in SUBSET Beneficiary
  BY <1>4 DEF Stands
<1>6. l \in Ledger!BenList
  BY <1>5, ListingsAreLists
<1> HIDE DEF p, l
<1>7. Next
  BY <1>1, <1>5, <1>6 DEF Next
<1>8. phase' \in {"positions", "aborted"}
  BY <1>1 DEF FileBlock, FileYield, FileNote, Goto
<1>9. /\ WishesAreSealed' /\ ClaimsAreLegal' /\ UnitsAreLegal' /\ EverythingIsRegistered'
  <2>1. CASE FileBlock(p.target) \/ FileNote
    <3>1. UNCHANGED ledgerVars
      BY <2>1 DEF FileBlock, FileNote
    <3> QED BY <1>1, <3>1, TheLedgerStays
  <2>2. CASE FileYield(p.target, l)
    <3>1. Ledger!Release(Speaker, p.target, l) \/ Ledger!Withdraw(Speaker, p.target)
      BY <2>2 DEF FileYield
    <3>2. ClaimsStay /\ SealsStay /\ NoNewClaim /\ alloc' \subseteq alloc /\ registered' = registered
      BY <1>2, <1>5, <3>1, OtherCallsAddNothing
    <3> QED BY <1>1, <3>2, NothingIsAdded, RegistrationStays DEF StormInv
  <2> QED BY <1>1, <2>1, <2>2
<1> QED BY <1>1, <1>2, <1>4, <1>7, <1>8, <1>9, NegotiatedStep

LEMMA TurnOverStep == StormInv /\ TurnOver => StormInv' /\ [Next]_vars
<1> SUFFICES ASSUME StormInv, TurnOver PROVE StormInv' /\ [Next]_vars
  OBVIOUS
<1>1. /\ phase \in {"propose", "positions"} /\ ~asked' /\ EndTurn
      /\ UNCHANGED <<scenario, condition, wish, ledgerVars>>
  BY DEF TurnOver, EndTurn, stormVars
<1>2. phase' \in {"propose", "positions", "reveal", "scan"}
  BY <1>1 DEF EndTurn, Goto
<1>3. condition # "single"
  BY <1>1, Negotiated
<1>4. WishesAreSealed' /\ ClaimsAreLegal' /\ UnitsAreLegal' /\ EverythingIsRegistered'
  BY <1>1, TheLedgerStays
<1> QED BY <1>1, <1>2, <1>3, <1>4, NegotiatedStep DEF Next

LEMMA MediateStep == StormInv /\ (Mediate \/ MediateAtTheCap) => StormInv' /\ [Next]_vars
<1> SUFFICES ASSUME StormInv, Mediate \/ MediateAtTheCap PROVE StormInv' /\ [Next]_vars
  OBVIOUS
<1>1. PICK r : /\ Decree(r)
               /\ \/ r = FiatRuling(View) /\ Fiat
                  \/ \E d \in pending : r = Ruling(d, View) /\ Rule(d)
  BY DEF Mediate, MediateAtTheCap
<1>2. /\ phase \in {"rule", "finalize"} /\ phase' = "ops" /\ script' = r.ops
      /\ asked' = asked /\ UNCHANGED <<scenario, condition, wish, ledgerVars>>
  BY <1>1 DEF Decree, Rule, Fiat
<1>3. condition # "single" /\ Ready /\ ViewIsSound(View)
  BY <1>2, Negotiated
<1>4. Next
  BY <1>1 DEF Next
<1>5. r.ops \in Seq(Ops)
  BY <1>1, <1>3, RulingsAreLegal, FiatIsLegal
<1>6. ClaimsStay
  BY <1>2, NothingChanges DEF ledgerVars
<1>7. script' \in Seq(Ops')
  BY <1>2, <1>5, <1>6, LegalOpsStayLegal
<1>8. ~asked
  BY <1>2 DEF StormInv, StageIsSet
<1>9. WishesAreSealed' /\ ClaimsAreLegal' /\ UnitsAreLegal' /\ EverythingIsRegistered'
  BY <1>2, TheLedgerStays
<1> QED BY <1>2, <1>3, <1>4, <1>7, <1>8, <1>9, NegotiatedStep

LEMMA ApplyNextStep == StormInv /\ ApplyNext => StormInv' /\ [Next]_vars
<1> SUFFICES ASSUME StormInv, ApplyNext PROVE StormInv' /\ [Next]_vars
  OBVIOUS
<1> DEFINE o == Head(script)
           l == Ledger!Listing(o.bens)
<1>1. /\ phase = "ops" /\ script # <<>> /\ script' = Tail(script) /\ asked' = asked
      /\ UNCHANGED <<scenario, condition, wish>>
      /\ RulingOp(o.op, o.claim, l)
  BY DEF ApplyNext
<1>2. condition # "single" /\ Ledger!TypeOK
  BY <1>1, Negotiated
<1>3. script \in Seq(Ops)
  BY <1>1 DEF StormInv, ScriptIsLegal
<1>4. o \in Ops /\ Tail(script) \in Seq(Ops)
  BY <1>1, <1>3, FirstAndRest
<1>5. o.op \in {"revoke", "grant", "void"} /\ o.claim \in ClaimId /\ o.bens \in SUBSET Beneficiary
      /\ (o.op = "grant" => MayBoard(claims[o.claim].resource, o.bens))
  BY <1>4 DEF Ops
<1>6. l \in Ledger!BenList /\ l.bens = o.bens
  BY <1>5, ListingsAreLists
<1> HIDE DEF o, l
<1>7. Next
  BY <1>1, <1>5, <1>6 DEF Next
<1>8. phase' \in {"ops", "aborted"} /\ ApplyOp(o.op, o.claim, l)
  BY <1>1 DEF RulingOp, Goto
<1>9. /\ ClaimsStay /\ WishesAreSealed' /\ ClaimsAreLegal' /\ UnitsAreLegal'
      /\ EverythingIsRegistered'
  <2>1. CASE o.op = "grant"
    <3>1. Ledger!GrantOp(o.claim, l)
      BY <1>8, <2>1 DEF ApplyOp
    <3>2. ClaimsStay /\ SealsStay /\ NoNewClaim /\ NewUnits(claims[o.claim].resource, l.bens)
          /\ registered' = registered
      BY <1>2, <1>5, <3>1, GrantsAddTheirUnits
    <3>3. NewClaim({}, {}, 0)
      BY <3>2 DEF NoNewClaim, NewClaim
    <3>4. ClaimsAreLegal'
      BY <1>1, <3>2, <3>3, ClaimsStayLegal
    <3>5. UnitsAreLegal'
      BY <1>1, <1>5, <1>6, <2>1, <3>2, UnitsStayLegal DEF StormInv
    <3> QED BY <1>1, <3>2, <3>4, <3>5, WishesStay, RegistrationStays DEF StormInv
  <2>2. CASE o.op # "grant"
    <3>1. Ledger!RevokeOp(o.claim, l) \/ Ledger!VoidClaim(o.claim)
      BY <1>8, <2>2 DEF ApplyOp
    <3>2. ClaimsStay /\ SealsStay /\ NoNewClaim /\ alloc' \subseteq alloc /\ registered' = registered
      BY <1>2, <1>5, <3>1, OtherCallsAddNothing
    <3> QED BY <1>1, <3>2, NothingIsAdded, RegistrationStays DEF StormInv
  <2> QED BY <2>1, <2>2
<1>10. script' \in Seq(Ops')
  BY <1>1, <1>4, <1>9, LegalOpsStayLegal
<1>11. ~asked
  BY <1>1 DEF StormInv, StageIsSet
<1> QED BY <1>1, <1>2, <1>7, <1>8, <1>9, <1>10, <1>11, NegotiatedStep

LEMMA ApplyDoneStep == StormInv /\ ApplyDone => StormInv' /\ [Next]_vars
<1> SUFFICES ASSUME StormInv, ApplyDone PROVE StormInv' /\ [Next]_vars
  OBVIOUS
<1>1. /\ phase = "ops" /\ phase' = "settle" /\ EndOps /\ asked' = asked
      /\ UNCHANGED <<scenario, condition, wish, ledgerVars>>
  BY DEF ApplyDone, EndOps, Goto
<1>2. condition # "single"
  BY <1>1, Negotiated
<1>3. ~asked
  BY <1>1 DEF StormInv, StageIsSet
<1>4. WishesAreSealed' /\ ClaimsAreLegal' /\ UnitsAreLegal' /\ EverythingIsRegistered'
  BY <1>1, TheLedgerStays
<1> QED BY <1>1, <1>2, <1>3, <1>4, NegotiatedStep DEF Next

LEMMA EngineStep == StormInv /\ Engine => StormInv' /\ [Next]_vars
<1> SUFFICES ASSUME StormInv, Engine PROVE StormInv' /\ [Next]_vars
  OBVIOUS
<1>1. /\ phase \in {"reveal", "scan", "rule", "settle", "round_end", "finalize", "sweep", "clear"}
      /\ phase' \notin {"setup", "ops"}
      /\ asked' = asked /\ UNCHANGED <<scenario, condition, wish>>
  BY EnginePhases
<1>2. condition # "single" /\ Ledger!TypeOK /\ ~asked
  BY <1>1, Negotiated DEF StormInv, StageIsSet
<1>3. settling \subseteq OpenContests
      /\ \A x \in OpenContests : x \in Bank!ContestId /\ contests[x].target \in ClaimId
  <2>1. settling \subseteq OpenContests
    BY <1>2 DEF StormInv, StageIsSet, EngineHolds, SettlementIsOnItsWay
  <2>2. Bank!BankTypeOK
    BY BankFacts DEF StormInv
  <2> QED BY <2>1, <2>2 DEF Bank!BankTypeOK, Bank!Contest, Bank!NoContest, OpenContests, ClaimId
<1>4. Next
  <2>1. \/ RevealNext \/ EndReveals \/ ScanRound \/ EndRulings
        \/ \E x \in settling : SettleContest(x)
        \/ EndSettlement \/ EndRound \/ SafetyFinalize
        \/ \E x \in settling : SweepContest(x)
        \/ \E c \in clearing : SweepClaim(c)
        \/ EndContestSweep \/ EndSweep
    BY DEF Engine
  <2>2. (\E c \in clearing : SweepClaim(c)) => \E c \in ClaimId : SweepClaim(c)
    BY SweepLists DEF SweepClaim
  <2> QED BY <2>1, <2>2, <1>3 DEF Next
<1>5. WishesAreSealed' /\ ClaimsAreLegal' /\ UnitsAreLegal' /\ EverythingIsRegistered'
  <2>1. CASE UNCHANGED ledgerVars
    BY <1>1, <2>1, TheLedgerStays
  <2>2. CASE RevealNext
    BY <1>1, <1>2, <2>2, RevealedIsLegal
  <2>3. ASSUME NEW c \in ClaimId, Ledger!VoidClaim(c)
        PROVE  WishesAreSealed' /\ ClaimsAreLegal' /\ UnitsAreLegal' /\ EverythingIsRegistered'
    <3>1. ClaimsStay /\ SealsStay /\ NoNewClaim /\ alloc' \subseteq alloc /\ registered' = registered
      BY <1>2, <2>3, OtherCallsAddNothing
    <3> QED BY <1>1, <3>1, NothingIsAdded, RegistrationStays DEF StormInv
  <2>4. \/ UNCHANGED ledgerVars \/ RevealNext \/ \E c \in ClaimId : Ledger!VoidClaim(c)
    <3>1. CASE EndReveals \/ ScanRound \/ EndRulings \/ EndSettlement
      BY <3>1 DEF EndReveals, ScanRound, EndRulings, EndSettlement
    <3>2. CASE EndRound \/ SafetyFinalize \/ EndContestSweep \/ EndSweep
      BY <3>2 DEF EndRound, SafetyFinalize, EndContestSweep, EndSweep
    <3>3. CASE \E x \in settling : SettleContest(x)
      BY <3>3 DEF SettleContest
    <3>4. CASE \E x \in settling : SweepContest(x)
      BY <3>4, SweepLists DEF SweepContest
    <3>5. CASE \E c \in clearing : SweepClaim(c)
      BY <3>5, SweepLists DEF SweepClaim
    <3> QED BY <3>1, <3>2, <3>3, <3>4, <3>5 DEF Engine
  <2> QED BY <2>1, <2>2, <2>3, <2>4
<1> QED BY <1>1, <1>2, <1>4, <1>5, NegotiatedStep
-----------------------------------------------------------------------------
(* The setup *)

LEMMA RegisterStep == StormInv /\ Register => StormInv'
<1> SUFFICES ASSUME StormInv, Register PROVE StormInv'
  OBVIOUS
<1> DEFINE r == Head(script)
<1>1. /\ phase = "setup" /\ script # <<>> /\ Ledger!RegisterResource(r)
      /\ script' = Tail(script) /\ asked' = asked
      /\ UNCHANGED <<scenario, condition, wish, bankVars, detectorVars, rulingVars, engineVars>>
  BY DEF Register, Done, stormVars
<1>2. script \in Seq(Resource)
  BY <1>1 DEF StormInv, ScriptIsLegal
<1>3. /\ r \in Resource /\ script' \in Seq(Resource) /\ Len(script') = Len(script) - 1
      /\ r = script[1] /\ Len(script) \in Nat
      /\ \A i \in 1..Len(script) - 1 : script'[i] = script[i + 1]
  BY <1>1, <1>2, FirstAndRest
<1> HIDE DEF r
<1>4. /\ ClaimsStay /\ SealsStay /\ NoNewClaim /\ alloc' = alloc
      /\ registered' = registered \union {r}
  BY <1>1, RegisteringAddsNothing
<1>5. UNCHANGED <<commitments, claims>>
  BY <1>1 DEF Ledger!RegisterResource, Ledger!NoEffect, Ledger!tables
<1>6. LedgerHolds' /\ BankHolds'
  <2>1. Ledger!Next
    BY <1>1, <1>3 DEF Ledger!Next
  <2> QED BY <1>1, <2>1, LedgerGoesOn, BankGoesOn DEF StormInv
<1>7. EngineHolds => EngineHolds'
  BY <1>1, <1>4, <1>5 DEF bankVars, detectorVars, rulingVars, engineVars,
     EngineHolds, ControlIsTyped, SealsAreKept, RulingsAreOnClaims, SettlementIsOnItsWay,
     SweepIsOnItsWay, DoneIsDone, ClosedContestsHoldNothing, MaxRounds, HasMediator, Blocked, OpenContests, ClaimId
<1>8. phase' = phase
  BY <1>1 DEF engineVars
<1>9. StageIsSet' /\ ScriptIsLegal'
  BY <1>1, <1>3, <1>7, <1>8 DEF StormInv, StageIsSet, ScriptIsLegal
<1>10. EverythingIsRegistered'
  <2> DEFINE R == Registrations(scenario)
  <2>1. SUFFICES ASSUME NEW i \in DOMAIN R
                 PROVE  R[i] \in registered' \/ \E j \in DOMAIN script' : script'[j] = R[i]
    BY <1>1, <1>8 DEF EverythingIsRegistered
  <2>2. R[i] \in registered \/ \E j \in DOMAIN script : script[j] = R[i]
    BY <2>1 DEF StormInv, EverythingIsRegistered
  <2> HIDE DEF R
  <2>3. ASSUME NEW j \in DOMAIN script, script[j] = R[i]
        PROVE  R[i] \in registered' \/ \E k \in DOMAIN script' : script'[k] = R[i]
    <3>1. j \in 1..Len(script) /\ DOMAIN script' = 1..Len(script) - 1
      BY <1>2, <1>3, <2>3
    <3>2. CASE j = 1
      BY <3>2, <2>3, <1>3, <1>4
    <3>3. CASE j # 1
      <4>1. j - 1 \in DOMAIN script' /\ script'[j - 1] = script[j - 1 + 1] /\ j - 1 + 1 = j
        BY <3>1, <3>3, <1>3
      <4> QED BY <4>1, <2>3
    <3> QED BY <3>2, <3>3
  <2> QED BY <2>2, <2>3, <1>4
<1>11. WishesAreSealed' /\ ClaimsAreLegal' /\ UnitsAreLegal'
  BY <1>1, <1>4, NothingIsAdded
<1> QED BY <1>6, <1>9, <1>10, <1>11 DEF StormInv

LEMMA StartSocietyStep == StormInv /\ StartSociety => StormInv'
<1> SUFFICES ASSUME StormInv, StartSociety PROVE StormInv'
  OBVIOUS
<1>1. /\ phase = "setup" /\ phase' = "propose" /\ script = <<>> /\ condition # "single"
      /\ asked' = asked
      /\ UNCHANGED <<scenario, condition, wish, ledgerVars, bankVars, detectorVars, rulingVars>>
      /\ UNCHANGED <<round, turn, sealed, busy, quiescent, setting>>
  BY DEF StartSociety, Goto, Idle, stormVars
<1>2. LedgerHolds' /\ BankHolds'
  BY <1>1, LedgerGoesOn, BankGoesOn DEF StormInv
<1>3. EngineHolds'
  BY <1>1 DEF StormInv, StageIsSet, ledgerVars, bankVars, detectorVars, rulingVars, Early, Phase,
     EngineHolds, ControlIsTyped, SealsAreKept, RulingsAreOnClaims, SettlementIsOnItsWay,
     SweepIsOnItsWay, DoneIsDone, ClosedContestsHoldNothing, MaxRounds, HasMediator, Blocked, OpenContests, ClaimId
<1>4. ~asked
  BY <1>1 DEF StormInv, StageIsSet
<1>5. StageIsSet' /\ ScriptIsLegal'
  BY <1>1, <1>3, <1>4 DEF StormInv, StageIsSet, ScriptIsLegal
<1>6. EverythingIsRegistered'
  BY <1>1, SetupIsOver DEF ledgerVars
<1>7. WishesAreSealed' /\ ClaimsAreLegal' /\ UnitsAreLegal'
  BY <1>1, TheLedgerStays
<1> QED BY <1>2, <1>5, <1>6, <1>7 DEF StormInv
-----------------------------------------------------------------------------
(* The steps of the single planner *)

\* What they have in common.
LEMMA PlannerStep ==
  ASSUME StormInv, condition = "single", [Ledger!Next]_ledgerVars,
         UNCHANGED <<scenario, condition, asked, wish, bankVars, commitments, commitSeq>>,
         phase \in {"setup", "plan", "seats"}, phase' \in {"plan", "seats", "done"},
         phase' = "plan" => script' \in Seq(Bids),
         phase' = "seats" => script' \in Seq(Passenger),
         EverythingIsRegistered', UnitsAreLegal'
  PROVE  StormInv'
<1>1. LedgerHolds' /\ BankHolds'
  BY LedgerGoesOn, BankGoesOn DEF StormInv
<1>2. ~asked
  BY DEF StormInv, StageIsSet
<1>3. StageIsSet'
  BY <1>2 DEF StormInv, StageIsSet
<1>4. ScriptIsLegal'
  BY <1>2, BidsStay DEF ScriptIsLegal
<1>5. WishesAreSealed'
  BY WishesStay DEF SealsStay
<1>6. ClaimsAreLegal'
  BY DEF ClaimsAreLegal
<1> QED BY <1>1, <1>3, <1>4, <1>5, <1>6 DEF StormInv

LEMMA StartPlannerStep == StormInv /\ StartPlanner => StormInv'
<1> SUFFICES ASSUME StormInv, StartPlanner PROVE StormInv'
  OBVIOUS
<1>1. /\ phase = "setup" /\ phase' = "plan" /\ script = <<>> /\ condition = "single"
      /\ script' = PlannerFirst(scenario)
      /\ UNCHANGED <<asked, scenario, condition, wish, ledgerVars, bankVars>>
  BY DEF StartPlanner, Goto, stormVars
<1>2. UNCHANGED <<registered, commitments, commitSeq>>
  BY <1>1 DEF ledgerVars
<1>3. EverythingIsRegistered'
  BY <1>1, <1>2, SetupIsOver
<1>4. script' \in Seq(Bids)
  BY <1>1, PlannerFirstIsLegal DEF StormInv, StageIsSet
<1>5. UnitsAreLegal'
  BY <1>1, TheLedgerStays
<1> QED BY <1>1, <1>2, <1>3, <1>4, <1>5, PlannerStep

LEMMA PlanFirstStep == StormInv /\ PlanFirst => StormInv'
<1> SUFFICES ASSUME StormInv, PlanFirst PROVE StormInv'
  OBVIOUS
<1> DEFINE b == Head(script)
<1>1. /\ phase = "plan" /\ phase' = "plan" /\ script # <<>> /\ script' = Tail(script)
      /\ Ledger!SubmitPlain(Sealed(b))
      /\ UNCHANGED <<asked, scenario, condition, wish, bankVars>>
  BY DEF PlanFirst, Done, stormVars, engineVars
<1>2. condition = "single"
  BY <1>1, NotNegotiated
<1>3. script \in Seq(Bids)
  BY <1>1 DEF StormInv, ScriptIsLegal
<1>4. b \in Bids /\ script' \in Seq(Bids)
  BY <1>1, <1>3, FirstAndRest
<1> HIDE DEF b
<1>5. Sealed(b) \in Ledger!Proposal /\ MayBoard(Sealed(b).resource, Sealed(b).bens)
  BY <1>4, SealedBidsAreProposals
<1>6. /\ Ledger!Next /\ UNCHANGED <<commitments, commitSeq>>
      /\ EverythingIsRegistered' /\ UnitsAreLegal'
  BY <1>1, <1>5, PlainClaims
<1> QED BY <1>1, <1>2, <1>4, <1>6, PlannerStep

LEMMA PlanSeatsStep == StormInv /\ (PlanSeats \/ EndPlan) => StormInv'
<1> SUFFICES ASSUME StormInv, PlanSeats \/ EndPlan PROVE StormInv'
  OBVIOUS
<1>1. /\ phase \in {"plan", "seats"} /\ phase' \in {"seats", "done"}
      /\ phase' = "seats" => script' = PlannerOrder(scenario)
      /\ UNCHANGED <<asked, scenario, condition, wish, ledgerVars, bankVars>>
  BY DEF PlanSeats, EndPlan, Goto, Idle, stormVars
<1>2. condition = "single" /\ scenario \in Scenarios
  BY <1>1, NotNegotiated DEF StormInv, StageIsSet
<1>3. UNCHANGED <<commitments, commitSeq>>
  BY <1>1 DEF ledgerVars
<1>4. EverythingIsRegistered' /\ UnitsAreLegal'
  BY <1>1, TheLedgerStays
<1>5. phase' = "seats" => script' \in Seq(Passenger)
  BY <1>1, <1>2, PlannerOrderIsTyped
<1> QED BY <1>1, <1>2, <1>3, <1>4, <1>5, PlannerStep

LEMMA SeatNextStep == StormInv /\ SeatNext => StormInv'
<1> SUFFICES ASSUME StormInv, SeatNext PROVE StormInv'
  OBVIOUS
<1>1. /\ phase = "seats" /\ phase' = "seats" /\ script' \in Seq(Passenger)
      /\ UNCHANGED <<asked, scenario, condition, wish, bankVars>>
      /\ \/ UNCHANGED ledgerVars
         \/ \E b \in Ledger!Proposal :
              Ledger!SubmitPlain(b) /\ MayBoard(b.resource, b.bens)
  BY PlannersSeatIsAClaim
<1>2. condition = "single"
  BY <1>1, NotNegotiated
<1>3. CASE UNCHANGED ledgerVars
  <2>1. UNCHANGED <<commitments, commitSeq>>
    BY <1>3 DEF ledgerVars
  <2>2. EverythingIsRegistered' /\ UnitsAreLegal'
    BY <1>1, <1>3, TheLedgerStays
  <2> QED BY <1>1, <1>2, <1>3, <2>1, <2>2, PlannerStep
<1>4. ASSUME NEW b \in Ledger!Proposal, Ledger!SubmitPlain(b), MayBoard(b.resource, b.bens)
      PROVE  StormInv'
  <2>1. /\ Ledger!Next /\ UNCHANGED <<commitments, commitSeq>>
        /\ EverythingIsRegistered' /\ UnitsAreLegal'
    BY <1>1, <1>4, PlainClaims
  <2> QED BY <1>1, <1>2, <2>1, PlannerStep
<1> QED BY <1>1, <1>3, <1>4
-----------------------------------------------------------------------------
(* The whole run *)

LEMMA StormInitInv == StormInit => StormInv
<1> SUFFICES ASSUME StormInit PROVE StormInv
  OBVIOUS
<1> DEFINE R == Registrations(scenario)
<1>1. /\ Init /\ Ledger!Init /\ Bank!BankInit /\ phase = "setup"
      /\ scenario \in Scenarios /\ condition \in Conditions
      /\ script = R /\ asked = FALSE /\ wish = <<>>
  BY DEF StormInit, Init
<1>2. LedgerHolds /\ BankHolds /\ EngineHolds
  BY <1>1, LedgerHoldsInit, BankHoldsInit, EngineInit
<1>3. R \in Seq(Resource)
  BY <1>1, RegistrationsAreListed
<1>4. StageIsSet /\ ScriptIsLegal /\ EverythingIsRegistered
  <2>1. EverythingIsRegistered
    BY <1>1 DEF EverythingIsRegistered
  <2> QED BY <1>1, <1>2, <1>3, <2>1 DEF StageIsSet, ScriptIsLegal
<1>5. commitSeq = 0 /\ alloc = {} /\ \A c \in ClaimId : claims[c].status = "absent"
  BY <1>1 DEF Ledger!Init, Ledger!NoClaim, Ledger!ClaimId, ClaimId
<1>6. WishesAreSealed
  <2>1. wish \in Seq([who : Seq(Beneficiary), round : Nat]) /\ Len(wish) = 0
    BY <1>1
  <2> QED BY <1>5, <2>1 DEF WishesAreSealed
<1>7. ClaimsAreLegal /\ UnitsAreLegal
  BY <1>5 DEF ClaimsAreLegal, UnitsAreLegal
<1> QED BY <1>2, <1>4, <1>6, <1>7 DEF StormInv

LEMMA NoStep ==
  ASSUME StormInv, UNCHANGED runVars
  PROVE  StormInv'
<1>1. /\ UNCHANGED <<ledgerVars, bankVars, detectorVars, rulingVars, engineVars>>
      /\ UNCHANGED <<scenario, condition, wish, script, asked>>
  BY DEF runVars, vars, stormVars
<1>2. LedgerHolds' /\ BankHolds'
  BY <1>1, LedgerGoesOn, BankGoesOn DEF StormInv
<1>3. EngineHolds => EngineHolds'
  BY <1>1 DEF ledgerVars, bankVars, detectorVars, rulingVars, engineVars,
     EngineHolds, ControlIsTyped, SealsAreKept, RulingsAreOnClaims, SettlementIsOnItsWay,
     SweepIsOnItsWay, DoneIsDone, ClosedContestsHoldNothing, MaxRounds, HasMediator, Blocked, OpenContests, ClaimId
<1>4. phase' = phase /\ registered' = registered
  BY <1>1 DEF engineVars, ledgerVars
<1>5. StageIsSet'
  BY <1>1, <1>3, <1>4 DEF StormInv, StageIsSet
<1>6. ClaimsStay
  BY <1>1, NothingChanges DEF ledgerVars
<1>7. ScriptIsLegal'
  <2>1. phase = "ops" => script' \in Seq(Ops')
    BY <1>1, <1>6, LegalOpsStayLegal DEF StormInv, ScriptIsLegal
  <2> QED BY <1>1, <1>4, <2>1, BidsStay, StandsStay DEF StormInv, ScriptIsLegal
<1>8. EverythingIsRegistered'
  BY <1>1, <1>4 DEF StormInv, EverythingIsRegistered
<1>9. WishesAreSealed' /\ ClaimsAreLegal' /\ UnitsAreLegal'
  BY <1>1, TheLedgerStays
<1> QED BY <1>2, <1>5, <1>7, <1>8, <1>9 DEF StormInv

LEMMA StormStep == StormInv /\ [StormNext]_runVars => StormInv'
BY RegisterStep, StartSocietyStep, ConsultStep, FileStep, TakePositionStep, TurnOverStep,
   MediateStep, ApplyNextStep, ApplyDoneStep, EngineStep, StartPlannerStep, PlanFirstStep,
   PlanSeatsStep, SeatNextStep, NoStep DEF StormNext

\* The invariant of a run.
LEMMA StormInvHolds == StormSpec => []StormInv
BY StormInitInv, StormStep, PTL DEF StormSpec

\* Whatever the agents ask for, and whether it is granted with the bid, by a
\* ruling, by fiat or by the planner, no passenger ever holds a seat on a flight
\* that is not legal for them: in every scenario, under every condition.
THEOREM SeatsAreForTheirPassengers == StormSpec => []SeatsAreLegal
<1>1. StormInv => SeatsAreLegal
  BY DEF StormInv, UnitsAreLegal, MayBoard, SeatsAreLegal
<1> QED BY <1>1, StormInvHolds, PTL

LEMMA NegotiatedRunsPlayByTheRules ==
  StormInv /\ [StormNext]_runVars /\ condition # "single" /\ phase # "setup" => [Next]_vars
<1> SUFFICES ASSUME StormInv, [StormNext]_runVars, condition # "single", phase # "setup"
             PROVE  [Next]_vars
  OBVIOUS
<1>1. phase \notin {"plan", "seats"}
  BY NotNegotiated
<1>2. ~(Register \/ StartSociety \/ StartPlanner \/ PlanFirst \/ PlanSeats \/ SeatNext \/ EndPlan)
  BY <1>1 DEF Register, StartSociety, StartPlanner, PlanFirst, PlanSeats, SeatNext, EndPlan
<1>3. CASE UNCHANGED runVars
  BY <1>3 DEF runVars
<1> QED BY <1>2, <1>3, ConsultStep, FileStep, TakePositionStep, TurnOverStep,
   MediateStep, ApplyNextStep, ApplyDoneStep, EngineStep DEF StormNext

\* The policies only choose among the engine's steps, in every negotiated storm.
THEOREM AgentsPlayByTheRules == StormSpec => PlaysByTheRules
BY NegotiatedRunsPlayByTheRules, StormInvHolds, PTL DEF StormSpec, PlaysByTheRules

LEMMA StormCallsTheLedger ==
  StormInv /\ [StormNext]_runVars => [Ledger!Next]_ledgerVars
<1> SUFFICES ASSUME StormInv, [StormNext]_runVars PROVE [Ledger!Next]_ledgerVars
  OBVIOUS
<1>1. CASE condition # "single" /\ phase # "setup"
  <2>1. RunInv /\ [Next]_vars
    BY <1>1, NegotiatedRunsPlayByTheRules DEF StormInv, StageIsSet, RunInv
  <2> QED BY <2>1, CallsTheLedger
<1>2. CASE Register
  <2>1. script \in Seq(Resource) /\ script # <<>> /\ Ledger!RegisterResource(Head(script))
    BY <1>2 DEF Register, StormInv, ScriptIsLegal
  <2>2. Head(script) \in Resource
    BY <2>1, FirstAndRest
  <2> QED BY <2>1, <2>2 DEF Ledger!Next
<1>3. CASE StartSociety \/ StartPlanner \/ PlanSeats \/ EndPlan
  BY <1>3 DEF StartSociety, StartPlanner, PlanSeats, EndPlan
<1>4. CASE PlanFirst
  <2>1. script \in Seq(Bids) /\ script # <<>> /\ Ledger!SubmitPlain(Sealed(Head(script)))
    BY <1>4 DEF PlanFirst, StormInv, ScriptIsLegal
  <2>2. Head(script) \in Bids
    BY <2>1, FirstAndRest
  <2>3. Sealed(Head(script)) \in Ledger!Proposal
    BY <2>2, SealedBidsAreProposals
  <2> QED BY <2>1, <2>3 DEF Ledger!Next
<1>5. CASE SeatNext
  BY <1>5, PlannersSeatIsAClaim DEF Ledger!Next
<1>6. CASE UNCHANGED runVars
  BY <1>6 DEF runVars, vars
<1> QED BY <1>1, <1>2, <1>3, <1>4, <1>5, <1>6, SetupAndPlannerSteps

\* Setup and planner included, a run changes the tables of the ledger only by the
\* ledger's own calls: no seat, room, gate or crew is given out twice, every unit
\* belongs to a granted claim, and the tables replay, in every storm.
THEOREM StormsUseTheLedger == StormSpec => LedgerSpec
<1>1. StormInit => Ledger!Init
  BY DEF StormInit, Init
<1>2. StormInv /\ [StormNext]_runVars => [Ledger!Next]_Ledger!vars
  BY StormCallsTheLedger DEF ledgerVars, Ledger!vars
<1> QED
  BY <1>1, <1>2, StormInvHolds, PTL DEF StormSpec, LedgerSpec, Ledger!Spec

LEMMA StormCallsTheBank ==
  StormInv /\ [StormNext]_runVars => [Bank!BankNext]_bankVars
<1> SUFFICES ASSUME StormInv, [StormNext]_runVars PROVE [Bank!BankNext]_bankVars
  OBVIOUS
<1>1. CASE condition # "single" /\ phase # "setup"
  <2>1. RunInv /\ [Next]_vars
    BY <1>1, NegotiatedRunsPlayByTheRules DEF StormInv, StageIsSet, RunInv
  <2> QED BY <2>1, CallsTheBank
<1>2. CASE condition = "single" \/ phase = "setup"
  BY <1>2, SetupAndPlannerSteps DEF Register, StartSociety, StartPlanner, PlanFirst, PlanSeats,
     SeatNext, EndPlan, runVars, vars
<1> QED BY <1>1, <1>2

\* In the same way credits move and contests open and close only as the bank has it.
THEOREM StormsUseTheBank == StormSpec => Bank!BankSpec
<1>1. StormInit => Bank!BankInit
  BY DEF StormInit, Init
<1>2. StormInv /\ [StormNext]_runVars => [Bank!BankNext]_Bank!bankVars
  BY StormCallsTheBank DEF bankVars, Bank!bankVars
<1> QED
  BY <1>1, <1>2, StormInvHolds, PTL DEF StormSpec, Bank!BankSpec

\* A negotiated storm that is over has left no claim blocked and no stake out; and
\* if it had no mediator, no claim that was ever contested is in its manifest.
THEOREM StormsAreSettled ==
  StormSpec => [](condition # "single" =>
                    EngineTypeOK /\ SettledAtEnd /\ DisputedGrantsDoNotBoard)
<1>1. StormInv => (condition # "single" =>
                     EngineTypeOK /\ SettledAtEnd /\ DisputedGrantsDoNotBoard)
  <2> SUFFICES ASSUME StormInv, condition # "single"
               PROVE  EngineTypeOK /\ SettledAtEnd /\ DisputedGrantsDoNotBoard
    OBVIOUS
  <2>1. RunInv
    BY DEF StormInv, StageIsSet, RunInv
  <2> QED BY <2>1, RunInvIsTyped, RunInvSettles, RunInvKeepsDisputesOut
<1> QED BY <1>1, StormInvHolds, PTL

\* No ruling of the duty manager leaves open a contest on a claim it touches.
THEOREM StormRulingsCloseContests == StormSpec => RulingsCloseWhatTheyTouch
<1>1. StormInv /\ [StormNext]_runVars => [SettlementEndsWell]_vars
  <2> SUFFICES ASSUME StormInv, [StormNext]_runVars, phase = "settle"
               PROVE  [SettlementEndsWell]_vars
    BY DEF SettlementEndsWell
  <2>1. condition # "single"
    BY DEF StormInv, StageIsSet
  <2>2. RunInv /\ [Next]_vars
    BY <2>1, NegotiatedRunsPlayByTheRules DEF StormInv, StageIsSet, RunInv
  <2> QED BY <2>2, SettlementsEndWell
<1> QED
  BY <1>1, StormInvHolds, PTL DEF StormSpec, RulingsCloseWhatTheyTouch, SettlementEndsWell
-----------------------------------------------------------------------------
(* What the planner does to the tables *)

\* The planner serves the passengers in the order of their rank, each the earliest
\* flight with a seat: whatever the cast, the fares and the seats, nobody could
\* have arrived earlier on a seat that went to somebody they outrank.
THEOREM PlannerIsFair == StormSpec => []PlannerHasNoEnvy
<1>1. StormInv /\ PlannerInv => PlannerHasNoEnvy
  BY DEF PlannerInv, PlannerHasNoEnvy, Content
<1> QED BY <1>1, PlannerInvIsInductive, StormInvHolds, PTL DEF StormSpec
-----------------------------------------------------------------------------
(* No policy ends a run *)

\* Crews and gates have no group, but there is one of each, so that the capacity
\* check leaves nothing for the schema to refuse either.
LEMMA NothingClashes ==
  ASSUME StormInv, NEW r \in Resource, NEW l \in Ledger!BenList, ~l.repeats
  PROVE  Ledger!TryAllocate(r, l) # "integrity_violation"
<1>1. CASE Group[r] # NoGroup
  BY <1>1, GroupsGuardTheSchema
<1>2. CASE Group[r] = NoGroup
  <2>1. r \in TarmacResources /\ Capacity[r] = r.units /\ GroupOf(r) = "none"
    BY <1>2, AirlineAssumption DEF Capacities, Groups
  <2>2. r = FerryCrew \/ \E g \in Gates : r = Gate(g)
    BY <2>1 DEF TarmacResources, GroupOf
  <2>3. Capacity[r] = 1
    BY <2>1, <2>2 DEF FerryCrew, Gate
  <2>4. ASSUME Ledger!FitsCapacity(r, l), NEW x \in alloc, x.resource = r, x.ben \in l.bens
        PROVE  FALSE
    <3> DEFINE U == {y \in alloc : y.resource = r}
               S == l.bens
    <3>1. IsFiniteSet(U) /\ Cardinality(U) \in Nat /\ Cardinality(U) # 0
      <4>1. IsFiniteSet(U)
        BY UnitsAreFinite, FS_Subset
      <4>2. U # {}
        BY <2>4
      <4> HIDE DEF U
      <4> QED BY <4>1, <4>2, FS_CardinalityType, FS_EmptySet
    <3>2. IsFiniteSet(S) /\ Cardinality(S) \in Nat /\ Cardinality(S) # 0
      <4>1. IsFiniteSet(S)
        <5>1. S \subseteq Beneficiary
          BY DEF Ledger!BenList
        <5> QED BY <5>1, LedgerAssumption, FS_Subset
      <4>2. S # {}
        BY <2>4
      <4> HIDE DEF S
      <4> QED BY <4>1, <4>2, FS_CardinalityType, FS_EmptySet
    <3>3. Ledger!Cardinality(U) = Cardinality(U) /\ Ledger!Cardinality(S) = Cardinality(S)
      BY LedgersCount
    <3>4. Ledger!Cardinality(U) + Ledger!Cardinality(S) <= 1
      <4>1. Ledger!Used(r) = Ledger!Cardinality(U)
        BY DEF Ledger!Used
      <4>2. Ledger!Length(l) = Cardinality(S)
        BY <3>2, <3>3 DEF Ledger!Length
      <4>3. Ledger!Used(r) + Ledger!Length(l) <= 1
        BY <2>3, <2>4 DEF Ledger!FitsCapacity
      <4> QED BY <3>3, <4>1, <4>2, <4>3
    <3> HIDE DEF U, S
    <3> QED BY <3>1, <3>2, <3>3, <3>4
  <2>5. Ledger!FitsCapacity(r, l) /\ Ledger!FitsGroup(r, l) => Ledger!SchemaAccepts(r, l)
    BY <2>4 DEF Ledger!SchemaAccepts
  <2> QED BY <2>5 DEF Ledger!TryAllocate
<1> QED BY <1>1, <1>2

LEMMA RevealGoesOn == StormInv /\ RevealNext /\ condition # "single" => phase' # "aborted"
<1> SUFFICES ASSUME StormInv, RevealNext, condition # "single" PROVE phase' # "aborted"
  OBVIOUS
<1> DEFINE m == Head(sealed)
           p == commitments[m].digest
<1>0. Ledger!TypeOK /\ SealsAreKept
  BY LedgerFacts DEF StormInv, StageIsSet, EngineHolds
<1>1. m \in 1..MaxCommits /\ commitments[m].state = "sealed"
  <2>1. sealed # <<>> /\ sealed \in Seq(1..MaxCommits) /\ phase = "reveal"
    BY <1>0 DEF RevealNext, SealsAreKept
  <2>2. m \in 1..MaxCommits /\ m = sealed[1] /\ 1 \in 1..Len(sealed)
    BY <2>1, FirstAndRest
  <2> QED BY <1>0, <2>2 DEF SealsAreKept
<1>2. p \in Ledger!Proposal
  BY <1>0, <1>1, SealsHoldBids
<1>3. Ledger!Reveal(m, p, TRUE)
  BY DEF RevealNext
<1> HIDE DEF p
<1>4. Ledger!TryAllocate(p.resource, Ledger!Listing(p.bens)) # "integrity_violation"
  <2>1. p.resource \in Resource /\ p.bens \in SUBSET Beneficiary
    BY <1>2 DEF Ledger!Proposal
  <2>2. Ledger!Listing(p.bens) \in Ledger!BenList /\ ~Ledger!Listing(p.bens).repeats
    BY <2>1, ListingsAreLists DEF Ledger!Listing
  <2> QED BY <2>1, <2>2, NothingClashes
<1> HIDE DEF m
<1>5. outcome' # "integrity_violation"
  BY <1>3, <1>4 DEF Ledger!Reveal, Ledger!NoEffect, Ledger!RevealMismatch,
     Ledger!RevealMatch, Ledger!InsertAndApply
<1> QED BY <1>5 DEF RevealNext, Aborting

LEMMA ApplyNextGoesOn == StormInv /\ ApplyNext => phase' # "aborted"
<1> SUFFICES ASSUME StormInv, ApplyNext PROVE phase' # "aborted"
  OBVIOUS
<1> DEFINE o == Head(script)
           l == Ledger!Listing(o.bens)
<1>1. phase = "ops" /\ script # <<>> /\ RulingOp(o.op, o.claim, l)
  BY DEF ApplyNext
<1>2. Ledger!TypeOK
  BY <1>1, Negotiated
<1>3. script \in Seq(Ops)
  BY <1>1 DEF StormInv, ScriptIsLegal
<1>4. o \in Ops
  BY <1>1, <1>3, FirstAndRest
<1>5. o.claim \in ClaimId /\ o.bens \in SUBSET Beneficiary
  BY <1>4 DEF Ops
<1>6. l \in Ledger!BenList /\ ~l.repeats
  BY <1>5, ListingsAreLists DEF Ledger!Listing
<1> HIDE DEF o, l
<1>7. ASSUME Ledger!GrantOp(o.claim, l) PROVE outcome' # "integrity_violation"
  <2>1. ASSUME claims[o.claim].status = "blocked"
        PROVE  Ledger!TryAllocate(claims[o.claim].resource, l) # "integrity_violation"
    <3>1. claims[o.claim].resource \in Resource
      BY <1>2, <1>5, <2>1, ClaimsAreRows
    <3> QED BY <1>6, <3>1, NothingClashes
  <2> QED BY <1>7, <2>1 DEF Ledger!GrantOp, Ledger!NoEffect
<1>8. outcome' # "integrity_violation"
  BY <1>1, <1>7 DEF RulingOp, ApplyOp, Ledger!RevokeOp, Ledger!VoidClaim,
     Ledger!NoEffect, Ledger!GiveBack
<1> QED BY <1>1, <1>8 DEF RulingOp, Aborting

LEMMA OthersGoOn ==
  ASSUME StormInv, RunGoesOn, StormNext, ~Consult, ~TakePosition
  PROVE  phase' # "aborted" /\ ~(phase' = "positions" /\ asked')
<1> USE DEF Goto, engineVars, vars
<1>0. phase # "aborted" /\ (asked => phase \in {"propose", "positions"})
  BY DEF RunGoesOn, StormInv, StageIsSet
<1>1. CASE Register \/ StartSociety \/ File \/ TurnOver
  <2>1. ASSUME File PROVE phase' = "propose"
    BY <2>1 DEF File, Propose
  <2>2. ASSUME TurnOver PROVE ~asked' /\ phase' # "aborted"
    BY <1>0, <2>2 DEF TurnOver, EndTurn
  <2>3. ASSUME Register \/ StartSociety PROVE phase' \in {"setup", "propose"}
    BY <2>3 DEF Register, StartSociety
  <2> QED BY <1>1, <2>1, <2>2, <2>3
<1>2. CASE Mediate \/ MediateAtTheCap \/ ApplyDone
  BY <1>2 DEF Mediate, MediateAtTheCap, Decree, ApplyDone, EndOps
<1>3. CASE ApplyNext
  <2>1. phase' # "aborted"
    BY <1>3, ApplyNextGoesOn
  <2>2. phase = "ops" /\ asked' = asked
    BY <1>3 DEF ApplyNext
  <2> QED BY <1>0, <2>1, <2>2
<1>4. CASE Engine
  <2>1. asked' = asked /\ phase \notin {"propose", "positions"}
    BY <1>4, EnginePhases DEF Engine, Idle
  <2>2. ASSUME RevealNext PROVE phase' # "aborted"
    <3>1. condition # "single"
      BY <2>2, Negotiated DEF RevealNext
    <3> QED BY <2>2, <3>1, RevealGoesOn
  <2>3. ASSUME EndReveals \/ ScanRound \/ EndRulings \/ EndSettlement \/ EndRound
        PROVE  phase' # "aborted"
    BY <2>3 DEF EndReveals, ScanRound, EndRulings, EndSettlement, EndRound
  <2>4. ASSUME SafetyFinalize \/ EndContestSweep \/ EndSweep PROVE phase' # "aborted"
    BY <2>4 DEF SafetyFinalize, EndContestSweep, EndSweep
  <2>5. ASSUME NEW x, SettleContest(x) \/ SweepContest(x) PROVE phase' # "aborted"
    BY <1>0, <2>5 DEF SettleContest, SweepContest
  <2>6. ASSUME NEW c, SweepClaim(c) PROVE phase' # "aborted"
    BY <1>0, <2>6 DEF SweepClaim
  <2> QED BY <1>0, <1>4, <2>1, <2>2, <2>3, <2>4, <2>5, <2>6 DEF Engine
<1>5. CASE StartPlanner \/ PlanFirst \/ PlanSeats \/ SeatNext \/ EndPlan
  BY <1>0, <1>5 DEF StartPlanner, PlanFirst, PlanSeats, SeatNext, EndPlan
<1> QED BY <1>1, <1>2, <1>3, <1>4, <1>5 DEF StormNext

LEMMA RunGoesOnIsInductive ==
  /\ StormInit => RunGoesOn
  /\ StormInv /\ RunGoesOn /\ [StormNext]_runVars => RunGoesOn'
<1>1. StormInit => RunGoesOn
  BY DEF StormInit, Init, RunGoesOn
<1>2. ASSUME StormInv, RunGoesOn, UNCHANGED runVars PROVE RunGoesOn'
  BY <1>2 DEF runVars, vars, engineVars, ledgerVars, RunGoesOn, YieldsCanBeFiled, Ledger!Holders
<1> QED BY <1>1, <1>2, ConsultGoesOn, TakePositionGoesOn, OthersGoOn DEF RunGoesOn

\* The policies stay within the protocol.  Their answers are filed one by one
\* while the ledger moves on, and the duty manager's rulings name claims that an
\* earlier operation may have settled, but no call of theirs ends in an exception
\* that run() does not catch: nobody gives back what is not held, stakes without
\* an account or has the schema refuse what the checks let through.
THEOREM StormsGoOn == StormSpec => []PoliciesNeverAbort
<1>1. RunGoesOn => PoliciesNeverAbort
  BY DEF RunGoesOn, PoliciesNeverAbort
<1> QED BY <1>1, RunGoesOnIsInductive, StormInvHolds, PTL DEF StormSpec
-----------------------------------------------------------------------------
(* Rooms *)

\* I4 holds in a run: a claim is what its commitment sealed.
LEMMA ClaimsAreSealed == StormSpec => []Ledger!ClaimsMatchTheirSeals
<1>1. TP!Spec => []TP!ClaimsMatchTheirSeals
  BY SameFinite, LedgerAssumption, BankAssumption, TP!Seals_I4
<1>2. TP!ClaimsMatchTheirSeals => Ledger!ClaimsMatchTheirSeals
  BY DEF Ledger!ClaimsMatchTheirSeals, TP!ClaimsMatchTheirSeals, Ledger!ClaimId, TP!ClaimId,
     Ledger!HasClaim, TP!HasClaim
<1>3. Ledger!Init => TP!Init
  BY SameLedgerInit
<1>4. [Ledger!Next]_Ledger!vars => [TP!Next]_TP!vars
  BY SameLedgerNext DEF Ledger!vars, TP!vars
<1> QED BY <1>1, <1>2, <1>3, <1>4, StormsUseTheLedger, PTL
     DEF LedgerSpec, Ledger!Spec, TP!Spec

LEMMA RunGoesOnHolds == StormSpec => []RunGoesOn
BY RunGoesOnIsInductive, StormInvHolds, PTL DEF StormSpec

\* "release rooms the moment pax get seats": whoever has a seat when the positions
\* of a round are in has no room, in whichever order the two came, whoever gave
\* the seat, and wherever in the round the desk's turn was.
THEOREM RoomsGoToTheStranded == StormSpec => []NoRoomForTheSeated
<1>1. RoomsInv => NoRoomForTheSeated
  BY DEF RoomsInv, NoRoomForTheSeated, Roomed, IsSpare
<1> QED BY <1>1, RoomsInvIsInductive, RunGoesOnHolds, ClaimsAreSealed, StormInvHolds, PTL
     DEF StormSpec
-----------------------------------------------------------------------------
(* Who is bumped, and for whom *)

\* "never bump equal-or-more protected pax", and nobody without a "lawful re-seat
\* alternative": whoever loses a seat in a ruling loses it to a claim that is still
\* blocked and names somebody more protected, and another flight that is legal for
\* them has a seat left.  The ruling was computed from a view of the ledger and is
\* applied one operation at a time; what it reserved for those it bumps is not taken
\* by its own grants.
THEOREM BumpsAreForTheMoreProtected == StormSpec => BumpsAreLawful
<1>1. ASSUME StormInv, BumpInv, [StormNext]_runVars, phase = "ops",
             NEW p \in SeatedPax \ SeatedPax'
      PROVE  BumpIsLawful(p)
  <2>1. ApplyNext \/ (UNCHANGED <<alloc, scenario>>)
    <3>1. CASE UNCHANGED runVars
      BY <3>1 DEF runVars, vars, ledgerVars, stormVars
    <3>2. CASE StormNext
      <4>1. ~(Register \/ StartSociety \/ Consult \/ File \/ TakePosition \/ TurnOver
              \/ Mediate \/ MediateAtTheCap)
        BY <1>1 DEF Register, StartSociety, Consult, File, Propose, TakePosition, TurnOver,
           EndTurn, Mediate, Rule, MediateAtTheCap, Fiat
      <4>2. ~Engine
        BY <1>1, EnginePhases
      <4>3. ~(StartPlanner \/ PlanFirst \/ PlanSeats \/ SeatNext \/ EndPlan)
        BY <1>1 DEF StartPlanner, PlanFirst, PlanSeats, SeatNext, EndPlan
      <4>4. ASSUME ApplyDone PROVE UNCHANGED <<alloc, scenario>>
        BY <4>4 DEF ApplyDone, EndOps, ledgerVars
      <4> QED BY <3>2, <4>1, <4>2, <4>3, <4>4 DEF StormNext
    <3> QED BY <1>1, <3>1, <3>2
  <2>2. ASSUME UNCHANGED <<alloc, scenario>> PROVE FALSE
    BY <1>1, <2>2 DEF SeatedPax, HasSeat
  <2> QED BY <1>1, <2>1, <2>2, TakenSeatsAreBumps
<1>2. StormInv /\ BumpInv /\ [StormNext]_runVars
        => [\A p \in SeatedPax \ SeatedPax' : phase = "ops" =>
             \E f \in Flight :
               /\ HasSeat(p, f)
               /\ \E c \in Blocked : /\ claims[c].resource = Seat(scenario, f)
                                     /\ \E q \in claims[c].bens : PaxPriority(q) < PaxPriority(p)
               /\ \E g \in Legal(scenario, p) \ {f} : IsFree(g)']_runVars
  BY <1>1 DEF BumpIsLawful
<1> QED BY <1>2, BumpInvIsInductive, StormInvHolds, PTL DEF StormSpec, BumpsAreLawful
-----------------------------------------------------------------------------
(* The crew that is free is granted *)

\* No step keeps a claim on a crew waiting.
LEMMA CrewIsNotKeptWaiting ==
  ASSUME StormInv, Ledger!ClaimsMatchTheirSeals, CrewBids, CrewClaimsAreNotBlocked,
         condition # "single", StormNext
  PROVE  CrewClaimsAreNotBlocked'
<1> SUFFICES ASSUME NEW c \in ClaimId, claims'[c].status = "blocked", OnACrew(claims'[c])
             PROVE  FALSE
  BY DEF CrewClaimsAreNotBlocked, Blocked, OnACrew
<1>1. ClaimsStay /\ StatusesGoOn
  BY ClaimsGoOn, StormCallsTheLedger, LedgerFacts DEF StormInv
<1>2. CASE claims[c].status = "absent"
  BY <1>2, NewCrewClaims
<1>3. CASE claims[c].status # "absent"
  <2>1. claims[c].status = "blocked" /\ claims'[c].resource = claims[c].resource
    BY <1>1, <1>3 DEF ClaimsStay, StatusesGoOn
  <2> QED BY <2>1 DEF CrewClaimsAreNotBlocked, Blocked, OnACrew
<1> QED BY <1>2, <1>3
-----------------------------------------------------------------------------
(* When the legality agent sees the grant, and how contests go on *)

\* It is shown the grants when it is asked for its positions.
LEMMA SeeingTakesAnAnswer ==
  ASSUME StormInv, RunGoesOn, RoomsInv, StormNext, condition # "single", NotYetSeen
  PROVE  NotYetSeen' \/ (Consult /\ phase = "positions" /\ turn = 1 /\ ~asked)
<1>0. turn \in Nat /\ Len(AgentList) = 5
  BY RunIsOn
<1>1. CASE Consult
  <2>1. UNCHANGED <<phase, round, turn>> /\ ~asked
    BY <1>1 DEF Consult, vars, engineVars
  <2> QED BY <1>1, <2>1 DEF NotYetSeen
<1>2. CASE File
  BY <1>2 DEF File, Propose, NotYetSeen
<1>3. CASE TakePosition
  <2>1. phase' # "aborted"
    <3>1. RunGoesOn'
      BY <1>3, TakePositionGoesOn
    <3> QED BY <3>1 DEF RunGoesOn
  <2> QED BY <1>3, <2>1, PositionsAreTaken DEF NotYetSeen
<1>4. CASE TurnOver
  <2>1. /\ phase \in {"propose", "positions"} /\ asked /\ ~asked' /\ round' = round
        /\ phase = "propose" => phase' \in {"propose", "reveal"}
        /\ turn + 1 < 5 => turn' = turn + 1 /\ phase' = phase
    BY <1>0, <1>4, TurnsGoRound
  <2>2. CASE phase = "propose"
    BY <2>1, <2>2 DEF NotYetSeen
  <2>3. CASE phase = "positions"
    <3>1. turn = 0 /\ round = 1
      BY <2>1, <2>3 DEF NotYetSeen
    <3>2. 0 + 1 = 1 /\ 1 < 5
      OBVIOUS
    <3>3. turn' = 1 /\ phase' = "positions"
      BY <2>1, <2>3, <3>1, <3>2
    <3> QED BY <2>1, <3>1, <3>3 DEF NotYetSeen
  <2> QED BY <2>1, <2>2, <2>3
<1>5. CASE ~Consult /\ ~File /\ ~TakePosition /\ ~TurnOver
  <2> USE DEF Goto, engineVars
  <2>1. phase' # "aborted" /\ ~asked'
    BY <1>5, OthersGoOn, OtherSteps
  <2>2. CASE Register \/ StartSociety
    BY <2>2 DEF Register, StartSociety, NotYetSeen
  <2>3. CASE Engine
    <3>1. phase = "reveal" /\ turn = 0 /\ round = 1
      BY <2>3, EnginePhases DEF NotYetSeen, RoomsInv
    <3>2. RevealNext \/ EndReveals
      BY <2>3, <3>1 DEF Engine, ScanRound, EndRulings, SettleContest, EndSettlement, EndRound,
         SafetyFinalize, SweepContest, EndContestSweep, SweepClaim, EndSweep
    <3>3. phase' \in {"reveal", "positions"} /\ turn' = turn /\ round' = round
      BY <2>1, <3>2, <3>1 DEF RevealNext, EndReveals
    <3> QED BY <3>1, <3>3 DEF NotYetSeen
  <2>4. CASE StartPlanner \/ PlanFirst \/ PlanSeats \/ SeatNext \/ EndPlan
    BY <2>4, NotNegotiated DEF StartPlanner, PlanFirst, PlanSeats, SeatNext, EndPlan
  <2>5. CASE Mediate \/ MediateAtTheCap \/ ApplyNext \/ ApplyDone
    BY <2>5 DEF Mediate, MediateAtTheCap, ApplyNext, ApplyDone, Rule, Fiat, EndOps, NotYetSeen
  <2> QED BY <1>5, <2>2, <2>3, <2>4, <2>5 DEF StormNext
<1> QED BY <1>1, <1>2, <1>3, <1>4, <1>5
-----------------------------------------------------------------------------
(* Vetoes and deadlocks are on the crew that was claimed *)

\* The legality agent contests crews only.
LEMMA VetoesStayOnCrews ==
  ASSUME StormInv, RunGoesOn, StormNext, condition # "single", VetoesAreOfCrews
  PROVE  VetoesAreOfCrews'
<1>1. ClaimsStay
  BY ClaimsGoOn, StormCallsTheLedger, LedgerFacts DEF StormInv
<1>2. \A c \in ClaimId : IsCrewClaim(c) => claims'[c].status # "absent" /\ claims'[c].resource.kind = "crew"
  BY <1>1 DEF ClaimsStay, IsCrewClaim, OnACrew
<1>3. ASSUME NEW x \in Bank!ContestId, contests'[x].status # "absent", contests'[x].agent = "crew_legality"
      PROVE  contests'[x].target \in ClaimId /\ IsCrewClaim(contests'[x].target)
  <2>1. CASE contests'[x] = contests[x] \/ Closes(x)
    <3>1. /\ contests[x].status # "absent" /\ contests[x].agent = "crew_legality"
          /\ contests'[x].target = contests[x].target
      BY <1>3, <2>1 DEF Closes
    <3> QED BY <3>1 DEF VetoesAreOfCrews
  <2>2. CASE Opens(x)
    <3>1. /\ TakePosition /\ Head(script).stance = "block" /\ Speaker = "crew_legality"
          /\ contests'[x].target = Head(script).target
      BY <1>3, <2>2 DEF Opens
    <3>2. phase = "positions" /\ asked /\ script # <<>>
      BY <3>1, PositionsAreTaken
    <3>3. script \in Seq(Stands)
      BY <3>2 DEF StormInv, ScriptIsLegal
    <3>4. 1 \in 1..Len(script) /\ Head(script) = script[1]
      BY <3>2, <3>3, FirstAndRest
    <3> QED BY <3>1, <3>2, <3>4 DEF VetoesAreOfCrews
  <2> QED BY <2>1, <2>2, ContestsGoOn
<1>4. ASSUME phase' = "positions", asked', Speaker' = "crew_legality",
             NEW i \in 1..Len(script'), script'[i].stance = "block"
      PROVE  script'[i].target \in ClaimId /\ IsCrewClaim(script'[i].target)
  <2>1. CASE Consult
    <3>1. phase = "positions" /\ Speaker = "crew_legality" /\ script' = Positions(Speaker, View)
      BY <1>4, <2>1 DEF Consult, vars, engineVars, Speaker
    <3>2. script' = CrewLegalityResponds(View)
      BY <3>1 DEF Positions
    <3>3. ViewIsSound(View)
      BY <3>1, Negotiated
    <3>4. PICK c \in IllegalCrew(View) : script'[i].target = c.id
      BY <1>4, <3>2, <3>3, CrewLegalityRespondsTyped
    <3> QED BY <3>4, IllegalCrewsAreClaims
  <2>2. CASE TakePosition
    <3>1. /\ phase = "positions" /\ asked /\ script # <<>> /\ script' = Tail(script)
          /\ Speaker = "crew_legality"
      BY <1>4, <2>2, PositionsAreTaken
    <3>2. script \in Seq(Stands)
      BY <3>1 DEF StormInv, ScriptIsLegal
    <3>3. i + 1 \in 1..Len(script) /\ script'[i] = script[i + 1]
      BY <3>1, <3>2, FirstAndRest
    <3> QED BY <1>4, <3>1, <3>3 DEF VetoesAreOfCrews
  <2>3. CASE ~Consult /\ ~TakePosition
    BY <1>4, <2>3, OthersGoOn
  <2> QED BY <2>1, <2>2, <2>3
<1> QED BY <1>2, <1>3, <1>4 DEF VetoesAreOfCrews, IsCrewClaim, OnACrew

\* A deadlock goes on naming the resources of its claims.
LEMMA DeadlocksStayOnTheirs ==
  ASSUME StormInv, StormNext, condition # "single", DeadlocksAreOnTheirs
  PROVE  DeadlocksAreOnTheirs'
<1>1. ClaimsStay
  BY ClaimsGoOn, StormCallsTheLedger, LedgerFacts DEF StormInv
<1>2. ASSUME pending' \subseteq pending PROVE DeadlocksAreOnTheirs'
  BY <1>1, <1>2 DEF DeadlocksAreOnTheirs, ClaimsStay
<1>3. UNCHANGED detectorVars => pending' \subseteq pending
  BY DEF detectorVars
<1>4. CASE Engine
  <2>1. CASE ScanRound
    <3>1. claims' = claims /\ \A d \in pending' :
            d \in Detector!NewCycles(CurrentView) \/ d \in Detector!NewContested(CurrentView)
      BY <2>1 DEF ScanRound, Detector!Scan, ledgerVars
    <3> QED BY <3>1, ScansAreOnTheirs DEF DeadlocksAreOnTheirs
  <2>2. CASE RevealNext \/ EndReveals \/ EndRulings \/ SafetyFinalize \/ EndContestSweep \/ EndSweep
    BY <1>2, <1>3, <2>2 DEF RevealNext, EndReveals, EndRulings, SafetyFinalize, EndContestSweep, EndSweep
  <2>3. CASE EndSettlement \/ EndRound
    BY <1>2, <2>3 DEF EndSettlement, EndRound, Detector!ResetResources
  <2>4. ASSUME NEW x, SettleContest(x) \/ SweepContest(x) \/ SweepClaim(x)
        PROVE  UNCHANGED detectorVars
    BY <2>4 DEF SettleContest, SweepContest, SweepClaim
  <2> QED BY <1>2, <1>3, <1>4, <2>1, <2>2, <2>3, <2>4 DEF Engine
<1>5. CASE Mediate
  BY <1>2, <1>5 DEF Mediate, Rule
<1>6. CASE TakePosition
  BY <1>2, <1>3, <1>6, PositionsAreTaken
<1>7. CASE Register \/ StartSociety \/ Consult \/ File \/ TurnOver
  BY <1>2, <1>3, <1>7 DEF Register, StartSociety, Consult, File, Propose, TurnOver, EndTurn, vars
<1>8. CASE MediateAtTheCap \/ ApplyNext \/ ApplyDone
  BY <1>2, <1>3, <1>8 DEF MediateAtTheCap, ApplyNext, ApplyDone, Fiat, RulingOp, EndOps
<1>9. CASE StartPlanner \/ PlanFirst \/ PlanSeats \/ SeatNext \/ EndPlan
  BY <1>2, <1>3, <1>9 DEF StartPlanner, PlanFirst, PlanSeats, SeatNext, EndPlan
<1> QED BY <1>4, <1>5, <1>6, <1>7, <1>8, <1>9 DEF StormNext


(* What a ruling does about a crew *)
-----------------------------------------------------------------------------
(* What a ruling on the crew does *)

\* No crew of a valid scenario has the duty left that the ferry takes.
LEMMA CrewsMayNotFly ==
  ASSUME StormInv, Ledger!ClaimsMatchTheirSeals, CrewBids, condition # "single",
         NEW c, IsUp(c)
  PROVE  /\ Record(c).id = c /\ Record(c) \in CrewRecords(View)
         /\ ~MayFly(View, Record(c))
         /\ View.sc.duty[Record(c).wish[1]] < FerryRequiredDuty
         /\ claims[c].agent = "rebooking" /\ Record(c).agent = "rebooking"
<1> DEFINE r == Record(c)
           m == claims[c].commit
<1>1. c \in ClaimId /\ claims[c].status = "granted" /\ OnACrew(claims[c])
  BY DEF IsUp
<1>2. r \in Shown /\ r.id = c
  BY <1>1, RecordsAreShown
<1>3. claims[c].bens = {"C1"} /\ claims[c].agent = "rebooking" /\ m = 1
  BY <1>1, TheCrewClaim
<1>4. m \in 1..Len(wish) /\ ToSet(wish[m].who) = {"C1"}
  BY <1>1, <1>3 DEF StormInv, ClaimsAreLegal
<1>5. r.agent = "rebooking" /\ r.resource = claims[c].resource /\ r.wish = wish[m].who
  BY <1>3 DEF Record
<1>6. r \in Records("granted")
  BY <1>1 DEF Records
<1>7. r.wish \in Seq(Beneficiary) /\ r.wish # <<>>
  BY <1>2 DEF Shown
<1>8. View.granted = Records("granted") /\ View.sc = scenario
  BY DEF View
<1> HIDE DEF r, m
<1>9. 1 \in DOMAIN r.wish
  BY <1>7
<1>10. r.wish[1] = "C1"
  <2>1. r.wish[1] \in ToSet(r.wish)
    BY <1>9 DEF ToSet
  <2> QED BY <1>4, <1>5, <2>1
<1>11. scenario.duty["C1"] < FerryRequiredDuty /\ scenario.duty["C1"] \in Nat
  <2>1. scenario \in Scenarios
    BY DEF StormInv, StageIsSet
  <2>2. scenario.duty \in [Crew -> Nat] /\ Valid(scenario) /\ "C1" \in Crew
    BY <2>1, ScenariosAssumption, CastAssumption
  <2> QED BY <2>2 DEF Valid
<1>12. r \in CrewRecords(View)
  BY <1>1, <1>5, <1>6, <1>8 DEF CrewRecords, OnACrew
<1>13. View.sc.duty[r.wish[1]] < FerryRequiredDuty
  BY <1>8, <1>10, <1>11
<1>14. ~MayFly(View, r)
  BY <1>8, <1>10, <1>11 DEF MayFly, FerryRequiredDuty, FerryBlock, FerryBrief
<1> QED BY <1>2, <1>3, <1>5, <1>12, <1>13, <1>14 DEF r

\* Voiding a set of claims voids each of them.
LEMMA EveryoneIsVoided ==
  ASSUME NEW v, ViewIsSound(v), NEW S, S \subseteq v.granted, NEW r \in S
  PROVE  \E i \in 1..Len(Voids(S)) : Voids(S)[i].op = "void" /\ Voids(S)[i].claim = r.id
<1> DEFINE s == ById(S)
           at(i) == Op("void", s[i].id, {})
<1>1. Voids(S) = [i \in DOMAIN s |-> at(i)]
  BY DEF Voids
<1>2. IsFiniteSet(S) /\ OneRecordPerId(S)
  BY SomeRecords
<1>3. s \in Seq(S) /\ \E i \in 1..Len(s) : s[i] = r
  BY <1>2, ByIdIsInOrder
<1>4. PICK i \in 1..Len(s) : s[i] = r
  BY <1>3
<1>5. at(i).op = "void" /\ at(i).claim = r.id
  BY <1>4 DEF Op
<1> HIDE DEF s, at
<1>6. DOMAIN s = 1..Len(s) /\ Len(s) \in Nat
  BY <1>3
<1>7. Len(Voids(S)) = Len(s)
  BY <1>1, <1>6
<1>8. Voids(S)[i] = at(i)
  BY <1>1, <1>6
<1> QED BY <1>5, <1>7, <1>8

\* The script takes c out of the manifest.
VoidedBy(c, s) == \E i \in 1..Len(s) : s[i].op = "void" /\ s[i].claim = c

\* A ruling on a deadlock over the crew voids the claim that is granted.
LEMMA CrewRulingsVoid ==
  ASSUME StormInv, Ledger!ClaimsMatchTheirSeals, CrewBids, condition # "single",
         NEW v, v = View, NEW c, IsUp(c), NEW ids, c \in ids
  PROVE  VoidedBy(c, RuleCrew(ids, v).ops)
<1> DEFINE S == Illegal(v, Named(CrewRecords(v), ids))
           r == Record(c)
<1>1. ViewIsSound(v)
  BY ViewsAreSound
<1>2. r.id = c /\ r \in CrewRecords(v) /\ ~MayFly(v, r)
  BY CrewsMayNotFly
<1>3. r \in S
  BY <1>2 DEF Illegal, Named
<1>4. S \subseteq v.granted
  BY DEF Illegal, Named, CrewRecords
<1>5. RuleCrew(ids, v).ops = Voids(S)
  BY DEF RuleCrew
<1> HIDE DEF S, r
<1> QED BY <1>1, <1>2, <1>3, <1>4, <1>5, EveryoneIsVoided DEF VoidedBy

\* There is no other crew in the manifest.
LEMMA OtherCrewRulingsAreEmpty ==
  ASSUME StormInv, Ledger!ClaimsMatchTheirSeals, CrewBids, condition # "single",
         NEW v, v = View, NEW c, IsUp(c), NEW ids, c \notin ids
  PROVE  /\ RuleCrew(ids, v).ops = <<>>
         /\ RuleCrew(ids, v).winners = {} /\ RuleCrew(ids, v).losers = {}
<1>1. ASSUME NEW r \in CrewRecords(v) PROVE r.id = c
  <2>1. r \in Records("granted") /\ r.resource.kind = "crew"
    BY <1>1 DEF CrewRecords, View
  <2>2. r.id \in ClaimId /\ IsCrewClaim(r.id)
    BY <2>1, RecordsAreOfClaims DEF IsCrewClaim, OnACrew
  <2>3. c \in ClaimId /\ IsCrewClaim(c)
    BY DEF IsUp, IsCrewClaim
  <2> QED BY <2>2, <2>3, CrewIsClaimedOnce
<1>2. Named(CrewRecords(v), ids) = {}
  BY <1>1 DEF Named
<1>3. Illegal(v, {}) = {} /\ Lawful(v, {}) = {} /\ Contesting(v, {}) = {} /\ Claiming({}) = {}
  BY DEF Illegal, Lawful, Contesting, Claiming
<1>4. Voids({}) = <<>>
  <2>1. IsFiniteSet({}) /\ OneRecordPerId({}) /\ Cardinality({}) = 0
    BY FS_EmptySet DEF OneRecordPerId
  <2>2. ById({}) \in Seq({}) /\ Len(ById({})) = 0
    BY <2>1, ByIdIsInOrder
  <2>3. ById({}) = <<>>
    BY <2>2
  <2> QED BY <2>3 DEF Voids
<1> QED BY <1>2, <1>3, <1>4 DEF RuleCrew
-----------------------------------------------------------------------------
(* What a ruling on others leaves alone *)

\* A ruling that does nothing to c and names the legality agent for nothing.
PassesOver(c, r) ==
  /\ \A i \in 1..Len(r.ops) : r.ops[i].claim # c
  /\ "crew_legality" \notin r.winners \union r.losers

\* Neither who waits for a seat nor who holds one is on the crew or its claim.
LEMMA HoldersAreOthers ==
  ASSUME StormInv, Ledger!ClaimsMatchTheirSeals, CrewBids, condition # "single",
         NEW v, v = View, NEW c, IsUp(c), NEW b \in v.blocked, b.resource.kind = "seat"
  PROVE  /\ b.id # c /\ b.agent # "crew_legality"
         /\ \A x \in HoldersAgainst(v, b) : x.claim # c /\ x.agent # "crew_legality"
<1>1. v.granted = Records("granted") /\ v.blocked = Records("blocked")
  BY DEF View
<1>2. c \in ClaimId /\ claims[c].status = "granted" /\ claims[c].resource.kind = "crew"
  BY DEF IsUp, OnACrew
<1>3. /\ b.id \in ClaimId /\ claims[b.id].status = "blocked" /\ b.agent = claims[b.id].agent
  BY <1>1, RecordsAreOfClaims
<1>4. b.id # c /\ b.agent # "crew_legality"
  BY <1>2, <1>3, TheCrewClaim
<1> DEFINE G == {d \in v.granted : d.resource = b.resource /\ d.agent # b.agent}
<1>5. HoldersAgainst(v, b) = UNION {[pax : d.holders, claim : {d.id}, agent : {d.agent}] : d \in G}
  BY DEF HoldersAgainst
<1>6. ASSUME NEW x \in HoldersAgainst(v, b)
      PROVE  x.claim # c /\ x.agent # "crew_legality"
  <2>1. PICK d \in G : x \in [pax : d.holders, claim : {d.id}, agent : {d.agent}]
    BY <1>5
  <2>2. x.claim = d.id /\ x.agent = d.agent
    BY <2>1
  <2>3. d \in Records("granted") /\ d.resource.kind = "seat"
    BY <1>1, <2>1
  <2>4. d.id \in ClaimId /\ claims[d.id].status = "granted" /\ d.agent = claims[d.id].agent
        /\ d.resource = claims[d.id].resource
    BY <2>3, RecordsAreOfClaims
  <2>5. d.agent # "crew_legality"
    BY <2>4, TheCrewClaim
  <2> QED BY <1>2, <2>2, <2>3, <2>4, <2>5
<1> QED BY <1>4, <1>6

\* A bump for a seat leaves the crew's claim and the legality agent out of the plan.
LEMMA BumpPassesOver ==
  ASSUME StormInv, Ledger!ClaimsMatchTheirSeals, CrewBids, condition # "single",
         Ready, NEW v, v = View, NEW c, IsUp(c), NEW b \in v.blocked, b.resource.kind = "seat",
         NEW plan \in Plans, PassesOver(c, plan)
  PROVE  PassesOver(c, Bump(v, plan, b))
<1> DEFINE r == b.resource
           H == HoldersAgainst(v, b)
           shortfall == Len(b.wish) - Usable(plan, r)
           victims == IF shortfall > 0 THEN FirstN(Bumpable(v, plan, b), shortfall) ELSE <<>>
           From(d) == {victims[i].pax : i \in {j \in DOMAIN victims : victims[j].claim = d}}
           S == {d \in v.granted : From(d.id) # {}}
           hit == ById(S)
           revokes == [i \in DOMAIN hit |-> Op("revoke", hit[i].id, From(hit[i].id))]
           hurt == {victims[i].agent : i \in DOMAIN victims}
           p == Bump(v, plan, b)
<1>1. ViewIsSound(v)
  BY ViewsAreSound
<1>2. p.ops = plan.ops \o revokes /\ p.winners = plan.winners /\ p.losers = plan.losers \union hurt
  BY DEF Bump, Plans
<1>3. \A x \in H : x.claim # c /\ x.agent # "crew_legality"
  BY HoldersAreOthers
<1>4. Bumpable(v, plan, b) \in Seq(H)
  <2> DEFINE X == {x \in HoldersAgainst(v, b) :
                     /\ PaxPriority(x.pax) > MostProtected(b)
                     /\ Alternatives(v, plan, x.pax, b.resource) # {}}
  <2>1. X \subseteq H /\ Bumpable(v, plan, b) = ByExposure(X)
    BY DEF Bumpable
  <2> HIDE DEF X
  <2>2. /\ H \subseteq Exposed /\ IsFiniteSet(H)
        /\ \A x, y \in H : x.pax = y.pax /\ x.claim = y.claim => x = y
    BY <1>1, HoldersAreExposed
  <2> HIDE DEF H
  <2>3. IsFiniteSet(X) /\ X \subseteq Exposed
        /\ \A x, y \in X : x.pax = y.pax /\ x.claim = y.claim => x = y
    BY <2>1, <2>2, FS_Subset
  <2>4. ByExposure(X) \in Seq(X)
    BY <2>3, ByExposureIsInOrder
  <2> QED BY <2>1, <2>4
<1>5. shortfall \in Int
  <2>1. b.resource \in registered /\ b.wish \in Seq(Beneficiary)
    BY <1>1 DEF ViewIsSound, Shown
  <2>2. plan.free[r] \in Int /\ plan.reserved[r] \in Int
    BY <2>1 DEF Plans
  <2> QED BY <2>1, <2>2 DEF Usable
<1> HIDE DEF shortfall, H
<1>6. victims \in Seq(H)
  BY <1>4, <1>5, FirstNIsAStart
<1> HIDE DEF victims
<1>7. \A i \in DOMAIN victims : victims[i].claim # c /\ victims[i].agent # "crew_legality"
  BY <1>3, <1>6
<1>8. \A d \in S : d.id # c
  BY <1>7
<1>9. IsFiniteSet(S) /\ OneRecordPerId(S)
  BY <1>1, SomeRecords
<1> HIDE DEF S
<1>10. hit \in Seq(S)
  BY <1>9, ByIdIsInOrder
<1> HIDE DEF hit, From
<1>11. DOMAIN hit = 1..Len(hit) /\ Len(hit) \in Nat /\ \A i \in 1..Len(hit) : hit[i].id # c
  BY <1>8, <1>10
<1> DEFINE X == {Op("revoke", hit[i].id, From(hit[i].id)) : i \in 1..Len(hit)}
<1>12. revokes \in [1..Len(hit) -> X]
  BY <1>11
<1>13. \A o \in X : o.claim # c
  BY <1>11 DEF Op
<1> HIDE DEF X, revokes
<1>14. revokes \in Seq(X) /\ Len(revokes) = Len(hit)
  BY <1>11, <1>12, MappedIsASequence
<1>15. plan.ops \in Seq({o \in Ops \union X : o.claim # c})
  <2>1. plan.ops \in Seq(Ops) /\ \A i \in 1..Len(plan.ops) : plan.ops[i].claim # c
    BY DEF Plans, PassesOver
  <2> QED BY <2>1
<1>16. revokes \in Seq({o \in Ops \union X : o.claim # c})
  BY <1>13, <1>14
<1>17. p.ops \in Seq({o \in Ops \union X : o.claim # c})
  BY <1>2, <1>15, <1>16, JoinedIsASequence
<1>18. \A i \in 1..Len(p.ops) : p.ops[i].claim # c
  BY <1>17
<1>19. "crew_legality" \notin p.winners \union p.losers
  BY <1>2, <1>7 DEF PassesOver
<1> HIDE DEF p
<1> QED BY <1>18, <1>19 DEF PassesOver, p

\* So does deciding one more claim on a seat.
LEMMA DecidedPassesOver ==
  ASSUME StormInv, Ledger!ClaimsMatchTheirSeals, CrewBids, condition # "single",
         Ready, NEW v, v = View, NEW c, IsUp(c), NEW b \in v.blocked, b.resource.kind = "seat",
         NEW plan \in Plans, PassesOver(c, plan)
  PROVE  PassesOver(c, Decided(v, plan, b))
<1> DEFINE p == Bump(v, plan, b)
           room == Usable(p, b.resource)
<1>1. ViewIsSound(v)
  BY ViewsAreSound
<1>2. p \in Plans /\ PassesOver(c, p)
  BY <1>1, BumpIsLegal, BumpPassesOver
<1>3. Decided(v, plan, b) = IF room <= 0 THEN p ELSE Serve(b, p, room)
  BY DEF Decided
<1>4. b.id # c /\ b.agent # "crew_legality"
  BY HoldersAreOthers
<1> HIDE DEF p, room
<1>5. PassesOver(c, Serve(b, p, room))
  <2> DEFINE k == IF Len(b.wish) < room THEN Len(b.wish) ELSE room
             o == Op("grant", b.id, ToSet(FirstN(b.wish, k)))
             q == Serve(b, p, room)
  <2>1. o.claim # c
    BY <1>4 DEF Op
  <2>2. q = [p EXCEPT !.free[b.resource] = @ - k, !.ops = Append(@, o), !.winners = @ \union {b.agent}]
    BY DEF Serve
  <2> HIDE DEF k, o
  <2>3. q.ops = Append(p.ops, o) /\ q.winners = p.winners \union {b.agent} /\ q.losers = p.losers
    BY <1>2, <2>2 DEF Plans
  <2> HIDE DEF q
  <2>4. p.ops \in Seq({x \in Ops \union {o} : x.claim # c})
    <3>1. p.ops \in Seq(Ops) /\ \A i \in 1..Len(p.ops) : p.ops[i].claim # c
      BY <1>2 DEF Plans, PassesOver
    <3> QED BY <3>1
  <2>5. q.ops \in Seq({x \in Ops \union {o} : x.claim # c})
    BY <2>1, <2>3, <2>4
  <2>6. \A i \in 1..Len(q.ops) : q.ops[i].claim # c
    BY <2>5
  <2>7. "crew_legality" \notin q.winners \union q.losers
    BY <1>2, <1>4, <2>3 DEF PassesOver
  <2> QED BY <2>6, <2>7 DEF PassesOver, q
<1> QED BY <1>2, <1>3, <1>5

\* A ruling on seats leaves a crew as it is.
LEMMA SeatRulingsPassOver ==
  ASSUME StormInv, Ledger!ClaimsMatchTheirSeals, CrewBids, VetoesAreOfCrews, condition # "single",
         Ready, NEW v, v = View, NEW c, IsUp(c), NEW ids, c \notin ids
  PROVE  PassesOver(c, RuleSeats(ids, v))
<1> DEFINE s == Disputed(v, ids)
           len == Len(s)
           X == {z \in Plans : PassesOver(c, z)}
           opposed == UNION {Contesters(v, d) : d \in ids}
<1>1. ViewIsSound(v)
  BY ViewsAreSound
<1>2. PICK f : RulesOnSeats(v, ids, f)
  BY <1>1, SeatRulingUnfolds
<1>3. len \in Nat /\ \A n \in 1..len : s[n] \in v.blocked /\ s[n].resource.kind = "seat"
  BY <1>1, DisputedAreBlocked
<1>4. /\ f \in [0..len -> Plans] /\ f[0] = NoPlan(v)
      /\ \A n \in 1..len : f[n] = Decided(v, f[n - 1], s[n])
      /\ RuleSeats(ids, v) = [ops |-> f[len].ops, winners |-> f[len].winners,
                              losers |-> f[len].losers \union (opposed \ f[len].winners)]
  BY <1>2 DEF RulesOnSeats
<1>5. "crew_legality" \notin opposed
  <2> SUFFICES ASSUME NEW d \in ids, "crew_legality" \in Contesters(v, d) PROVE FALSE
    OBVIOUS
  <2>1. PICK y \in v.contests : y.target = d /\ y.agent = "crew_legality"
    BY DEF Contesters
  <2>2. v.contests = {[agent |-> contests[x].agent, target |-> contests[x].target] : x \in OpenContests}
    BY DEF View
  <2>3. PICK x \in OpenContests : contests[x].agent = "crew_legality" /\ contests[x].target = d
    BY <2>1, <2>2
  <2>4. d \in ClaimId /\ IsCrewClaim(d)
    BY <2>3 DEF OpenContests, VetoesAreOfCrews
  <2>5. d = c
    BY <2>4, CrewIsClaimedOnce DEF IsUp, IsCrewClaim
  <2> QED BY <2>5
<1> HIDE DEF opposed, s
<1>6. f[0] \in X
  <2>1. f[0] \in Plans
    BY <1>3, <1>4
  <2>2. PassesOver(c, NoPlan(v))
    BY DEF PassesOver, NoPlan
  <2> QED BY <1>4, <2>1, <2>2
<1>7. ASSUME NEW k \in 1..len, f[k - 1] \in X PROVE f[k] \in X
  <2>1. f[k] \in Plans /\ f[k] = Decided(v, f[k - 1], s[k])
    BY <1>3, <1>4, <1>7
  <2>2. PassesOver(c, f[k])
    BY <1>3, <1>7, <2>1, DecidedPassesOver
  <2> QED BY <2>1, <2>2
<1> HIDE DEF X, len
<1>8. \A k \in 0..len : f[k] \in X
  BY <1>3, <1>6, <1>7, StaysIn
<1>9. PassesOver(c, f[len])
  BY <1>3, <1>8 DEF X
<1> QED BY <1>4, <1>5, <1>9 DEF PassesOver

\* A ruling takes the crew out of the manifest or leaves it as it is.
LEMMA RulingsOnCrews ==
  ASSUME StormInv, Ledger!ClaimsMatchTheirSeals, CrewBids, VetoesAreOfCrews,
         DeadlocksAreOnTheirs, condition # "single",
         Ready, NEW v, v = View, NEW c, IsUp(c), NEW d \in pending
  PROVE  \/ VoidedBy(c, Ruling(d, v).ops)
         \/ c \notin d.claims /\ PassesOver(c, Ruling(d, v))
<1>1. CASE \E r \in d.resources : r.kind = "crew"
  <2>1. Ruling(d, v) = RuleCrew(d.claims, v)
    BY <1>1 DEF Ruling
  <2>2. CASE c \in d.claims
    BY <2>1, <2>2, CrewRulingsVoid
  <2>3. CASE c \notin d.claims
    <3>1. /\ RuleCrew(d.claims, v).ops = <<>>
          /\ RuleCrew(d.claims, v).winners = {} /\ RuleCrew(d.claims, v).losers = {}
      BY <2>3, OtherCrewRulingsAreEmpty
    <3> QED BY <2>1, <2>3, <3>1 DEF PassesOver
  <2> QED BY <2>2, <2>3
<1>2. CASE ~\E r \in d.resources : r.kind = "crew"
  <2>1. Ruling(d, v) = RuleSeats(d.claims, v)
    BY <1>2 DEF Ruling
  <2>2. c \notin d.claims
    BY <1>2 DEF DeadlocksAreOnTheirs, IsUp, OnACrew
  <2> QED BY <2>1, <2>2, SeatRulingsPassOver
<1> QED BY <1>1, <1>2

\* A ruling with one more operation still voids what it voids.
LEMMA OneMoreStillVoids ==
  ASSUME NEW t \in Seq(Ops), NEW o \in Ops, NEW c, VoidedBy(c, t)
  PROVE  VoidedBy(c, Append(t, o))
<1>1. PICK i \in 1..Len(t) : t[i].op = "void" /\ t[i].claim = c
  BY DEF VoidedBy
<1>2. i \in 1..Len(Append(t, o)) /\ Append(t, o)[i] = t[i]
  OBVIOUS
<1> QED BY <1>1, <1>2 DEF VoidedBy

\* The fiat voids a crew that is challenged.
LEMMA FiatVoidsCrews ==
  ASSUME StormInv, Ledger!ClaimsMatchTheirSeals, CrewBids, condition # "single",
         Ready, NEW v, v = View, NEW c, IsUp(c),
         NEW x \in OpenContests, contests[x].target = c
  PROVE  VoidedBy(c, FiatRuling(v).ops)
<1> DEFINE s == ByProtection(v.blocked)
           len == Len(s)
           X == {z \in FiatPlans : VoidedBy(c, z.ops)}
<1>1. ViewIsSound(v)
  BY ViewsAreSound
<1>2. PICK f : RulesByFiat(v, f)
  BY <1>1, FiatUnfolds
<1>3. len \in Nat /\ \A n \in 1..len : s[n] \in v.blocked
  BY <1>1, BlockedAreListed
<1>4. /\ f \in [0..len -> FiatPlans] /\ f[0] = CrewFiat(v)
      /\ \A n \in 1..len : f[n] = SettledByFiat(f[n - 1], s[n])
      /\ FiatRuling(v).ops = f[len].ops
  BY <1>2 DEF RulesByFiat
<1> HIDE DEF s
<1>5. VoidedBy(c, CrewFiat(v).ops)
  <2> DEFINE S == Illegal(v, Challenged(v))
             r == Record(c)
  <2>1. r.id = c /\ r \in CrewRecords(v) /\ ~MayFly(v, r)
    BY CrewsMayNotFly
  <2>2. [agent |-> contests[x].agent, target |-> contests[x].target] \in v.contests
    BY DEF View
  <2>3. contests[x].agent \in Contesters(v, c)
    BY <2>2 DEF Contesters
  <2>4. r \in S
    BY <2>1, <2>3 DEF Illegal, Challenged
  <2>5. S \subseteq v.granted
    BY DEF Illegal, Challenged, CrewRecords
  <2>6. CrewFiat(v).ops = Voids(S)
    BY DEF CrewFiat
  <2> HIDE DEF S, r
  <2> QED BY <1>1, <2>1, <2>4, <2>5, <2>6, EveryoneIsVoided DEF VoidedBy
<1>6. f[0] \in X
  BY <1>3, <1>4, <1>5
<1>7. ASSUME NEW k \in 1..len, f[k - 1] \in X PROVE f[k] \in X
  <2> DEFINE last == f[k - 1]
             b == s[k]
             room == last.free[b.resource]
             n == IF Len(b.wish) < room THEN Len(b.wish) ELSE room
             void == Op("void", b.id, {})
             grant == Op("grant", b.id, ToSet(FirstN(b.wish, n)))
  <2>1. last \in FiatPlans /\ VoidedBy(c, last.ops)
    BY <1>7
  <2>2. f[k] \in FiatPlans /\ f[k] = SettledByFiat(last, b)
    BY <1>3, <1>4
  <2>3. b \in v.blocked
    BY <1>3
  <2>4. b \in Shown /\ b.resource \in registered /\ b.id \in ClaimId
    BY <1>1, <2>3 DEF ViewIsSound, Shown
  <2>5. room \in Int /\ last.ops \in Seq(Ops)
    BY <2>1, <2>4 DEF FiatPlans
  <2>6. void \in Ops /\ grant \in Ops
    BY <1>1, <2>3, <2>4, <2>5, OpIsLegal, ServeIsLegal
  <2>7. f[k].ops = Append(last.ops, void) \/ f[k].ops = Append(last.ops, grant)
    <3>1. CASE room <= 0
      <4>1. f[k] = [last EXCEPT !.ops = Append(@, void)]
        BY <2>2, <3>1 DEF SettledByFiat
      <4> QED BY <2>1, <4>1 DEF FiatPlans
    <3>2. CASE ~(room <= 0)
      <4>1. f[k] = [last EXCEPT !.free[b.resource] = @ - n, !.ops = Append(@, grant),
                                !.winners = @ \union {b.agent}]
        BY <2>2, <3>2 DEF SettledByFiat, Serve
      <4> HIDE DEF n, grant
      <4> QED BY <2>1, <4>1 DEF FiatPlans
    <3> QED BY <3>1, <3>2
  <2> HIDE DEF last, void, grant
  <2>8. VoidedBy(c, f[k].ops)
    BY <2>1, <2>5, <2>6, <2>7, OneMoreStillVoids
  <2> QED BY <2>2, <2>8
<1> HIDE DEF X, len
<1>8. \A k \in 0..len : f[k] \in X
  BY <1>3, <1>6, <1>7, StaysIn
<1> QED BY <1>3, <1>4, <1>8 DEF X


(* A crew is contested before anything else can be done about it *)
-----------------------------------------------------------------------------
(* The veto is filed, and kept until the ruling that voids the crew *)

Vetoed(c) ==
  \E x \in OpenContests : contests[x].agent = "crew_legality" /\ contests[x].target = c

ToBeVetoed(c) == \E i \in 1..Len(script) : script[i].stance = "block" /\ script[i].target = c

\* The agent's veto is on the script, and it has the stake for it.
VetoDue(c) ==
  /\ round = 1 /\ phase = "positions" /\ turn = 1 /\ asked
  /\ NoVetoes /\ ToBeVetoed(c)

\* The ruling in hand is about other claims, and no contest of the agent's closes
\* with it.
LeftAlone(c) ==
  /\ ~Final
  /\ c \notin ruling.touched
  /\ \A i \in 1..Len(script) : script[i].claim # c
  /\ "crew_legality" \notin named.winners \union named.losers

\* The veto stays open until the crew is out of the manifest.
VetoStands(c) ==
  /\ Vetoed(c)
  /\ phase = "ops" => VoidedBy(c, script) \/ LeftAlone(c)
  /\ phase = "settle" => c \notin ruling.touched /\ verdict["crew_legality"] = "none" /\ ~Final
  /\ phase = "sweep" => ~HasMediator

\* In the round it is claimed, the crew is contested by the agent's next answer.
LEMMA AnswersVeto ==
  ASSUME StormInv, RunGoesOn, RoomsInv, Ledger!ClaimsMatchTheirSeals, CrewBids, StormNext,
         condition # "single", NotYetSeen, NoVetoes, NEW c, IsUp(c)
  PROVE  NotYetSeen' \/ VetoDue(c)'
<1>1. CASE NotYetSeen'
  BY <1>1
<1>2. CASE ~NotYetSeen'
  <2>1. Consult /\ phase = "positions" /\ turn = 1 /\ ~asked
    BY <1>2, SeeingTakesAnAnswer
  <2>2. round = 1
    BY DEF NotYetSeen
  <2>3. Speaker = "crew_legality"
    BY <2>1, <2>2, FirstSpeakers, RunIsOn
  <2>4. /\ script' = CrewLegalityResponds(View) /\ asked'
        /\ UNCHANGED <<phase, round, turn, contests>>
    BY <2>1, <2>3 DEF Consult, Positions, vars, engineVars, bankVars
  <2>5. ViewIsSound(View)
    BY ViewsAreSound
  <2>6. /\ Record(c).id = c /\ Record(c) \in CrewRecords(View)
        /\ View.sc.duty[Record(c).wish[1]] < FerryRequiredDuty /\ Record(c).agent = "rebooking"
    BY CrewsMayNotFly
  <2>7. ~IContest(View, "crew_legality", c)
    <3> SUFFICES ASSUME [agent |-> "crew_legality", target |-> c] \in View.contests PROVE FALSE
      BY DEF IContest
    <3>1. PICK x \in OpenContests :
            [agent |-> "crew_legality", target |-> c]
              = [agent |-> contests[x].agent, target |-> contests[x].target]
      BY DEF View
    <3>2. contests[x].agent = "crew_legality"
      BY <3>1
    <3> QED BY <3>2 DEF NoVetoes, OpenContests
  <2>8. Record(c) \in IllegalCrew(View)
    BY <2>6, <2>7 DEF IllegalCrew, CrewClaims, CrewRecords
  <2> DEFINE s == CrewLegalityResponds(View)
  <2>9. \E i \in 1..Len(s) : s[i].stance = "block" /\ s[i].target = c
    BY <2>5, <2>6, <2>8, CrewLegalityRespondsTyped
  <2> HIDE DEF s
  <2>10. \E i \in 1..Len(script') : script'[i].stance = "block" /\ script'[i].target = c
    BY <2>4, <2>9 DEF s
  <2> QED BY <2>1, <2>2, <2>4, <2>10 DEF VetoDue, ToBeVetoed, NoVetoes
<1> QED BY <1>1, <1>2

\* An agent that has not contested anything has its whole budget.
LEMMA StakesAreThere ==
  ASSUME StormInv, NoVetoes
  PROVE  /\ "crew_legality" \in Account /\ Bank!CanContest("crew_legality")
         /\ \A t : ~Bank!HasOpen("crew_legality", t)
<1> DEFINE a == "crew_legality"
<1>1. a \in Account /\ Budget[a] = 100 /\ ContestCost \in Nat /\ ContestCost <= 100 /\ Premium \in Nat
  <2>1. "crew_legality" \in ToSet(AgentOrder)
    <3>1. AgentOrder[2] = "crew_legality" /\ 2 \in DOMAIN AgentOrder
      BY DEF AgentOrder
    <3> QED BY <3>1 DEF ToSet
  <2> QED BY <2>1, AirlineAssumption, PurseAssumption, BankAssumption DEF TarmacAccounts, Budgets
<1>2. Bank!BankTypeOK /\ Bank!BalanceIsAccountedFor
  BY BankFacts DEF StormInv
<1>3. \A s : s # "absent" => Bank!In(a, s) = {}
  BY DEF NoVetoes, Bank!In
<1>4. Bank!Cardinality({}) = 0
  BY SameCardinality, FS_EmptySet
<1>5. Bank!In(a, "open") = {} /\ Bank!In(a, "lost") = {} /\ Bank!In(a, "won") = {}
  BY <1>3
<1>6. balance[a] + ContestCost * (0 + 0) = Budget[a] + Premium * 0
  BY <1>1, <1>2, <1>4, <1>5 DEF Bank!BalanceIsAccountedFor
<1>7. balance[a] \in Nat
  BY <1>1, <1>2 DEF Bank!BankTypeOK
<1>8. ContestCost * (0 + 0) = 0 /\ Premium * 0 = 0
  BY <1>1
<1>9. balance[a] >= ContestCost
  BY <1>1, <1>6, <1>7, <1>8
<1> QED BY <1>1, <1>5, <1>9 DEF Bank!CanContest, Bank!HasOpen

\* The veto that is due is filed, or is still due.
LEMMA VetoesAreFiled ==
  ASSUME StormInv, RunGoesOn, Ledger!ClaimsMatchTheirSeals, CrewBids, VetoesAreOfCrews, StormNext,
         condition # "single", NEW c, IsUp(c), VetoDue(c)
  PROVE  VetoDue(c)' \/ VetoStands(c)'
<1> DEFINE p == Head(script)
<1>1. round = 1 /\ phase = "positions" /\ turn = 1 /\ asked /\ NoVetoes
  BY DEF VetoDue
<1>2. script \in Seq(Stands)
  BY <1>1 DEF StormInv, ScriptIsLegal
<1>3. PICK i \in 1..Len(script) : script[i].stance = "block" /\ script[i].target = c
  BY DEF VetoDue, ToBeVetoed
<1>4. script # <<>>
  BY <1>3
<1>5. TakePosition
  <2>1. ~Engine
    BY <1>1, EnginePhases
  <2> QED BY <1>1, <1>4, <2>1 DEF StormNext, Register, StartSociety, Consult, File, TurnOver,
       Mediate, MediateAtTheCap, Rule, Fiat, ApplyNext, ApplyDone, EndOps, RulingOp,
       StartPlanner, PlanFirst, PlanSeats, SeatNext, EndPlan
<1>6. Speaker = "crew_legality"
  BY <1>1, FirstSpeakers, RunIsOn
<1>7. /\ asked' = asked /\ script' = Tail(script) /\ UNCHANGED <<round, turn>>
      /\ phase' \in {"positions", "aborted"}
  BY <1>5, PositionsAreTaken
<1>8. phase' = "positions"
  BY <1>5, <1>7, TakePositionGoesOn DEF RunGoesOn
<1>9. 1 \in 1..Len(script) /\ p = script[1] /\ Len(Tail(script)) = Len(script) - 1 /\ Len(script) \in Nat
      /\ \A j \in 1..Len(script) - 1 : Tail(script)[j] = script[j + 1] /\ j + 1 \in 1..Len(script)
  BY <1>2, <1>4, FirstAndRest
<1> HIDE DEF p
<1>10. CASE p.stance = "block"
  <2>1. p.target = c
    <3>1. p.target \in ClaimId /\ IsCrewClaim(p.target)
      BY <1>1, <1>6, <1>9, <1>10 DEF VetoesAreOfCrews
    <3> QED BY <3>1, CrewIsClaimedOnce DEF IsUp, IsCrewClaim
  <2>2. Contestable(c)
    <3>1. claims[c].agent = "rebooking"
      BY CrewsMayNotFly
    <3> QED BY <1>6, <3>1 DEF Contestable, IsUp, Ledger!Granted
  <2>3. FileBlock(c)
    BY <1>5, <1>10, <2>1, <2>2 DEF TakePosition, p
  <2>4. /\ contestSeq < MaxContests /\ contestSeq' = contestSeq + 1
        /\ contests' = [contests EXCEPT ![contestSeq'] =
             [agent |-> "crew_legality", target |-> c, status |-> "open"]]
    BY <1>1, <1>6, <2>3, StakesAreThere DEF FileBlock, Bank!OpenContest
  <2>5. PICK n : n = contestSeq + 1
    OBVIOUS
  <2>6. n \in Bank!ContestId /\ contests = [x \in Bank!ContestId |-> contests[x]]
    <3>1. Bank!BankTypeOK
      BY BankFacts DEF StormInv
    <3>2. contestSeq \in Nat /\ MaxContests \in Nat
      BY <3>1, BankAssumption DEF Bank!BankTypeOK
    <3> QED BY <2>4, <2>5, <3>1, <3>2, ContestRows DEF Bank!ContestId
  <2>7. contests'[n] = [agent |-> "crew_legality", target |-> c, status |-> "open"]
    BY <2>4, <2>5, <2>6
  <2>8. Vetoed(c)'
    BY <2>6, <2>7 DEF Vetoed, OpenContests
  <2> QED BY <1>8, <2>8 DEF VetoStands
<1>11. CASE p.stance # "block"
  <2>1. UNCHANGED bankVars
    BY <1>5, <1>11 DEF TakePosition, FileYield, FileNote, p
  <2>2. i # 1 /\ i - 1 \in 1..Len(script) - 1 /\ (i - 1) + 1 = i
    BY <1>3, <1>9, <1>11
  <2>3. i - 1 \in 1..Len(script') /\ script'[i - 1] = script[i]
    BY <1>7, <1>9, <2>2
  <2>4. ToBeVetoed(c)'
    BY <1>3, <2>3 DEF ToBeVetoed
  <2>5. NoVetoes'
    BY <1>1, <2>1 DEF NoVetoes, bankVars
  <2> QED BY <1>1, <1>7, <1>8, <2>4, <2>5 DEF VetoDue
<1> QED BY <1>10, <1>11

\* Where a ruling, its settlement and the last sweep come from.
LEMMA RulingsComeFrom ==
  ASSUME StormInv, StormNext, condition # "single"
  PROVE  /\ phase' = "ops" => Mediate \/ MediateAtTheCap \/ ApplyNext
         /\ phase' = "settle" => ApplyDone \/ \E x \in settling : SettleContest(x)
         /\ phase' = "sweep" =>
              \/ EndSettlement /\ Final
              \/ SafetyFinalize
              \/ phase = "sweep" /\ UNCHANGED setting
<1> USE DEF Goto, engineVars
<1>0. phase \notin {"plan", "seats"} /\ (asked => phase \in {"propose", "positions", "aborted"})
  BY NotNegotiated DEF StormInv, StageIsSet
<1>1. CASE Register \/ StartSociety \/ File
  BY <1>1 DEF Register, StartSociety, File, Propose
<1>2. CASE TakePosition
  BY <1>2, PositionsAreTaken
<1>3. CASE TurnOver
  BY <1>3, TurnsGoRound
<1>4. CASE Consult
  BY <1>4 DEF Consult, vars
<1>5. CASE Mediate \/ MediateAtTheCap \/ ApplyDone
  BY <1>5 DEF Mediate, MediateAtTheCap, Decree, ApplyDone, EndOps
<1>6. CASE ApplyNext
  BY <1>6 DEF ApplyNext, RulingOp
<1>7. CASE Engine
  <2>1. CASE RevealNext \/ EndReveals \/ ScanRound \/ EndRulings \/ EndRound \/ SafetyFinalize \/ EndContestSweep \/ EndSweep
    BY <2>1 DEF RevealNext, EndReveals, ScanRound, EndRulings, EndRound, SafetyFinalize, EndContestSweep, EndSweep
  <2>2. CASE EndSettlement
    BY <2>2 DEF EndSettlement
  <2>3. ASSUME NEW x \in settling, SettleContest(x) PROVE phase = "settle" /\ phase' = phase
    BY <2>3 DEF SettleContest
  <2>4. ASSUME NEW x, SweepContest(x) PROVE phase = "sweep" /\ phase' = phase /\ UNCHANGED setting
    BY <2>4 DEF SweepContest
  <2>5. ASSUME NEW x, SweepClaim(x) PROVE phase = "clear" /\ phase' = phase
    BY <2>5 DEF SweepClaim
  <2> QED BY <1>7, <2>1, <2>2, <2>3, <2>4, <2>5 DEF Engine
<1>8. CASE StartPlanner \/ PlanFirst \/ PlanSeats \/ SeatNext \/ EndPlan
  BY <1>0, <1>8 DEF StartPlanner, PlanFirst, PlanSeats, SeatNext, EndPlan
<1> QED BY <1>1, <1>2, <1>3, <1>4, <1>5, <1>6, <1>7, <1>8 DEF StormNext
-----------------------------------------------------------------------------
(* A veto that stands goes on standing *)

\* A veto closes when its turn comes in a settlement, or in the last sweep.
LEMMA VetoesCloseBy ==
  ASSUME StormInv, StormNext, condition # "single", NEW x \in Bank!ContestId, Closes(x)
  PROVE  \/ phase = "settle" /\ Settlement(x) /\ ~UNCHANGED bankVars
         \/ phase = "sweep" /\ SweepContest(x)
<1>0. phase \in {"settle", "sweep"} /\ contests'[x] # contests[x]
  BY DEF Closes
<1>1. ~UNCHANGED bankVars
  BY <1>0 DEF bankVars
<1>2. asked => phase \in {"propose", "positions", "aborted"}
  BY DEF StormInv, StageIsSet
<1>3. Engine
  BY <1>0, <1>2 DEF StormNext, Register, StartSociety, Consult, File, TakePosition, TurnOver,
     Mediate, MediateAtTheCap, Rule, Fiat, ApplyNext, ApplyDone, EndOps, RulingOp,
     StartPlanner, PlanFirst, PlanSeats, SeatNext, EndPlan
<1>4. Bank!BankTypeOK
  BY BankFacts DEF StormInv
<1>5. ASSUME NEW y \in settling, SettleContest(y)
      PROVE  phase = "settle" /\ Settlement(x)
  <2>1. phase = "settle" /\ Settlement(y)
    BY <1>5 DEF SettleContest
  <2>2. y \in Bank!ContestId /\ contests[y].status = "open"
    BY DEF StormInv, StageIsSet, EngineHolds, SettlementIsOnItsWay, OpenContests
  <2>3. Bank!Settle(y, TRUE) \/ Bank!Settle(y, FALSE) \/ Bank!VoidContest(y)
    BY <1>1, <2>1 DEF Settlement
  <2>4. \A z \in Bank!ContestId : z # y => contests'[z] = contests[z]
    BY <1>4, <2>1, <2>2, <2>3, ClosingContests
  <2>5. x = y
    BY <1>0, <2>4
  <2> QED BY <2>1, <2>5
<1>6. ASSUME NEW y \in settling, SweepContest(y)
      PROVE  phase = "sweep" /\ SweepContest(x)
  <2>1. phase = "sweep" /\ Bank!VoidContest(y)
    BY <1>6 DEF SweepContest
  <2>2. y \in Bank!ContestId /\ contests[y].status = "open"
    BY <2>1, SweepLists
  <2>3. \A z \in Bank!ContestId : z # y => contests'[z] = contests[z]
    BY <1>4, <2>1, <2>2, ClosingContests
  <2>4. x = y
    BY <1>0, <2>3
  <2> QED BY <1>6, <2>1, <2>4
<1>7. ASSUME NEW c, SweepClaim(c) PROVE FALSE
  BY <1>1, <1>7 DEF SweepClaim
<1>8. CASE RevealNext \/ EndReveals \/ ScanRound \/ EndRulings
  BY <1>1, <1>8 DEF RevealNext, EndReveals, ScanRound, EndRulings
<1>9. CASE EndSettlement \/ EndRound \/ SafetyFinalize \/ EndContestSweep \/ EndSweep
  BY <1>1, <1>9 DEF EndSettlement, EndRound, SafetyFinalize, EndContestSweep, EndSweep
<1> QED BY <1>1, <1>3, <1>5, <1>6, <1>7, <1>8, <1>9 DEF Engine

\* A granted claim that is voided is no longer granted.
LEMMA VoidedIsDown ==
  ASSUME StormInv, NEW c \in ClaimId, claims[c].status = "granted", Ledger!VoidClaim(c)
  PROVE  claims'[c].status = "voided"
<1>1. Ledger!TypeOK
  BY LedgerFacts DEF StormInv
<1>2. Ledger!SetStatus(c, "voided")
  BY DEF Ledger!VoidClaim, Ledger!HasClaim, Ledger!ClaimId, ClaimId
<1>3. claims[c] \in Ledger!Claim /\ c \in DOMAIN claims
  BY <1>1 DEF Ledger!TypeOK, Ledger!NoClaim, Ledger!ClaimId, ClaimId
<1> QED BY <1>2, <1>3 DEF Ledger!SetStatus, Ledger!Claim

\* The veto of a crew that stays in the manifest stays open.
LEMMA VetoIsKept ==
  ASSUME StormInv, StormNext, condition # "single", NEW c, IsUp(c), VetoStands(c),
         claims'[c].status = "granted"
  PROVE  Vetoed(c)'
<1>1. PICK x \in OpenContests : contests[x].agent = "crew_legality" /\ contests[x].target = c
  BY DEF VetoStands, Vetoed
<1>2. x \in Bank!ContestId /\ contests[x].status = "open" /\ c \in ClaimId
  BY <1>1 DEF OpenContests, IsUp
<1>3. ~Closes(x)
  <2> SUFFICES ASSUME Closes(x) PROVE FALSE
    OBVIOUS
  <2>1. CASE phase = "settle" /\ Settlement(x) /\ ~UNCHANGED bankVars
    <3>1. verdict["crew_legality"] = "none" /\ c \notin ruling.touched
      BY <2>1 DEF VetoStands
    <3> QED BY <1>1, <2>1, <3>1 DEF Settlement
  <2>2. CASE phase = "sweep" /\ SweepContest(x)
    <3>1. ~HasMediator
      BY <2>2 DEF VetoStands
    <3>2. Ledger!VoidClaim(c)
      BY <1>1, <2>2, <3>1 DEF SweepContest, IsUp, Ledger!Granted
    <3>3. claims'[c].status = "voided"
      BY <1>2, <3>2, VoidedIsDown DEF IsUp
    <3> QED BY <3>3
  <2> QED BY <1>2, <2>1, <2>2, VetoesCloseBy
<1>4. contests'[x] = contests[x]
  BY <1>2, <1>3, ContestsGoOn DEF Opens
<1> QED BY <1>1, <1>2, <1>4 DEF Vetoed, OpenContests

\* A ruling that is made or applied voids the crew or goes on leaving it alone.
LEMMA RulingsGoOn ==
  ASSUME StormInv, RunGoesOn, Ledger!ClaimsMatchTheirSeals, CrewBids, VetoesAreOfCrews,
         DeadlocksAreOnTheirs, StormNext, condition # "single",
         NEW c, IsUp(c), VetoStands(c), claims'[c].status = "granted", phase' = "ops"
  PROVE  (VoidedBy(c, script) \/ LeftAlone(c))'
<1>1. ControlIsTyped
  BY RunIsOn
<1>2. CASE Mediate
  <2>1. PICK d \in pending : Rule(d) /\ Decree(Ruling(d, View))
    BY <1>2 DEF Mediate
  <2> DEFINE r == Ruling(d, View)
  <2>2. Ready /\ phase = "rule"
    BY <2>1, Negotiated DEF Rule
  <2>3. VoidedBy(c, r.ops) \/ (c \notin d.claims /\ PassesOver(c, r))
    <3>1. PICK v : v = View
      OBVIOUS
    <3> QED BY <2>2, <3>1, RulingsOnCrews
  <2>4. /\ script' = r.ops /\ named' = [winners |-> r.winners, losers |-> r.losers]
        /\ phase' = "ops"
    BY <2>1 DEF Decree
  <2> HIDE DEF r
  <2>5. ruling'.touched = d.claims /\ UNCHANGED <<round, setting>>
    BY <2>1, <2>2, <2>4 DEF Rule
  <2>6. ~Final'
    <3>1. round <= MaxRounds /\ round \in Int /\ MaxRounds \in Int
      BY <1>1, <2>2 DEF ControlIsTyped, Early, Setting, MaxRounds
    <3>2. ~(round > MaxRounds)
      BY <3>1
    <3> QED BY <2>5, <3>2 DEF Final, MaxRounds
  <2>7. ASSUME VoidedBy(c, r.ops) PROVE VoidedBy(c, script)'
    BY <2>4, <2>7 DEF VoidedBy
  <2>8. ASSUME c \notin d.claims, PassesOver(c, r) PROVE LeftAlone(c)'
    <3>1. \A i \in 1..Len(script') : script'[i].claim # c
      BY <2>4, <2>8 DEF PassesOver
    <3>2. "crew_legality" \notin named'.winners \union named'.losers
      BY <2>4, <2>8 DEF PassesOver
    <3> QED BY <2>5, <2>6, <2>8, <3>1, <3>2 DEF LeftAlone
  <2> QED BY <2>3, <2>7, <2>8
<1>3. CASE MediateAtTheCap
  <2>1. phase = "finalize" /\ script' = FiatRuling(View).ops
    BY <1>3 DEF MediateAtTheCap, Fiat, Decree
  <2>2. Ready
    BY <2>1, Negotiated
  <2>3. PICK x \in OpenContests : contests[x].target = c
    BY DEF VetoStands, Vetoed
  <2>4. PICK v : v = View
    OBVIOUS
  <2>5. VoidedBy(c, FiatRuling(v).ops)
    BY <2>2, <2>3, <2>4, FiatVoidsCrews
  <2> QED BY <2>1, <2>4, <2>5 DEF VoidedBy
<1>4. CASE ApplyNext
  <2> DEFINE o == Head(script)
  <2>1. /\ o \in Ops /\ script \in Seq(Ops) /\ script # <<>> /\ script' = Tail(script)
    BY <1>4, OpsKeepOthers
  <2>2. /\ phase = "ops" /\ RulingOp(o.op, o.claim, Ledger!Listing(o.bens)) /\ UNCHANGED named
    BY <1>4 DEF ApplyNext
  <2>3. /\ 1 \in 1..Len(script) /\ o = script[1] /\ Len(script') = Len(script) - 1 /\ Len(script) \in Nat
        /\ \A i \in 1..Len(script) - 1 : script'[i] = script[i + 1] /\ i + 1 \in 1..Len(script)
    BY <2>1, FirstAndRest
  <2> HIDE DEF o
  <2>4. ~(o.op = "void" /\ o.claim = c)
    <3> SUFFICES ASSUME o.op = "void", o.claim = c PROVE FALSE
      OBVIOUS
    <3>1. Ledger!VoidClaim(c)
      BY <2>2 DEF RulingOp, ApplyOp
    <3>2. claims'[c].status = "voided"
      BY <3>1, VoidedIsDown DEF IsUp
    <3> QED BY <3>2
  <2>5. ASSUME VoidedBy(c, script) PROVE VoidedBy(c, script)'
    <3>1. PICK i \in 1..Len(script) : script[i].op = "void" /\ script[i].claim = c
      BY <2>5 DEF VoidedBy
    <3>2. i # 1
      BY <2>3, <2>4, <3>1
    <3>3. i - 1 \in 1..Len(script) - 1 /\ i - 1 \in 1..Len(script') /\ (i - 1) + 1 = i
      BY <2>3, <3>2
    <3>4. script'[i - 1] = script[i]
      BY <2>3, <3>3
    <3> QED BY <3>1, <3>3, <3>4 DEF VoidedBy
  <2>6. ASSUME LeftAlone(c) PROVE LeftAlone(c)'
    <3>1. o.claim # c
      BY <2>3, <2>6 DEF LeftAlone
    <3>2. ruling'.touched \subseteq ruling.touched \union {o.claim} /\ UNCHANGED <<round, setting>>
      <4> DEFINE T == ruling.touched \union {o.claim}
      <4>1. ruling' = [ruling EXCEPT !.touched = T] /\ UNCHANGED <<round, setting>>
        BY <2>2 DEF RulingOp, engineVars
      <4> QED BY <4>1
    <3>3. c \notin ruling'.touched
      BY <2>6, <3>1, <3>2 DEF LeftAlone
    <3>4. \A i \in 1..Len(script') : script'[i].claim # c
      BY <2>3, <2>6 DEF LeftAlone
    <3> QED BY <2>2, <2>6, <3>2, <3>3, <3>4 DEF LeftAlone, Final, MaxRounds
  <2> QED BY <2>2, <2>5, <2>6 DEF VetoStands
<1> QED BY <1>2, <1>3, <1>4, RulingsComeFrom

\* While the crew is in the manifest, no step takes the veto away.
LEMMA VetoesStand ==
  ASSUME StormInv, RunGoesOn, Ledger!ClaimsMatchTheirSeals, CrewBids, VetoesAreOfCrews,
         DeadlocksAreOnTheirs, StormNext, condition # "single",
         NEW c, IsUp(c), VetoStands(c), claims'[c].status = "granted"
  PROVE  VetoStands(c)'
<1>1. Vetoed(c)'
  BY VetoIsKept
<1>2. phase' = "ops" => (VoidedBy(c, script) \/ LeftAlone(c))'
  BY RulingsGoOn
<1>3. ASSUME phase' = "settle"
      PROVE  c \notin ruling'.touched /\ verdict'["crew_legality"] = "none" /\ ~Final'
  <2>1. CASE ApplyDone
    <3>1. /\ phase = "ops" /\ script = <<>> /\ UNCHANGED <<ruling, round, setting>>
          /\ verdict' = [a \in Agent |-> VerdictOn(a)]
      BY <2>1 DEF ApplyDone, EndOps
    <3>2. LeftAlone(c)
      BY <3>1 DEF VetoStands, VoidedBy
    <3>3. "crew_legality" \in Agent /\ VerdictOn("crew_legality") = "none"
      BY <3>2, RolesAreAgents DEF VerdictOn, LeftAlone
    <3> QED BY <3>1, <3>2, <3>3 DEF LeftAlone, Final, MaxRounds
  <2>2. ASSUME NEW x \in settling, SettleContest(x)
        PROVE  c \notin ruling'.touched /\ verdict'["crew_legality"] = "none" /\ ~Final'
    <3>1. phase = "settle" /\ UNCHANGED <<ruling, verdict, round, setting>>
      BY <2>2 DEF SettleContest, engineVars
    <3> QED BY <3>1 DEF VetoStands, Final, MaxRounds
  <2> QED BY <1>3, <2>1, <2>2, RulingsComeFrom
<1>4. ASSUME phase' = "sweep" PROVE ~HasMediator'
  <2>1. CASE EndSettlement /\ Final
    BY <2>1 DEF EndSettlement, VetoStands
  <2>2. CASE SafetyFinalize
    BY <2>2 DEF SafetyFinalize, HasMediator
  <2>3. CASE phase = "sweep" /\ UNCHANGED setting
    BY <2>3 DEF VetoStands, HasMediator
  <2> QED BY <1>4, <2>1, <2>2, <2>3, RulingsComeFrom
<1> QED BY <1>1, <1>2, <1>3, <1>4 DEF VetoStands
-----------------------------------------------------------------------------
(* No illegal crew flies *)

\* A granted crew is one the legality agent has not been shown yet, or contests
\* in its next position, or has contested.
CrewsAreGrounded == \A c \in ClaimId : IsUp(c) => NotYetSeen \/ VetoDue(c) \/ VetoStands(c)

\* The inductive invariant: every part of it is needed by the last.
CrewInv ==
  condition # "single" =>
    /\ CrewBids
    /\ CrewClaimsAreNotBlocked
    /\ VetoesAreOfCrews
    /\ NotYetSeen => NoVetoes
    /\ DeadlocksAreOnTheirs
    /\ CrewsAreGrounded

\* No step lets a granted crew escape the veto.
LEMMA CrewsStayGrounded ==
  ASSUME StormInv, RunGoesOn, RoomsInv, Ledger!ClaimsMatchTheirSeals, StormNext,
         condition # "single", CrewInv
  PROVE  CrewsAreGrounded'
<1>0. /\ CrewBids /\ CrewClaimsAreNotBlocked /\ VetoesAreOfCrews /\ DeadlocksAreOnTheirs
      /\ NotYetSeen => NoVetoes
      /\ CrewsAreGrounded
  BY DEF CrewInv
<1> SUFFICES ASSUME NEW c \in ClaimId, claims'[c].status = "granted", OnACrew(claims'[c])
             PROVE  NotYetSeen' \/ VetoDue(c)' \/ VetoStands(c)'
  BY DEF CrewsAreGrounded, IsUp, OnACrew
<1>1. CASE claims[c].status = "absent"
  <2>1. phase = "reveal" /\ round = 1 /\ RevealNext
    BY <1>0, <1>1, NewCrewClaims
  <2>2. phase' # "aborted"
    BY <2>1, OthersGoOn DEF Consult, TakePosition
  <2>3. phase' = "reveal" /\ round' = 1
    BY <2>1, <2>2 DEF RevealNext, Goto
  <2> QED BY <2>3 DEF NotYetSeen
<1>2. CASE claims[c].status # "absent"
  <2>1. ClaimsStay /\ StatusesGoOn
    BY ClaimsGoOn, StormCallsTheLedger, LedgerFacts DEF StormInv
  <2>2. claims[c].status \in {"granted", "blocked"} /\ OnACrew(claims[c])
    BY <1>2, <2>1 DEF ClaimsStay, StatusesGoOn, OnACrew
  <2>3. IsUp(c)
    BY <1>0, <2>2 DEF CrewClaimsAreNotBlocked, Blocked, IsUp
  <2>4. CASE NotYetSeen
    BY <1>0, <2>3, <2>4, AnswersVeto
  <2>5. CASE VetoDue(c)
    BY <1>0, <2>3, <2>5, VetoesAreFiled
  <2>6. CASE VetoStands(c)
    BY <1>0, <2>3, <2>6, VetoesStand
  <2> QED BY <1>0, <2>3, <2>4, <2>5, <2>6 DEF CrewsAreGrounded
<1> QED BY <1>1, <1>2

\* Every step keeps the invariant.
LEMMA CrewStep ==
  ASSUME StormInv, RunGoesOn, RoomsInv, Ledger!ClaimsMatchTheirSeals, StormNext, CrewInv
  PROVE  CrewInv'
<1>1. condition' = condition
  BY DEF StormNext, Register, StartSociety, Done, Idle, Consult, File, TakePosition, TurnOver,
     Mediate, MediateAtTheCap, Decree, ApplyNext, ApplyDone, Engine, StartPlanner, PlanFirst,
     PlanSeats, SeatNext, EndPlan, stormVars
<1> SUFFICES ASSUME condition # "single"
             PROVE  /\ CrewBids' /\ CrewClaimsAreNotBlocked' /\ VetoesAreOfCrews'
                    /\ NotYetSeen' => NoVetoes'
                    /\ DeadlocksAreOnTheirs' /\ CrewsAreGrounded'
  BY <1>1 DEF CrewInv
<1>2. CrewBids /\ CrewClaimsAreNotBlocked /\ VetoesAreOfCrews /\ DeadlocksAreOnTheirs
      /\ (NotYetSeen => NoVetoes)
  BY DEF CrewInv
<1>3. CrewBids'
  BY <1>2, CrewBidsStep
<1>4. CrewClaimsAreNotBlocked'
  BY <1>2, CrewIsNotKeptWaiting
<1>5. VetoesAreOfCrews'
  BY <1>2, VetoesStayOnCrews
<1>6. NotYetSeen' => NoVetoes'
  BY <1>2, NoVetoUnseen
<1>7. DeadlocksAreOnTheirs'
  BY <1>2, DeadlocksStayOnTheirs
<1>8. CrewsAreGrounded'
  BY CrewsStayGrounded
<1> QED BY <1>3, <1>4, <1>5, <1>6, <1>7, <1>8

\* Before the first bid there is no claim, no contest and no deadlock.
LEMMA CrewsStartGrounded == StormInit => CrewInv
<1> SUFFICES ASSUME StormInit PROVE CrewInv
  OBVIOUS
<1>1. /\ phase = "setup" /\ round = 1 /\ turn = 0 /\ asked = FALSE /\ sealed = <<>> /\ commitSeq = 0
      /\ claims = [c \in ClaimId |-> Ledger!NoClaim]
      /\ contests = [x \in Bank!ContestId |-> Bank!NoContest]
      /\ pending = {}
  BY DEF StormInit, Init, Ledger!Init, Bank!BankInit, Detector!DetectorInit, ClaimId, Ledger!ClaimId
<1>2. CrewBids
  BY <1>1 DEF CrewBids
<1>3. \A c \in ClaimId : claims[c].status = "absent"
  BY <1>1 DEF Ledger!NoClaim
<1>4. CrewClaimsAreNotBlocked
  BY <1>3 DEF CrewClaimsAreNotBlocked, Blocked
<1>5. \A x \in Bank!ContestId : contests[x].status = "absent"
  BY <1>1 DEF Bank!NoContest
<1>6. VetoesAreOfCrews /\ NoVetoes
  BY <1>1, <1>5 DEF VetoesAreOfCrews, NoVetoes
<1>7. DeadlocksAreOnTheirs
  BY <1>1 DEF DeadlocksAreOnTheirs
<1>8. CrewsAreGrounded
  BY <1>3 DEF CrewsAreGrounded, IsUp
<1> QED BY <1>2, <1>4, <1>6, <1>7, <1>8 DEF CrewInv

\* The invariant is about the variables of the run.
LEMMA CrewInvStutters == CrewInv /\ UNCHANGED runVars => CrewInv'
<1> SUFFICES ASSUME CrewInv, UNCHANGED runVars PROVE CrewInv'
  OBVIOUS
<1>1. /\ UNCHANGED <<condition, phase, round, turn, asked, script, sealed, setting, named, ruling>>
      /\ UNCHANGED <<verdict, claims, contests, commitments, commitSeq, pending>>
  BY DEF runVars, vars, ledgerVars, bankVars, detectorVars, rulingVars, engineVars, stormVars
<1>2. Speaker' = Speaker /\ OpenContests' = OpenContests /\ Final' = Final
  BY <1>1 DEF Speaker, OpenContests, Final, MaxRounds
<1>3. CrewBids => CrewBids'
  BY <1>1, <1>2 DEF CrewBids
<1>4. CrewClaimsAreNotBlocked => CrewClaimsAreNotBlocked'
  BY <1>1 DEF CrewClaimsAreNotBlocked, Blocked
<1>5. VetoesAreOfCrews => VetoesAreOfCrews'
  BY <1>1, <1>2 DEF VetoesAreOfCrews, IsCrewClaim
<1>6. NoVetoes' = NoVetoes /\ NotYetSeen' = NotYetSeen
  BY <1>1 DEF NoVetoes, NotYetSeen
<1>7. DeadlocksAreOnTheirs => DeadlocksAreOnTheirs'
  BY <1>1 DEF DeadlocksAreOnTheirs
<1>8. ASSUME CrewsAreGrounded, NEW c \in ClaimId, IsUp(c)'
      PROVE  NotYetSeen' \/ VetoDue(c)' \/ VetoStands(c)'
  <2>1. IsUp(c)
    BY <1>1, <1>8 DEF IsUp
  <2>2. VetoDue(c) => VetoDue(c)'
    BY <1>1, <1>6 DEF VetoDue, ToBeVetoed
  <2>3. VetoStands(c) => VetoStands(c)'
    BY <1>1, <1>2 DEF VetoStands, Vetoed, VoidedBy, LeftAlone, HasMediator
  <2> QED BY <1>6, <1>8, <2>1, <2>2, <2>3 DEF CrewsAreGrounded
<1> QED BY <1>1, <1>3, <1>4, <1>5, <1>6, <1>7, <1>8 DEF CrewInv, CrewsAreGrounded

\* At the end no veto is open, so no crew is granted and none is in the manifest.
LEMMA GroundedCrewsDoNotFly ==
  ASSUME StormInv, CrewInv
  PROVE  NoIllegalCrewFlies
<1> SUFFICES ASSUME phase = "done", condition # "single", NEW u \in alloc, u.resource.kind = "crew"
             PROVE  FALSE
  BY DEF NoIllegalCrewFlies
<1>1. u.claim \in ClaimId /\ Ledger!Granted(u.claim) /\ claims[u.claim].resource = u.resource
  BY LedgerFacts DEF StormInv, Ledger!UnitsBelongToGrantedClaims, Ledger!TypeOK,
     Ledger!Allocation, Ledger!ClaimId, ClaimId
<1>2. IsUp(u.claim)
  BY <1>1 DEF IsUp, Ledger!Granted, OnACrew
<1>3. VetoStands(u.claim)
  BY <1>1, <1>2 DEF CrewInv, CrewsAreGrounded, NotYetSeen, VetoDue
<1>4. OpenContests = {}
  BY DEF StormInv, StageIsSet, EngineHolds, DoneIsDone
<1> QED BY <1>3, <1>4 DEF VetoStands, Vetoed

\* "Zero crew duty violations in the final manifest", with the mediator or without
\* it: the crew that rebooking is granted first is contested by the legality agent
\* as soon as it is shown the grant, and the contest stays open, whatever is ruled
\* on in between, until the crew is out of the manifest.
THEOREM IllegalCrewsDoNotFly == StormSpec => []NoIllegalCrewFlies
<1>1. StormInit => CrewInv
  BY CrewsStartGrounded
<1>2. /\ StormInv /\ RunGoesOn /\ RoomsInv /\ Ledger!ClaimsMatchTheirSeals /\ CrewInv
      /\ [StormNext]_runVars
      => CrewInv'
  BY CrewStep, CrewInvStutters
<1>3. StormInv /\ CrewInv => NoIllegalCrewFlies
  BY GroundedCrewsDoNotFly
<1> QED BY <1>1, <1>2, <1>3, RoomsInvIsInductive, RunGoesOnHolds, ClaimsAreSealed, StormInvHolds, PTL
     DEF StormSpec
-----------------------------------------------------------------------------
(* Open seats are asked for *)

\* In a list of passengers sorted by a number each is listed once.
LEMMA SortedByListsOnce ==
  ASSUME NEW S \in SUBSET Passenger, NEW key, \A p \in S : key[p] \in Int
  PROVE  LET s == SortedBy(S, key)
         IN  /\ s \in Seq(S)
             /\ \A x \in S : \E i \in 1..Len(s) : s[i] = x
             /\ \A i, j \in 1..Len(s) : s[i] = s[j] => i = j
<1> DEFINE s == SortedBy(S, key)
<1>1. /\ s \in Seq(S)
      /\ \A x \in S : \E i \in 1..Len(s) : s[i] = x
      /\ \A i, j \in 1..Len(s) : i < j <=> <<s[i], s[j]>> \in Earlier(S, key)
  BY SortedByIsInOrder
<1> HIDE DEF s
<1>2. \A x \in S : <<x, x>> \notin Earlier(S, key)
  <2>1. \A x \in S : key[x] \in Int /\ Place[x] \in Int
    BY PlacesAreIdentities
  <2> QED BY <2>1 DEF Earlier
<1>3. ASSUME NEW i \in 1..Len(s), NEW j \in 1..Len(s), s[i] = s[j] PROVE i = j
  <2>1. s[i] \in S /\ i \in Int /\ j \in Int
    BY <1>1
  <2>2. ~(i < j) /\ ~(j < i)
    BY <1>1, <1>2, <1>3, <2>1
  <2> QED BY <2>1, <2>2
<1> QED BY <1>1, <1>3 DEF s

\* The first n of a list that leaves nobody out are n, or everybody.
LEMMA FirstNAsksEnough ==
  ASSUME NEW S, NEW s \in Seq(S), NEW n \in Int, n >= 1,
         \A x \in S : \E i \in 1..Len(s) : s[i] = x,
         \A i, j \in 1..Len(s) : s[i] = s[j] => i = j,
         NEW x \in S
  PROVE  /\ FirstN(s, n) # <<>>
         /\ \/ x \in ToSet(FirstN(s, n))
            \/ Cardinality(ToSet(FirstN(s, n))) = n
<1>1. Len(s) \in Nat
  OBVIOUS
<1>2. PICK k \in 1..Len(s) : s[k] = x
  OBVIOUS
<1>3. FirstN(s, n) # <<>>
  <2>1. s # <<>>
    BY <1>2
  <2> QED BY <2>1, FirstNIsAStart
<1> DEFINE t == FirstN(s, n)
<1>4. CASE n < Len(s)
  <2>1. t = SubSeq(s, 1, n)
    BY <1>4 DEF FirstN
  <2>2. /\ 1..n \subseteq 1..Len(s) /\ n \in Nat
        /\ t \in Seq(S) /\ Len(t) = n /\ DOMAIN t = 1..n /\ \A i \in 1..n : t[i] = s[i]
    <3>1. n >= 1 /\ n <= Len(s) /\ Len(s) \in Nat /\ DOMAIN s = 1..Len(s)
      BY <1>1, <1>4
    <3>2. /\ 1..n \subseteq 1..Len(s)
          /\ t \in Seq(S) /\ Len(t) = n /\ \A i \in 1..n : t[i] = s[i]
      BY <2>1, <3>1
    <3> QED BY <3>1, <3>2
  <2> HIDE DEF t
  <2>3. ToSet(t) = {t[i] : i \in 1..n}
    BY <2>2 DEF ToSet
  <2>4. t \in [1..n -> ToSet(t)]
    <3>1. t = [i \in 1..n |-> t[i]]
      BY <2>2
    <3> QED BY <2>3, <3>1
  <2>5. t \in Bijection(1..n, ToSet(t))
    <3>1. \A i, j \in 1..n : t[i] = t[j] => i = j
      BY <2>2
    <3> QED BY <2>3, <2>4, <3>1 DEF Bijection, Injection, Surjection, IsInjective
  <2>6. IsFiniteSet(1..n) /\ Cardinality(1..n) = n
    BY <2>2, FS_Interval
  <2>7. Cardinality(ToSet(t)) = n
    <3> DEFINE D == 1..n
               T == ToSet(t)
    <3>1. IsFiniteSet(D) /\ Cardinality(D) = n /\ t \in Bijection(D, T)
      BY <2>5, <2>6
    <3> HIDE DEF D, T
    <3>2. ExistsBijection(D, T)
      BY <3>1 DEF ExistsBijection
    <3>3. Cardinality(T) = Cardinality(D)
      BY <3>1, <3>2, FS_Bijection
    <3> QED BY <3>1, <3>3 DEF T
  <2> QED BY <1>3, <2>7 DEF t
<1>5. CASE ~(n < Len(s))
  <2>1. t = SubSeq(s, 1, Len(s))
    BY <1>5 DEF FirstN
  <2>2. DOMAIN t = 1..Len(s) /\ t[k] = s[k]
    BY <1>1, <2>1
  <2> HIDE DEF t
  <2>3. x \in ToSet(t)
    BY <1>2, <2>2 DEF ToSet
  <2> QED BY <1>3, <2>3 DEF t
<1> QED BY <1>4, <1>5

\* One wave of a plan, and how far a plan may have got.
FillStep(v, wave, last) ==
  LET who == FirstN(Candidates(v, wave.flight, last.taken), wave.qty)
  IN IF who = <<>> THEN last
     ELSE [bids |-> Append(last.bids, Bid("rebooking", Seat(v.sc, wave.flight), who)),
           taken |-> last.taken \union ToSet(who)]

FillStates == [bids : Seq(BidsOf("rebooking", "seat")), taken : SUBSET Passenger]

LEMMA FillStepIsLegal ==
  ASSUME Ready, NEW v, ViewIsSound(v), NEW wave \in Wave, NEW last \in FillStates
  PROVE  FillStep(v, wave, last) \in FillStates
<1> DEFINE fl == wave.flight
           S == BidsOf("rebooking", "seat")
           c == Candidates(v, fl, last.taken)
           who == FirstN(c, wave.qty)
           b == Bid("rebooking", Seat(v.sc, fl), who)
<1>1. fl \in Flight /\ wave.qty \in Int
  BY DEF Wave
<1> HIDE DEF fl
<1>2. c \in Seq(Passenger) /\ \A p \in ToSet(c) : fl \in Legal(scenario, p)
  BY <1>1, CandidatesMayBoard
<1> HIDE DEF c
<1>3. who \in Seq(Passenger) /\ ToSet(who) \subseteq ToSet(c) /\ ToSet(who) \subseteq Passenger
  BY <1>1, <1>2, FirstNIsAStart
<1> HIDE DEF who
<1>4. CASE who = <<>>
  BY <1>4 DEF FillStep, who, c, fl
<1>5. CASE who # <<>>
  <2>1. "rebooking" \in Agent /\ v.sc = scenario
    BY RolesAreAgents DEF ViewIsSound
  <2>2. b \in S
    BY <1>1, <1>2, <1>3, <1>5, <2>1, SeatsForSomeMayBoard
  <2>3. last.bids \in Seq(S) /\ last.taken \in SUBSET Passenger
    BY DEF FillStates
  <2> HIDE DEF b, S
  <2>4. Append(last.bids, b) \in Seq(S) /\ last.taken \union ToSet(who) \in SUBSET Passenger
    BY <1>3, <2>2, <2>3
  <2>5. [bids |-> Append(last.bids, b), taken |-> last.taken \union ToSet(who)] \in FillStates
    BY <2>4 DEF FillStates, S
  <2> QED BY <1>5, <2>5 DEF FillStep, b, who, c, fl
<1> QED BY <1>4, <1>5

\* What a plan comes to, wave by wave.
FillsBy(f, v, plan) ==
  /\ f[0] = [bids |-> <<>>, taken |-> {}]
  /\ \A n \in 1..Len(plan) : f[n] = FillStep(v, plan[n], f[n - 1])
  /\ \A n \in 0..Len(plan) : f[n] \in FillStates

LEMMA FillUnfolds ==
  ASSUME Ready, NEW v, ViewIsSound(v), NEW plan \in Seq(Wave)
  PROVE  \E f : FillsBy(f, v, plan) /\ Fill(v, plan) = f[Len(plan)].bids
<1> DEFINE len == Len(plan)
           Body(last, n) == FillStep(v, plan[n], last)
           first == [bids |-> <<>>, taken |-> {}]
           X == FillStates
           f == CHOOSE g : g = [n \in 0..len |->
                  IF n = 0 THEN [bids |-> <<>>, taken |-> {}]
                  ELSE LET last == g[n - 1]
                           who == FirstN(Candidates(v, plan[n].flight, last.taken), plan[n].qty)
                       IN IF who = <<>> THEN last
                          ELSE [bids |-> Append(last.bids,
                                       Bid("rebooking", Seat(v.sc, plan[n].flight), who)),
                                taken |-> last.taken \union ToSet(who)]]
<1>1. len \in Nat
  OBVIOUS
<1>2. Fill(v, plan) = f[len].bids
  BY DEF Fill
<1>3. f = CHOOSE g : g = [n \in 0..len |-> IF n = 0 THEN first ELSE Body(g[n - 1], n)]
  BY DEF FillStep
<1>4. first \in X
  BY DEF FillStates
<1>5. ASSUME NEW last \in X, NEW n \in 1..len PROVE Body(last, n) \in X
  <2>1. plan[n] \in Wave
    BY ItemIsThere
  <2> QED BY <2>1, FillStepIsLegal
<1> HIDE DEF f, Body, first, X, len
<1> DEFINE step == [z \in X \X (1..len) |-> Body(z[1], z[2])]
<1>6. step \in [X \X (1..len) -> X]
  BY <1>5
<1>7. PICK g : Unfolds(g, X, first, len, step)
  <2> HIDE DEF step
  <2> QED BY <1>1, <1>4, <1>6, StepsUpTo
<1>8. ASSUME NEW n \in 0..len PROVE g[n] = IF n = 0 THEN first ELSE Body(g[n - 1], n)
  <2>1. CASE n # 0
    <3>1. n - 1 \in 0..len /\ n \in 1..len
      BY <1>1, <2>1
    <3>2. g[n - 1] \in X
      BY <1>7, <3>1 DEF Unfolds
    <3> QED BY <1>7, <2>1, <3>1, <3>2 DEF Unfolds
  <2> QED BY <1>7, <2>1 DEF Unfolds
<1>9. g = [n \in 0..len |-> IF n = 0 THEN first ELSE Body(g[n - 1], n)]
  <2>1. g = [n \in 0..len |-> g[n]]
    BY <1>7 DEF Unfolds
  <2> QED BY <1>8, <2>1
<1>10. f = [n \in 0..len |-> IF n = 0 THEN first ELSE Body(f[n - 1], n)]
  BY <1>3, <1>9
<1>11. f[0] = first /\ \A n \in 1..len : f[n] = Body(f[n - 1], n)
  BY <1>1, <1>10
<1>12. \A n \in 1..len : f[n - 1] \in X => f[n] \in X
  BY <1>5, <1>11
<1>13. \A n \in 0..len : f[n] \in X
  BY <1>1, <1>4, <1>11, <1>12, StaysIn
<1>14. FillsBy(f, v, plan)
  BY <1>11, <1>13 DEF FillsBy, X, Body, first, len
<1> QED BY <1>2, <1>14 DEF len

\* A bid of s is for a seat of the storm for p, or for n of them on f.
AsksEnough(s, p, f, n) ==
  \E i \in 1..Len(s) : \E g \in Flight :
    /\ s[i].resource = Seat(scenario, g)
    /\ \/ p \in ToSet(s[i].wish)
       \/ g = f /\ Cardinality(ToSet(s[i].wish)) = n

LEMMA OneMoreAsksEnough ==
  ASSUME NEW S, NEW s \in Seq(S), NEW b \in S, NEW p, NEW f, NEW n,
         NEW g \in Flight, b.resource = Seat(scenario, g)
  PROVE  /\ AsksEnough(s, p, f, n) => AsksEnough(Append(s, b), p, f, n)
         /\ p \in ToSet(b.wish) => AsksEnough(Append(s, b), p, f, n)
         /\ g = f /\ Cardinality(ToSet(b.wish)) = n => AsksEnough(Append(s, b), p, f, n)
<1> DEFINE t == Append(s, b)
<1>1. /\ Len(t) = Len(s) + 1 /\ Len(s) \in Nat /\ t[Len(s) + 1] = b
      /\ \A i \in 1..Len(s) : t[i] = s[i] /\ i \in 1..Len(s) + 1
  OBVIOUS
<1>2. Len(s) + 1 \in 1..Len(t)
  BY <1>1
<1> HIDE DEF t
<1>3. /\ AsksEnough(s, p, f, n) => AsksEnough(t, p, f, n)
      /\ p \in ToSet(b.wish) => AsksEnough(t, p, f, n)
      /\ g = f /\ Cardinality(ToSet(b.wish)) = n => AsksEnough(t, p, f, n)
  BY <1>1, <1>2 DEF AsksEnough
<1> QED BY <1>3 DEF t

\* Whoever is still open when a flight has its wave is asked for, or as many others
\* as the wave is for.
LEMMA FillStepAsks ==
  ASSUME Ready, NEW v, ViewIsSound(v), NEW wave \in Wave, NEW last \in FillStates,
         NEW p \in Passenger, NEW f, NEW n,
         p \in last.taken => AsksEnough(last.bids, p, f, n)
  PROVE  LET next == FillStep(v, wave, last)
         IN  /\ AsksEnough(last.bids, p, f, n) => AsksEnough(next.bids, p, f, n)
             /\ p \in next.taken => AsksEnough(next.bids, p, f, n)
             /\ /\ wave.flight = f /\ wave.qty = n /\ n >= 1 /\ f \in Legal(scenario, p)
                /\ p \notin Seated(v) /\ p \notin Pending(v, "rebooking")
                => AsksEnough(next.bids, p, f, n)
<1> DEFINE fl == wave.flight
           T == BidsOf("rebooking", "seat")
           S == {q \in Passenger : fl \in Legal(v.sc, q)}
                  \ (Seated(v) \union Pending(v, "rebooking") \union last.taken)
           key == [q \in Passenger |-> 0 - ConnectionRisk(v.sc, q)]
           c == SortedBy(S, key)
           who == FirstN(c, wave.qty)
           b == Bid("rebooking", Seat(v.sc, fl), who)
           next == FillStep(v, wave, last)
<1>1. fl \in Flight /\ wave.qty \in Int /\ v.sc = scenario /\ scenario \in Scenarios
  BY DEF Wave, ViewIsSound, Ready
<1>2. \A q \in Passenger : key[q] \in Int
  BY <1>1, RiskIsANumber
<1>3. S \in SUBSET Passenger
  OBVIOUS
<1>4. Candidates(v, fl, last.taken) = c
  BY DEF Candidates
<1> HIDE DEF key
<1>5. /\ c \in Seq(S)
      /\ \A x \in S : \E i \in 1..Len(c) : c[i] = x
      /\ \A i, j \in 1..Len(c) : c[i] = c[j] => i = j
  <2> HIDE DEF S
  <2> QED BY <1>2, <1>3, SortedByListsOnce
<1>6. next = IF who = <<>> THEN last
             ELSE [bids |-> Append(last.bids, b), taken |-> last.taken \union ToSet(who)]
  BY <1>4 DEF FillStep
<1>7. next \in FillStates /\ next.bids \in Seq(T) /\ last.bids \in Seq(T)
  BY FillStepIsLegal DEF FillStates
<1>8. b.wish = who /\ b.resource = Seat(scenario, fl)
  BY <1>1 DEF Bid
<1>9. p \in S /\ wave.qty >= 1 => /\ who # <<>>
                                  /\ p \in ToSet(who) \/ Cardinality(ToSet(who)) = wave.qty
  <2> HIDE DEF S, c
  <2> QED BY <1>1, <1>5, FirstNAsksEnough
<1>10. p \in S <=> /\ fl \in Legal(scenario, p) /\ p \notin Seated(v)
                   /\ p \notin Pending(v, "rebooking") /\ p \notin last.taken
  BY <1>1
<1> HIDE DEF S, c, who, b, next, T
<1>11. CASE who = <<>>
  <2>1. next = last
    BY <1>6, <1>11
  <2> QED BY <2>1, <1>9, <1>10, <1>11 DEF next
<1>12. CASE who # <<>>
  <2>1. next.bids = Append(last.bids, b) /\ next.taken = last.taken \union ToSet(who)
    BY <1>6, <1>12
  <2>2. b \in T
    <3> DEFINE s == last.bids
               t == next.bids
    <3>1. t = Append(s, b) /\ s \in Seq(T) /\ t \in Seq(T)
      BY <1>7, <2>1
    <3> HIDE DEF s, t
    <3>2. Len(s) \in Nat /\ Len(t) = Len(s) + 1 /\ t[Len(s) + 1] = b
      BY <3>1
    <3>3. Len(s) + 1 \in 1..Len(t)
      BY <3>2
    <3> QED BY <3>1, <3>2, <3>3, ItemIsThere
  <2>3. /\ AsksEnough(last.bids, p, f, n) => AsksEnough(next.bids, p, f, n)
        /\ p \in ToSet(b.wish) => AsksEnough(next.bids, p, f, n)
        /\ fl = f /\ Cardinality(ToSet(b.wish)) = n => AsksEnough(next.bids, p, f, n)
    BY <1>1, <1>7, <1>8, <2>1, <2>2, OneMoreAsksEnough
  <2> QED BY <2>1, <2>3, <1>8, <1>9, <1>10 DEF next, fl
<1> QED BY <1>11, <1>12

LEMMA FillAsks ==
  ASSUME Ready, NEW v, ViewIsSound(v), NEW plan \in Seq(Wave), NEW k \in 1..Len(plan),
         NEW p \in Passenger, NEW f, NEW n, plan[k].flight = f, plan[k].qty = n, n >= 1,
         f \in Legal(scenario, p), p \notin Seated(v), p \notin Pending(v, "rebooking")
  PROVE  AsksEnough(Fill(v, plan), p, f, n)
<1> DEFINE len == Len(plan)
           X == {z \in FillStates : p \in z.taken => AsksEnough(z.bids, p, f, n)}
           Y == {z \in X : AsksEnough(z.bids, p, f, n)}
<1>1. PICK g : FillsBy(g, v, plan) /\ Fill(v, plan) = g[len].bids
  BY FillUnfolds
<1>2. len \in Nat /\ k - 1 \in 0..len /\ len - k \in Nat /\ k \in Nat
  OBVIOUS
<1>3. ASSUME NEW m \in 1..len, g[m - 1] \in X
      PROVE  /\ g[m] \in X /\ (g[m - 1] \in Y => g[m] \in Y) /\ (m = k => g[m] \in Y)
  <2>1. plan[m] \in Wave /\ g[m - 1] \in FillStates /\ m \in 0..len
    BY <1>3, ItemIsThere
  <2>2. g[m] = FillStep(v, plan[m], g[m - 1]) /\ g[m] \in FillStates
    BY <1>1, <2>1 DEF FillsBy
  <2>3. p \in g[m - 1].taken => AsksEnough(g[m - 1].bids, p, f, n)
    BY <1>3
  <2>4. /\ AsksEnough(g[m - 1].bids, p, f, n) => AsksEnough(g[m].bids, p, f, n)
        /\ p \in g[m].taken => AsksEnough(g[m].bids, p, f, n)
        /\ m = k => AsksEnough(g[m].bids, p, f, n)
    BY <2>1, <2>2, <2>3, FillStepAsks
  <2> QED BY <2>2, <2>4
<1>4. \A m \in 0..len : g[m] \in X
  <2>1. g[0] \in X
    <3>1. 0 \in 0..len
      BY <1>2
    <3>2. g[0] \in FillStates /\ g[0].taken = {}
      BY <1>1, <3>1 DEF FillsBy
    <3> QED BY <3>2
  <2> HIDE DEF X
  <2> QED BY <1>2, <1>3, <2>1, StaysIn
<1>5. g[k] \in Y
  BY <1>2, <1>3, <1>4
<1> DEFINE h == [m \in 0..len - k |-> g[k + m]]
<1>6. \A m \in 0..len - k : h[m] \in Y
  <2>1. h[0] \in Y
    BY <1>2, <1>5
  <2>2. ASSUME NEW m \in 1..len - k, h[m - 1] \in Y PROVE h[m] \in Y
    <3>1. /\ m \in 0..len - k /\ m - 1 \in 0..len - k /\ k + m \in 1..len
          /\ k + m - 1 = k + (m - 1) /\ k + (m - 1) \in 0..len
      BY <1>2
    <3>2. h[m] = g[k + m] /\ h[m - 1] = g[k + (m - 1)]
      BY <3>1
    <3> HIDE DEF h, X, Y
    <3>3. g[(k + m) - 1] \in Y /\ g[(k + m) - 1] \in X
      <4>1. (k + m) - 1 = k + (m - 1)
        BY <1>2, <3>1
      <4> QED BY <4>1, <2>2, <3>1, <3>2, <1>4
    <3> QED BY <1>3, <3>1, <3>2, <3>3
  <2> HIDE DEF h, Y
  <2> QED BY <1>2, <2>1, <2>2, StaysIn
<1>7. g[len] \in Y
  <2>1. len - k \in 0..len - k /\ k + (len - k) = len
    BY <1>2
  <2> QED BY <1>6, <2>1
<1> QED BY <1>1, <1>7

(* The seats of a run, and who asks for them *)

\* What is registered as a seat is one of the storm's.
IsSeatOfStorm(r) == r.kind = "seat" => \E f \in Flight : r = Seat(scenario, f)

SeatsOfTheStorm ==
  /\ \A r \in registered : IsSeatOfStorm(r)
  /\ phase = "setup" => \A i \in 1..Len(script) : IsSeatOfStorm(script[i])

\* Rebooking bids for seats and the crew only.
IsSeatOrCrew(r) == r.kind \in {"seat", "crew"}

RebookingAsks ==
  /\ \A m \in 1..commitSeq : commitments[m].digest.agent = "rebooking" =>
       IsSeatOrCrew(commitments[m].digest.resource)
  /\ phase = "propose" /\ asked /\ Speaker = "rebooking" =>
       \A i \in 1..Len(script) : IsSeatOrCrew(script[i].resource)

\* No passenger holds a crew.
CrewUnits == \A u \in alloc : u.resource.kind = "crew" => u.ben = "C1"

\* A round of turns starts with the first.
TurnsStartOver == phase \notin {"propose", "positions", "aborted"} => turn = 0

LEMMA RegistrationsAreOfTheStorm ==
  ASSUME scenario \in Scenarios
  PROVE  LET R == Registrations(scenario)
         IN  \A i \in 1..Len(R) : IsSeatOfStorm(R[i])
<1> DEFINE S == {r \in Resource : IsSeatOfStorm(r)}
           seats == [i \in DOMAIN FlightsById |-> Seat(scenario, FlightsById[i])]
           gates == [i \in DOMAIN scenario.gates |-> Gate(scenario.gates[i])]
           F == <<FerryCrew>>
           H == <<HotelBlock(scenario)>>
           A == seats \o F
           B == A \o gates
           R == Registrations(scenario)
<1>1. seats \in Seq(S)
  <2>1. ASSUME NEW i \in 1..6 PROVE Seat(scenario, FlightsById[i]) \in S
    <3>1. FlightsById[i] \in Flight
      BY FlightsAreListed DEF Flight
    <3> QED BY <3>1, StormIsTyped DEF IsSeatOfStorm
  <2>2. seats = [i \in 1..6 |-> Seat(scenario, FlightsById[i])]
    BY FlightsAreListed
  <2> HIDE DEF seats, S
  <2>3. seats \in [1..6 -> S]
    BY <2>1, <2>2
  <2> QED BY <2>3, MappedIsASequence
<1>2. gates \in Seq(S)
  <2>1. scenario.gates \in Seq(Gates)
    BY ScenariosAssumption
  <2>2. \A g \in Gates : Gate(g) \in S
    BY StormIsTyped DEF IsSeatOfStorm
  <2> HIDE DEF S
  <2> QED BY <2>1, <2>2
<1>3. F \in Seq(S) /\ H \in Seq(S)
  <2>1. FerryCrew \in S /\ HotelBlock(scenario) \in S
    BY StormIsTyped DEF IsSeatOfStorm
  <2> HIDE DEF S
  <2> QED BY <2>1
<1>4. R = B \o H
  BY DEF Registrations
<1> HIDE DEF seats, gates, F, H, R, S
<1>5. A \in Seq(S)
  BY <1>1, <1>3, JoinedIsASequence
<1> HIDE DEF A
<1>6. B \in Seq(S)
  BY <1>2, <1>5, JoinedIsASequence
<1> HIDE DEF B
<1>7. R \in Seq(S)
  BY <1>3, <1>4, <1>6, JoinedIsASequence
<1>8. \A i \in 1..Len(R) : R[i] \in S
  BY <1>7, ItemIsThere
<1> QED BY <1>8 DEF R, S

\* In a negotiated run units come from reveals and rulings.
LEMMA QuietSteps ==
  ASSUME StormInv, StormNext, condition # "single"
  PROVE  /\ ~RevealNext /\ ~ApplyNext => alloc' \subseteq alloc
         /\ ~Register => registered' = registered
<1>1. Ledger!TypeOK /\ Ledger!NextIdsAreFree
  BY LedgerFacts DEF StormInv
<1> DEFINE Quiet2 == alloc' \subseteq alloc /\ registered' = registered
<1>2. UNCHANGED ledgerVars => Quiet2
  BY DEF ledgerVars
<1>3. CASE Register
  BY <1>3, RegisteringAddsNothing DEF Register
<1>4. CASE File
  BY <1>4 DEF File, Propose, Ledger!Commit
<1>5. CASE TakePosition
  <2> DEFINE p == Head(script)
  <2>1. /\ phase = "positions" /\ asked /\ script # <<>>
        /\ \/ UNCHANGED ledgerVars
           \/ FileYield(p.target, Ledger!Listing(p.release))
    BY <1>5 DEF TakePosition, FileBlock, FileNote
  <2>2. p \in Stands
    <3>1. script \in Seq(Stands)
      BY <2>1 DEF StormInv, ScriptIsLegal
    <3> QED BY <2>1, <3>1, FirstAndRest
  <2>3. p.target \in ClaimId
    BY <2>2 DEF Stands
  <2> HIDE DEF p
  <2>4. ASSUME FileYield(p.target, Ledger!Listing(p.release)) PROVE Quiet2
    <3>1. \/ Ledger!Release(Speaker, p.target, Ledger!Listing(p.release))
          \/ Ledger!Withdraw(Speaker, p.target)
      BY <2>4 DEF FileYield
    <3> QED BY <1>1, <2>3, <3>1, OtherCallsAddNothing
  <2> QED BY <1>2, <2>1, <2>4
<1>6. CASE ApplyNext
  <2> DEFINE o == Head(script)
             l == Ledger!Listing(o.bens)
  <2>1. phase = "ops" /\ script # <<>> /\ RulingOp(o.op, o.claim, l)
    BY <1>6 DEF ApplyNext
  <2>2. o \in Ops
    <3>1. script \in Seq(Ops)
      BY <2>1 DEF StormInv, ScriptIsLegal
    <3> QED BY <2>1, <3>1, FirstAndRest
  <2>3. o.claim \in ClaimId
    BY <2>2 DEF Ops
  <2> HIDE DEF o, l
  <2>4. Ledger!RevokeOp(o.claim, l) \/ Ledger!GrantOp(o.claim, l) \/ Ledger!VoidClaim(o.claim)
    BY <2>1 DEF RulingOp, ApplyOp
  <2> QED BY <1>1, <1>6, <2>3, <2>4, OtherCallsAddNothing, GrantsAddTheirUnits
<1>7. CASE Engine
  <2>1. CASE RevealNext
    <3> DEFINE m == Head(sealed)
    <3>1. m \in 1..MaxCommits
      BY <2>1, RevealsOpenTheirSeal
    <3>2. Ledger!Reveal(m, commitments[m].digest, TRUE)
      BY <2>1 DEF RevealNext
    <3> HIDE DEF m
    <3> QED BY <1>1, <2>1, <3>1, <3>2, RevealsAddTheirClaim
  <2>2. ASSUME NEW c \in ClaimId, Ledger!VoidClaim(c) PROVE Quiet2
    BY <1>1, <2>2, OtherCallsAddNothing
  <2>4. RevealNext \/ UNCHANGED ledgerVars \/ \E c \in ClaimId : Ledger!VoidClaim(c)
    <3>1. CASE EndReveals \/ ScanRound \/ EndRulings \/ EndSettlement
      BY <3>1 DEF EndReveals, ScanRound, EndRulings, EndSettlement
    <3>2. CASE EndRound \/ SafetyFinalize \/ EndContestSweep \/ EndSweep
      BY <3>2 DEF EndRound, SafetyFinalize, EndContestSweep, EndSweep
    <3>3. CASE \E x \in settling : SettleContest(x)
      BY <3>3 DEF SettleContest
    <3>4. CASE \E x \in settling : SweepContest(x)
      BY <3>4, SweepLists DEF SweepContest
    <3>5. CASE \E c \in clearing : SweepClaim(c)
      BY <3>5, SweepLists DEF SweepClaim
    <3> QED BY <1>7, <3>1, <3>2, <3>3, <3>4, <3>5 DEF Engine
  <2> QED BY <1>2, <2>1, <2>2, <2>4
<1>8. CASE StartSociety \/ Consult \/ TurnOver
  BY <1>2, <1>8 DEF StartSociety, Consult, TurnOver, EndTurn, vars
<1>9. CASE Mediate \/ MediateAtTheCap \/ ApplyDone
  BY <1>2, <1>9 DEF Mediate, MediateAtTheCap, Rule, Fiat, ApplyDone, EndOps
<1>10. CASE StartPlanner \/ PlanSeats \/ EndPlan \/ PlanFirst \/ SeatNext
  BY <1>10, NotNegotiated DEF StartPlanner, PlanSeats, EndPlan, PlanFirst, SeatNext
<1> QED BY <1>3, <1>4, <1>5, <1>6, <1>7, <1>8, <1>9, <1>10 DEF StormNext

LEMMA SeatsOfTheStormStep ==
  ASSUME StormInv, SeatsOfTheStorm, StormNext, condition # "single"
  PROVE  SeatsOfTheStorm'
<1>0. scenario' = scenario
  BY DEF StormNext, Register, StartSociety, Done, Idle, Consult, File, TakePosition, TurnOver,
     Mediate, MediateAtTheCap, Decree, ApplyNext, ApplyDone, Engine, StartPlanner, PlanFirst,
     PlanSeats, SeatNext, EndPlan, stormVars
<1>1. \A r : IsSeatOfStorm(r)' <=> IsSeatOfStorm(r)
  BY <1>0 DEF IsSeatOfStorm
<1>2. CASE Register
  <2>1. /\ phase = "setup" /\ script # <<>> /\ script' = Tail(script)
        /\ registered' = registered \union {Head(script)}
    BY <1>2, RegisteringAddsNothing DEF Register, Done
  <2>2. script \in Seq(Resource)
    BY <2>1 DEF StormInv, ScriptIsLegal
  <2>3. /\ 1 \in 1..Len(script) /\ Head(script) = script[1]
        /\ Len(Tail(script)) = Len(script) - 1 /\ Len(script) \in Nat
        /\ \A i \in 1..Len(script) - 1 : Tail(script)[i] = script[i + 1] /\ i + 1 \in 1..Len(script)
    BY <2>1, <2>2, FirstAndRest
  <2>4. \A i \in 1..Len(script) : IsSeatOfStorm(script[i])
    BY <2>1 DEF SeatsOfTheStorm
  <2>5. IsSeatOfStorm(Head(script)) /\ \A i \in 1..Len(script') : IsSeatOfStorm(script'[i])
    BY <2>1, <2>3, <2>4
  <2>6. \A r \in registered' : IsSeatOfStorm(r)
    BY <2>1, <2>5 DEF SeatsOfTheStorm
  <2> QED BY <1>0, <2>5, <2>6 DEF SeatsOfTheStorm, IsSeatOfStorm
<1>3. CASE ~Register
  <2>1. registered' = registered
    BY <1>3, QuietSteps
  <2>2. phase' # "setup"
    <3>1. File => phase' # "setup"
      BY DEF File, Propose
    <3>2. ~File /\ phase' = "setup" => phase = "setup"
      BY StepsMoveOn DEF MovesOn
    <3>3. phase = "setup" => StartSociety
      <4>1. phase = "setup" => ~Engine /\ ~File /\ ~TakePosition /\ ~TurnOver
        BY EnginePhases, TurnsGoRound DEF File, TakePosition
      <4> QED BY <1>3, <4>1 DEF StormNext, Consult, Mediate, MediateAtTheCap, Rule, Fiat, ApplyNext,
             ApplyDone, EndOps, StartPlanner, PlanFirst, PlanSeats, SeatNext, EndPlan
    <3>4. StartSociety => phase' # "setup"
      BY DEF StartSociety, Goto
    <3> QED BY <3>1, <3>2, <3>3, <3>4
  <2> QED BY <1>0, <2>1, <2>2 DEF SeatsOfTheStorm, IsSeatOfStorm
<1> QED BY <1>2, <1>3

LEMMA RebookingAsksStep ==
  ASSUME StormInv, RebookingAsks, StormNext, condition # "single"
  PROVE  RebookingAsks'
<1>1. commitSeq \in Nat /\ MaxCommits \in Nat /\ Ledger!TypeOK /\ ~(commitSeq > MaxCommits)
  <2>1. Ledger!TypeOK /\ MaxCommits \in Nat
    BY LedgerFacts, LedgerAssumption DEF StormInv
  <2> QED BY <2>1 DEF Ledger!TypeOK
<1>2. CASE File
  <2> DEFINE b == Head(script)
             n == commitSeq
  <2>1. /\ phase = "propose" /\ asked /\ script # <<>> /\ script' = Tail(script)
        /\ Propose(Sealed(b))
    BY <1>2 DEF File
  <2>2. script \in Seq(Bids)
    BY <2>1 DEF StormInv, ScriptIsLegal
  <2>3. /\ 1 \in 1..Len(script) /\ b = script[1]
        /\ Len(Tail(script)) = Len(script) - 1 /\ Len(script) \in Nat
        /\ \A i \in 1..Len(script) - 1 : Tail(script)[i] = script[i + 1] /\ i + 1 \in 1..Len(script)
    BY <2>1, <2>2, FirstAndRest
  <2> HIDE DEF b
  <2>4. Speaker = "rebooking" => \A i \in 1..Len(script) : IsSeatOrCrew(script[i].resource)
    BY <2>1 DEF RebookingAsks
  <2>5. Speaker' = Speaker /\ Sealed(b).agent = Speaker
    BY <2>1 DEF Propose, Speaker
  <2>6. Sealed(b).agent = "rebooking" => IsSeatOrCrew(Sealed(b).resource)
    BY <2>3, <2>4, <2>5 DEF Sealed
  <2>7. /\ n < MaxCommits /\ commitSeq' = n + 1
        /\ commitments' = [commitments EXCEPT ![n + 1] =
             [agent |-> Speaker, digest |-> Sealed(b), state |-> "sealed", claim |-> 0]]
    BY <2>1 DEF Propose, Ledger!Commit
  <2>8. commitments = [m \in 1..MaxCommits |-> commitments[m]]
    BY <1>1 DEF Ledger!TypeOK, Ledger!CommitId
  <2>9. n + 1 \in 1..MaxCommits
    BY <1>1, <2>7
  <2>10. /\ commitments'[n + 1].digest = Sealed(b)
         /\ \A m \in 1..MaxCommits : m # n + 1 => commitments'[m] = commitments[m]
    BY <2>7, <2>8, <2>9
  <2>11. ASSUME NEW m \in 1..n + 1, commitments'[m].digest.agent = "rebooking"
         PROVE  IsSeatOrCrew(commitments'[m].digest.resource)
    <3>1. CASE m = n + 1
      BY <2>6, <2>10, <2>11, <3>1
    <3>2. CASE m # n + 1
      <4>1. m \in 1..n /\ m \in 1..MaxCommits
        BY <1>1, <2>9, <3>2
      <4> QED BY <2>10, <2>11, <3>2, <4>1 DEF RebookingAsks
    <3> QED BY <3>1, <3>2
  <2>12. ASSUME Speaker = "rebooking", NEW i \in 1..Len(script')
         PROVE  IsSeatOrCrew(script'[i].resource)
    BY <2>1, <2>3, <2>4, <2>12
  <2> QED BY <2>5, <2>7, <2>11, <2>12 DEF RebookingAsks, IsSeatOrCrew
<1>3. CASE ~File
  <2>1. commitSeq' = commitSeq /\ \A m \in 1..commitSeq : commitments'[m].digest = commitments[m].digest
    <3>1. SealsStay
      BY <1>3, SealsStayUnlessFiled
    <3>2. \A m \in 1..commitSeq : m \in 1..MaxCommits
      BY <1>1
    <3> QED BY <3>1, <3>2 DEF SealsStay
  <2>2. ASSUME phase' = "propose", asked', Speaker' = "rebooking", NEW i \in 1..Len(script')
        PROVE  IsSeatOrCrew(script'[i].resource)
    <3>1. Consult
      BY <1>3, <2>2, AnswersAreConsulted
    <3>2. phase = "propose" /\ script' = Proposals(Speaker, View) /\ Speaker' = Speaker
      BY <2>2, <3>1 DEF Consult, vars, engineVars, Speaker
    <3>3. Ready /\ ViewIsSound(View)
      BY <3>2, Negotiated
    <3>4. script' = RebookingProposes(View)
      BY <2>2, <3>2 DEF Proposals
    <3>5. script'[i] \in BidsOf("rebooking", "seat") \/ script'[i] = TheCrewBid
      BY <2>2, <3>3, <3>4, RebookingIsLegal
    <3> QED BY <3>5 DEF IsSeatOrCrew, BidsOf, TheCrewBid, Bid, FerryCrew
  <2> QED BY <2>1, <2>2 DEF RebookingAsks, IsSeatOrCrew
<1> QED BY <1>2, <1>3

LEMMA CrewUnitsStep ==
  ASSUME StormInv, CrewBids, CrewClaimsAreNotBlocked, CrewUnits, StormNext, condition # "single"
  PROVE  CrewUnits'
<1>1. Ledger!TypeOK /\ Ledger!NextIdsAreFree
  BY LedgerFacts DEF StormInv
<1> SUFFICES ASSUME NEW u \in alloc', u \notin alloc, u.resource.kind = "crew" PROVE u.ben = "C1"
  BY DEF CrewUnits
<1>2. CASE RevealNext
  <2> DEFINE m == Head(sealed)
             p == commitments[m].digest
  <2>1. m \in 1..MaxCommits /\ m \in 1..commitSeq
    BY <1>2, RevealsOpenTheirSeal
  <2>2. Ledger!Reveal(m, p, TRUE)
    BY <1>2 DEF RevealNext
  <2> HIDE DEF m
  <2>3. NewUnits(p.resource, p.bens)
    BY <1>1, <2>1, <2>2, RevealsAddTheirClaim
  <2>4. p.resource.kind = "crew" /\ u.ben \in p.bens
    BY <2>3 DEF NewUnits
  <2>5. p = Sealed(TheCrewBid)
    BY <2>1, <2>4 DEF CrewBids, OnACrew
  <2>6. ToSet(<<"C1">>) = {"C1"}
    BY OneIsASequence
  <2> QED BY <2>4, <2>5, <2>6 DEF Sealed, TheCrewBid, Bid
<1>3. CASE ApplyNext
  <2> DEFINE o == Head(script)
             l == Ledger!Listing(o.bens)
  <2>1. phase = "ops" /\ script # <<>> /\ RulingOp(o.op, o.claim, l)
    BY <1>3 DEF ApplyNext
  <2>2. o \in Ops
    <3>1. script \in Seq(Ops)
      BY <2>1 DEF StormInv, ScriptIsLegal
    <3> QED BY <2>1, <3>1, FirstAndRest
  <2>3. o.claim \in ClaimId
    BY <2>2 DEF Ops
  <2> HIDE DEF o, l
  <2>4. Ledger!RevokeOp(o.claim, l) \/ Ledger!GrantOp(o.claim, l) \/ Ledger!VoidClaim(o.claim)
    BY <2>1 DEF RulingOp, ApplyOp
  <2>5. Ledger!GrantOp(o.claim, l)
    BY <1>1, <2>3, <2>4, OtherCallsAddNothing
  <2>6. NewUnits(claims[o.claim].resource, l.bens)
    BY <1>1, <2>3, <2>5, GrantsAddTheirUnits
  <2>7. claims[o.claim].status = "blocked"
    BY <2>5 DEF Ledger!GrantOp, Ledger!NoEffect, Ledger!tables
  <2> QED BY <2>3, <2>6, <2>7 DEF NewUnits, CrewClaimsAreNotBlocked, Blocked, OnACrew
<1> QED BY <1>2, <1>3, QuietSteps

LEMMA TurnsStartOverStep ==
  ASSUME StormInv, TurnsStartOver, StormNext, condition # "single"
  PROVE  TurnsStartOver'
<1> USE DEF Goto, engineVars
<1>1. CASE Register \/ StartSociety
  BY <1>1 DEF Register, StartSociety, TurnsStartOver
<1>2. CASE Consult
  BY <1>2 DEF Consult, vars, TurnsStartOver
<1>3. CASE File
  BY <1>3 DEF File, Propose, TurnsStartOver
<1>4. CASE TakePosition
  BY <1>4, PositionsAreTaken DEF TurnsStartOver
<1>5. CASE TurnOver
  BY <1>5, TurnsGoRound DEF TurnsStartOver
<1>6. CASE Mediate \/ MediateAtTheCap
  BY <1>6 DEF Mediate, MediateAtTheCap, Rule, Fiat, TurnsStartOver
<1>7. CASE ApplyNext \/ ApplyDone
  BY <1>7 DEF ApplyNext, RulingOp, ApplyDone, EndOps, TurnsStartOver
<1>8. CASE Engine
  <2>1. turn = 0
    BY <1>8, EnginePhases DEF TurnsStartOver
  <2>2. turn' = turn
    <3>1. CASE RevealNext \/ EndReveals \/ ScanRound \/ EndRulings
      BY <3>1 DEF RevealNext, EndReveals, ScanRound, EndRulings
    <3>2. CASE EndSettlement \/ EndRound \/ SafetyFinalize \/ EndContestSweep \/ EndSweep
      BY <3>2 DEF EndSettlement, EndRound, SafetyFinalize, EndContestSweep, EndSweep
    <3>3. ASSUME NEW x, SettleContest(x) \/ SweepContest(x) \/ SweepClaim(x) PROVE turn' = turn
      BY <3>3 DEF SettleContest, SweepContest, SweepClaim
    <3> QED BY <1>8, <3>1, <3>2, <3>3 DEF Engine
  <2> QED BY <2>1, <2>2 DEF TurnsStartOver
<1>9. CASE StartPlanner \/ PlanFirst \/ PlanSeats \/ SeatNext \/ EndPlan
  BY <1>9, NotNegotiated DEF StartPlanner, PlanFirst, PlanSeats, SeatNext, EndPlan
<1> QED BY <1>1, <1>2, <1>3, <1>4, <1>5, <1>6, <1>7, <1>8, <1>9 DEF StormNext

(* From the third round on rebooking asks for what is open *)

\* In this round rebooking has answered, and no positions are filed yet.
RebookingIsIn ==
  \/ phase = "propose" /\ (HasSpoken("rebooking") \/ (asked /\ Speaker = "rebooking"))
  \/ phase = "reveal"
  \/ phase = "positions" /\ turn = 0 /\ ~asked

\* b, a sealed bid, is for a seat for p, or for all that is left on f.
Seeks(b, p, f) ==
  \E g \in Flight :
    /\ b.resource = Seat(scenario, g)
    /\ p \in b.bens \/ (g = f /\ Free(Seat(scenario, f)) <= Cardinality(b.bens))

\* p, or somebody on f, waits for a ruling; or a bid that is decided, or sealed and
\* its own agent's, will see to it.
Waits(p, f) ==
  \E c \in Blocked : /\ claims[c].resource.kind = "seat"
                     /\ p \in claims[c].bens \/ claims[c].resource = Seat(scenario, f)

ToBeFiled(p, f) ==
  phase = "propose" /\ asked /\ \E i \in 1..Len(script) : Seeks(Sealed(script[i]), p, f)

ToBeRevealed(p, f) ==
  \E i \in 1..Len(sealed) :
    /\ commitments[sealed[i]].agent = commitments[sealed[i]].digest.agent
    /\ Seeks(commitments[sealed[i]].digest, p, f)

IsOpenTo(p, f) ==
  p \in Passenger \ SeatedPax /\ f \in Legal(scenario, p) \ {"QW441"} /\ IsFree(f)

OpenSeatsAreSought ==
  round >= 3 /\ RebookingIsIn =>
    \A p, f : IsOpenTo(p, f) => Waits(p, f) \/ ToBeFiled(p, f) \/ ToBeRevealed(p, f)

\* Each flight but one has its wave.
LEMMA LateWavesCoverFlights ==
  ASSUME NEW v, NEW f \in Flight \ {"QW441"}
  PROVE  \E k \in 1..Len(LateWaves(v)) : LateWaves(v)[k] = UnlessUndecided(v, AllFree(v, f))
<1> DEFINE flights == <<"QW519", "QW602", "QW338", "QW258", "QW777">>
           s == [i \in DOMAIN flights |-> UnlessUndecided(v, AllFree(v, flights[i]))]
<1>1. LateWaves(v) = s
  BY DEF LateWaves
<1>2. DOMAIN flights = 1..5 /\ Len(flights) = 5
  OBVIOUS
<1>3. /\ flights[1] = "QW519" /\ flights[2] = "QW602" /\ flights[3] = "QW338"
      /\ flights[4] = "QW258" /\ flights[5] = "QW777"
  OBVIOUS
<1>4. \E k \in 1..5 : flights[k] = f
  <2>1. f \in {"QW519", "QW602", "QW338", "QW258", "QW777"}
    BY FlightsAreListed
  <2>2. 1 \in 1..5 /\ 2 \in 1..5 /\ 3 \in 1..5 /\ 4 \in 1..5 /\ 5 \in 1..5
    OBVIOUS
  <2> HIDE DEF flights
  <2> QED BY <1>3, <2>1, <2>2
<1> HIDE DEF flights
<1>5. /\ \A k \in 1..5 : s[k] = UnlessUndecided(v, AllFree(v, flights[k]))
      /\ s = [i \in 1..5 |-> UnlessUndecided(v, AllFree(v, flights[i]))]
  BY <1>2
<1> HIDE DEF s
<1>6. Len(s) = 5
  BY <1>5
<1> QED BY <1>1, <1>4, <1>5, <1>6

\* Whoever the view shows on a seat is on one.
LEMMA ShownSeatsAreSeats ==
  ASSUME StormInv, SeatsOfTheStorm, condition # "single",
         NEW u \in alloc, u.resource.kind = "seat", u.ben \in Passenger
  PROVE  u.ben \in SeatedPax
<1>1. u.claim \in ClaimId /\ Ledger!Granted(u.claim) /\ claims[u.claim].resource = u.resource
  BY LedgerFacts DEF StormInv, Ledger!UnitsBelongToGrantedClaims, Ledger!TypeOK,
     Ledger!Allocation, Ledger!ClaimId, ClaimId
<1>2. u.resource \in registered
  BY <1>1 DEF Ledger!Granted, StormInv, ClaimsAreLegal
<1>3. PICK f \in Flight : u.resource = Seat(scenario, f)
  BY <1>2 DEF SeatsOfTheStorm, IsSeatOfStorm
<1> QED BY <1>3 DEF SeatedPax, HasSeat

\* What rebooking claims is a seat or the crew.
LEMMA RebookingClaims ==
  ASSUME StormInv, Ledger!ClaimsMatchTheirSeals, RebookingAsks, condition # "single",
         NEW c \in ClaimId, claims[c].status # "absent", claims[c].agent = "rebooking"
  PROVE  IsSeatOrCrew(claims[c].resource)
<1> DEFINE m == claims[c].commit
<1>1. m \in 1..commitSeq /\ m # 0
  <2>1. m \in 1..Len(wish) /\ Len(wish) = commitSeq
    BY DEF StormInv, ClaimsAreLegal, WishesAreSealed
  <2> QED BY <2>1
<1>2. commitments[m].digest = [agent |-> claims[c].agent, resource |-> claims[c].resource,
                               bens |-> claims[c].bens]
  BY <1>1 DEF Ledger!ClaimsMatchTheirSeals, Ledger!HasClaim, Ledger!ClaimId, ClaimId
<1>3. commitments[m].digest.agent = "rebooking" /\ commitments[m].digest.resource = claims[c].resource
  BY <1>2
<1> HIDE DEF m
<1> QED BY <1>1, <1>3 DEF RebookingAsks

\* The answer of a late round asks for whatever is open, unless it waits already.
LEMMA LateAnswersAsk ==
  ASSUME StormInv, Ledger!ClaimsMatchTheirSeals, RebookingAsks, CrewUnits,
         CrewClaimsAreNotBlocked, SeatsOfTheStorm, condition # "single",
         phase = "propose", round >= 3, NEW p, NEW f, IsOpenTo(p, f)
  PROVE  \/ Waits(p, f)
         \/ AsksEnough(RebookingProposes(View), p, f, Free(Seat(scenario, f)))
<1> DEFINE v == View
           n == Free(Seat(scenario, f))
<1>1. Ready /\ ViewIsSound(v) /\ round \in Nat
  BY Negotiated, RunIsOn
<1>2. /\ v.round = round /\ v.sc = scenario
      /\ v.granted = Records("granted") /\ v.blocked = Records("blocked")
      /\ v.free = [r \in registered |-> Free(r)]
  BY DEF View
<1>3. p \in Passenger /\ p \notin SeatedPax /\ f \in Legal(scenario, p) /\ f \in Flight \ {"QW441"}
  BY LegalFlightsAreFlights DEF IsOpenTo
<1>4. Seat(scenario, f) \in registered /\ n = v.free[Seat(scenario, f)] /\ n \in Int /\ n >= 1
  <2>1. Seat(scenario, f) \in registered
    BY <1>1, <1>3 DEF Ready
  <2>2. n \in Nat /\ n > 0
    BY <2>1, FreeIsANumber DEF IsOpenTo, IsFree
  <2> QED BY <1>2, <2>1, <2>2
<1> HIDE DEF v, n
<1>5. \A u \in alloc : u.ben = p => u.resource.kind # "seat" /\ u.resource.kind # "crew"
  BY <1>3, ShownSeatsAreSeats, CastAssumption DEF CrewUnits
<1>6. p \notin Seated(v)
  <2> SUFFICES ASSUME NEW c \in v.granted, GroupOf(c.resource) = "seat", p \in c.holders
               PROVE  FALSE
    BY DEF Seated, Allocated, HeldBy
  <2>1. /\ c.id \in ClaimId /\ c.holders = Ledger!Holders(c.id)
        /\ c.resource = claims[c.id].resource
    BY <1>2, RecordsAreOfClaims
  <2>2. PICK u \in alloc : u.claim = c.id /\ u.ben = p
    BY <2>1 DEF Ledger!Holders
  <2>3. u.resource = c.resource
    BY <2>1, <2>2, LedgerFacts DEF StormInv, Ledger!UnitsBelongToGrantedClaims
  <2>4. c.resource.kind = "seat"
    BY DEF GroupOf
  <2> QED BY <1>5, <2>2, <2>3, <2>4
<1>7. CASE p \in Pending(v, "rebooking")
  <2>1. CASE \E c \in Mine(v.blocked, "rebooking") : p \in ToSet(c.wish)
    <3>1. PICK d \in ClaimId : /\ claims[d].status = "blocked" /\ Record(d).agent = "rebooking"
                               /\ p \in ToSet(Record(d).wish)
      BY <1>2, <2>1 DEF Mine, Records
    <3>2. claims[d].commit \in 1..Len(wish) /\ claims[d].bens = ToSet(wish[claims[d].commit].who)
      BY <3>1 DEF StormInv, ClaimsAreLegal
    <3>3. claims[d].commit # 0
      BY <3>2
    <3>4. p \in claims[d].bens /\ claims[d].agent = "rebooking"
      BY <3>1, <3>2, <3>3 DEF Record
    <3>5. IsSeatOrCrew(claims[d].resource)
      BY <3>1, <3>4, RebookingClaims
    <3>6. claims[d].resource.kind = "seat"
      BY <3>1, <3>5 DEF IsSeatOrCrew, CrewClaimsAreNotBlocked, Blocked, OnACrew
    <3> QED BY <3>1, <3>4, <3>6 DEF Waits, Blocked
  <2>2. CASE p \in HeldBy(Mine(v.granted, "rebooking"))
    <3>1. PICK c \in v.granted : c.agent = "rebooking" /\ p \in c.holders
      BY <2>2 DEF HeldBy, Mine
    <3>2. /\ c.id \in ClaimId /\ c.holders = Ledger!Holders(c.id)
          /\ claims[c.id].status = "granted" /\ claims[c.id].agent = "rebooking"
      BY <1>2, <3>1, RecordsAreOfClaims
    <3>3. PICK u \in alloc : u.claim = c.id /\ u.ben = p
      BY <3>1, <3>2 DEF Ledger!Holders
    <3>4. u.resource = claims[c.id].resource
      BY <3>3, LedgerFacts DEF StormInv, Ledger!UnitsBelongToGrantedClaims
    <3>5. IsSeatOrCrew(u.resource)
      BY <3>2, <3>4, RebookingClaims
    <3> QED BY <1>5, <3>3, <3>5 DEF IsSeatOrCrew
  <2> DEFINE wished == UNION {ToSet(c.wish) : c \in Mine(v.blocked, "rebooking")}
  <2>3. p \in wished \/ p \in HeldBy(Mine(v.granted, "rebooking"))
    BY <1>7 DEF Pending
  <2>4. p \in wished => \E c \in Mine(v.blocked, "rebooking") : p \in ToSet(c.wish)
    OBVIOUS
  <2> QED BY <2>1, <2>2, <2>3, <2>4
<1>8. CASE Undecided(v, f)
  <2>1. PICK d \in ClaimId : /\ claims[d].status = "blocked"
                             /\ Record(d).resource = Seat(scenario, f)
    BY <1>2, <1>8 DEF Undecided, BlockedOn, Mine, Records
  <2>2. claims[d].resource = Seat(scenario, f)
    BY <2>1 DEF Record
  <2>3. claims[d].resource.kind = "seat"
    BY <2>2 DEF Seat
  <2> QED BY <2>1, <2>2, <2>3 DEF Waits, Blocked
<1>9. CASE p \notin Pending(v, "rebooking") /\ ~Undecided(v, f)
  <2>1. RebookingProposes(v) = Fill(v, LateWaves(v))
    BY <1>1, <1>2 DEF RebookingProposes
  <2>2. LateWaves(v) \in Seq(Wave)
    BY <1>1, LateWavesAreWaves
  <2>3. PICK k \in 1..Len(LateWaves(v)) : LateWaves(v)[k] = UnlessUndecided(v, AllFree(v, f))
    BY <1>3, LateWavesCoverFlights
  <2>4. AllFree(v, f).flight = f /\ AllFree(v, f).qty = n
    BY <1>2, <1>4 DEF AllFree
  <2>5. UnlessUndecided(v, AllFree(v, f)) = AllFree(v, f)
    BY <1>9, <2>4 DEF UnlessUndecided
  <2>6. PICK plan \in Seq(Wave) : plan = LateWaves(v)
    BY <2>2
  <2>7. /\ k \in 1..Len(plan) /\ plan[k].flight = f /\ plan[k].qty = n
    BY <2>3, <2>4, <2>5, <2>6
  <2>8. AsksEnough(Fill(v, plan), p, f, n)
    BY <1>1, <1>3, <1>4, <1>6, <1>9, <2>7, FillAsks
  <2> QED BY <2>1, <2>6, <2>8 DEF v, n
<1> QED BY <1>7, <1>8, <1>9

\* What a reveal adds, and what it leaves.
LEMMA RevealTakesEffect ==
  ASSUME StormInv, RevealNext, condition # "single"
  PROVE  LET m == Head(sealed)
             b == commitments[m].digest
             c == claimSeq + 1
         IN  /\ \A d \in ClaimId : claims[d].status # "absent" => claims'[d] = claims[d]
             /\ alloc \subseteq alloc'
             /\ \A k \in 1..MaxCommits : /\ commitments'[k].agent = commitments[k].agent
                                         /\ commitments'[k].digest = commitments[k].digest
             /\ commitments[m].agent = b.agent /\ b.resource \in registered =>
                  /\ c \in ClaimId /\ claims[c].status = "absent"
                  /\ \/ /\ claims'[c].status = "blocked" /\ claims'[c].resource = b.resource
                        /\ claims'[c].bens = b.bens
                     \/ alloc' = alloc \union [resource : {b.resource}, ben : b.bens, claim : {c}]
<1> DEFINE m == Head(sealed)
           b == commitments[m].digest
           c == claimSeq + 1
<1>1. Ledger!TypeOK /\ Ledger!NextIdsAreFree
  BY LedgerFacts DEF StormInv
<1>2. m \in 1..MaxCommits /\ commitments[m].state = "sealed" /\ b \in Ledger!Proposal
  BY RevealsOpenTheirSeal
<1>3. Ledger!Reveal(m, b, TRUE)
  BY DEF RevealNext
<1>4. b.resource \in Resource /\ Ledger!TryAllocate(b.resource, Ledger!Listing(b.bens)) # "integrity_violation"
  <2>1. b.resource \in Resource /\ b.bens \in SUBSET Beneficiary
    BY <1>2 DEF Ledger!Proposal
  <2> HIDE DEF b
  <2>2. Ledger!Listing(b.bens) \in Ledger!BenList /\ ~Ledger!Listing(b.bens).repeats
    BY <2>1, ListingsAreLists DEF Ledger!Listing
  <2> QED BY <2>1, <2>2, NothingClashes
<1> HIDE DEF m, b
<1>5. CASE ~Ledger!CanReveal(m, b)
  <2>1. UNCHANGED <<claims, alloc, commitments>>
    BY <1>3, <1>5 DEF Ledger!Reveal, Ledger!NoEffect, Ledger!tables
  <2>2. ~(commitments[m].agent = b.agent)
    BY <1>2, <1>5 DEF Ledger!CanReveal
  <2> QED BY <2>1, <2>2 DEF m, b
<1>6. CASE Ledger!CanReveal(m, b)
  <2>1. /\ claimSeq < MaxClaims /\ claimSeq' = c
        /\ commitments' = [commitments EXCEPT ![m].state = "accepted", ![m].claim = claimSeq']
        /\ Ledger!InsertAndApply(claimSeq', b, m)
    BY <1>3, <1>6 DEF Ledger!Reveal, Ledger!RevealMatch, b
  <2>2. c \in ClaimId /\ claims[c].status = "absent"
    <3>1. claimSeq \in Nat /\ MaxClaims \in Nat
      BY <1>1, LedgerAssumption DEF Ledger!TypeOK
    <3>2. c \in ClaimId /\ c > claimSeq
      BY <2>1, <3>1 DEF ClaimId
    <3> QED BY <1>1, <3>2 DEF Ledger!NextIdsAreFree, Ledger!HasClaim, Ledger!ClaimId, ClaimId
  <2>3. PICK n \in ClaimId : n = c
    BY <2>2
  <2>4. claims = [d \in ClaimId |-> claims[d]]
    BY <1>1, ClaimsAreRows
  <2> HIDE DEF c
  <2>5. \A k \in 1..MaxCommits : /\ commitments'[k].agent = commitments[k].agent
                                 /\ commitments'[k].digest = commitments[k].digest
    <3>1. commitments \in [1..MaxCommits -> Ledger!Commitment \union {Ledger!NoCommitment}]
      BY <1>1 DEF Ledger!TypeOK, Ledger!CommitId
    <3>2. commitments[m] \in Ledger!Commitment
      BY <1>2, <3>1 DEF Ledger!NoCommitment
    <3>3. \A k \in 1..MaxCommits : k # m => commitments'[k] = commitments[k]
      BY <1>2, <2>1, <3>1
    <3>4. commitments'[m] = [commitments[m] EXCEPT !.state = "accepted", !.claim = claimSeq']
      BY <1>2, <2>1, <3>1
    <3>5. commitments'[m].agent = commitments[m].agent /\ commitments'[m].digest = commitments[m].digest
      BY <3>2, <3>4 DEF Ledger!Commitment
    <3> QED BY <3>3, <3>5
  <2>6. Ledger!InsertAndApply(n, b, m)
    BY <2>1, <2>3
  <2>7. CASE b.resource \notin registered
    <3>1. UNCHANGED <<claims, alloc>>
      BY <2>6, <2>7 DEF Ledger!InsertAndApply
    <3> QED BY <2>5, <2>7, <3>1 DEF m, b
  <2>8. CASE b.resource \in registered
    <3> DEFINE Row(status) == [agent |-> b.agent, resource |-> b.resource, bens |-> b.bens,
                               status |-> status, commit |-> m]
    <3>1. \/ claims' = [claims EXCEPT ![n] = Row("blocked")] /\ UNCHANGED alloc
          \/ /\ claims' = [claims EXCEPT ![n] = Row("granted")]
             /\ alloc' = alloc \union [resource : {b.resource}, ben : b.bens, claim : {n}]
      BY <1>4, <2>6, <2>8 DEF Ledger!InsertAndApply, Ledger!Allocate
    <3>2. ASSUME NEW d \in ClaimId, claims[d].status # "absent" PROVE claims'[d] = claims[d]
      <4>1. d # n
        BY <2>2, <2>3, <3>2
      <4> QED BY <2>4, <3>1, <4>1
    <3>3. claims' = [claims EXCEPT ![n] = Row("blocked")] =>
            /\ claims'[n].status = "blocked" /\ claims'[n].resource = b.resource
            /\ claims'[n].bens = b.bens
      BY <2>4
    <3>4. alloc \subseteq alloc'
      BY <3>1
    <3>5. \/ /\ claims'[n].status = "blocked" /\ claims'[n].resource = b.resource
             /\ claims'[n].bens = b.bens
          \/ alloc' = alloc \union [resource : {b.resource}, ben : b.bens, claim : {n}]
      BY <3>1, <3>3
    <3> QED BY <2>2, <2>3, <2>5, <3>2, <3>4, <3>5 DEF m, b, c
  <2> QED BY <2>7, <2>8
<1> QED BY <1>5, <1>6

\* A grant takes as much as it is for.
LEMMA GrantsTakeRoom ==
  ASSUME StormInv, NEW r \in Resource, NEW S, IsFiniteSet(S), NEW c,
         \A u \in alloc : u.claim # c,
         alloc' = alloc \union [resource : {r}, ben : S, claim : {c}]
  PROVE  /\ Free(r) \in Int /\ Cardinality(S) \in Nat
         /\ Free(r)' = Free(r) - Cardinality(S)
<1> DEFINE U == {x \in alloc : x.resource = r}
           V == {x \in alloc' : x.resource = r}
           N == [resource : {r}, ben : S, claim : {c}]
           f == [b \in S |-> [resource |-> r, ben |-> b, claim |-> c]]
<1>1. V = U \union N /\ U \cap N = {}
  OBVIOUS
<1>2. f \in Injection(S, N) /\ f \in Surjection(S, N)
  BY DEF Injection, IsInjective, Surjection
<1>3. IsFiniteSet(U) /\ Cardinality(U) \in Nat
  BY UnitsAreFinite, FS_Subset, FS_CardinalityType
<1>4. Ledger!Used(r) = Cardinality(U) /\ Ledger!Used(r)' = Cardinality(V)
  BY LedgersCount DEF Ledger!Used
<1>5. Capacity[r] \in Nat
  BY LedgerAssumption
<1> HIDE DEF U, V, N, f
<1>6. IsFiniteSet(N) /\ Cardinality(N) = Cardinality(S) /\ Cardinality(S) \in Nat
  BY <1>2, FS_Surjection, FS_CardinalityType
<1>7. Cardinality(U \union N) = Cardinality(U) + Cardinality(N) - Cardinality(U \cap N)
  BY <1>3, <1>6, FS_Union
<1>8. Cardinality(U \cap N) = 0
  BY <1>1, FS_EmptySet
<1>9. Cardinality(V) = Cardinality(U) + Cardinality(S)
  BY <1>1, <1>3, <1>6, <1>7, <1>8
<1> QED BY <1>3, <1>4, <1>5, <1>6, <1>9 DEF Free

\* Once the bids are in, what was sought waits, or has been granted.
LEMMA RevealsMeetWhatIsSought ==
  ASSUME StormInv, StormInv', RevealNext, scenario' = scenario, condition # "single",
         OpenSeatsAreSought, round >= 3, NEW p, NEW f, IsOpenTo(p, f)'
  PROVE  Waits(p, f)' \/ ToBeRevealed(p, f)'
<1>1. /\ phase = "reveal" /\ sealed # <<>> /\ sealed' = Tail(sealed) /\ scenario' = scenario
      /\ sealed \in Seq(1..MaxCommits) /\ Ready
  <2>1. phase = "reveal" /\ sealed # <<>> /\ sealed' = Tail(sealed)
    BY DEF RevealNext
  <2> QED BY <2>1, Negotiated DEF StormInv, StageIsSet, EngineHolds, SealsAreKept
<1>2. /\ 1 \in 1..Len(sealed) /\ Head(sealed) = sealed[1]
      /\ Len(Tail(sealed)) = Len(sealed) - 1 /\ Len(sealed) \in Nat
      /\ \A i \in 1..Len(sealed) - 1 : Tail(sealed)[i] = sealed[i + 1] /\ i + 1 \in 1..Len(sealed)
  BY <1>1, FirstAndRest
<1>3. /\ \A d \in ClaimId : claims[d].status # "absent" => claims'[d] = claims[d]
      /\ alloc \subseteq alloc'
      /\ \A k \in 1..MaxCommits : /\ commitments'[k].agent = commitments[k].agent
                                  /\ commitments'[k].digest = commitments[k].digest
  BY RevealTakesEffect
<1>4. /\ f \in Flight /\ f \in Legal(scenario, p) \ {"QW441"} /\ p \in Passenger
      /\ p \notin SeatedPax' /\ IsFree(f)'
  BY <1>1, LegalFlightsAreFlights DEF IsOpenTo
<1>5. p \notin SeatedPax
  BY <1>1, <1>3, <1>4 DEF SeatedPax, HasSeat
<1>6. PICK r \in Resource : r = Seat(scenario, f) /\ Seat(scenario, f)' = r
  BY <1>1, <1>4, StormIsTyped DEF Ready
<1>7. Free(r) \in Int /\ Free(r)' \in Int /\ Free(r)' <= Free(r)
  <2>1. IsFiniteSet(alloc')
    BY DEF StormInv, LedgerHolds
  <2> QED BY <1>3, <2>1, FreeFalls
<1>8. Free(r)' > 0 /\ IsFree(f)
  BY <1>4, <1>6, <1>7 DEF IsFree
<1>9. Waits(p, f) \/ ToBeRevealed(p, f)
  BY <1>1, <1>4, <1>5, <1>8 DEF OpenSeatsAreSought, RebookingIsIn, IsOpenTo, ToBeFiled
<1>10. CASE Waits(p, f)
  <2>1. PICK c \in ClaimId : /\ claims[c].status = "blocked" /\ claims[c].resource.kind = "seat"
                             /\ p \in claims[c].bens \/ claims[c].resource = Seat(scenario, f)
    BY <1>10 DEF Waits, Blocked
  <2>2. claims'[c] = claims[c]
    BY <1>3, <2>1
  <2> QED BY <1>1, <2>1, <2>2 DEF Waits, Blocked
<1>11. CASE ToBeRevealed(p, f)
  <2>1. PICK i \in 1..Len(sealed) : /\ commitments[sealed[i]].agent = commitments[sealed[i]].digest.agent
                                    /\ Seeks(commitments[sealed[i]].digest, p, f)
    BY <1>11 DEF ToBeRevealed
  <2>2. PICK k \in 1..MaxCommits : k = sealed[i]
    BY <1>1, ItemIsThere
  <2>3. PICK b : b = commitments[k].digest
    OBVIOUS
  <2>4. /\ commitments[k].agent = b.agent
        /\ commitments'[k].digest = b /\ commitments'[k].agent = b.agent
    BY <1>3, <2>1, <2>2, <2>3
  <2>5. PICK g \in Flight : /\ b.resource = Seat(scenario, g)
                            /\ p \in b.bens \/ (g = f /\ Free(r) <= Cardinality(b.bens))
    BY <1>6, <2>1, <2>2, <2>3 DEF Seeks
  <2>6. CASE i # 1
    <3>0. i - 1 \in 1..Len(sealed) - 1 /\ (i - 1) + 1 = i
      BY <1>2, <2>6
    <3>1. PICK j \in 1..Len(sealed) - 1 : j + 1 = i
      BY <3>0
    <3>2. j \in 1..Len(sealed') /\ sealed'[j] = k
      BY <1>1, <1>2, <2>2, <3>1
    <3>3. IsFiniteSet(b.bens) => Cardinality(b.bens) \in Int
      BY FS_CardinalityType
    <3>4. IsFiniteSet(b.bens)
      <4>1. commitments[k].state = "sealed" /\ Ledger!TypeOK
        BY <2>2, LedgerFacts DEF StormInv, StageIsSet, EngineHolds, SealsAreKept
      <4>2. b.bens \subseteq Beneficiary
        BY <2>3, <4>1, SealsHoldBids DEF Ledger!Proposal
      <4> QED BY <4>2, LedgerAssumption, FS_Subset
    <3>5. p \in b.bens \/ (g = f /\ Free(r)' <= Cardinality(b.bens))
      <4> HIDE DEF Free
      <4> QED BY <1>7, <2>5, <3>3, <3>4
    <3>6. Seeks(b, p, f)'
      BY <1>1, <1>6, <2>5, <3>5 DEF Seeks
    <3>7. commitments'[sealed'[j]].digest = b /\ commitments'[sealed'[j]].agent = b.agent
      BY <2>4, <3>2
    <3> QED BY <3>2, <3>6, <3>7 DEF ToBeRevealed, Seeks
  <2>7. CASE i = 1
    <3>1. k = Head(sealed)
      BY <1>2, <2>2, <2>7
    <3>2. b.resource \in registered /\ b.resource.kind = "seat"
      BY <1>1, <2>5 DEF Ready, Seat
    <3>3. PICK c : c = claimSeq + 1
      OBVIOUS
    <3>4. /\ c \in ClaimId /\ claims[c].status = "absent"
          /\ \/ /\ claims'[c].status = "blocked" /\ claims'[c].resource = b.resource
                /\ claims'[c].bens = b.bens
             \/ alloc' = alloc \union [resource : {b.resource}, ben : b.bens, claim : {c}]
      BY <2>3, <2>4, <3>1, <3>2, <3>3, RevealTakesEffect
    <3>5. CASE /\ claims'[c].status = "blocked" /\ claims'[c].resource = b.resource
               /\ claims'[c].bens = b.bens
      <4>1. p \in b.bens \/ b.resource = Seat(scenario, f)
        BY <2>5
      <4> QED BY <1>1, <3>2, <3>4, <3>5, <4>1 DEF Waits, Blocked
    <3>6. CASE alloc' = alloc \union [resource : {b.resource}, ben : b.bens, claim : {c}]
      <4>1. p \notin b.bens
        <5> SUFFICES ASSUME p \in b.bens PROVE FALSE
          OBVIOUS
        <5>1. [resource |-> b.resource, ben |-> p, claim |-> c] \in alloc'
          BY <3>6
        <5>2. b.resource = Seat(scenario, g)'
          BY <1>1, <2>5
        <5>3. HasSeat(p, g)'
          BY <5>1, <5>2 DEF HasSeat
        <5> QED BY <1>4, <5>3 DEF SeatedPax
      <4>2. g = f /\ Free(r) <= Cardinality(b.bens) /\ b.resource = r
        BY <1>6, <2>5, <4>1
      <4>3. \A u \in alloc : u.claim # c
        BY <3>4, LedgerFacts DEF StormInv, Ledger!UnitsBelongToGrantedClaims, Ledger!Granted
      <4>4. IsFiniteSet(b.bens)
        <5>1. Ledger!TypeOK /\ commitments[k].state = "sealed"
          BY <3>1, RevealsOpenTheirSeal, LedgerFacts DEF StormInv
        <5>2. b.bens \subseteq Beneficiary
          BY <2>3, <5>1, SealsHoldBids DEF Ledger!Proposal
        <5> QED BY <5>2, LedgerAssumption, FS_Subset
      <4>5. alloc' = alloc \union [resource : {r}, ben : b.bens, claim : {c}]
        BY <3>6, <4>2
      <4>6. Free(r)' = Free(r) - Cardinality(b.bens) /\ Cardinality(b.bens) \in Nat
        BY <4>3, <4>4, <4>5, GrantsTakeRoom
      <4> QED BY <1>7, <1>8, <4>2, <4>6
    <3> QED BY <3>4, <3>5, <3>6
  <2> QED BY <2>6, <2>7
<1> QED BY <1>9, <1>10, <1>11

\* Five turns come round to rebooking, which is first in the order.
LEMMA RebookingHasATurn ==
  ASSUME NEW r \in Nat, r >= 1
  PROVE  \E t \in 0..4 : AgentOrder[1 + ((r - 1 + t) % 5)] = "rebooking"
<1> DEFINE k == (r - 1) % 5
           q == (r - 1) \div 5
<1>1. k \in 0..4 /\ q \in Int /\ r - 1 = 5 * q + k
  OBVIOUS
<1>2. AgentOrder[1] = "rebooking"
  BY DEF AgentOrder
<1> HIDE DEF k, q
<1>3. ASSUME NEW t \in 0..4, k + t = 0 \/ k + t = 5
      PROVE  (r - 1 + t) % 5 = 0
  BY <1>1, <1>3
<1>4. \E t \in 0..4 : k + t = 0 \/ k + t = 5
  BY <1>1
<1> QED BY <1>2, <1>3, <1>4

\* A new round's turns start with the first.
LEMMA NewRoundsStartOver ==
  ASSUME StormInv, StormNext, TurnsStartOver, condition # "single",
         ~Consult, ~File, ~TakePosition, ~TurnOver, phase' = "propose"
  PROVE  turn' = 0
<1> USE DEF Goto, engineVars
<1>1. CASE Register \/ StartSociety
  BY <1>1 DEF Register, StartSociety, TurnsStartOver
<1>2. CASE Mediate \/ MediateAtTheCap \/ ApplyNext \/ ApplyDone
  BY <1>2 DEF Mediate, MediateAtTheCap, Rule, Fiat, Decree, ApplyNext, RulingOp, ApplyDone, EndOps
<1>3. CASE Engine
  <2>1. phase \notin {"propose", "positions", "aborted"}
    BY <1>3, EnginePhases
  <2>2. TurnsStartOver'
    BY TurnsStartOverStep
  <2>3. turn = 0
    BY <2>1 DEF TurnsStartOver
  <2>4. CASE RevealNext \/ EndReveals \/ ScanRound \/ EndRulings
    BY <2>3, <2>4 DEF RevealNext, EndReveals, ScanRound, EndRulings
  <2>5. CASE EndSettlement \/ EndRound \/ SafetyFinalize \/ EndContestSweep \/ EndSweep
    BY <2>3, <2>5 DEF EndSettlement, EndRound, SafetyFinalize, EndContestSweep, EndSweep
  <2>6. ASSUME NEW x, SettleContest(x) \/ SweepContest(x) \/ SweepClaim(x) PROVE turn' = 0
    BY <2>3, <2>6 DEF SettleContest, SweepContest, SweepClaim
  <2> QED BY <1>3, <2>4, <2>5, <2>6 DEF Engine
<1>4. CASE StartPlanner \/ PlanFirst \/ PlanSeats \/ SeatNext \/ EndPlan
  BY <1>4, NotNegotiated DEF StartPlanner, PlanFirst, PlanSeats, SeatNext, EndPlan
<1> QED BY <1>1, <1>2, <1>3, <1>4 DEF StormNext

\* Seats are open, and sought, as long as nobody gets or loses one.
LEMMA SeatsStayOpen ==
  ASSUME UNCHANGED <<alloc, scenario>>, NEW p, NEW f
  PROVE  /\ IsOpenTo(p, f)' <=> IsOpenTo(p, f)
         /\ \A b : Seeks(b, p, f)' <=> Seeks(b, p, f)
<1>1. \A r : Free(r)' = Free(r)
  BY DEF Free, Ledger!Used
<1>2. SeatedPax' = SeatedPax
  BY DEF SeatedPax, HasSeat
<1>3. Free(Seat(scenario, f))' = Free(Seat(scenario, f))
  BY <1>1
<1> QED BY <1>2, <1>3 DEF IsOpenTo, IsFree, Seeks

\* An answer is given: rebooking's asks for what is open.
LEMMA AnswersSeek ==
  ASSUME StormInv, Ledger!ClaimsMatchTheirSeals, RebookingAsks, CrewUnits,
         CrewClaimsAreNotBlocked, SeatsOfTheStorm, OpenSeatsAreSought, condition # "single",
         Consult, round' >= 3, RebookingIsIn', NEW p, NEW f, IsOpenTo(p, f)'
  PROVE  Waits(p, f)' \/ ToBeFiled(p, f)' \/ ToBeRevealed(p, f)'
<1>1. /\ ~asked /\ asked' = TRUE /\ phase \in {"propose", "positions"}
      /\ UNCHANGED <<claims, alloc, commitments, sealed, phase, round, turn, scenario>>
  BY DEF Consult, vars, ledgerVars, engineVars, stormVars
<1>2. phase = "propose"
  BY <1>1 DEF RebookingIsIn
<1>3. /\ IsOpenTo(p, f)
      /\ \A b : Seeks(b, p, f)' <=> Seeks(b, p, f)
  BY <1>1, SeatsStayOpen
<1>4. Waits(p, f) => Waits(p, f)'
  BY <1>1 DEF Waits, Blocked
<1>5. CASE HasSpoken("rebooking")'
  <2>1. HasSpoken("rebooking")
    BY <1>1, <1>5 DEF HasSpoken
  <2>2. Waits(p, f) \/ ToBeRevealed(p, f)
    BY <1>1, <1>2, <1>3, <2>1 DEF OpenSeatsAreSought, RebookingIsIn, ToBeFiled
  <2>3. ASSUME ToBeRevealed(p, f) PROVE ToBeRevealed(p, f)'
    <3>1. PICK i \in 1..Len(sealed) :
            /\ commitments[sealed[i]].agent = commitments[sealed[i]].digest.agent
            /\ Seeks(commitments[sealed[i]].digest, p, f)
      BY <2>3 DEF ToBeRevealed
    <3>2. PICK b : b = commitments[sealed[i]].digest
      OBVIOUS
    <3>3. Seeks(b, p, f)'
      BY <1>3, <3>1, <3>2
    <3>4. commitments'[sealed'[i]].digest = b
      BY <1>1, <3>2
    <3> QED BY <1>1, <3>1, <3>2, <3>3, <3>4 DEF ToBeRevealed, Seeks
  <2> QED BY <1>4, <2>2, <2>3
<1>6. CASE ~HasSpoken("rebooking")'
  <2>1. Speaker = "rebooking"
    <3>1. Speaker' = "rebooking"
      BY <1>1, <1>2, <1>6 DEF RebookingIsIn
    <3> QED BY <1>1, <3>1 DEF Speaker
  <2>2. script' = RebookingProposes(View)
    BY <1>2, <2>1 DEF Consult, Proposals
  <2>3. PICK s : s = RebookingProposes(View)
    OBVIOUS
  <2>4. PICK n : n = Free(Seat(scenario, f))
    OBVIOUS
  <2>5. Waits(p, f) \/ AsksEnough(s, p, f, n)
    BY <1>1, <1>2, <1>3, <2>3, <2>4, LateAnswersAsk
  <2>6. ASSUME AsksEnough(s, p, f, n) PROVE ToBeFiled(p, f)'
    <3>1. PICK i \in 1..Len(s) : \E g \in Flight :
            /\ s[i].resource = Seat(scenario, g)
            /\ p \in ToSet(s[i].wish) \/ (g = f /\ Cardinality(ToSet(s[i].wish)) = n)
      BY <2>6 DEF AsksEnough
    <3>2. n \in Nat
      <4>1. Seat(scenario, f) \in registered
        BY <1>2, <1>3, Negotiated, LegalFlightsAreFlights DEF Ready, IsOpenTo
      <4> QED BY <2>4, <4>1, FreeIsANumber
    <3>3. PICK b : b = Sealed(s[i])
      OBVIOUS
    <3>4. b.resource = s[i].resource /\ b.bens = ToSet(s[i].wish)
      BY <3>3 DEF Sealed
    <3>5. Seeks(b, p, f)
      BY <2>4, <3>1, <3>2, <3>4 DEF Seeks
    <3>6. Seeks(b, p, f)'
      BY <1>3, <3>5
    <3>7. script' = s
      BY <2>2, <2>3
    <3>8. Sealed(script'[i]) = b
      BY <3>3, <3>7
    <3>9. phase' = "propose" /\ asked' /\ i \in 1..Len(script')
      BY <1>1, <1>2, <3>7
    <3> QED BY <3>6, <3>8, <3>9 DEF ToBeFiled, Seeks
  <2> QED BY <1>4, <2>5, <2>6
<1> QED BY <1>5, <1>6

\* A bid is filed: what it seeks is sealed.
LEMMA FilingSeeksOn ==
  ASSUME StormInv, OpenSeatsAreSought, condition # "single",
         File, round' >= 3, RebookingIsIn', NEW p, NEW f, IsOpenTo(p, f)'
  PROVE  Waits(p, f)' \/ ToBeFiled(p, f)' \/ ToBeRevealed(p, f)'
<1> DEFINE h == Head(script)
           n == commitSeq + 1
<1>1. /\ phase = "propose" /\ asked /\ asked' = asked /\ script # <<>> /\ script' = Tail(script)
      /\ Propose(Sealed(h)) /\ scenario' = scenario
  BY DEF File
<1>2. /\ UNCHANGED <<phase, round, turn, alloc, claims>> /\ sealed' = Append(sealed, n)
      /\ Sealed(h).agent = Speaker /\ commitSeq < MaxCommits
      /\ commitments' = [commitments EXCEPT ![n] =
             [agent |-> Speaker, digest |-> Sealed(h), state |-> "sealed", claim |-> 0]]
  BY <1>1 DEF Propose, Ledger!Commit
<1>3. script \in Seq(Bids)
  BY <1>1 DEF StormInv, ScriptIsLegal
<1>4. /\ 1 \in 1..Len(script) /\ h = script[1]
      /\ Len(Tail(script)) = Len(script) - 1 /\ Len(script) \in Nat
      /\ \A i \in 1..Len(script) - 1 : Tail(script)[i] = script[i + 1] /\ i + 1 \in 1..Len(script)
  BY <1>1, <1>3, FirstAndRest
<1> HIDE DEF h
<1>5. Ledger!TypeOK /\ Ledger!NextIdsAreFree /\ SealsAreKept
  BY LedgerFacts DEF StormInv, StageIsSet, EngineHolds
<1>6. n \in 1..MaxCommits /\ commitSeq \in Nat
  BY <1>2, <1>5, LedgerAssumption DEF Ledger!TypeOK
<1>7. commitments = [m \in 1..MaxCommits |-> commitments[m]]
  BY <1>5 DEF Ledger!TypeOK, Ledger!CommitId
<1>8. commitments[n].state = "absent"
  BY <1>5, <1>6 DEF Ledger!NextIdsAreFree, Ledger!CommitId
<1>9. PICK m \in 1..MaxCommits : m = n
  BY <1>6
<1> HIDE DEF n
<1>10. /\ commitments'[m].digest = Sealed(h) /\ commitments'[m].agent = Speaker
       /\ \A k \in 1..MaxCommits : k # m => commitments'[k] = commitments[k]
  BY <1>2, <1>7, <1>9
<1>11. /\ sealed \in Seq(1..MaxCommits) /\ Len(sealed) \in Nat
       /\ Len(sealed') = Len(sealed) + 1 /\ sealed'[Len(sealed) + 1] = m
       /\ \A j \in 1..Len(sealed) : sealed'[j] = sealed[j] /\ sealed[j] \in 1..MaxCommits
  <2>1. sealed \in Seq(1..MaxCommits) /\ sealed' = Append(sealed, m)
    BY <1>2, <1>5, <1>9 DEF SealsAreKept
  <2>2. \A j \in 1..Len(sealed) : Append(sealed, m)[j] = sealed[j] /\ sealed[j] \in 1..MaxCommits
    BY <2>1, AppendedKeepsItems
  <2>3. Len(sealed) \in Nat /\ Len(Append(sealed, m)) = Len(sealed) + 1
        /\ Append(sealed, m)[Len(sealed) + 1] = m
    BY <2>1
  <2> QED BY <2>1, <2>2, <2>3
<1>12. /\ IsOpenTo(p, f)
       /\ \A b : Seeks(b, p, f)' <=> Seeks(b, p, f)
  BY <1>1, <1>2, SeatsStayOpen
<1>13. Waits(p, f) \/ ToBeFiled(p, f) \/ ToBeRevealed(p, f)
  <2>1. Speaker' = Speaker /\ HasSpoken("rebooking")' = HasSpoken("rebooking")
    BY <1>2 DEF Speaker, HasSpoken
  <2>2. RebookingIsIn
    BY <1>1, <1>2, <2>1 DEF RebookingIsIn
  <2> QED BY <1>2, <1>12, <2>2 DEF OpenSeatsAreSought
<1>14. Waits(p, f) => Waits(p, f)'
  BY <1>1, <1>2 DEF Waits, Blocked
<1>15. ASSUME ToBeFiled(p, f) PROVE ToBeFiled(p, f)' \/ ToBeRevealed(p, f)'
  <2>1. PICK i \in 1..Len(script) : Seeks(Sealed(script[i]), p, f)
    BY <1>15 DEF ToBeFiled
  <2>2. PICK b : b = Sealed(script[i])
    OBVIOUS
  <2>3. Seeks(b, p, f)'
    BY <1>12, <2>1, <2>2
  <2>4. CASE i = 1
    <3>1. commitments'[m].digest = b /\ commitments'[m].agent = b.agent
      BY <1>2, <1>4, <1>10, <2>2, <2>4
    <3>2. Len(sealed) + 1 \in 1..Len(sealed')
      BY <1>11
    <3>3. PICK j : j = Len(sealed) + 1
      OBVIOUS
    <3>4. j \in 1..Len(sealed') /\ sealed'[j] = m
      BY <1>11, <3>2, <3>3
    <3>5. /\ commitments'[sealed'[j]].agent = commitments'[sealed'[j]].digest.agent
          /\ commitments'[sealed'[j]].digest = b
      BY <3>1, <3>4
    <3> QED BY <2>3, <3>4, <3>5 DEF ToBeRevealed, Seeks
  <2>5. CASE i # 1
    <3>1. PICK j \in 1..Len(script) - 1 : j + 1 = i
      BY <1>4, <2>5
    <3>2. j \in 1..Len(script') /\ script'[j] = script[i]
      BY <1>1, <1>4, <3>1
    <3>3. Sealed(script'[j]) = b
      BY <2>2, <3>2
    <3> QED BY <1>1, <1>2, <2>3, <3>2, <3>3 DEF ToBeFiled, Seeks
  <2> QED BY <2>4, <2>5
<1>16. ASSUME ToBeRevealed(p, f) PROVE ToBeRevealed(p, f)'
  <2>1. PICK i \in 1..Len(sealed) :
          /\ commitments[sealed[i]].agent = commitments[sealed[i]].digest.agent
          /\ Seeks(commitments[sealed[i]].digest, p, f)
    BY <1>16 DEF ToBeRevealed
  <2>2. PICK k \in 1..MaxCommits : k = sealed[i]
    BY <1>11
  <2>3. k # m
    BY <1>5, <1>8, <1>9, <2>2 DEF SealsAreKept
  <2>4. PICK b : b = commitments[k].digest
    OBVIOUS
  <2>5. Seeks(b, p, f)'
    BY <1>12, <2>1, <2>2, <2>4
  <2>6. /\ i \in 1..Len(sealed') /\ sealed'[i] = k
        /\ commitments'[k].digest = b /\ commitments'[k].agent = b.agent
    BY <1>10, <1>11, <2>1, <2>2, <2>3, <2>4
  <2>7. /\ commitments'[sealed'[i]].digest = b
        /\ commitments'[sealed'[i]].agent = commitments'[sealed'[i]].digest.agent
    BY <2>6
  <2> QED BY <2>5, <2>6, <2>7 DEF ToBeRevealed, Seeks
<1> QED BY <1>13, <1>14, <1>15, <1>16

\* A turn ends: rebooking has spoken, if it was its turn.
LEMMA TurnsSeekOn ==
  ASSUME StormInv, OpenSeatsAreSought, condition # "single",
         TurnOver, round' >= 3, RebookingIsIn', NEW p, NEW f, IsOpenTo(p, f)'
  PROVE  Waits(p, f)' \/ ToBeFiled(p, f)' \/ ToBeRevealed(p, f)'
<1>1. /\ phase \in {"propose", "positions"} /\ asked /\ script = <<>> /\ ~asked'
      /\ UNCHANGED <<claims, alloc, commitments, round, scenario, sealed>>
      /\ \/ turn + 1 < Len(AgentList) /\ turn' = turn + 1 /\ phase' = phase
         \/ /\ ~(turn + 1 < Len(AgentList)) /\ turn' = 0
            /\ phase' = IF phase = "propose" THEN "reveal" ELSE "scan"
  BY TurnsGoRound DEF ledgerVars, TurnOver, EndTurn
<1>2. /\ round \in Nat /\ round >= 1 /\ turn \in Nat /\ turn < 5 /\ Len(AgentList) = 5
      /\ AgentList = AgentOrder
  BY RunIsOn, AirlineAssumption
<1>3. phase = "propose"
  <2>1. turn + 1 # 0
    BY <1>2
  <2> QED BY <1>1, <2>1 DEF RebookingIsIn
<1>4. \E t \in 0..turn : AgentList[1 + ((round - 1 + t) % Len(AgentList))] = "rebooking"
  <2>1. CASE turn + 1 < Len(AgentList)
    <3>1. phase' = "propose" /\ turn' = turn + 1
      BY <1>1, <1>3, <2>1
    <3>2. HasSpoken("rebooking")'
      BY <1>1, <3>1 DEF RebookingIsIn
    <3>3. PICK t \in 0..turn' - 1 :
            AgentList[1 + ((round' - 1 + t) % Len(AgentList))] = "rebooking"
      BY <3>2 DEF HasSpoken
    <3>4. t \in 0..turn
      BY <1>2, <3>1
    <3> QED BY <1>1, <3>3, <3>4
  <2>2. CASE ~(turn + 1 < Len(AgentList))
    <3>1. turn = 4
      BY <1>2, <2>2
    <3>2. PICK r \in Nat : r = round /\ r >= 1
      BY <1>2
    <3>3. PICK t \in 0..4 : AgentOrder[1 + ((r - 1 + t) % 5)] = "rebooking"
      BY <3>2, RebookingHasATurn
    <3> QED BY <1>2, <3>1, <3>2, <3>3
  <2> QED BY <2>1, <2>2
<1>5. RebookingIsIn
  <2>1. PICK t \in 0..turn : AgentList[1 + ((round - 1 + t) % Len(AgentList))] = "rebooking"
    BY <1>4
  <2>2. CASE t = turn
    BY <1>1, <1>3, <2>1, <2>2 DEF RebookingIsIn, Speaker
  <2>3. CASE t # turn
    <3>1. t \in 0..turn - 1
      BY <1>2, <2>3
    <3> QED BY <1>3, <2>1, <3>1 DEF RebookingIsIn, HasSpoken
  <2> QED BY <2>2, <2>3
<1>6. /\ IsOpenTo(p, f)
      /\ \A b : Seeks(b, p, f)' <=> Seeks(b, p, f)
  BY <1>1, SeatsStayOpen
<1>7. Waits(p, f) \/ ToBeRevealed(p, f)
  <2>1. ~ToBeFiled(p, f)
    BY <1>1 DEF ToBeFiled
  <2> QED BY <1>1, <1>5, <1>6, <2>1 DEF OpenSeatsAreSought
<1>8. Waits(p, f) => Waits(p, f)'
  BY <1>1 DEF Waits, Blocked
<1>9. ASSUME ToBeRevealed(p, f) PROVE ToBeRevealed(p, f)'
  <2>1. PICK i \in 1..Len(sealed) :
          /\ commitments[sealed[i]].agent = commitments[sealed[i]].digest.agent
          /\ Seeks(commitments[sealed[i]].digest, p, f)
    BY <1>9 DEF ToBeRevealed
  <2>2. PICK b : b = commitments[sealed[i]].digest
    OBVIOUS
  <2>3. Seeks(b, p, f)'
    BY <1>6, <2>1, <2>2
  <2>4. commitments'[sealed'[i]].digest = b
    BY <1>1, <2>2
  <2> QED BY <1>1, <2>1, <2>2, <2>3, <2>4 DEF ToBeRevealed, Seeks
<1> QED BY <1>7, <1>8, <1>9

\* Whatever the step, what is open from the third round on is asked for.
LEMMA OpenSeatsAreSoughtStep ==
  ASSUME StormInv, StormInv', RunGoesOn, Ledger!ClaimsMatchTheirSeals, RebookingAsks, CrewUnits,
         CrewClaimsAreNotBlocked, SeatsOfTheStorm, TurnsStartOver, OpenSeatsAreSought,
         condition # "single", StormNext
  PROVE  OpenSeatsAreSought'
<1> SUFFICES ASSUME round' >= 3, RebookingIsIn', NEW p, NEW f, IsOpenTo(p, f)'
             PROVE  Waits(p, f)' \/ ToBeFiled(p, f)' \/ ToBeRevealed(p, f)'
  BY DEF OpenSeatsAreSought
<1>1. CASE Consult
  BY <1>1, AnswersSeek
<1>2. CASE File
  BY <1>2, FilingSeeksOn
<1>3. CASE TakePosition
  BY <1>3, PositionsAreTaken DEF RebookingIsIn
<1>4. CASE TurnOver
  BY <1>4, TurnsSeekOn
<1>5. CASE RevealNext
  <2>1. round >= 3
    BY <1>5 DEF RevealNext
  <2>2. scenario' = scenario
    BY DEF StormNext, Register, StartSociety, Done, Idle, Consult, File, TakePosition, TurnOver,
       Mediate, MediateAtTheCap, Decree, ApplyNext, ApplyDone, Engine, StartPlanner, PlanFirst,
       PlanSeats, SeatNext, EndPlan, stormVars
  <2> QED BY <1>5, <2>1, <2>2, RevealsMeetWhatIsSought
<1>6. CASE EndReveals /\ Idle
  <2>1. /\ phase = "reveal" /\ sealed = <<>>
        /\ UNCHANGED <<claims, alloc, round, scenario>>
    BY <1>6 DEF EndReveals, Idle, ledgerVars, stormVars
  <2>2. IsOpenTo(p, f)
    BY <2>1, SeatsStayOpen
  <2>3. ~ToBeFiled(p, f) /\ ~ToBeRevealed(p, f)
    BY <2>1 DEF ToBeFiled, ToBeRevealed
  <2>4. Waits(p, f)
    BY <2>1, <2>2, <2>3 DEF OpenSeatsAreSought, RebookingIsIn
  <2> QED BY <2>1, <2>4 DEF Waits, Blocked
<1>7. CASE ~Consult /\ ~File /\ ~TakePosition /\ ~TurnOver /\ ~RevealNext /\ ~(EndReveals /\ Idle)
  <2>1. /\ ~asked'
        /\ phase' \in {"reveal", "positions"} => phase = "reveal"
    BY <1>7, OtherSteps
  <2>2. phase # "reveal"
    <3> SUFFICES ASSUME phase = "reveal" PROVE FALSE
      OBVIOUS
    <3>1. Engine
      BY <1>7, NotNegotiated DEF StormNext, Register, StartSociety, Mediate, MediateAtTheCap,
         Rule, Fiat, ApplyNext, RulingOp, ApplyDone, EndOps, StartPlanner, PlanFirst, PlanSeats,
         SeatNext, EndPlan
    <3>2. ~(\E x \in settling : SettleContest(x)) /\ ~(\E x \in settling : SweepContest(x))
          /\ ~(\E c \in clearing : SweepClaim(c))
      BY DEF SettleContest, SweepContest, SweepClaim
    <3>3. /\ ~ScanRound /\ ~EndRulings /\ ~EndSettlement /\ ~EndRound /\ ~SafetyFinalize
          /\ ~EndContestSweep /\ ~EndSweep
      BY DEF ScanRound, EndRulings, EndSettlement, EndRound, SafetyFinalize, EndContestSweep, EndSweep
    <3> QED BY <1>7, <3>1, <3>2, <3>3 DEF Engine
  <2>3. phase' = "propose" /\ HasSpoken("rebooking")'
    BY <2>1, <2>2 DEF RebookingIsIn
  <2>4. turn' = 0
    BY <1>7, <2>3, NewRoundsStartOver
  <2> QED BY <2>3, <2>4 DEF HasSpoken
<1> QED BY <1>1, <1>2, <1>3, <1>4, <1>5, <1>6, <1>7

\* The inductive invariant: the others say what rebooking can have asked for and hold.
SeatsInv ==
  condition # "single" =>
    /\ SeatsOfTheStorm
    /\ RebookingAsks
    /\ CrewUnits
    /\ TurnsStartOver
    /\ OpenSeatsAreSought

LEMMA SeatsStep ==
  ASSUME StormInv, StormInv', RunGoesOn, Ledger!ClaimsMatchTheirSeals, CrewInv, StormNext, SeatsInv
  PROVE  SeatsInv'
<1>1. condition' = condition
  BY DEF StormNext, Register, StartSociety, Done, Idle, Consult, File, TakePosition, TurnOver,
     Mediate, MediateAtTheCap, Decree, ApplyNext, ApplyDone, Engine, StartPlanner, PlanFirst,
     PlanSeats, SeatNext, EndPlan, stormVars
<1> SUFFICES ASSUME condition # "single"
             PROVE  /\ SeatsOfTheStorm' /\ RebookingAsks' /\ CrewUnits' /\ TurnsStartOver'
                    /\ OpenSeatsAreSought'
  BY <1>1 DEF SeatsInv
<1>2. /\ SeatsOfTheStorm /\ RebookingAsks /\ CrewUnits /\ TurnsStartOver /\ OpenSeatsAreSought
      /\ CrewBids /\ CrewClaimsAreNotBlocked
  BY DEF SeatsInv, CrewInv
<1>3. SeatsOfTheStorm' /\ RebookingAsks'
  BY <1>2, SeatsOfTheStormStep, RebookingAsksStep
<1>4. CrewUnits' /\ TurnsStartOver'
  BY <1>2, CrewUnitsStep, TurnsStartOverStep
<1>5. OpenSeatsAreSought'
  BY <1>2, OpenSeatsAreSoughtStep
<1> QED BY <1>3, <1>4, <1>5

\* Before the first bid nobody has asked for anything.
LEMMA SeatsStartUnsought == StormInit => SeatsInv
<1> SUFFICES ASSUME StormInit PROVE SeatsInv
  OBVIOUS
<1>1. /\ phase = "setup" /\ round = 1 /\ turn = 0 /\ commitSeq = 0 /\ alloc = {} /\ registered = {}
      /\ scenario \in Scenarios /\ script = Registrations(scenario)
  BY DEF StormInit, Init, Ledger!Init
<1>2. SeatsOfTheStorm
  BY <1>1, RegistrationsAreOfTheStorm DEF SeatsOfTheStorm
<1>3. RebookingAsks /\ CrewUnits /\ TurnsStartOver /\ OpenSeatsAreSought
  BY <1>1 DEF RebookingAsks, CrewUnits, TurnsStartOver, OpenSeatsAreSought
<1> QED BY <1>2, <1>3 DEF SeatsInv

\* The invariant is about the variables of the run.
LEMMA SeatsInvStutters == SeatsInv /\ UNCHANGED runVars => SeatsInv'
<1> SUFFICES ASSUME SeatsInv, UNCHANGED runVars PROVE SeatsInv'
  OBVIOUS
<1>1. /\ UNCHANGED <<condition, scenario, phase, round, turn, asked, script, sealed>>
      /\ UNCHANGED <<registered, claims, alloc, commitments, commitSeq>>
  BY DEF runVars, vars, ledgerVars, engineVars, stormVars
<1>2. Speaker' = Speaker
  BY <1>1 DEF Speaker
<1>3. SeatsOfTheStorm => SeatsOfTheStorm'
  BY <1>1 DEF SeatsOfTheStorm, IsSeatOfStorm
<1>4. RebookingAsks => RebookingAsks'
  BY <1>1, <1>2 DEF RebookingAsks, IsSeatOrCrew
<1>5. (CrewUnits => CrewUnits') /\ (TurnsStartOver => TurnsStartOver')
  BY <1>1 DEF CrewUnits, TurnsStartOver
<1>6. ASSUME OpenSeatsAreSought PROVE OpenSeatsAreSought'
  <2> SUFFICES ASSUME round' >= 3, RebookingIsIn', NEW p, NEW f, IsOpenTo(p, f)'
               PROVE  Waits(p, f)' \/ ToBeFiled(p, f)' \/ ToBeRevealed(p, f)'
    BY DEF OpenSeatsAreSought
  <2>1. RebookingIsIn
    BY <1>1, <1>2 DEF RebookingIsIn, HasSpoken
  <2>2. /\ IsOpenTo(p, f)
        /\ \A b : Seeks(b, p, f)' <=> Seeks(b, p, f)
    BY <1>1, SeatsStayOpen
  <2>3. Waits(p, f) \/ ToBeFiled(p, f) \/ ToBeRevealed(p, f)
    BY <1>1, <1>6, <2>1, <2>2 DEF OpenSeatsAreSought
  <2>4. Waits(p, f) => Waits(p, f)'
    BY <1>1 DEF Waits, Blocked
  <2>5. ASSUME NEW b, Seeks(b, p, f) PROVE Seeks(b, p, f)'
    BY <2>2, <2>5
  <2>6. ToBeFiled(p, f) => ToBeFiled(p, f)'
    <3> SUFFICES ASSUME ToBeFiled(p, f) PROVE ToBeFiled(p, f)'
      OBVIOUS
    <3>1. PICK i \in 1..Len(script) : Seeks(Sealed(script[i]), p, f)
      BY DEF ToBeFiled
    <3>2. PICK b : b = Sealed(script[i])
      OBVIOUS
    <3>3. Seeks(b, p, f)' /\ Sealed(script'[i]) = b
      BY <1>1, <2>5, <3>1, <3>2
    <3>4. phase' = "propose" /\ asked' /\ i \in 1..Len(script')
      BY <1>1 DEF ToBeFiled
    <3> QED BY <3>3, <3>4 DEF ToBeFiled, Seeks
  <2>7. ToBeRevealed(p, f) => ToBeRevealed(p, f)'
    <3> SUFFICES ASSUME ToBeRevealed(p, f) PROVE ToBeRevealed(p, f)'
      OBVIOUS
    <3>1. PICK i \in 1..Len(sealed) :
            /\ commitments[sealed[i]].agent = commitments[sealed[i]].digest.agent
            /\ Seeks(commitments[sealed[i]].digest, p, f)
      BY DEF ToBeRevealed
    <3>2. PICK b : b = commitments[sealed[i]].digest
      OBVIOUS
    <3>3. Seeks(b, p, f)' /\ commitments'[sealed'[i]].digest = b
      BY <1>1, <2>5, <3>1, <3>2
    <3> QED BY <1>1, <3>1, <3>2, <3>3 DEF ToBeRevealed, Seeks
  <2> QED BY <2>3, <2>4, <2>6, <2>7
<1> QED BY <1>1, <1>3, <1>4, <1>5, <1>6 DEF SeatsInv

\* When the bids are in there is nothing left to file or to reveal.
LEMMA SoughtSeatsAreClaimed ==
  ASSUME StormInv, SeatsInv
  PROVE  OpenSeatsAreClaimed
<1> SUFFICES ASSUME phase = "positions", turn = 0, ~asked, round >= 3,
                    NEW p \in Passenger \ SeatedPax, NEW f \in Flight \ {"QW441"},
                    f \in Legal(scenario, p), IsFree(f)
             PROVE  Waits(p, f)
  BY DEF OpenSeatsAreClaimed, Waits
<1>1. condition # "single" /\ ControlIsTyped
  BY Negotiated
<1>2. sealed = <<>>
  BY <1>1 DEF ControlIsTyped
<1>3. RebookingIsIn /\ IsOpenTo(p, f)
  BY DEF RebookingIsIn, IsOpenTo
<1>4. ~ToBeFiled(p, f) /\ ~ToBeRevealed(p, f)
  BY <1>2 DEF ToBeFiled, ToBeRevealed
<1> QED BY <1>1, <1>3, <1>4 DEF SeatsInv, OpenSeatsAreSought

\* "Fill everything that is still open": from the third round on rebooking's answer
\* asks for every open seat somebody without one may take, and whatever others file
\* and are granted before its bids are revealed, the passenger is then seated, or the
\* flight is full, or one of the two waits for a ruling.
THEOREM OpenSeatsAreAskedFor == StormSpec => []OpenSeatsAreClaimed
<1>1. StormInit => CrewInv /\ SeatsInv
  BY CrewsStartGrounded, SeatsStartUnsought
<1>2. /\ StormInv /\ RunGoesOn /\ RoomsInv /\ Ledger!ClaimsMatchTheirSeals /\ CrewInv
      /\ [StormNext]_runVars
      => CrewInv'
  BY CrewStep, CrewInvStutters
<1>3. /\ StormInv /\ StormInv' /\ RunGoesOn /\ Ledger!ClaimsMatchTheirSeals /\ CrewInv /\ SeatsInv
      /\ [StormNext]_runVars
      => SeatsInv'
  BY SeatsStep, SeatsInvStutters
<1>4. StormInv /\ SeatsInv => OpenSeatsAreClaimed
  BY SoughtSeatsAreClaimed
<1> QED BY <1>1, <1>2, <1>3, <1>4, RoomsInvIsInductive, RunGoesOnHolds, ClaimsAreSealed, StormInvHolds,
     PTL DEF StormSpec
=============================================================================
