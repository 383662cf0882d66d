------------------------------ MODULE Society ------------------------------
(***************************************************************************)
(* The round engine (src/src/tarmac_society/society.py): agents commit,    *)
(* reveal and file positions round after round over one ledger and one     *)
(* bank, the detector scans, the mediator rules, and the run ends at       *)
(* quiescence or is finalized at the round cap.                            *)
(*                                                                         *)
(* A step is one call the engine makes to an agent, the mediator, the      *)
(* ledger, the bank or the detector, in the order run() makes them; the    *)
(* calls are those of ClaimLedger, CredibilityBank and DeadlockDetector.   *)
(* Agents and the mediator are arbitrary: whatever the types allow, they   *)
(* may say.  A ruling's operations are chosen as they are applied, which   *)
(* gives the same runs, since nobody sees a ruling before it is applied.   *)
(* Decision-log entries of the engine itself and the snapshots are left    *)
(* out.                                                                    *)
(***************************************************************************)
EXTENDS Naturals, Sequences, FiniteSets

CONSTANTS Agent, Resource, Beneficiary, Capacity, Group, NoGroup,
          MaxClaims, MaxCommits,
          Account, Budget, ContestCost, Premium, MaxContests,
          ContestedRounds,
          AgentList,     \* Society.agents, a sequence without repetitions
          Known,         \* the resources registered before the run
          Settings       \* how runs are configured, see Setting

Setting == [mediator : BOOLEAN, rounds : Nat \ {0}, careful : BOOLEAN]
ASSUME SettingsAssumption == Settings \subseteq Setting
ASSUME EngineAssumption ==
  AgentList \in Seq(Agent) /\ AgentList # <<>> /\ Known \subseteq Resource
ASSUME LedgerAssumption ==
  /\ Capacity \in [Resource -> Nat] /\ IsFiniteSet(Beneficiary)
  /\ MaxClaims \in Nat /\ MaxCommits \in Nat
ASSUME BankAssumption ==
  /\ Account \subseteq Agent /\ Budget \in [Account -> Nat]
  /\ ContestCost \in Nat \ {0} /\ Premium \in Nat /\ MaxContests \in Nat

VARIABLES registered, commitments, claims, alloc, claimSeq, commitSeq,
          replayed, outcome,
          balance, contests, contestSeq, answer,
          streaks, fired,
          pending,     \* deadlocks of this round the mediator has not seen
          phase, round,
          turn,        \* how many agents have had their turn in this phase
          sealed,      \* commitments made this round and not revealed yet
          busy,        \* a claim was committed or a position filed this round
          ruling,      \* the deadlock being ruled on and the claims touched
          verdict,     \* how the ruling names each agent
          settling,    \* contests listed as open, and not reached yet: by the
                       \* ruling in hand, or by the sweep after the last round
          clearing,    \* claims listed as blocked that the sweep has not reached
          quiescent,
          setting      \* Society.mediator is not None, Society.max_rounds, and
                       \* whether agents and mediator keep to the protocol

Ledger == INSTANCE ClaimLedger
Bank == INSTANCE CredibilityBank WITH Filer <- Agent, Target <- 1..MaxClaims
Detector == INSTANCE DeadlockDetector WITH ClaimId <- 1..MaxClaims, found <- pending

ledgerVars == <<registered, commitments, claims, alloc, claimSeq, commitSeq,
                replayed, outcome>>
bankVars == <<balance, contests, contestSeq, answer>>
detectorVars == <<streaks, fired, pending>>
rulingVars == <<ruling, verdict, settling, clearing>>
engineVars == <<phase, round, turn, sealed, busy, quiescent, setting>>
vars == <<ledgerVars, bankVars, detectorVars, rulingVars, engineVars>>

ClaimId == 1..MaxClaims
Phase == {"setup", "propose", "reveal", "positions", "scan", "rule", "ops",
          "settle", "round_end", "finalize", "sweep", "clear", "done",
          "aborted"}
HasMediator == setting.mediator
MaxRounds == setting.rounds
Careless == ~setting.careful
NoRuling == [resources |-> {}, touched |-> {}]

\* The agents take their turns in a list that is rotated by one every round.
Speaker == AgentList[1 + ((round - 1 + turn) % Len(AgentList))]

Blocked == {c \in ClaimId : claims[c].status = "blocked"}
OpenContests == {x \in Bank!ContestId : contests[x].status = "open"}
Final == round > MaxRounds

\* Contests and claims are read ORDER BY id.
IsFirst(x, S) == x \in S /\ \A y \in S : x <= y

\* What the detector's scan reads.
RowOf(c) == [claim |-> c, agent |-> claims[c].agent, resource |-> claims[c].resource]
CurrentView ==
  [blocked |-> {RowOf(c) : c \in Blocked},
   held |-> {RowOf(x.claim) : x \in alloc},
   challenged |-> {RowOf(c) : c \in {d \in ClaimId :
      Ledger!Granted(d) /\ \E x \in OpenContests : contests[x].target = d}}]
-----------------------------------------------------------------------------
Init ==
  /\ Ledger!Init
  /\ Bank!BankInit
  /\ Detector!DetectorInit
  /\ phase = "setup"
  /\ round = 1
  /\ turn = 0
  /\ sealed = <<>>
  /\ busy = FALSE
  /\ ruling = NoRuling
  /\ verdict = [a \in Agent |-> "none"]
  /\ settling = {}
  /\ clearing = {}
  /\ quiescent = FALSE
  /\ setting \in Settings

\* A call to the ledger that may end the run: only a LedgerError is caught.
Aborting(error) == outcome' = error
Goto(next) == phase' = next

Setup ==
  /\ phase = "setup"
  /\ \/ /\ \E r \in Known \ registered : Ledger!RegisterResource(r)
        /\ UNCHANGED phase
     \/ /\ registered = Known
        /\ Goto("propose")
        /\ UNCHANGED ledgerVars
  /\ UNCHANGED <<bankVars, detectorVars, rulingVars, round, turn, sealed, busy, quiescent, setting>>

EndTurn_OneTooMany ==
  /\ phase \in {"propose", "positions"}
  /\ IF turn < Len(AgentList)
       THEN turn' = turn + 1 /\ UNCHANGED phase
       ELSE turn' = 0 /\ Goto(IF phase = "propose" THEN "reveal" ELSE "scan")
  /\ UNCHANGED <<ledgerVars, bankVars, detectorVars, rulingVars, round, sealed, busy,
                 quiescent, setting>>
\* Round robin: the next agent's turn, or the next phase after the last one.
EndTurn ==
  /\ phase \in {"propose", "positions"}
  /\ IF turn + 1 < Len(AgentList)
       THEN turn' = turn + 1 /\ UNCHANGED phase
       ELSE turn' = 0 /\ Goto(IF phase = "propose" THEN "reveal" ELSE "scan")
  /\ UNCHANGED <<ledgerVars, bankVars, detectorVars, rulingVars, round, sealed, busy,
                 quiescent, setting>>

\* A claim or a position in another agent's name is a ProtocolError.
Impersonate ==
  /\ Careless
  /\ phase \in {"propose", "positions"}
  /\ Goto("aborted")
  /\ UNCHANGED <<ledgerVars, bankVars, detectorVars, rulingVars, round, turn, sealed,
                 busy, quiescent, setting>>

Propose(p) ==
  /\ phase = "propose"
  /\ p.agent = Speaker
  /\ Ledger!Commit(Speaker, p)
  /\ sealed' = Append(sealed, commitSeq')
  /\ busy' = TRUE
  /\ UNCHANGED <<bankVars, detectorVars, rulingVars, phase, round, turn, quiescent, setting>>

\* The engine reveals exactly what it sealed.  A LedgerError is noted and the
\* round goes on; anything else ends the run.
RevealNext ==
  /\ phase = "reveal"
  /\ sealed # <<>>
  /\ Ledger!Reveal(Head(sealed), commitments[Head(sealed)].digest, TRUE)
  /\ sealed' = Tail(sealed)
  /\ IF Aborting("integrity_violation") THEN Goto("aborted") ELSE UNCHANGED phase
  /\ UNCHANGED <<bankVars, detectorVars, rulingVars, round, turn, busy, quiescent, setting>>

EndReveals ==
  /\ phase = "reveal"
  /\ sealed = <<>>
  /\ Goto("positions")
  /\ UNCHANGED <<ledgerVars, bankVars, detectorVars, rulingVars, round, turn, sealed,
                 busy, quiescent, setting>>
-----------------------------------------------------------------------------
(* Positions *)

\* Support, a third party's yield, an unknown target, one's own claim blocked
\* or a claim blocked that is not granted: recorded, nothing else.
FileNote ==
  /\ phase = "positions"
  /\ busy' = TRUE
  /\ UNCHANGED <<ledgerVars, bankVars, detectorVars, rulingVars, phase, round, turn,
                 sealed, quiescent, setting>>

Contestable(c) == Ledger!Granted(c) /\ claims[c].agent # Speaker

FileBlock(c) ==
  /\ phase = "positions"
  /\ Contestable(c)
  /\ Bank!OpenContest(Speaker, c)
  /\ busy' = TRUE
  /\ IF answer' = "currency_error" THEN Goto("aborted") ELSE UNCHANGED phase
  /\ UNCHANGED <<ledgerVars, detectorVars, rulingVars, round, turn, sealed, quiescent, setting>>

\* A yield that names a beneficiary who holds nothing ends the run.
FileYield(c, l) ==
  /\ phase = "positions"
  /\ Ledger!HasClaim(c) /\ claims[c].agent = Speaker
  /\ \/ /\ Ledger!Granted(c)
        /\ Careless \/ Ledger!CanDeallocate(c, l)
        /\ Ledger!Release(Speaker, c, l)
     \/ /\ claims[c].status = "blocked"
        /\ Ledger!Withdraw(Speaker, c)
  /\ busy' = TRUE
  /\ IF Aborting("ledger_error") THEN Goto("aborted") ELSE UNCHANGED phase
  /\ UNCHANGED <<bankVars, detectorVars, rulingVars, round, turn, sealed, quiescent, setting>>

ScanRound ==
  /\ phase = "scan"
  /\ Detector!Scan(CurrentView)
  /\ Goto(IF HasMediator THEN "rule" ELSE "round_end")
  /\ UNCHANGED <<ledgerVars, bankVars, rulingVars, round, turn, sealed, busy, quiescent, setting>>
-----------------------------------------------------------------------------
(* Rulings *)

\* The mediator rules on the deadlocks of the round, cycles first.  A ruling
\* none of whose citations resolves is dropped; nothing is reset for it.
Rule(d) ==
  /\ phase = "rule"
  /\ d \in pending
  /\ d.kind = "contested" => \A e \in pending : e.kind = "contested"
  /\ pending' = pending \ {d}
  /\ \/ /\ Goto("ops")
        /\ ruling' = [resources |-> d.resources, touched |-> d.claims]
     \/ UNCHANGED <<phase, ruling>>
  /\ UNCHANGED <<ledgerVars, bankVars, streaks, fired, verdict, settling, clearing, round,
                 turn, sealed, busy, quiescent, setting>>

EndRulings ==
  /\ phase = "rule"
  /\ pending = {}
  /\ Goto("round_end")
  /\ UNCHANGED <<ledgerVars, bankVars, detectorVars, rulingVars, round, turn, sealed,
                 busy, quiescent, setting>>

\* apply_ruling_ops with one op
ApplyOp(op, c, l) ==
  \/ op = "revoke" /\ Ledger!RevokeOp(c, l)
  \/ op = "grant" /\ Ledger!GrantOp(c, l)
  \/ op = "void" /\ Ledger!VoidClaim(c)

\* One op.  What it names counts as touched even if the ledger refuses it.
RulingOp(op, c, l) ==
  /\ phase = "ops"
  /\ Careless \/ ~l.repeats
  /\ ApplyOp(op, c, l)
  /\ ruling' = [ruling EXCEPT !.touched = @ \union {c}]
  /\ IF Aborting("integrity_violation") THEN Goto("aborted") ELSE UNCHANGED phase
  /\ UNCHANGED <<bankVars, detectorVars, verdict, settling, clearing, round, turn, sealed,
                 busy, quiescent, setting>>

\* The ops are done; the ruling's winners and losers decide the contests.
\* Whoever is named as both counts as a winner.
EndOps ==
  /\ phase = "ops"
  /\ verdict' \in [Agent -> {"winner", "loser", "none"}]
  /\ settling' = OpenContests
  /\ Goto("settle")
  /\ UNCHANGED <<ledgerVars, bankVars, detectorVars, ruling, clearing, round, turn, sealed,
                 busy, quiescent, setting>>

\* _settle_contests, one contest: the agents named win or lose whatever they
\* contest; the others get their stake back if the claim was touched.
Settlement_NamedOnly(x) ==
  LET named == verdict[contests[x].agent]
  IN \/ named = "winner" /\ Bank!Settle(x, TRUE)
     \/ named = "loser" /\ Bank!Settle(x, FALSE)
     \/ named = "none" /\ UNCHANGED bankVars
Settlement(x) ==
  LET named == verdict[contests[x].agent]
      relevant == contests[x].target \in ruling.touched
  IN \/ named = "winner" /\ Bank!Settle(x, TRUE)
     \/ named = "loser" /\ Bank!Settle(x, FALSE)
     \/ named = "none" /\ relevant /\ Bank!VoidContest(x)
     \/ named = "none" /\ ~relevant /\ UNCHANGED bankVars

SettleContest(x) ==
  /\ phase = "settle"
  /\ IsFirst(x, settling)
  /\ Settlement(x)
  /\ settling' = settling \ {x}
  /\ UNCHANGED <<ledgerVars, detectorVars, ruling, verdict, clearing, engineVars>>

\* After the fiat ruling the contests still open are listed for the sweep.
EndSettlement ==
  /\ phase = "settle"
  /\ settling = {}
  /\ Detector!ResetResources(ruling.resources)
  /\ Goto(IF Final THEN "sweep" ELSE "rule")
  /\ ruling' = NoRuling
  /\ verdict' = [a \in Agent |-> "none"]
  /\ settling' = IF Final THEN OpenContests ELSE {}
  /\ UNCHANGED <<ledgerVars, bankVars, clearing, round, turn, sealed, busy, quiescent, setting>>
-----------------------------------------------------------------------------
(* The end of a round and of the run *)

Quiet == ~busy /\ Blocked = {} /\ OpenContests = {}

EndRound ==
  /\ phase = "round_end"
  /\ pending' = {}
  /\ \/ /\ Quiet
        /\ quiescent' = TRUE
        /\ Goto("done")
        /\ UNCHANGED <<round, busy>>
     \/ /\ ~Quiet
        /\ round' = round + 1
        /\ busy' = FALSE
        /\ Goto(IF round < MaxRounds THEN "propose" ELSE "finalize")
        /\ UNCHANGED quiescent
  /\ UNCHANGED <<ledgerVars, bankVars, streaks, fired, rulingVars, turn, sealed, setting>>

\* The mediator's fiat ruling; without resolvable citations it is dropped too.
Fiat ==
  /\ phase = "finalize"
  /\ HasMediator
  /\ \/ /\ Goto("ops")
        /\ ruling' = [resources |-> {claims[c].resource : c \in Blocked},
                      touched |-> Blocked \union {contests[x].target : x \in OpenContests}]
        /\ UNCHANGED settling
     \/ /\ Goto("sweep")
        /\ settling' = OpenContests
        /\ UNCHANGED ruling
  /\ UNCHANGED <<ledgerVars, bankVars, detectorVars, verdict, clearing, round, turn,
                 sealed, busy, quiescent, setting>>

SafetyFinalize ==
  /\ phase = "finalize"
  /\ ~HasMediator
  /\ Goto("sweep")
  /\ settling' = OpenContests
  /\ UNCHANGED <<ledgerVars, bankVars, detectorVars, ruling, verdict, clearing, round,
                 turn, sealed, busy, quiescent, setting>>

\* The sweep is one pass over the contests that are open when it begins, and
\* one over the claims that are blocked after it.  A contest nobody adjudicated
\* is voided; without a mediator it first takes its target, if that is still
\* granted, out of the manifest.
SweepContest_NoQuarantine(x) ==
  /\ phase = "sweep"
  /\ IsFirst(x, settling)
  /\ Bank!VoidContest(x)
  /\ settling' = settling \ {x}
  /\ UNCHANGED <<ledgerVars, detectorVars, ruling, verdict, clearing, engineVars>>
SweepContest(x) ==
  /\ phase = "sweep"
  /\ IsFirst(x, settling)
  /\ IF ~HasMediator /\ Ledger!Granted(contests[x].target)
       THEN Ledger!VoidClaim(contests[x].target)
       ELSE UNCHANGED ledgerVars
  /\ Bank!VoidContest(x)
  /\ settling' = settling \ {x}
  /\ UNCHANGED <<detectorVars, ruling, verdict, clearing, engineVars>>

EndContestSweep_UnlessFiat ==
  /\ phase = "sweep"
  /\ settling = {}
  /\ Goto("clear")
  /\ clearing' = IF HasMediator THEN {} ELSE Blocked
  /\ UNCHANGED <<ledgerVars, bankVars, detectorVars, ruling, verdict, settling, round,
                 turn, sealed, busy, quiescent, setting>>
EndContestSweep ==
  /\ phase = "sweep"
  /\ settling = {}
  /\ Goto("clear")
  /\ clearing' = Blocked
  /\ UNCHANGED <<ledgerVars, bankVars, detectorVars, ruling, verdict, settling, round,
                 turn, sealed, busy, quiescent, setting>>

SweepClaim(c) ==
  /\ phase = "clear"
  /\ IsFirst(c, clearing)
  /\ Ledger!VoidClaim(c)
  /\ clearing' = clearing \ {c}
  /\ UNCHANGED <<bankVars, detectorVars, ruling, verdict, settling, engineVars>>

EndSweep ==
  /\ phase = "clear"
  /\ clearing = {}
  /\ Goto("done")
  /\ UNCHANGED <<ledgerVars, bankVars, detectorVars, rulingVars, round, turn, sealed,
                 busy, quiescent, setting>>

Next ==
  \/ Setup \/ EndTurn \/ Impersonate
  \/ \E p \in Ledger!Proposal : Propose(p)
  \/ RevealNext \/ EndReveals
  \/ FileNote
  \/ \E c \in ClaimId : FileBlock(c)
  \/ \E c \in ClaimId, l \in Ledger!BenList : FileYield(c, l)
  \/ ScanRound
  \/ \E d \in pending : Rule(d)
  \/ EndRulings
  \/ \E op \in {"revoke", "grant", "void"}, c \in ClaimId, l \in Ledger!BenList :
       RulingOp(op, c, l)
  \/ EndOps
  \/ \E x \in Bank!ContestId : SettleContest(x)
  \/ EndSettlement \/ EndRound \/ Fiat \/ SafetyFinalize
  \/ \E x \in Bank!ContestId : SweepContest(x)
  \/ EndContestSweep
  \/ \E c \in ClaimId : SweepClaim(c)
  \/ EndSweep

Spec == Init /\ [][Next]_vars

\* The engine is one thread that makes its next call; the lists an agent or a
\* mediator returns are finite, so a turn and a ruling's ops come to an end.
FairSpec == Spec /\ WF_vars(Next) /\ WF_vars(EndTurn) /\ WF_vars(EndOps)
-----------------------------------------------------------------------------
(* Properties *)

\* The engine's own bookkeeping: who speaks, what is sealed and still to be
\* revealed, and which contests and claims the ruling in hand or the last
\* sweep has not reached, all of them still as the ledger and the bank have them.
EngineTypeOK ==
  /\ phase \in Phase
  /\ round \in 1..MaxRounds + 1
  /\ turn < Len(AgentList)
  /\ \A i \in DOMAIN sealed : commitments[sealed[i]].state = "sealed"
  /\ phase \notin {"propose", "reveal", "aborted"} => sealed = <<>>
  /\ settling \subseteq OpenContests /\ clearing \subseteq Blocked
  /\ ruling.touched \subseteq ClaimId
  /\ phase \notin {"ops", "settle", "aborted"} => ruling = NoRuling

\* Nothing is left hanging: whichever way a run ends, by quiescence, by fiat or
\* by safety finalization, no claim is blocked and no stake is out, so every
\* credit is kept, won or burned.
SettledAtEnd ==
  phase = "done" =>
    /\ Blocked = {}
    /\ \A a \in Account :
         balance[a] + ContestCost * Cardinality(Bank!In(a, "lost"))
           = Budget[a] + Premium * Cardinality(Bank!In(a, "won"))

\* "a disputed grant may not board": in a run without a mediator no claim that
\* was ever contested is in the manifest.
DisputedGrantsDoNotBoard ==
  phase = "done" /\ ~HasMediator =>
    \A x \in Bank!ContestId : contests[x].status # "absent" =>
      \A u \in alloc : u.claim # contests[x].target

\* Once the ruling on a deadlock is through, no contest is open against a
\* claim that the deadlock or one of the ruling's operations names.
RulingsCloseWhatTheyTouch ==
  [][phase = "settle" /\ phase' # "settle" =>
       \A x \in OpenContests' : contests'[x].target \notin ruling.touched]_vars

\* No run of agents and a mediator that keep to the protocol, on resources
\* with an exclusivity group, meets an exception the engine does not catch.
CarefulRunsDoNotAbort == ~Careless => phase # "aborted"

\* The round loop ends: no ruling, contest or refused claim keeps the engine
\* busy for ever.
RunEnds == <>(phase \in {"done", "aborted"})

\* The ledger's own specification: by it what is proved of the ledger on its
\* own is carried over to a run (the proof modules show that runs satisfy it).
LedgerSpec == Ledger!Spec
=============================================================================
