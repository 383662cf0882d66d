------------------------------- MODULE LiveRun -------------------------------
(***************************************************************************)
(* A live run: Society with a language model behind the mediator and some  *)
(* of the agents (LiveQwen in src/src/tarmac_society/qwen/transport.py).   *)
(* Every decision of theirs is a request whose reply may not validate; it  *)
(* is then asked for once more.  A role agent that fails twice is passed   *)
(* over, a mediator that does ends the run.  The client may raise at any   *)
(* request.  The other agents answer for themselves, as mediator.py has it.*)
(*                                                                         *)
(* Of a reply, what matters is whether it validates and whom its items     *)
(* name; prompts, schemas and parsing are left out, and so is the client's *)
(* own retrying, which ends in a reply or an exception.                    *)
(***************************************************************************)
EXTENDS Society

CONSTANT LiveAgents   \* the agents that LiveQwen speaks for
ASSUME LiveAgentsAssumption == LiveAgents \subseteq Agent

VARIABLES tries,      \* replies to the request in hand that did not validate
          answered,   \* the agent whose turn it is has been heard
          speaksAs,   \* whom the items of its answer name, as the engine gets it
          cause       \* what ended the run early

askVars == <<tries, answered, speaksAs>>
liveVars == <<vars, askVars, cause>>

Cause == {"none", "client_error", "transport_error", "protocol_error", "refused"}

RoleDecides == phase \in {"propose", "positions"} /\ ~answered
MediatorDecides ==
  \/ phase = "rule" /\ pending # {}
  \/ phase = "finalize" /\ HasMediator
Asks == (RoleDecides /\ Speaker \in LiveAgents) \/ MediatorDecides
MaxTries == 2

LiveInit ==
  /\ Init
  /\ tries = 0
  /\ answered = FALSE
  /\ speaksAs = {}
  /\ cause = "none"

\* The run is over, in an exception out of run().
Abort(why) ==
  /\ Goto("aborted")
  /\ cause' = why
  /\ UNCHANGED <<ledgerVars, bankVars, detectorVars, rulingVars, round, turn, sealed,
                 busy, quiescent, setting, askVars>>

\* A call of the engine's that may raise.
Engine(step) ==
  /\ step
  /\ cause' = IF phase' = "aborted" THEN "refused" ELSE "none"
-----------------------------------------------------------------------------
(* _structured *)

Invalid_StartsOver ==
  /\ Asks
  /\ tries' = (tries + 1) % MaxTries
  /\ UNCHANGED <<vars, answered, speaksAs, cause>>
Invalid ==
  /\ Asks
  /\ tries < MaxTries
  /\ tries' = tries + 1
  /\ UNCHANGED <<vars, answered, speaksAs, cause>>

ClientFails ==
  /\ Asks
  /\ tries < MaxTries
  /\ Abort("client_error")
-----------------------------------------------------------------------------
(* propose and respond *)

\* What a live agent says in another's name is dropped, not passed on.
OwnItems(said) == IF Speaker \in LiveAgents THEN said \intersect {Speaker} ELSE said

Hear(names) ==
  /\ RoleDecides
  /\ answered' = TRUE
  /\ speaksAs' = names
  /\ tries' = 0
  /\ UNCHANGED <<vars, cause>>

Answer == \E said \in SUBSET Agent : tries < MaxTries /\ Hear(OwnItems(said))
PassOver_Raises == RoleDecides /\ tries = MaxTries /\ Abort("transport_error")
PassOver == tries = MaxTries /\ Hear({})

\* The engine goes through the answer, item by item.
OwnItem ==
  /\ answered /\ Speaker \in speaksAs
  /\ Engine(\/ \E p \in Ledger!Proposal : Propose(p)
            \/ FileNote
            \/ \E c \in ClaimId : FileBlock(c)
            \/ \E c \in ClaimId, l \in Ledger!BenList : FileYield(c, l))
  /\ UNCHANGED askVars
ForeignItem ==
  /\ answered /\ speaksAs # {} /\ speaksAs # {Speaker}
  /\ Impersonate
  /\ cause' = "protocol_error"
  /\ UNCHANGED askVars
TurnOver ==
  /\ answered
  /\ EndTurn
  /\ answered' = FALSE
  /\ speaksAs' = {}
  /\ UNCHANGED <<tries, cause>>
-----------------------------------------------------------------------------
(* rule and fiat *)

Mediate ==
  /\ tries < MaxTries
  /\ (\E d \in pending : Rule(d)) \/ Fiat
  /\ tries' = 0
  /\ UNCHANGED <<answered, speaksAs, cause>>
GiveUp == MediatorDecides /\ tries = MaxTries /\ Abort("transport_error")

\* What the engine does without asking anybody.
Unasked ==
  /\ Engine(\/ Setup \/ RevealNext \/ EndReveals \/ ScanRound \/ EndRulings
            \/ \E op \in {"revoke", "grant", "void"}, c \in ClaimId, l \in Ledger!BenList :
                 RulingOp(op, c, l)
            \/ \E x \in Bank!ContestId : SettleContest(x)
            \/ EndSettlement \/ EndRound \/ SafetyFinalize
            \/ \E x \in Bank!ContestId : SweepContest(x)
            \/ EndContestSweep
            \/ \E c \in ClaimId : SweepClaim(c)
            \/ EndSweep)
  /\ UNCHANGED askVars

OpsOver == EndOps /\ UNCHANGED <<askVars, cause>>

LiveNext ==
  \/ Invalid \/ ClientFails
  \/ Answer \/ PassOver \/ OwnItem \/ ForeignItem \/ TurnOver
  \/ Mediate \/ OpsOver \/ GiveUp \/ Unasked

LiveSpec == LiveInit /\ [][LiveNext]_liveVars

\* As in FairSpec: the engine is one thread, and a reply is a finite list.
LiveFairSpec ==
  LiveSpec /\ WF_liveVars(LiveNext) /\ WF_liveVars(TurnOver) /\ WF_liveVars(OpsOver)
-----------------------------------------------------------------------------
(* Properties *)

\* What the engine's own calls may raise on an answer or a ruling that did
\* validate: on a yield of a claim of one's own for somebody who holds nothing,
\* on a contest by an agent the bank has no account of, and on units that the
\* ledger's checks let through and the schema of its tables refuses.
RaisesOnYield ==
  /\ phase = "positions" /\ outcome' = "ledger_error"
  /\ \E c \in ClaimId : Ledger!Granted(c) /\ claims[c].agent = Speaker
RaisesOnContest == phase = "positions" /\ Speaker \notin Account /\ answer' = "currency_error"
RaisesOnUnits == phase \in {"reveal", "ops"} /\ outcome' = "integrity_violation"

\* "a second failure is a hard TransportError for the mediator and a safe no-op
\* for role agents": a run ends early if the client raises while a live agent or
\* the mediator is asked, if the mediator's ruling did not validate twice, if an
\* agent that is not live speaks in another's name, or if the ledger or the bank
\* refuses what an answer says with an exception that is not caught.  So no
\* reply of a live agent that fails to validate, or names others, ends a run; a
\* valid one may, by its content alone.  Whichever it is, no unit and no credit
\* moves in the call that ends the run.
WhatEndsARun ==
  [][phase' = "aborted" /\ phase # "aborted" =>
       /\ \/ cause' = "client_error" /\ Asks /\ tries < MaxTries
          \/ cause' = "transport_error" /\ MediatorDecides /\ tries = MaxTries
          \/ cause' = "protocol_error" /\ answered /\ Speaker \notin LiveAgents
          \/ cause' = "refused" /\ (RaisesOnYield \/ RaisesOnContest \/ RaisesOnUnits)
       /\ UNCHANGED <<alloc, balance>>]_liveVars
=============================================================================
