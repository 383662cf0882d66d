---------------------------- MODULE AuditedLedger ----------------------------
(***************************************************************************)
(* One run's ledger with the log it writes, up to the manifest that closes *)
(* the log, and the auditor that reads it: ledger.py's calls with their    *)
(* _emit calls, and the two entries of society.py that the auditor reads.  *)
(*                                                                         *)
(* Calls are made one after another (LedgerThreads has the races).  A      *)
(* reveal brings the nonce of the commitment, another one, or what is no   *)
(* nonce at all.                                                           *)
(***************************************************************************)
EXTENDS ClaimLedger, SequencesExt

INSTANCE Auditor

CONSTANTS Known,         \* the citations the regulation library resolves
          Cited,         \* what a ruling may cite
          MaxEntries     \* bound: entries of a log

VARIABLES entries,   \* the log_chain table
          closed     \* the manifest is recorded: the run is over

auditVars == <<vars, entries, closed>>

AuditInit ==
  /\ Init
  /\ entries = <<Chain!Entry(1, [kind |-> "genesis"], Chain!NoHash)>>
  /\ closed = FALSE

Chained(log, event) ==
  Append(log, Chain!Entry(Len(log) + 1, event, log[Len(log)].hash))
Extended(log, events) ==
  LET upto[n \in 0..Len(events)] ==
        IF n = 0 THEN log ELSE Chained(upto[n - 1], events[n])
  IN upto[Len(events)]
Emit(events) ==
  /\ ~closed
  /\ Len(entries) + Len(events) < MaxEntries
  /\ entries' = Extended(entries, events)
  /\ UNCHANGED closed
\* What a call logs if it succeeds; one that raises before its effect logs nothing.
EmitIf(ok, events) == Emit(IF ok THEN events ELSE <<>>)

UnitEvents(kind, r, S) ==
  SetToSeq({[kind |-> kind, resource |-> r, ben |-> b] : b \in S})
\* The units a call has just handed out for claim c.
Granting(c, S) ==
  IF alloc' # alloc THEN UnitEvents("alloc", claims'[c].resource, S) ELSE <<>>

LoggedRegister(r) ==
  /\ RegisterResource(r)
  /\ EmitIf(outcome' = "ok",
            <<[kind |-> "resource", resource |-> r, capacity |-> Capacity[r], group |-> Group[r]]>>)

\* seal_and_commit
LoggedCommit(p) ==
  /\ Commit(p.agent, p)
  /\ Emit(<<[kind |-> "commit", commitment |-> commitSeq',
             digest |-> CommitmentDigest(p, "right")]>>)

RevealEvent(kind, m, p, nonce) ==
  [kind |-> kind, commitment |-> m, claim |-> p, nonce |-> nonce]
LoggedReveal(m, p, nonce) ==
  /\ Reveal(m, p, VerifyCommitment(p, nonce, CommitmentDigest(p, "right")))
  /\ Emit(IF commitments'[m].state = commitments[m].state THEN <<>>
          ELSE IF commitments'[m].state = "rejected"
          THEN <<RevealEvent("reveal_reject", m, p, nonce)>>
          ELSE <<RevealEvent("reveal_ok", m, p, nonce)>> \o Granting(claimSeq', p.bens))

LoggedSubmit(p) == SubmitPlain(p) /\ Emit(Granting(claimSeq', p.bens))

LoggedRelease(a, c, l) ==
  /\ Release(a, c, l)
  /\ EmitIf(outcome' = "ok", UnitEvents("dealloc", claims[c].resource, l.bens))
LoggedRevoke(c, l) ==
  /\ RevokeOp(c, l)
  /\ EmitIf(outcome' = "ok", UnitEvents("dealloc", claims[c].resource, l.bens))
LoggedGrant(c, l) == GrantOp(c, l) /\ Emit(Granting(c, l.bens))
LoggedVoid_StatusOnly(c) == VoidClaim_KeepsUnits(c) /\ Emit(<<>>)
LoggedVoid(c) ==
  /\ VoidClaim(c)
  /\ EmitIf(HasClaim(c) /\ Granted(c),
            UnitEvents("dealloc", claims[c].resource, Holders(c)))
LoggedWithdraw(a, c) == Withdraw(a, c) /\ Emit(<<>>)

\* The engine signs a ruling with those of its citations that resolve, and
\* drops it if none does.
SignRuling_AsCited(cites) ==
  /\ Emit(<<[kind |-> "ruling", citations |-> cites]>>)
  /\ UNCHANGED vars
SignRuling(cites) ==
  /\ EmitIf(cites \intersect Known # {},
            <<[kind |-> "ruling", citations |-> cites \intersect Known]>>)
  /\ UNCHANGED vars

\* The last entry of a run
RecordManifest ==
  /\ ~closed
  /\ closed' = TRUE
  /\ entries' = Chained(entries,
       [kind |-> "manifest", manifest |-> {<<x.resource, x.ben>> : x \in alloc}])
  /\ UNCHANGED vars

AuditNext ==
  \/ \E r \in Resource : LoggedRegister(r)
  \/ \E p \in Proposal : LoggedCommit(p) \/ LoggedSubmit(p)
  \/ \E m \in CommitId, p \in Proposal, nonce \in Nonce : LoggedReveal(m, p, nonce)
  \/ \E a \in Agent, c \in ClaimId, l \in BenList : LoggedRelease(a, c, l)
  \/ \E c \in ClaimId, l \in BenList : LoggedRevoke(c, l) \/ LoggedGrant(c, l)
  \/ \E c \in ClaimId : LoggedVoid(c)
  \/ \E a \in Agent, c \in ClaimId : LoggedWithdraw(a, c)
  \/ \E cites \in SUBSET Cited : SignRuling(cites)
  \/ Reopen /\ Emit(<<>>)
  \/ RecordManifest

AuditSpec == AuditInit /\ [][AuditNext]_auditVars
-----------------------------------------------------------------------------
(* Properties *)

\* Somebody revealed with what is no nonce; the ledger rejects and logs that as
\* any other reveal that does not match.
NonceWasMalformed ==
  \E e \in EventsOf(entries, {"reveal_reject"}) : ~WellFormed(e.nonce)

\* "the zero-trust auditor": it finds nothing wrong with a finished run, whatever
\* bids, reveals with another's nonce or another's claim, partial releases and
\* rulings it had.  (RejectsAreReported is about the malformed nonces.)
FinishedRunsPass == closed /\ ~NonceWasMalformed => VerifyLog(entries) = "ok"

\* A stored log that lost an entry or its end, has two entries in each other's
\* place, or an entry whose content is another's.
Without(i) == RemoveAt(entries, i)
Swapped(i, j) == [entries EXCEPT ![i] = entries[j], ![j] = entries[i]]
Overwritten(i, j) == [entries EXCEPT ![i].event = entries[j].event]

\* Whatever one accident did to the log of a finished run, or if the run never
\* came to its manifest, the auditor does not say OK.
DamageIsNoticed ==
  /\ ~closed => VerifyLog(entries) # "ok"
  /\ closed => \A i, j \in DOMAIN entries :
       /\ VerifyLog(Without(i)) # "ok"
       /\ i < j => VerifyLog(Swapped(i, j)) # "ok"
       /\ entries[i].event # entries[j].event => VerifyLog(Overwritten(i, j)) # "ok"

\* I5 as the auditor gives it: what it says OK to is the allocation the tables
\* hold, and a standing claim stands behind every unit of it.
AcceptedManifestIsTheTables ==
  VerifyLog(entries) = "ok" =>
    /\ ReplayManifest(entries) = {<<x.resource, x.ben>> : x \in alloc}
    /\ \A u \in ReplayManifest(entries) : \E c \in ClaimId :
         Granted(c) /\ claims[c].resource = u[1] /\ u[2] \in Holders(c)
-----------------------------------------------------------------------------
(* What the documentation says and the code does not do *)

\* verify.py: verify_log "re-checks" that "every rejected reveal genuinely does
\* not" re-derive its digest and "Returns a VerifyReport": whatever was revealed
\* and rejected in a finished run, the auditor comes to a report on it.
RejectsAreReported == closed => VerifyLog(entries) # "raises"
=============================================================================
