------------------------------- MODULE Auditor -------------------------------
(***************************************************************************)
(* The offline auditor (verify_log in src/src/tarmac_society/verify.py):   *)
(* what it concludes from the entries of a log, and from nothing else.     *)
(*                                                                         *)
(* An entry is one of ChainLog; of the events, only those the auditor      *)
(* reads have a content.  A manifest is the set of <<resource, holder>>    *)
(* it lists; its hash is the manifest.  A commitment's digest is the pair  *)
(* of what was sealed and the nonce; commitment_digest (commitment.py) has *)
(* no value for a nonce that is not sixteen bytes in hexadecimal.          *)
(***************************************************************************)
EXTENDS Naturals, FiniteSetsExt

CONSTANTS NoGroup

Chain == INSTANCE ChainLog WITH
  Genesis <- [kind |-> "genesis"], Thread <- {}, Event <- {}, MaxEntries <- 0,
  entries <- <<>>, head <- <<>>, writer <- <<>>

Nonce == {"right", "wrong", "malformed"}
WellFormed(nonce) == nonce # "malformed"
CommitmentDigest(claim, nonce) == <<claim, nonce>>
VerifyCommitment(claim, nonce, digest) ==
  WellFormed(nonce) /\ CommitmentDigest(claim, nonce) = digest

\* Where log has an event of one of the kinds, and which events these are.
At(log, kinds) == {i \in DOMAIN log : log[i].event.kind \in kinds}
EventsOf(log, kinds) == {log[i].event : i \in At(log, kinds)}
Latest(log, places) == log[Max(places)].event

\* What was handed out and not taken back since.
Unit(e) == <<e.resource, e.ben>>
ReplayManifest(log) ==
  {Unit(log[i].event) : i \in {k \in At(log, {"alloc"}) :
     \A j \in At(log, {"dealloc"}) : j > k => Unit(log[j].event) # Unit(log[k].event)}}

\* The last registration of r counts; what was never registered has no units.
Registered(log, r) ==
  LET found == {i \in At(log, {"resource"}) : log[i].event.resource = r}
  IN IF found = {} THEN [capacity |-> 0, group |-> NoGroup] ELSE Latest(log, found)

ReplayReproduces(log) ==
  LET recorded == At(log, {"manifest"})
  IN recorded # {} /\ Latest(log, recorded).manifest = ReplayManifest(log)

WithinCapacity(log) ==
  \A r \in {u[1] : u \in ReplayManifest(log)} :
    Cardinality({u \in ReplayManifest(log) : u[1] = r}) <= Registered(log, r).capacity

NobodyTwiceInAGroup(log) ==
  \A u, v \in ReplayManifest(log) :
    /\ u[2] = v[2]
    /\ Registered(log, u[1]).group = Registered(log, v[1]).group
    /\ Registered(log, u[1]).group # NoGroup
    => u = v

RulingsCite(log) == \A e \in EventsOf(log, {"ruling"}) : e.citations # {}

Sealed(log, m) ==
  LET found == {i \in At(log, {"commit"}) : log[i].event.commitment = m}
  IN IF found = {} THEN <<>> ELSE Latest(log, found).digest
Rederives(log, e) == CommitmentDigest(e.claim, e.nonce) = Sealed(log, e.commitment)

AcceptedMatch(log) == \A e \in EventsOf(log, {"reveal_ok"}) : Rederives(log, e)
RejectedMismatch(log) == \A e \in EventsOf(log, {"reveal_reject"}) : ~Rederives(log, e)

\* The digests are re-derived without the guard that verify_commitment has.
Raises(log) ==
  \E e \in EventsOf(log, {"reveal_ok", "reveal_reject"}) : ~WellFormed(e.nonce)

\* verify_log: every check is made, whatever the others say.
VerifyLog_WithoutTheChain(log) ==
  IF Raises(log) THEN "raises"
  ELSE IF /\ ReplayReproduces(log) /\ WithinCapacity(log) /\ NobodyTwiceInAGroup(log)
          /\ RulingsCite(log) /\ AcceptedMatch(log) /\ RejectedMismatch(log)
  THEN "ok" ELSE "failed"
VerifyLog(log) ==
  IF Raises(log) THEN "raises"
  ELSE IF /\ Chain!VerifyChain(log)
          /\ ReplayReproduces(log) /\ WithinCapacity(log) /\ NobodyTwiceInAGroup(log)
          /\ RulingsCite(log) /\ AcceptedMatch(log) /\ RejectedMismatch(log)
  THEN "ok" ELSE "failed"
=============================================================================
