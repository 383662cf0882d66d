------------------------ MODULE AuditedLedger_proofs ------------------------
(***************************************************************************)
(* Proofs about AuditedLedger, for every number of agents, resources,      *)
(* beneficiaries, claims, commitments and log entries.  The inductive      *)
(* invariant says what each entry of the log asserts about the tables, and *)
(* that whatever the auditor needs to look up has been logged.             *)
(***************************************************************************)
EXTENDS AuditedLedger, Tables_proofs, FunctionTheorems, SequenceTheorems,
        WellFoundedInduction

LogIsASequence == (\E S : entries \in Seq(S)) /\ Len(entries) > 0

Present(m) == commitments[m].state # "absent"

\* What an entry asserts, which stays so: tables only grow, and a commitment's
\* digest is never changed.
RecordHolds(e) ==
  /\ e.kind = "resource" =>
       /\ e.resource \in registered
       /\ e.capacity = Capacity[e.resource] /\ e.group = Group[e.resource]
  /\ e.kind \in {"commit", "reveal_ok", "reveal_reject"} =>
       e.commitment \in CommitId /\ Present(e.commitment)
  /\ e.kind = "commit" =>
       e.digest = CommitmentDigest(commitments[e.commitment].digest, "right")
  /\ e.kind = "reveal_ok" =>
       e.claim = commitments[e.commitment].digest /\ e.nonce = "right"
  /\ e.kind = "reveal_reject" =>
       ~(e.claim = commitments[e.commitment].digest /\ e.nonce = "right")
  /\ e.kind = "ruling" => e.citations # {}

ManifestEvent == [kind |-> "manifest", manifest |-> {<<x.resource, x.ben>> : x \in alloc}]

RecordsHold ==
  \A i \in 1..Len(entries) :
    /\ RecordHolds(entries[i].event)
    /\ entries[i].event.kind = "manifest" => closed /\ i = Len(entries)

TablesAreLogged ==
  /\ \A r \in registered : \E i \in 1..Len(entries) :
       entries[i].event.kind = "resource" /\ entries[i].event.resource = r
  /\ \A m \in CommitId : Present(m) => \E i \in 1..Len(entries) :
       entries[i].event.kind = "commit" /\ entries[i].event.commitment = m

\* FOREIGN KEY of the claims table
ClaimsAreRegistered == \A c \in ClaimId : HasClaim(c) => claims[c].resource \in registered

AuditInv ==
  /\ IInv
  /\ ClaimsAreRegistered
  /\ LogIsASequence
  /\ Chain!VerifyChain(entries)
  /\ RecordsHold
  /\ closed \in BOOLEAN
  /\ closed => entries[Len(entries)].event = ManifestEvent
  /\ TablesAreLogged
  /\ replayed = ReplayManifest(entries)
-----------------------------------------------------------------------------
(* Sequences, and what an extended log looks like *)

\* A non-empty set of numbers has a least one.
LEMMA LeastNumber ==
  ASSUME NEW T \in SUBSET Nat, T # {}
  PROVE  \E n \in T : \A k \in T : n <= k
<1>1. PICK n \in T : \A k \in T : ~(<<k, n>> \in OpToRel(<, Nat))
  BY WFMin, NatLessThanWellFounded
<1>2. \A k \in T : ~(k < n)
  BY <1>1 DEF OpToRel
<1> QED BY <1>2

\* A non-empty set of places has a last one, which is its Max.
LEMMA MaxIsLast ==
  ASSUME NEW n \in Nat, NEW S \in SUBSET (1..n), S # {}
  PROVE  Max(S) \in S /\ \A x \in S : x <= Max(S)
<1> DEFINE T == {m \in Nat : \A x \in S : x <= m}
<1>1. T # {}
  BY n \in T
<1>2. PICK m \in T : \A k \in T : m <= k
  BY <1>1, LeastNumber
<1>3. m \in S
  <2>1. SUFFICES ASSUME m \notin S PROVE FALSE
    OBVIOUS
  <2>2. \A x \in S : x <= m - 1
    BY <2>1
  <2>3. m - 1 \in T
    <3>1. PICK x \in S : TRUE
      OBVIOUS
    <3>2. x \in 1..n /\ x <= m - 1
      BY <2>2
    <3> QED BY <3>2, <2>2
  <2> QED BY <2>3, <1>2
<1> QED BY <1>2, <1>3 DEF Max

\* The log after each of the events: the recursion in Extended has a solution.
LEMMA LogUpTo ==
  ASSUME NEW log, NEW events, Len(events) \in Nat
  PROVE  \E f : f = [n \in 0..Len(events) |->
                      IF n = 0 THEN log ELSE Chained(f[n - 1], events[n])]
<1> DEFINE Body(f, n) == IF n = 0 THEN log ELSE Chained(f[n - 1], events[n])
           Solved(m) == \E f : f = [n \in 0..m |-> Body(f, n)]
           T == {m \in Nat : ~Solved(m)}
<1>1. SUFFICES ASSUME T # {} PROVE FALSE
  BY <1>1
<1>2. PICK m \in T : \A k \in T : m <= k
  BY <1>1, LeastNumber
<1>3. m # 0
  <2>1. [n \in 0..0 |-> log] = [n \in 0..0 |-> Body([k \in 0..0 |-> log], n)]
    OBVIOUS
  <2> QED BY <2>1, <1>2
<1>4. Solved(m - 1)
  <2> HIDE DEF Solved
  <2>1. m - 1 \in Nat /\ ~(m <= m - 1)
    BY <1>2, <1>3
  <2>2. m - 1 \notin T
    BY <1>2, <2>1
  <2> QED BY <2>1, <2>2
<1>5. PICK f : f = [n \in 0..(m - 1) |-> Body(f, n)]
  BY <1>4
<1> DEFINE g == [n \in 0..m |-> IF n = m THEN Chained(f[m - 1], events[m]) ELSE f[n]]
<1>6. ASSUME NEW n \in 0..m PROVE g[n] = Body(g, n)
  <2>1. CASE n = m
    BY <2>1, <1>3
  <2>2. CASE n # m
    <3>1. n \in 0..(m - 1) /\ g[n] = f[n] /\ (n # 0 => g[n - 1] = f[n - 1])
      BY <2>2
    <3>2. f[n] = Body(f, n)
      BY <3>1, <1>5
    <3> QED BY <3>1, <3>2
  <2> QED BY <2>1, <2>2
<1> HIDE DEF Body
<1>7. g = [n \in 0..m |-> Body(g, n)]
  BY <1>6
<1> QED BY <1>7, <1>2

\* A log that has the entries of another one and then the events, in order.
Continues(longer, log, events) ==
  /\ \E S : longer \in Seq(S)
  /\ Len(longer) = Len(log) + Len(events)
  /\ \A i \in 1..Len(log) : longer[i] = log[i]
  /\ \A i \in 1..Len(events) : longer[Len(log) + i].event = events[i]

\* One event more: a chain that verifies still does.
LEMMA ChainedContinues ==
  ASSUME NEW S, NEW log \in Seq(S), Len(log) > 0, Chain!VerifyChain(log), NEW e
  PROVE  LET longer == Chained(log, e)
         IN  /\ \E T : longer \in Seq(T)
             /\ Len(longer) = Len(log) + 1
             /\ \A i \in 1..Len(log) : longer[i] = log[i]
             /\ longer[Len(log) + 1].event = e
             /\ Chain!VerifyChain(longer)
<1> DEFINE x == Chain!Entry(Len(log) + 1, e, log[Len(log)].hash)
           longer == Chained(log, e)
<1>1. log \in Seq(S \union {x}) /\ x \in S \union {x} /\ Len(log) \in Nat
  OBVIOUS
<1>2. longer = Append(log, x)
  BY DEF Chained
<1>3. longer \in Seq(S \union {x})
  BY <1>1, <1>2
<1>4. /\ Len(longer) = Len(log) + 1
      /\ \A i \in 1..Len(log) : longer[i] = log[i]
      /\ longer[Len(log) + 1] = x
  BY <1>1, <1>2
<1>5. /\ x.seq = Len(log) + 1 /\ x.event = e /\ x.prev = log[Len(log)].hash
      /\ x.hash = Chain!Hash(x.prev, x.seq, x.event)
  BY DEF Chain!Entry, Chain!Hash
<1> HIDE DEF longer, x
<1>6. longer # <<>> /\ longer[1].event = [kind |-> "genesis"] /\ longer[1].prev = Chain!NoHash
  BY <1>1, <1>4 DEF Chain!VerifyChain
<1>7. ASSUME NEW i \in 1..Len(longer)
      PROVE  /\ longer[i].seq = i
             /\ longer[i].hash = Chain!Hash(longer[i].prev, longer[i].seq, longer[i].event)
             /\ i > 1 => longer[i].prev = longer[i - 1].hash
  <2>1. CASE i <= Len(log)
    <3>1. i \in 1..Len(log) /\ (i > 1 => i - 1 \in 1..Len(log))
      BY <2>1, <1>1
    <3>2. longer[i] = log[i] /\ (i > 1 => longer[i - 1] = log[i - 1])
      BY <3>1, <1>4
    <3> QED BY <3>1, <3>2 DEF Chain!VerifyChain
  <2>2. CASE i = Len(log) + 1
    <3>1. longer[i] = x /\ longer[i - 1] = log[Len(log)]
      BY <2>2, <1>1, <1>4
    <3> QED BY <3>1, <2>2, <1>5
  <2> QED BY <2>1, <2>2, <1>1, <1>4
<1>8. Chain!VerifyChain(longer)
  BY <1>6, <1>7 DEF Chain!VerifyChain
<1> QED BY <1>3, <1>4, <1>5, <1>8 DEF longer

\* All the events of a call: Emit leaves a chain that verifies.
LEMMA ExtendedContinues ==
  ASSUME NEW S, NEW log \in Seq(S), Len(log) > 0, Chain!VerifyChain(log),
         NEW T, NEW events \in Seq(T)
  PROVE  Continues(Extended(log, events), log, events)
         /\ Chain!VerifyChain(Extended(log, events))
<1> DEFINE m == Len(events)
           f == CHOOSE g : g = [n \in 0..m |->
                                  IF n = 0 THEN log ELSE Chained(g[n - 1], events[n])]
           Good(n) == /\ \E U : f[n] \in Seq(U)
                      /\ Len(f[n]) = Len(log) + n
                      /\ \A i \in 1..Len(log) : f[n][i] = log[i]
                      /\ \A i \in 1..n : f[n][Len(log) + i].event = events[i]
                      /\ Chain!VerifyChain(f[n])
           Bad == {n \in Nat : n <= m /\ ~Good(n)}
<1>1. m \in Nat /\ Len(log) \in Nat
  OBVIOUS
<1>2. f = [n \in 0..m |-> IF n = 0 THEN log ELSE Chained(f[n - 1], events[n])]
  BY <1>1, LogUpTo
<1>3. Extended(log, events) = f[m]
  BY DEF Extended
<1> HIDE DEF f
<1>4. f[0] = log /\ \A n \in 1..m : f[n] = Chained(f[n - 1], events[n])
  BY <1>1, <1>2
<1>5. Good(0)
  BY <1>1, <1>4
<1>6. ASSUME NEW n \in 1..m, Good(n - 1) PROVE Good(n)
  <2>1. PICK U : f[n - 1] \in Seq(U)
    BY <1>6
  <2>2. /\ Len(f[n - 1]) > 0
        /\ Chain!VerifyChain(f[n - 1])
        /\ Len(f[n - 1]) = Len(log) + n - 1
    BY <1>1, <1>6
  <2>3. /\ \E V : f[n] \in Seq(V)
        /\ Len(f[n]) = Len(f[n - 1]) + 1
        /\ \A i \in 1..Len(f[n - 1]) : f[n][i] = f[n - 1][i]
        /\ f[n][Len(f[n - 1]) + 1].event = events[n]
        /\ Chain!VerifyChain(f[n])
    <3> DEFINE w == f[n - 1]
    <3>1. w \in Seq(U) /\ Len(w) > 0 /\ Chain!VerifyChain(w) /\ f[n] = Chained(w, events[n])
      BY <2>1, <2>2, <1>4
    <3> HIDE DEF w
    <3>2. /\ \E V : f[n] \in Seq(V)
          /\ Len(f[n]) = Len(w) + 1
          /\ \A i \in 1..Len(w) : f[n][i] = w[i]
          /\ f[n][Len(w) + 1].event = events[n]
          /\ Chain!VerifyChain(f[n])
      BY <3>1, ChainedContinues
    <3> QED BY <3>2 DEF w
  <2>4. Len(f[n]) = Len(log) + n
    BY <2>2, <2>3, <1>1
  <2>5. \A i \in 1..Len(log) : f[n][i] = log[i]
    BY <2>2, <2>3, <1>1, <1>6
  <2>6. ASSUME NEW i \in 1..n PROVE f[n][Len(log) + i].event = events[i]
    <3>1. CASE i = n
      <4>1. Len(log) + i = Len(f[n - 1]) + 1
        BY <3>1, <2>2, <1>1
      <4> QED BY <4>1, <3>1, <2>3
    <3>2. CASE i # n
      <4>1. i \in 1..(n - 1) /\ Len(log) + i \in 1..Len(f[n - 1])
        BY <3>2, <2>2, <1>1
      <4>2. f[n][Len(log) + i] = f[n - 1][Len(log) + i]
        BY <4>1, <2>3
      <4> QED BY <4>1, <4>2, <1>6
    <3> QED BY <3>1, <3>2
  <2> QED BY <2>3, <2>4, <2>5, <2>6
<1>7. Good(m)
  <2>1. SUFFICES ASSUME ~Good(m) PROVE FALSE
    OBVIOUS
  <2> HIDE DEF Good
  <2>2. m \in Bad
    BY <2>1, <1>1
  <2>3. PICK n \in Bad : \A k \in Bad : n <= k
    BY <2>2, LeastNumber
  <2>4. n # 0
    BY <1>5
  <2>5. n \in 1..m /\ n - 1 \in Nat /\ n - 1 <= m
    BY <2>4, <1>1
  <2>6. Good(n - 1)
    BY <2>3, <2>5
  <2> QED BY <2>5, <2>6, <1>6
<1> QED BY <1>3, <1>7 DEF Continues

\* A call that has nothing to say leaves the log alone, in effect.
LEMMA NothingLogged ==
  ASSUME NEW S, NEW log \in Seq(S), NEW longer, Continues(longer, log, <<>>)
  PROVE  longer = log
<1>1. PICK T : longer \in Seq(T)
  BY DEF Continues
<1>2. Len(longer) = Len(log) /\ \A i \in 1..Len(log) : longer[i] = log[i]
  BY DEF Continues
<1> QED BY <1>1, <1>2

-----------------------------------------------------------------------------
(* What the auditor reads in a longer log *)

NoneOf(events, kind) == \A i \in 1..Len(events) : events[i].kind # kind
UnitsOf(events, kind) ==
  {Unit(events[i]) : i \in {k \in 1..Len(events) : events[k].kind = kind}}

\* Where the longer log has an event of a kind.
NewPlaces(log, events, kind) ==
  {Len(log) + k : k \in {j \in 1..Len(events) : events[j].kind = kind}}
PlacesAgree(longer, log, events, kind) ==
  /\ At(log, {kind}) \subseteq 1..Len(log)
  /\ At(longer, {kind}) = At(log, {kind}) \union NewPlaces(log, events, kind)
  /\ \A i \in At(log, {kind}) : longer[i].event = log[i].event

LEMMA PlacesOf ==
  ASSUME NEW S, NEW log \in Seq(S), NEW T, NEW events \in Seq(T), NEW longer,
         Continues(longer, log, events), NEW kind
  PROVE  PlacesAgree(longer, log, events, kind)
<1> DEFINE n == Len(log)
           m == Len(events)
           new == {k \in 1..m : events[k].kind = kind}
<1>1. PICK U : longer \in Seq(U)
  BY DEF Continues
<1>2. n \in Nat /\ m \in Nat /\ DOMAIN log = 1..n /\ DOMAIN longer = 1..(n + m)
  BY <1>1 DEF Continues
<1>3. /\ \A i \in 1..n : longer[i] = log[i]
      /\ \A k \in 1..m : longer[n + k].event = events[k]
  BY DEF Continues
<1> HIDE DEF n, m
<1>4. At(log, {kind}) = {i \in 1..n : log[i].event.kind = kind}
  BY <1>2 DEF At
<1>5. At(longer, {kind}) = {i \in 1..(n + m) : longer[i].event.kind = kind}
  BY <1>2 DEF At
<1>6. ASSUME NEW i \in At(longer, {kind})
      PROVE  i \in At(log, {kind}) \union {n + k : k \in new}
  <2>1. i \in 1..(n + m) /\ longer[i].event.kind = kind
    BY <1>5
  <2>2. CASE i \in 1..n
    BY <2>1, <2>2, <1>3, <1>4
  <2>3. CASE i \notin 1..n
    <3>1. PICK k \in 1..m : i = n + k
      <4>1. i - n \in 1..m /\ i = n + (i - n)
        BY <2>1, <2>3, <1>2
      <4> QED BY <4>1
    <3>2. longer[i].event = events[k]
      BY <3>1, <1>3
    <3> QED BY <3>1, <3>2, <2>1
  <2> QED BY <2>2, <2>3
<1>7. ASSUME NEW i \in At(log, {kind}) PROVE i \in At(longer, {kind})
  <2>1. i \in 1..n /\ longer[i] = log[i] /\ log[i].event.kind = kind
    BY <1>3, <1>4
  <2>2. i \in 1..(n + m)
    BY <2>1, <1>2
  <2> QED BY <2>1, <2>2, <1>5
<1>8. ASSUME NEW k \in new PROVE n + k \in At(longer, {kind})
  <2>1. k \in 1..m /\ longer[n + k].event.kind = kind
    BY <1>3
  <2>2. n + k \in 1..(n + m)
    BY <2>1, <1>2
  <2> QED BY <2>1, <2>2, <1>5
<1>9. \A i \in At(log, {kind}) : longer[i].event = log[i].event
  BY <1>3, <1>4
<1>10. At(longer, {kind}) = At(log, {kind}) \union {n + k : k \in new}
  BY <1>6, <1>7, <1>8
<1> QED BY <1>4, <1>9, <1>10 DEF n, m, PlacesAgree, NewPlaces

\* Handing out: what was manifest, and the units of the new events.
LEMMA ReplayGrows ==
  ASSUME NEW S, NEW log \in Seq(S), NEW T, NEW events \in Seq(T), NEW longer,
         Continues(longer, log, events), NoneOf(events, "dealloc")
  PROVE  ReplayManifest(longer) = ReplayManifest(log) \union UnitsOf(events, "alloc")
<1> DEFINE n == Len(log)
           out(l) == At(l, {"alloc"})
           back(l) == At(l, {"dealloc"})
<1>1. n \in Nat /\ Len(events) \in Nat
  OBVIOUS
<1>0. ASSUME NEW kind PROVE PlacesAgree(longer, log, events, kind)
  BY PlacesOf
<1>2. back(longer) = back(log) /\ \A j \in back(log) : longer[j].event = log[j].event
  <2>1. {j \in 1..Len(events) : events[j].kind = "dealloc"} = {}
    BY DEF NoneOf
  <2> QED BY <2>1, <1>0 DEF PlacesAgree, NewPlaces
<1>3. /\ out(log) \subseteq 1..n /\ back(log) \subseteq 1..n
      /\ \A i \in out(log) : longer[i].event = log[i].event
      /\ out(longer) = out(log) \union
           {n + k : k \in {j \in 1..Len(events) : events[j].kind = "alloc"}}
  BY <1>0 DEF PlacesAgree, NewPlaces
<1>4. \A k \in 1..Len(events) : longer[n + k].event = events[k]
  BY DEF Continues
<1> HIDE DEF out, back
<1>5. ASSUME NEW u \in ReplayManifest(longer)
      PROVE  u \in ReplayManifest(log) \union UnitsOf(events, "alloc")
  <2>1. PICK i \in out(longer) :
          /\ u = Unit(longer[i].event)
          /\ \A j \in back(longer) : j > i => Unit(longer[j].event) # u
    BY <1>5 DEF ReplayManifest, out, back
  <2>2. CASE i \in out(log)
    <3>1. u = Unit(log[i].event) /\ \A j \in back(log) : j > i => Unit(log[j].event) # u
      BY <2>1, <2>2, <1>2, <1>3
    <3> QED BY <3>1, <2>2 DEF ReplayManifest, out, back
  <2>3. CASE i \notin out(log)
    <3>1. PICK k \in 1..Len(events) : events[k].kind = "alloc" /\ i = n + k
      BY <2>3, <1>3
    <3>2. u = Unit(events[k])
      BY <3>1, <2>1, <1>4
    <3> QED BY <3>1, <3>2 DEF UnitsOf
  <2> QED BY <2>2, <2>3
<1>6. ASSUME NEW u \in ReplayManifest(log) PROVE u \in ReplayManifest(longer)
  <2>1. PICK i \in out(log) :
          /\ u = Unit(log[i].event)
          /\ \A j \in back(log) : j > i => Unit(log[j].event) # u
    BY <1>6 DEF ReplayManifest, out, back
  <2>2. /\ i \in out(longer) /\ u = Unit(longer[i].event)
        /\ \A j \in back(longer) : j > i => Unit(longer[j].event) # u
    BY <2>1, <1>2, <1>3
  <2> QED BY <2>2 DEF ReplayManifest, out, back
<1>7. ASSUME NEW u \in UnitsOf(events, "alloc") PROVE u \in ReplayManifest(longer)
  <2>1. PICK k \in 1..Len(events) : events[k].kind = "alloc" /\ u = Unit(events[k])
    BY <1>7 DEF UnitsOf
  <2>2. n + k \in out(longer) /\ u = Unit(longer[n + k].event)
    BY <2>1, <1>3, <1>4
  <2>3. \A j \in back(longer) : ~(j > n + k)
    BY <1>1, <1>2, <1>3
  <2> QED BY <2>2, <2>3 DEF ReplayManifest, out, back
<1> QED BY <1>5, <1>6, <1>7

\* Taking back: what was manifest without the units of the new events.
LEMMA ReplayShrinks ==
  ASSUME NEW S, NEW log \in Seq(S), NEW T, NEW events \in Seq(T), NEW longer,
         Continues(longer, log, events), NoneOf(events, "alloc")
  PROVE  ReplayManifest(longer) = ReplayManifest(log) \ UnitsOf(events, "dealloc")
<1> DEFINE n == Len(log)
           out(l) == At(l, {"alloc"})
           back(l) == At(l, {"dealloc"})
<1>1. n \in Nat /\ Len(events) \in Nat
  OBVIOUS
<1>0. ASSUME NEW kind PROVE PlacesAgree(longer, log, events, kind)
  BY PlacesOf
<1>2. out(longer) = out(log) /\ \A i \in out(log) : longer[i].event = log[i].event
  <2>1. {j \in 1..Len(events) : events[j].kind = "alloc"} = {}
    BY DEF NoneOf
  <2> QED BY <2>1, <1>0 DEF PlacesAgree, NewPlaces
<1>3. /\ out(log) \subseteq 1..n /\ back(log) \subseteq 1..n
      /\ \A j \in back(log) : longer[j].event = log[j].event
      /\ back(longer) = back(log) \union
           {n + k : k \in {j \in 1..Len(events) : events[j].kind = "dealloc"}}
  BY <1>0 DEF PlacesAgree, NewPlaces
<1>4. \A k \in 1..Len(events) : longer[n + k].event = events[k]
  BY DEF Continues
<1> HIDE DEF out, back
<1>5. ASSUME NEW u \in ReplayManifest(longer)
      PROVE  u \in ReplayManifest(log) \ UnitsOf(events, "dealloc")
  <2>1. PICK i \in out(longer) :
          /\ u = Unit(longer[i].event)
          /\ \A j \in back(longer) : j > i => Unit(longer[j].event) # u
    BY <1>5 DEF ReplayManifest, out, back
  <2>2. u = Unit(log[i].event) /\ \A j \in back(log) : j > i => Unit(log[j].event) # u
    BY <2>1, <1>2, <1>3
  <2>3. u \in ReplayManifest(log)
    BY <2>1, <2>2, <1>2 DEF ReplayManifest, out, back
  <2>4. ASSUME NEW k \in 1..Len(events), events[k].kind = "dealloc" PROVE u # Unit(events[k])
    <3>1. n + k \in back(longer) /\ n + k > i
      BY <2>4, <2>1, <1>1, <1>2, <1>3
    <3> QED BY <3>1, <2>1, <1>4
  <2> QED BY <2>3, <2>4 DEF UnitsOf
<1>6. ASSUME NEW u \in ReplayManifest(log), u \notin UnitsOf(events, "dealloc")
      PROVE  u \in ReplayManifest(longer)
  <2>1. PICK i \in out(log) :
          /\ u = Unit(log[i].event)
          /\ \A j \in back(log) : j > i => Unit(log[j].event) # u
    BY <1>6 DEF ReplayManifest, out, back
  <2>2. i \in out(longer) /\ u = Unit(longer[i].event)
    BY <2>1, <1>2
  <2>3. ASSUME NEW j \in back(longer), j > i PROVE Unit(longer[j].event) # u
    <3>1. CASE j \in back(log)
      BY <3>1, <2>1, <2>3, <1>3
    <3>2. CASE j \notin back(log)
      <4>1. PICK k \in 1..Len(events) : events[k].kind = "dealloc" /\ j = n + k
        BY <3>2, <1>3
      <4> QED BY <4>1, <1>4, <1>6 DEF UnitsOf
    <3> QED BY <3>1, <3>2
  <2> QED BY <2>2, <2>3 DEF ReplayManifest, out, back
<1> QED BY <1>5, <1>6

\* The events of a call that hands out or takes back units, in some order.
LEMMA UnitEventsAre ==
  ASSUME NEW kind, NEW r, NEW S, IsFiniteSet(S)
  PROVE  LET events == UnitEvents(kind, r, S)
         IN  /\ \E T : events \in Seq(T)
             /\ \A i \in 1..Len(events) : events[i].kind = kind
             /\ UnitsOf(events, kind) = {<<r, b>> : b \in S}
<1> DEFINE E == {[kind |-> kind, resource |-> r, ben |-> b] : b \in S}
           f == [b \in S |-> [kind |-> kind, resource |-> r, ben |-> b]]
           n == Cardinality(E)
           events == UnitEvents(kind, r, S)
<1>1. f \in Surjection(S, E)
  BY DEF Surjection
<1>2. IsFiniteSet(E)
  BY <1>1, FS_Surjection
<1>3. n \in Nat /\ ExistsBijection(1..n, E)
  BY <1>2, FS_CardinalityType
<1>4. PICK g \in Bijection(1..n, E) : TRUE
  BY <1>3, Fun_ExistsBij
<1>5. g \in [1..n -> E] /\ IsInjective(g)
  BY <1>4 DEF Bijection, Injection, IsInjective
<1>6. events \in [1..n -> E] /\ IsInjective(events)
  BY <1>5 DEF UnitEvents, SetToSeq
<1>7. events \in Surjection(1..n, E)
  <2>1. events \in Injection(1..n, E)
    BY <1>6 DEF Injection, IsInjective
  <2>2. IsFiniteSet(1..n) /\ Cardinality(1..n) = n
    BY <1>3, FS_Interval
  <2> QED BY <2>1, <2>2, <1>2, FS_Injection
<1> HIDE DEF events
<1>8. events \in Seq(E) /\ Len(events) = n
  <2> HIDE DEF n, E
  <2> QED BY <1>6, <1>3, [1..n -> E] \subseteq Seq(E)
<1>9. \A i \in 1..n : events[i] \in E
  BY <1>6
<1>10. \A e \in E : \E i \in 1..n : events[i] = e
  BY <1>7 DEF Surjection
<1>11. \A i \in 1..n : events[i].kind = kind /\ events[i].resource = r /\ events[i].ben \in S
  BY <1>9
<1>12. \A b \in S : \E i \in 1..n : events[i] = [kind |-> kind, resource |-> r, ben |-> b]
  BY <1>10
<1>13. UnitsOf(events, kind) = {<<r, b>> : b \in S}
  <2>1. ASSUME NEW u \in UnitsOf(events, kind) PROVE u \in {<<r, b>> : b \in S}
    BY <2>1, <1>8, <1>11 DEF UnitsOf, Unit
  <2>2. ASSUME NEW b \in S PROVE <<r, b>> \in UnitsOf(events, kind)
    <3>1. PICK i \in 1..n : events[i] = [kind |-> kind, resource |-> r, ben |-> b]
      BY <1>12
    <3>2. i \in 1..Len(events) /\ events[i].kind = kind /\ Unit(events[i]) = <<r, b>>
      BY <3>1, <1>8 DEF Unit
    <3> QED BY <3>2 DEF UnitsOf
  <2> QED BY <2>1, <2>2
<1> QED BY <1>8, <1>11, <1>13 DEF events

-----------------------------------------------------------------------------
(* The invariant, call by call *)

LEMMA AuditInitHolds == AuditInit => AuditInv
<1> SUFFICES ASSUME AuditInit PROVE AuditInv
  OBVIOUS
<1> DEFINE e == Chain!Entry(1, [kind |-> "genesis"], Chain!NoHash)
<1>1. entries = <<e>> /\ closed = FALSE /\ Init
  BY DEF AuditInit
<1>2. /\ e.seq = 1 /\ e.event = [kind |-> "genesis"] /\ e.prev = Chain!NoHash
      /\ e.hash = Chain!Hash(e.prev, e.seq, e.event)
  BY DEF Chain!Entry, Chain!Hash
<1> HIDE DEF e
<1>3. /\ entries \in Seq({e}) /\ Len(entries) = 1 /\ DOMAIN entries = 1..1
      /\ entries[1] = e /\ entries # <<>>
  BY <1>1
<1>4. Chain!VerifyChain(entries)
  BY <1>2, <1>3 DEF Chain!VerifyChain
<1>5. RecordsHold
  BY <1>2, <1>3 DEF RecordsHold, RecordHolds
<1>6. ReplayManifest(entries) = {}
  BY <1>2, <1>3 DEF ReplayManifest, At
<1>7. ClaimsAreRegistered /\ TablesAreLogged
  BY <1>1 DEF Init, ClaimsAreRegistered, HasClaim, NoClaim, TablesAreLogged, Present,
              NoCommitment
<1>8. LogIsASequence
  BY <1>3 DEF LogIsASequence
<1>9. IInv /\ replayed = {}
  BY <1>1, InitIInv DEF Init
<1> QED BY <1>1, <1>4, <1>5, <1>6, <1>7, <1>8, <1>9 DEF AuditInv

\* A claim's row is inserted only after its resource was found.
LEMMA RegisteredStep ==
  IInv /\ ClaimsAreRegistered /\ [Next]_vars => ClaimsAreRegistered'
<1> SUFFICES ASSUME IInv, ClaimsAreRegistered, [Next]_vars PROVE ClaimsAreRegistered'
  OBVIOUS
<1> USE DEF ClaimsAreRegistered
<1>1. ASSUME UNCHANGED claims, registered \subseteq registered' PROVE ClaimsAreRegistered'
  BY <1>1 DEF HasClaim
<1>2. ASSUME NEW kind, NoEffect(kind) PROVE ClaimsAreRegistered'
  BY <1>2, <1>1 DEF NoEffect, tables
<1>3. ASSUME NEW c \in ClaimId, HasClaim(c), NEW s \in ClaimStatus, SetStatus(c, s),
             UNCHANGED registered
      PROVE  ClaimsAreRegistered'
  BY <1>3, SetStatusEffect DEF IInv, HasClaim
<1>4. ASSUME NEW p \in Proposal, NEW m, claimSeq < MaxClaims, claimSeq' = claimSeq + 1,
             InsertAndApply(claimSeq', p, m), UNCHANGED registered
      PROVE  ClaimsAreRegistered'
  <2>1. CASE UNCHANGED claims
    BY <2>1, <1>1, <1>4
  <2>2. CASE /\ p.resource \in registered
             /\ \E s : claims' = [claims EXCEPT ![claimSeq'] =
                  [agent |-> p.agent, resource |-> p.resource, bens |-> p.bens,
                   status |-> s, commit |-> m]]
    BY <2>2, <1>4 DEF IInv, TypeOK, HasClaim
  <2> QED BY <2>1, <2>2, <1>4 DEF InsertAndApply
<1>5. ASSUME NEW r, RegisterResource(r) PROVE ClaimsAreRegistered'
  BY <1>5, <1>1, <1>2 DEF RegisterResource
<1>6. ASSUME NEW a, NEW p, Commit(a, p) PROVE ClaimsAreRegistered'
  BY <1>6, <1>1 DEF Commit
<1>7. ASSUME NEW m, NEW p \in Proposal, NEW n, Reveal(m, p, n) PROVE ClaimsAreRegistered'
  BY <1>7, <1>1, <1>2, <1>4 DEF Reveal, RevealMismatch, RevealMatch
<1>8. ASSUME NEW p \in Proposal, SubmitPlain(p) PROVE ClaimsAreRegistered'
  BY <1>8, <1>4 DEF SubmitPlain
<1>9. ASSUME NEW c \in ClaimId, NEW l, NEW s \in ClaimStatus, Granted(c), GiveBack(c, l, s)
      PROVE  ClaimsAreRegistered'
  <2>1. HasClaim(c)
    BY <1>9 DEF Granted, HasClaim
  <2> QED BY <1>9, <2>1, <1>1, <1>3 DEF GiveBack
<1>10. ASSUME NEW a, NEW c \in ClaimId, NEW l, Release(a, c, l) PROVE ClaimsAreRegistered'
  BY <1>10, <1>2, <1>9 DEF Release, ClaimStatus
<1>11. ASSUME NEW c \in ClaimId, NEW l, RevokeOp(c, l) PROVE ClaimsAreRegistered'
  BY <1>11, <1>2, <1>9 DEF RevokeOp, ClaimStatus
<1>12. ASSUME NEW c \in ClaimId, NEW l, GrantOp(c, l) PROVE ClaimsAreRegistered'
  BY <1>12, <1>2, <1>3 DEF GrantOp, HasClaim, ClaimStatus
<1>13. ASSUME NEW a, NEW c \in ClaimId, Withdraw(a, c) PROVE ClaimsAreRegistered'
  BY <1>13, <1>2, <1>3 DEF Withdraw, HasClaim, ClaimStatus
<1>14. ASSUME NEW c \in ClaimId, VoidClaim(c) PROVE ClaimsAreRegistered'
  BY <1>14, <1>2, <1>3 DEF VoidClaim, HasClaim, ClaimStatus
<1>15. ASSUME Reopen \/ UNCHANGED vars PROVE ClaimsAreRegistered'
  BY <1>15, <1>1 DEF Reopen, tables, vars
<1> QED
  BY <1>5, <1>6, <1>7, <1>8, <1>10, <1>11, <1>12, <1>13, <1>14, <1>15 DEF Next

\* Resources and commitments stay, and so does what a commitment seals.
RowsStand ==
  /\ registered \subseteq registered'
  /\ \A m \in CommitId : Present(m) =>
       Present(m)' /\ commitments'[m].digest = commitments[m].digest

\* The new rows are among the events.
NewRowsAreSaid(events) ==
  /\ \A r \in registered' \ registered : \E i \in 1..Len(events) :
       events[i].kind = "resource" /\ events[i].resource = r
  /\ \A m \in CommitId : Present(m)' /\ ~Present(m) => \E i \in 1..Len(events) :
       events[i].kind = "commit" /\ events[i].commitment = m

\* The events say what the call did to the allocations.
UnitsAreSaid(events) ==
  \/ NoneOf(events, "dealloc") /\ replayed' = replayed \union UnitsOf(events, "alloc")
  \/ NoneOf(events, "alloc") /\ replayed' = replayed \ UnitsOf(events, "dealloc")

\* What a call owes the auditor.
LEMMA LoggedKeeps ==
  ASSUME AuditInv, [Next]_vars, NEW T, NEW events \in Seq(T), Emit(events),
         RowsStand, NewRowsAreSaid(events), UnitsAreSaid(events),
         \A i \in 1..Len(events) : RecordHolds(events[i])' /\ events[i].kind # "manifest"
  PROVE  AuditInv'
<1> USE DEF AuditInv
<1> DEFINE n == Len(entries)
<1>1. PICK S : entries \in Seq(S)
  BY DEF LogIsASequence
<1>2. n \in Nat /\ n > 0 /\ Len(events) \in Nat
  BY <1>1 DEF LogIsASequence
<1>3. entries' = Extended(entries, events) /\ closed = FALSE /\ closed' = FALSE
  BY DEF Emit
<1>4. Continues(entries', entries, events) /\ Chain!VerifyChain(entries')
  BY <1>1, <1>2, <1>3, ExtendedContinues
<1>5. /\ \E U : entries' \in Seq(U)
      /\ Len(entries') = n + Len(events)
      /\ \A i \in 1..n : entries'[i] = entries[i]
      /\ \A i \in 1..Len(events) : entries'[n + i].event = events[i]
  BY <1>4 DEF Continues
<1> HIDE DEF n
<1>6. IInv' /\ ClaimsAreRegistered'
  BY StepIInv, RegisteredStep
<1>7. RecordsHold'
  <2> SUFFICES ASSUME NEW i \in 1..Len(entries')
               PROVE  (RecordHolds(entries[i].event) /\ entries[i].event.kind # "manifest")'
    BY DEF RecordsHold
  <2>1. CASE i \in 1..n
    <3>1. PICK e : e = entries[i].event
      OBVIOUS
    <3>2. entries'[i].event = e /\ RecordHolds(e) /\ e.kind # "manifest"
      BY <2>1, <3>1, <1>3, <1>5 DEF RecordsHold, n
    <3>3. RecordHolds(e)'
      BY <3>2 DEF RecordHolds, RowsStand
    <3> QED BY <3>2, <3>3 DEF RecordHolds, Present
  <2>2. CASE i \notin 1..n
    <3>1. PICK k \in 1..Len(events) : i = n + k
      <4>1. i - n \in 1..Len(events) /\ i = n + (i - n)
        BY <2>2, <1>2, <1>5
      <4> QED BY <4>1
    <3>2. entries'[i].event = events[k]
      BY <3>1, <1>5
    <3>3. RecordHolds(events[k])' /\ events[k].kind # "manifest"
      OBVIOUS
    <3> QED BY <3>2, <3>3 DEF RecordHolds, Present
  <2> QED BY <2>1, <2>2
<1>8. TablesAreLogged'
  <2>1. ASSUME NEW r \in registered'
        PROVE  \E i \in 1..Len(entries') :
                 entries'[i].event.kind = "resource" /\ entries'[i].event.resource = r
    <3>1. CASE r \in registered
      <4>1. PICK i \in 1..n : entries[i].event.kind = "resource" /\ entries[i].event.resource = r
        BY <3>1 DEF TablesAreLogged, n
      <4>2. i \in 1..Len(entries') /\ entries'[i] = entries[i]
        BY <1>2, <1>5
      <4> QED BY <4>1, <4>2
    <3>2. CASE r \notin registered
      <4>1. PICK i \in 1..Len(events) : events[i].kind = "resource" /\ events[i].resource = r
        BY <3>2 DEF NewRowsAreSaid
      <4>2. n + i \in 1..Len(entries') /\ entries'[n + i].event = events[i]
        BY <1>2, <1>5
      <4> QED BY <4>1, <4>2
    <3> QED BY <3>1, <3>2
  <2>2. ASSUME NEW m \in CommitId, Present(m)'
        PROVE  \E i \in 1..Len(entries') :
                 entries'[i].event.kind = "commit" /\ entries'[i].event.commitment = m
    <3>1. CASE Present(m)
      <4>1. PICK i \in 1..n : entries[i].event.kind = "commit" /\ entries[i].event.commitment = m
        BY <3>1 DEF TablesAreLogged, n
      <4>2. i \in 1..Len(entries') /\ entries'[i] = entries[i]
        BY <1>2, <1>5
      <4> QED BY <4>1, <4>2
    <3>2. CASE ~Present(m)
      <4>1. PICK i \in 1..Len(events) : events[i].kind = "commit" /\ events[i].commitment = m
        BY <2>2, <3>2 DEF NewRowsAreSaid
      <4>2. n + i \in 1..Len(entries') /\ entries'[n + i].event = events[i]
        BY <1>2, <1>5
      <4> QED BY <4>1, <4>2
    <3> QED BY <3>1, <3>2
  <2> QED BY <2>1, <2>2 DEF TablesAreLogged
<1>9. replayed' = ReplayManifest(entries')
  <2>1. NoneOf(events, "dealloc") =>
          ReplayManifest(entries') = ReplayManifest(entries) \union UnitsOf(events, "alloc")
    BY <1>1, <1>4, ReplayGrows
  <2>2. NoneOf(events, "alloc") =>
          ReplayManifest(entries') = ReplayManifest(entries) \ UnitsOf(events, "dealloc")
    BY <1>1, <1>4, ReplayShrinks
  <2> QED BY <2>1, <2>2 DEF UnitsAreSaid
<1>10. LogIsASequence'
  BY <1>2, <1>5 DEF LogIsASequence
<1>11. ReplayManifest(entries)' = ReplayManifest(entries')
  BY DEF ReplayManifest, At
<1> QED BY <1>3, <1>4, <1>6, <1>7, <1>8, <1>9, <1>10

LEMMA NoEvents ==
  /\ <<>> \in Seq({}) /\ Len(<<>>) = 0
  /\ \A kind : UnitsOf(<<>>, kind) = {}
BY DEF UnitsOf

LEMMA OneEvent ==
  ASSUME NEW e
  PROVE  <<e>> \in Seq({e}) /\ Len(<<e>>) = 1 /\ <<e>>[1] = e
OBVIOUS

\* A call that does not insert into the two tables and only moves units.
LEMMA MovesKeep ==
  ASSUME AuditInv, [Next]_vars, NEW T, NEW events \in Seq(T), Emit(events),
         UNCHANGED registered, RowsStand, \A m \in CommitId : Present(m)' => Present(m),
         \A i \in 1..Len(events) : events[i].kind \in {"alloc", "dealloc"},
         UnitsAreSaid(events)
  PROVE  AuditInv'
<1>1. NewRowsAreSaid(events)
  BY DEF NewRowsAreSaid
<1>2. \A i \in 1..Len(events) : RecordHolds(events[i])' /\ events[i].kind # "manifest"
  BY DEF RecordHolds
<1> QED BY <1>1, <1>2, LoggedKeeps

\* A call that changes neither the rows nor the allocations, and logs nothing.
LEMMA SilentKeeps ==
  ASSUME AuditInv, [Next]_vars, Emit(<<>>), UNCHANGED <<registered, replayed>>,
         RowsStand, \A m \in CommitId : Present(m)' => Present(m)
  PROVE  AuditInv'
<1>1. PICK events : events = <<>>
  OBVIOUS
<1>2. events \in Seq({}) /\ Len(events) = 0 /\ UnitsOf(events, "alloc") = {}
  BY <1>1, NoEvents
<1>3. UnitsAreSaid(events) /\ Emit(events)
  BY <1>1, <1>2 DEF UnitsAreSaid, NoneOf
<1>4. \A i \in 1..Len(events) : events[i].kind \in {"alloc", "dealloc"}
  BY <1>2
<1> QED BY <1>2, <1>3, <1>4, MovesKeep

LEMMA NoEffectIsSilent ==
  ASSUME AuditInv, [Next]_vars, Emit(<<>>), NEW kind, NoEffect(kind)
  PROVE  AuditInv'
<1>1. UNCHANGED <<registered, commitments, replayed>>
  BY DEF NoEffect, tables
<1> QED BY <1>1, SilentKeeps DEF RowsStand, Present

\* Units handed out are logged, whether or not there were any.
LEMMA GrantingIsSaid ==
  ASSUME AuditInv, NEW c, NEW r, NEW S \in SUBSET Beneficiary, NEW events,
         events = Granting(c, S),
         \/ UNCHANGED <<alloc, replayed>>
         \/ Allocate(c, r, S) /\ claims'[c].resource = r
  PROVE  /\ \E T : events \in Seq(T)
         /\ \A i \in 1..Len(events) : events[i].kind = "alloc"
         /\ UnitsAreSaid(events)
<1>1. IsFiniteSet(S)
  BY BeneficiaryAssumption, FS_Subset
<1>2. CASE alloc' = alloc
  <2>1. events = <<>>
    BY <1>2 DEF Granting
  <2>2. replayed' = replayed
    <3>1. SUFFICES ASSUME Allocate(c, r, S), NEW b \in S PROVE <<r, b>> \in replayed
      BY DEF Allocate
    <3>2. [resource |-> r, ben |-> b, claim |-> c] \in alloc
      BY <3>1, <1>2 DEF Allocate
    <3> QED BY <3>2 DEF AuditInv, IInv, UnitsInv, ReplayAgrees
  <2> QED BY <2>1, <2>2, NoEvents DEF UnitsAreSaid, NoneOf
<1>3. CASE alloc' # alloc
  <2>1. Allocate(c, r, S) /\ events = UnitEvents("alloc", r, S)
    BY <1>3 DEF Granting
  <2>2. /\ \E T : events \in Seq(T)
        /\ \A i \in 1..Len(events) : events[i].kind = "alloc"
        /\ UnitsOf(events, "alloc") = {<<r, b>> : b \in S}
    BY <1>1, <2>1, UnitEventsAre
  <2> QED BY <2>1, <2>2 DEF UnitsAreSaid, NoneOf, Allocate
<1> QED BY <1>2, <1>3

\* Units taken back are logged.
LEMMA DeallocateIsSaid ==
  ASSUME NEW c, NEW r, NEW S \in SUBSET Beneficiary, NEW events,
         events = UnitEvents("dealloc", r, S), Deallocate(c, r, S)
  PROVE  /\ \E T : events \in Seq(T)
         /\ \A i \in 1..Len(events) : events[i].kind = "dealloc"
         /\ UnitsAreSaid(events)
<1>1. IsFiniteSet(S)
  BY BeneficiaryAssumption, FS_Subset
<1>2. /\ \E T : events \in Seq(T)
      /\ \A i \in 1..Len(events) : events[i].kind = "dealloc"
      /\ UnitsOf(events, "dealloc") = {<<r, b>> : b \in S}
  BY <1>1, UnitEventsAre
<1> QED BY <1>2 DEF UnitsAreSaid, NoneOf, Deallocate

LEMMA LoggedRegisterKeeps ==
  ASSUME AuditInv, NEW r \in Resource, LoggedRegister(r)
  PROVE  AuditInv'
<1> DEFINE e == [kind |-> "resource", resource |-> r, capacity |-> Capacity[r],
                 group |-> Group[r]]
<1>1. [Next]_vars
  BY DEF LoggedRegister, Next
<1>2. CASE NoEffect("ledger_error")
  <2>1. Emit(<<>>)
    BY <1>2 DEF LoggedRegister, EmitIf, NoEffect
  <2> QED BY <2>1, <1>1, <1>2, NoEffectIsSilent
<1>3. CASE /\ registered' = registered \union {r}
           /\ outcome' = "ok"
           /\ UNCHANGED <<commitments, replayed>>
  <2>1. Emit(<<e>>)
    BY <1>3 DEF LoggedRegister, EmitIf
  <2> DEFINE events == <<e>>
  <2>2. events \in Seq({e}) /\ Len(events) = 1 /\ events[1] = e
    BY OneEvent
  <2>3. Emit(events)
    BY <2>1
  <2> HIDE DEF events
  <2>4. e.kind = "resource" /\ e.resource = r
    OBVIOUS
  <2>5. RecordHolds(e)' /\ e.kind # "manifest"
    BY <1>3 DEF RecordHolds
  <2> HIDE DEF e
  <2>6. RowsStand /\ NewRowsAreSaid(events)
    BY <1>3, <2>2, <2>4 DEF RowsStand, NewRowsAreSaid, Present
  <2>7. UnitsAreSaid(events)
    <3>1. NoneOf(events, "dealloc") /\ UnitsOf(events, "alloc") = {}
      BY <2>2, <2>4 DEF NoneOf, UnitsOf
    <3> QED BY <3>1, <1>3 DEF UnitsAreSaid
  <2>8. \A i \in 1..Len(events) : RecordHolds(events[i])' /\ events[i].kind # "manifest"
    <3> TAKE i \in 1..Len(events)
    <3>1. events[i] = e
      BY <2>2
    <3> QED BY <3>1, <2>5 DEF RecordHolds, Present
  <2> QED BY <1>1, <2>2, <2>3, <2>6, <2>7, <2>8, LoggedKeeps
<1> QED BY <1>2, <1>3 DEF LoggedRegister, RegisterResource

LEMMA LoggedCommitKeeps ==
  ASSUME AuditInv, NEW p \in Proposal, LoggedCommit(p)
  PROVE  AuditInv'
<1>1. PICK m : m = commitSeq'
  OBVIOUS
<1> DEFINE e == [kind |-> "commit", commitment |-> m, digest |-> CommitmentDigest(p, "right")]
<1>2. /\ commitSeq < MaxCommits /\ m = commitSeq + 1
      /\ commitments' = [commitments EXCEPT ![m] =
           [agent |-> p.agent, digest |-> p, state |-> "sealed", claim |-> 0]]
      /\ UNCHANGED <<registered, replayed>>
      /\ Emit(<<e>>)
  BY <1>1 DEF LoggedCommit, Commit
<1>3. [Next]_vars
  BY DEF LoggedCommit, Next, Proposal
<1>4. /\ m \in CommitId /\ ~Present(m)
      /\ commitments \in [CommitId -> Commitment \union {NoCommitment}]
  BY <1>2, BoundsAssumption DEF AuditInv, IInv, TypeOK, NextIdsAreFree, CommitId, Present
<1>5. /\ commitments'[m].digest = p /\ Present(m)'
      /\ \A n \in CommitId \ {m} : commitments'[n] = commitments[n]
  BY <1>2, <1>4 DEF Present
<1> DEFINE events == <<e>>
<1>6. events \in Seq({e}) /\ Len(events) = 1 /\ events[1] = e
  BY OneEvent
<1>7. Emit(events)
  BY <1>2
<1> HIDE DEF events
<1>8. e.kind = "commit" /\ e.commitment = m
  OBVIOUS
<1>9. RecordHolds(e)' /\ e.kind # "manifest"
  BY <1>4, <1>5 DEF RecordHolds
<1> HIDE DEF e
<1>10. RowsStand /\ NewRowsAreSaid(events)
  BY <1>2, <1>4, <1>5, <1>6, <1>8 DEF RowsStand, NewRowsAreSaid, Present
<1>11. UnitsAreSaid(events)
  <2>1. NoneOf(events, "dealloc") /\ UnitsOf(events, "alloc") = {}
    BY <1>6, <1>8 DEF NoneOf, UnitsOf
  <2> QED BY <2>1, <1>2 DEF UnitsAreSaid
<1>12. \A i \in 1..Len(events) : RecordHolds(events[i])' /\ events[i].kind # "manifest"
  <2> TAKE i \in 1..Len(events)
  <2>1. events[i] = e
    BY <1>6
  <2> QED BY <2>1, <1>9 DEF RecordHolds, Present
<1> QED BY <1>3, <1>6, <1>7, <1>10, <1>11, <1>12, LoggedKeeps
\* A reveal of a commitment the code turns down, or that does not match.
LEMMA RejectKeeps ==
  ASSUME AuditInv, NEW m \in CommitId, NEW p \in Proposal, NEW nonce \in Nonce,
         [Next]_vars, CanReveal(m, p), RevealMismatch(m),
         ~(nonce = "right" /\ p = commitments[m].digest),
         Emit(<<RevealEvent("reveal_reject", m, p, nonce)>>)
  PROVE  AuditInv'
<1> DEFINE e == RevealEvent("reveal_reject", m, p, nonce)
           events == <<e>>
<1>1. events \in Seq({e}) /\ Len(events) = 1 /\ events[1] = e /\ Emit(events)
  BY OneEvent
<1> HIDE DEF events
<1>2. /\ e.kind = "reveal_reject" /\ e.commitment = m /\ e.claim = p /\ e.nonce = nonce
  BY DEF RevealEvent
<1> HIDE DEF e
<1>3. /\ commitments \in [CommitId -> Commitment \union {NoCommitment}]
      /\ commitments[m] \in Commitment
      /\ commitments' = [commitments EXCEPT ![m].state = "rejected"]
      /\ UNCHANGED <<registered, replayed>>
  BY DEF CanReveal, RevealMismatch, AuditInv, IInv, TypeOK, NoCommitment
<1>4. /\ commitments'[m].digest = commitments[m].digest /\ Present(m) /\ Present(m)'
      /\ \A n \in CommitId \ {m} : commitments'[n] = commitments[n]
  BY <1>3 DEF Present, CanReveal, Commitment
<1>5. RecordHolds(e)' /\ e.kind # "manifest"
  BY <1>2, <1>4 DEF RecordHolds
<1>6. RowsStand /\ NewRowsAreSaid(events)
  BY <1>3, <1>4 DEF RowsStand, NewRowsAreSaid, Present
<1>7. UnitsAreSaid(events)
  <2>1. NoneOf(events, "dealloc") /\ UnitsOf(events, "alloc") = {}
    BY <1>1, <1>2 DEF NoneOf, UnitsOf
  <2> QED BY <2>1, <1>3 DEF UnitsAreSaid
<1>8. \A i \in 1..Len(events) : RecordHolds(events[i])' /\ events[i].kind # "manifest"
  <2> TAKE i \in 1..Len(events)
  <2>1. events[i] = e
    BY <1>1
  <2> QED BY <2>1, <1>5 DEF RecordHolds, Present
<1> QED BY <1>1, <1>6, <1>7, <1>8, LoggedKeeps

\* A row inserted, and its units if there were enough: the rest of a reveal or
\* of a plain submission.
LEMMA InsertIsSaid ==
  ASSUME AuditInv, NEW p \in Proposal, NEW m, claimSeq < MaxClaims,
         claimSeq' = claimSeq + 1, InsertAndApply(claimSeq', p, m),
         NEW events, events = Granting(claimSeq', p.bens)
  PROVE  /\ \E T : events \in Seq(T)
         /\ \A i \in 1..Len(events) : events[i].kind = "alloc"
         /\ UnitsAreSaid(events)
<1>1. PICK c : c = claimSeq'
  OBVIOUS
<1>2. events = Granting(c, p.bens) /\ p.bens \in SUBSET Beneficiary
  BY <1>1 DEF Granting, Proposal
<1>3. c \in ClaimId /\ claims \in [ClaimId -> Claim \union {NoClaim}]
  BY <1>1, BoundsAssumption DEF AuditInv, IInv, TypeOK, ClaimId
<1>4. \/ UNCHANGED <<alloc, replayed>>
      \/ /\ claims' = [claims EXCEPT ![c] =
                [agent |-> p.agent, resource |-> p.resource, bens |-> p.bens,
                 status |-> "granted", commit |-> m]]
         /\ Allocate(c, p.resource, p.bens)
  BY <1>1 DEF InsertAndApply
<1>5. \/ UNCHANGED <<alloc, replayed>>
      \/ claims'[c].resource = p.resource /\ Allocate(c, p.resource, p.bens)
  BY <1>3, <1>4
<1> QED BY <1>2, <1>5, GrantingIsSaid

LEMMA LoggedSubmitKeeps ==
  ASSUME AuditInv, NEW p \in Proposal, LoggedSubmit(p)
  PROVE  AuditInv'
<1>1. [Next]_vars
  BY DEF LoggedSubmit, Next
<1>2. /\ claimSeq < MaxClaims /\ claimSeq' = claimSeq + 1
      /\ InsertAndApply(claimSeq', p, 0)
      /\ UNCHANGED <<registered, commitments>>
      /\ Emit(Granting(claimSeq', p.bens))
  BY DEF LoggedSubmit, SubmitPlain
<1>3. PICK events : events = Granting(claimSeq', p.bens)
  OBVIOUS
<1>4. /\ \E T : events \in Seq(T)
      /\ \A i \in 1..Len(events) : events[i].kind = "alloc"
      /\ UnitsAreSaid(events)
  BY <1>2, <1>3, InsertIsSaid
<1>5. Emit(events)
  BY <1>2, <1>3
<1>6. RowsStand /\ \A m \in CommitId : Present(m)' => Present(m)
  BY <1>2 DEF RowsStand, Present
<1> QED BY <1>1, <1>2, <1>4, <1>5, <1>6, MovesKeep

\* An accepted reveal is logged before the units it brings.
LEMMA AcceptKeeps ==
  ASSUME AuditInv, NEW m \in CommitId, NEW p \in Proposal, [Next]_vars,
         CanReveal(m, p), p = commitments[m].digest, RevealMatch(m, p),
         Emit(<<RevealEvent("reveal_ok", m, p, "right")>> \o Granting(claimSeq', p.bens))
  PROVE  AuditInv'
<1> DEFINE e == RevealEvent("reveal_ok", m, p, "right")
<1>1. /\ claimSeq < MaxClaims /\ claimSeq' = claimSeq + 1
      /\ InsertAndApply(claimSeq', p, m)
      /\ UNCHANGED registered
      /\ commitments' = [commitments EXCEPT ![m].state = "accepted", ![m].claim = claimSeq']
  BY DEF RevealMatch
<1>2. PICK units : units = Granting(claimSeq', p.bens)
  OBVIOUS
<1>3. /\ \E T : units \in Seq(T)
      /\ \A i \in 1..Len(units) : units[i].kind = "alloc"
      /\ UnitsAreSaid(units)
  BY <1>1, <1>2, InsertIsSaid
<1>4. PICK T : units \in Seq(T)
  BY <1>3
<1> DEFINE events == <<e>> \o units
<1>5. /\ events \in Seq(T \union {e}) /\ Len(events) = Len(units) + 1 /\ Len(units) \in Nat
      /\ events[1] = e /\ \A i \in 1..Len(units) : events[i + 1] = units[i]
  <2>1. <<e>> \in Seq(T \union {e}) /\ units \in Seq(T \union {e})
    BY <1>4
  <2> HIDE DEF e
  <2> QED BY <2>1
<1>6. Emit(events)
  BY <1>2
<1>7. \A i \in 1..Len(events) : events[i] = e \/ (events[i] = units[i - 1] /\ i - 1 \in 1..Len(units))
  <2> TAKE i \in 1..Len(events)
  <2> HIDE DEF events, e
  <2>1. CASE i = 1
    BY <2>1, <1>5
  <2>2. CASE i # 1
    <3>1. i - 1 \in 1..Len(units) /\ i = (i - 1) + 1
      BY <2>2, <1>5
    <3> QED BY <3>1, <1>5
  <2> QED BY <2>1, <2>2
<1> HIDE DEF events
<1>8. e.kind = "reveal_ok" /\ e.commitment = m /\ e.claim = p /\ e.nonce = "right"
  BY DEF RevealEvent
<1> HIDE DEF e
<1>9. /\ commitments \in [CommitId -> Commitment \union {NoCommitment}]
      /\ commitments[m] \in Commitment
  BY DEF CanReveal, AuditInv, IInv, TypeOK, NoCommitment
<1>10. /\ commitments'[m].digest = commitments[m].digest /\ Present(m) /\ Present(m)'
       /\ \A n \in CommitId \ {m} : commitments'[n] = commitments[n]
  BY <1>1, <1>9 DEF Present, CanReveal, Commitment
<1>11. RecordHolds(e)' /\ e.kind # "manifest"
  BY <1>8, <1>10 DEF RecordHolds
<1>12. RowsStand /\ NewRowsAreSaid(events)
  BY <1>1, <1>10 DEF RowsStand, NewRowsAreSaid, Present
<1>13. UnitsAreSaid(events)
  <2>1. NoneOf(events, "dealloc")
    BY <1>3, <1>7, <1>8 DEF NoneOf
  <2>2. UnitsOf(events, "alloc") = UnitsOf(units, "alloc")
    <3>1. ASSUME NEW u \in UnitsOf(events, "alloc") PROVE u \in UnitsOf(units, "alloc")
      <4>1. PICK i \in 1..Len(events) : events[i].kind = "alloc" /\ u = Unit(events[i])
        BY <3>1 DEF UnitsOf
      <4>2. events[i] = units[i - 1] /\ i - 1 \in 1..Len(units)
        BY <4>1, <1>7, <1>8
      <4> QED BY <4>1, <4>2 DEF UnitsOf
    <3>2. ASSUME NEW u \in UnitsOf(units, "alloc") PROVE u \in UnitsOf(events, "alloc")
      <4>1. PICK i \in 1..Len(units) : units[i].kind = "alloc" /\ u = Unit(units[i])
        BY <3>2 DEF UnitsOf
      <4>2. i + 1 \in 1..Len(events) /\ events[i + 1] = units[i]
        BY <1>5
      <4> QED BY <4>1, <4>2 DEF UnitsOf
    <3> QED BY <3>1, <3>2
  <2>3. NoneOf(units, "alloc") => UnitsOf(units, "alloc") = {} /\ UnitsOf(units, "dealloc") = {}
    BY <1>3 DEF NoneOf, UnitsOf
  <2> QED BY <2>1, <2>2, <2>3, <1>3 DEF UnitsAreSaid
<1>14. \A i \in 1..Len(events) : RecordHolds(events[i])' /\ events[i].kind # "manifest"
  <2> TAKE i \in 1..Len(events)
  <2>1. CASE events[i] = e
    BY <2>1, <1>11 DEF RecordHolds, Present
  <2>2. CASE events[i].kind = "alloc"
    BY <2>2 DEF RecordHolds
  <2> QED BY <2>1, <2>2, <1>3, <1>7
<1> QED BY <1>5, <1>6, <1>12, <1>13, <1>14, LoggedKeeps

LEMMA LoggedRevealKeeps ==
  ASSUME AuditInv, NEW m \in CommitId, NEW p \in Proposal, NEW nonce \in Nonce,
         LoggedReveal(m, p, nonce)
  PROVE  AuditInv'
<1> DEFINE right == VerifyCommitment(p, nonce, CommitmentDigest(p, "right"))
<1>1. right = (nonce = "right")
  BY DEF VerifyCommitment, WellFormed, CommitmentDigest, Nonce
<1>2. right \in BOOLEAN
  BY DEF VerifyCommitment
<1>3. Reveal(m, p, right)
  BY DEF LoggedReveal
<1> HIDE DEF right
<1>4. [Next]_vars
  BY <1>2, <1>3 DEF Next
<1>5. commitments \in [CommitId -> Commitment \union {NoCommitment}]
  BY DEF AuditInv, IInv, TypeOK
<1>6. CASE NoEffect("ledger_error")
  <2>1. commitments'[m].state = commitments[m].state
    BY <1>6 DEF NoEffect, tables
  <2>2. Emit(<<>>)
    BY <2>1 DEF LoggedReveal
  <2> QED BY <2>2, <1>4, <1>6, NoEffectIsSilent
<1>7. CASE CanReveal(m, p) /\ ~(nonce = "right" /\ p = commitments[m].digest) /\ RevealMismatch(m)
  <2>1. commitments'[m].state = "rejected" /\ commitments[m].state = "sealed"
    BY <1>5, <1>7 DEF CanReveal, RevealMismatch, Commitment, NoCommitment
  <2>2. Emit(<<RevealEvent("reveal_reject", m, p, nonce)>>)
    BY <2>1 DEF LoggedReveal
  <2> QED BY <2>2, <1>4, <1>7, RejectKeeps
<1>8. CASE CanReveal(m, p) /\ nonce = "right" /\ p = commitments[m].digest /\ RevealMatch(m, p)
  <2>1. commitments'[m].state = "accepted" /\ commitments[m].state = "sealed"
    BY <1>5, <1>8 DEF CanReveal, RevealMatch, Commitment, NoCommitment
  <2>2. Emit(<<RevealEvent("reveal_ok", m, p, "right")>> \o Granting(claimSeq', p.bens))
    BY <2>1, <1>8 DEF LoggedReveal
  <2> QED BY <2>2, <1>4, <1>8, AcceptKeeps
<1> QED BY <1>1, <1>3, <1>6, <1>7, <1>8 DEF Reveal

\* Giving back some or all of what a claim holds.
LEMMA GiveBackIsSaid ==
  ASSUME AuditInv, [Next]_vars, NEW c \in ClaimId, NEW l \in BenList, NEW s,
         GiveBack(c, l, s), Emit(UnitEvents("dealloc", claims[c].resource, l.bens))
  PROVE  AuditInv'
<1>1. PICK events : events = UnitEvents("dealloc", claims[c].resource, l.bens)
  OBVIOUS
<1>2. Deallocate(c, claims[c].resource, l.bens) /\ UNCHANGED <<registered, commitments>>
  BY DEF GiveBack
<1>3. l.bens \in SUBSET Beneficiary
  BY DEF BenList
<1>4. /\ \E T : events \in Seq(T)
      /\ \A i \in 1..Len(events) : events[i].kind = "dealloc"
      /\ UnitsAreSaid(events)
  <2>1. PICK r : r = claims[c].resource
    OBVIOUS
  <2>2. events = UnitEvents("dealloc", r, l.bens) /\ Deallocate(c, r, l.bens)
    BY <2>1, <1>1, <1>2 DEF Deallocate
  <2> QED BY <2>2, <1>3, DeallocateIsSaid
<1>5. Emit(events)
  BY <1>1
<1>6. RowsStand /\ \A m \in CommitId : Present(m)' => Present(m)
  BY <1>2 DEF RowsStand, Present
<1> QED BY <1>2, <1>4, <1>5, <1>6, MovesKeep

LEMMA LoggedReleaseKeeps ==
  ASSUME AuditInv, NEW a \in Agent, NEW c \in ClaimId, NEW l \in BenList,
         LoggedRelease(a, c, l)
  PROVE  AuditInv'
<1>1. [Next]_vars
  BY DEF LoggedRelease, Next
<1>2. CASE GiveBack(c, l, "released")
  <2>1. Emit(UnitEvents("dealloc", claims[c].resource, l.bens))
    BY <1>2 DEF LoggedRelease, EmitIf, GiveBack
  <2> QED BY <2>1, <1>1, <1>2, GiveBackIsSaid
<1>3. CASE NoEffect("ledger_error")
  <2>1. Emit(<<>>)
    BY <1>3 DEF LoggedRelease, EmitIf, NoEffect
  <2> QED BY <2>1, <1>1, <1>3, NoEffectIsSilent
<1> QED BY <1>2, <1>3 DEF LoggedRelease, Release

LEMMA LoggedRevokeKeeps ==
  ASSUME AuditInv, NEW c \in ClaimId, NEW l \in BenList, LoggedRevoke(c, l)
  PROVE  AuditInv'
<1>1. [Next]_vars
  BY DEF LoggedRevoke, Next
<1>2. CASE GiveBack(c, l, "revoked")
  <2>1. Emit(UnitEvents("dealloc", claims[c].resource, l.bens))
    BY <1>2 DEF LoggedRevoke, EmitIf, GiveBack
  <2> QED BY <2>1, <1>1, <1>2, GiveBackIsSaid
<1>3. CASE NoEffect("ledger_error")
  <2>1. Emit(<<>>)
    BY <1>3 DEF LoggedRevoke, EmitIf, NoEffect
  <2> QED BY <2>1, <1>1, <1>3, NoEffectIsSilent
<1> QED BY <1>2, <1>3 DEF LoggedRevoke, RevokeOp

LEMMA LoggedGrantKeeps ==
  ASSUME AuditInv, NEW c \in ClaimId, NEW l \in BenList, LoggedGrant(c, l)
  PROVE  AuditInv'
<1>1. [Next]_vars
  BY DEF LoggedGrant, Next
<1>2. PICK events : events = Granting(c, l.bens)
  OBVIOUS
<1>3. Emit(events) /\ GrantOp(c, l)
  BY <1>2 DEF LoggedGrant
<1>4. UNCHANGED <<registered, commitments>>
  BY <1>3 DEF GrantOp, NoEffect, tables
<1>5. PICK r : r = claims[c].resource
  OBVIOUS
<1>6. \/ UNCHANGED <<alloc, replayed>>
      \/ Allocate(c, r, l.bens) /\ claims'[c].resource = r
  <2>1. CASE UNCHANGED <<alloc, replayed>>
    BY <2>1
  <2>2. CASE /\ claims[c].status = "blocked"
             /\ Allocate(c, claims[c].resource, l.bens) /\ SetStatus(c, "granted")
    <3>1. HasClaim(c) /\ "granted" \in ClaimStatus
      BY <2>2 DEF HasClaim, ClaimStatus
    <3>2. claims'[c].resource = claims[c].resource
      BY <3>1, <2>2, SetStatusEffect DEF AuditInv, IInv
    <3> QED BY <3>2, <2>2, <1>5 DEF Allocate
  <2> QED BY <2>1, <2>2, <1>3 DEF GrantOp, NoEffect, tables
<1>7. l.bens \in SUBSET Beneficiary
  BY DEF BenList
<1>8. /\ \E T : events \in Seq(T)
      /\ \A i \in 1..Len(events) : events[i].kind = "alloc"
      /\ UnitsAreSaid(events)
  <2>1. PICK S : S = l.bens
    OBVIOUS
  <2>2. events = Granting(c, S) /\ S \in SUBSET Beneficiary
    BY <2>1, <1>2, <1>7
  <2>3. UNCHANGED <<alloc, replayed>> \/ (Allocate(c, r, S) /\ claims'[c].resource = r)
    BY <2>1, <1>6
  <2> QED BY <2>2, <2>3, GrantingIsSaid
<1>9. RowsStand /\ \A m \in CommitId : Present(m)' => Present(m)
  BY <1>4 DEF RowsStand, Present
<1> QED BY <1>1, <1>3, <1>4, <1>8, <1>9, MovesKeep

LEMMA LoggedVoidKeeps ==
  ASSUME AuditInv, NEW c \in ClaimId, LoggedVoid(c)
  PROVE  AuditInv'
<1>1. [Next]_vars
  BY DEF LoggedVoid, Next
<1>2. UNCHANGED <<registered, commitments>> /\ VoidClaim(c)
  BY DEF LoggedVoid, VoidClaim, NoEffect, tables
<1>3. RowsStand /\ \A m \in CommitId : Present(m)' => Present(m)
  BY <1>2 DEF RowsStand, Present
<1>4. CASE HasClaim(c) /\ Granted(c)
  <2>1. PICK S : S = Holders(c)
    OBVIOUS
  <2>2. PICK r : r = claims[c].resource
    OBVIOUS
  <2>3. PICK events : events = UnitEvents("dealloc", r, S)
    OBVIOUS
  <2>4. Emit(events)
    BY <2>1, <2>2, <2>3, <1>4 DEF LoggedVoid, EmitIf
  <2>5. Deallocate(c, r, S)
    BY <2>1, <2>2, <1>2, <1>4 DEF VoidClaim, Granted, HasClaim, Deallocate
  <2>6. S \in SUBSET Beneficiary
    BY <2>1 DEF Holders, AuditInv, IInv, TypeOK, Allocation
  <2>7. /\ \E T : events \in Seq(T)
        /\ \A i \in 1..Len(events) : events[i].kind = "dealloc"
        /\ UnitsAreSaid(events)
    BY <2>3, <2>5, <2>6, DeallocateIsSaid
  <2> QED BY <2>4, <2>7, <1>1, <1>2, <1>3, MovesKeep
<1>5. CASE ~(HasClaim(c) /\ Granted(c))
  <2>1. Emit(<<>>) /\ replayed' = replayed
    BY <1>2, <1>5 DEF LoggedVoid, EmitIf, VoidClaim, NoEffect, Granted, HasClaim
  <2> QED BY <2>1, <1>1, <1>2, <1>3, SilentKeeps
<1> QED BY <1>4, <1>5

LEMMA LoggedWithdrawKeeps ==
  ASSUME AuditInv, NEW a \in Agent, NEW c \in ClaimId, LoggedWithdraw(a, c)
  PROVE  AuditInv'
<1>1. [Next]_vars
  BY DEF LoggedWithdraw, Next
<1>2. UNCHANGED <<registered, commitments, replayed>> /\ Emit(<<>>)
  BY DEF LoggedWithdraw, Withdraw, NoEffect, tables
<1>3. RowsStand /\ \A m \in CommitId : Present(m)' => Present(m)
  BY <1>2 DEF RowsStand, Present
<1> QED BY <1>1, <1>2, <1>3, SilentKeeps

LEMMA ReopenAuditKeeps ==
  ASSUME AuditInv, Reopen, Emit(<<>>)
  PROVE  AuditInv'
<1>1. [Next]_vars
  BY DEF Next
<1>2. UNCHANGED <<registered, commitments, replayed>>
  BY DEF Reopen, tables
<1>3. RowsStand /\ \A m \in CommitId : Present(m)' => Present(m)
  BY <1>2 DEF RowsStand, Present
<1> QED BY <1>1, <1>2, <1>3, SilentKeeps

\* A ruling is signed only with citations that resolve, so it cites something.
LEMMA SignRulingKeeps ==
  ASSUME AuditInv, NEW cites, SignRuling(cites)
  PROVE  AuditInv'
<1>1. [Next]_vars /\ UNCHANGED <<registered, commitments, replayed>>
  BY DEF SignRuling, vars, tables
<1>2. RowsStand /\ \A m \in CommitId : Present(m)' => Present(m)
  BY <1>1 DEF RowsStand, Present
<1>3. CASE cites \intersect Known = {}
  <2>1. Emit(<<>>)
    BY <1>3 DEF SignRuling, EmitIf
  <2> QED BY <2>1, <1>1, <1>2, SilentKeeps
<1>4. CASE cites \intersect Known # {}
  <2> DEFINE e == [kind |-> "ruling", citations |-> cites \intersect Known]
             events == <<e>>
  <2>1. events \in Seq({e}) /\ Len(events) = 1 /\ events[1] = e
    BY OneEvent
  <2>2. Emit(events)
    BY <1>4 DEF SignRuling, EmitIf
  <2> HIDE DEF events
  <2>3. e.kind = "ruling" /\ e.citations # {}
    BY <1>4
  <2> HIDE DEF e
  <2>4. RecordHolds(e)' /\ e.kind # "manifest"
    BY <2>3 DEF RecordHolds
  <2>5. UnitsAreSaid(events)
    <3>1. NoneOf(events, "dealloc") /\ UnitsOf(events, "alloc") = {}
      BY <2>1, <2>3 DEF NoneOf, UnitsOf
    <3> QED BY <3>1, <1>1 DEF UnitsAreSaid
  <2>6. \A i \in 1..Len(events) : RecordHolds(events[i])' /\ events[i].kind # "manifest"
    <3> TAKE i \in 1..Len(events)
    <3>1. events[i] = e
      BY <2>1
    <3> QED BY <3>1, <2>4 DEF RecordHolds, Present
  <2>7. NewRowsAreSaid(events)
    BY <1>1, <1>2 DEF NewRowsAreSaid
  <2> QED BY <1>1, <1>2, <2>1, <2>2, <2>5, <2>6, <2>7, LoggedKeeps
<1> QED BY <1>3, <1>4

\* The manifest closes the log; it is no unit's event and no row's.
LEMMA RecordManifestKeeps ==
  ASSUME AuditInv, RecordManifest
  PROVE  AuditInv'
<1> USE DEF AuditInv
<1> DEFINE n == Len(entries)
<1>1. PICK S : entries \in Seq(S)
  BY DEF LogIsASequence
<1>2. n \in Nat /\ n > 0
  BY <1>1 DEF LogIsASequence
<1>3. PICK e : e = ManifestEvent
  OBVIOUS
<1>4. /\ closed = FALSE /\ closed' = TRUE /\ entries' = Chained(entries, e)
      /\ UNCHANGED vars
  BY <1>3 DEF RecordManifest, ManifestEvent
<1>5. /\ \E U : entries' \in Seq(U)
      /\ Len(entries') = n + 1
      /\ \A i \in 1..n : entries'[i] = entries[i]
      /\ entries'[n + 1].event = e
      /\ Chain!VerifyChain(entries')
  BY <1>1, <1>2, <1>4, ChainedContinues
<1> HIDE DEF n
<1>6. IInv' /\ ClaimsAreRegistered' /\ ManifestEvent' = ManifestEvent
  <2>1. UNCHANGED <<registered, commitments, claims, alloc, claimSeq, commitSeq, replayed, outcome>>
    BY <1>4 DEF vars, tables
  <2>2. IInv' /\ ClaimsAreRegistered'
    BY <1>4, StepIInv, RegisteredStep
  <2> QED BY <2>1, <2>2 DEF ManifestEvent
<1>7. UNCHANGED <<registered, commitments, alloc, replayed>>
  BY <1>4 DEF vars, tables
<1>8. e.kind = "manifest"
  BY <1>3 DEF ManifestEvent
<1>9. RecordsHold'
  <2> SUFFICES ASSUME NEW i \in 1..Len(entries')
               PROVE  /\ RecordHolds(entries[i].event)'
                      /\ entries'[i].event.kind = "manifest" => i = n + 1
    BY <1>4, <1>5 DEF RecordsHold
  <2>1. CASE i \in 1..n
    <3>1. entries'[i] = entries[i] /\ RecordHolds(entries[i].event)
          /\ entries[i].event.kind # "manifest"
      BY <2>1, <1>4, <1>5 DEF RecordsHold, n
    <3> QED BY <3>1, <1>7 DEF RecordHolds, Present
  <2>2. CASE i = n + 1
    BY <2>2, <1>5, <1>8 DEF RecordHolds
  <2> QED BY <2>1, <2>2, <1>2, <1>5
<1>10. TablesAreLogged'
  <2>1. \A i \in 1..n : i \in 1..Len(entries') /\ entries'[i] = entries[i]
    BY <1>2, <1>5
  <2> QED BY <2>1, <1>7 DEF TablesAreLogged, Present, n
<1>11. ReplayManifest(entries)' = ReplayManifest(entries)
  <2>1. PICK log : log = entries
    OBVIOUS
  <2>2. PICK longer : longer = entries'
    OBVIOUS
  <2> DEFINE events == <<e>>
  <2>3. events \in Seq({e}) /\ Len(events) = 1 /\ events[1] = e
    BY OneEvent
  <2> HIDE DEF events
  <2>4. log \in Seq(S) /\ Continues(longer, log, events)
    BY <2>1, <2>2, <2>3, <1>1, <1>5 DEF Continues, n
  <2>5. NoneOf(events, "dealloc") /\ UnitsOf(events, "alloc") = {}
    BY <2>3, <1>8 DEF NoneOf, UnitsOf
  <2>6. ReplayManifest(longer) = ReplayManifest(log) \union UnitsOf(events, "alloc")
    BY <2>3, <2>4, <2>5, ReplayGrows
  <2>7. ReplayManifest(entries)' = ReplayManifest(entries')
    BY DEF ReplayManifest, At
  <2> QED BY <2>1, <2>2, <2>5, <2>6, <2>7
<1>12. LogIsASequence'
  BY <1>2, <1>5 DEF LogIsASequence
<1>13. closed' = TRUE /\ entries'[Len(entries')].event = ManifestEvent'
  BY <1>3, <1>4, <1>5, <1>6
<1> QED BY <1>5, <1>6, <1>7, <1>9, <1>10, <1>11, <1>12, <1>13

LEMMA AuditUnchangedKeeps ==
  ASSUME AuditInv, UNCHANGED auditVars
  PROVE  AuditInv'
<1>1. UNCHANGED <<registered, commitments, claims, alloc, claimSeq, commitSeq, replayed,
                  outcome, entries, closed, vars>>
  BY DEF auditVars, vars, tables
<1>2. IInv' /\ ClaimsAreRegistered'
  BY <1>1, StepIInv, RegisteredStep DEF AuditInv
<1>3. LogIsASequence' /\ Chain!VerifyChain(entries)' /\ RecordsHold' /\ TablesAreLogged'
  BY <1>1 DEF AuditInv, LogIsASequence, Chain!VerifyChain, RecordsHold, RecordHolds, Present,
              TablesAreLogged
<1>4. ManifestEvent' = ManifestEvent /\ ReplayManifest(entries)' = ReplayManifest(entries)
  BY <1>1 DEF ManifestEvent, ReplayManifest, At
<1> QED BY <1>1, <1>2, <1>3, <1>4 DEF AuditInv

LEMMA AuditStep == AuditInv /\ [AuditNext]_auditVars => AuditInv'
<1> SUFFICES ASSUME AuditInv, [AuditNext]_auditVars PROVE AuditInv'
  OBVIOUS
<1>1. CASE \E r \in Resource : LoggedRegister(r)
  BY <1>1, LoggedRegisterKeeps
<1>2. CASE \E p \in Proposal : LoggedCommit(p)
  BY <1>2, LoggedCommitKeeps
<1>3. CASE \E p \in Proposal : LoggedSubmit(p)
  BY <1>3, LoggedSubmitKeeps
<1>4. CASE \E m \in CommitId, p \in Proposal, nonce \in Nonce : LoggedReveal(m, p, nonce)
  BY <1>4, LoggedRevealKeeps
<1>5. CASE \E a \in Agent, c \in ClaimId, l \in BenList : LoggedRelease(a, c, l)
  BY <1>5, LoggedReleaseKeeps
<1>6. CASE \E c \in ClaimId, l \in BenList : LoggedRevoke(c, l)
  BY <1>6, LoggedRevokeKeeps
<1>7. CASE \E c \in ClaimId, l \in BenList : LoggedGrant(c, l)
  BY <1>7, LoggedGrantKeeps
<1>8. CASE \E c \in ClaimId : LoggedVoid(c)
  BY <1>8, LoggedVoidKeeps
<1>9. CASE \E a \in Agent, c \in ClaimId : LoggedWithdraw(a, c)
  BY <1>9, LoggedWithdrawKeeps
<1>10. CASE \E cites \in SUBSET Cited : SignRuling(cites)
  BY <1>10, SignRulingKeeps
<1>11. CASE Reopen /\ Emit(<<>>)
  BY <1>11, ReopenAuditKeeps
<1>12. CASE RecordManifest
  BY <1>12, RecordManifestKeeps
<1>13. CASE UNCHANGED auditVars
  BY <1>13, AuditUnchangedKeeps
<1> QED BY <1>1, <1>2, <1>3, <1>4, <1>5, <1>6, <1>7, <1>8, <1>9, <1>10, <1>11, <1>12, <1>13
        DEF AuditNext

\* In every state of every run: the ledger's invariant, what every entry of the
\* log asserts, and that what the tables hold is in the log.
THEOREM AuditInvHolds == AuditSpec => []AuditInv
BY AuditInitHolds, AuditStep, PTL DEF AuditSpec

\* The auditor's ledger is the ledger: logging only restricts it, so what is
\* proved of ClaimLedger holds of a run that is audited.
THEOREM AuditedIsALedger == AuditSpec => Spec
<1>1. AuditInit => Init
  BY DEF AuditInit
<1>2. [AuditNext]_auditVars => [Next]_vars
  <2> SUFFICES ASSUME [AuditNext]_auditVars PROVE [Next]_vars
    OBVIOUS
  <2>1. ASSUME NEW m \in CommitId, NEW p \in Proposal, NEW nonce \in Nonce,
               LoggedReveal(m, p, nonce)
        PROVE  Next
    BY <2>1 DEF LoggedReveal, Next, VerifyCommitment
  <2>2. ASSUME NEW p \in Proposal, LoggedCommit(p) \/ LoggedSubmit(p) PROVE Next
    BY <2>2 DEF LoggedCommit, LoggedSubmit, Next, Proposal
  <2>3. ASSUME NEW c \in ClaimId, NEW l \in BenList,
               \/ LoggedRevoke(c, l) \/ LoggedGrant(c, l)
               \/ \E a \in Agent : LoggedRelease(a, c, l)
        PROVE  Next
    BY <2>3 DEF LoggedRevoke, LoggedGrant, LoggedRelease, Next
  <2>4. ASSUME NEW c \in ClaimId, LoggedVoid(c) \/ \E a \in Agent : LoggedWithdraw(a, c)
        PROVE  Next
    BY <2>4 DEF LoggedVoid, LoggedWithdraw, Next
  <2>5. ASSUME NEW cites, SignRuling(cites) PROVE UNCHANGED vars
    BY <2>5 DEF SignRuling
  <2>6. ASSUME UNCHANGED auditVars PROVE UNCHANGED vars
    BY <2>6 DEF auditVars
  <2> QED BY <2>1, <2>2, <2>3, <2>4, <2>5, <2>6
          DEF AuditNext, LoggedRegister, RecordManifest, Next
<1> QED BY <1>1, <1>2, PTL DEF AuditSpec, Spec
-----------------------------------------------------------------------------
(* What the auditor finds *)

\* The places of the log, and the tables read back from it.
LEMMA PlacesOfTheLog ==
  ASSUME AuditInv
  PROVE  /\ Len(entries) \in Nat /\ DOMAIN entries = 1..Len(entries)
         /\ \A kinds : At(entries, kinds) \subseteq 1..Len(entries)
<1>1. PICK S : entries \in Seq(S)
  BY DEF AuditInv, LogIsASequence
<1> QED BY <1>1 DEF At

LEMMA ResourcesReadBack ==
  ASSUME AuditInv, NEW r \in registered
  PROVE  Registered(entries, r).capacity = Capacity[r] /\ Registered(entries, r).group = Group[r]
<1> DEFINE found == {i \in At(entries, {"resource"}) : entries[i].event.resource = r}
<1>1. found \subseteq 1..Len(entries) /\ Len(entries) \in Nat
  BY PlacesOfTheLog
<1>2. found # {}
  BY PlacesOfTheLog DEF AuditInv, TablesAreLogged, At
<1>3. Max(found) \in found
  BY <1>1, <1>2, MaxIsLast
<1>4. Registered(entries, r) = entries[Max(found)].event
  BY <1>2 DEF Registered, Latest
<1>5. PICK i \in found : i = Max(found)
  BY <1>3
<1>6. entries[i].event.kind = "resource" /\ entries[i].event.resource = r /\ i \in 1..Len(entries)
  BY <1>1 DEF At
<1>7. entries[i].event.capacity = Capacity[r] /\ entries[i].event.group = Group[r]
  BY <1>6 DEF AuditInv, RecordsHold, RecordHolds
<1> QED BY <1>4, <1>5, <1>7

LEMMA SealsReadBack ==
  ASSUME AuditInv, NEW m \in CommitId, Present(m)
  PROVE  Sealed(entries, m) = <<commitments[m].digest, "right">>
<1> DEFINE found == {i \in At(entries, {"commit"}) : entries[i].event.commitment = m}
<1>1. found \subseteq 1..Len(entries) /\ Len(entries) \in Nat
  BY PlacesOfTheLog
<1>2. found # {}
  BY PlacesOfTheLog DEF AuditInv, TablesAreLogged, At
<1>3. Max(found) \in found
  BY <1>1, <1>2, MaxIsLast
<1>4. Sealed(entries, m) = entries[Max(found)].event.digest
  BY <1>2 DEF Sealed, Latest
<1>5. PICK i \in found : i = Max(found)
  BY <1>3
<1>6. entries[i].event.kind = "commit" /\ entries[i].event.commitment = m /\ i \in 1..Len(entries)
  BY <1>1 DEF At
<1>7. entries[i].event.digest = <<commitments[m].digest, "right">>
  BY <1>6 DEF AuditInv, RecordsHold, RecordHolds, CommitmentDigest
<1> QED BY <1>4, <1>5, <1>7

\* What is replayed is what the tables hold, and of registered resources.
LEMMA ReplayIsTheTables ==
  ASSUME AuditInv
  PROVE  /\ ReplayManifest(entries) = {<<x.resource, x.ben>> : x \in alloc}
         /\ \A u \in ReplayManifest(entries) : u[1] \in registered
<1>1. ReplayManifest(entries) = {<<x.resource, x.ben>> : x \in alloc}
  BY DEF AuditInv, IInv, UnitsInv, ReplayAgrees
<1>2. ASSUME NEW x \in alloc PROVE x.resource \in registered
  <2>1. x.claim \in ClaimId /\ Granted(x.claim) /\ claims[x.claim].resource = x.resource
    BY DEF AuditInv, IInv, TypeOK, Allocation, UnitsBelongToGrantedClaims
  <2> QED BY <2>1 DEF AuditInv, ClaimsAreRegistered, Granted, HasClaim
<1> QED BY <1>1, <1>2

LEMMA ReplayFits == AuditInv => WithinCapacity(entries)
<1> SUFFICES ASSUME AuditInv, NEW u \in ReplayManifest(entries)
             PROVE  Cardinality({v \in ReplayManifest(entries) : v[1] = u[1]})
                    <= Registered(entries, u[1]).capacity
  BY DEF WithinCapacity
<1>1. PICK r : r = u[1]
  OBVIOUS
<1>2. r \in registered /\ r \in Resource
  BY <1>1, ReplayIsTheTables DEF AuditInv, IInv, TypeOK
<1>3. Registered(entries, r).capacity = Capacity[r] /\ Capacity[r] \in Nat
  BY <1>2, ResourcesReadBack, CapacityAssumption
<1> DEFINE rows == {x \in alloc : x.resource = r}
           units == {v \in ReplayManifest(entries) : v[1] = r}
           f == [x \in rows |-> <<x.resource, x.ben>>]
<1>4. f \in Surjection(rows, units)
  <2>1. units = {<<x.resource, x.ben>> : x \in rows}
    BY ReplayIsTheTables
  <2> QED BY <2>1 DEF Surjection
<1>5. IsFiniteSet(rows)
  BY FS_Subset DEF AuditInv, IInv, UnitsInv
<1>6. IsFiniteSet(units) /\ Cardinality(units) <= Cardinality(rows)
  BY <1>4, <1>5, FS_Surjection
<1>7. Cardinality(rows) <= Capacity[r]
  BY <1>2 DEF AuditInv, IInv, UnitsInv, CapacityRespected
<1>8. Cardinality(units) \in Nat /\ Cardinality(rows) \in Nat
  BY <1>5, <1>6, FS_CardinalityType
<1>9. Cardinality(units) <= Registered(entries, r).capacity
  BY <1>3, <1>6, <1>7, <1>8
<1> QED BY <1>1, <1>9

LEMMA ReplayIsExclusive == AuditInv => NobodyTwiceInAGroup(entries)
<1> SUFFICES ASSUME AuditInv, NEW u \in ReplayManifest(entries), NEW v \in ReplayManifest(entries),
                    u[2] = v[2],
                    Registered(entries, u[1]).group = Registered(entries, v[1]).group,
                    Registered(entries, u[1]).group # NoGroup
             PROVE  u = v
  BY DEF NobodyTwiceInAGroup
<1>1. PICK x \in alloc, y \in alloc : u = <<x.resource, x.ben>> /\ v = <<y.resource, y.ben>>
  BY ReplayIsTheTables
<1>2. u[1] \in registered /\ v[1] \in registered
  BY ReplayIsTheTables
<1>3. Registered(entries, u[1]).group = Group[u[1]] /\ Registered(entries, v[1]).group = Group[v[1]]
  BY <1>2, ResourcesReadBack
<1> QED BY <1>1, <1>3 DEF AuditInv, IInv, UnitsInv, OneUnitPerGroup

\* The checks of rulings and reveals.
LEMMA RecordsPass ==
  ASSUME AuditInv
  PROVE  RulingsCite(entries) /\ AcceptedMatch(entries) /\ RejectedMismatch(entries)
<1>1. ASSUME NEW kinds, NEW e \in EventsOf(entries, kinds)
      PROVE  e.kind \in kinds /\ RecordHolds(e)
  <2>1. PICK i \in At(entries, kinds) : e = entries[i].event
    BY DEF EventsOf
  <2>2. i \in 1..Len(entries) /\ e.kind \in kinds
    BY <2>1, PlacesOfTheLog DEF At
  <2> QED BY <2>1, <2>2 DEF AuditInv, RecordsHold
<1>2. RulingsCite(entries)
  BY <1>1 DEF RulingsCite, RecordHolds
<1>3. ASSUME NEW e, RecordHolds(e), e.kind \in {"reveal_ok", "reveal_reject"}
      PROVE  Rederives(entries, e) <=>
               e.claim = commitments[e.commitment].digest /\ e.nonce = "right"
  <2>1. e.commitment \in CommitId /\ Present(e.commitment)
    BY <1>3 DEF RecordHolds
  <2>2. Sealed(entries, e.commitment) = <<commitments[e.commitment].digest, "right">>
    BY <2>1, SealsReadBack
  <2> QED BY <2>2 DEF Rederives, CommitmentDigest
<1>4. AcceptedMatch(entries)
  <2> SUFFICES ASSUME NEW e \in EventsOf(entries, {"reveal_ok"}) PROVE Rederives(entries, e)
    BY DEF AcceptedMatch
  <2>1. RecordHolds(e) /\ e.kind = "reveal_ok"
    BY <1>1
  <2> QED BY <2>1, <1>3 DEF RecordHolds
<1>5. RejectedMismatch(entries)
  <2> SUFFICES ASSUME NEW e \in EventsOf(entries, {"reveal_reject"}) PROVE ~Rederives(entries, e)
    BY DEF RejectedMismatch
  <2>1. RecordHolds(e) /\ e.kind = "reveal_reject"
    BY <1>1
  <2> QED BY <2>1, <1>3 DEF RecordHolds
<1> QED BY <1>2, <1>4, <1>5

LEMMA OnlyRejectsRaise == AuditInv => (Raises(entries) <=> NonceWasMalformed)
<1> SUFFICES ASSUME AuditInv PROVE Raises(entries) <=> NonceWasMalformed
  OBVIOUS
<1>1. ASSUME NEW i \in DOMAIN entries,
             entries[i].event.kind \in {"reveal_ok", "reveal_reject"},
             ~WellFormed(entries[i].event.nonce)
      PROVE  entries[i].event.kind = "reveal_reject"
  <2>1. RecordHolds(entries[i].event)
    BY PlacesOfTheLog DEF AuditInv, RecordsHold
  <2> QED BY <2>1, <1>1 DEF RecordHolds, WellFormed
<1> QED BY <1>1 DEF Raises, NonceWasMalformed, EventsOf, At

LEMMA ManifestReproduces == AuditInv /\ closed => ReplayReproduces(entries)
<1> SUFFICES ASSUME AuditInv, closed PROVE ReplayReproduces(entries)
  OBVIOUS
<1> DEFINE recorded == At(entries, {"manifest"})
           n == Len(entries)
<1>1. n \in Nat /\ n > 0 /\ DOMAIN entries = 1..n /\ recorded \subseteq 1..n
  BY PlacesOfTheLog DEF AuditInv, LogIsASequence
<1>2. entries[n].event = ManifestEvent
  BY DEF AuditInv
<1>3. n \in recorded
  BY <1>1, <1>2 DEF At, ManifestEvent
<1>4. Max(recorded) \in recorded /\ \A x \in recorded : x <= Max(recorded)
  BY <1>1, <1>3, MaxIsLast
<1>5. PICK k : k = Max(recorded)
  OBVIOUS
<1>6. k = n
  BY <1>1, <1>3, <1>4, <1>5
<1>7. Latest(entries, recorded).manifest = {<<x.resource, x.ben>> : x \in alloc}
  BY <1>2, <1>5, <1>6 DEF Latest, ManifestEvent
<1> QED BY <1>3, <1>7, ReplayIsTheTables DEF ReplayReproduces

\* The auditor accepts the log of every finished run in which nobody revealed
\* with what is no nonce: such reveals are all that can make it raise.
THEOREM FinishedRunsAreOk == AuditSpec => []FinishedRunsPass
<1>1. AuditInv => FinishedRunsPass
  <2> SUFFICES ASSUME AuditInv, closed, ~NonceWasMalformed
               PROVE  VerifyLog(entries) = "ok"
    BY DEF FinishedRunsPass
  <2>1. Chain!VerifyChain(entries)
    BY DEF AuditInv
  <2> QED BY <2>1, OnlyRejectsRaise, ManifestReproduces, ReplayFits, ReplayIsExclusive,
             RecordsPass DEF VerifyLog
<1> QED BY <1>1, AuditInvHolds, PTL

\* Whatever one accident did to the stored log of a finished run, and whenever a
\* run did not come to its manifest, the auditor does not say OK.
THEOREM DamageIsAlwaysNoticed == AuditSpec => []DamageIsNoticed
<1>1. AuditInv => DamageIsNoticed
  <2> SUFFICES ASSUME AuditInv PROVE DamageIsNoticed
    OBVIOUS
  <2> DEFINE n == Len(entries)
  <2>1. PICK S : entries \in Seq(S)
    BY DEF AuditInv, LogIsASequence
  <2>2. n \in Nat /\ n > 0 /\ DOMAIN entries = 1..n
    BY <2>1 DEF AuditInv, LogIsASequence
  <2>3. ASSUME NEW i \in 1..n
        PROVE  /\ entries[i].seq = i
               /\ entries[i].hash = <<entries[i].prev, i, entries[i].event>>
    BY DEF AuditInv, Chain!VerifyChain, Chain!Hash
  <2>4. ASSUME NEW i \in 1..n, entries[i].event.kind = "manifest" PROVE closed /\ i = n
    BY <2>4 DEF AuditInv, RecordsHold
  <2>5. ASSUME NEW log, ~Chain!VerifyChain(log) \/ At(log, {"manifest"}) = {}
        PROVE  VerifyLog(log) # "ok"
    BY <2>5 DEF VerifyLog, ReplayReproduces
  <2> HIDE DEF n
  <2>6. ASSUME ~closed PROVE VerifyLog(entries) # "ok"
    <3>1. At(entries, {"manifest"}) = {}
      BY <2>2, <2>4, <2>6 DEF At
    <3> QED BY <3>1, <2>5
  <2>7. ASSUME NEW i \in 1..n PROVE VerifyLog(Without(i)) # "ok"
    <3>1. PICK log : log = Without(i)
      OBVIOUS
    <3>2. /\ log \in Seq(S) /\ Len(log) = n - 1
          /\ \A k \in 1..(n - 1) : log[k] = IF k < i THEN entries[k] ELSE entries[k + 1]
      <4> DEFINE a == SubSeq(entries, 1, i - 1)
                 b == SubSeq(entries, i + 1, n)
      <4>1. /\ a \in Seq(S) /\ Len(a) = i - 1 /\ \A k \in 1..(i - 1) : a[k] = entries[k]
        BY <2>1, <2>2
      <4>2. /\ b \in Seq(S) /\ Len(b) = n - i /\ \A k \in 1..(n - i) : b[k] = entries[i + k]
        <5>1. \A k \in (i + 1)..n : entries[k] \in S
          BY <2>1, <2>2 DEF n
        <5>2. /\ b \in Seq(S) /\ Len(b) = IF i + 1 <= n THEN n - (i + 1) + 1 ELSE 0
              /\ \A k \in 1..(n - (i + 1) + 1) : b[k] = entries[i + 1 + k - 1]
          BY <5>1, <2>2, SubSeqProperties
        <5> QED BY <5>2, <2>2
      <4>3. log = a \o b
        BY <3>1 DEF Without, RemoveAt, n
      <4> HIDE DEF a, b
      <4>4. log \in Seq(S) /\ Len(log) = n - 1
        BY <4>1, <4>2, <4>3, <2>2
      <4>5. ASSUME NEW k \in 1..(n - 1), k < i PROVE log[k] = entries[k]
        <5>1. k \in 1..Len(a)
          BY <4>1, <4>5, <2>2
        <5> QED BY <5>1, <4>1, <4>2, <4>3
      <4>6. ASSUME NEW k \in 1..(n - 1), ~(k < i) PROVE log[k] = entries[k + 1]
        <5>1. k = Len(a) + (k - i + 1) /\ k - i + 1 \in 1..Len(b)
          BY <4>1, <4>2, <4>6, <2>2
        <5>2. log[k] = b[k - i + 1]
          BY <5>1, <4>1, <4>2, <4>3
        <5>3. b[k - i + 1] = entries[i + (k - i + 1)] /\ i + (k - i + 1) = k + 1
          BY <5>1, <4>2, <2>2
        <5> QED BY <5>2, <5>3
      <4> QED BY <4>4, <4>5, <4>6
    <3>3. CASE i < n
      <4>1. i \in 1..Len(log) /\ log[i] = entries[i + 1] /\ i + 1 \in 1..n
        BY <3>2, <3>3, <2>2
      <4>2. log[i].seq = i + 1
        BY <4>1, <2>3
      <4>3. ~Chain!VerifyChain(log)
        BY <4>1, <4>2 DEF Chain!VerifyChain
      <4> QED BY <4>3, <3>1, <2>5
    <3>4. CASE i = n
      <4>1. \A k \in DOMAIN log : k \in 1..n /\ k # n /\ log[k] = entries[k]
        BY <3>2, <3>4, <2>2
      <4>2. At(log, {"manifest"}) = {}
        BY <4>1, <2>4 DEF At
      <4> QED BY <4>2, <3>1, <2>5
    <3> QED BY <3>3, <3>4, <2>2
  <2>8. ASSUME NEW i \in 1..n, NEW j \in 1..n, i < j PROVE VerifyLog(Swapped(i, j)) # "ok"
    <3>1. PICK log : log = Swapped(i, j)
      OBVIOUS
    <3>2. log \in Seq(S) /\ Len(log) = n /\ log[i] = entries[j]
      BY <3>1, <2>1, <2>2, <2>8 DEF Swapped, n
    <3>3. log[i].seq = j
      BY <3>2, <2>3
    <3>4. ~Chain!VerifyChain(log)
      BY <3>2, <3>3, <2>2, <2>8 DEF Chain!VerifyChain
    <3> QED BY <3>1, <3>4, <2>5
  <2>9. ASSUME NEW i \in 1..n, NEW j \in 1..n, entries[i].event # entries[j].event
        PROVE  VerifyLog(Overwritten(i, j)) # "ok"
    <3>1. PICK log : log = Overwritten(i, j)
      OBVIOUS
    <3>2. Len(log) = n /\ log[i] = [entries[i] EXCEPT !.event = entries[j].event]
      BY <3>1, <2>1, <2>2 DEF Overwritten, n
    <3>3. SUFFICES ASSUME Chain!VerifyChain(log) PROVE FALSE
      BY <3>1, <2>5
    <3>4. log[i].hash = <<log[i].prev, log[i].seq, log[i].event>>
      BY <3>2, <3>3 DEF Chain!VerifyChain, Chain!Hash
    <3> QED BY <3>2, <3>4, <2>3, <2>9
  <2> QED BY <2>2, <2>6, <2>7, <2>8, <2>9 DEF DamageIsNoticed
<1> QED BY <1>1, AuditInvHolds, PTL

\* What the auditor accepts is the allocation of the tables, and a standing claim
\* stands behind every unit of it.
THEOREM AcceptedIsTheTables == AuditSpec => []AcceptedManifestIsTheTables
<1>1. AuditInv => AcceptedManifestIsTheTables
  <2> SUFFICES ASSUME AuditInv, NEW u \in ReplayManifest(entries)
               PROVE  \E c \in ClaimId :
                        Granted(c) /\ claims[c].resource = u[1] /\ u[2] \in Holders(c)
    BY ReplayIsTheTables DEF AcceptedManifestIsTheTables
  <2>1. PICK x \in alloc : u = <<x.resource, x.ben>>
    BY ReplayIsTheTables
  <2>2. x.claim \in ClaimId /\ Granted(x.claim) /\ claims[x.claim].resource = x.resource
    BY DEF AuditInv, IInv, TypeOK, Allocation, UnitsBelongToGrantedClaims
  <2>3. x.ben \in Holders(x.claim)
    BY DEF Holders
  <2> QED BY <2>1, <2>2, <2>3
<1> QED BY <1>1, AuditInvHolds, PTL
=============================================================================
