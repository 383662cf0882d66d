------------------------ MODULE LedgerThreads_proofs ------------------------
(***************************************************************************)
(* Proofs about ChainLog, for any number of threads, any set of events and *)
(* any length of the log, and about LedgerThreads, which uses it, for      *)
(* every number of threads, beneficiaries, units, calls and crashes.  The  *)
(* auditor's check of the stored chain is not inductive: it needs to be    *)
(* known what an entry that is still to be inserted looks like if nobody   *)
(* overtakes it.  That no interleaving gives out a unit twice needs only   *)
(* what the tables hold; that ids stay fresh needs to be known of every    *)
(* thread how far it is in its call; and every step appends to the log as  *)
(* ChainLog does, or not at all.                                           *)
(***************************************************************************)
EXTENDS LedgerThreads, TLAPS, FunctionTheorems, FiniteSetTheorems
-----------------------------------------------------------------------------
(* The log *)

\* The hash that the next entry has to build on.
Tip(log) == IF Len(log) = 0 THEN NoHash ELSE log[Len(log)].hash

RowsAreASequence == \E S : entries \in Seq(S)

HeadIsANumber == head.seq \in Nat

WritersAreKnown == writer = [t \in Thread |-> writer[t]]

ChainHolds ==
  /\ Len(entries) > 0 => entries[1].event = Genesis /\ entries[1].prev = NoHash
  /\ \A i \in 1..Len(entries) :
       /\ entries[i].seq = i
       /\ entries[i].hash = Hash(entries[i].prev, entries[i].seq, entries[i].event)
       /\ i > 1 => entries[i].prev = entries[i - 1].hash

Waiting(t) == writer[t].at = "insert"
Storing(t) == writer[t].at = "store"

\* An entry that is still to be inserted and was not overtaken fits the end.
WaitingEntriesFit ==
  \A t \in Thread : Waiting(t) =>
    LET e == writer[t].entry
    IN /\ e.seq \in 1..Len(entries) + 1
       /\ e.hash = Hash(e.prev, e.seq, e.event)
       /\ e.seq = Len(entries) + 1 =>
            e.prev = Tip(entries) /\ \A u \in Thread : ~Storing(u)
       /\ e.seq = 1 => e.event = Genesis

OneStores == \A t, u \in Thread : Storing(t) /\ Storing(u) => t = u

StoredEntryIsLast ==
  \A t \in Thread : Storing(t) =>
    /\ Len(entries) > 0
    /\ writer[t].entry = entries[Len(entries)]
    /\ head.seq + 1 = Len(entries)

HeadIsLast ==
  (\A t \in Thread : ~Storing(t)) =>
    head.seq = Len(entries) /\ head.hash = Tip(entries)

LogInv ==
  /\ RowsAreASequence
  /\ HeadIsANumber
  /\ WritersAreKnown
  /\ ChainHolds
  /\ WaitingEntriesFit
  /\ OneStores
  /\ StoredEntryIsLast
  /\ HeadIsLast
-----------------------------------------------------------------------------
\* What appending one row does to a sequence of rows.
LEMMA AppendedRow ==
  ASSUME NEW S, NEW log \in Seq(S), NEW e
  PROVE  /\ \E T : Append(log, e) \in Seq(T)
         /\ Len(log) \in Nat
         /\ Len(Append(log, e)) = Len(log) + 1
         /\ \A i \in 1..Len(log) : Append(log, e)[i] = log[i]
         /\ Append(log, e)[Len(log) + 1] = e
<1>1. log \in Seq(S \union {e})
  OBVIOUS
<1>2. e \in S \union {e}
  OBVIOUS
<1>3. Append(log, e) \in Seq(S \union {e})
  BY <1>1, <1>2
<1> QED
  BY <1>1, <1>2, <1>3

LEMMA InitHolds == LogInit => LogInv
<1> SUFFICES ASSUME LogInit PROVE LogInv
  OBVIOUS
<1>1. entries \in Seq({}) /\ Len(entries) = 0
  BY DEF LogInit
<1>2. \A t \in Thread : ~Waiting(t) /\ ~Storing(t)
  BY DEF LogInit, Away, Waiting, Storing
<1>3. head.seq = 0 /\ head.hash = NoHash
  BY DEF LogInit, NewLog
<1>4. RowsAreASequence
  BY <1>1 DEF RowsAreASequence
<1>5. WritersAreKnown
  BY DEF LogInit, WritersAreKnown
<1>6. ChainHolds
  BY <1>1 DEF ChainHolds
<1> QED
  BY <1>1, <1>2, <1>3, <1>4, <1>5, <1>6
     DEF LogInv, HeadIsANumber, WaitingEntriesFit, OneStores, StoredEntryIsLast,
         HeadIsLast, Tip

LEMMA StepPreserves == LogInv /\ [LogNext]_logVars => LogInv'
<1> SUFFICES ASSUME LogInv, [LogNext]_logVars PROVE LogInv'
  OBVIOUS
<1> USE DEF LogInv
<1>0. Len(entries) \in Nat
  BY DEF RowsAreASequence
<1>1. ASSUME NEW t \in Thread, NEW event \in Event \union {Genesis}, ReadHead(t, event)
      PROVE  LogInv'
  <2>1. entries' = entries /\ head' = head
    BY <1>1 DEF ReadHead
  <2>2. writer'[t] = [at |-> "insert", entry |-> Entry(head.seq + 1, event, head.hash)]
    BY <1>1 DEF ReadHead, WritersAreKnown
  <2>3. \A u \in Thread : u # t => writer'[u] = writer[u]
    BY <1>1 DEF ReadHead, WritersAreKnown
  <2>4. \A u \in Thread : Storing(u)' <=> Storing(u)
    BY <1>1, <2>2, <2>3 DEF Storing, ReadHead, MayAppend
  <2>5. LET e == writer'[t].entry
        IN /\ e.seq \in 1..Len(entries) + 1
           /\ e.hash = Hash(e.prev, e.seq, e.event)
           /\ e.seq = Len(entries) + 1 =>
                e.prev = Tip(entries) /\ \A u \in Thread : ~Storing(u)
           /\ e.seq = 1 => e.event = Genesis
    <3>1. writer'[t].entry = Entry(head.seq + 1, event, head.hash)
      BY <2>2
    <3>2. \/ /\ \A u \in Thread : ~Storing(u)
             /\ head.seq = Len(entries) /\ head.hash = Tip(entries)
          \/ head.seq + 1 = Len(entries)
      BY DEF HeadIsLast, StoredEntryIsLast
    <3>3. head.seq = 0 => event = Genesis
      BY <1>1 DEF ReadHead, MayAppend, HeadIsANumber
    <3> QED
      BY <1>0, <3>1, <3>2, <3>3 DEF Entry, HeadIsANumber
  <2>6. WaitingEntriesFit'
    BY <2>1, <2>3, <2>4, <2>5 DEF WaitingEntriesFit, Waiting, Tip
  <2>7. WritersAreKnown'
    BY <1>1 DEF ReadHead, WritersAreKnown
  <2>8. OneStores' /\ StoredEntryIsLast' /\ HeadIsLast'
    <3>1. \A u \in Thread : Storing(u) => writer'[u] = writer[u]
      BY <1>1, <2>3 DEF Storing, ReadHead, MayAppend
    <3> QED
      BY <2>1, <2>4, <3>1 DEF OneStores, StoredEntryIsLast, HeadIsLast, Tip
  <2> QED
    BY <2>1, <2>6, <2>7, <2>8 DEF RowsAreASequence, HeadIsANumber, ChainHolds
<1>2. ASSUME NEW t \in Thread, Insert(t) PROVE LogInv'
  <2> DEFINE e == writer[t].entry
             n == Len(entries)
  <2>1. /\ entries' = Append(entries, e)
        /\ head' = head
        /\ e.seq = n + 1
        /\ e.hash = Hash(e.prev, e.seq, e.event)
        /\ e.prev = Tip(entries)
        /\ e.seq = 1 => e.event = Genesis
        /\ \A u \in Thread : ~Storing(u)
    BY <1>0, <1>2 DEF Insert, Overtaken, WaitingEntriesFit, Waiting
  <2>2. PICK S : entries \in Seq(S)
    BY DEF RowsAreASequence
  <2>3. /\ \E T : entries' \in Seq(T)
        /\ Len(entries') = n + 1
        /\ \A i \in 1..n : entries'[i] = entries[i]
        /\ entries'[n + 1] = e
    <3>1. /\ \E T : Append(entries, e) \in Seq(T)
          /\ Len(Append(entries, e)) = n + 1
          /\ \A i \in 1..n : Append(entries, e)[i] = entries[i]
          /\ Append(entries, e)[n + 1] = e
      BY <2>2, AppendedRow, Zenon
    <3> QED
      BY <2>1, <3>1, Zenon
  <2>4. RowsAreASequence'
    BY <2>3 DEF RowsAreASequence
  <2>5. ChainHolds'
    <3>1. entries'[1].event = Genesis /\ entries'[1].prev = NoHash
      BY <1>0, <2>1, <2>3 DEF ChainHolds, Tip
    <3>2. ASSUME NEW i \in 1..Len(entries')
          PROVE  /\ entries'[i].seq = i
                 /\ entries'[i].hash
                      = Hash(entries'[i].prev, entries'[i].seq, entries'[i].event)
                 /\ i > 1 => entries'[i].prev = entries'[i - 1].hash
      <4>1. CASE i <= n
        <5>1. i \in 1..n /\ (i > 1 => i - 1 \in 1..n)
          BY <1>0, <2>3, <4>1
        <5> QED
          BY <2>3, <5>1 DEF ChainHolds
      <4>2. CASE i = n + 1
        <5>1. i > 1 => entries'[i - 1] = entries[n] /\ n # 0
          BY <1>0, <2>3, <4>2
        <5> QED
          BY <1>0, <2>1, <2>3, <4>2, <5>1 DEF Tip
      <4> QED
        BY <1>0, <2>3, <4>1, <4>2
    <3> QED
      BY <3>1, <3>2 DEF ChainHolds
  <2>6. writer'[t] = [at |-> "store", entry |-> e]
    BY <1>2 DEF Insert, WritersAreKnown
  <2>7. \A u \in Thread : u # t => writer'[u] = writer[u]
    BY <1>2 DEF Insert, WritersAreKnown
  <2>8. \A u \in Thread : Storing(u)' <=> u = t
    BY <2>1, <2>6, <2>7 DEF Storing
  <2>9. \A u \in Thread : Waiting(u)' => Waiting(u) /\ writer'[u] = writer[u]
    BY <2>6, <2>7 DEF Waiting
  <2>10. WaitingEntriesFit'
    BY <1>0, <2>3, <2>9 DEF WaitingEntriesFit
  <2>11. StoredEntryIsLast'
    <3>1. head.seq = n
      BY <2>1 DEF HeadIsLast
    <3> QED
      BY <1>0, <2>1, <2>3, <2>6, <2>8, <3>1 DEF StoredEntryIsLast
  <2>12. WritersAreKnown'
    BY <1>2 DEF Insert, WritersAreKnown
  <2> QED
    BY <1>2, <2>1, <2>4, <2>5, <2>8, <2>10, <2>11, <2>12
       DEF HeadIsANumber, OneStores, HeadIsLast
<1>3. ASSUME NEW t \in Thread, Refuse(t) \/ AskGenesis(t) PROVE LogInv'
  <2>1. entries' = entries /\ head' = head
    BY <1>3 DEF Refuse, AskGenesis
  <2>2. writer'[t].at \in {"away", "genesis"}
    BY <1>3 DEF Refuse, AskGenesis, WritersAreKnown, Away
  <2>3. \A u \in Thread : u # t => writer'[u] = writer[u]
    BY <1>3 DEF Refuse, AskGenesis, WritersAreKnown
  <2>4. \A u \in Thread : /\ Storing(u)' <=> Storing(u)
                          /\ Storing(u) \/ Waiting(u)' => writer'[u] = writer[u]
    <3>1. writer[t].at \in {"insert", "away"}
      BY <1>3 DEF Refuse, AskGenesis
    <3>2. ~Storing(t) /\ ~Storing(t)' /\ ~Waiting(t)'
      BY <2>2, <3>1 DEF Storing, Waiting
    <3> QED
      BY <2>3, <3>2 DEF Storing, Waiting
  <2>5. WaitingEntriesFit'
    BY <2>1, <2>4 DEF WaitingEntriesFit, Waiting, Tip
  <2>6. WritersAreKnown'
    BY <1>3 DEF Refuse, AskGenesis, WritersAreKnown
  <2>7. OneStores' /\ HeadIsLast'
    BY <2>1, <2>4 DEF OneStores, HeadIsLast, Tip
  <2>8. StoredEntryIsLast'
    BY <2>1, <2>4 DEF StoredEntryIsLast
  <2> QED
    BY <2>8, <2>1, <2>5, <2>6, <2>7 DEF RowsAreASequence, HeadIsANumber, ChainHolds
<1>4. ASSUME NEW t \in Thread, StoreHead(t) PROVE LogInv'
  <2>1. /\ entries' = entries
        /\ head'.seq = Len(entries) /\ head'.hash = Tip(entries)
    <3>1. writer[t].entry = entries[Len(entries)] /\ Len(entries) > 0
      BY <1>4 DEF StoreHead, StoredEntryIsLast, Storing
    <3>2. entries[Len(entries)].seq = Len(entries)
      BY <1>0, <3>1 DEF ChainHolds
    <3> QED
      BY <1>0, <1>4, <3>1, <3>2 DEF StoreHead, Tip
  <2>2. \A u \in Thread : ~Storing(u)' /\ (Waiting(u)' => writer'[u] = writer[u])
    <3>1. \A u \in Thread : u # t => writer'[u] = writer[u] /\ ~Storing(u)
      BY <1>4 DEF StoreHead, WritersAreKnown, OneStores, Storing
    <3>2. writer'[t].at = "away"
      BY <1>4 DEF StoreHead, WritersAreKnown, Away
    <3> QED
      BY <3>1, <3>2 DEF Storing, Waiting
  <2>3. WaitingEntriesFit'
    BY <2>1, <2>2 DEF WaitingEntriesFit, Waiting, Tip
  <2>4. WritersAreKnown'
    BY <1>4 DEF StoreHead, WritersAreKnown
  <2> QED
    BY <1>0, <2>1, <2>2, <2>3, <2>4
       DEF RowsAreASequence, HeadIsANumber, ChainHolds, OneStores, StoredEntryIsLast,
           HeadIsLast, Tip
<1>5. ASSUME LogReopen PROVE LogInv'
  <2>1. entries' = entries /\ writer' = [t \in Thread |-> Away]
    BY <1>5 DEF LogReopen
  <2>2. \A u \in Thread : ~Storing(u)' /\ ~Waiting(u)'
    BY <2>1 DEF Storing, Waiting, Away
  <2>3. head'.seq = Len(entries) /\ head'.hash = Tip(entries)
    <3>1. CASE entries = <<>>
      BY <1>5, <3>1 DEF LogReopen, NewLog, Tip
    <3>2. CASE entries # <<>>
      <4>1. Len(entries) > 0
        BY <3>2 DEF RowsAreASequence
      <4>2. entries[Len(entries)].seq = Len(entries)
        BY <1>0, <4>1 DEF ChainHolds
      <4> QED
        BY <1>5, <3>2, <4>1, <4>2 DEF LogReopen, Tip
    <3> QED
      BY <3>1, <3>2
  <2>4. WritersAreKnown'
    BY <2>1 DEF WritersAreKnown
  <2> QED
    BY <1>0, <2>1, <2>2, <2>3, <2>4
       DEF RowsAreASequence, HeadIsANumber, ChainHolds, WaitingEntriesFit, OneStores,
           StoredEntryIsLast, HeadIsLast, Tip
<1>6. ASSUME UNCHANGED logVars PROVE LogInv'
  BY <1>6 DEF logVars, RowsAreASequence, HeadIsANumber, WritersAreKnown, ChainHolds,
     WaitingEntriesFit, Waiting, Storing, OneStores, StoredEntryIsLast, HeadIsLast, Tip
<1> QED
  BY <1>1, <1>2, <1>3, <1>4, <1>5, <1>6 DEF LogNext, LogStep

LEMMA LogInvHolds == LogSpec => []LogInv
  BY InitHolds, StepPreserves, PTL DEF LogSpec
-----------------------------------------------------------------------------
\* ChainLog.append under any interleaving of threads, refused inserts and
\* crashes: the rows in the database are a chain that verify_chain accepts.
THEOREM Chain_Verifies == LogSpec => []LogAlwaysVerifies
<1>1. LogInv => LogAlwaysVerifies
  <2> SUFFICES ASSUME LogInv, entries # <<>> PROVE VerifyChain(entries)
    BY DEF LogAlwaysVerifies
  <2>1. Len(entries) > 0
    BY DEF LogInv, RowsAreASequence
  <2> QED
    BY <2>1 DEF LogInv, ChainHolds, VerifyChain
<1> QED
  BY <1>1, LogInvHolds, PTL

\* The head kept in memory, from which the next entry is made, is the last row
\* unless the thread that inserted that row is about to move the head to it.
THEOREM Head_Follows == LogSpec => []HeadFollowsTheLog
<1>1. LogInv => HeadFollowsTheLog
  <2> SUFFICES ASSUME LogInv PROVE HeadFollowsTheLog
    OBVIOUS
  <2>1. \A t, u \in Thread : writer[t].at = "store" /\ writer[u].at = "store" => t = u
    BY DEF LogInv, OneStores, Storing
  <2>2. CASE \E t \in Thread : writer[t].at = "store"
    BY <2>1, <2>2 DEF LogInv, StoredEntryIsLast, Storing, HeadFollowsTheLog
  <2>3. CASE ~\E t \in Thread : writer[t].at = "store"
    <3>1. head.seq = Len(entries) /\ head.hash = Tip(entries)
      BY <2>3 DEF LogInv, HeadIsLast, Storing
    <3>2. entries # <<>> => Len(entries) # 0
      BY DEF LogInv, RowsAreASequence
    <3> QED
      BY <2>1, <2>3, <3>1, <3>2 DEF HeadFollowsTheLog, Tip
  <2> QED
    BY <2>2, <2>3
<1> QED
  BY <1>1, LogInvHolds, PTL
-----------------------------------------------------------------------------
(* The threads *)

Row == [status : {"absent", "granted", "blocked", "released", "withdrawn", "voided"},
        bens : SUBSET Beneficiary]
Said == LedgerEvent \union {Genesis}
Places == {"apply", "status", "holders", "dealloc", "recheck", "grant", "mark"}
Idle == [at : {"rest"}, say : Seq(Said)]
Calling == [at : Places, say : Seq(Said),
            op : {"submit", "release", "grant", "withdraw", "void"},
            claim : ClaimId, bens : SUBSET Beneficiary,
            status : {"absent", "granted", "blocked", "released", "withdrawn", "voided"}]

TablesAreTyped ==
  /\ claims \in [ClaimId -> Row]
  /\ claimSeq \in 0..MaxClaims
  /\ alloc \subseteq [claim : ClaimId, ben : Beneficiary]
  /\ IsFiniteSet(alloc)

ThreadsAreTyped == thread \in [Thread -> Idle \union Calling]

\* A claim without a row is nobody's, or that of one thread about to insert it.
IdsAreOwned ==
  /\ \A c \in ClaimId : c > claimSeq => claims[c] = Absent
  /\ \A t \in Thread : thread[t].at = "apply" => thread[t].claim <= claimSeq
  /\ ClaimIdsStayFresh
  /\ \A t \in Thread : thread[t].at \notin {"rest", "apply"} =>
       claims[thread[t].claim] # Absent

ThreadsInv ==
  /\ TablesAreTyped
  /\ ThreadsAreTyped
  /\ IdsAreOwned
  /\ RacesKeepCapacity
-----------------------------------------------------------------------------
(* Events and units *)

\* A finite set is turned into a sequence of its own members.
LEMMA ListedMembers ==
  ASSUME NEW S, IsFiniteSet(S)
  PROVE  SetToSeq(S) \in Seq(S)
<1> DEFINE n == Cardinality(S)
<1>1. n \in Nat /\ ExistsBijection(1..n, S)
  BY FS_CardinalityType
<1>2. PICK f \in Bijection(1..n, S) : TRUE
  BY <1>1, Fun_ExistsBij
<1>3. f \in [1..n -> S] /\ IsInjective(f)
  BY <1>2 DEF Bijection, Injection, IsInjective
<1>4. SetToSeq(S) \in [1..n -> S]
  BY <1>3 DEF SetToSeq
<1> QED
  BY <1>1, <1>4, [1..n -> S] \subseteq Seq(S)

LEMMA EventsAreSaid ==
  ASSUME NEW S \in SUBSET Beneficiary, NEW kind \in {"alloc", "dealloc"}
  PROVE  EventsOf(kind, S) \in Seq(Said)
<1> DEFINE E == {Unit(kind, b) : b \in S}
           f == [b \in S |-> Unit(kind, b)]
<1>1. IsFiniteSet(S)
  BY TableAssumption, FS_Subset
<1>2. f \in Surjection(S, E)
  BY DEF Surjection
<1>3. IsFiniteSet(E)
  BY <1>1, <1>2, FS_Surjection
<1>4. E \subseteq Said
  BY DEF Said, LedgerEvent
<1>5. SetToSeq(E) \in Seq(E)
  BY <1>3, ListedMembers
<1> HIDE DEF E
<1>6. SetToSeq(E) \in Seq(Said)
  BY <1>4, <1>5
<1> QED
  BY <1>6 DEF EventsOf, E

\* A claim's units are as many as its beneficiaries.
LEMMA UnitsCount ==
  ASSUME NEW c, NEW S \in SUBSET Beneficiary
  PROVE  /\ IsFiniteSet(UnitsFor(c, S))
         /\ Cardinality(UnitsFor(c, S)) <= Cardinality(S)
         /\ Cardinality(UnitsFor(c, S)) \in Nat /\ Cardinality(S) \in Nat
<1> DEFINE f == [b \in S |-> [claim |-> c, ben |-> b]]
<1>1. IsFiniteSet(S)
  BY TableAssumption, FS_Subset
<1>2. f \in Surjection(S, UnitsFor(c, S))
  BY DEF Surjection, UnitsFor
<1>3. IsFiniteSet(UnitsFor(c, S)) /\ Cardinality(UnitsFor(c, S)) <= Cardinality(S)
  BY <1>1, <1>2, FS_Surjection
<1> QED
  BY <1>1, <1>3, FS_CardinalityType

LEMMA FittingUnitsKeepCapacity ==
  ASSUME TablesAreTyped, RacesKeepCapacity,
         NEW c \in ClaimId, NEW S \in SUBSET Beneficiary, Fits(S),
         alloc' = alloc \union UnitsFor(c, S)
  PROVE  /\ RacesKeepCapacity'
         /\ alloc' \subseteq [claim : ClaimId, ben : Beneficiary]
         /\ IsFiniteSet(alloc')
<1> DEFINE new == UnitsFor(c, S)
<1>1. /\ IsFiniteSet(new) /\ Cardinality(new) <= Cardinality(S)
      /\ Cardinality(new) \in Nat /\ Cardinality(S) \in Nat
  BY UnitsCount
<1>2. IsFiniteSet(alloc) /\ Cardinality(alloc) \in Nat
  BY FS_CardinalityType DEF TablesAreTyped
<1>3. IsFiniteSet(alloc') /\ Cardinality(alloc') <= Cardinality(alloc) + Cardinality(new)
  <2>1. IsFiniteSet(alloc \cap new) /\ Cardinality(alloc \cap new) \in Nat
    BY <1>2, FS_Subset, FS_CardinalityType
  <2>2. /\ IsFiniteSet(alloc \union new)
        /\ Cardinality(alloc \union new) =
             Cardinality(alloc) + Cardinality(new) - Cardinality(alloc \cap new)
    BY <1>1, <1>2, FS_Union
  <2> QED BY <1>1, <1>2, <2>1, <2>2
<1>4. Cardinality(alloc') \in Nat
  BY <1>3, FS_CardinalityType
<1>5. Cardinality(alloc') <= Capacity
  BY <1>1, <1>2, <1>3, <1>4, TableAssumption DEF Fits
<1>6. \A x, y \in alloc' : x.ben = y.ben => x = y
  BY DEF RacesKeepCapacity, Fits, UnitsFor
<1>7. alloc' \subseteq [claim : ClaimId, ben : Beneficiary]
  BY DEF TablesAreTyped, UnitsFor
<1> QED
  BY <1>3, <1>5, <1>6, <1>7 DEF RacesKeepCapacity

LEMMA FewerUnitsKeepCapacity ==
  ASSUME TablesAreTyped, RacesKeepCapacity, alloc' \subseteq alloc
  PROVE  /\ RacesKeepCapacity'
         /\ alloc' \subseteq [claim : ClaimId, ben : Beneficiary]
         /\ IsFiniteSet(alloc')
<1>1. IsFiniteSet(alloc') /\ Cardinality(alloc') <= Cardinality(alloc)
  BY FS_Subset DEF TablesAreTyped
<1>2. Cardinality(alloc) \in Nat /\ Cardinality(alloc') \in Nat
  BY <1>1, FS_CardinalityType DEF TablesAreTyped
<1> QED
  BY <1>1, <1>2, TableAssumption DEF RacesKeepCapacity, TablesAreTyped
-----------------------------------------------------------------------------
(* Threads *)

LEMMA NoEvents == <<>> \in Seq(Said)
  OBVIOUS

\* What a thread has to say is typed, whether there is a log or not.
LEMMA SayIsTyped ==
  ASSUME NEW events \in Seq(Said)
  PROVE  Say(events) \in Seq(Said)
  BY NoEvents DEF Say

LEMMA ReturnKeepsTypes ==
  ASSUME ThreadsAreTyped, NEW t \in Thread, NEW events \in Seq(Said), Return(t, events)
  PROVE  /\ ThreadsAreTyped'
         /\ thread'[t].at = "rest"
         /\ \A u \in Thread \ {t} : thread'[u] = thread[u]
<1> DEFINE w == [Resting EXCEPT !.say = Say(events)]
<1>1. w \in Idle /\ w.at = "rest"
  BY SayIsTyped DEF Idle, Resting
<1>2. thread' = [thread EXCEPT ![t] = w]
  BY DEF Return
<1> HIDE DEF w
<1> QED
  BY <1>1, <1>2 DEF ThreadsAreTyped

\* A thread that is in a call goes on in it.
LEMMA CallGoesOn ==
  ASSUME ThreadsAreTyped, NEW t \in Thread, NEW w \in Calling,
         w.claim = thread[t].claim, thread' = [thread EXCEPT ![t] = w]
  PROVE  /\ ThreadsAreTyped'
         /\ thread'[t] = w
         /\ \A u \in Thread \ {t} : thread'[u] = thread[u]
  BY DEF ThreadsAreTyped

LEMMA InACall ==
  ASSUME ThreadsAreTyped, NEW t \in Thread, thread[t].at # "rest"
  PROVE  thread[t] \in Calling
  BY DEF ThreadsAreTyped, Idle

\* A step of t in its call, which writes at most the row of the call's claim,
\* takes nobody's id.
LEMMA IdsStayOwned ==
  ASSUME TablesAreTyped, ThreadsAreTyped, IdsAreOwned, NEW t \in Thread,
         thread[t].at # "rest",
         claimSeq' = claimSeq,
         \A u \in Thread \ {t} : thread'[u] = thread[u],
         \/ claims' = claims
         \/ /\ claims'[thread[t].claim] # Absent
            /\ \A d \in ClaimId \ {thread[t].claim} : claims'[d] = claims[d],
         \/ thread'[t].at = "rest"
         \/ /\ thread'[t].at \notin {"rest", "apply"}
            /\ thread'[t].claim = thread[t].claim
            /\ claims'[thread[t].claim] # Absent
  PROVE  IdsAreOwned'
<1> DEFINE c == thread[t].claim
<1>1. c \in ClaimId
  BY InACall DEF Calling
<1>2. c <= claimSeq
  <2>1. c > claimSeq => claims[c] = Absent
    BY <1>1 DEF IdsAreOwned
  <2>2. c \in Nat /\ claimSeq \in Nat
    BY <1>1, TableAssumption DEF ClaimId, TablesAreTyped
  <2> QED BY <2>1, <2>2 DEF IdsAreOwned
<1>3. ASSUME NEW u \in Thread \ {t}, thread[u].at = "apply"
      PROVE  thread[u].claim # c
  BY <1>3 DEF IdsAreOwned, ClaimIdsStayFresh
<1>4. \A d \in ClaimId : d # c => claims'[d] = claims[d]
  OBVIOUS
<1>5. \A d \in ClaimId : d > claimSeq' => claims'[d] = Absent
  <2> SUFFICES ASSUME NEW d \in ClaimId, d > claimSeq PROVE claims'[d] = Absent
    OBVIOUS
  <2>1. d # c
    BY <1>1, <1>2, TableAssumption DEF ClaimId, TablesAreTyped
  <2> QED BY <2>1, <1>4 DEF IdsAreOwned
<1>6. \A u \in Thread : thread'[u].at = "apply" => u # t /\ thread'[u] = thread[u]
  OBVIOUS
<1>7. \A u \in Thread : thread[u].at = "apply" => thread[u].claim \in ClaimId
  BY InACall DEF Calling
<1>8. ClaimIdsStayFresh'
  BY <1>3, <1>4, <1>6, <1>7 DEF IdsAreOwned, ClaimIdsStayFresh
<1>9. ASSUME NEW u \in Thread, thread'[u].at \notin {"rest", "apply"}
      PROVE  claims'[thread'[u].claim] # Absent
  <2>1. CASE u = t
    BY <2>1, <1>9
  <2>2. CASE u # t
    <3>1. thread[u].claim \in ClaimId
      BY <2>2, <1>9, InACall DEF Calling
    <3> QED BY <2>2, <3>1, <1>4, <1>9 DEF IdsAreOwned
  <2> QED BY <2>1, <2>2
<1> QED
  BY <1>5, <1>6, <1>8, <1>9 DEF IdsAreOwned
-----------------------------------------------------------------------------
(* The invariant *)

LEMMA ThreadsInit == Init => ThreadsInv
<1> SUFFICES ASSUME Init PROVE ThreadsInv
  OBVIOUS
<1>1. IsFiniteSet(alloc) /\ Cardinality(alloc) = 0
  BY FS_EmptySet DEF Init
<1>2. TablesAreTyped
  BY <1>1, TableAssumption DEF Init, TablesAreTyped, Absent, Row
<1>3. ThreadsAreTyped
  BY NoEvents DEF Init, ThreadsAreTyped, Resting, Idle
<1>4. IdsAreOwned
  BY DEF Init, IdsAreOwned, ClaimIdsStayFresh, Resting
<1>5. RacesKeepCapacity
  BY <1>1, TableAssumption DEF Init, RacesKeepCapacity
<1> QED
  BY <1>2, <1>3, <1>4, <1>5 DEF ThreadsInv

\* A step that leaves the tables alone needs to be looked at for threads and
\* ids only.
LEMMA TablesUntouched ==
  ASSUME ThreadsInv, claims' = claims, claimSeq' = claimSeq, alloc' = alloc
  PROVE  TablesAreTyped' /\ RacesKeepCapacity'
  BY DEF ThreadsInv, TablesAreTyped, RacesKeepCapacity

LEMMA OpenKeeps ==
  ASSUME ThreadsInv, NEW t \in Thread, Open(t)
  PROVE  ThreadsInv'
<1> USE DEF ThreadsInv
<1>1. TablesAreTyped' /\ RacesKeepCapacity'
  BY TablesUntouched DEF Open, ledgerVars
<1>2. thread[t] \in Idle
  BY DEF Open, AtRest, At, ThreadsAreTyped, Calling, Places
<1>3. <<Genesis>> \in Seq(Said)
  BY DEF Said
<1>4. thread' = [thread EXCEPT ![t] = [at |-> "rest", say |-> <<Genesis>>]]
  <2>1. [thread[t] EXCEPT !.say = <<Genesis>>] = [at |-> "rest", say |-> <<Genesis>>]
    BY <1>2 DEF Idle
  <2>2. thread' = [thread EXCEPT ![t] = [thread[t] EXCEPT !.say = <<Genesis>>]]
    BY DEF Open
  <2> QED BY <2>1, <2>2
<1>5. ThreadsAreTyped'
  BY <1>3, <1>4 DEF ThreadsAreTyped, Idle
<1>6. \A u \in Thread : thread'[u].at = "rest"
  BY <1>4 DEF Open, AtRest, At, ThreadsAreTyped
<1>7. IdsAreOwned'
  BY <1>6 DEF Open, ledgerVars, IdsAreOwned, ClaimIdsStayFresh
<1> QED
  BY <1>1, <1>5, <1>7

LEMMA CallSubmitKeeps ==
  ASSUME ThreadsInv, NEW t \in Thread, NEW S \in SUBSET Beneficiary, CallSubmit(t, S)
  PROVE  ThreadsInv'
<1> USE DEF ThreadsInv
<1> DEFINE w == Going("apply", Say(<<Note>>), "submit", claimSeq', S)
<1>1. /\ claimSeq' = claimSeq + 1 /\ claimSeq' \in 0..MaxClaims /\ claimSeq' \in ClaimId
      /\ claims' = claims /\ alloc' = alloc
  BY TableAssumption DEF CallSubmit, TablesAreTyped, ClaimId
<1>2. TablesAreTyped' /\ RacesKeepCapacity'
  BY <1>1 DEF TablesAreTyped, RacesKeepCapacity
<1>3. <<Note>> \in Seq(Said)
  BY DEF Said, LedgerEvent
<1>4. w \in Calling /\ w.at = "apply" /\ w.claim = claimSeq'
  BY <1>1, <1>3, SayIsTyped DEF Going, Calling, Places
<1>5. thread' = [thread EXCEPT ![t] = w]
  BY DEF CallSubmit
<1> HIDE DEF w
<1>6. ThreadsAreTyped'
  BY <1>4, <1>5 DEF ThreadsAreTyped
<1>7. thread'[t] = w /\ \A u \in Thread \ {t} : thread'[u] = thread[u]
  BY <1>5 DEF ThreadsAreTyped
<1>8. claims[claimSeq'] = Absent
  BY <1>1 DEF IdsAreOwned, TablesAreTyped
<1>9. \A u \in Thread : thread[u].at = "apply" =>
        thread[u].claim <= claimSeq /\ thread[u].claim \in Nat
  BY InACall, TableAssumption DEF IdsAreOwned, Calling, ClaimId
<1>10. claimSeq \in Nat
  BY DEF TablesAreTyped
<1>11. \A c \in ClaimId : c > claimSeq' => claims'[c] = Absent
  BY <1>1, <1>10, TableAssumption DEF IdsAreOwned, ClaimId
<1>12. \A u \in Thread : thread'[u].at = "apply" => thread'[u].claim <= claimSeq'
  BY <1>1, <1>4, <1>7, <1>9, <1>10
<1>13. ClaimIdsStayFresh'
  <2> SUFFICES ASSUME NEW u \in Thread, thread'[u].at = "apply"
               PROVE  /\ claims'[thread'[u].claim] = Absent
                      /\ \A v \in Thread \ {u} :
                           thread'[v].at = "apply" => thread'[v].claim # thread'[u].claim
    BY DEF ClaimIdsStayFresh
  <2>1. CASE u = t
    BY <2>1, <1>1, <1>4, <1>7, <1>8, <1>9, <1>10
  <2>2. CASE u # t
    <3>1. claims'[thread'[u].claim] = Absent
      BY <2>2, <1>1, <1>7 DEF IdsAreOwned, ClaimIdsStayFresh
    <3>2. ASSUME NEW v \in Thread \ {u}, thread'[v].at = "apply"
          PROVE  thread'[v].claim # thread'[u].claim
      <4>1. CASE v = t
        BY <4>1, <2>2, <1>1, <1>4, <1>7, <1>9, <1>10
      <4>2. CASE v # t
        BY <4>2, <3>2, <2>2, <1>7 DEF IdsAreOwned, ClaimIdsStayFresh
      <4> QED BY <4>1, <4>2
    <3> QED BY <3>1, <3>2
  <2> QED BY <2>1, <2>2
<1>14. \A u \in Thread : thread'[u].at \notin {"rest", "apply"} =>
         claims'[thread'[u].claim] # Absent
  BY <1>1, <1>4, <1>7 DEF IdsAreOwned
<1>15. IdsAreOwned'
  BY <1>11, <1>12, <1>13, <1>14 DEF IdsAreOwned
<1> QED
  BY <1>2, <1>6, <1>15

LEMMA CallOnKeeps ==
  ASSUME ThreadsInv, NEW t \in Thread, NEW c \in ClaimId,
         NEW op \in {"release", "grant", "withdraw", "void"}, CallOn(t, op, c)
  PROVE  ThreadsInv'
<1> USE DEF ThreadsInv
<1> DEFINE w == Going("status", <<>>, op, c, {})
<1>1. TablesAreTyped' /\ RacesKeepCapacity'
  BY TablesUntouched DEF CallOn, ledgerVars
<1>2. w \in Calling /\ w.at = "status" /\ w.claim = c
  BY NoEvents DEF Going, Calling, Places
<1>3. thread' = [thread EXCEPT ![t] = w]
  BY DEF CallOn
<1> HIDE DEF w
<1>4. ThreadsAreTyped' /\ thread'[t] = w /\ \A u \in Thread \ {t} : thread'[u] = thread[u]
  BY <1>2, <1>3 DEF ThreadsAreTyped
<1>5. claims[c] # Absent /\ claims' = claims /\ claimSeq' = claimSeq
  BY DEF CallOn, ledgerVars
<1>6. \A u \in Thread : thread'[u].at = "apply" => u # t /\ thread'[u] = thread[u]
  BY <1>2, <1>4
<1>7. ClaimIdsStayFresh'
  BY <1>5, <1>6 DEF IdsAreOwned, ClaimIdsStayFresh
<1>8. IdsAreOwned'
  BY <1>2, <1>4, <1>5, <1>6, <1>7 DEF IdsAreOwned
<1> QED
  BY <1>1, <1>4, <1>8

LEMMA HoldersAreBeneficiaries ==
  ASSUME TablesAreTyped, NEW c
  PROVE  Holders(c) \in SUBSET Beneficiary
  BY DEF TablesAreTyped, Holders

\* The new row of a claim is typed and is there.
LEMMA RowWritten ==
  ASSUME TablesAreTyped, NEW c \in ClaimId, NEW S \in SUBSET Beneficiary,
         NEW st \in {"granted", "blocked", "released", "withdrawn", "voided"},
         \/ claims' = [claims EXCEPT ![c] = [status |-> st, bens |-> S]]
         \/ claims' = [claims EXCEPT ![c].status = st]
  PROVE  /\ claims' \in [ClaimId -> Row]
         /\ claims'[c] # Absent
         /\ \A d \in ClaimId \ {c} : claims'[d] = claims[d]
<1>1. claims[c] \in Row
  BY DEF TablesAreTyped
<1>2. [status |-> st, bens |-> S] \in Row /\ [status |-> st, bens |-> S] # Absent
  BY DEF Row, Absent
<1>3. [claims[c] EXCEPT !.status = st] \in Row /\ [claims[c] EXCEPT !.status = st].status = st
  BY <1>1 DEF Row
<1>4. [claims[c] EXCEPT !.status = st] # Absent
  BY <1>3 DEF Absent
<1>5. CASE claims' = [claims EXCEPT ![c] = [status |-> st, bens |-> S]]
  BY <1>2, <1>5 DEF TablesAreTyped
<1>6. CASE claims' = [claims EXCEPT ![c].status = st]
  <2> DEFINE w == [claims[c] EXCEPT !.status = st]
  <2>1. claims' = [claims EXCEPT ![c] = w]
    BY <1>6
  <2>2. w \in Row /\ w # Absent
    BY <1>3, <1>4
  <2> HIDE DEF w
  <2> QED BY <2>1, <2>2 DEF TablesAreTyped
<1> QED
  BY <1>5, <1>6

\* The events an answer is made of.
LEMMA AnswersAreSaid ==
  ASSUME NEW S \in SUBSET Beneficiary
  PROVE  /\ <<Note>> \in Seq(Said)
         /\ <<Note>> \o EventsOf("alloc", S) \in Seq(Said)
         /\ EventsOf("alloc", S) \o <<Note>> \in Seq(Said)
<1>1. <<Note>> \in Seq(Said)
  BY DEF Said, LedgerEvent
<1>2. EventsOf("alloc", S) \in Seq(Said)
  BY EventsAreSaid
<1> QED
  BY <1>1, <1>2

LEMMA ApplyKeeps ==
  ASSUME ThreadsInv, NEW t \in Thread, Apply(t)
  PROVE  ThreadsInv'
<1> USE DEF ThreadsInv
<1> DEFINE c == thread[t].claim
           S == thread[t].bens
<1>1. thread[t].at # "rest" /\ claimSeq' = claimSeq
  BY DEF Apply, At
<1>2. c \in ClaimId /\ S \in SUBSET Beneficiary
  BY <1>1, InACall DEF Calling
<1>3. CASE /\ Fits(S)
           /\ claims' = [claims EXCEPT ![c] = [status |-> "granted", bens |-> S]]
           /\ alloc' = alloc \union UnitsFor(c, S)
           /\ Return(t, <<Note>> \o EventsOf("alloc", S))
  <2>1. /\ claims' \in [ClaimId -> Row] /\ claims'[c] # Absent
        /\ \A d \in ClaimId \ {c} : claims'[d] = claims[d]
    BY <1>2, <1>3, RowWritten
  <2>2. TablesAreTyped' /\ RacesKeepCapacity'
    BY <1>1, <1>2, <1>3, <2>1, FittingUnitsKeepCapacity DEF TablesAreTyped
  <2>3. /\ ThreadsAreTyped' /\ thread'[t].at = "rest"
        /\ \A u \in Thread \ {t} : thread'[u] = thread[u]
    BY <1>2, <1>3, AnswersAreSaid, ReturnKeepsTypes
  <2>4. IdsAreOwned'
    BY <1>1, <2>1, <2>3, IdsStayOwned
  <2> QED BY <2>2, <2>3, <2>4
<1>4. CASE /\ claims' = [claims EXCEPT ![c] = [status |-> "blocked", bens |-> S]]
           /\ Return(t, <<Note>>)
           /\ UNCHANGED alloc
  <2>1. /\ claims' \in [ClaimId -> Row] /\ claims'[c] # Absent
        /\ \A d \in ClaimId \ {c} : claims'[d] = claims[d]
    BY <1>2, <1>4, RowWritten
  <2>2. TablesAreTyped' /\ RacesKeepCapacity'
    BY <1>1, <1>4, <2>1 DEF TablesAreTyped, RacesKeepCapacity
  <2>3. /\ ThreadsAreTyped' /\ thread'[t].at = "rest"
        /\ \A u \in Thread \ {t} : thread'[u] = thread[u]
    BY <1>2, <1>4, AnswersAreSaid, ReturnKeepsTypes
  <2>4. IdsAreOwned'
    BY <1>1, <2>1, <2>3, IdsStayOwned
  <2> QED BY <2>2, <2>3, <2>4
<1> QED
  BY <1>3, <1>4 DEF Apply

LEMMA ReadStatusKeeps ==
  ASSUME ThreadsInv, NEW t \in Thread, ReadStatus(t)
  PROVE  ThreadsInv'
<1> USE DEF ThreadsInv
<1> DEFINE w == [thread[t] EXCEPT !.at = "holders", !.status = claims[thread[t].claim].status]
<1>1. /\ thread[t].at = "status"
      /\ claims' = claims /\ claimSeq' = claimSeq /\ alloc' = alloc
  BY DEF ReadStatus, At, ledgerVars
<1>2. thread[t] \in Calling
  BY <1>1, InACall
<1>3. claims[thread[t].claim] \in Row
  BY <1>2 DEF Calling, TablesAreTyped
<1>4. w \in Calling /\ w.claim = thread[t].claim /\ w.at = "holders"
  BY <1>2, <1>3 DEF Calling, Places, Row
<1>5. thread' = [thread EXCEPT ![t] = w]
  BY DEF ReadStatus
<1> HIDE DEF w
<1>6. ThreadsAreTyped' /\ thread'[t] = w /\ \A u \in Thread \ {t} : thread'[u] = thread[u]
  BY <1>4, <1>5, CallGoesOn
<1>7. claims[thread[t].claim] # Absent
  BY <1>1 DEF IdsAreOwned
<1>8. IdsAreOwned'
  BY <1>1, <1>4, <1>6, <1>7, IdsStayOwned
<1> QED
  BY <1>1, <1>6, <1>8, TablesUntouched

LEMMA ReadHoldersKeeps ==
  ASSUME ThreadsInv, NEW t \in Thread, ReadHolders(t)
  PROVE  ThreadsInv'
<1> USE DEF ThreadsInv
<1> DEFINE held == Holders(thread[t].claim)
           place == NextPlace(thread[t].op, thread[t].status, held)
           who == IF thread[t].op = "grant" THEN claims[thread[t].claim].bens ELSE held
           w == [thread[t] EXCEPT !.at = place, !.bens = who]
<1>1. /\ thread[t].at = "holders"
      /\ claims' = claims /\ claimSeq' = claimSeq /\ alloc' = alloc
  BY DEF ReadHolders, At, ledgerVars
<1>2. thread[t] \in Calling
  BY <1>1, InACall
<1>3. who \in SUBSET Beneficiary
  BY <1>2, HoldersAreBeneficiaries DEF Calling, TablesAreTyped, Row
<1>4. claims[thread[t].claim] # Absent
  BY <1>1 DEF IdsAreOwned
<1>5. place \in {"dealloc", "grant", "mark", "rest"}
  BY DEF NextPlace
<1>6. CASE place = "rest"
  <2>1. Return(t, <<>>)
    BY <1>6 DEF ReadHolders
  <2>2. /\ ThreadsAreTyped' /\ thread'[t].at = "rest"
        /\ \A u \in Thread \ {t} : thread'[u] = thread[u]
    BY <2>1, NoEvents, ReturnKeepsTypes
  <2>3. IdsAreOwned'
    BY <1>1, <2>2, IdsStayOwned
  <2> QED BY <1>1, <2>2, <2>3, TablesUntouched
<1>7. CASE place # "rest"
  <2>1. thread' = [thread EXCEPT ![t] = w]
    BY <1>7 DEF ReadHolders
  <2> HIDE DEF place, who
  <2>2. w \in Calling /\ w.claim = thread[t].claim /\ w.at \notin {"rest", "apply"}
    BY <1>2, <1>3, <1>5, <1>7 DEF Calling, Places
  <2> HIDE DEF w
  <2>3. ThreadsAreTyped' /\ thread'[t] = w /\ \A u \in Thread \ {t} : thread'[u] = thread[u]
    BY <2>1, <2>2, CallGoesOn
  <2>4. IdsAreOwned'
    BY <1>1, <1>4, <2>2, <2>3, IdsStayOwned
  <2> QED BY <1>1, <2>3, <2>4, TablesUntouched
<1> QED
  BY <1>6, <1>7

LEMMA DeallocateKeeps ==
  ASSUME ThreadsInv, NEW t \in Thread, Deallocate(t)
  PROVE  ThreadsInv'
<1> USE DEF ThreadsInv
<1> DEFINE S == thread[t].bens
           at == IF thread[t].op = "release" THEN "recheck" ELSE "mark"
           say == Say(EventsOf("dealloc", S))
           w == [thread[t] EXCEPT !.at = at, !.say = say]
<1>1. thread[t].at = "dealloc" /\ claims' = claims /\ claimSeq' = claimSeq
  BY DEF Deallocate, At
<1>2. thread[t] \in Calling
  BY <1>1, InACall
<1>3. S \in SUBSET Beneficiary
  BY <1>2 DEF Calling
<1>4. claims[thread[t].claim] # Absent
  BY <1>1 DEF IdsAreOwned
<1>5. alloc' \subseteq alloc
  BY DEF Deallocate
<1>6. TablesAreTyped' /\ RacesKeepCapacity'
  BY <1>1, <1>5, FewerUnitsKeepCapacity DEF TablesAreTyped
<1>7. CASE MoveSaying(t, at, EventsOf("dealloc", S))
  <2>1. say \in Seq(Said)
    BY <1>3, EventsAreSaid, SayIsTyped
  <2>2. thread' = [thread EXCEPT ![t] = w]
    BY <1>7 DEF MoveSaying
  <2>3. at \in {"recheck", "mark"}
    OBVIOUS
  <2> HIDE DEF at, say
  <2>4. w \in Calling /\ w.claim = thread[t].claim /\ w.at \notin {"rest", "apply"}
    BY <1>2, <2>1, <2>3 DEF Calling, Places
  <2> HIDE DEF w
  <2>5. ThreadsAreTyped' /\ thread'[t] = w /\ \A u \in Thread \ {t} : thread'[u] = thread[u]
    BY <2>2, <2>4, CallGoesOn
  <2>6. IdsAreOwned'
    BY <1>1, <1>4, <2>4, <2>5, IdsStayOwned
  <2> QED BY <1>6, <2>5, <2>6
<1>8. CASE Return(t, <<>>)
  <2>1. /\ ThreadsAreTyped' /\ thread'[t].at = "rest"
        /\ \A u \in Thread \ {t} : thread'[u] = thread[u]
    BY <1>8, NoEvents, ReturnKeepsTypes
  <2>2. IdsAreOwned'
    BY <1>1, <2>1, IdsStayOwned
  <2> QED BY <1>6, <2>1, <2>2
<1> QED
  BY <1>7, <1>8 DEF Deallocate

LEMMA RecheckKeeps ==
  ASSUME ThreadsInv, NEW t \in Thread, Recheck(t)
  PROVE  ThreadsInv'
<1> USE DEF ThreadsInv
<1> DEFINE w == [thread[t] EXCEPT !.at = "mark"]
<1>1. /\ thread[t].at = "recheck"
      /\ claims' = claims /\ claimSeq' = claimSeq /\ alloc' = alloc
  BY DEF Recheck, At, ledgerVars
<1>2. thread[t] \in Calling
  BY <1>1, InACall
<1>3. claims[thread[t].claim] # Absent
  BY <1>1 DEF IdsAreOwned
<1>4. CASE Move(t, "mark")
  <2>1. thread' = [thread EXCEPT ![t] = w]
    BY <1>4 DEF Move
  <2>2. w \in Calling /\ w.claim = thread[t].claim /\ w.at \notin {"rest", "apply"}
    BY <1>2 DEF Calling, Places
  <2> HIDE DEF w
  <2>3. ThreadsAreTyped' /\ thread'[t] = w /\ \A u \in Thread \ {t} : thread'[u] = thread[u]
    BY <2>1, <2>2, CallGoesOn
  <2>4. IdsAreOwned'
    BY <1>1, <1>3, <2>2, <2>3, IdsStayOwned
  <2> QED BY <1>1, <2>3, <2>4, TablesUntouched
<1>5. CASE Return(t, <<Note>>)
  <2>1. /\ ThreadsAreTyped' /\ thread'[t].at = "rest"
        /\ \A u \in Thread \ {t} : thread'[u] = thread[u]
    BY <1>5, AnswersAreSaid, ReturnKeepsTypes
  <2>2. IdsAreOwned'
    BY <1>1, <2>1, IdsStayOwned
  <2> QED BY <1>1, <2>1, <2>2, TablesUntouched
<1> QED
  BY <1>4, <1>5 DEF Recheck

LEMMA GrantUnitsKeeps ==
  ASSUME ThreadsInv, NEW t \in Thread, GrantUnits(t)
  PROVE  ThreadsInv'
<1> USE DEF ThreadsInv
<1> DEFINE c == thread[t].claim
           S == thread[t].bens
<1>1. thread[t].at = "grant" /\ claimSeq' = claimSeq
  BY DEF GrantUnits, At
<1>2. c \in ClaimId /\ S \in SUBSET Beneficiary
  BY <1>1, InACall DEF Calling
<1>3. CASE /\ Fits(S)
           /\ alloc' = alloc \union UnitsFor(c, S)
           /\ claims' = [claims EXCEPT ![c].status = "granted"]
           /\ Return(t, EventsOf("alloc", S) \o <<Note>>)
  <2>1. /\ claims' \in [ClaimId -> Row] /\ claims'[c] # Absent
        /\ \A d \in ClaimId \ {c} : claims'[d] = claims[d]
    BY <1>2, <1>3, RowWritten
  <2>2. TablesAreTyped' /\ RacesKeepCapacity'
    BY <1>1, <1>2, <1>3, <2>1, FittingUnitsKeepCapacity DEF TablesAreTyped
  <2>3. /\ ThreadsAreTyped' /\ thread'[t].at = "rest"
        /\ \A u \in Thread \ {t} : thread'[u] = thread[u]
    BY <1>2, <1>3, AnswersAreSaid, ReturnKeepsTypes
  <2>4. IdsAreOwned'
    BY <1>1, <2>1, <2>3, IdsStayOwned
  <2> QED BY <2>2, <2>3, <2>4
<1>4. CASE Return(t, <<>>) /\ UNCHANGED <<claims, alloc>>
  <2>1. /\ ThreadsAreTyped' /\ thread'[t].at = "rest"
        /\ \A u \in Thread \ {t} : thread'[u] = thread[u]
    BY <1>4, NoEvents, ReturnKeepsTypes
  <2>2. IdsAreOwned'
    BY <1>1, <1>4, <2>1, IdsStayOwned
  <2> QED BY <1>1, <1>4, <2>1, <2>2, TablesUntouched
<1> QED
  BY <1>3, <1>4 DEF GrantUnits

LEMMA MarkKeeps ==
  ASSUME ThreadsInv, NEW t \in Thread, Mark(t)
  PROVE  ThreadsInv'
<1> USE DEF ThreadsInv
<1> DEFINE c == thread[t].claim
           st == Final(thread[t].op)
<1>1. thread[t].at = "mark" /\ claimSeq' = claimSeq /\ alloc' = alloc
  BY DEF Mark, At
<1>2. c \in ClaimId
  BY <1>1, InACall DEF Calling
<1>3. st \in {"released", "withdrawn", "voided"}
  BY DEF Final
<1>4. claims' = [claims EXCEPT ![c].status = st]
  BY DEF Mark
<1> HIDE DEF st
<1>5. /\ claims' \in [ClaimId -> Row] /\ claims'[c] # Absent
      /\ \A d \in ClaimId \ {c} : claims'[d] = claims[d]
  <2>1. claims[c] \in Row
    BY <1>2 DEF TablesAreTyped
  <2>2. {} \in SUBSET Beneficiary
    OBVIOUS
  <2> QED BY <1>2, <1>3, <1>4, <2>2, RowWritten
<1>6. TablesAreTyped' /\ RacesKeepCapacity'
  BY <1>1, <1>5 DEF TablesAreTyped, RacesKeepCapacity
<1>7. /\ ThreadsAreTyped' /\ thread'[t].at = "rest"
      /\ \A u \in Thread \ {t} : thread'[u] = thread[u]
  <2>1. Return(t, <<Note>>)
    BY DEF Mark
  <2>2. <<Note>> \in Seq(Said)
    BY DEF Said, LedgerEvent
  <2> QED BY <2>1, <2>2, ReturnKeepsTypes
<1>8. IdsAreOwned'
  BY <1>1, <1>5, <1>7, IdsStayOwned
<1> QED
  BY <1>6, <1>7, <1>8

\* Logging moves no call, and changes nothing in the tables.
LEMMA EmitKeeps ==
  ASSUME ThreadsInv, NEW t \in Thread, Emit(t)
  PROVE  ThreadsInv'
<1> USE DEF ThreadsInv
<1>1. claims' = claims /\ claimSeq' = claimSeq /\ alloc' = alloc
  BY DEF Emit, ledgerVars
<1>2. TablesAreTyped' /\ RacesKeepCapacity'
  BY <1>1, TablesUntouched
<1>3. CASE UNCHANGED thread
  <2>1. ThreadsAreTyped' /\ IdsAreOwned'
    BY <1>1, <1>3 DEF ThreadsAreTyped, IdsAreOwned, ClaimIdsStayFresh
  <2> QED BY <1>2, <2>1
<1>4. CASE thread' = [thread EXCEPT ![t].say = Tail(@)]
  <2> DEFINE rest == Tail(thread[t].say)
             w == [thread[t] EXCEPT !.say = rest]
  <2>1. thread[t].say \in Seq(Said) /\ thread[t].say # <<>>
    BY DEF Emit, ThreadsAreTyped, Idle, Calling
  <2>2. rest \in Seq(Said)
    BY <2>1
  <2>3. thread' = [thread EXCEPT ![t] = w]
    BY <1>4
  <2> HIDE DEF rest
  <2>4. /\ w \in Idle \union Calling
        /\ w.at = thread[t].at
        /\ thread[t] \in Calling => w \in Calling /\ w.claim = thread[t].claim
    BY <2>2 DEF ThreadsAreTyped, Idle, Calling
  <2> HIDE DEF w
  <2>5. ThreadsAreTyped' /\ thread'[t] = w /\ \A u \in Thread \ {t} : thread'[u] = thread[u]
    BY <2>3, <2>4 DEF ThreadsAreTyped
  <2>6. \A u \in Thread : /\ thread'[u].at = thread[u].at
                          /\ thread[u].at # "rest" => thread'[u].claim = thread[u].claim
    BY <2>4, <2>5, InACall
  <2>7. ClaimIdsStayFresh'
    BY <1>1, <2>6 DEF IdsAreOwned, ClaimIdsStayFresh
  <2>8. IdsAreOwned'
    BY <1>1, <2>6, <2>7 DEF IdsAreOwned
  <2> QED BY <1>2, <2>5, <2>8
<1> QED
  BY <1>3, <1>4 DEF Emit

LEMMA EmitFailsKeeps ==
  ASSUME ThreadsInv, NEW t \in Thread, EmitFails(t)
  PROVE  ThreadsInv'
<1> USE DEF ThreadsInv
<1>1. /\ claims' = claims /\ claimSeq' = claimSeq /\ alloc' = alloc
      /\ Return(t, <<>>)
  BY DEF EmitFails, ledgerVars
<1>2. /\ ThreadsAreTyped' /\ thread'[t].at = "rest"
      /\ \A u \in Thread \ {t} : thread'[u] = thread[u]
  BY <1>1, NoEvents, ReturnKeepsTypes
<1>3. \A u \in Thread : thread'[u].at # "rest" => u # t /\ thread'[u] = thread[u]
  BY <1>2
<1>4. \A u \in Thread : thread'[u].at = "apply" => u # t /\ thread'[u] = thread[u]
  BY <1>3
<1>5. ClaimIdsStayFresh'
  BY <1>1, <1>4 DEF IdsAreOwned, ClaimIdsStayFresh
<1>6. IdsAreOwned'
  BY <1>1, <1>3, <1>4, <1>5 DEF IdsAreOwned
<1> QED
  BY <1>1, <1>2, <1>6, TablesUntouched

\* A new process counts its ids from the highest row.
LEMMA CrashKeeps ==
  ASSUME ThreadsInv, Crash
  PROVE  ThreadsInv'
<1> USE DEF ThreadsInv
<1>1. /\ claims' = claims /\ alloc' = alloc
      /\ claimSeq' \in 0..MaxClaims
      /\ \A c \in ClaimId : claims[c] # Absent => c <= claimSeq'
      /\ thread' = [t \in Thread |-> Resting]
  BY DEF Crash
<1>2. TablesAreTyped' /\ RacesKeepCapacity'
  BY <1>1 DEF TablesAreTyped, RacesKeepCapacity
<1>3. Resting \in Idle /\ Resting.at = "rest"
  BY NoEvents DEF Resting, Idle
<1>4. ThreadsAreTyped' /\ \A u \in Thread : thread'[u].at = "rest"
  BY <1>1, <1>3 DEF ThreadsAreTyped
<1>5. \A c \in ClaimId : c > claimSeq' => claims'[c] = Absent
  BY <1>1, TableAssumption DEF ClaimId
<1>6. IdsAreOwned'
  BY <1>4, <1>5 DEF IdsAreOwned, ClaimIdsStayFresh
<1> QED
  BY <1>2, <1>4, <1>6

LEMMA ThreadsStep == ThreadsInv /\ [Next]_vars => ThreadsInv'
<1> SUFFICES ASSUME ThreadsInv, [Next]_vars PROVE ThreadsInv'
  OBVIOUS
<1>1. ASSUME NEW t \in Thread, Open(t) PROVE ThreadsInv'
  BY <1>1, OpenKeeps
<1>2. ASSUME NEW t \in Thread, NEW S \in (SUBSET Beneficiary) \ {{}}, CallSubmit(t, S)
      PROVE  ThreadsInv'
  BY <1>2, CallSubmitKeeps
<1>3. ASSUME NEW t \in Thread, NEW c \in ClaimId,
             NEW op \in {"release", "grant", "withdraw", "void"}, CallOn(t, op, c)
      PROVE  ThreadsInv'
  BY <1>3, CallOnKeeps
<1>4. ASSUME NEW t \in Thread, Step(t) PROVE ThreadsInv'
  BY <1>4, ApplyKeeps, ReadStatusKeeps, ReadHoldersKeeps, DeallocateKeeps, RecheckKeeps,
     GrantUnitsKeeps, MarkKeeps, EmitKeeps, EmitFailsKeeps DEF Step
<1>5. CASE Crash
  BY <1>5, CrashKeeps
<1>6. CASE UNCHANGED vars
  BY <1>6 DEF vars, ledgerVars, ThreadsInv, TablesAreTyped, ThreadsAreTyped, IdsAreOwned,
     ClaimIdsStayFresh, RacesKeepCapacity
<1> QED
  BY <1>1, <1>2, <1>3, <1>4, <1>5, <1>6 DEF Next

LEMMA ThreadsInvHolds == Spec => []ThreadsInv
  BY ThreadsInit, ThreadsStep, PTL DEF Spec
-----------------------------------------------------------------------------
(* The log *)

\* A thread logs what it has next to say, which is an event of the log.
LEMMA EmitUsesTheLog ==
  ASSUME ThreadsInv, NEW t \in Thread, Emit(t) \/ EmitFails(t)
  PROVE  LogStep(t)
<1>1. thread[t].say \in Seq(Said) /\ thread[t].say # <<>>
  BY DEF Emit, EmitFails, ThreadsInv, ThreadsAreTyped, Idle, Calling
<1>2. Head(thread[t].say) \in Said
  BY <1>1
<1>3. Said \subseteq Event \union {Genesis}
  BY EventAssumption DEF Said
<1> QED
  BY <1>2, <1>3 DEF Emit, EmitFails, LogStep

LEMMA StepUsesTheLog == ThreadsInv /\ [Next]_vars => [LogNext]_logVars
<1> SUFFICES ASSUME ThreadsInv, [Next]_vars PROVE [LogNext]_logVars
  OBVIOUS
<1>1. ASSUME NEW t \in Thread, Open(t) PROVE LogNext
  BY <1>1 DEF Open, LogNext, LogStep
<1>2. ASSUME NEW t \in Thread, NEW S, CallSubmit(t, S) PROVE UNCHANGED logVars
  BY <1>2 DEF CallSubmit
<1>3. ASSUME NEW t \in Thread, NEW c, NEW op, CallOn(t, op, c) PROVE UNCHANGED logVars
  BY <1>3 DEF CallOn
<1>4. ASSUME NEW t \in Thread, Step(t) PROVE LogNext \/ UNCHANGED logVars
  <2>1. CASE Emit(t) \/ EmitFails(t)
    BY <2>1, EmitUsesTheLog DEF LogNext
  <2>2. CASE Apply(t)
    BY <2>2 DEF Apply
  <2>3. CASE ReadStatus(t) \/ ReadHolders(t) \/ Recheck(t)
    BY <2>3 DEF ReadStatus, ReadHolders, Recheck
  <2>4. CASE Deallocate(t) \/ GrantUnits(t) \/ Mark(t)
    BY <2>4 DEF Deallocate, GrantUnits, Mark
  <2> QED
    BY <1>4, <2>1, <2>2, <2>3, <2>4 DEF Step
<1>5. CASE Crash
  BY <1>5 DEF Crash, LogNext
<1>6. CASE UNCHANGED vars
  BY <1>6 DEF vars
<1> QED
  BY <1>1, <1>2, <1>3, <1>4, <1>5, <1>6 DEF Next
-----------------------------------------------------------------------------
\* I1 for any number of threads: however bids, grants, releases, withdrawals
\* and deaths of the process interleave between their transactions, no more
\* units are out than there are and no two of them to one beneficiary.
THEOREM RacesKeepUnits == Spec => []RacesKeepCapacity
<1>1. ThreadsInv => RacesKeepCapacity
  BY DEF ThreadsInv
<1> QED
  BY <1>1, ThreadsInvHolds, PTL

\* A claim id that a thread has taken stays without a row, and is no other
\* thread's, until that thread inserts the claim; a restart takes none twice.
THEOREM TakenIdsAreFresh == Spec => []ClaimIdsStayFresh
<1>1. ThreadsInv => ClaimIdsStayFresh
  BY DEF ThreadsInv, IdsAreOwned
<1> QED
  BY <1>1, ThreadsInvHolds, PTL

\* All that threads and crashes do to the log are steps that ChainLog has.
THEOREM ThreadsImplementTheLog == Spec => LogSpec
<1>1. Init => LogInit
  BY DEF Init
<1> QED
  BY <1>1, StepUsesTheLog, ThreadsInvHolds, PTL DEF Spec, LogSpec

\* So what racing and dying threads leave in the database is a chain that an
\* auditor accepts, without a gap, a fork or a rewritten entry.
THEOREM ThreadsLogVerifies == Spec => [](LogAlwaysVerifies /\ HeadFollowsTheLog)
  BY ThreadsImplementTheLog, Chain_Verifies, Head_Follows, PTL
=============================================================================
