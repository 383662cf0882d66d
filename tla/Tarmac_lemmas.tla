---------------------------- MODULE Tarmac_lemmas ----------------------------
(***************************************************************************)
(* What the proofs about Tarmac rest on, for every cast, every scenario    *)
(* and any numbers of seats, rooms, gates and crew.                        *)
(*                                                                         *)
(* The policies' operators come first: what each role agent asks for, what *)
(* it files on others' claims, and every operation of a ruling is of the   *)
(* ledger's types and legal for whom it is for.  That is not enough by     *)
(* itself, because an answer is filed, and a ruling applied, one item at a *)
(* time while the ledger moves on: StormInv says that what is still to be  *)
(* done stays legal, that every seal hides a wish and every claim of a     *)
(* negotiated run comes from one, and that the storm's resources are       *)
(* registered before anybody asks what is free.  Then the invariants of    *)
(* the single planner and of the negotiated runs, and what one move leaves *)
(* of them.  Tarmac_proofs puts the moves together.                        *)
(***************************************************************************)
EXTENDS Tarmac, RunInvariant, FiniteSetTheorems, WellFoundedInduction, TLAPS
-----------------------------------------------------------------------------
(* The ledger, the bank and the engine *)

LEMMA LedgerFacts ==
  LedgerHolds => /\ Ledger!TypeOK /\ Ledger!UnitsBelongToGrantedClaims
                 /\ Ledger!NextIdsAreFree /\ Ledger!CapacityRespected
                 /\ Ledger!OneUnitPerGroup /\ Ledger!ReplayAgrees
  BY DEF LedgerHolds

LEMMA BankFacts == BankHolds => Bank!BankTypeOK /\ Bank!BalanceIsAccountedFor
  BY DEF BankHolds

LEMMA SpeakerIsAnAgent ==
  ControlIsTyped => Speaker \in Agent /\ \E i \in 1..Len(AgentList) : Speaker = AgentList[i]
<1> SUFFICES ASSUME ControlIsTyped
             PROVE  Speaker \in Agent /\ \E i \in 1..Len(AgentList) : Speaker = AgentList[i]
  OBVIOUS
<1> DEFINE n == Len(AgentList)
           k == round - 1 + turn
<1>1. n \in Nat \ {0}
  BY EngineAssumption
<1>2. k \in Nat
  <2>1. round \in Nat \ {0} /\ turn \in Nat
    BY DEF ControlIsTyped, Setting, MaxRounds
  <2> QED BY <2>1
<1> HIDE DEF k
<1>3. k % n \in 0..n - 1
  BY <1>1, <1>2
<1>4. 1 + (k % n) \in 1..n
  BY <1>1, <1>3
<1> QED
  BY <1>4, EngineAssumption DEF Speaker, k

\* A commitment that is there has a bid in it.
LEMMA SealsHoldBids ==
  ASSUME Ledger!TypeOK, NEW m \in 1..MaxCommits, commitments[m].state # "absent"
  PROVE  commitments[m].digest \in Ledger!Proposal
  BY DEF Ledger!TypeOK, Ledger!CommitId, Ledger!Commitment, Ledger!NoCommitment

\* The first of a sequence, and the others.
LEMMA FirstAndRest ==
  ASSUME NEW S, NEW q \in Seq(S), q # <<>>
  PROVE  /\ 1 \in 1..Len(q) /\ Head(q) = q[1] /\ Head(q) \in S
         /\ Tail(q) \in Seq(S) /\ Len(Tail(q)) = Len(q) - 1 /\ Len(q) \in Nat
         /\ \A i \in 1..Len(q) - 1 : Tail(q)[i] = q[i + 1] /\ i + 1 \in 1..Len(q)
         /\ \A i \in 1..Len(q) : q[i] \in S
<1>1. Len(q) \in Nat \ {0}
  OBVIOUS
<1>2. 1 \in 1..Len(q) /\ Head(q) = q[1] /\ q[1] \in S
  BY <1>1
<1>3. Tail(q) \in Seq(S) /\ Len(Tail(q)) = Len(q) - 1
  BY <1>1
<1>4. \A i \in 1..Len(q) - 1 : Tail(q)[i] = q[i + 1] /\ i + 1 \in 1..Len(q)
  BY <1>1
<1>5. \A i \in 1..Len(q) : q[i] \in S
  OBVIOUS
<1> QED
  BY <1>1, <1>2, <1>3, <1>4, <1>5
-----------------------------------------------------------------------------
(* Orders and lists *)

LEMMA LeastNumber ==
  ASSUME NEW T \in SUBSET Nat, T # {}
  PROVE  \E n \in T : \A k \in T : n <= k
<1>1. PICK n \in T : \A k \in T : ~(<<k, n>> \in OpToRel(<, Nat))
  BY WFMin, NatLessThanWellFounded
<1>2. \A k \in T : ~(k < n)
  BY <1>1 DEF OpToRel
<1> QED BY <1>2

\* before puts the elements of S in one order.
Orders(before, S) ==
  /\ \A x \in S : <<x, x>> \notin before
  /\ \A x, y \in S : x # y => <<x, y>> \in before \/ <<y, x>> \in before
  /\ \A x, y, z \in S : <<x, y>> \in before /\ <<y, z>> \in before => <<x, z>> \in before

\* The elements of S, each once, in that order.
LEMMA ListedIsInOrder ==
  ASSUME NEW S, IsFiniteSet(S), NEW before, Orders(before, S)
  PROVE  LET s == Listed(S, before)
         IN  /\ s \in Seq(S) /\ Len(s) = Cardinality(S)
             /\ \A x \in S : \E i \in 1..Len(s) : s[i] = x
             /\ \A i, j \in 1..Len(s) : i < j <=> <<s[i], s[j]>> \in before
<1> DEFINE n == Cardinality(S)
           Before(x) == {y \in S : <<y, x>> \in before}
           place == [x \in S |-> Cardinality(Before(x)) + 1]
           s == Listed(S, before)
<1>1. n \in Nat
  BY FS_CardinalityType
<1>2. ASSUME NEW x \in S
      PROVE  IsFiniteSet(Before(x)) /\ Cardinality(Before(x)) \in Nat /\ Cardinality(Before(x)) < n
  <2>1. IsFiniteSet(Before(x)) /\ Cardinality(Before(x)) <= n
    BY FS_Subset
  <2>2. Before(x) # S
    BY DEF Orders
  <2>3. Cardinality(Before(x)) # n
    BY <2>1, <2>2, FS_Subset
  <2> QED BY <2>1, <2>3, <1>1, FS_CardinalityType
<1>3. ASSUME NEW x \in S, NEW y \in S, <<x, y>> \in before
      PROVE  Cardinality(Before(x)) < Cardinality(Before(y))
  <2>1. Before(x) \subseteq Before(y) /\ x \in Before(y) /\ x \notin Before(x)
    BY <1>3 DEF Orders
  <2>2. Before(x) \in SUBSET Before(y) /\ Before(x) # Before(y)
    BY <2>1
  <2> HIDE DEF Before
  <2>3. IsFiniteSet(Before(x)) /\ IsFiniteSet(Before(y))
        /\ Cardinality(Before(x)) \in Nat /\ Cardinality(Before(y)) \in Nat
    BY <1>2
  <2>4. Cardinality(Before(x)) <= Cardinality(Before(y))
        /\ (Cardinality(Before(y)) = Cardinality(Before(x)) => Before(y) = Before(x))
    BY <2>2, <2>3, FS_Subset
  <2> QED BY <2>2, <2>3, <2>4
<1>4. place \in [S -> 1..n]
  BY <1>2, <1>1
<1>5. \A x, y \in S : place[x] = place[y] => x = y
  <2> SUFFICES ASSUME NEW x \in S, NEW y \in S, x # y PROVE place[x] # place[y]
    OBVIOUS
  <2>1. <<x, y>> \in before \/ <<y, x>> \in before
    BY DEF Orders
  <2> HIDE DEF Before
  <2>2. Cardinality(Before(x)) # Cardinality(Before(y))
        /\ Cardinality(Before(x)) \in Nat /\ Cardinality(Before(y)) \in Nat
    BY <2>1, <1>2, <1>3
  <2> QED BY <2>2
<1>6. IsFiniteSet(1..n) /\ Cardinality(1..n) = n
  BY <1>1, FS_Interval
<1>7. \A i \in 1..n : \E x \in S : place[x] = i
  <2> HIDE DEF place, n
  <2>1. place \in Injection(S, 1..n)
    BY <1>4, <1>5 DEF Injection, IsInjective
  <2>2. place \in Surjection(S, 1..n)
    BY <2>1, <1>6, FS_Injection DEF n
  <2> QED BY <2>2 DEF Surjection
<1>8. ASSUME NEW i \in 1..n PROVE s[i] \in S /\ place[s[i]] = i
  <2>1. PICK x \in S : place[x] = i
    BY <1>7
  <2>2. Cardinality(Before(x)) = i - 1
    <3> HIDE DEF Before
    <3>1. place[x] = Cardinality(Before(x)) + 1 /\ Cardinality(Before(x)) \in Nat
      BY <1>2
    <3> QED BY <3>1, <2>1
  <2>3. s[i] = CHOOSE y \in S : Cardinality(Before(y)) = i - 1
    BY <1>1 DEF Listed
  <2> HIDE DEF Before, s
  <2>4. s[i] \in S /\ Cardinality(Before(s[i])) = i - 1
    BY <2>2, <2>3
  <2>5. place[s[i]] = Cardinality(Before(s[i])) + 1
    BY <2>4
  <2> QED BY <2>4, <2>5
<1>9. DOMAIN s = 1..n /\ s = [i \in 1..n |-> s[i]]
  <2> DEFINE at(i) == CHOOSE x \in S : Cardinality(Before(x)) = i - 1
  <2>1. s = [i \in 1..n |-> at(i)]
    BY DEF Listed
  <2> HIDE DEF s, at, n
  <2> QED BY <2>1
<1> HIDE DEF s, place
<1>10. s \in Seq(S) /\ Len(s) = n
  <2>1. s \in [1..n -> S]
    BY <1>8, <1>9
  <2> QED BY <2>1, <1>1
<1>11. ASSUME NEW x \in S PROVE \E i \in 1..n : s[i] = x
  <2>1. place[x] \in 1..n
    BY <1>4
  <2>2. s[place[x]] \in S /\ place[s[place[x]]] = place[x]
    BY <2>1, <1>8
  <2> QED BY <2>1, <2>2, <1>5
<1>12. ASSUME NEW x \in S, NEW y \in S PROVE place[x] < place[y] <=> <<x, y>> \in before
  <2>1. ASSUME NEW u \in S, NEW w \in S, <<u, w>> \in before PROVE place[u] < place[w]
    <3> HIDE DEF Before
    <3>1. Cardinality(Before(u)) < Cardinality(Before(w))
      BY <2>1, <1>3
    <3>2. Cardinality(Before(u)) \in Nat /\ Cardinality(Before(w)) \in Nat
      BY <1>2
    <3> QED BY <3>1, <3>2 DEF place
  <2>2. place[x] \in Nat /\ place[y] \in Nat
    BY <1>4
  <2>3. CASE <<x, y>> \in before
    BY <2>1, <2>3
  <2>4. CASE <<x, y>> \notin before
    <3>1. x = y \/ <<y, x>> \in before
      BY <2>4 DEF Orders
    <3>2. place[y] < place[x] \/ place[y] = place[x]
      BY <3>1, <2>1
    <3> QED BY <3>2, <2>2, <2>4
  <2> QED BY <2>3, <2>4
<1>13. \A i, j \in 1..n : i < j <=> <<s[i], s[j]>> \in before
  BY <1>8, <1>12
<1>14. Listed(S, before) = s /\ n = Cardinality(S)
  BY DEF s
<1> HIDE DEF n
<1> QED BY <1>10, <1>11, <1>13, <1>14

\* There is a first one.
LEMMA OneIsFirst ==
  ASSUME NEW S, IsFiniteSet(S), S # {}, NEW before, Orders(before, S)
  PROVE  \E x \in S : \A y \in S : y = x \/ <<x, y>> \in before
<1> DEFINE s == Listed(S, before)
<1>1. /\ s \in Seq(S) /\ Len(s) = Cardinality(S)
      /\ \A x \in S : \E i \in 1..Len(s) : s[i] = x
      /\ \A i, j \in 1..Len(s) : i < j <=> <<s[i], s[j]>> \in before
  BY ListedIsInOrder
<1> HIDE DEF s
<1>2. Len(s) \in Nat /\ 1 \in 1..Len(s)
  BY <1>1
<1>3. s[1] \in S
  BY <1>1, <1>2
<1>4. ASSUME NEW y \in S PROVE y = s[1] \/ <<s[1], y>> \in before
  <2>1. PICK i \in 1..Len(s) : s[i] = y
    BY <1>1
  <2>2. i = 1 \/ 1 < i
    OBVIOUS
  <2> QED BY <1>1, <1>2, <2>1, <2>2
<1> QED BY <1>3, <1>4

LEMMA PassengersAreFinite == IsFiniteSet(Passenger)
<1>1. DOMAIN Roster = 1..Len(Roster) /\ Len(Roster) \in Nat
  BY RosterAssumption
<1>2. IsFiniteSet(1..Len(Roster))
  BY <1>1, FS_Interval
<1>3. Roster \in Surjection(1..Len(Roster), Passenger)
  BY <1>1, RosterAssumption DEF Surjection, Passenger
<1> QED BY <1>2, <1>3, FS_Surjection

LEMMA PlacesAreIdentities ==
  /\ \A p \in Passenger : Place[p] \in 1..NPax /\ Roster[Place[p]] = p
  /\ \A p, q \in Passenger : Place[p] = Place[q] => p = q
  /\ NPax \in Nat
<1>1. DOMAIN Roster = 1..NPax /\ NPax \in Nat
  BY RosterAssumption DEF NPax
<1>2. ASSUME NEW p \in Passenger PROVE Place[p] \in DOMAIN Roster /\ Roster[Place[p]] = p
  <2>1. \E i \in DOMAIN Roster : Roster[i] = p
    BY DEF Passenger
  <2> QED BY <2>1 DEF Place
<1> QED BY <1>1, <1>2

\* Passengers sorted by a number: who comes before whom.
Earlier(S, key) ==
  {z \in S \X S : \/ key[z[1]] < key[z[2]]
                  \/ key[z[1]] = key[z[2]] /\ Place[z[1]] < Place[z[2]]}

LEMMA SortedByIsInOrder ==
  ASSUME NEW S \in SUBSET Passenger, NEW key, \A p \in S : key[p] \in Int
  PROVE  LET s == SortedBy(S, key)
         IN  /\ IsFiniteSet(S)
             /\ s \in Seq(S) /\ Len(s) = Cardinality(S)
             /\ \A x \in S : \E i \in 1..Len(s) : s[i] = x
             /\ \A i, j \in 1..Len(s) : i < j <=> <<s[i], s[j]>> \in Earlier(S, key)
<1>1. IsFiniteSet(S)
  BY PassengersAreFinite, FS_Subset
<1>2. \A p \in S : Place[p] \in Int
  BY PlacesAreIdentities
<1>3. \A p, q \in S : p # q => Place[p] # Place[q]
  BY PlacesAreIdentities
<1>4. Orders(Earlier(S, key), S)
  BY <1>2, <1>3 DEF Orders, Earlier
<1>5. SortedBy(S, key) = Listed(S, Earlier(S, key))
  BY DEF SortedBy, Earlier
<1> QED BY <1>1, <1>4, <1>5, ListedIsInOrder

\* Claims sorted by id.
OneRecordPerId(records) == \A c, d \in records : c.id \in Nat /\ (c.id = d.id => c = d)

LEMMA ByIdIsInOrder ==
  ASSUME NEW S, IsFiniteSet(S), OneRecordPerId(S)
  PROVE  LET s == ById(S)
         IN  /\ s \in Seq(S) /\ Len(s) = Cardinality(S)
             /\ \A x \in S : \E i \in 1..Len(s) : s[i] = x
             /\ \A i, j \in 1..Len(s) : s[i] = s[j] => i = j
<1> DEFINE before == {z \in S \X S : z[1].id < z[2].id}
           s == ById(S)
<1>1. Orders(before, S)
  BY DEF Orders, OneRecordPerId
<1>2. s = Listed(S, before)
  BY DEF ById
<1> HIDE DEF before, s
<1>3. /\ s \in Seq(S) /\ Len(s) = Cardinality(S)
      /\ \A x \in S : \E i \in 1..Len(s) : s[i] = x
      /\ \A i, j \in 1..Len(s) : i < j <=> <<s[i], s[j]>> \in before
  BY <1>1, <1>2, ListedIsInOrder
<1>4. ASSUME NEW i \in 1..Len(s), NEW j \in 1..Len(s), s[i] = s[j] PROVE i = j
  <2>1. i \in Int /\ j \in Int /\ s[i] \in S
    BY <1>3
  <2>2. ~(i < j) /\ ~(j < i)
    BY <1>1, <1>3, <1>4, <2>1 DEF Orders
  <2> QED BY <2>1, <2>2
<1> QED BY <1>3, <1>4 DEF s

LEMMA FirstOfIsThere ==
  ASSUME NEW S, IsFiniteSet(S), S # {}, OneRecordPerId(S)
  PROVE  FirstOf(S) \in S /\ \A d \in S : FirstOf(S).id <= d.id
<1> DEFINE before == {z \in S \X S : z[1].id < z[2].id}
<1>1. Orders(before, S)
  BY DEF Orders, OneRecordPerId
<1>2. PICK c \in S : \A d \in S : d = c \/ <<c, d>> \in before
  BY <1>1, OneIsFirst
<1>3. ASSUME NEW d \in S PROVE c.id <= d.id
  <2>1. c.id \in Nat /\ d.id \in Nat
    BY DEF OneRecordPerId
  <2>2. d = c \/ c.id < d.id
    BY <1>2
  <2> QED BY <2>1, <2>2
<1> QED BY <1>3 DEF FirstOf

LEMMA FirstNIsAStart ==
  ASSUME NEW S, NEW s \in Seq(S), NEW n \in Int
  PROVE  /\ FirstN(s, n) \in Seq(S)
         /\ Len(FirstN(s, n)) <= Len(s)
         /\ n >= 1 /\ s # <<>> => FirstN(s, n) # <<>>
         /\ ToSet(FirstN(s, n)) \subseteq ToSet(s)
         /\ ToSet(FirstN(s, n)) \subseteq S
<1> DEFINE m == IF n < Len(s) THEN n ELSE Len(s)
           t == FirstN(s, n)
<1>1. Len(s) \in Nat /\ m \in Int /\ m <= Len(s) /\ DOMAIN s = 1..Len(s)
  OBVIOUS
<1>2. t = SubSeq(s, 1, m)
  BY DEF FirstN
<1> HIDE DEF m, t
<1>3. /\ t \in Seq(S) /\ Len(t) <= Len(s)
      /\ \A i \in 1..Len(t) : i \in 1..Len(s) /\ t[i] = s[i]
  <2>1. CASE m >= 1
    <3>1. /\ 1..m \subseteq 1..Len(s)
          /\ t \in Seq(S) /\ Len(t) = m /\ \A i \in 1..m : t[i] = s[i]
      BY <1>1, <1>2, <2>1
    <3> QED BY <3>1, <1>1
  <2>2. CASE m < 1
    <3>1. t = <<>>
      BY <1>1, <1>2, <2>2
    <3> QED BY <3>1, <1>1
  <2> QED BY <1>1, <2>1, <2>2
<1>4. ASSUME n >= 1, s # <<>> PROVE t # <<>>
  <2>1. m >= 1
    BY <1>4, <1>1 DEF m
  <2> QED BY <2>1, <1>1, <1>2
<1>5. DOMAIN t = 1..Len(t)
  BY <1>3
<1> QED BY <1>1, <1>3, <1>4, <1>5 DEF ToSet, t
-----------------------------------------------------------------------------
(* What holds throughout a run *)

\* All of S may be on r: a seat is for a passenger whom its flight is legal for.
MayBoard(r, S) ==
  r.kind = "seat" => \A b \in S : b \in Passenger /\ r.of \in Legal(scenario, b)

Bids ==
  {b \in [agent : Agent, resource : Resource, wish : Seq(Beneficiary)] :
     b.wish # <<>> /\ MayBoard(b.resource, ToSet(b.wish))}

BidsOf(me, kind) == {b \in Bids : b.agent = me /\ b.resource.kind = kind}

Stands == [agent : Agent, stance : {"support", "block", "yield"}, target : ClaimId,
           release : SUBSET Beneficiary]

Notes == {p \in Stands : p.stance # "yield"}

Ops ==
  {o \in [op : {"revoke", "grant", "void"}, claim : ClaimId, bens : SUBSET Beneficiary] :
     o.op = "grant" => /\ claims[o.claim].status # "absent"
                       /\ MayBoard(claims[o.claim].resource, o.bens)}

\* Whose turn it is to do what.
StageIsSet ==
  /\ scenario \in Scenarios /\ condition \in Conditions
  /\ condition = "single" => phase \in {"setup", "plan", "seats", "done"}
  /\ condition # "single" => EngineHolds
  /\ asked => phase \in {"propose", "positions", "aborted"}

\* What is still to be done may be done, in the phase it is for.
ScriptIsLegal ==
  /\ phase = "setup" => script \in Seq(Resource)
  /\ phase = "plan" \/ (phase = "propose" /\ asked) => script \in Seq(Bids)
  /\ phase = "positions" /\ asked => script \in Seq(Stands)
  /\ phase = "ops" => script \in Seq(Ops)
  /\ phase = "seats" => script \in Seq(Passenger)

EverythingIsRegistered ==
  \A i \in DOMAIN Registrations(scenario) :
    \/ Registrations(scenario)[i] \in registered
    \/ phase = "setup" /\ \E j \in DOMAIN script : script[j] = Registrations(scenario)[i]

\* Every commitment has its wish, and seals what that asks for.
WishesAreSealed ==
  /\ wish \in Seq([who : Seq(Beneficiary), round : Nat])
  /\ Len(wish) = commitSeq
  /\ \A m \in 1..Len(wish) :
       /\ wish[m].who # <<>>
       /\ commitments[m].digest.bens = ToSet(wish[m].who)
       /\ MayBoard(commitments[m].digest.resource, commitments[m].digest.bens)

\* In a negotiated run every claim comes from a wish.
ClaimsAreLegal ==
  condition # "single" =>
    \A c \in ClaimId : claims[c].status # "absent" =>
      /\ claims[c].resource \in registered
      /\ claims[c].commit \in 1..Len(wish)
      /\ claims[c].bens = ToSet(wish[claims[c].commit].who)
      /\ MayBoard(claims[c].resource, claims[c].bens)

UnitsAreLegal == \A u \in alloc : MayBoard(u.resource, {u.ben})

StormInv ==
  /\ LedgerHolds /\ BankHolds
  /\ StageIsSet /\ ScriptIsLegal /\ EverythingIsRegistered
  /\ WishesAreSealed /\ ClaimsAreLegal /\ UnitsAreLegal
-----------------------------------------------------------------------------
(* The storm *)

LEMMA FlightsAreListed ==
  /\ Flight = {"QW258", "QW338", "QW441", "QW519", "QW602", "QW777"}
  /\ Len(FlightsById) = 6 /\ FlightsById \in Seq(Flight) /\ DOMAIN FlightsById = 1..6
  /\ \A f \in Flight : Timetable[f].dep \in Nat /\ Timetable[f].arr \in Nat
  /\ \A f, g \in Flight : f # g => /\ Timetable[f].dep # Timetable[g].dep
                                  /\ Timetable[f].arr # Timetable[g].arr
<1>1. DOMAIN FlightsById = 1..6 /\ Len(FlightsById) = 6
  BY DEF FlightsById
<1>2. 1..6 = {1, 2, 3, 4, 5, 6}
  OBVIOUS
<1>3. Flight = {"QW258", "QW338", "QW441", "QW519", "QW602", "QW777"}
  BY <1>1, <1>2 DEF Flight, FlightsById
<1>4. FlightsById \in Seq(Flight)
  <2>1. \A i \in 1..6 : FlightsById[i] \in Flight
    BY <1>1 DEF Flight
  <2> QED BY <1>3 DEF FlightsById
<1>5. /\ Timetable["QW258"] = [dep |-> 1425, arr |-> 1499, nonstop |-> TRUE]
      /\ Timetable["QW338"] = [dep |-> 1215, arr |-> 1435, nonstop |-> FALSE]
      /\ Timetable["QW441"] = [dep |-> 1180, arr |-> 1260, nonstop |-> TRUE]
      /\ Timetable["QW519"] = [dep |-> 1265, arr |-> 1345, nonstop |-> TRUE]
      /\ Timetable["QW602"] = [dep |-> 1330, arr |-> 1410, nonstop |-> TRUE]
      /\ Timetable["QW777"] = [dep |-> 1290, arr |-> 1790, nonstop |-> FALSE]
  BY DEF Timetable
<1>6. \A f \in Flight : Timetable[f].dep \in Nat /\ Timetable[f].arr \in Nat
  BY <1>3, <1>5
<1>7. \A f, g \in Flight : f # g => Timetable[f].dep # Timetable[g].dep
  BY <1>3, <1>5
<1>8. \A f, g \in Flight : f # g => Timetable[f].arr # Timetable[g].arr
  BY <1>3, <1>5
<1> QED BY <1>1, <1>3, <1>4, <1>6, <1>7, <1>8

LEMMA LegalFlightsAreFlights ==
  ASSUME NEW sc, NEW p
  PROVE  /\ Legal(sc, p) \subseteq Flight
         /\ {"QW258", "QW441", "QW519", "QW602"} \subseteq Legal(sc, p)
<1>1. {"QW258", "QW441", "QW519", "QW602"} \subseteq {f \in Flight : Timetable[f].nonstop}
  BY FlightsAreListed DEF Timetable
<1> QED BY <1>1, FlightsAreListed DEF Legal

\* Registrations and the other bidders' words are of the ledger's constants.
LEMMA StormIsTyped ==
  ASSUME scenario \in Scenarios
  PROVE  /\ \A f \in Flight : /\ Seat(scenario, f) \in Resource
                              /\ Seat(scenario, f).kind = "seat"
                              /\ Seat(scenario, f).of = f
         /\ FerryCrew \in Resource /\ FerryCrew.kind = "crew"
         /\ \A g \in Gates : Gate(g) \in Resource /\ Gate(g).kind = "gate"
         /\ HotelBlock(scenario) \in Resource /\ HotelBlock(scenario).kind = "hotel"
         /\ Passenger \subseteq Beneficiary /\ Flight \subseteq Beneficiary
         /\ "C1" \in Beneficiary /\ Crew \subseteq Beneficiary
<1> USE AirlineAssumption, ScenariosAssumption
<1>1. \A f \in Flight : scenario.seats[f] \in Seats
  OBVIOUS
<1>2. \A f \in Flight : Seat(scenario, f) \in [kind : {"seat"}, of : Flight, units : Seats]
  BY <1>1 DEF Seat
<1>3. HotelBlock(scenario) \in [kind : {"hotel"}, of : {"block"}, units : Rooms]
  BY DEF HotelBlock
<1> QED BY <1>2, <1>3, CastAssumption DEF TarmacResources, TarmacBeneficiaries, Seat, FerryCrew, Gate, HotelBlock

LEMMA RolesAreAgents ==
  /\ {"rebooking", "crew_legality", "gate_ground", "hotel", "advocate", "single_planner"} \subseteq Agent
  /\ DOMAIN AgentOrder = 1..5 /\ Len(AgentOrder) = 5
  /\ \A i \in 1..5 : AgentOrder[i] \in {"rebooking", "crew_legality", "gate_ground", "hotel", "advocate"}
<1>1. DOMAIN AgentOrder = 1..5 /\ Len(AgentOrder) = 5 /\ 1..5 = {1, 2, 3, 4, 5}
  BY DEF AgentOrder
<1>2. /\ AgentOrder[1] = "rebooking" /\ AgentOrder[2] = "crew_legality"
      /\ AgentOrder[3] = "gate_ground" /\ AgentOrder[4] = "hotel" /\ AgentOrder[5] = "advocate"
  BY DEF AgentOrder
<1> QED BY <1>1, <1>2, AirlineAssumption DEF TarmacAgents, ToSet
-----------------------------------------------------------------------------
(* Sequences *)

LEMMA MappedIsASequence ==
  ASSUME NEW T, NEW n \in Nat, NEW f \in [1..n -> T]
  PROVE  f \in Seq(T) /\ Len(f) = n
OBVIOUS

LEMMA JoinedIsASequence ==
  ASSUME NEW T, NEW s \in Seq(T), NEW t \in Seq(T)
  PROVE  /\ s \o t \in Seq(T) /\ Len(s \o t) = Len(s) + Len(t)
         /\ \A i \in 1..Len(s) : (s \o t)[i] = s[i]
         /\ \A i \in 1..Len(t) : (s \o t)[Len(s) + i] = t[i]
<1>1. Len(s) \in Nat /\ Len(t) \in Nat
  OBVIOUS
<1>2. s \o t \in Seq(T) /\ Len(s \o t) = Len(s) + Len(t)
  OBVIOUS
<1>3. ASSUME NEW i \in 1..Len(s) PROVE (s \o t)[i] = s[i]
  BY <1>1
<1>4. ASSUME NEW i \in 1..Len(t) PROVE (s \o t)[Len(s) + i] = t[i]
  BY <1>1
<1> QED BY <1>2, <1>3, <1>4

LEMMA ItemIsThere ==
  ASSUME NEW T, NEW s \in Seq(T), NEW i \in 1..Len(s)
  PROVE  s[i] \in T
OBVIOUS

LEMMA OneIsASequence ==
  ASSUME NEW T, NEW x \in T
  PROVE  <<x>> \in Seq(T) /\ <<x>> # <<>> /\ ToSet(<<x>>) = {x} /\ <<x>>[1] = x
<1>1. <<x>> \in Seq(T) /\ <<x>> # <<>> /\ DOMAIN <<x>> = {1} /\ <<x>>[1] = x
  OBVIOUS
<1> QED BY <1>1 DEF ToSet

\* What is kept by every step of a recursion holds all along it.
LEMMA StaysIn ==
  ASSUME NEW X, NEW len \in Nat, NEW f, f[0] \in X,
         \A k \in 1..len : f[k - 1] \in X => f[k] \in X
  PROVE  \A k \in 0..len : f[k] \in X
<1> DEFINE T == {k \in 0..len : f[k] \notin X}
<1>1. SUFFICES ASSUME T # {} PROVE FALSE
  OBVIOUS
<1>2. T \in SUBSET Nat
  OBVIOUS
<1>3. PICK m \in T : \A k \in T : m <= k
  BY <1>1, <1>2, LeastNumber
<1>4. m # 0 /\ m \in 1..len
  BY <1>3
<1>5. m - 1 \in 0..len /\ m - 1 \notin T
  BY <1>3, <1>4
<1> QED BY <1>3, <1>4, <1>5

\* f goes from first on by step, and stays in X.
Unfolds(f, X, first, len, step) ==
  /\ f \in [0..len -> X] /\ f[0] = first
  /\ \A n \in 1..len : f[n] = step[<<f[n - 1], n>>]

\* The recursion has a solution.
LEMMA StepsUpTo ==
  ASSUME NEW X, NEW first \in X, NEW len \in Nat, NEW step \in [X \X (1..len) -> X]
  PROVE  \E f : Unfolds(f, X, first, len, step)
<1> USE DEF Unfolds
<1> DEFINE Solves(f, m) == Unfolds(f, X, first, m, step)
           T == {m \in 0..len : ~\E f : Solves(f, m)}
<1>1. SUFFICES ASSUME T # {} PROVE FALSE
  <2>1. len \in 0..len
    OBVIOUS
  <2> QED BY <2>1
<1>2. T \in SUBSET Nat
  OBVIOUS
<1>3. PICK m \in T : \A k \in T : m <= k
  BY <1>1, <1>2, LeastNumber
<1>4. m # 0
  <2> DEFINE f == [k \in 0..0 |-> first]
  <2>1. Solves(f, 0)
    OBVIOUS
  <2> HIDE DEF Solves
  <2> QED BY <2>1, <1>3
<1>5. m \in 1..len /\ m - 1 \in 0..len /\ m - 1 \notin T
  <2> HIDE DEF Solves
  <2>1. m \in 1..len /\ m - 1 \in 0..len /\ ~(m <= m - 1)
    BY <1>3, <1>4
  <2>2. m - 1 \notin T
    BY <1>3, <2>1
  <2> QED BY <2>1, <2>2
<1>6. PICK f : Solves(f, m - 1)
  BY <1>5
<1> DEFINE g == [n \in 0..m |-> IF n = m THEN step[<<f[m - 1], m>>] ELSE f[n]]
<1>7. f[m - 1] \in X /\ step[<<f[m - 1], m>>] \in X
  BY <1>5, <1>6
<1>8. g \in [0..m -> X]
  BY <1>5, <1>6, <1>7
<1>9. ASSUME NEW n \in 1..m PROVE g[n] = step[<<g[n - 1], n>>]
  <2>1. n - 1 \in 0..(m - 1) /\ n - 1 # m
    BY <1>5
  <2>2. g[n - 1] = f[n - 1]
    BY <2>1, <1>5
  <2>3. CASE n = m
    <3>1. g[n] = step[<<f[m - 1], m>>]
      BY <2>3
    <3> HIDE DEF g
    <3> QED BY <2>2, <2>3, <3>1
  <2>4. CASE n # m
    <3>1. n \in 1..(m - 1) /\ g[n] = f[n]
      BY <2>4
    <3>2. f[n] = step[<<f[n - 1], n>>]
      BY <3>1, <1>6
    <3> QED BY <3>1, <3>2, <2>2
  <2> QED BY <2>3, <2>4
<1>10. g[0] = first
  BY <1>5, <1>6
<1>11. Solves(g, m)
  BY <1>8, <1>9, <1>10
<1> HIDE DEF Solves, g
<1> QED BY <1>3, <1>11
-----------------------------------------------------------------------------
(* What an agent is shown *)

Shown ==
  {c \in [id : ClaimId, agent : Agent, resource : registered, wish : Seq(Beneficiary),
          holders : SUBSET Beneficiary, round : Nat] :
     /\ c.wish # <<>>
     /\ claims[c.id].status # "absent" /\ claims[c.id].resource = c.resource
     /\ MayBoard(c.resource, ToSet(c.wish)) /\ MayBoard(c.resource, c.holders)}

ViewIsSound(v) ==
  /\ v.sc = scenario /\ v.round \in Nat
  /\ v.granted \subseteq Shown /\ IsFiniteSet(v.granted) /\ OneRecordPerId(v.granted)
  /\ v.blocked \subseteq Shown /\ IsFiniteSet(v.blocked) /\ OneRecordPerId(v.blocked)
  /\ OneRecordPerId(v.granted \union v.blocked)
  /\ \A x \in v.contests : x.agent \in Agent /\ x.target \in ClaimId
  /\ v.free \in [registered -> Int]

\* The scenario is one, and all that it has is registered.
Ready ==
  /\ scenario \in Scenarios
  /\ registered \subseteq Resource
  /\ HotelBlock(scenario) \in registered
  /\ \A f \in Flight : Seat(scenario, f) \in registered

LEMMA RecordsAreShown ==
  ASSUME StormInv, condition # "single", NEW c \in ClaimId, claims[c].status # "absent"
  PROVE  Record(c) \in Shown /\ Record(c).id = c
<1> DEFINE m == claims[c].commit
           H == Ledger!Holders(c)
<1>1. Ledger!TypeOK /\ Ledger!UnitsBelongToGrantedClaims
  BY LedgerFacts DEF StormInv
<1>2. claims[c].agent \in Agent /\ claims[c].resource \in Resource
  BY <1>1 DEF Ledger!TypeOK, Ledger!Claim, Ledger!NoClaim, Ledger!ClaimId, ClaimId
<1>3. /\ claims[c].resource \in registered /\ m \in 1..Len(wish)
      /\ claims[c].bens = ToSet(wish[m].who)
      /\ MayBoard(claims[c].resource, claims[c].bens)
  BY DEF StormInv, ClaimsAreLegal
<1>4. wish[m] \in [who : Seq(Beneficiary), round : Nat] /\ wish[m].who # <<>> /\ m # 0
  <2>1. /\ wish \in Seq([who : Seq(Beneficiary), round : Nat])
        /\ \A k \in 1..Len(wish) : wish[k].who # <<>>
    BY DEF StormInv, WishesAreSealed
  <2>2. wish[m] \in [who : Seq(Beneficiary), round : Nat]
    BY <2>1, <1>3, ItemIsThere
  <2>3. m # 0
    BY <1>3
  <2> QED BY <1>3, <2>1, <2>2, <2>3
<1>5. H \subseteq Beneficiary /\ MayBoard(claims[c].resource, H)
  <2>1. ASSUME NEW u \in alloc, u.claim = c
        PROVE  u.ben \in Beneficiary /\ MayBoard(claims[c].resource, {u.ben})
    <3>1. claims[c].resource = u.resource /\ u.ben \in Beneficiary
      BY <1>1, <2>1 DEF Ledger!TypeOK, Ledger!Allocation, Ledger!UnitsBelongToGrantedClaims
    <3> QED BY <3>1 DEF StormInv, UnitsAreLegal
  <2> QED BY <2>1 DEF MayBoard, Ledger!Holders
<1> HIDE DEF m, H
<1>6. Record(c) = [id |-> c, agent |-> claims[c].agent, resource |-> claims[c].resource,
                   wish |-> wish[m].who, holders |-> H, round |-> wish[m].round]
  BY <1>4 DEF Record, m, H
<1> QED BY <1>2, <1>3, <1>4, <1>5, <1>6 DEF Shown

LEMMA LedgersCount == \A S : Ledger!Cardinality(S) = Cardinality(S)
  BY DEF Ledger!Cardinality, Cardinality

LEMMA FreeIsANumber ==
  ASSUME StormInv, NEW r \in registered
  PROVE  Free(r) \in Nat
<1>1. Ledger!TypeOK /\ Ledger!CapacityRespected
  BY LedgerFacts DEF StormInv
<1>2. r \in Resource /\ Capacity[r] \in Nat
  BY <1>1, LedgerAssumption DEF Ledger!TypeOK
<1>3. IsFiniteSet(alloc)
  <2>1. IsFiniteSet(alloc)
    BY DEF StormInv, LedgerHolds
  <2> QED BY <2>1
<1> DEFINE U == {x \in alloc : x.resource = r}
<1>4. Cardinality(U) \in Nat
  BY <1>3, FS_Subset, FS_CardinalityType
<1>5. Ledger!Used(r) = Ledger!Cardinality(U) /\ Ledger!Cardinality(U) <= Capacity[r]
  BY <1>1, <1>2 DEF Ledger!Used, Ledger!CapacityRespected
<1> HIDE DEF U
<1>6. Ledger!Cardinality(U) = Cardinality(U)
  BY LedgersCount
<1> QED BY <1>2, <1>4, <1>5, <1>6 DEF Free

LEMMA ViewsAreSound ==
  ASSUME StormInv, condition # "single"
  PROVE  ViewIsSound(View)
<1>1. MaxClaims \in Nat /\ IsFiniteSet(ClaimId)
  BY LedgerAssumption, FS_Interval DEF ClaimId
<1>2. ASSUME NEW status, status # "absent"
      PROVE  /\ Records(status) \subseteq Shown /\ IsFiniteSet(Records(status))
             /\ \A c \in Records(status) : c.id \in ClaimId /\ c = Record(c.id)
  <2> DEFINE D == {d \in ClaimId : claims[d].status = status}
             f == [d \in D |-> Record(d)]
  <2>1. IsFiniteSet(D)
    BY <1>1, FS_Subset
  <2>2. \A d \in D : Record(d) \in Shown /\ Record(d).id = d
    BY <1>2, RecordsAreShown
  <2>3. Records(status) = {Record(d) : d \in D}
    BY DEF Records
  <2> HIDE DEF D
  <2>4. f \in Surjection(D, Records(status))
    BY <2>3 DEF Surjection
  <2>5. IsFiniteSet(Records(status))
    BY <2>1, <2>4, FS_Surjection
  <2>6. \A c \in Records(status) : c.id \in ClaimId /\ c = Record(c.id)
    BY <2>2, <2>3 DEF D
  <2> QED BY <2>2, <2>3, <2>5, <2>6
<1>3. round \in Nat
  BY DEF StormInv, StageIsSet, EngineHolds, ControlIsTyped, Setting, MaxRounds
<1>4. \A x \in OpenContests : contests[x].agent \in Agent /\ contests[x].target \in ClaimId
  <2>1. Bank!BankTypeOK
    BY BankFacts DEF StormInv
  <2> QED BY <2>1, BankAssumption DEF Bank!BankTypeOK, Bank!Contest, Bank!NoContest, OpenContests, ClaimId
<1>5. \A c \in Records("granted") \union Records("blocked") : c.id \in Nat /\ c = Record(c.id)
  BY <1>2 DEF ClaimId
<1>6. OneRecordPerId(Records("granted") \union Records("blocked"))
  BY <1>5 DEF OneRecordPerId
<1>7. OneRecordPerId(Records("granted")) /\ OneRecordPerId(Records("blocked"))
  BY <1>6 DEF OneRecordPerId
<1>8. [r \in registered |-> Free(r)] \in [registered -> Int]
  BY FreeIsANumber
<1>9. /\ View.sc = scenario /\ View.round = round
      /\ View.granted = Records("granted") /\ View.blocked = Records("blocked")
      /\ View.contests = {[agent |-> contests[x].agent, target |-> contests[x].target] :
                            x \in OpenContests}
      /\ View.free = [r \in registered |-> Free(r)]
  BY DEF View
<1>10. \A x \in View.contests : x.agent \in Agent /\ x.target \in ClaimId
  BY <1>4, <1>9
<1> QED BY <1>2, <1>3, <1>6, <1>7, <1>8, <1>9, <1>10 DEF ViewIsSound

LEMMA RegistrationsAreListed ==
  ASSUME scenario \in Scenarios
  PROVE  LET R == Registrations(scenario)
         IN  /\ R \in Seq(Resource) /\ Len(R) >= 8
             /\ \A i \in 1..6 : R[i] = Seat(scenario, FlightsById[i])
             /\ R[Len(R)] = HotelBlock(scenario)
<1> DEFINE seats == [i \in DOMAIN FlightsById |-> Seat(scenario, FlightsById[i])]
           gates == [i \in DOMAIN scenario.gates |-> Gate(scenario.gates[i])]
           R == Registrations(scenario)
<1>2. /\ seats \in Seq(Resource) /\ Len(seats) = 6
      /\ \A i \in 1..6 : seats[i] = Seat(scenario, FlightsById[i])
  <2>1. ASSUME NEW i \in 1..6 PROVE Seat(scenario, FlightsById[i]) \in Resource
    <3>1. FlightsById[i] \in Flight
      BY FlightsAreListed DEF Flight
    <3> QED BY <3>1, StormIsTyped
  <2>2. seats = [i \in 1..6 |-> Seat(scenario, FlightsById[i])]
    BY FlightsAreListed
  <2> HIDE DEF seats
  <2>3. seats \in [1..6 -> Resource]
    BY <2>1, <2>2
  <2> QED BY <2>2, <2>3, MappedIsASequence
<1>3. gates \in Seq(Resource)
  <2>1. scenario.gates \in Seq(Gates)
    BY ScenariosAssumption
  <2> QED BY <2>1, StormIsTyped
<1>4. R = seats \o <<FerryCrew>> \o gates \o <<HotelBlock(scenario)>>
  BY DEF Registrations
<1>5. <<FerryCrew>> \in Seq(Resource) /\ <<HotelBlock(scenario)>> \in Seq(Resource)
  BY StormIsTyped
<1> HIDE DEF seats, gates, R
<1>6. /\ R \in Seq(Resource) /\ Len(R) = 8 + Len(gates)
      /\ \A i \in 1..6 : R[i] = seats[i]
      /\ R[Len(R)] = HotelBlock(scenario)
  <2> DEFINE F == <<FerryCrew>>
             H == <<HotelBlock(scenario)>>
  <2>1. /\ F \in Seq(Resource) /\ Len(F) = 1 /\ H \in Seq(Resource) /\ Len(H) = 1
        /\ H[1] = HotelBlock(scenario) /\ Len(gates) \in Nat
    BY <1>3, <1>5
  <2>2. R = seats \o F \o gates \o H
    BY <1>4
  <2> HIDE DEF F, H
  <2> DEFINE A == seats \o F
             B == A \o gates
  <2>3. seats \in Seq(Resource) /\ F \in Seq(Resource)
    BY <1>2, <2>1
  <2>4. A \in Seq(Resource) /\ Len(A) = Len(seats) + Len(F)
        /\ \A i \in 1..Len(seats) : A[i] = seats[i]
    BY <2>3, JoinedIsASequence
  <2>5. R = B \o H
    BY <2>2
  <2> HIDE DEF A
  <2>6. A \in Seq(Resource)
    BY <2>4
  <2>7. B \in Seq(Resource) /\ Len(B) = Len(A) + Len(gates)
        /\ \A i \in 1..Len(A) : B[i] = A[i]
    BY <1>3, <2>6, JoinedIsASequence
  <2> HIDE DEF B
  <2>8. B \in Seq(Resource) /\ H \in Seq(Resource)
    BY <2>1, <2>7
  <2>9. R \in Seq(Resource) /\ Len(R) = Len(B) + Len(H)
        /\ \A i \in 1..Len(B) : R[i] = B[i]
    BY <2>5, <2>8, JoinedIsASequence
  <2>10. \A i \in 1..Len(H) : R[Len(B) + i] = H[i]
    BY <2>5, <2>8, JoinedIsASequence
  <2> QED BY <1>2, <2>1, <2>4, <2>7, <2>9, <2>10
<1> QED BY <1>2, <1>3, <1>6 DEF R

LEMMA RunsAreReady ==
  ASSUME StormInv, phase # "setup"
  PROVE  Ready
<1>1. scenario \in Scenarios /\ registered \subseteq Resource
  BY LedgerFacts DEF StormInv, StageIsSet, Ledger!TypeOK
<1> DEFINE R == Registrations(scenario)
<1>2. /\ R \in Seq(Resource) /\ Len(R) >= 8
      /\ \A i \in 1..6 : R[i] = Seat(scenario, FlightsById[i])
      /\ R[Len(R)] = HotelBlock(scenario)
  BY <1>1, RegistrationsAreListed
<1> HIDE DEF R
<1>3. \A i \in 1..Len(R) : R[i] \in registered
  BY <1>2 DEF StormInv, EverythingIsRegistered, R
<1>4. Len(R) \in 1..Len(R) /\ \A i \in 1..6 : i \in 1..Len(R)
  BY <1>2
<1>5. HotelBlock(scenario) \in registered
  BY <1>2, <1>3, <1>4
<1>6. ASSUME NEW f \in Flight PROVE Seat(scenario, f) \in registered
  <2>1. PICK i \in 1..6 : f = FlightsById[i]
    BY FlightsAreListed DEF Flight
  <2> QED BY <2>1, <1>2, <1>3, <1>4
<1> QED BY <1>1, <1>5, <1>6 DEF Ready
-----------------------------------------------------------------------------
(* The role agents: their bids are for whom they may be for *)

LEMMA BidIsLegal ==
  ASSUME NEW me \in Agent, NEW r \in Resource, NEW w \in Seq(Beneficiary), w # <<>>,
         MayBoard(r, ToSet(w))
  PROVE  Bid(me, r, w) \in Bids /\ Bid(me, r, w) \in BidsOf(me, r.kind)
BY DEF Bid, Bids, BidsOf

LEMMA StandIsTyped ==
  ASSUME NEW me \in Agent, NEW stance \in {"support", "block", "yield"}, NEW c \in ClaimId,
         NEW release \in SUBSET Beneficiary
  PROVE  Take(me, stance, c, release) \in Stands
BY DEF Take, Stands

LEMMA BookingsAreNumbers ==
  ASSUME scenario \in Scenarios
  PROVE  \A p \in Passenger : scenario.order[p] \in 1..NPax
BY ScenariosAssumption DEF Valid

LEMMA PrioritiesAreNumbers == \A p : PaxPriority(p) \in 0..5
BY DEF PaxPriority

LEMMA RiskIsANumber ==
  ASSUME scenario \in Scenarios, NEW p \in Passenger
  PROVE  ConnectionRisk(scenario, p) \in Int
<1> DEFINE Q == {q \in Flagged({"TC"}) : Place[q] < Place[p]}
           risk == 80 - (scenario.order[p] * 79) \div (NPax + 1)
<1>1. Cardinality(Q) \in Int
  <2>1. IsFiniteSet(Q)
    BY PassengersAreFinite, FS_Subset DEF Flagged
  <2> QED BY <2>1, FS_CardinalityType
<1>2. risk \in Int
  <2>1. scenario.order[p] \in Nat /\ NPax \in Nat
    BY BookingsAreNumbers, PlacesAreIdentities
  <2> DEFINE a == scenario.order[p]
             b == NPax + 1
  <2>2. a \in Nat /\ b \in Nat \ {0}
    BY <2>1
  <2> HIDE DEF a, b
  <2>3. (a * 79) \div b \in Int
    BY <2>2
  <2> QED BY <2>3 DEF a, b
<1> HIDE DEF Q, risk
<1>3. 95 - Cardinality(Q) \in Int /\ (IF risk > 1 THEN risk ELSE 1) \in Int
  BY <1>1, <1>2
<1> QED BY <1>3 DEF ConnectionRisk, Q, risk

LEMMA CandidatesMayBoard ==
  ASSUME Ready, NEW v, ViewIsSound(v), NEW f \in Flight, NEW taken
  PROVE  /\ Candidates(v, f, taken) \in Seq(Passenger)
         /\ \A p \in ToSet(Candidates(v, f, taken)) : p \in Passenger /\ f \in Legal(scenario, p)
<1> DEFINE S == {p \in Passenger : f \in Legal(v.sc, p)}
                  \ (Seated(v) \union Pending(v, "rebooking") \union taken)
           key == [p \in Passenger |-> 0 - ConnectionRisk(v.sc, p)]
           s == SortedBy(S, key)
<1>1. v.sc = scenario /\ scenario \in Scenarios
  BY DEF ViewIsSound, Ready
<1>2. \A p \in Passenger : key[p] \in Int
  BY <1>1, RiskIsANumber
<1>3. S \in SUBSET Passenger /\ \A p \in S : f \in Legal(scenario, p)
  BY <1>1
<1>4. Candidates(v, f, taken) = s
  BY DEF Candidates
<1> HIDE DEF S, key
<1>5. s \in Seq(S)
  BY <1>2, <1>3, SortedByIsInOrder
<1> HIDE DEF s
<1>6. s \in Seq(Passenger) /\ \A p \in ToSet(s) : p \in S
  BY <1>3, <1>5 DEF ToSet
<1> QED BY <1>3, <1>4, <1>6

LEMMA SeatsForSomeMayBoard ==
  ASSUME Ready, NEW me \in Agent, NEW f \in Flight, NEW w \in Seq(Passenger), w # <<>>,
         \A p \in ToSet(w) : f \in Legal(scenario, p)
  PROVE  Bid(me, Seat(scenario, f), w) \in BidsOf(me, "seat")
<1>1. /\ Seat(scenario, f) \in Resource /\ Seat(scenario, f).of = f
      /\ Seat(scenario, f).kind = "seat"
      /\ Passenger \subseteq Beneficiary
  BY StormIsTyped DEF Ready
<1>2. w \in Seq(Beneficiary)
  BY <1>1
<1>3. ToSet(w) \subseteq Passenger
  BY DEF ToSet
<1>4. MayBoard(Seat(scenario, f), ToSet(w))
  BY <1>1, <1>3 DEF MayBoard
<1> QED BY <1>1, <1>2, <1>4, BidIsLegal

Wave == [flight : Flight, qty : Int]

LEMMA FillIsLegal ==
  ASSUME Ready, NEW v, ViewIsSound(v), NEW plan \in Seq(Wave)
  PROVE  Fill(v, plan) \in Seq(BidsOf("rebooking", "seat"))
<1> DEFINE len == Len(plan)
           Body(last, n) ==
             LET who == FirstN(Candidates(v, plan[n].flight, last.taken), plan[n].qty)
             IN IF who = <<>> THEN last
                ELSE [bids |-> Append(last.bids,
                                      Bid("rebooking", Seat(v.sc, plan[n].flight), who)),
                      taken |-> last.taken \union ToSet(who)]
           first == [bids |-> <<>>, taken |-> {}]
           S == BidsOf("rebooking", "seat")
           X == [bids : Seq(S), taken : SUBSET Passenger]
           f == CHOOSE g : g = [n \in 0..len |->
                  IF n = 0 THEN [bids |-> <<>>, taken |-> {}]
                  ELSE LET last == g[n - 1]
                           who == FirstN(Candidates(v, plan[n].flight, last.taken), plan[n].qty)
                       IN IF who = <<>> THEN last
                          ELSE [bids |-> Append(last.bids,
                                       Bid("rebooking", Seat(v.sc, plan[n].flight), who)),
                                taken |-> last.taken \union ToSet(who)]]
<1>1. len \in Nat
  OBVIOUS
<1>2. Fill(v, plan) = f[len].bids
  BY DEF Fill
<1>3. f = CHOOSE g : g = [n \in 0..len |-> IF n = 0 THEN first ELSE Body(g[n - 1], n)]
  OBVIOUS
<1>4. first \in X
  OBVIOUS
<1>5. ASSUME NEW last \in X, NEW n \in 1..len PROVE Body(last, n) \in X
  <2> DEFINE fl == plan[n].flight
             c == Candidates(v, fl, last.taken)
             who == FirstN(c, plan[n].qty)
             b == Bid("rebooking", Seat(v.sc, fl), who)
  <2>1. plan[n] \in Wave
    BY ItemIsThere
  <2>2. fl \in Flight /\ plan[n].qty \in Int
    BY <2>1 DEF Wave
  <2> HIDE DEF fl
  <2>3. c \in Seq(Passenger) /\ \A p \in ToSet(c) : fl \in Legal(scenario, p)
    BY <2>2, CandidatesMayBoard
  <2> HIDE DEF c
  <2>4. who \in Seq(Passenger) /\ ToSet(who) \subseteq ToSet(c) /\ ToSet(who) \subseteq Passenger
    BY <2>2, <2>3, FirstNIsAStart
  <2> HIDE DEF who
  <2>5. CASE who = <<>>
    BY <2>5 DEF who, c, fl
  <2>6. CASE who # <<>>
    <3>1. "rebooking" \in Agent /\ v.sc = scenario
      BY RolesAreAgents DEF ViewIsSound
    <3>2. b \in S
      BY <2>2, <2>3, <2>4, <2>6, <3>1, SeatsForSomeMayBoard
    <3> HIDE DEF b
    <3>3. Append(last.bids, b) \in Seq(S) /\ last.taken \union ToSet(who) \in SUBSET Passenger
      BY <3>2, <2>4
    <3>4. [bids |-> Append(last.bids, b), taken |-> last.taken \union ToSet(who)] \in X
      BY <3>3
    <3> QED BY <2>6, <3>4 DEF b, who, c, fl
  <2> QED BY <2>5, <2>6
<1> HIDE DEF f, Body, first, X, len
<1> DEFINE step == [z \in X \X (1..len) |-> Body(z[1], z[2])]
<1>6. step \in [X \X (1..len) -> X]
  BY <1>5
<1>7. PICK g : Unfolds(g, X, first, len, step)
  <2> HIDE DEF step
  <2> QED BY <1>1, <1>4, <1>6, StepsUpTo
<1>8. ASSUME NEW n \in 0..len PROVE g[n] = IF n = 0 THEN first ELSE Body(g[n - 1], n)
  <2>1. CASE n # 0
    <3>1. n - 1 \in 0..len /\ n \in 1..len
      BY <1>1, <2>1
    <3>2. g[n - 1] \in X
      BY <1>7, <3>1 DEF Unfolds
    <3> QED BY <1>7, <2>1, <3>1, <3>2 DEF Unfolds
  <2> QED BY <1>7, <2>1 DEF Unfolds
<1>9. g = [n \in 0..len |-> IF n = 0 THEN first ELSE Body(g[n - 1], n)]
  <2>1. g = [n \in 0..len |-> g[n]]
    BY <1>7 DEF Unfolds
  <2> QED BY <1>8, <2>1
<1>10. f = [n \in 0..len |-> IF n = 0 THEN first ELSE Body(f[n - 1], n)]
  BY <1>3, <1>9
<1>11. f[0] = first /\ \A n \in 1..len : f[n] = Body(f[n - 1], n)
  BY <1>1, <1>10
<1>12. \A n \in 1..len : f[n - 1] \in X => f[n] \in X
  BY <1>5, <1>11
<1>13. f[len] \in X
  <2>1. \A n \in 0..len : f[n] \in X
    BY <1>1, <1>4, <1>11, <1>12, StaysIn
  <2> QED BY <1>1, <2>1
<1> QED BY <1>2, <1>13 DEF X

LEMMA AllFreeIsAWave ==
  ASSUME Ready, NEW v, ViewIsSound(v), NEW f \in Flight
  PROVE  AllFree(v, f) \in Wave /\ AllFree(v, f).qty = v.free[Seat(scenario, f)]
<1>1. v.sc = scenario /\ v.free[Seat(scenario, f)] \in Int
  BY DEF ViewIsSound, Ready
<1> QED BY <1>1 DEF AllFree, Wave

LEMMA UndecidedWavesAreWaves ==
  ASSUME NEW v, NEW x \in Wave
  PROVE  UnlessUndecided(v, x) \in Wave
BY DEF UnlessUndecided, Wave

LEMMA TwoWaves ==
  ASSUME NEW a \in Wave, NEW b \in Wave
  PROVE  <<a, b>> \in Seq(Wave)
OBVIOUS

LEMMA LateWavesAreWaves ==
  ASSUME Ready, NEW v, ViewIsSound(v)
  PROVE  LateWaves(v) \in Seq(Wave)
<1> DEFINE flights == <<"QW519", "QW602", "QW338", "QW258", "QW777">>
           s == [i \in DOMAIN flights |-> UnlessUndecided(v, AllFree(v, flights[i]))]
<1>1. LateWaves(v) = s
  BY DEF LateWaves
<1>2. DOMAIN flights = 1..5 /\ Len(flights) = 5 /\ flights \in Seq(Flight)
  <2>1. /\ "QW519" \in Flight /\ "QW602" \in Flight /\ "QW338" \in Flight
        /\ "QW258" \in Flight /\ "QW777" \in Flight
    BY FlightsAreListed
  <2> QED BY <2>1
<1> HIDE DEF flights
<1>3. ASSUME NEW i \in 1..5 PROVE UnlessUndecided(v, AllFree(v, flights[i])) \in Wave
  <2>1. flights[i] \in Flight
    BY <1>2, ItemIsThere
  <2> QED BY <2>1, AllFreeIsAWave, UndecidedWavesAreWaves
<1>4. s \in [1..5 -> Wave]
  BY <1>2, <1>3
<1> QED BY <1>1, <1>4, MappedIsASequence

TheCrewBid == Bid("rebooking", FerryCrew, <<"C1">>)

LEMMA RebookingIsLegal ==
  ASSUME Ready, NEW v, ViewIsSound(v)
  PROVE  LET s == RebookingProposes(v)
         IN  /\ s \in Seq(Bids)
             /\ \A i \in 1..Len(s) : \/ s[i] \in BidsOf("rebooking", "seat")
                                     \/ v.round = 1 /\ i = 1 /\ s[i] = TheCrewBid
             /\ v.round = 1 => s # <<>> /\ s[1] = TheCrewBid
<1> DEFINE S == BidsOf("rebooking", "seat")
           seats519 == v.free[Seat(v.sc, "QW519")]
           rivals == HeldBy(Rivals(v, "rebooking", Seat(v.sc, "QW519")))
           first == TheCrewBid
           some == [flight |-> "QW519", qty |-> IF seats519 < Wave1 THEN seats519 ELSE Wave1]
           more == [flight |-> "QW519", qty |-> seats519 + Cardinality(rivals)]
<1>0. S \subseteq Bids
  BY DEF BidsOf
<1>1. "QW519" \in Flight /\ "QW441" \in Flight /\ "QW338" \in Flight
  BY FlightsAreListed
<1>2. seats519 \in Int
  BY <1>1 DEF ViewIsSound, Ready
<1>3. Cardinality(rivals) \in Int
  <2>1. \A c \in v.granted : c.holders \subseteq Beneficiary
    BY DEF ViewIsSound, Shown
  <2>2. rivals \subseteq Beneficiary
    BY <2>1 DEF HeldBy, Rivals
  <2> HIDE DEF rivals
  <2> QED BY <2>2, LedgerAssumption, FS_Subset, FS_CardinalityType
<1>4. first \in Bids
  <2> DEFINE w == <<"C1">>
  <2>1. FerryCrew \in Resource /\ FerryCrew.kind = "crew" /\ "C1" \in Beneficiary
    BY StormIsTyped DEF Ready
  <2>2. w \in Seq(Beneficiary) /\ w # <<>>
    BY <2>1, OneIsASequence
  <2> HIDE DEF w
  <2>3. MayBoard(FerryCrew, ToSet(w))
    BY <2>1 DEF MayBoard
  <2>4. Bid("rebooking", FerryCrew, w) \in Bids
    BY <2>1, <2>2, <2>3, RolesAreAgents, BidIsLegal
  <2> QED BY <2>4 DEF w, TheCrewBid
<1> HIDE DEF seats519, rivals, first, S
<1>5. some \in Wave /\ more \in Wave
  BY <1>1, <1>2, <1>3, WaveAssumption DEF Wave
<1> HIDE DEF some, more
<1>6. CASE v.round = 1
  <2> DEFINE plan == <<AllFree(v, "QW441"), some>>
             t == Fill(v, plan)
             h == <<first>>
             s == RebookingProposes(v)
  <2>1. plan \in Seq(Wave)
    BY <1>1, <1>5, AllFreeIsAWave, TwoWaves
  <2>2. s = h \o t
    BY <1>6 DEF RebookingProposes, first, some, seats519, TheCrewBid
  <2> HIDE DEF plan, s
  <2>3. t \in Seq(S)
    BY <2>1, FillIsLegal DEF S
  <2>4. h \in Seq(Bids) /\ Len(h) = 1 /\ h[1] = first
    BY <1>4
  <2> HIDE DEF h, t
  <2>5. t \in Seq(Bids) /\ Len(t) \in Nat
    BY <2>3, <1>0
  <2>6. /\ s \in Seq(Bids) /\ Len(s) = 1 + Len(t) /\ s[1] = first
        /\ \A i \in 1..Len(t) : s[1 + i] = t[i]
    <3>1. /\ h \o t \in Seq(Bids) /\ Len(h \o t) = Len(h) + Len(t)
          /\ \A i \in 1..Len(h) : (h \o t)[i] = h[i]
          /\ \A i \in 1..Len(t) : (h \o t)[Len(h) + i] = t[i]
      <4>1. h \in Seq(Bids) /\ t \in Seq(Bids)
        BY <2>4, <2>5
      <4> QED BY <4>1, JoinedIsASequence
    <3> QED BY <2>2, <2>4, <3>1
  <2>7. ASSUME NEW i \in 1..Len(s), i # 1 PROVE s[i] \in S
    <3>1. i - 1 \in 1..Len(t) /\ 1 + (i - 1) = i
      BY <2>5, <2>6, <2>7
    <3>2. s[i] = t[i - 1]
      BY <2>6, <3>1
    <3> QED BY <2>3, <3>1, <3>2, ItemIsThere
  <2>8. s # <<>>
    BY <2>5, <2>6
  <2> QED BY <1>6, <2>6, <2>7, <2>8 DEF S, s, first
<1>7. ASSUME v.round # 1, NEW plan \in Seq(Wave), RebookingProposes(v) = Fill(v, plan)
      PROVE  /\ RebookingProposes(v) \in Seq(Bids)
             /\ \A i \in 1..Len(RebookingProposes(v)) : RebookingProposes(v)[i] \in S
  <2> DEFINE t == Fill(v, plan)
  <2>1. t \in Seq(S)
    BY FillIsLegal DEF S
  <2> HIDE DEF t
  <2>2. t \in Seq(Bids) /\ \A i \in 1..Len(t) : t[i] \in S
    BY <1>0, <2>1, ItemIsThere
  <2> QED BY <1>7, <2>2 DEF t
<1>8. CASE v.round = 2
  <2> DEFINE plan == <<UnlessUndecided(v, more), AllFree(v, "QW338")>>
  <2>1. plan \in Seq(Wave)
    BY <1>1, <1>5, AllFreeIsAWave, UndecidedWavesAreWaves, TwoWaves
  <2>2. RebookingProposes(v) = Fill(v, plan) /\ v.round # 1
    BY <1>8 DEF RebookingProposes, more, seats519, rivals
  <2> HIDE DEF plan
  <2> QED BY <2>1, <2>2, <1>7 DEF S
<1>9. CASE v.round # 1 /\ v.round # 2
  <2>1. RebookingProposes(v) = Fill(v, LateWaves(v))
    BY <1>9 DEF RebookingProposes
  <2> QED BY <1>9, <2>1, <1>7, LateWavesAreWaves DEF S
<1> QED BY <1>6, <1>8, <1>9

LEMMA ByPlaceIsInOrder ==
  ASSUME NEW S \in SUBSET Passenger
  PROVE  /\ ByPlace(S) \in Seq(S)
         /\ \A x \in S : \E i \in 1..Len(ByPlace(S)) : ByPlace(S)[i] = x
<1> DEFINE key == [p \in S |-> 0]
<1>1. \A p \in S : key[p] \in Int
  OBVIOUS
<1>2. ByPlace(S) = SortedBy(S, key)
  BY DEF ByPlace
<1> HIDE DEF key
<1> QED BY <1>1, <1>2, SortedByIsInOrder

LEMMA EarliestIsThere ==
  ASSUME NEW F \in SUBSET Flight, F # {}
  PROVE  EarliestArrival(F) \in F
         /\ \A g \in F : Timetable[EarliestArrival(F)].arr <= Timetable[g].arr
<1> DEFINE T == {Timetable[f].arr : f \in F}
<1>1. T \in SUBSET Nat /\ T # {}
  <2>1. \A f \in F : Timetable[f].arr \in Nat
    BY FlightsAreListed
  <2>2. T \subseteq Nat
    BY <2>1
  <2>3. PICK f \in F : TRUE
    OBVIOUS
  <2>4. Timetable[f].arr \in T
    BY <2>3
  <2> QED BY <2>2, <2>4
<1>2. PICK n \in T : \A k \in T : n <= k
  BY <1>1, LeastNumber
<1>3. PICK f \in F : n = Timetable[f].arr
  BY <1>2
<1>4. \A g \in F : Timetable[f].arr <= Timetable[g].arr
  BY <1>2, <1>3
<1> QED BY <1>4 DEF EarliestArrival

LEMMA AdvocateIsLegal ==
  ASSUME Ready, NEW v, ViewIsSound(v)
  PROVE  AdvocateProposes(v) \in Seq(BidsOf("advocate", "seat"))
<1> DEFINE S == BidsOf("advocate", "seat")
           W == Flagged({"WCHR"})
           wchr == ByPlace(W)
           med == ByPlace(Flagged({"MED"}))
           um == ByPlace(Flagged({"UM"}))
           wave == med \o um \o <<wchr[1]>>
           M == {p \in SpecialNeeds \ Seated(v) : ~Patient(v, p) /\ Fallbacks(v, p) # {}}
           moved == ByPlace(M)
           late == [i \in DOMAIN moved |->
                      Bid("advocate", Seat(v.sc, EarliestArrival(Fallbacks(v, moved[i]))),
                          <<moved[i]>>)]
           a == Bid("advocate", Seat(v.sc, "QW441"), wave)
           b == Bid("advocate", Seat(v.sc, "QW519"), Tail(wchr))
<1>0. /\ v.sc = scenario /\ "advocate" \in Agent
      /\ "QW441" \in Flight /\ "QW519" \in Flight
      /\ \A p : "QW441" \in Legal(scenario, p) /\ "QW519" \in Legal(scenario, p)
  BY FlightsAreListed, RolesAreAgents, LegalFlightsAreFlights DEF ViewIsSound
<1>1. \A flags : Flagged(flags) \in SUBSET Passenger
  BY DEF Flagged
<1>2. wchr \in Seq(Passenger) /\ med \in Seq(Passenger) /\ um \in Seq(Passenger)
  <2>1. \A flags : ByPlace(Flagged(flags)) \in Seq(Flagged(flags))
    BY <1>1, ByPlaceIsInOrder
  <2>2. \A flags : ByPlace(Flagged(flags)) \in Seq(Passenger)
    BY <1>1, <2>1
  <2> QED BY <2>2
<1>3. Len(wchr) >= 2
  <2>1. PICK p \in W, q \in W : p # q
    BY CastAssumption
  <2>2. \A x \in W : \E i \in 1..Len(wchr) : wchr[i] = x
    BY <1>1, ByPlaceIsInOrder
  <2> HIDE DEF W, wchr
  <2>3. PICK i \in 1..Len(wchr), j \in 1..Len(wchr) : wchr[i] = p /\ wchr[j] = q
    BY <2>2
  <2> QED BY <1>2, <2>1, <2>3
<1>4. AdvocateProposes(v) = IF v.round = 1 THEN <<a, b>> ELSE late
  BY DEF AdvocateProposes
<1> HIDE DEF W, wchr, med, um
<1>5. Tail(wchr) \in Seq(Passenger) /\ Tail(wchr) # <<>>
  <2>1. wchr # <<>>
    BY <1>3
  <2>2. wchr \in Seq(Passenger)
    BY <1>2
  <2>3. Tail(wchr) \in Seq(Passenger) /\ Len(Tail(wchr)) = Len(wchr) - 1 /\ Len(wchr) \in Nat
    BY <2>1, <2>2, FirstAndRest
  <2> DEFINE t == Tail(wchr)
  <2>4. t \in Seq(Passenger) /\ Len(t) >= 1
    BY <1>3, <2>3
  <2> HIDE DEF t
  <2>5. t # <<>>
    BY <2>4
  <2> QED BY <2>4, <2>5 DEF t
<1>6. wave \in Seq(Passenger) /\ wave # <<>>
  <2> DEFINE x == med \o um
             y == <<wchr[1]>>
  <2>1. x \in Seq(Passenger)
    BY <1>2, JoinedIsASequence
  <2>2. y \in Seq(Passenger) /\ Len(y) = 1
    BY <1>2, <1>3
  <2>3. y \in Seq(Passenger)
    BY <2>2
  <2>4. wave = x \o y
    OBVIOUS
  <2> HIDE DEF x, y, wave
  <2>5. wave \in Seq(Passenger) /\ Len(wave) = Len(x) + Len(y)
    BY <2>1, <2>3, <2>4, JoinedIsASequence
  <2> QED BY <2>1, <2>2, <2>5
<1> HIDE DEF wave
<1>7. a \in S /\ b \in S
  BY <1>0, <1>5, <1>6, SeatsForSomeMayBoard
<1>8. late \in Seq(S)
  <2>1. M \in SUBSET Passenger
    BY <1>1 DEF SpecialNeeds
  <2>2. moved \in Seq(M)
    BY <2>1, ByPlaceIsInOrder
  <2>3. \A p \in M : Fallbacks(v, p) # {} /\ Fallbacks(v, p) \subseteq Legal(scenario, p)
    BY <1>0 DEF Fallbacks, SlaFlights
  <2> HIDE DEF M, moved
  <2>4. ASSUME NEW i \in 1..Len(moved)
        PROVE  Bid("advocate", Seat(v.sc, EarliestArrival(Fallbacks(v, moved[i]))),
                   <<moved[i]>>) \in S
    <3> DEFINE p == moved[i]
               F == Fallbacks(v, p)
               w == <<p>>
    <3>1. p \in M /\ p \in Passenger
      BY <2>1, <2>2, ItemIsThere
    <3>2. F # {} /\ F \subseteq Legal(scenario, p) /\ F \subseteq Flight
      BY <2>3, <3>1, LegalFlightsAreFlights
    <3> HIDE DEF F, p
    <3>3. EarliestArrival(F) \in F
      BY <3>2, EarliestIsThere
    <3>4. w \in Seq(Passenger) /\ w # <<>> /\ ToSet(w) = {p}
      BY <3>1, OneIsASequence
    <3> HIDE DEF w
    <3>5. Bid("advocate", Seat(scenario, EarliestArrival(F)), w) \in S
      BY <1>0, <3>2, <3>3, <3>4, SeatsForSomeMayBoard
    <3> QED BY <1>0, <3>5 DEF F, p, w
  <2>5. DOMAIN moved = 1..Len(moved) /\ Len(moved) \in Nat
    BY <2>2
  <2>6. late \in [1..Len(moved) -> S]
    BY <2>4, <2>5
  <2> QED BY <2>5, <2>6, MappedIsASequence
<1> HIDE DEF a, b, late
<1>9. <<a, b>> \in Seq(S)
  BY <1>7
<1> QED BY <1>4, <1>8, <1>9

LEMMA DeparturesAreFlights == ByDeparture \in Seq(Flight)
<1> DEFINE before == {z \in Flight \X Flight : Timetable[z[1]].dep < Timetable[z[2]].dep}
           dep == [f \in Flight |-> Timetable[f].dep]
<1>1. Orders(before, Flight)
  <2>1. /\ \A f \in Flight : dep[f] \in Nat
        /\ \A f, g \in Flight : f # g => dep[f] # dep[g]
    BY FlightsAreListed
  <2>2. before = {z \in Flight \X Flight : dep[z[1]] < dep[z[2]]}
    OBVIOUS
  <2> HIDE DEF before, dep
  <2> QED BY <2>1, <2>2 DEF Orders
<1>2. IsFiniteSet(Flight)
  <2> DEFINE n == Len(FlightsById)
  <2>1. FlightsById \in Seq(Flight) /\ n \in Nat
    BY FlightsAreListed
  <2> HIDE DEF n
  <2>2. DOMAIN FlightsById = 1..n
    BY <2>1 DEF n
  <2>3. FlightsById \in Surjection(1..n, Flight)
    BY <2>1, <2>2 DEF Surjection, Flight, n
  <2>4. IsFiniteSet(1..n)
    BY <2>1, FS_Interval
  <2> QED BY <2>3, <2>4, FS_Surjection
<1>3. ByDeparture = Listed(Flight, before)
  BY DEF ByDeparture
<1> HIDE DEF before
<1> QED BY <1>1, <1>2, <1>3, ListedIsInOrder

Departures == [gate : {Gate(g) : g \in Gates}, flight : Flight]

LEMMA GatePlanIsTyped ==
  ASSUME scenario \in Scenarios
  PROVE  GatePlan(scenario) \in Seq(Departures)
<1> DEFINE n == IF Len(scenario.gates) < Len(ByDeparture)
                THEN Len(scenario.gates) ELSE Len(ByDeparture)
           at(i) == [gate |-> Gate(scenario.gates[i]), flight |-> ByDeparture[i]]
           s == [i \in 1..n |-> at(i)]
<1>1. scenario.gates \in Seq(Gates) /\ ByDeparture \in Seq(Flight)
  BY ScenariosAssumption, DeparturesAreFlights
<1>2. n \in Nat /\ 1..n \subseteq 1..Len(scenario.gates) /\ 1..n \subseteq 1..Len(ByDeparture)
  BY <1>1
<1>3. GatePlan(scenario) = s
  BY DEF GatePlan
<1> HIDE DEF n
<1>4. ASSUME NEW i \in 1..n PROVE at(i) \in Departures
  <2>1. scenario.gates[i] \in Gates
    BY <1>1, <1>2, ItemIsThere
  <2>2. ByDeparture[i] \in Flight
    BY <1>1, <1>2, ItemIsThere
  <2> QED BY <2>1, <2>2 DEF Departures
<1> HIDE DEF at
<1>5. s \in [1..n -> Departures]
  BY <1>4
<1> QED BY <1>2, <1>3, <1>5, MappedIsASequence

LEMMA DepartureBidsAreLegal ==
  ASSUME scenario \in Scenarios, NEW me \in Agent, NEW d \in Departures
  PROVE  Bid(me, d.gate, <<d.flight>>) \in Bids /\ Bid(me, d.gate, <<d.flight>>) \in BidsOf(me, "gate")
<1> DEFINE w == <<d.flight>>
<1>1. d.flight \in Beneficiary /\ d.gate \in Resource /\ d.gate.kind = "gate"
  BY StormIsTyped DEF Departures
<1>2. w \in Seq(Beneficiary) /\ w # <<>>
  BY <1>1, OneIsASequence
<1> HIDE DEF w
<1>3. MayBoard(d.gate, ToSet(w))
  BY <1>1 DEF MayBoard
<1>4. Bid(me, d.gate, w) \in Bids /\ Bid(me, d.gate, w) \in BidsOf(me, "gate")
  BY <1>1, <1>2, <1>3, BidIsLegal
<1> QED BY <1>4 DEF w

LEMMA GateGroundIsLegal ==
  ASSUME Ready, NEW v, ViewIsSound(v)
  PROVE  GateGroundProposes(v) \in Seq(BidsOf("gate_ground", "gate"))
<1> DEFINE S == BidsOf("gate_ground", "gate")
           known == Mine(v.granted \union v.blocked, "gate_ground")
           plan == GatePlan(v.sc)
           open == {i \in DOMAIN plan : \A c \in known : c.wish[1] # plan[i].flight}
           before == {z \in open \X open : z[1] < z[2]}
           next == Listed(open, before)
           at(i) == Bid("gate_ground", plan[next[i]].gate, <<plan[next[i]].flight>>)
           s == [i \in DOMAIN next |-> at(i)]
<1>1. v.sc = scenario /\ scenario \in Scenarios
  BY DEF ViewIsSound, Ready
<1>2. plan \in Seq(Departures)
  BY <1>1, GatePlanIsTyped
<1>3. GateGroundProposes(v) = s
  BY DEF GateGroundProposes
<1> HIDE DEF plan, known
<1>4. DOMAIN plan = 1..Len(plan) /\ Len(plan) \in Nat
  BY <1>2
<1>5. IsFiniteSet(open) /\ open \subseteq 1..Len(plan)
  <2>1. open \subseteq 1..Len(plan)
    BY <1>4
  <2>2. IsFiniteSet(1..Len(plan))
    BY <1>4, FS_Interval
  <2> HIDE DEF open
  <2> QED BY <2>1, <2>2, FS_Subset
<1>6. open \subseteq Nat
  BY <1>4, <1>5
<1> HIDE DEF open
<1>7. Orders(before, open)
  BY <1>6 DEF Orders
<1> HIDE DEF before
<1>8. next \in Seq(open)
  BY <1>5, <1>7, ListedIsInOrder
<1> HIDE DEF next
<1>9. ASSUME NEW i \in 1..Len(next) PROVE at(i) \in S
  <2>1. next[i] \in 1..Len(plan)
    BY <1>5, <1>8, ItemIsThere
  <2>2. plan[next[i]] \in Departures
    BY <1>2, <2>1, ItemIsThere
  <2>3. "gate_ground" \in Agent
    BY RolesAreAgents
  <2> QED BY <1>1, <2>2, <2>3, DepartureBidsAreLegal
<1> HIDE DEF at
<1>10. DOMAIN next = 1..Len(next) /\ Len(next) \in Nat
  BY <1>8
<1>11. s \in [1..Len(next) -> S]
  BY <1>9, <1>10
<1> QED BY <1>3, <1>10, <1>11, MappedIsASequence

LEMMA HotelIsLegal ==
  ASSUME Ready, NEW v, ViewIsSound(v)
  PROVE  HotelProposes(v) \in Seq(BidsOf("hotel", "hotel"))
<1> DEFINE H == BidsOf("hotel", "hotel")
           rooms == HotelBlock(v.sc)
           key == [p \in Passenger |-> PaxPriority(p) * (NPax + 1) + v.sc.order[p]]
           S == Passenger \ (Seated(v) \union Allocated(v, "hotel"))
           stranded == SortedBy(S, key)
           who == FirstN(stranded, v.free[rooms])
<1>1. v.sc = scenario /\ scenario \in Scenarios
  BY DEF ViewIsSound, Ready
<1>2. /\ rooms \in Resource /\ rooms.kind = "hotel" /\ v.free[rooms] \in Int
      /\ Passenger \subseteq Beneficiary
  BY <1>1, StormIsTyped DEF ViewIsSound, Ready
<1>3. \A p \in Passenger : key[p] \in Int
  <2> TAKE p \in Passenger
  <2>1. PaxPriority(p) \in Int /\ NPax \in Int /\ v.sc.order[p] \in Int
    BY <1>1, PrioritiesAreNumbers, PlacesAreIdentities, BookingsAreNumbers
  <2> DEFINE a == PaxPriority(p)
             b == NPax + 1
  <2>2. a \in Int /\ b \in Int
    BY <2>1
  <2> HIDE DEF a, b
  <2>3. a * b \in Int
    BY <2>2
  <2>4. a * b + v.sc.order[p] \in Int
    BY <2>1, <2>3
  <2> QED BY <2>4 DEF a, b
<1>4. HotelProposes(v) = IF v.round < 3 \/ who = <<>> THEN <<>> ELSE <<Bid("hotel", rooms, who)>>
  BY DEF HotelProposes
<1> HIDE DEF key
<1>5. stranded \in Seq(Passenger)
  <2>1. S \in SUBSET Passenger /\ \A p \in S : key[p] \in Int
    BY <1>3
  <2> HIDE DEF S
  <2>2. stranded \in Seq(S)
    BY <2>1, SortedByIsInOrder
  <2> HIDE DEF stranded
  <2> QED BY <2>1, <2>2
<1> HIDE DEF stranded
<1>6. who \in Seq(Passenger)
  BY <1>2, <1>5, FirstNIsAStart
<1> HIDE DEF who
<1>7. who \in Seq(Beneficiary)
  BY <1>2, <1>6
<1>8. ASSUME who # <<>> PROVE Bid("hotel", rooms, who) \in H
  <2>1. MayBoard(rooms, ToSet(who))
    BY <1>2 DEF MayBoard
  <2> QED BY <1>2, <1>7, <1>8, <2>1, RolesAreAgents, BidIsLegal
<1> DEFINE b == Bid("hotel", rooms, who)
<1>9. who # <<>> => b \in H
  BY <1>8
<1> HIDE DEF b
<1>10. who # <<>> => <<b>> \in Seq(H)
  BY <1>9, OneIsASequence
<1>11. <<>> \in Seq(H)
  OBVIOUS
<1> QED BY <1>4, <1>10, <1>11 DEF b

\* What only one of the agents bids for, and when.
InLine(me, first, b) ==
  /\ b.resource.kind = "hotel" => me = "hotel"
  /\ b.resource.kind = "crew" => me = "rebooking" /\ first /\ b = TheCrewBid

\* An agent bids only for passengers who may take the flight; rooms are asked for
\* by the hotel desk, and the ferry by rebooking, before anything else.
LEMMA ProposalsAreLegal ==
  ASSUME Ready, NEW v, ViewIsSound(v), NEW me
  PROVE  LET s == Proposals(me, v)
         IN  /\ s \in Seq(Bids)
             /\ \A i \in 1..Len(s) : InLine(me, v.round = 1 /\ i = 1, s[i])
             /\ v.round = 1 /\ me = "rebooking" => s # <<>>
<1> DEFINE s == Proposals(me, v)
<1>1. CASE s = <<>> /\ me # "rebooking"
  <2>1. s \in Seq(Bids) /\ Len(s) = 0
    BY <1>1
  <2> QED BY <1>1, <2>1
<1>2. ASSUME NEW kind, kind # "crew", kind # "hotel" \/ me = "hotel", s \in Seq(BidsOf(me, kind))
      PROVE  s \in Seq(Bids) /\ \A i \in 1..Len(s) : InLine(me, v.round = 1 /\ i = 1, s[i])
  <2> HIDE DEF s
  <2>1. s \in Seq(Bids)
    BY <1>2 DEF BidsOf
  <2>2. ASSUME NEW i \in 1..Len(s) PROVE s[i].resource.kind = kind
    <3>1. s[i] \in BidsOf(me, kind)
      BY <1>2, ItemIsThere
    <3> QED BY <3>1 DEF BidsOf
  <2> QED BY <1>2, <2>1, <2>2 DEF InLine
<1>3. CASE me = "rebooking"
  <2>1. s = RebookingProposes(v)
    BY <1>3 DEF Proposals
  <2> HIDE DEF s
  <2>2. /\ s \in Seq(Bids)
        /\ \A i \in 1..Len(s) : \/ s[i] \in BidsOf("rebooking", "seat")
                                \/ v.round = 1 /\ i = 1 /\ s[i] = TheCrewBid
        /\ v.round = 1 => s # <<>>
    BY <2>1, RebookingIsLegal
  <2>3. TheCrewBid.resource.kind = "crew"
    BY DEF TheCrewBid, Bid, FerryCrew
  <2>4. \A i \in 1..Len(s) : InLine(me, v.round = 1 /\ i = 1, s[i])
    BY <1>3, <2>2, <2>3 DEF InLine, BidsOf
  <2> QED BY <2>2, <2>4 DEF s
<1>4. CASE me = "advocate"
  BY <1>2, <1>4, AdvocateIsLegal DEF Proposals
<1>5. CASE me = "gate_ground"
  BY <1>2, <1>5, GateGroundIsLegal DEF Proposals
<1>6. CASE me = "hotel"
  BY <1>2, <1>6, HotelIsLegal DEF Proposals
<1> QED BY <1>1, <1>3, <1>4, <1>5, <1>6 DEF Proposals
-----------------------------------------------------------------------------
(* The role agents: their positions are on claims there are *)

LEMMA SomeRecords ==
  ASSUME NEW v, ViewIsSound(v), NEW S, S \subseteq v.granted \/ S \subseteq v.blocked
  PROVE  /\ S \subseteq Shown /\ IsFiniteSet(S) /\ OneRecordPerId(S)
         /\ \A c \in S : c.id \in ClaimId /\ c.agent \in Agent /\ c.holders \subseteq Beneficiary
<1>1. S \subseteq Shown /\ IsFiniteSet(S)
  BY FS_Subset DEF ViewIsSound
<1>2. OneRecordPerId(S)
  BY DEF ViewIsSound, OneRecordPerId
<1> QED BY <1>1, <1>2 DEF Shown

LEMMA LargestIsThere ==
  ASSUME NEW v, ViewIsSound(v), NEW S, S \subseteq v.granted, S # {}
  PROVE  Largest(S) \in S
<1> DEFINE size == [c \in S |-> Cardinality(c.holders)]
           before == {z \in S \X S : \/ size[z[1]] > size[z[2]]
                                     \/ size[z[1]] = size[z[2]] /\ z[1].id < z[2].id}
<1>1. IsFiniteSet(S) /\ OneRecordPerId(S) /\ \A c \in S : c.holders \subseteq Beneficiary
  BY SomeRecords
<1>2. \A c \in S : size[c] \in Nat
  BY <1>1, LedgerAssumption, FS_Subset, FS_CardinalityType
<1>3. Orders(before, S)
  <2> HIDE DEF size
  <2> QED BY <1>1, <1>2 DEF Orders, OneRecordPerId
<1> DEFINE First(c) == \A d \in S :
             LET m == Cardinality(c.holders)
                 n == Cardinality(d.holders)
             IN m > n \/ (m = n /\ c.id <= d.id)
<1>4. \E c \in S : First(c)
  <2> HIDE DEF before
  <2>1. PICK c \in S : \A d \in S : d = c \/ <<c, d>> \in before
    BY <1>1, <1>3, OneIsFirst
  <2>2. ASSUME NEW d \in S PROVE size[c] > size[d] \/ (size[c] = size[d] /\ c.id <= d.id)
    <3>1. c.id \in Nat /\ d.id \in Nat
      BY <1>1 DEF OneRecordPerId
    <3> HIDE DEF size
    <3>2. CASE d = c
      BY <3>1, <3>2
    <3>3. CASE <<c, d>> \in before
      BY <3>1, <3>3 DEF before
    <3> QED BY <2>1, <3>2, <3>3
  <2> QED BY <2>2
<1>5. Largest(S) = CHOOSE c \in S : First(c)
  BY DEF Largest
<1> HIDE DEF First
<1> QED BY <1>4, <1>5

LEMMA ContestsAreTyped ==
  ASSUME NEW v, ViewIsSound(v), NEW me \in Agent, NEW r
  PROVE  ContestARival(v, me, r) \in Seq(Notes)
<1> DEFINE rivals == {c \in Rivals(v, me, r) : ~IContest(v, me, c.id)}
           p == Take(me, "block", Largest(rivals).id, {})
<1>1. rivals \subseteq v.granted
  BY DEF Rivals
<1>2. ContestARival(v, me, r) = <<>> \/ (rivals # {} /\ ContestARival(v, me, r) = <<p>>)
  BY DEF ContestARival
<1> HIDE DEF rivals
<1>3. rivals # {} => p \in Notes
  <2>1. rivals # {} => Largest(rivals).id \in ClaimId
    BY <1>1, LargestIsThere, SomeRecords
  <2> QED BY <2>1, StandIsTyped DEF Notes, Take
<1> HIDE DEF p
<1>4. rivals # {} => <<p>> \in Seq(Notes)
  BY <1>3, OneIsASequence
<1>5. <<>> \in Seq(Notes)
  OBVIOUS
<1> QED BY <1>2, <1>4, <1>5

\* One position on each of some claims.
OneOnEach(S, me, stance, release) ==
  [i \in DOMAIN ById(S) |-> Take(me, stance, ById(S)[i].id, release[ById(S)[i]])]

LEMMA OneOnEachIsTyped ==
  ASSUME NEW v, ViewIsSound(v), NEW S, S \subseteq v.granted, NEW me \in Agent,
         NEW stance \in {"support", "block", "yield"}, NEW release \in [S -> SUBSET Beneficiary]
  PROVE  LET p == OneOnEach(S, me, stance, release)
         IN  /\ p \in Seq(Stands) /\ (stance # "yield" => p \in Seq(Notes))
             /\ \A i \in 1..Len(p) : \E c \in S : p[i] = Take(me, stance, c.id, release[c])
             /\ \A c \in S : \E i \in 1..Len(p) : p[i] = Take(me, stance, c.id, release[c])
             /\ \A i, j \in 1..Len(p) : p[i].target = p[j].target => i = j
<1> DEFINE s == ById(S)
           p == OneOnEach(S, me, stance, release)
           at(c) == Take(me, stance, c.id, release[c])
<1>1. IsFiniteSet(S) /\ OneRecordPerId(S) /\ \A c \in S : c.id \in ClaimId
  BY SomeRecords
<1>2. /\ s \in Seq(S) /\ \A c \in S : \E i \in 1..Len(s) : s[i] = c
      /\ \A i, j \in 1..Len(s) : s[i] = s[j] => i = j
  BY <1>1, ByIdIsInOrder
<1>3. p = [i \in DOMAIN s |-> at(s[i])]
  BY DEF OneOnEach
<1> HIDE DEF s, p
<1>4. DOMAIN s = 1..Len(s) /\ Len(s) \in Nat /\ \A i \in 1..Len(s) : s[i] \in S
  BY <1>2
<1>5. ASSUME NEW c \in S
      PROVE  at(c) \in Stands /\ at(c).target = c.id /\ (stance # "yield" => at(c) \in Notes)
  <2>1. c.id \in ClaimId /\ release[c] \in SUBSET Beneficiary
    BY <1>1
  <2> QED BY <2>1, StandIsTyped DEF Take, Notes
<1> HIDE DEF at
<1>6. p = [i \in 1..Len(s) |-> at(s[i])]
  BY <1>3, <1>4
<1>7. p \in [1..Len(s) -> Stands] /\ (stance # "yield" => p \in [1..Len(s) -> Notes])
  BY <1>4, <1>5, <1>6
<1>8. p \in Seq(Stands) /\ Len(p) = Len(s) /\ (stance # "yield" => p \in Seq(Notes))
  BY <1>4, <1>7, MappedIsASequence
<1>9. \A i \in 1..Len(p) : s[i] \in S /\ p[i] = at(s[i])
  BY <1>4, <1>6, <1>8
<1>10. \A c \in S : \E i \in 1..Len(p) : p[i] = at(c)
  BY <1>2, <1>8, <1>9
<1>11. ASSUME NEW i \in 1..Len(p), NEW j \in 1..Len(p), p[i].target = p[j].target PROVE i = j
  <2>1. s[i].id = s[j].id /\ s[i] \in S /\ s[j] \in S
    BY <1>5, <1>9, <1>11
  <2>2. s[i] = s[j]
    BY <1>1, <2>1 DEF OneRecordPerId
  <2> QED BY <1>2, <1>8, <2>2
<1> QED BY <1>8, <1>9, <1>10, <1>11 DEF at, p

VetoesEach(S, me, s) ==
  /\ s \in Seq(Notes)
  /\ \A i \in 1..Len(s) : \E c \in S : s[i] = Take(me, "block", c.id, {})
  /\ \A c \in S : \E i \in 1..Len(s) : s[i] = Take(me, "block", c.id, {})

LEMMA VetosAreTyped ==
  ASSUME NEW v, ViewIsSound(v), NEW S, S \subseteq v.granted, NEW me \in Agent
  PROVE  VetoesEach(S, me, Veto(me, S))
<1> DEFINE release == [c \in S |-> {}]
           s == ById(S)
           at(c) == Take(me, "block", c.id, {})
           p == OneOnEach(S, me, "block", release)
<1>0. IsFiniteSet(S) /\ OneRecordPerId(S)
  BY SomeRecords
<1>1. s \in Seq(S)
  BY <1>0, ByIdIsInOrder
<1>2. Veto(me, S) = [i \in DOMAIN s |-> at(s[i])]
  BY DEF Veto
<1>3. p = [i \in DOMAIN s |-> Take(me, "block", s[i].id, release[s[i]])]
  BY DEF OneOnEach
<1>4. release \in [S -> SUBSET Beneficiary] /\ \A c \in S : release[c] = {}
  OBVIOUS
<1> HIDE DEF release, s, p
<1>5. \A i \in DOMAIN s : s[i] \in S
  BY <1>1
<1>6. Veto(me, S) = p
  BY <1>2, <1>3, <1>4, <1>5
<1>7. /\ p \in Seq(Notes)
      /\ \A i \in 1..Len(p) : \E c \in S : p[i] = Take(me, "block", c.id, release[c])
      /\ \A c \in S : \E i \in 1..Len(p) : p[i] = Take(me, "block", c.id, release[c])
  <2>1. "block" \in {"support", "block", "yield"} /\ "block" # "yield"
    OBVIOUS
  <2> HIDE DEF OneOnEach
  <2>2. LET q == OneOnEach(S, me, "block", release)
        IN  /\ q \in Seq(Stands) /\ ("block" # "yield" => q \in Seq(Notes))
            /\ \A i \in 1..Len(q) : \E c \in S : q[i] = Take(me, "block", c.id, release[c])
            /\ \A c \in S : \E i \in 1..Len(q) : q[i] = Take(me, "block", c.id, release[c])
            /\ \A i, j \in 1..Len(q) : q[i].target = q[j].target => i = j
    BY <1>4, <2>1, OneOnEachIsTyped, Zenon
  <2> QED BY <2>1, <2>2 DEF p
<1>8. \A i \in 1..Len(p) : \E c \in S : p[i] = Take(me, "block", c.id, {})
  <2> TAKE i \in 1..Len(p)
  <2>1. PICK c \in S : p[i] = Take(me, "block", c.id, release[c])
    BY <1>7
  <2> QED BY <2>1, <1>4
<1>9. \A c \in S : \E i \in 1..Len(p) : p[i] = Take(me, "block", c.id, {})
  <2> TAKE c \in S
  <2>1. PICK i \in 1..Len(p) : p[i] = Take(me, "block", c.id, release[c])
    BY <1>7
  <2> QED BY <2>1, <1>4
<1>10. VetoesEach(S, me, p)
  BY <1>7, <1>8, <1>9, Zenon DEF VetoesEach
<1> QED BY <1>6, <1>10

LEMMA RebookingRespondsTyped ==
  ASSUME NEW v, ViewIsSound(v)
  PROVE  RebookingResponds(v) \in Seq(Notes)
<1> DEFINE S == {c \in Mine(v.granted, "rebooking") : \E x \in v.contests : x.target = c.id}
           s == ById(S)
           release == [c \in S |-> {}]
           p == [i \in DOMAIN s |-> Take("rebooking", "support", s[i].id, {})]
           q == ContestARival(v, "rebooking", Seat(v.sc, "QW519"))
<1>0. "rebooking" \in Agent
  BY RolesAreAgents
<1>1. RebookingResponds(v) = q \o p
  BY DEF RebookingResponds
<1>2. S \subseteq v.granted
  BY DEF Mine
<1> HIDE DEF S
<1>3. IsFiniteSet(S) /\ OneRecordPerId(S)
  BY <1>2, SomeRecords
<1>4. s \in Seq(S)
  BY <1>3, ByIdIsInOrder
<1>5. release \in [S -> SUBSET Beneficiary] /\ \A c \in S : release[c] = {}
  OBVIOUS
<1>6. OneOnEach(S, "rebooking", "support", release) =
        [i \in DOMAIN s |-> Take("rebooking", "support", s[i].id, release[s[i]])]
  BY DEF OneOnEach
<1> HIDE DEF release, s
<1>7. \A i \in DOMAIN s : s[i] \in S
  BY <1>4
<1>8. p = OneOnEach(S, "rebooking", "support", release)
  BY <1>5, <1>6, <1>7
<1> HIDE DEF p
<1>9. p \in Seq(Notes)
  BY <1>0, <1>2, <1>5, <1>8, OneOnEachIsTyped
<1>10. q \in Seq(Notes)
  BY <1>0, ContestsAreTyped
<1> HIDE DEF q
<1> QED BY <1>1, <1>9, <1>10, JoinedIsASequence

IllegalCrew(v) ==
  {c \in CrewClaims(v, "crew_legality") : v.sc.duty[c.wish[1]] < FerryRequiredDuty}

\* Every claim on a crew that may not fly is vetoed, and no other claim is contested.
LEMMA CrewLegalityRespondsTyped ==
  ASSUME NEW v, ViewIsSound(v)
  PROVE  LET p == CrewLegalityResponds(v)
         IN  /\ p \in Seq(Notes)
             /\ \A i \in 1..Len(p) : p[i].stance = "block" => \E c \in IllegalCrew(v) : p[i].target = c.id
             /\ \A c \in IllegalCrew(v) : \E i \in 1..Len(p) : p[i].stance = "block" /\ p[i].target = c.id
<1> DEFINE disputed == {c \in v.blocked : c.agent = "advocate" /\ c.resource = Seat(v.sc, "QW441")}
           S == IllegalCrew(v)
           p == Take("crew_legality", "support", FirstOf(disputed).id, {})
           a == Veto("crew_legality", S)
           b == IF disputed # {} /\ \E x \in v.contests : x.agent = "advocate" THEN <<p>> ELSE <<>>
           r == CrewLegalityResponds(v)
<1>0. "crew_legality" \in Agent
  BY RolesAreAgents
<1>1. r = a \o b
  BY DEF CrewLegalityResponds, IllegalCrew
<1>2. S \subseteq v.granted /\ disputed \subseteq v.blocked
  BY DEF CrewClaims, IllegalCrew
<1> HIDE DEF S, disputed, r
<1>3. /\ a \in Seq(Notes)
      /\ \A i \in 1..Len(a) : \E c \in S : a[i] = Take("crew_legality", "block", c.id, {})
      /\ \A c \in S : \E i \in 1..Len(a) : a[i] = Take("crew_legality", "block", c.id, {})
  <2>1. VetoesEach(S, "crew_legality", a)
    BY <1>0, <1>2, VetosAreTyped
  <2> QED BY <2>1 DEF VetoesEach
<1>4. disputed # {} => p \in Notes
  <2>1. IsFiniteSet(disputed) /\ OneRecordPerId(disputed) /\ \A c \in disputed : c.id \in ClaimId
    BY <1>2, SomeRecords
  <2>2. disputed # {} => FirstOf(disputed).id \in ClaimId
    BY <2>1, FirstOfIsThere
  <2> QED BY <1>0, <2>2, StandIsTyped DEF Notes, Take
<1>5. p.stance = "support"
  BY DEF Take
<1> HIDE DEF p, a
<1>6. b \in Seq(Notes) /\ \A i \in 1..Len(b) : b[i].stance = "support"
  <2>1. disputed # {} => <<p>> \in Seq(Notes) /\ Len(<<p>>) = 1 /\ <<p>>[1] = p
    BY <1>4, OneIsASequence
  <2>2. <<>> \in Seq(Notes) /\ Len(<<>>) = 0
    OBVIOUS
  <2> QED BY <1>5, <2>1, <2>2
<1> HIDE DEF b
<1>7. Len(a) \in Nat /\ Len(b) \in Nat
  BY <1>3, <1>6
<1>8. /\ r \in Seq(Notes) /\ Len(r) = Len(a) + Len(b)
      /\ \A i \in 1..Len(a) : r[i] = a[i] /\ i \in 1..Len(r)
      /\ \A i \in 1..Len(b) : r[Len(a) + i] = b[i]
  BY <1>1, <1>3, <1>6, <1>7, JoinedIsASequence
<1>9. ASSUME NEW i \in 1..Len(r), r[i].stance = "block" PROVE \E c \in S : r[i].target = c.id
  <2>1. i \in 1..Len(a)
    <3> SUFFICES ASSUME i \notin 1..Len(a) PROVE FALSE
      OBVIOUS
    <3>1. i - Len(a) \in 1..Len(b) /\ Len(a) + (i - Len(a)) = i
      BY <1>7, <1>8
    <3>2. r[i] = b[i - Len(a)]
      BY <1>8, <3>1
    <3> QED BY <1>6, <1>9, <3>1, <3>2
  <2>2. PICK c \in S : a[i] = Take("crew_legality", "block", c.id, {})
    BY <1>3, <2>1
  <2> QED BY <1>8, <2>1, <2>2 DEF Take
<1>10. ASSUME NEW c \in S PROVE \E i \in 1..Len(r) : r[i].stance = "block" /\ r[i].target = c.id
  <2>1. PICK i \in 1..Len(a) : a[i] = Take("crew_legality", "block", c.id, {})
    BY <1>3
  <2> QED BY <1>8, <2>1 DEF Take
<1> QED BY <1>8, <1>9, <1>10 DEF S, r

\* Rooms that the hotel desk holds for somebody who has a seat.
Lodged(v) == {c \in Mine(v.granted, "hotel") : c.holders \intersect Seated(v) # {}}

\* For each of them the desk gives back what the seated hold of it.
LEMMA HotelRespondsTyped ==
  ASSUME NEW v, ViewIsSound(v)
  PROVE  LET p == HotelResponds(v)
         IN  /\ p \in Seq(Stands)
             /\ \A i \in 1..Len(p) : \E c \in Lodged(v) :
                  p[i] = Take("hotel", "yield", c.id, c.holders \intersect Seated(v))
             /\ \A c \in Lodged(v) : \E i \in 1..Len(p) :
                  p[i] = Take("hotel", "yield", c.id, c.holders \intersect Seated(v))
             /\ \A i, j \in 1..Len(p) : p[i].target = p[j].target => i = j
<1> DEFINE S == Lodged(v)
           s == ById(S)
           release == [c \in S |-> c.holders \intersect Seated(v)]
           p == HotelResponds(v)
<1>0. "hotel" \in Agent
  BY RolesAreAgents
<1>1. p = [i \in DOMAIN s |-> Take("hotel", "yield", s[i].id, s[i].holders \intersect Seated(v))]
  BY DEF HotelResponds, Lodged
<1>2. S \subseteq v.granted
  BY DEF Mine, Lodged
<1> HIDE DEF S, p
<1>3. IsFiniteSet(S) /\ OneRecordPerId(S) /\ \A c \in S : c.holders \subseteq Beneficiary
  BY <1>2, SomeRecords
<1>4. s \in Seq(S)
  BY <1>3, ByIdIsInOrder
<1>5. /\ release \in [S -> SUBSET Beneficiary]
      /\ \A c \in S : release[c] = c.holders \intersect Seated(v)
  BY <1>3
<1>6. OneOnEach(S, "hotel", "yield", release) =
        [i \in DOMAIN s |-> Take("hotel", "yield", s[i].id, release[s[i]])]
  BY DEF OneOnEach
<1> HIDE DEF release, s
<1>7. \A i \in DOMAIN s : s[i] \in S
  BY <1>4
<1>8. p = OneOnEach(S, "hotel", "yield", release)
  BY <1>1, <1>5, <1>6, <1>7
<1>9. /\ p \in Seq(Stands)
      /\ \A i \in 1..Len(p) : \E c \in S : p[i] = Take("hotel", "yield", c.id, release[c])
      /\ \A c \in S : \E i \in 1..Len(p) : p[i] = Take("hotel", "yield", c.id, release[c])
      /\ \A i, j \in 1..Len(p) : p[i].target = p[j].target => i = j
  <2>1. "yield" \in {"support", "block", "yield"}
    OBVIOUS
  <2> HIDE DEF OneOnEach
  <2>2. LET q == OneOnEach(S, "hotel", "yield", release)
        IN  /\ q \in Seq(Stands) /\ ("yield" # "yield" => q \in Seq(Notes))
            /\ \A i \in 1..Len(q) : \E c \in S : q[i] = Take("hotel", "yield", c.id, release[c])
            /\ \A c \in S : \E i \in 1..Len(q) : q[i] = Take("hotel", "yield", c.id, release[c])
            /\ \A i, j \in 1..Len(q) : q[i].target = q[j].target => i = j
    BY <1>0, <1>2, <1>5, <2>1, OneOnEachIsTyped, Zenon
  <2> QED BY <1>8, <2>2, Zenon
<1>10. \A i \in 1..Len(p) : \E c \in S :
         p[i] = Take("hotel", "yield", c.id, c.holders \intersect Seated(v))
  <2> TAKE i \in 1..Len(p)
  <2>1. PICK c \in S : p[i] = Take("hotel", "yield", c.id, release[c])
    BY <1>9
  <2> QED BY <2>1, <1>5
<1>11. \A c \in S : \E i \in 1..Len(p) :
         p[i] = Take("hotel", "yield", c.id, c.holders \intersect Seated(v))
  <2> TAKE c \in S
  <2>1. PICK i \in 1..Len(p) : p[i] = Take("hotel", "yield", c.id, release[c])
    BY <1>9
  <2> QED BY <2>1, <1>5
<1> QED BY <1>9, <1>10, <1>11, Zenon DEF S, p

LEMMA PositionsAreTyped ==
  ASSUME NEW v, ViewIsSound(v),
         NEW me \in {"rebooking", "crew_legality", "gate_ground", "hotel", "advocate"}
  PROVE  /\ Positions(me, v) \in Seq(Stands)
         /\ me # "hotel" => Positions(me, v) \in Seq(Notes)
<1>1. me \in Agent
  BY RolesAreAgents
<1>2. AdvocateResponds(v) \in Seq(Notes)
  BY ContestsAreTyped, RolesAreAgents DEF AdvocateResponds
<1>3. GateGroundResponds(v) \in Seq(Notes)
  <2>1. CrewClaims(v, "gate_ground") \subseteq v.granted
    BY DEF CrewClaims
  <2> QED BY <2>1, VetosAreTyped, RolesAreAgents DEF GateGroundResponds, VetoesEach
<1>4. me # "hotel" => Positions(me, v) \in Seq(Notes)
  BY <1>2, <1>3, RebookingRespondsTyped, CrewLegalityRespondsTyped DEF Positions
<1>5. me = "hotel" => Positions(me, v) \in Seq(Stands)
  BY HotelRespondsTyped DEF Positions
<1>6. Seq(Notes) \subseteq Seq(Stands)
  <2>1. Notes \subseteq Stands
    BY DEF Notes
  <2> QED BY <2>1
<1> QED BY <1>4, <1>5, <1>6
-----------------------------------------------------------------------------
(* The duty manager: its operations are on claims there are, for whom they   *)
(* may be for                                                                *)

LEMMA OpIsLegal ==
  ASSUME NEW c \in ClaimId, NEW bens \in SUBSET Beneficiary
  PROVE  /\ \A op \in {"revoke", "void"} : Op(op, c, bens) \in Ops
         /\ claims[c].status # "absent" /\ MayBoard(claims[c].resource, bens)
              => Op("grant", c, bens) \in Ops
BY DEF Op, Ops

LEMMA MostProtectedIsANumber ==
  ASSUME NEW c \in Shown
  PROVE  MostProtected(c) \in Nat
<1> DEFINE at == [i \in DOMAIN c.wish |-> Protection(c.wish[i])]
           T == {at[i] : i \in DOMAIN c.wish}
<1>1. \A b : Protection(b) \in Nat
  BY PrioritiesAreNumbers DEF Protection
<1>2. \A i \in DOMAIN c.wish : at[i] \in Nat
  BY <1>1
<1>3. c.wish \in Seq(Beneficiary) /\ c.wish # <<>>
  BY DEF Shown
<1>4. 1 \in DOMAIN c.wish
  BY <1>3
<1>5. MostProtected(c) = Min(T)
  BY DEF MostProtected
<1> HIDE DEF at
<1>6. T \in SUBSET Nat /\ T # {}
  BY <1>2, <1>4
<1> HIDE DEF T
<1>7. PICK n \in T : \A k \in T : n <= k
  BY <1>6, LeastNumber
<1>8. Min(T) \in T
  BY <1>7 DEF Min
<1> QED BY <1>5, <1>6, <1>8

LEMMA ByProtectionIsOnce ==
  ASSUME NEW S, S \subseteq Shown, IsFiniteSet(S), OneRecordPerId(S)
  PROVE  LET s == ByProtection(S)
         IN  /\ s \in Seq(S) /\ Len(s) = Cardinality(S)
             /\ \A x \in S : \E i \in 1..Len(s) : s[i] = x
             /\ \A i, j \in 1..Len(s) : s[i] = s[j] => i = j
<1> DEFINE best == [c \in S |-> MostProtected(c)]
           before == {z \in S \X S : \/ best[z[1]] < best[z[2]]
                                     \/ best[z[1]] = best[z[2]] /\ z[1].id < z[2].id}
           s == ByProtection(S)
<1>1. \A c \in S : best[c] \in Nat
  BY MostProtectedIsANumber
<1>2. Orders(before, S)
  <2> HIDE DEF best
  <2> QED BY <1>1 DEF Orders, OneRecordPerId
<1>3. s = Listed(S, before)
  BY DEF ByProtection
<1> HIDE DEF before, s
<1>4. /\ s \in Seq(S) /\ Len(s) = Cardinality(S)
      /\ \A x \in S : \E i \in 1..Len(s) : s[i] = x
      /\ \A i, j \in 1..Len(s) : i < j <=> <<s[i], s[j]>> \in before
  BY <1>2, <1>3, ListedIsInOrder
<1>5. ASSUME NEW i \in 1..Len(s), NEW j \in 1..Len(s), s[i] = s[j] PROVE i = j
  <2>1. i \in Int /\ j \in Int /\ s[i] \in S
    BY <1>4
  <2>2. ~(i < j) /\ ~(j < i)
    BY <1>2, <1>4, <1>5, <2>1 DEF Orders
  <2> QED BY <2>1, <2>2
<1> QED BY <1>4, <1>5 DEF s

LEMMA VoidsAreLegal ==
  ASSUME NEW v, ViewIsSound(v), NEW S, S \subseteq v.granted
  PROVE  Voids(S) \in Seq(Ops)
<1> DEFINE s == ById(S)
           at(i) == Op("void", s[i].id, {})
           p == [i \in DOMAIN s |-> at(i)]
<1>1. Voids(S) = p
  BY DEF Voids
<1>2. IsFiniteSet(S) /\ OneRecordPerId(S) /\ \A c \in S : c.id \in ClaimId
  BY SomeRecords
<1>3. s \in Seq(S)
  BY <1>2, ByIdIsInOrder
<1> HIDE DEF s
<1>4. DOMAIN s = 1..Len(s) /\ Len(s) \in Nat
  BY <1>3
<1>5. ASSUME NEW i \in 1..Len(s) PROVE at(i) \in Ops
  <2>1. s[i].id \in ClaimId
    BY <1>2, <1>3, ItemIsThere
  <2> QED BY <2>1, OpIsLegal
<1> HIDE DEF at
<1>6. p \in [1..Len(s) -> Ops]
  BY <1>4, <1>5
<1> QED BY <1>1, <1>4, <1>6, MappedIsASequence

LEMMA PartiesAreAgents ==
  ASSUME NEW v, ViewIsSound(v), NEW S, S \subseteq v.granted
  PROVE  Claiming(S) \subseteq Agent /\ Contesting(v, S) \subseteq Agent
<1>1. \A c \in S : c.agent \in Agent
  BY SomeRecords
<1>2. \A c : Contesters(v, c) \subseteq Agent
  BY DEF Contesters, ViewIsSound
<1> QED BY <1>1, <1>2 DEF Claiming, Contesting

LEMMA CrewRulingsAreLegal ==
  ASSUME NEW v, ViewIsSound(v), NEW c
  PROVE  RuleCrew(c, v).ops \in Seq(Ops)
<1>1. Illegal(v, Named(CrewRecords(v), c)) \subseteq v.granted
  BY DEF Illegal, Named, CrewRecords
<1> QED BY <1>1, VoidsAreLegal DEF RuleCrew
-----------------------------------------------------------------------------
(* Who may be bumped *)

Exposed == [pax : Passenger, claim : ClaimId, agent : Agent]

LEMMA HoldersAreExposed ==
  ASSUME NEW v, ViewIsSound(v), NEW b \in v.blocked, b.resource.kind = "seat"
  PROVE  /\ HoldersAgainst(v, b) \subseteq Exposed
         /\ IsFiniteSet(HoldersAgainst(v, b))
         /\ \A x, y \in HoldersAgainst(v, b) : x.pax = y.pax /\ x.claim = y.claim => x = y
<1> DEFINE H == HoldersAgainst(v, b)
           G == {d \in v.granted : d.resource = b.resource /\ d.agent # b.agent}
           f == [x \in H |-> <<x.pax, x.claim>>]
<1>1. G \subseteq Shown /\ OneRecordPerId(G)
  BY SomeRecords
<1>2. \A c \in G : c.holders \subseteq Passenger /\ c.id \in ClaimId /\ c.agent \in Agent
  BY <1>1 DEF Shown, MayBoard
<1>3. H = UNION {[pax : c.holders, claim : {c.id}, agent : {c.agent}] : c \in G}
  BY DEF HoldersAgainst
<1> HIDE DEF G, H
<1>4. \A x \in H : \E c \in G : x \in [pax : c.holders, claim : {c.id}, agent : {c.agent}]
  BY <1>3
<1>5. H \subseteq Exposed
  BY <1>2, <1>4 DEF Exposed
<1>6. ASSUME NEW x \in H, NEW y \in H, x.pax = y.pax, x.claim = y.claim
      PROVE  x = y
  <2>1. PICK c \in G : x \in [pax : c.holders, claim : {c.id}, agent : {c.agent}]
    BY <1>4
  <2>2. PICK d \in G : y \in [pax : d.holders, claim : {d.id}, agent : {d.agent}]
    BY <1>4
  <2>3. c = d
    BY <1>1, <1>6, <2>1, <2>2 DEF OneRecordPerId
  <2> QED BY <1>6, <2>1, <2>2, <2>3
<1>7. IsFiniteSet(H)
  <2>0. IsFiniteSet(ClaimId)
    BY LedgerAssumption, FS_Interval DEF ClaimId
  <2>1. IsFiniteSet(Passenger \X ClaimId)
    BY <2>0, PassengersAreFinite, FS_Product
  <2>2. f \in [H -> Passenger \X ClaimId]
    BY <1>5 DEF Exposed
  <2>3. \A x, y \in H : f[x] = f[y] => x = y
    BY <1>6
  <2> HIDE DEF f
  <2>4. f \in Injection(H, Passenger \X ClaimId)
    BY <2>2, <2>3 DEF Injection, IsInjective
  <2> QED BY <2>1, <2>4, FS_Injection
<1> QED BY <1>5, <1>6, <1>7 DEF H

LEMMA ByExposureIsInOrder ==
  ASSUME NEW S, S \subseteq Exposed, IsFiniteSet(S),
         \A x, y \in S : x.pax = y.pax /\ x.claim = y.claim => x = y
  PROVE  LET s == ByExposure(S)
         IN  /\ s \in Seq(S) /\ Len(s) = Cardinality(S)
             /\ \A x \in S : \E i \in 1..Len(s) : s[i] = x
<1> DEFINE rank == [x \in S |-> PaxPriority(x.pax)]
           place == [x \in S |-> Place[x.pax]]
           before == {z \in S \X S :
             \/ rank[z[1]] > rank[z[2]]
             \/ rank[z[1]] = rank[z[2]] /\ z[1].claim < z[2].claim
             \/ rank[z[1]] = rank[z[2]] /\ z[1].claim = z[2].claim /\ place[z[1]] > place[z[2]]}
<1>1. \A x \in S : rank[x] \in Nat /\ place[x] \in Nat /\ x.claim \in Nat
  BY PrioritiesAreNumbers, PlacesAreIdentities DEF Exposed, ClaimId
<1>2. \A x, y \in S : x # y => x.claim # y.claim \/ place[x] # place[y]
  BY PlacesAreIdentities DEF Exposed
<1>3. ByExposure(S) = Listed(S, before)
  BY DEF ByExposure
<1> HIDE DEF rank, place
<1>4. Orders(before, S)
  <2>1. \A x \in S : <<x, x>> \notin before
    BY <1>1
  <2>2. \A x, y \in S : x # y => <<x, y>> \in before \/ <<y, x>> \in before
    BY <1>1, <1>2
  <2>3. \A x, y, z \in S : <<x, y>> \in before /\ <<y, z>> \in before => <<x, z>> \in before
    BY <1>1
  <2> QED BY <2>1, <2>2, <2>3 DEF Orders
<1> HIDE DEF before
<1> QED BY <1>3, <1>4, ListedIsInOrder

LEMMA BumpableAreExposed ==
  ASSUME NEW v, ViewIsSound(v), NEW plan, NEW b \in v.blocked, b.resource.kind = "seat"
  PROVE  Bumpable(v, plan, b) \in Seq(Exposed)
<1> DEFINE S == {x \in HoldersAgainst(v, b) :
                   /\ PaxPriority(x.pax) > MostProtected(b)
                   /\ Alternatives(v, plan, x.pax, b.resource) # {}}
<1>1. S \subseteq HoldersAgainst(v, b)
  OBVIOUS
<1>2. Bumpable(v, plan, b) = ByExposure(S)
  BY DEF Bumpable
<1> HIDE DEF S
<1>3. S \subseteq Exposed /\ \A x, y \in S : x.pax = y.pax /\ x.claim = y.claim => x = y
  BY <1>1, HoldersAreExposed
<1>4. IsFiniteSet(S)
  BY <1>1, HoldersAreExposed, FS_Subset
<1>5. ByExposure(S) \in Seq(S)
  BY <1>3, <1>4, ByExposureIsInOrder
<1> QED BY <1>2, <1>3, <1>5
-----------------------------------------------------------------------------
(* The ruling on a deadlock over seats *)

Plans == [free : [registered -> Int], reserved : [registered -> Int], ops : Seq(Ops),
          winners : SUBSET Agent, losers : SUBSET Agent]

\* The places of a sequence are finitely many.
LEMMA PlacesAreFinite ==
  ASSUME NEW S, NEW s \in Seq(S)
  PROVE  IsFiniteSet(DOMAIN s)
<1>1. DOMAIN s = 1..Len(s) /\ Len(s) \in Nat
  OBVIOUS
<1>2. 1 \in Int /\ Len(s) \in Int
  BY <1>1
<1>3. IsFiniteSet(1..Len(s))
  BY <1>2, FS_Interval
<1> QED BY <1>1, <1>3

LEMMA BumpIsLegal ==
  ASSUME Ready, NEW v, ViewIsSound(v), NEW plan \in Plans,
         NEW b \in v.blocked, b.resource.kind = "seat"
  PROVE  Bump(v, plan, b) \in Plans
<1> DEFINE r == b.resource
           shortfall == Len(b.wish) - Usable(plan, r)
           victims == IF shortfall > 0 THEN FirstN(Bumpable(v, plan, b), shortfall) ELSE <<>>
           From(c) == {victims[i].pax : i \in {j \in DOMAIN victims : victims[j].claim = c}}
           S == {c \in v.granted : From(c.id) # {}}
           hit == ById(S)
           To(s) == {i \in DOMAIN victims :
             Seat(v.sc, FirstById(Alternatives(v, plan, victims[i].pax, r))) = s}
           revokes == [i \in DOMAIN hit |-> Op("revoke", hit[i].id, From(hit[i].id))]
           hurt == {victims[i].agent : i \in DOMAIN victims}
           size == [s \in registered |-> Cardinality(To(s))]
<1>1. b \in Shown /\ r \in registered /\ b.wish \in Seq(Beneficiary)
  BY DEF ViewIsSound, Shown
<1>2. shortfall \in Int
  <2>1. plan.free[r] \in Int /\ plan.reserved[r] \in Int
    BY <1>1 DEF Plans
  <2>2. Len(b.wish) \in Int
    BY <1>1
  <2> QED BY <2>1, <2>2 DEF Usable
<1>3. Bump(v, plan, b) =
        [plan EXCEPT !.free[r] = @ + Len(victims),
                     !.reserved = [s \in DOMAIN @ |-> @[s] + Cardinality(To(s))],
                     !.ops = @ \o revokes,
                     !.losers = @ \union hurt]
  BY DEF Bump
<1> HIDE DEF shortfall
<1>4. victims \in Seq(Exposed)
  <2>1. Bumpable(v, plan, b) \in Seq(Exposed)
    BY BumpableAreExposed
  <2> QED BY <1>2, <2>1, FirstNIsAStart
<1> HIDE DEF victims, r
<1>5. DOMAIN victims = 1..Len(victims) /\ Len(victims) \in Nat
      /\ \A i \in DOMAIN victims : victims[i] \in Exposed
  BY <1>4
<1>6. hurt \subseteq Agent
  BY <1>5 DEF Exposed
<1>7. \A c : From(c) \in SUBSET Beneficiary
  <2>1. Passenger \subseteq Beneficiary
    BY StormIsTyped DEF Ready
  <2> QED BY <1>5, <2>1 DEF Exposed
<1>8. revokes \in Seq(Ops)
  <2>1. IsFiniteSet(S) /\ OneRecordPerId(S) /\ \A c \in S : c.id \in ClaimId
    BY SomeRecords
  <2> HIDE DEF S, From
  <2>2. hit \in Seq(S)
    BY <2>1, ByIdIsInOrder
  <2> HIDE DEF hit
  <2>3. DOMAIN hit = 1..Len(hit) /\ Len(hit) \in Nat
    BY <2>2
  <2>4. ASSUME NEW i \in 1..Len(hit) PROVE Op("revoke", hit[i].id, From(hit[i].id)) \in Ops
    <3>1. hit[i].id \in ClaimId
      BY <2>1, <2>2, ItemIsThere
    <3> QED BY <1>7, <3>1, OpIsLegal
  <2>5. revokes \in [1..Len(hit) -> Ops]
    BY <2>3, <2>4
  <2> QED BY <2>3, <2>5, MappedIsASequence
<1>9. \A s : Cardinality(To(s)) \in Nat
  <2>1. IsFiniteSet(DOMAIN victims)
    BY <1>4, PlacesAreFinite
  <2>2. \A s : To(s) \in SUBSET DOMAIN victims
    OBVIOUS
  <2> HIDE DEF To
  <2> QED BY <2>1, <2>2, FS_Subset, FS_CardinalityType
<1> HIDE DEF hurt, revokes, To
<1>10. plan.ops \o revokes \in Seq(Ops)
  <2>1. plan.ops \in Seq(Ops)
    BY DEF Plans
  <2> QED BY <1>8, <2>1, JoinedIsASequence
<1>11. [plan.free EXCEPT ![r] = @ + Len(victims)] \in [registered -> Int]
  BY <1>1, <1>5 DEF Plans, r
<1>12. [s \in DOMAIN plan.reserved |-> plan.reserved[s] + Cardinality(To(s))] \in [registered -> Int]
  BY <1>9 DEF Plans
<1>13. plan.losers \union hurt \in SUBSET Agent /\ plan.winners \in SUBSET Agent
  BY <1>6 DEF Plans
<1> DEFINE o == plan.ops \o revokes
           f == [plan.free EXCEPT ![r] = @ + Len(victims)]
           e == [s \in DOMAIN plan.reserved |-> plan.reserved[s] + Cardinality(To(s))]
           l == plan.losers \union hurt
<1>14. Bump(v, plan, b) = [plan EXCEPT !.free = f, !.reserved = e, !.ops = o, !.losers = l]
  BY <1>3 DEF Plans
<1> HIDE DEF o, f, e, l
<1> QED BY <1>10, <1>11, <1>12, <1>13, <1>14 DEF Plans, o, f, e, l

LEMMA ServeIsLegal ==
  ASSUME NEW v, ViewIsSound(v), NEW b \in v.blocked, NEW room \in Int
  PROVE  LET n == IF Len(b.wish) < room THEN Len(b.wish) ELSE room
             op == Op("grant", b.id, ToSet(FirstN(b.wish, n)))
         IN n \in Int /\ op \in Ops
<1> DEFINE n == IF Len(b.wish) < room THEN Len(b.wish) ELSE room
           S == ToSet(FirstN(b.wish, n))
<1>1. /\ b.id \in ClaimId /\ b.wish \in Seq(Beneficiary)
      /\ claims[b.id].status # "absent" /\ claims[b.id].resource = b.resource
      /\ MayBoard(b.resource, ToSet(b.wish))
  BY DEF ViewIsSound, Shown
<1>2. n \in Int
  BY <1>1
<1> HIDE DEF n
<1>3. S \subseteq ToSet(b.wish) /\ S \subseteq Beneficiary
  BY <1>1, <1>2, FirstNIsAStart
<1> HIDE DEF S
<1>4. MayBoard(b.resource, S)
  BY <1>1, <1>3 DEF MayBoard
<1>5. Op("grant", b.id, S) \in Ops
  BY <1>1, <1>3, <1>4, OpIsLegal
<1> QED BY <1>2, <1>5 DEF n, S

\* The loop over the blocked claims of a deadlock over seats.
Disputed(v, ids) == ByProtection(Named({c \in v.blocked : c.resource.kind = "seat"}, ids))

NoPlan(v) ==
  [free |-> v.free, reserved |-> [r \in DOMAIN v.free |-> 0],
   ops |-> <<>>, winners |-> {}, losers |-> {}]

Decided(v, plan, b) ==
  LET bumped2 == Bump(v, plan, b)
      room == Usable(bumped2, b.resource)
  IN IF room <= 0 THEN bumped2 ELSE Serve(b, bumped2, room)

RulesOnSeats(v, ids, f) ==
  LET s == Disputed(v, ids)
  IN /\ f \in [0..Len(s) -> Plans] /\ f[0] = NoPlan(v)
     /\ \A n \in 1..Len(s) : f[n] = Decided(v, f[n - 1], s[n])
     /\ RuleSeats(ids, v) =
          [ops |-> f[Len(s)].ops, winners |-> f[Len(s)].winners,
           losers |-> f[Len(s)].losers
                        \union ((UNION {Contesters(v, c) : c \in ids}) \ f[Len(s)].winners)]

LEMMA DisputedAreBlocked ==
  ASSUME NEW v, ViewIsSound(v), NEW ids
  PROVE  LET s == Disputed(v, ids)
         IN  /\ s \in Seq(v.blocked) /\ Len(s) \in Nat
             /\ \A n \in 1..Len(s) : s[n] \in v.blocked /\ s[n].resource.kind = "seat"
                                     /\ s[n].id \in ids
             /\ \A m, n \in 1..Len(s) : s[m].id = s[n].id => m = n
<1> DEFINE B == Named({x \in v.blocked : x.resource.kind = "seat"}, ids)
           s == Disputed(v, ids)
<1>1. B \subseteq v.blocked /\ \A x \in B : x.resource.kind = "seat" /\ x.id \in ids
  BY DEF Named
<1>2. s = ByProtection(B)
  BY DEF Disputed
<1> HIDE DEF B, s
<1>3. B \subseteq Shown /\ IsFiniteSet(B) /\ OneRecordPerId(B)
  BY <1>1, SomeRecords
<1>4. s \in Seq(B) /\ \A i, j \in 1..Len(s) : s[i] = s[j] => i = j
  BY <1>2, <1>3, ByProtectionIsOnce
<1>5. \A n \in 1..Len(s) : s[n] \in B
  BY <1>4, ItemIsThere
<1>6. s \in Seq(v.blocked) /\ Len(s) \in Nat
  BY <1>1, <1>4
<1> QED BY <1>1, <1>3, <1>4, <1>5, <1>6 DEF OneRecordPerId, s

LEMMA DecidedIsAPlan ==
  ASSUME Ready, NEW v, ViewIsSound(v), NEW last \in Plans,
         NEW b \in v.blocked, b.resource.kind = "seat"
  PROVE  Decided(v, last, b) \in Plans
<1> DEFINE r == b.resource
           p == Bump(v, last, b)
           room == Usable(p, r)
<1>2. b \in Shown /\ r \in registered /\ b.agent \in Agent
  BY DEF ViewIsSound, Shown
<1>3. p \in Plans
  BY BumpIsLegal
<1> HIDE DEF p, r
<1>4. room \in Int
  BY <1>2, <1>3 DEF Usable, Plans
<1> HIDE DEF room
<1>5. Serve(b, p, room) \in Plans
  <2> DEFINE k == IF Len(b.wish) < room THEN Len(b.wish) ELSE room
             op == Op("grant", b.id, ToSet(FirstN(b.wish, k)))
             free == [p.free EXCEPT ![r] = @ - k]
             ops == Append(p.ops, op)
             won == p.winners \union {b.agent}
  <2>1. k \in Int /\ op \in Ops
    BY <1>4, ServeIsLegal
  <2>2. Serve(b, p, room) = [p EXCEPT !.free[b.resource] = @ - k, !.ops = Append(@, op),
                                      !.winners = @ \union {b.agent}]
    BY DEF Serve
  <2> HIDE DEF k, op
  <2>3. p.ops \in Seq(Ops)
    BY <1>3 DEF Plans
  <2>4. ops \in Seq(Ops)
    BY <2>1, <2>3
  <2>5. free \in [registered -> Int] /\ won \in SUBSET Agent
    BY <1>2, <1>3, <2>1 DEF Plans
  <2>6. Serve(b, p, room) = [p EXCEPT !.free = free, !.ops = ops, !.winners = won]
    BY <1>3, <2>2 DEF Plans, r
  <2> HIDE DEF free, ops, won
  <2> QED BY <1>3, <2>4, <2>5, <2>6 DEF Plans
<1>6. Decided(v, last, b) = IF room <= 0 THEN p ELSE Serve(b, p, room)
  BY DEF Decided, p, r, room
<1> QED BY <1>3, <1>5, <1>6

LEMMA SeatRulingUnfolds ==
  ASSUME Ready, NEW v, ViewIsSound(v), NEW ids
  PROVE  \E f : RulesOnSeats(v, ids, f)
<1> DEFINE blocked == Disputed(v, ids)
           len == Len(blocked)
           Body(last, n) == Decided(v, last, blocked[n])
           first == NoPlan(v)
           X == Plans
           f == CHOOSE g : g = [n \in 0..len |->
                  IF n = 0 THEN [free |-> v.free, reserved |-> [r \in DOMAIN v.free |-> 0],
                                 ops |-> <<>>, winners |-> {}, losers |-> {}]
                  ELSE LET bumped2 == Bump(v, g[n - 1], blocked[n])
                           room == Usable(bumped2, blocked[n].resource)
                       IN IF room <= 0 THEN bumped2 ELSE Serve(blocked[n], bumped2, room)]
<1>1. /\ len \in Nat
      /\ \A n \in 1..len : blocked[n] \in v.blocked /\ blocked[n].resource.kind = "seat"
  BY DisputedAreBlocked
<1>2. RuleSeats(ids, v) =
        [ops |-> f[len].ops, winners |-> f[len].winners,
         losers |-> f[len].losers \union ((UNION {Contesters(v, c) : c \in ids}) \ f[len].winners)]
  BY DEF RuleSeats, Disputed
<1>3. f = CHOOSE g : g = [n \in 0..len |-> IF n = 0 THEN first ELSE Body(g[n - 1], n)]
  BY DEF NoPlan, Decided
<1>4. first \in X
  <2>1. v.free \in [registered -> Int]
    BY DEF ViewIsSound
  <2>2. [r \in DOMAIN v.free |-> 0] \in [registered -> Int]
    BY <2>1
  <2>3. <<>> \in Seq(Ops)
    OBVIOUS
  <2> QED BY <2>1, <2>2, <2>3 DEF Plans, NoPlan
<1>5. ASSUME NEW last \in X, NEW n \in 1..len PROVE Body(last, n) \in X
  BY <1>1, DecidedIsAPlan
<1> HIDE DEF f, Body, first, X, len
<1> DEFINE step == [z \in X \X (1..len) |-> Body(z[1], z[2])]
<1>6. step \in [X \X (1..len) -> X]
  BY <1>5
<1>7. PICK g : Unfolds(g, X, first, len, step)
  <2> HIDE DEF step
  <2> QED BY <1>1, <1>4, <1>6, StepsUpTo
<1>8. ASSUME NEW n \in 0..len PROVE g[n] = IF n = 0 THEN first ELSE Body(g[n - 1], n)
  <2>1. CASE n # 0
    <3>1. n - 1 \in 0..len /\ n \in 1..len
      BY <1>1, <2>1
    <3>2. g[n - 1] \in X
      BY <1>7, <3>1 DEF Unfolds
    <3> QED BY <1>7, <2>1, <3>1, <3>2 DEF Unfolds
  <2> QED BY <1>7, <2>1 DEF Unfolds
<1>9. g = [n \in 0..len |-> IF n = 0 THEN first ELSE Body(g[n - 1], n)]
  <2>1. g = [n \in 0..len |-> g[n]]
    BY <1>7 DEF Unfolds
  <2> QED BY <1>8, <2>1
<1>10. f = [n \in 0..len |-> IF n = 0 THEN first ELSE Body(f[n - 1], n)]
  BY <1>3, <1>9
<1>11. f[0] = first /\ \A n \in 1..len : f[n] = Body(f[n - 1], n)
  BY <1>1, <1>10
<1>12. \A n \in 1..len : f[n - 1] \in X => f[n] \in X
  BY <1>5, <1>11
<1>13. \A n \in 0..len : f[n] \in X
  BY <1>1, <1>4, <1>11, <1>12, StaysIn
<1>14. f \in [0..len -> X]
  BY <1>10, <1>13
<1>15. len = Len(Disputed(v, ids)) /\ \A n : Body(f[n - 1], n) = Decided(v, f[n - 1], Disputed(v, ids)[n])
  BY DEF len, Body
<1> QED BY <1>2, <1>11, <1>14, <1>15 DEF RulesOnSeats, X, first

LEMMA SeatRulingsAreLegal ==
  ASSUME Ready, NEW v, ViewIsSound(v), NEW c
  PROVE  RuleSeats(c, v).ops \in Seq(Ops)
<1> DEFINE len == Len(Disputed(v, c))
<1>1. PICK f : RulesOnSeats(v, c, f)
  BY SeatRulingUnfolds
<1>2. len \in 0..len
  BY DisputedAreBlocked
<1>3. f \in [0..len -> Plans] /\ RuleSeats(c, v).ops = f[len].ops
  BY <1>1 DEF RulesOnSeats
<1> HIDE DEF len
<1> QED BY <1>2, <1>3 DEF Plans
-----------------------------------------------------------------------------
(* The ruling at the round cap *)

FiatPlans == [free : [registered -> Int], ops : Seq(Ops),
              winners : SUBSET Agent, losers : SUBSET Agent]

\* The loop over all that is blocked at the round cap.
Challenged(v) == {c \in CrewRecords(v) : Contesters(v, c.id) # {}}

CrewFiat(v) ==
  [free |-> v.free, ops |-> Voids(Illegal(v, Challenged(v))),
   winners |-> Contesting(v, Illegal(v, Challenged(v))),
   losers |-> Claiming(Illegal(v, Challenged(v))) \union Contesting(v, Lawful(v, Challenged(v)))]

SettledByFiat(plan, b) ==
  IF plan.free[b.resource] <= 0
  THEN [plan EXCEPT !.ops = Append(@, Op("void", b.id, {}))]
  ELSE Serve(b, plan, plan.free[b.resource])

RulesByFiat(v, f) ==
  LET s == ByProtection(v.blocked)
  IN /\ f \in [0..Len(s) -> FiatPlans] /\ f[0] = CrewFiat(v)
     /\ \A n \in 1..Len(s) : f[n] = SettledByFiat(f[n - 1], s[n])
     /\ FiatRuling(v) = [ops |-> f[Len(s)].ops, winners |-> f[Len(s)].winners,
                         losers |-> f[Len(s)].losers]

LEMMA BlockedAreListed ==
  ASSUME NEW v, ViewIsSound(v)
  PROVE  LET s == ByProtection(v.blocked)
         IN  /\ s \in Seq(v.blocked) /\ Len(s) \in Nat
             /\ \A n \in 1..Len(s) : s[n] \in v.blocked
             /\ \A m, n \in 1..Len(s) : s[m].id = s[n].id => m = n
<1> DEFINE B == v.blocked
           s == ByProtection(B)
<1>1. B \subseteq Shown /\ IsFiniteSet(B) /\ OneRecordPerId(B)
  BY DEF ViewIsSound
<1> HIDE DEF B
<1>2. s \in Seq(B) /\ \A i, j \in 1..Len(s) : s[i] = s[j] => i = j
  BY <1>1, ByProtectionIsOnce
<1> HIDE DEF s
<1>3. \A n \in 1..Len(s) : s[n] \in B
  BY <1>2, ItemIsThere
<1>4. Len(s) \in Nat
  BY <1>2
<1> QED BY <1>1, <1>2, <1>3, <1>4 DEF OneRecordPerId, s, B

LEMMA CrewFiatIsAPlan ==
  ASSUME Ready, NEW v, ViewIsSound(v)
  PROVE  CrewFiat(v) \in FiatPlans
<1> DEFINE I == Illegal(v, Challenged(v))
           L == Lawful(v, Challenged(v))
<1>1. I \subseteq v.granted /\ L \subseteq v.granted
  BY DEF Illegal, Lawful, CrewRecords, Challenged
<1> HIDE DEF I, L
<1>2. v.free \in [registered -> Int]
  BY DEF ViewIsSound
<1>3. Voids(I) \in Seq(Ops)
  BY <1>1, VoidsAreLegal
<1>4. Contesting(v, I) \in SUBSET Agent /\ Claiming(I) \union Contesting(v, L) \in SUBSET Agent
  BY <1>1, PartiesAreAgents
<1> QED BY <1>2, <1>3, <1>4 DEF FiatPlans, CrewFiat, I, L

LEMMA SettledIsAPlan ==
  ASSUME Ready, NEW v, ViewIsSound(v), NEW last \in FiatPlans, NEW b \in v.blocked
  PROVE  SettledByFiat(last, b) \in FiatPlans
<1> DEFINE r == b.resource
           room == last.free[r]
           void == Op("void", b.id, {})
           ops1 == Append(last.ops, void)
<1>1. b \in Shown /\ r \in registered /\ b.agent \in Agent /\ b.id \in ClaimId
  BY DEF ViewIsSound, Shown
<1>2. last.ops \in Seq(Ops) /\ void \in Ops
  BY <1>1, OpIsLegal DEF FiatPlans
<1> HIDE DEF void, r
<1>3. room \in Int
  BY <1>1 DEF FiatPlans
<1>4. ops1 \in Seq(Ops)
  BY <1>2
<1>5. [last EXCEPT !.ops = ops1] \in FiatPlans
  <2> HIDE DEF ops1
  <2> QED BY <1>4 DEF FiatPlans
<1> HIDE DEF room
<1>6. Serve(b, last, room) \in FiatPlans
  <2> DEFINE k == IF Len(b.wish) < room THEN Len(b.wish) ELSE room
             op == Op("grant", b.id, ToSet(FirstN(b.wish, k)))
             free == [last.free EXCEPT ![r] = @ - k]
             ops == Append(last.ops, op)
             won == last.winners \union {b.agent}
  <2>1. k \in Int /\ op \in Ops
    BY <1>3, ServeIsLegal
  <2>2. Serve(b, last, room) = [last EXCEPT !.free[b.resource] = @ - k, !.ops = Append(@, op),
                                            !.winners = @ \union {b.agent}]
    BY DEF Serve
  <2> HIDE DEF k, op
  <2>3. ops \in Seq(Ops)
    BY <1>2, <2>1
  <2>4. free \in [registered -> Int] /\ won \in SUBSET Agent
    BY <1>1, <2>1 DEF FiatPlans
  <2>5. Serve(b, last, room) = [last EXCEPT !.free = free, !.ops = ops, !.winners = won]
    BY <2>2 DEF FiatPlans, r
  <2> HIDE DEF free, ops, won
  <2> QED BY <2>3, <2>4, <2>5 DEF FiatPlans
<1>7. SettledByFiat(last, b)
        = IF room <= 0 THEN [last EXCEPT !.ops = ops1] ELSE Serve(b, last, room)
  BY DEF SettledByFiat, r, room, void
<1> QED BY <1>5, <1>6, <1>7

LEMMA FiatUnfolds ==
  ASSUME Ready, NEW v, ViewIsSound(v)
  PROVE  \E f : RulesByFiat(v, f)
<1> DEFINE blocked == ByProtection(v.blocked)
           len == Len(blocked)
           Body(last, n) == SettledByFiat(last, blocked[n])
           first == CrewFiat(v)
           X == FiatPlans
           crew == {c \in CrewRecords(v) : Contesters(v, c.id) # {}}
           f == CHOOSE g : g = [n \in 0..len |->
                  IF n = 0
                  THEN [free |-> v.free, ops |-> Voids(Illegal(v, crew)),
                        winners |-> Contesting(v, Illegal(v, crew)),
                        losers |-> Claiming(Illegal(v, crew)) \union Contesting(v, Lawful(v, crew))]
                  ELSE IF g[n - 1].free[blocked[n].resource] <= 0
                       THEN [g[n - 1] EXCEPT !.ops = Append(@, Op("void", blocked[n].id, {}))]
                       ELSE Serve(blocked[n], g[n - 1], g[n - 1].free[blocked[n].resource])]
<1>1. len \in Nat /\ \A n \in 1..len : blocked[n] \in v.blocked
  BY BlockedAreListed
<1>2. FiatRuling(v) = [ops |-> f[len].ops, winners |-> f[len].winners, losers |-> f[len].losers]
  BY DEF FiatRuling
<1>3. f = CHOOSE g : g = [n \in 0..len |-> IF n = 0 THEN first ELSE Body(g[n - 1], n)]
  BY DEF CrewFiat, SettledByFiat, Challenged
<1>4. first \in X
  BY CrewFiatIsAPlan
<1>5. ASSUME NEW last \in X, NEW n \in 1..len PROVE Body(last, n) \in X
  BY <1>1, SettledIsAPlan
<1> HIDE DEF f, Body, first, X, len
<1> DEFINE step == [z \in X \X (1..len) |-> Body(z[1], z[2])]
<1>6. step \in [X \X (1..len) -> X]
  BY <1>5
<1>7. PICK g : Unfolds(g, X, first, len, step)
  <2> HIDE DEF step
  <2> QED BY <1>1, <1>4, <1>6, StepsUpTo
<1>8. ASSUME NEW n \in 0..len PROVE g[n] = IF n = 0 THEN first ELSE Body(g[n - 1], n)
  <2>1. CASE n # 0
    <3>1. n - 1 \in 0..len /\ n \in 1..len
      BY <1>1, <2>1
    <3>2. g[n - 1] \in X
      BY <1>7, <3>1 DEF Unfolds
    <3> QED BY <1>7, <2>1, <3>1, <3>2 DEF Unfolds
  <2> QED BY <1>7, <2>1 DEF Unfolds
<1>9. g = [n \in 0..len |-> IF n = 0 THEN first ELSE Body(g[n - 1], n)]
  <2>1. g = [n \in 0..len |-> g[n]]
    BY <1>7 DEF Unfolds
  <2> QED BY <1>8, <2>1
<1>10. f = [n \in 0..len |-> IF n = 0 THEN first ELSE Body(f[n - 1], n)]
  BY <1>3, <1>9
<1>11. f[0] = first /\ \A n \in 1..len : f[n] = Body(f[n - 1], n)
  BY <1>1, <1>10
<1>12. \A n \in 1..len : f[n - 1] \in X => f[n] \in X
  BY <1>5, <1>11
<1>13. \A n \in 0..len : f[n] \in X
  BY <1>1, <1>4, <1>11, <1>12, StaysIn
<1>14. f \in [0..len -> X]
  BY <1>10, <1>13
<1>15. len = Len(ByProtection(v.blocked))
       /\ \A n : Body(f[n - 1], n) = SettledByFiat(f[n - 1], ByProtection(v.blocked)[n])
  BY DEF len, Body
<1> QED BY <1>2, <1>11, <1>14, <1>15 DEF RulesByFiat, X, first

LEMMA FiatIsLegal ==
  ASSUME Ready, NEW v, ViewIsSound(v)
  PROVE  FiatRuling(v).ops \in Seq(Ops)
<1> DEFINE len == Len(ByProtection(v.blocked))
<1>1. PICK f : RulesByFiat(v, f)
  BY FiatUnfolds
<1>2. len \in 0..len
  BY BlockedAreListed
<1>3. f \in [0..len -> FiatPlans] /\ FiatRuling(v).ops = f[len].ops
  BY <1>1 DEF RulesByFiat
<1> HIDE DEF len
<1> QED BY <1>2, <1>3 DEF FiatPlans

\* The mediator's operations void, revoke, or grant seats to who may board.
LEMMA RulingsAreLegal ==
  ASSUME Ready, NEW v, ViewIsSound(v), NEW d
  PROVE  Ruling(d, v).ops \in Seq(Ops)
BY CrewRulingsAreLegal, SeatRulingsAreLegal DEF Ruling
-----------------------------------------------------------------------------
(* What a call of the ledger leaves as it is, and what it adds *)

ClaimsStay ==
  \A c \in ClaimId : claims[c].status # "absent" =>
    /\ claims'[c].status # "absent" /\ claims'[c].resource = claims[c].resource
    /\ claims'[c].commit = claims[c].commit /\ claims'[c].bens = claims[c].bens

SealsStay ==
  /\ commitSeq' = commitSeq
  /\ \A m \in 1..MaxCommits : commitments'[m].digest = commitments[m].digest

NoNewClaim == \A c \in ClaimId : claims'[c].status # "absent" => claims[c].status # "absent"

\* Every new unit is of r, for one of S.
NewUnits(r, S) == \A u \in alloc' : u \in alloc \/ (u.resource = r /\ u.ben \in S)

LEMMA ClaimsAreRows ==
  ASSUME Ledger!TypeOK
  PROVE  /\ claims = [c \in ClaimId |-> claims[c]]
         /\ \A c \in ClaimId : claims[c].status # "absent" =>
              claims[c] \in [agent : Agent, resource : Resource, bens : (SUBSET Beneficiary) \ {{}},
                             status : Ledger!ClaimStatus, commit : 0..MaxCommits]
BY DEF Ledger!TypeOK, Ledger!Claim, Ledger!NoClaim, Ledger!ClaimId, ClaimId

LEMMA StatusChanges ==
  ASSUME Ledger!TypeOK, NEW c \in ClaimId, claims[c].status # "absent", NEW status,
         status # "absent", Ledger!SetStatus(c, status) \/ UNCHANGED claims
  PROVE  ClaimsStay /\ NoNewClaim
<1> DEFINE row == [claims[c] EXCEPT !.status = status]
<1>1. row.status = status /\ row.resource = claims[c].resource
      /\ row.commit = claims[c].commit /\ row.bens = claims[c].bens
  BY ClaimsAreRows
<1>2. CASE UNCHANGED claims
  BY <1>2 DEF ClaimsStay, NoNewClaim
<1>3. CASE Ledger!SetStatus(c, status)
  <2>1. claims' = [claims EXCEPT ![c] = row]
    BY <1>3 DEF Ledger!SetStatus
  <2> HIDE DEF row
  <2>2. claims'[c] = row /\ \A d \in ClaimId : d # c => claims'[d] = claims[d]
    BY <2>1, ClaimsAreRows
  <2> QED BY <1>1, <2>2 DEF ClaimsStay, NoNewClaim
<1> QED BY <1>2, <1>3

LEMMA NothingChanges ==
  ASSUME UNCHANGED <<registered, commitments, claims, alloc, commitSeq>>
  PROVE  ClaimsStay /\ SealsStay /\ NoNewClaim /\ NewUnits("none", {}) /\ registered \subseteq registered'
BY DEF ClaimsStay, SealsStay, NoNewClaim, NewUnits

LEMMA OtherCallsAddNothing ==
  ASSUME Ledger!TypeOK, NEW c \in ClaimId, NEW l, NEW a,
         \/ Ledger!Release(a, c, l) \/ Ledger!Withdraw(a, c)
         \/ Ledger!RevokeOp(c, l) \/ Ledger!VoidClaim(c)
  PROVE  ClaimsStay /\ SealsStay /\ NoNewClaim /\ alloc' \subseteq alloc /\ registered' = registered
<1>1. ASSUME NEW kind, Ledger!NoEffect(kind)
      PROVE  UNCHANGED <<registered, commitments, claims, alloc, commitSeq>>
  BY <1>1 DEF Ledger!NoEffect, Ledger!tables
<1>2. ASSUME NEW kind, Ledger!NoEffect(kind)
      PROVE  ClaimsStay /\ SealsStay /\ NoNewClaim /\ alloc' \subseteq alloc /\ registered' = registered
  BY <1>1, <1>2, NothingChanges
<1>3. ASSUME NEW final, final # "absent", Ledger!Granted(c), Ledger!GiveBack(c, l, final)
      PROVE  ClaimsStay /\ SealsStay /\ NoNewClaim /\ alloc' \subseteq alloc /\ registered' = registered
  <2>1. claims[c].status # "absent"
    BY <1>3 DEF Ledger!Granted
  <2>2. Ledger!SetStatus(c, final) \/ UNCHANGED claims
    BY <1>3 DEF Ledger!GiveBack
  <2>3. UNCHANGED <<registered, commitments, commitSeq>> /\ alloc' \subseteq alloc
    BY <1>3 DEF Ledger!GiveBack, Ledger!Deallocate
  <2> QED BY <1>3, <2>1, <2>2, <2>3, StatusChanges DEF SealsStay
<1>4. CASE Ledger!Release(a, c, l)
  BY <1>2, <1>3, <1>4 DEF Ledger!Release
<1>5. CASE Ledger!RevokeOp(c, l)
  BY <1>2, <1>3, <1>5 DEF Ledger!RevokeOp
<1>6. CASE Ledger!Withdraw(a, c)
  <2>1. CASE Ledger!NoEffect("ledger_error")
    BY <1>2, <2>1
  <2>2. CASE ~Ledger!NoEffect("ledger_error")
    <3>1. /\ claims[c].status # "absent" /\ Ledger!SetStatus(c, "withdrawn")
          /\ UNCHANGED <<registered, commitments, alloc, commitSeq>>
      BY <1>6, <2>2 DEF Ledger!Withdraw
    <3> QED BY <3>1, StatusChanges DEF SealsStay
  <2> QED BY <2>1, <2>2
<1>7. CASE Ledger!VoidClaim(c)
  <2>1. CASE Ledger!NoEffect("ledger_error") \/ Ledger!NoEffect("ok")
    BY <1>2, <2>1
  <2>2. CASE ~(Ledger!NoEffect("ledger_error") \/ Ledger!NoEffect("ok"))
    <3>1. /\ claims[c].status # "absent" /\ Ledger!SetStatus(c, "voided")
          /\ UNCHANGED <<registered, commitments, commitSeq>> /\ alloc' \subseteq alloc
      BY <1>7, <2>2 DEF Ledger!VoidClaim, Ledger!Deallocate
    <3> QED BY <3>1, StatusChanges DEF SealsStay
  <2> QED BY <2>1, <2>2
<1> QED BY <1>4, <1>5, <1>6, <1>7

LEMMA RegisteringAddsNothing ==
  ASSUME NEW r, Ledger!RegisterResource(r)
  PROVE  /\ ClaimsStay /\ SealsStay /\ NoNewClaim /\ alloc' = alloc
         /\ registered' = registered \union {r}
<1>1. UNCHANGED <<commitments, claims, alloc, commitSeq>> /\ registered' = registered \union {r}
  BY DEF Ledger!RegisterResource, Ledger!NoEffect, Ledger!tables
<1> QED BY <1>1 DEF ClaimsStay, SealsStay, NoNewClaim

LEMMA GrantsAddTheirUnits ==
  ASSUME Ledger!TypeOK, NEW c \in ClaimId, NEW l, Ledger!GrantOp(c, l)
  PROVE  /\ ClaimsStay /\ SealsStay /\ NoNewClaim /\ NewUnits(claims[c].resource, l.bens)
         /\ registered' = registered
<1>1. CASE Ledger!NoEffect("ledger_error") \/ Ledger!NoEffect("integrity_violation")
  <2>1. UNCHANGED <<registered, commitments, claims, alloc, commitSeq>>
    BY <1>1 DEF Ledger!NoEffect, Ledger!tables
  <2> QED BY <2>1, NothingChanges DEF NewUnits
<1>2. CASE ~(Ledger!NoEffect("ledger_error") \/ Ledger!NoEffect("integrity_violation"))
  <2>1. /\ claims[c].status # "absent" /\ Ledger!SetStatus(c, "granted")
        /\ UNCHANGED <<registered, commitments, commitSeq>>
        /\ alloc' = alloc \union [resource : {claims[c].resource}, ben : l.bens, claim : {c}]
    BY <1>2 DEF Ledger!GrantOp, Ledger!Allocate
  <2> QED BY <2>1, StatusChanges DEF SealsStay, NewUnits
<1> QED BY <1>1, <1>2

\* A new claim on r for S, from commitment m.
NewClaim(r, S, m) ==
  \A c \in ClaimId : claims'[c].status # "absent" =>
    \/ claims[c].status # "absent"
    \/ r \in registered /\ claims'[c].resource = r /\ claims'[c].bens = S /\ claims'[c].commit = m

LEMMA InsertsAddTheirClaim ==
  ASSUME Ledger!TypeOK, Ledger!NextIdsAreFree, claimSeq < MaxClaims, claimSeq' = claimSeq + 1,
         NEW p, NEW m, Ledger!InsertAndApply(claimSeq', p, m)
  PROVE  ClaimsStay /\ NewClaim(p.resource, p.bens, m) /\ NewUnits(p.resource, p.bens)
<1> DEFINE c == claimSeq + 1
<1>1. c \in ClaimId /\ claims[c].status = "absent"
  <2>1. claimSeq \in Nat /\ MaxClaims \in Nat
    BY LedgerAssumption DEF Ledger!TypeOK
  <2>2. c \in ClaimId /\ c > claimSeq
    BY <2>1 DEF ClaimId
  <2> QED BY <2>2 DEF Ledger!NextIdsAreFree, Ledger!HasClaim, Ledger!ClaimId, ClaimId
<1>2. claims = [d \in ClaimId |-> claims[d]]
  BY ClaimsAreRows
<1>3. CASE UNCHANGED <<claims, alloc>>
  BY <1>3 DEF ClaimsStay, NewClaim, NewUnits
<1>4. ASSUME NEW status,
             claims' = [claims EXCEPT ![c] =
               [agent |-> p.agent, resource |-> p.resource, bens |-> p.bens,
                status |-> status, commit |-> m]],
             p.resource \in registered
      PROVE  ClaimsStay /\ NewClaim(p.resource, p.bens, m)
  <2> HIDE DEF c
  <2>1. /\ claims'[c].resource = p.resource /\ claims'[c].bens = p.bens /\ claims'[c].commit = m
        /\ \A d \in ClaimId : d # c => claims'[d] = claims[d]
    BY <1>1, <1>2, <1>4
  <2> QED BY <1>1, <1>4, <2>1 DEF ClaimsStay, NewClaim
<1>5. CASE ~UNCHANGED <<claims, alloc>>
  <2>1. p.resource \in registered
    BY <1>5 DEF Ledger!InsertAndApply
  <2>2. \E status : claims' = [claims EXCEPT ![c] =
               [agent |-> p.agent, resource |-> p.resource, bens |-> p.bens,
                status |-> status, commit |-> m]]
    BY <1>5 DEF Ledger!InsertAndApply
  <2>3. \/ UNCHANGED alloc
        \/ alloc' = alloc \union [resource : {p.resource}, ben : p.bens, claim : {c}]
    BY <1>5 DEF Ledger!InsertAndApply, Ledger!Allocate
  <2> QED BY <1>4, <2>1, <2>2, <2>3 DEF NewUnits
<1> QED BY <1>3, <1>5

LEMMA RevealsAddTheirClaim ==
  ASSUME Ledger!TypeOK, Ledger!NextIdsAreFree, NEW m \in 1..MaxCommits,
         Ledger!Reveal(m, commitments[m].digest, TRUE)
  PROVE  LET p == commitments[m].digest
         IN  /\ ClaimsStay /\ SealsStay /\ registered' = registered
             /\ NewClaim(p.resource, p.bens, m) /\ NewUnits(p.resource, p.bens)
             /\ commitments[m].state = "sealed" \/ UNCHANGED <<claims, alloc>>
<1> DEFINE p == commitments[m].digest
<1>1. CASE ~Ledger!CanReveal(m, p)
  <2>1. UNCHANGED <<registered, commitments, claims, alloc, commitSeq>>
    BY <1>1 DEF Ledger!Reveal, Ledger!NoEffect, Ledger!tables
  <2> QED BY <2>1, NothingChanges DEF NewClaim, NewUnits
<1>2. CASE Ledger!CanReveal(m, p)
  <2>1. Ledger!RevealMatch(m, p) /\ commitments[m].state = "sealed"
    BY <1>2 DEF Ledger!Reveal, Ledger!CanReveal
  <2>2. /\ claimSeq < MaxClaims /\ claimSeq' = claimSeq + 1
        /\ Ledger!InsertAndApply(claimSeq', p, m)
        /\ UNCHANGED <<registered, commitSeq>>
    BY <2>1 DEF Ledger!RevealMatch
  <2>3. SealsStay
    <3>1. commitments = [k \in 1..MaxCommits |-> commitments[k]]
      BY DEF Ledger!TypeOK, Ledger!CommitId
    <3>2. commitments[m] \in Ledger!Commitment
      BY <2>1 DEF Ledger!TypeOK, Ledger!CommitId, Ledger!NoCommitment
    <3> DEFINE row == [commitments[m] EXCEPT !.state = "accepted", !.claim = claimSeq']
    <3>3. row.digest = commitments[m].digest
      BY <3>2 DEF Ledger!Commitment
    <3>4. commitments' = [commitments EXCEPT ![m] = row]
      BY <2>1, <3>1 DEF Ledger!RevealMatch
    <3> HIDE DEF row
    <3>5. \A k \in 1..MaxCommits : commitments'[k].digest = commitments[k].digest
      BY <3>1, <3>3, <3>4
    <3> QED BY <2>2, <3>5 DEF SealsStay
  <2> HIDE DEF p
  <2>4. ClaimsStay /\ NewClaim(p.resource, p.bens, m) /\ NewUnits(p.resource, p.bens)
    BY <2>2, InsertsAddTheirClaim
  <2> QED BY <2>1, <2>2, <2>3, <2>4 DEF p
<1> QED BY <1>1, <1>2
-----------------------------------------------------------------------------
(* What is carried over from one state to the next *)

LEMMA BidsStay == UNCHANGED scenario => Bids' = Bids
BY DEF Bids, MayBoard

LEMMA StandsStay == Stands' = Stands
BY DEF Stands, ClaimId

LEMMA OpsStay == UNCHANGED scenario /\ ClaimsStay => Ops \subseteq Ops'
<1> SUFFICES ASSUME UNCHANGED scenario, ClaimsStay, NEW o \in Ops PROVE o \in Ops'
  OBVIOUS
<1>1. o \in [op : {"revoke", "grant", "void"}, claim : ClaimId, bens : SUBSET Beneficiary]
  BY DEF Ops
<1>2. ASSUME o.op = "grant"
      PROVE  claims'[o.claim].status # "absent" /\ MayBoard(claims[o.claim].resource, o.bens)'
  <2>1. claims[o.claim].status # "absent" /\ MayBoard(claims[o.claim].resource, o.bens)
    BY <1>2 DEF Ops
  <2>2. claims'[o.claim].status # "absent" /\ claims'[o.claim].resource = claims[o.claim].resource
    BY <1>1, <2>1 DEF ClaimsStay
  <2> QED BY <2>1, <2>2 DEF MayBoard
<1> QED BY <1>1, <1>2 DEF Ops, ClaimId

LEMMA RegistrationStays ==
  ASSUME EverythingIsRegistered, UNCHANGED scenario, registered \subseteq registered', phase # "setup"
  PROVE  EverythingIsRegistered'
BY DEF EverythingIsRegistered

LEMMA WishesStay ==
  ASSUME StormInv, UNCHANGED <<scenario, wish>>, SealsStay
  PROVE  WishesAreSealed'
<1>1. Ledger!TypeOK /\ WishesAreSealed
  BY LedgerFacts DEF StormInv
<1>2. Len(wish) = commitSeq /\ commitSeq \in Nat /\ \A m \in 1..Len(wish) : m \in 1..MaxCommits
  BY <1>1, LedgerAssumption DEF Ledger!TypeOK, WishesAreSealed
<1>3. \A m \in 1..Len(wish) : commitments'[m].digest = commitments[m].digest
  BY <1>2 DEF SealsStay
<1> QED BY <1>1, <1>2, <1>3 DEF WishesAreSealed, SealsStay, MayBoard

\* What a claim of a negotiated run owes, whatever its state.
ClaimIsLegal(r, S, m) ==
  /\ r \in registered /\ m \in 1..Len(wish) /\ S = ToSet(wish[m].who) /\ MayBoard(r, S)

LEMMA ClaimsLegalIf ==
  ClaimsAreLegal <=>
    (condition # "single" =>
       \A c \in ClaimId : claims[c].status # "absent" =>
         ClaimIsLegal(claims[c].resource, claims[c].bens, claims[c].commit))
BY DEF ClaimsAreLegal, ClaimIsLegal

LEMMA ClaimsStayLegal ==
  ASSUME StormInv, UNCHANGED <<scenario, condition>>, registered \subseteq registered', ClaimsStay,
         wish' = wish \/ (\E x : wish' = Append(wish, x)),
         NEW r, NEW S, NEW m, NewClaim(r, S, m), NoNewClaim \/ ClaimIsLegal(r, S, m)
  PROVE  ClaimsAreLegal'
<1>0. wish \in Seq([who : Seq(Beneficiary), round : Nat])
  BY DEF StormInv, WishesAreSealed
<1>1. ASSUME NEW k \in 1..Len(wish) PROVE k \in 1..Len(wish') /\ wish'[k] = wish[k]
  <2>1. Len(wish) \in Nat
    BY <1>0
  <2>2. ASSUME NEW x, wish' = Append(wish, x) PROVE k \in 1..Len(wish') /\ wish'[k] = wish[k]
    BY <1>0, <2>1, <2>2
  <2> QED BY <2>2
<1>3. ASSUME condition # "single", NEW c \in ClaimId, claims'[c].status # "absent"
      PROVE  ClaimIsLegal(claims[c].resource, claims[c].bens, claims[c].commit)'
  <2>1. CASE claims[c].status # "absent"
    <3>1. ClaimIsLegal(claims[c].resource, claims[c].bens, claims[c].commit)
      BY <1>3, <2>1 DEF StormInv, ClaimsAreLegal, ClaimIsLegal
    <3>2. ClaimIsLegal(claims[c].resource, claims[c].bens, claims[c].commit)
            => ClaimIsLegal(claims'[c].resource, claims'[c].bens, claims'[c].commit)
      BY <2>1 DEF ClaimsStay
    <3>3. ClaimIsLegal(claims'[c].resource, claims'[c].bens, claims'[c].commit)
      BY <3>1, <3>2
    <3> DEFINE R == claims'[c].resource
               T == claims'[c].bens
               k == claims'[c].commit
    <3>4. R \in registered' /\ k \in 1..Len(wish') /\ T = ToSet(wish'[k].who)
          /\ (R.kind = "seat" => \A b \in T : b \in Passenger /\ R.of \in Legal(scenario', b))
      <4> HIDE DEF R, T, k
      <4>1. ClaimIsLegal(R, T, k)
        BY <3>3 DEF R, T, k
      <4> QED BY <4>1, <1>1 DEF ClaimIsLegal, MayBoard
    <3> QED BY <3>4 DEF ClaimIsLegal, MayBoard
  <2>2. CASE claims[c].status = "absent"
    <3>1. ClaimIsLegal(r, S, m) /\ claims'[c].resource = r /\ claims'[c].bens = S /\ claims'[c].commit = m
      BY <1>3, <2>2 DEF NewClaim, NoNewClaim
    <3>2. r \in registered' /\ m \in 1..Len(wish') /\ S = ToSet(wish'[m].who)
          /\ (r.kind = "seat" => \A b \in S : b \in Passenger /\ r.of \in Legal(scenario', b))
      BY <3>1, <1>1 DEF ClaimIsLegal, MayBoard
    <3> QED BY <3>1, <3>2 DEF ClaimIsLegal, MayBoard
  <2> QED BY <2>1, <2>2
<1> QED BY <1>3 DEF ClaimsAreLegal, ClaimIsLegal

LEMMA UnitsStayLegal ==
  ASSUME UnitsAreLegal, UNCHANGED scenario, NEW r, NEW S, NewUnits(r, S), MayBoard(r, S)
  PROVE  UnitsAreLegal'
BY DEF UnitsAreLegal, NewUnits, MayBoard

\* A step that brings no claim and no unit, and asks for nothing.
LEMMA NothingIsAdded ==
  ASSUME StormInv, UNCHANGED <<scenario, condition, wish>>, registered \subseteq registered',
         ClaimsStay, SealsStay, NoNewClaim, alloc' \subseteq alloc
  PROVE  WishesAreSealed' /\ ClaimsAreLegal' /\ UnitsAreLegal'
<1>1. NewClaim({}, {}, 0) /\ NewUnits([kind |-> "none"], {}) /\ MayBoard([kind |-> "none"], {})
  BY DEF NoNewClaim, NewClaim, NewUnits, MayBoard
<1>2. ClaimsAreLegal'
  BY <1>1, ClaimsStayLegal
<1>3. UnitsAreLegal'
  BY <1>1, UnitsStayLegal DEF StormInv
<1> QED BY <1>2, <1>3, WishesStay

LEMMA TheLedgerStays ==
  ASSUME StormInv, UNCHANGED <<scenario, condition, wish, ledgerVars>>
  PROVE  /\ WishesAreSealed' /\ ClaimsAreLegal' /\ UnitsAreLegal'
         /\ phase # "setup" => EverythingIsRegistered'
<1>1. ClaimsStay /\ SealsStay /\ NoNewClaim /\ alloc' \subseteq alloc /\ registered \subseteq registered'
  BY NothingChanges DEF ledgerVars
<1> QED BY <1>1, NothingIsAdded, RegistrationStays DEF StormInv
-----------------------------------------------------------------------------
(* The steps of a negotiated run *)

LEMMA Negotiated ==
  ASSUME StormInv, phase \notin {"setup", "plan", "seats", "done"}
  PROVE  condition # "single" /\ Ready /\ ViewIsSound(View)
         /\ ControlIsTyped /\ Ledger!TypeOK
BY RunsAreReady, ViewsAreSound, LedgerFacts DEF StormInv, StageIsSet, EngineHolds

\* What the last sweep has listed: open contests, then claims.
LEMMA SweepLists ==
  ASSUME StormInv
  PROVE  /\ phase = "sweep" => \A x \in settling :
              x \in Bank!ContestId /\ contests[x].status = "open" /\ contests[x].target \in ClaimId
         /\ phase = "clear" => clearing \subseteq ClaimId
<1>1. phase \in {"sweep", "clear"} => SweepIsOnItsWay
  BY Negotiated DEF StormInv, StageIsSet, EngineHolds
<1>2. Bank!BankTypeOK
  BY BankFacts DEF StormInv
<1> QED BY <1>1, <1>2 DEF SweepIsOnItsWay, OpenContests, Blocked, ClaimId,
     Bank!BankTypeOK, Bank!Contest, Bank!NoContest

LEMMA SealedBidsAreProposals ==
  ASSUME NEW b \in Bids
  PROVE  /\ Sealed(b) \in Ledger!Proposal
         /\ Sealed(b).bens = ToSet(b.wish) /\ Sealed(b).resource = b.resource
         /\ b.wish \in Seq(Beneficiary) /\ b.wish # <<>>
         /\ MayBoard(b.resource, ToSet(b.wish))
<1>1. /\ b \in [agent : Agent, resource : Resource, wish : Seq(Beneficiary)]
      /\ b.wish # <<>> /\ MayBoard(b.resource, ToSet(b.wish))
  BY DEF Bids
<1>2. b.wish \in Seq(Beneficiary)
  BY <1>1
<1>3. ToSet(b.wish) \in (SUBSET Beneficiary) \ {{}}
  <2> DEFINE w == b.wish
  <2>1. w \in Seq(Beneficiary) /\ w # <<>>
    BY <1>1, <1>2
  <2> HIDE DEF w
  <2>2. w[1] \in Beneficiary /\ 1 \in DOMAIN w /\ \A i \in DOMAIN w : w[i] \in Beneficiary
    BY <2>1
  <2>3. ToSet(w) \in (SUBSET Beneficiary) \ {{}}
    BY <2>2 DEF ToSet
  <2> QED BY <2>3 DEF w
<1> QED BY <1>1, <1>2, <1>3 DEF Sealed, Ledger!Proposal

LEMMA ListingsAreLists ==
  ASSUME NEW S \in SUBSET Beneficiary
  PROVE  Ledger!Listing(S) \in Ledger!BenList /\ Ledger!Listing(S).bens = S
BY DEF Ledger!Listing, Ledger!BenList

LEMMA LegalOpsStayLegal ==
  ASSUME NEW s \in Seq(Ops), UNCHANGED scenario, ClaimsStay
  PROVE  s \in Seq(Ops')
BY OpsStay

LEMMA EnginePhases ==
  ASSUME Engine
  PROVE  /\ phase \in {"reveal", "scan", "rule", "settle", "round_end", "finalize", "sweep", "clear"}
         /\ phase' \notin {"setup", "ops"}
         /\ asked' = asked /\ UNCHANGED <<scenario, condition, wish>>
<1>1. asked' = asked /\ UNCHANGED <<scenario, condition, wish>>
  BY DEF Engine, Idle, stormVars
<1>2. CASE RevealNext \/ EndReveals \/ ScanRound \/ EndRulings
  BY <1>1, <1>2 DEF RevealNext, EndReveals, ScanRound, EndRulings, Goto
<1>3. ASSUME NEW x, SettleContest(x)
      PROVE  phase \in {"settle"} /\ phase' = phase
  BY <1>3 DEF SettleContest, engineVars
<1>4. CASE EndSettlement \/ EndRound \/ SafetyFinalize \/ EndContestSweep \/ EndSweep
  BY <1>1, <1>4 DEF EndSettlement, EndRound, SafetyFinalize, EndContestSweep, EndSweep, Goto
<1>5. ASSUME NEW x, SweepContest(x) \/ SweepClaim(x)
      PROVE  phase \in {"sweep", "clear"} /\ phase' = phase
  BY <1>5 DEF SweepContest, SweepClaim, engineVars
<1> QED BY <1>1, <1>2, <1>3, <1>4, <1>5 DEF Engine

\* What is revealed was committed to by somebody's wish.
LEMMA RevealedIsLegal ==
  ASSUME StormInv, condition # "single", RevealNext, UNCHANGED <<scenario, condition, wish>>
  PROVE  WishesAreSealed' /\ ClaimsAreLegal' /\ UnitsAreLegal' /\ EverythingIsRegistered'
<1> DEFINE m == Head(sealed)
           p == commitments[m].digest
<1>1. Ledger!TypeOK /\ Ledger!NextIdsAreFree /\ SealsAreKept /\ WishesAreSealed /\ phase # "setup"
  BY LedgerFacts DEF StormInv, StageIsSet, EngineHolds, RevealNext
<1>2. m \in 1..MaxCommits /\ commitments[m].state = "sealed"
  <2>1. sealed # <<>> /\ sealed \in Seq(1..MaxCommits)
    BY <1>1 DEF SealsAreKept, RevealNext
  <2>2. m = sealed[1] /\ 1 \in 1..Len(sealed) /\ m \in 1..MaxCommits
    BY <2>1, FirstAndRest
  <2> QED BY <2>2, <1>1 DEF SealsAreKept
<1>3. Ledger!Reveal(m, p, TRUE)
  BY DEF RevealNext
<1> HIDE DEF m
<1>4. /\ ClaimsStay /\ SealsStay /\ registered' = registered
      /\ NewClaim(p.resource, p.bens, m) /\ NewUnits(p.resource, p.bens)
  BY <1>1, <1>2, <1>3, RevealsAddTheirClaim
<1>5. m \in 1..Len(wish)
  <2>1. ~(m > commitSeq) /\ m \in Nat
    BY <1>1, <1>2 DEF Ledger!NextIdsAreFree, Ledger!CommitId
  <2>2. Len(wish) = commitSeq /\ commitSeq \in Nat
    BY <1>1 DEF WishesAreSealed
  <2> QED BY <2>1, <2>2, <1>2
<1>6. p.bens = ToSet(wish[m].who) /\ MayBoard(p.resource, p.bens)
  BY <1>1, <1>5 DEF WishesAreSealed
<1> HIDE DEF p
<1>7. NoNewClaim \/ ClaimIsLegal(p.resource, p.bens, m)
  <2>1. CASE p.resource \in registered
    BY <1>5, <1>6, <2>1 DEF ClaimIsLegal
  <2>2. CASE p.resource \notin registered
    BY <1>4, <2>2 DEF NewClaim, NoNewClaim
  <2> QED BY <2>1, <2>2
<1>8. ClaimsAreLegal'
  BY <1>4, <1>7, ClaimsStayLegal
<1>9. UnitsAreLegal'
  BY <1>4, <1>6, UnitsStayLegal DEF StormInv
<1> QED BY <1>1, <1>4, <1>8, <1>9, WishesStay, RegistrationStays DEF StormInv
-----------------------------------------------------------------------------
(* The setup *)

\* The setup is over when everything is registered.
LEMMA SetupIsOver ==
  ASSUME StormInv, UNCHANGED <<scenario, registered>>, script = <<>>
  PROVE  EverythingIsRegistered'
<1>1. \A i \in DOMAIN Registrations(scenario) : Registrations(scenario)[i] \in registered
  BY DEF StormInv, EverythingIsRegistered
<1> QED BY <1>1 DEF EverythingIsRegistered
-----------------------------------------------------------------------------
(* The steps of the single planner *)

LEMMA PlannerFirstIsLegal ==
  ASSUME scenario \in Scenarios
  PROVE  PlannerFirst(scenario) \in Seq(Bids)
<1> DEFINE plan == GatePlan(scenario)
           at(i) == Bid("single_planner", plan[i].gate, <<plan[i].flight>>)
           s == [i \in DOMAIN plan |-> at(i)]
           w == <<"C1">>
           t == <<Bid("single_planner", FerryCrew, w)>>
<1>1. "single_planner" \in Agent
  BY RolesAreAgents
<1>2. plan \in Seq(Departures)
  BY GatePlanIsTyped
<1>3. PlannerFirst(scenario) = t \o s
  BY DEF PlannerFirst
<1>4. t \in Seq(Bids)
  <2>1. w \in Seq(Beneficiary) /\ w # <<>>
    BY StormIsTyped, OneIsASequence
  <2> HIDE DEF w
  <2>2. MayBoard(FerryCrew, ToSet(w))
    BY StormIsTyped DEF MayBoard
  <2>3. Bid("single_planner", FerryCrew, w) \in Bids
    BY <1>1, <2>1, <2>2, StormIsTyped, BidIsLegal
  <2> QED BY <2>3
<1> HIDE DEF plan, t
<1>5. DOMAIN plan = 1..Len(plan) /\ Len(plan) \in Nat
  BY <1>2
<1>6. \A i \in 1..Len(plan) : at(i) \in Bids
  BY <1>1, <1>2, ItemIsThere, DepartureBidsAreLegal
<1> HIDE DEF at
<1>7. s \in [1..Len(plan) -> Bids]
  BY <1>5, <1>6
<1>8. s \in Seq(Bids)
  BY <1>5, <1>7, MappedIsASequence
<1> HIDE DEF s
<1> QED BY <1>3, <1>4, <1>8, JoinedIsASequence

LEMMA CommercialKeysAreNumbers ==
  ASSUME scenario \in Scenarios
  PROVE  \A p \in Passenger : CommercialKey(scenario, p) \in Int
<1> SUFFICES ASSUME NEW p \in Passenger PROVE CommercialKey(scenario, p) \in Int
  OBVIOUS
<1>1. scenario.fare[p] \in {"F", "J", "W", "Y"}
  BY ScenariosAssumption
<1>2. FareRank[scenario.fare[p]] \in 0..3
  BY <1>1 DEF FareRank
<1>3. scenario.order[p] \in Nat /\ NPax \in Nat
  BY BookingsAreNumbers, PlacesAreIdentities
<1> DEFINE e == IF Category[p] = "elite" THEN 0 ELSE 1
           k == e * 4 + FareRank[scenario.fare[p]]
<1>4. k \in Nat
  BY <1>2
<1>5. CommercialKey(scenario, p) = k * (NPax + 1) + scenario.order[p]
  BY DEF CommercialKey
<1> HIDE DEF k
<1> QED BY <1>3, <1>4, <1>5

LEMMA PlannerOrderIsTyped ==
  ASSUME scenario \in Scenarios
  PROVE  PlannerOrder(scenario) \in Seq(Passenger)
<1> DEFINE key == [p \in Passenger |-> CommercialKey(scenario, p)]
<1>1. \A p \in Passenger : key[p] \in Int
  BY CommercialKeysAreNumbers
<1>2. PlannerOrder(scenario) = SortedBy(Passenger, key)
  BY DEF PlannerOrder
<1> HIDE DEF key
<1> QED BY <1>1, <1>2, SortedByIsInOrder

\* The planner's claims are not committed to.
LEMMA PlainClaims ==
  ASSUME StormInv, NEW p \in Ledger!Proposal, Ledger!SubmitPlain(p),
         MayBoard(p.resource, p.bens), UNCHANGED scenario, phase # "setup"
  PROVE  /\ Ledger!Next /\ UNCHANGED <<commitments, commitSeq>>
         /\ EverythingIsRegistered' /\ UnitsAreLegal'
<1>1. /\ claimSeq < MaxClaims /\ claimSeq' = claimSeq + 1
      /\ Ledger!InsertAndApply(claimSeq', p, 0)
      /\ UNCHANGED <<registered, commitments, commitSeq>>
  BY DEF Ledger!SubmitPlain
<1>2. Ledger!TypeOK /\ Ledger!NextIdsAreFree
  BY LedgerFacts DEF StormInv
<1>3. NewUnits(p.resource, p.bens)
  BY <1>1, <1>2, InsertsAddTheirClaim
<1>4. UnitsAreLegal'
  BY <1>3, UnitsStayLegal DEF StormInv
<1>5. EverythingIsRegistered'
  BY <1>1, RegistrationStays DEF StormInv
<1> QED BY <1>1, <1>4, <1>5 DEF Ledger!Next

LEMMA NotNegotiated ==
  ASSUME StormInv, phase \in {"plan", "seats"}
  PROVE  condition = "single"
BY DEF StormInv, StageIsSet, EngineHolds, ControlIsTyped, Phase

\* What the planner gives a passenger is a seat on a flight that is legal for them.
LEMMA PlannersSeatIsAClaim ==
  ASSUME StormInv, SeatNext
  PROVE  /\ phase = "seats" /\ phase' = "seats" /\ script' \in Seq(Passenger)
         /\ UNCHANGED <<asked, scenario, condition, wish, bankVars>>
         /\ \/ UNCHANGED ledgerVars
            \/ \E b \in Ledger!Proposal :
                 Ledger!SubmitPlain(b) /\ MayBoard(b.resource, b.bens)
<1> DEFINE p == Head(script)
           open == PlannerSeats(scenario, p, [r \in registered |-> Free(r)])
           f == EarliestArrival(open)
           b == [agent |-> "single_planner", bens |-> {p}, resource |-> Seat(scenario, f)]
<1>1. /\ phase = "seats" /\ phase' = "seats" /\ script # <<>> /\ script' = Tail(script)
      /\ UNCHANGED ledgerVars \/ (open # {} /\ Ledger!SubmitPlain(b))
      /\ UNCHANGED <<asked, scenario, condition, wish, bankVars>>
  BY DEF SeatNext, Done, stormVars, engineVars
<1>2. scenario \in Scenarios
  BY DEF StormInv, StageIsSet
<1>3. script \in Seq(Passenger)
  BY <1>1 DEF StormInv, ScriptIsLegal
<1>4. p \in Passenger /\ script' \in Seq(Passenger)
  BY <1>1, <1>3, FirstAndRest
<1>5. open \subseteq Legal(scenario, p) /\ open \subseteq Flight
  BY LegalFlightsAreFlights DEF PlannerSeats
<1> HIDE DEF p, open
<1>6. ASSUME open # {}, Ledger!SubmitPlain(b)
      PROVE  b \in Ledger!Proposal /\ MayBoard(b.resource, b.bens)
  <2>1. f \in Flight /\ f \in Legal(scenario, p)
    BY <1>5, <1>6, EarliestIsThere
  <2> HIDE DEF f
  <2>2. /\ "single_planner" \in Agent /\ p \in Beneficiary
        /\ Seat(scenario, f) \in Resource /\ Seat(scenario, f).of = f
    BY <1>2, <1>4, <2>1, RolesAreAgents, StormIsTyped
  <2>3. b.resource = Seat(scenario, f) /\ b.bens = {p} /\ {p} \in (SUBSET Beneficiary) \ {{}}
    BY <2>2
  <2>4. b \in Ledger!Proposal
    BY <2>2, <2>3 DEF Ledger!Proposal
  <2>5. MayBoard(b.resource, b.bens)
    BY <1>4, <2>1, <2>2, <2>3 DEF MayBoard
  <2> QED BY <2>4, <2>5
<1> HIDE DEF b
<1> QED BY <1>1, <1>4, <1>6
-----------------------------------------------------------------------------
(* The whole run *)

\* After the setup a negotiated run takes no step that the round engine does not:
\* the airline's agents and its duty manager are among the arbitrary ones for
\* which Society is proved.
PlaysByTheRules == [][condition # "single" /\ phase # "setup" => [Next]_vars]_runVars

\* The steps in which no agent has a part.
LEMMA SetupAndPlannerSteps ==
  ASSUME StormInv, [StormNext]_runVars, condition = "single" \/ phase = "setup"
  PROVE  \/ Register \/ StartSociety \/ StartPlanner \/ PlanFirst \/ PlanSeats \/ SeatNext
         \/ EndPlan \/ UNCHANGED runVars
<1>1. condition = "single" => phase \in {"setup", "plan", "seats", "done"}
  BY DEF StormInv, StageIsSet
<1>2. Engine => phase \in {"reveal", "scan", "rule", "settle", "round_end", "finalize", "sweep", "clear"}
  BY EnginePhases
<1>3. Mediate \/ MediateAtTheCap => phase \in {"rule", "finalize"}
  BY DEF Mediate, MediateAtTheCap, Rule, Fiat
<1>4. ApplyNext \/ ApplyDone => phase = "ops"
  BY DEF ApplyNext, ApplyDone, EndOps
<1>5. Consult \/ File \/ TakePosition \/ TurnOver => phase \in {"propose", "positions"}
  BY DEF Consult, File, TakePosition, TurnOver, EndTurn
<1> QED BY <1>1, <1>2, <1>3, <1>4, <1>5 DEF StormNext
-----------------------------------------------------------------------------
(* The planner *)

\* The bookings of a scenario are an order.
LEMMA BookingsDiffer ==
  ASSUME scenario \in Scenarios
  PROVE  \A p, q \in Passenger : scenario.order[p] = scenario.order[q] => p = q
<1> DEFINE f == [p \in Passenger |-> scenario.order[p]]
           g == [p \in Passenger |-> Place[p]]
<1>1. {scenario.order[p] : p \in Passenger} = 1..NPax
  BY ScenariosAssumption DEF Valid
<1>2. IsFiniteSet(Passenger) /\ NPax \in Nat
  BY PassengersAreFinite, PlacesAreIdentities
<1>3. f \in Surjection(Passenger, 1..NPax)
  BY <1>1 DEF Surjection
<1>4. g \in Surjection(Passenger, 1..NPax)
  <2>1. ASSUME NEW i \in 1..NPax PROVE \E p \in Passenger : Place[p] = i
    <3>1. i \in DOMAIN Roster
      BY RosterAssumption DEF NPax
    <3>2. Roster[i] \in Passenger
      BY <3>1 DEF Passenger
    <3>3. Roster[Place[Roster[i]]] = Roster[i] /\ Place[Roster[i]] \in 1..NPax
      BY <3>2, PlacesAreIdentities
    <3>4. Place[Roster[i]] = i
      BY <3>1, <3>3, RosterAssumption DEF NPax
    <3> QED BY <3>2, <3>4
  <2> QED BY <2>1, PlacesAreIdentities DEF Surjection
<1>5. g \in Injection(Passenger, 1..NPax)
  BY <1>4, PlacesAreIdentities DEF Injection, IsInjective, Surjection
<1>6. Cardinality(1..NPax) = Cardinality(Passenger)
  BY <1>2, <1>4, <1>5, FS_Surjection
<1>7. f \in Injection(Passenger, 1..NPax)
  BY <1>2, <1>3, <1>6, FS_Surjection
<1> QED BY <1>7 DEF Injection, IsInjective

LEMMA DigitsCompare ==
  ASSUME NEW n \in Nat, NEW k \in 0..7, NEW l \in 0..7, NEW x \in 1..n, NEW y \in 1..n,
         k * (n + 1) + x <= l * (n + 1) + y
  PROVE  k < l \/ (k = l /\ x <= y)
<1>1. SUFFICES ASSUME l < k PROVE FALSE
  <2>1. k = l => x <= y
    OBVIOUS
  <2> QED BY <1>1, <2>1
<1> DEFINE d == k - l
<1>2. d \in Nat /\ d >= 1 /\ k = l + d
  BY <1>1
<1> HIDE DEF d
<1>3. k * (n + 1) = l * (n + 1) + d * (n + 1)
  BY <1>2
<1>4. d * (n + 1) >= n + 1
  BY <1>2
<1>5. l * (n + 1) \in Nat /\ d * (n + 1) \in Nat
  BY <1>2
<1> QED BY <1>3, <1>4, <1>5

\* Whoever the planner serves first outranks the other.
LEMMA ServedFirstOutranks ==
  ASSUME scenario \in Scenarios, NEW p \in Passenger, NEW q \in Passenger, p # q,
         CommercialKey(scenario, p) <= CommercialKey(scenario, q)
  PROVE  Outranks(p, q)
<1> DEFINE e(x) == IF Category[x] = "elite" THEN 0 ELSE 1
           r(x) == FareRank[scenario.fare[x]]
           o(x) == scenario.order[x]
<1>1. ASSUME NEW x \in Passenger
      PROVE  e(x) \in 0..1 /\ r(x) \in 0..3 /\ o(x) \in 1..NPax
  <2>1. scenario.fare[x] \in {"F", "J", "W", "Y"}
    BY ScenariosAssumption
  <2>2. {scenario.order[z] : z \in Passenger} = 1..NPax
    BY ScenariosAssumption DEF Valid
  <2> QED BY <2>1, <2>2 DEF FareRank
<1>2. NPax \in Nat /\ o(p) # o(q)
  BY PlacesAreIdentities, BookingsDiffer
<1>3. (e(p) * 4 + r(p)) * (NPax + 1) + o(p) <= (e(q) * 4 + r(q)) * (NPax + 1) + o(q)
  BY DEF CommercialKey
<1>4. e(p) * 4 + r(p) \in 0..7 /\ e(q) * 4 + r(q) \in 0..7
  BY <1>1
<1>5. \/ e(p) * 4 + r(p) < e(q) * 4 + r(q)
      \/ e(p) * 4 + r(p) = e(q) * 4 + r(q) /\ o(p) <= o(q)
  BY <1>1, <1>2, <1>3, <1>4, DigitsCompare
<1>6. e(p) < e(q) \/ (e(p) = e(q) /\ (r(p) < r(q) \/ (r(p) = r(q) /\ o(p) < o(q))))
  <2> HIDE DEF e, r, o
  <2> QED BY <1>1, <1>2, <1>5
<1>7. e(p) < e(q) => Category[p] = "elite" /\ Category[q] # "elite"
  OBVIOUS
<1>8. e(p) = e(q) => ((Category[p] = "elite") = (Category[q] = "elite"))
  OBVIOUS
<1> QED BY <1>6, <1>7, <1>8 DEF Outranks

LEMMA NobodyOutranksThemselves ==
  ASSUME scenario \in Scenarios, NEW p \in Passenger
  PROVE  ~Outranks(p, p)
<1>1. scenario.fare[p] \in {"F", "J", "W", "Y"}
  BY ScenariosAssumption
<1>2. FareRank[scenario.fare[p]] \in 0..3
  BY <1>1 DEF FareRank
<1>3. scenario.order[p] \in Nat
  BY BookingsAreNumbers
<1> QED BY <1>2, <1>3 DEF Outranks

LEMMA PlannerOrderIsByRank ==
  ASSUME scenario \in Scenarios
  PROVE  LET s == PlannerOrder(scenario)
         IN  /\ s \in Seq(Passenger)
             /\ \A p \in Passenger : \E i \in 1..Len(s) : s[i] = p
             /\ \A i, j \in 1..Len(s) : i < j => Outranks(s[i], s[j])
<1> DEFINE key == [p \in Passenger |-> CommercialKey(scenario, p)]
           s == PlannerOrder(scenario)
<1>1. \A p \in Passenger : key[p] \in Int /\ key[p] = CommercialKey(scenario, p)
  BY CommercialKeysAreNumbers
<1>2. s = SortedBy(Passenger, key)
  BY DEF PlannerOrder
<1> HIDE DEF key, s
<1>3. /\ s \in Seq(Passenger) /\ \A p \in Passenger : \E i \in 1..Len(s) : s[i] = p
      /\ \A i, j \in 1..Len(s) : i < j <=> <<s[i], s[j]>> \in Earlier(Passenger, key)
  BY <1>1, <1>2, SortedByIsInOrder
<1>4. ASSUME NEW i \in 1..Len(s), NEW j \in 1..Len(s), i < j PROVE Outranks(s[i], s[j])
  <2>1. s[i] \in Passenger /\ s[j] \in Passenger
    BY <1>3, ItemIsThere
  <2>2. \/ key[s[i]] < key[s[j]]
        \/ key[s[i]] = key[s[j]] /\ Place[s[i]] < Place[s[j]]
    <3>1. <<s[i], s[j]>> \in Earlier(Passenger, key)
      BY <1>3, <1>4
    <3>2. PICK a, b \in Passenger : a = s[i] /\ b = s[j]
      BY <2>1
    <3>3. \/ key[a] < key[b]
          \/ key[a] = key[b] /\ Place[a] < Place[b]
      <4>1. <<a, b>> \in Earlier(Passenger, key)
        BY <3>1, <3>2
      <4>2. \A z \in Earlier(Passenger, key) : \/ key[z[1]] < key[z[2]]
                                               \/ key[z[1]] = key[z[2]] /\ Place[z[1]] < Place[z[2]]
        BY DEF Earlier
      <4> QED BY <4>1, <4>2
    <3> QED BY <3>2, <3>3
  <2>3. Place[s[i]] \in Int /\ Place[s[j]] \in Int
    BY <2>1, PlacesAreIdentities
  <2>4. s[i] # s[j] /\ key[s[i]] <= key[s[j]]
    BY <2>1, <2>2, <2>3, <1>1
  <2> QED BY <2>1, <2>4, <1>1, ServedFirstOutranks
<1> QED BY <1>3, <1>4 DEF s
-----------------------------------------------------------------------------
(* What the planner does to the tables *)

\* p has no reason to complain.
Content(p) ==
  \A f \in Legal(scenario, p) :
    \/ \E g \in Flight : HasSeat(p, g) /\ Timetable[g].arr <= Timetable[f].arr
    \/ ~IsFree(f) /\ \A q \in Passenger : HasSeat(q, f) => Outranks(q, p)

\* Before the passengers' turn no seat is given; from then on those who are still
\* to be served stand in the order of their rank, behind all who have a seat, and
\* the others are content.
PlannerInv ==
  condition = "single" =>
    /\ phase \in {"setup", "plan"} => \A u \in alloc : u.resource.kind # "seat"
    /\ phase = "plan" => \A i \in 1..Len(script) : script[i].resource.kind # "seat"
    /\ phase = "seats" =>
         /\ \A i, j \in 1..Len(script) : i < j => Outranks(script[i], script[j])
         /\ \A u \in alloc : u.resource.kind = "seat" =>
              \A i \in 1..Len(script) : Outranks(u.ben, script[i])
         /\ \A p \in Passenger : (\E i \in 1..Len(script) : script[i] = p) \/ Content(p)
    /\ phase = "done" => \A p \in Passenger : Content(p)

LEMMA UnitsAreFinite == StormInv => IsFiniteSet(alloc)
  BY DEF StormInv, LedgerHolds

\* Units that come do not make room.
LEMMA FreeFalls ==
  ASSUME IsFiniteSet(alloc'), alloc \subseteq alloc', NEW r \in Resource
  PROVE  /\ Free(r) \in Int /\ Free(r)' \in Int /\ Free(r)' <= Free(r)
<1> DEFINE U == {x \in alloc : x.resource = r}
           V == {x \in alloc' : x.resource = r}
<1>1. U \subseteq V /\ IsFiniteSet(V)
  BY FS_Subset
<1>2. /\ Cardinality(U) \in Nat /\ Cardinality(V) \in Nat
      /\ Cardinality(U) <= Cardinality(V)
  BY <1>1, FS_Subset, FS_CardinalityType
<1>3. Ledger!Used(r) = Cardinality(U) /\ Ledger!Used(r)' = Cardinality(V)
  BY LedgersCount DEF Ledger!Used
<1>4. Capacity[r] \in Nat
  BY LedgerAssumption
<1> HIDE DEF U, V
<1> QED BY <1>2, <1>3, <1>4 DEF Free

\* A seat taken on a flight that had room leaves the content so.
LEMMA ContentStays ==
  ASSUME scenario \in Scenarios, UNCHANGED scenario, IsFiniteSet(alloc'), alloc \subseteq alloc',
         NEW g \in Flight, IsFree(g),
         \A u \in alloc' : u \in alloc \/ u.resource = Seat(scenario, g),
         NEW p \in Passenger, Content(p)
  PROVE  Content(p)'
<1>1. ASSUME NEW q, NEW f, HasSeat(q, f) PROVE HasSeat(q, f)'
  BY <1>1 DEF HasSeat
<1>2. ASSUME NEW f \in Flight, ~IsFree(f)
      PROVE  ~IsFree(f)' /\ \A q \in Passenger : HasSeat(q, f)' => HasSeat(q, f)
  <2>1. Seat(scenario, f) \in Resource /\ Seat(scenario, f) # Seat(scenario, g)
    <3>1. f # g
      BY <1>2
    <3>2. Seat(scenario, f).of = f /\ Seat(scenario, g).of = g
      BY StormIsTyped
    <3> QED BY <3>1, <3>2, StormIsTyped
  <2>2. ~IsFree(f)'
    BY <1>2, <2>1, FreeFalls DEF IsFree
  <2>3. ASSUME NEW q \in Passenger, HasSeat(q, f)' PROVE HasSeat(q, f)
    BY <2>1, <2>3 DEF HasSeat
  <2> QED BY <2>2, <2>3
<1> SUFFICES ASSUME NEW f \in Legal(scenario, p)
             PROVE  \/ \E h \in Flight : HasSeat(p, h)' /\ Timetable[h].arr <= Timetable[f].arr
                    \/ ~IsFree(f)' /\ \A q \in Passenger : HasSeat(q, f)' => Outranks(q, p)'
  BY DEF Content
<1>3. f \in Flight
  BY LegalFlightsAreFlights
<1>4. \A q : Outranks(q, p)' <=> Outranks(q, p)
  BY DEF Outranks
<1> QED BY <1>1, <1>2, <1>3, <1>4 DEF Content

LEMMA AsContentAsBefore ==
  ASSUME UNCHANGED <<scenario, alloc>>
  PROVE  /\ \A p \in Passenger : Content(p)' <=> Content(p)
         /\ \A p, q : Outranks(p, q)' <=> Outranks(p, q)
<1>1. \A p, q : Outranks(p, q)' <=> Outranks(p, q)
  BY DEF Outranks
<1>2. \A p, f : HasSeat(p, f)' <=> HasSeat(p, f)
  BY DEF HasSeat
<1>3. \A f : IsFree(f)' <=> IsFree(f)
  BY DEF IsFree, Free, Ledger!Used
<1> QED BY <1>1, <1>2, <1>3 DEF Content

\* The planner is not refused a seat that is free.
LEMMA OpenSeatIsGranted ==
  ASSUME StormInv, NEW p \in Passenger, NEW f \in Flight, Seat(scenario, f) \in registered,
         Free(Seat(scenario, f)) >= 1,
         \A u \in alloc : u.resource.kind = "seat" => u.ben # p,
         NEW b, b.resource = Seat(scenario, f), b.bens = {p},
         NEW c, NEW m, Ledger!InsertAndApply(c, b, m)
  PROVE  alloc' = alloc \union {[resource |-> Seat(scenario, f), ben |-> p, claim |-> c]}
<1> DEFINE r == Seat(scenario, f)
           l == Ledger!Listing({p})
<1>1. r \in Resource /\ r.kind = "seat" /\ scenario \in Scenarios
  BY StormIsTyped DEF StormInv, StageIsSet
<1>2. l.bens = {p} /\ l.repeats = FALSE /\ Ledger!Length(l) = 1
  <2>1. Cardinality({p}) = 1
    BY FS_Singleton
  <2> QED BY <2>1, LedgersCount DEF Ledger!Length, Ledger!Listing
<1>3. Ledger!FitsCapacity(r, l)
  <2>1. Capacity[r] \in Nat
    BY <1>1, LedgerAssumption
  <2>2. Ledger!Used(r) \in Nat
    <3>1. Cardinality({x \in alloc : x.resource = r}) \in Nat
      BY UnitsAreFinite, FS_Subset, FS_CardinalityType
    <3> QED BY <3>1, LedgersCount DEF Ledger!Used
  <2> HIDE DEF r, l
  <2>3. Capacity[r] - Ledger!Used(r) >= 1
    BY DEF Free, r
  <2> QED BY <2>1, <2>2, <2>3, <1>2 DEF Ledger!FitsCapacity
<1>4. \A x \in alloc : x.ben = p => x.resource.kind # "seat" /\ x.resource \in Resource
  BY LedgerFacts DEF StormInv, Ledger!TypeOK, Ledger!Allocation
<1>5. \A s \in Resource : (Group[s] = "seat") <=> (s.kind = "seat")
  BY AirlineAssumption DEF Groups, GroupOf
<1>6. Ledger!HeldInGroup(r, p) = {}
  BY <1>1, <1>4, <1>5 DEF Ledger!HeldInGroup
<1>7. Ledger!FitsGroup(r, l)
  BY <1>2, <1>6 DEF Ledger!FitsGroup
<1>8. Ledger!SchemaAccepts(r, l)
  BY <1>1, <1>2, <1>3, <1>4, <1>7 DEF Ledger!SchemaAccepts
<1>9. Ledger!TryAllocate(r, l) = "granted"
  BY <1>3, <1>7, <1>8 DEF Ledger!TryAllocate
<1>10. Ledger!Allocate(c, r, {p})
  <2> HIDE DEF r, l
  <2>1. b.resource = r /\ Ledger!Listing(b.bens) = l /\ b.bens = {p} /\ r \in registered
    BY DEF r, l
  <2> QED BY <2>1, <1>9 DEF Ledger!InsertAndApply
<1> QED BY <1>10 DEF Ledger!Allocate

LEMMA PlanFirstInv == StormInv /\ PlannerInv /\ PlanFirst => PlannerInv'
<1> SUFFICES ASSUME StormInv, PlannerInv, PlanFirst PROVE PlannerInv'
  OBVIOUS
<1> DEFINE b == Head(script)
<1>1. /\ phase = "plan" /\ phase' = "plan" /\ script # <<>> /\ script' = Tail(script)
      /\ Ledger!SubmitPlain(Sealed(b)) /\ condition' = condition
  BY DEF PlanFirst, Done, stormVars, engineVars
<1>2. condition = "single"
  BY <1>1, NotNegotiated
<1>3. script \in Seq(Bids)
  BY <1>1 DEF StormInv, ScriptIsLegal
<1>4. /\ \A u \in alloc : u.resource.kind # "seat"
      /\ \A i \in 1..Len(script) : script[i].resource.kind # "seat"
  BY <1>1, <1>2 DEF PlannerInv
<1>5. /\ b \in Bids /\ b.resource.kind # "seat"
      /\ \A i \in 1..Len(script') : script'[i].resource.kind # "seat"
  <2>1. b = script[1] /\ 1 \in 1..Len(script) /\ b \in Bids
    BY <1>1, <1>3
  <2>2. \A i \in 1..Len(script') : i + 1 \in 1..Len(script) /\ script'[i] = script[i + 1]
    BY <1>1, <1>3
  <2> QED BY <2>1, <2>2, <1>4
<1> HIDE DEF b
<1>6. Sealed(b).resource = b.resource
  BY <1>5, SealedBidsAreProposals
<1>7. NewUnits(b.resource, Sealed(b).bens)
  <2>1. Ledger!TypeOK /\ Ledger!NextIdsAreFree
    BY LedgerFacts DEF StormInv
  <2> QED BY <2>1, <1>1, <1>6, InsertsAddTheirClaim DEF Ledger!SubmitPlain
<1>8. \A u \in alloc' : u.resource.kind # "seat"
  BY <1>4, <1>5, <1>7 DEF NewUnits
<1> QED BY <1>1, <1>5, <1>8 DEF PlannerInv

LEMMA SeatNextInv ==
  ASSUME StormInv, PlannerInv, SeatNext, StormInv'
  PROVE  PlannerInv'
<1> PICK p : p = Head(script)
  OBVIOUS
<1> DEFINE free == [r \in registered |-> Free(r)]
           open == PlannerSeats(scenario, p, free)
           Asks(g) == [agent |-> "single_planner", bens |-> {p}, resource |-> Seat(scenario, g)]
<1>1. /\ phase = "seats" /\ phase' = "seats" /\ script # <<>> /\ script' = Tail(script)
      /\ \/ open = {} /\ UNCHANGED ledgerVars
         \/ open # {} /\ Ledger!SubmitPlain(Asks(EarliestArrival(open)))
      /\ UNCHANGED <<scenario, condition>>
  BY DEF SeatNext, Done, stormVars, engineVars
<1>2. condition = "single" /\ scenario \in Scenarios /\ Ready
  BY <1>1, NotNegotiated, RunsAreReady DEF Ready
<1>3. script \in Seq(Passenger)
  BY <1>1 DEF StormInv, ScriptIsLegal
<1>4. /\ p \in Passenger /\ p = script[1] /\ 1 \in 1..Len(script) /\ script' \in Seq(Passenger)
      /\ \A i \in 1..Len(script') : i + 1 \in 1..Len(script) /\ 1 < i + 1
                                   /\ script'[i] = script[i + 1]
      /\ \A i \in 1..Len(script) : i = 1 \/ (i - 1 \in 1..Len(script') /\ script'[i - 1] = script[i])
  BY <1>1, <1>3
<1>5. /\ \A i, j \in 1..Len(script) : i < j => Outranks(script[i], script[j])
      /\ \A u \in alloc : u.resource.kind = "seat" =>
           \A i \in 1..Len(script) : Outranks(u.ben, script[i])
      /\ \A q \in Passenger : (\E i \in 1..Len(script) : script[i] = q) \/ Content(q)
  BY <1>1, <1>2 DEF PlannerInv
<1>6. \A q, s : Outranks(q, s)' <=> Outranks(q, s)
  BY <1>1 DEF Outranks
<1>7. \A i \in 1..Len(script') : Outranks(p, script'[i])
  BY <1>4, <1>5
<1>8. \A i, j \in 1..Len(script') : i < j => Outranks(script'[i], script'[j])
  <2> SUFFICES ASSUME NEW i \in 1..Len(script'), NEW j \in 1..Len(script'), i < j
               PROVE  Outranks(script'[i], script'[j])
    OBVIOUS
  <2>1. i + 1 \in 1..Len(script) /\ j + 1 \in 1..Len(script) /\ i + 1 < j + 1
    BY <1>4
  <2> QED BY <2>1, <1>4, <1>5
<1>9. \A u \in alloc : u.resource.kind = "seat" => u.ben # p
  BY <1>2, <1>4, <1>5, NobodyOutranksThemselves
\* Every flight that p could take and does not is full of passengers before p.
<1>10. ASSUME NEW f \in Legal(scenario, p), f \notin open
       PROVE  /\ f \in Flight /\ ~IsFree(f)
              /\ \A q \in Passenger : HasSeat(q, f) => Outranks(q, p)
  <2>1. f \in Flight
    BY LegalFlightsAreFlights
  <2>2. Seat(scenario, f) \in registered /\ Seat(scenario, f).kind = "seat"
    BY <1>2, <2>1, StormIsTyped DEF Ready
  <2>3. ~(Free(Seat(scenario, f)) >= 1) /\ Free(Seat(scenario, f)) \in Nat
    BY <1>10, <2>2, FreeIsANumber DEF PlannerSeats
  <2>4. ASSUME NEW q \in Passenger, HasSeat(q, f) PROVE Outranks(q, p)
    BY <2>2, <2>4, <1>4, <1>5 DEF HasSeat
  <2> QED BY <2>1, <2>3, <2>4 DEF IsFree
<1>11. open \subseteq Flight /\ open \subseteq Legal(scenario, p)
  BY LegalFlightsAreFlights DEF PlannerSeats
<1> SUFFICES /\ \A u \in alloc' : u.resource.kind = "seat" =>
                  \A i \in 1..Len(script') : Outranks(u.ben, script'[i])
             /\ \A q \in Passenger : (\E i \in 1..Len(script') : script'[i] = q) \/ Content(q)'
  BY <1>1, <1>6, <1>8 DEF PlannerInv
<1>12. \A q \in Passenger :
         (\E i \in 1..Len(script') : script'[i] = q) \/ q = p \/ Content(q)
  BY <1>4, <1>5
<1>13. CASE open = {} /\ UNCHANGED ledgerVars
  <2>1. alloc' = alloc
    BY <1>13 DEF ledgerVars
  <2>2. Content(p)
    BY <1>10, <1>13 DEF Content
  <2>3. \A q \in Passenger : Content(q) => Content(q)'
    BY <1>1, <2>1, AsContentAsBefore
  <2>4. \A u \in alloc' : u.resource.kind = "seat" =>
          \A i \in 1..Len(script') : Outranks(u.ben, script'[i])
    BY <1>4, <1>5, <2>1
  <2> QED BY <1>4, <1>12, <2>2, <2>3, <2>4
<1>14. CASE open # {} /\ Ledger!SubmitPlain(Asks(EarliestArrival(open)))
  <2> PICK g : g = EarliestArrival(open)
    OBVIOUS
  <2>1. g \in open /\ \A f \in open : Timetable[g].arr <= Timetable[f].arr
    BY <1>11, <1>14, EarliestIsThere
  <2>2. g \in Flight /\ Seat(scenario, g) \in registered
    BY <1>2, <1>11, <2>1 DEF Ready
  <2>3. Free(Seat(scenario, g)) >= 1
    BY <2>1, <2>2 DEF PlannerSeats
  <2>4. Ledger!InsertAndApply(claimSeq', Asks(g), 0)
    BY <1>14 DEF Ledger!SubmitPlain
  <2> DEFINE u0 == [resource |-> Seat(scenario, g), ben |-> p, claim |-> claimSeq']
  <2>5. Asks(g).resource = Seat(scenario, g) /\ Asks(g).bens = {p}
    OBVIOUS
  <2> HIDE DEF Asks
  <2>6. alloc' = alloc \union {u0}
    BY <1>4, <1>9, <2>2, <2>3, <2>4, <2>5, OpenSeatIsGranted
  <2>7. u0.ben = p /\ u0.resource = Seat(scenario, g)
    OBVIOUS
  <2> HIDE DEF u0
  <2>8. IsFiniteSet(alloc')
    <3>1. IsFiniteSet(alloc)
      BY UnitsAreFinite
    <3> QED BY <3>1, <2>6, FS_AddElement
  <2>9. IsFree(g)
    BY <2>2, <2>3, FreeIsANumber DEF IsFree
  <2>10. alloc \subseteq alloc' /\ \A u \in alloc' : u \in alloc \/ u.resource = Seat(scenario, g)
    BY <2>6, <2>7
  <2>11. \A q \in Passenger : Content(q) => Content(q)'
    BY <1>1, <1>2, <2>2, <2>8, <2>9, <2>10, ContentStays
  <2>12. HasSeat(p, g)'
    BY <1>1, <2>6, <2>7 DEF HasSeat
  <2>13. ASSUME NEW f \in Legal(scenario, p)
         PROVE  \/ \E h \in Flight : HasSeat(p, h)' /\ Timetable[h].arr <= Timetable[f].arr
                \/ ~IsFree(f)' /\ \A q \in Passenger : HasSeat(q, f)' => Outranks(q, p)'
    <3>1. CASE f \in open
      BY <3>1, <2>1, <2>2, <2>12
    <3>2. CASE f \notin open
      <4>1. /\ f \in Flight /\ ~IsFree(f)
            /\ \A q \in Passenger : HasSeat(q, f) => Outranks(q, p)
        BY <3>2, <1>10
      <4>2. Seat(scenario, f) \in Resource /\ Seat(scenario, f) # Seat(scenario, g)
        <5>1. f # g
          BY <4>1, <2>9
        <5>2. Seat(scenario, f).of = f /\ Seat(scenario, g).of = g
          BY <1>2, <2>2, <4>1, StormIsTyped
        <5> QED BY <5>1, <5>2, <1>2, <4>1, StormIsTyped
      <4>3. ~IsFree(f)'
        BY <1>1, <2>8, <2>10, <4>1, <4>2, FreeFalls DEF IsFree
      <4>4. ASSUME NEW q \in Passenger, HasSeat(q, f)' PROVE HasSeat(q, f)
        BY <1>1, <2>10, <4>2, <4>4 DEF HasSeat
      <4> QED BY <1>6, <4>1, <4>3, <4>4
    <3> QED BY <3>1, <3>2
  <2>14. Content(p)'
    BY <1>1, <2>13 DEF Content
  <2>15. \A u \in alloc' : u.resource.kind = "seat" =>
           \A i \in 1..Len(script') : Outranks(u.ben, script'[i])
    BY <1>4, <1>5, <1>7, <2>6, <2>7
  <2> QED BY <1>12, <2>11, <2>14, <2>15
<1> QED BY <1>1, <1>13, <1>14

LEMMA PlanSeatsInv == StormInv /\ PlannerInv /\ PlanSeats => PlannerInv'
<1> SUFFICES ASSUME StormInv, PlannerInv, PlanSeats PROVE PlannerInv'
  OBVIOUS
<1>1. /\ phase = "plan" /\ phase' = "seats" /\ script' = PlannerOrder(scenario)
      /\ UNCHANGED <<scenario, condition, alloc>>
  BY DEF PlanSeats, Goto, stormVars, ledgerVars
<1>2. condition = "single" /\ scenario \in Scenarios
  BY <1>1, NotNegotiated DEF StormInv, StageIsSet
<1>3. /\ \A p \in Passenger : \E i \in 1..Len(script') : script'[i] = p
      /\ \A i, j \in 1..Len(script') : i < j => Outranks(script'[i], script'[j])
  BY <1>1, <1>2, PlannerOrderIsByRank
<1>4. \A u \in alloc' : u.resource.kind # "seat"
  BY <1>1, <1>2 DEF PlannerInv
<1>5. \A q, s : Outranks(q, s)' <=> Outranks(q, s)
  BY <1>1 DEF Outranks
<1> QED BY <1>1, <1>3, <1>4, <1>5 DEF PlannerInv

LEMMA EndPlanInv == StormInv /\ PlannerInv /\ EndPlan => PlannerInv'
<1> SUFFICES ASSUME StormInv, PlannerInv, EndPlan PROVE PlannerInv'
  OBVIOUS
<1>1. /\ phase = "seats" /\ phase' = "done" /\ script = <<>>
      /\ UNCHANGED <<scenario, condition, alloc>>
  BY DEF EndPlan, Goto, Idle, stormVars, ledgerVars
<1>2. condition = "single"
  BY <1>1, NotNegotiated
<1>3. \A p \in Passenger : (\E i \in 1..Len(script) : script[i] = p) \/ Content(p)
  BY <1>1, <1>2 DEF PlannerInv
<1>4. 1..Len(script) = {}
  BY <1>1
<1>5. \A p \in Passenger : Content(p)'
  BY <1>1, <1>3, <1>4, AsContentAsBefore
<1> QED BY <1>1, <1>5 DEF PlannerInv

LEMMA PlannerFirstHasNoSeats ==
  ASSUME scenario \in Scenarios
  PROVE  \A i \in 1..Len(PlannerFirst(scenario)) : PlannerFirst(scenario)[i].resource.kind # "seat"
<1> DEFINE plan == GatePlan(scenario)
           first == Bid("single_planner", FerryCrew, <<"C1">>)
           at(i) == Bid("single_planner", plan[i].gate, <<plan[i].flight>>)
           s == [i \in DOMAIN plan |-> at(i)]
           T == {first} \union {at(i) : i \in 1..Len(plan)}
<1>1. plan \in Seq(Departures)
  BY GatePlanIsTyped
<1>2. PlannerFirst(scenario) = <<first>> \o s
  BY DEF PlannerFirst
<1>3. first.resource.kind # "seat"
  BY DEF Bid, FerryCrew
<1> HIDE DEF plan, first
<1>4. DOMAIN plan = 1..Len(plan) /\ Len(plan) \in Nat
  BY <1>1
<1>5. \A i \in 1..Len(plan) : plan[i].gate.kind # "seat"
  <2>1. \A i \in 1..Len(plan) : plan[i] \in Departures
    BY <1>1
  <2> QED BY <2>1 DEF Departures, Gate
<1>6. \A i \in 1..Len(plan) : at(i).resource.kind # "seat"
  BY <1>5 DEF Bid
<1> HIDE DEF at
<1>7. s \in [1..Len(plan) -> T]
  BY <1>4
<1>8. s \in Seq(T)
  BY <1>4, <1>7, MappedIsASequence
<1>9. \A b \in T : b.resource.kind # "seat"
  BY <1>3, <1>6
<1>10. <<first>> \in Seq(T)
  BY OneIsASequence
<1> HIDE DEF T, s
<1>11. PlannerFirst(scenario) \in Seq(T)
  BY <1>2, <1>8, <1>10, JoinedIsASequence
<1> QED BY <1>9, <1>11, ItemIsThere

LEMMA SetupInv ==
  ASSUME StormInv, PlannerInv, Register \/ StartPlanner
  PROVE  PlannerInv'
<1>1. CASE Register
  <2>1. /\ phase = "setup" /\ phase' = "setup" /\ condition' = condition /\ alloc' = alloc
    BY <1>1 DEF Register, Done, stormVars, engineVars, Ledger!RegisterResource, Ledger!NoEffect, Ledger!tables
  <2> QED BY <2>1 DEF PlannerInv
<1>2. CASE StartPlanner
  <2>1. /\ phase = "setup" /\ phase' = "plan" /\ condition = "single"
        /\ script' = PlannerFirst(scenario) /\ UNCHANGED <<condition, alloc>>
    BY <1>2 DEF StartPlanner, Goto, stormVars, ledgerVars
  <2> QED BY <2>1, PlannerFirstHasNoSeats DEF PlannerInv, StormInv, StageIsSet
<1> QED BY <1>1, <1>2

LEMMA PlannerInvIsInductive ==
  /\ StormInit => PlannerInv
  /\ StormInv /\ StormInv' /\ PlannerInv /\ [StormNext]_runVars => PlannerInv'
<1>1. StormInit => PlannerInv
  BY DEF StormInit, Init, Ledger!Init, PlannerInv
<1>2. ASSUME StormInv, StormInv', PlannerInv, [StormNext]_runVars
      PROVE  PlannerInv'
  <2>1. condition' = condition
    BY <1>2 DEF StormNext, runVars, stormVars, Register, StartSociety, Consult, File, TakePosition,
       TurnOver, Mediate, MediateAtTheCap, Decree, ApplyNext, ApplyDone, Engine, Done, Idle,
       StartPlanner, PlanFirst, PlanSeats, SeatNext, EndPlan
  <2>2. CASE condition # "single"
    BY <2>1, <2>2 DEF PlannerInv
  <2>3. CASE condition = "single"
    <3>1. ~StartSociety
      BY <2>3 DEF StartSociety
    <3>2. CASE UNCHANGED runVars
      <4>1. UNCHANGED <<scenario, condition, alloc, phase, script>>
        BY <3>2 DEF runVars, vars, ledgerVars, engineVars, stormVars
      <4>2. \A p, q : Outranks(p, q)' <=> Outranks(p, q)
        BY <4>1 DEF Outranks
      <4>3. \A p \in Passenger : Content(p)' <=> Content(p)
        BY <4>1, AsContentAsBefore
      <4> QED BY <1>2, <4>1, <4>2, <4>3 DEF PlannerInv
    <3> QED BY <1>2, <2>3, <3>1, <3>2, SetupAndPlannerSteps, SetupInv, PlanFirstInv, PlanSeatsInv,
          SeatNextInv, EndPlanInv
  <2> QED BY <2>2, <2>3
<1> QED BY <1>1, <1>2
-----------------------------------------------------------------------------
(* No policy ends a run *)

\* What the hotel desk is about to give back is still held.
YieldsCanBeFiled ==
  \A i \in 1..Len(script) : script[i].stance = "yield" =>
    /\ script[i].release \subseteq Ledger!Holders(script[i].target)
    /\ \A j \in 1..Len(script) :
         script[j].stance = "yield" /\ script[j].target = script[i].target => i = j

RunGoesOn ==
  /\ phase # "aborted"
  /\ phase = "positions" /\ asked => YieldsCanBeFiled

LEMMA RecordsAreOfClaims ==
  ASSUME NEW status, NEW c \in Records(status)
  PROVE  c.id \in ClaimId /\ claims[c.id].status = status /\ c.holders = Ledger!Holders(c.id)
         /\ c.agent = claims[c.id].agent /\ c.resource = claims[c.id].resource
<1>1. PICK d \in ClaimId : claims[d].status = status /\ c = Record(d)
  BY DEF Records
<1> QED BY <1>1 DEF Record

LEMMA ConsultGoesOn == StormInv /\ RunGoesOn /\ Consult => RunGoesOn'
<1> SUFFICES ASSUME StormInv, RunGoesOn, Consult PROVE RunGoesOn'
  OBVIOUS
<1>1. ViewIsSound(View) /\ ControlIsTyped
  BY Negotiated DEF Consult
<1>2. phase' = phase /\ phase \in {"propose", "positions"} /\ UNCHANGED <<alloc, claims>>
  BY DEF Consult, vars, engineVars, ledgerVars
<1>3. ASSUME phase = "positions" PROVE YieldsCanBeFiled'
  <2>1. script' = Positions(Speaker, View)
    BY <1>3 DEF Consult
  <2>2. Speaker \in {"rebooking", "crew_legality", "gate_ground", "hotel", "advocate"}
    BY <1>1, SpeakerIsAnAgent, RolesAreAgents, AirlineAssumption
  <2>3. CASE Speaker # "hotel"
    <3>1. script' \in Seq(Notes)
      BY <1>1, <2>1, <2>2, <2>3, PositionsAreTyped
    <3>2. \A i \in 1..Len(script') : script'[i].stance # "yield"
      BY <3>1, ItemIsThere DEF Notes
    <3> QED BY <3>2 DEF YieldsCanBeFiled
  <2>4. CASE Speaker = "hotel"
    <3> DEFINE v == View
    <3>1. script' = HotelResponds(v)
      BY <2>1, <2>4 DEF Positions
    <3>2. \A c \in Lodged(v) : c \in Records("granted")
      BY DEF Lodged, Mine, View
    <3> HIDE DEF v
    <3>3. /\ \A i \in 1..Len(script') : \E c \in Lodged(v) :
               script'[i] = Take("hotel", "yield", c.id, c.holders \intersect Seated(v))
          /\ \A i, j \in 1..Len(script') : script'[i].target = script'[j].target => i = j
      BY <1>1, <3>1, HotelRespondsTyped DEF v
    <3>4. ASSUME NEW i \in 1..Len(script')
          PROVE  (script[i].release \subseteq Ledger!Holders(script[i].target))'
      <4>1. PICK c \in Lodged(v) :
               script'[i] = Take("hotel", "yield", c.id, c.holders \intersect Seated(v))
        BY <3>3
      <4>2. c.holders = Ledger!Holders(c.id)
        BY <3>2, RecordsAreOfClaims
      <4>3. script'[i].release \subseteq c.holders /\ script'[i].target = c.id
        BY <4>1 DEF Take
      <4> QED BY <4>2, <4>3, <1>2, Zenon DEF Ledger!Holders
    <3> QED BY <3>3, <3>4 DEF YieldsCanBeFiled
  <2> QED BY <2>3, <2>4
<1> QED BY <1>2, <1>3 DEF RunGoesOn

LEMMA TakePositionGoesOn == StormInv /\ RunGoesOn /\ TakePosition => RunGoesOn'
<1> SUFFICES ASSUME StormInv, RunGoesOn, TakePosition PROVE RunGoesOn'
  OBVIOUS
<1> DEFINE p == Head(script)
           l == Ledger!Listing(p.release)
<1>1. /\ phase = "positions" /\ asked /\ script # <<>> /\ script' = Tail(script)
      /\ \/ FileBlock(p.target)
         \/ p.stance = "yield" /\ FileYield(p.target, l)
         \/ FileNote
  BY DEF TakePosition, Done
<1>2. ControlIsTyped /\ Ledger!TypeOK
  BY <1>1, Negotiated
<1>3. script \in Seq(Stands)
  BY <1>1 DEF StormInv, ScriptIsLegal
<1>4. /\ 1 \in 1..Len(script) /\ p = script[1] /\ p \in Stands
      /\ Len(Tail(script)) = Len(script) - 1 /\ Len(script) \in Nat
      /\ \A i \in 1..Len(script) - 1 : Tail(script)[i] = script[i + 1] /\ i + 1 \in 1..Len(script)
  BY <1>1, <1>3, FirstAndRest
<1>5. YieldsCanBeFiled
  BY <1>1 DEF RunGoesOn
<1> HIDE DEF p
<1>6. p.stance = "yield" => l.bens \subseteq Ledger!Holders(p.target) /\ ~l.repeats
  BY <1>4, <1>5 DEF YieldsCanBeFiled, Ledger!Listing
<1> HIDE DEF l
<1>7. phase' # "aborted"
  <2>1. ASSUME FileBlock(p.target) PROVE phase' # "aborted"
    <3>1. Speaker \in Account
      <4>1. \E i \in 1..Len(AgentList) : Speaker = AgentList[i]
        BY <1>2, SpeakerIsAnAgent
      <4>2. DOMAIN AgentOrder = 1..Len(AgentOrder)
        BY RolesAreAgents
      <4> QED BY <4>1, <4>2, AirlineAssumption DEF TarmacAccounts, ToSet
    <3>2. answer' # "currency_error"
      BY <2>1, <3>1 DEF FileBlock, Bank!OpenContest, Bank!BankUnchanged
    <3> QED BY <1>1, <2>1, <3>2 DEF FileBlock
  <2>2. ASSUME p.stance = "yield", FileYield(p.target, l) PROVE phase' # "aborted"
    <3>1. claims[p.target].status # "blocked" \/ ~Ledger!Granted(p.target)
      BY DEF Ledger!Granted
    <3>2. outcome' # "ledger_error"
      BY <1>6, <2>2, <3>1 DEF FileYield, Ledger!Release, Ledger!Withdraw, Ledger!GiveBack,
         Ledger!CanDeallocate, Ledger!NoEffect
    <3> QED BY <1>1, <2>2, <3>2 DEF FileYield, Aborting
  <2> QED BY <1>1, <2>1, <2>2 DEF FileNote, engineVars
<1>8. \/ UNCHANGED alloc
      \/ p.stance = "yield" /\ \A x \in alloc : x.claim # p.target => x \in alloc'
  <2>1. ASSUME p.stance = "yield", FileYield(p.target, l)
        PROVE  \A x \in alloc : x.claim # p.target => x \in alloc'
    <3>1. Ledger!Release(Speaker, p.target, l) \/ Ledger!Withdraw(Speaker, p.target)
      BY <2>1 DEF FileYield
    <3>2. \/ UNCHANGED alloc
          \/ Ledger!Deallocate(p.target, claims[p.target].resource, l.bens)
      BY <3>1 DEF Ledger!Release, Ledger!Withdraw, Ledger!GiveBack, Ledger!NoEffect, Ledger!tables
    <3> QED BY <3>2 DEF Ledger!Deallocate
  <2> QED BY <1>1, <2>1 DEF FileBlock, FileNote, ledgerVars
<1>9. ASSUME NEW i \in 1..Len(script'), script'[i].stance = "yield"
      PROVE  /\ (script[i].release \subseteq Ledger!Holders(script[i].target))'
             /\ \A j \in 1..Len(script') :
                  script'[j].stance = "yield" /\ script'[j].target = script'[i].target => i = j
  <2>1. script'[i] = script[i + 1] /\ i + 1 \in 1..Len(script) /\ i + 1 # 1
    BY <1>1, <1>4
  <2>2. p.stance = "yield" => script[i + 1].target # p.target
    BY <1>4, <1>5, <1>9, <2>1 DEF YieldsCanBeFiled
  <2>3. script[i + 1].release \subseteq Ledger!Holders(script[i + 1].target)
    BY <1>5, <1>9, <2>1 DEF YieldsCanBeFiled
  <2>4. Ledger!Holders(script[i + 1].target) \subseteq {x.ben : x \in {y \in alloc' : y.claim = script[i + 1].target}}
    BY <1>8, <2>2 DEF Ledger!Holders
  <2>5. (script[i].release \subseteq Ledger!Holders(script[i].target))'
    BY <2>1, <2>3, <2>4 DEF Ledger!Holders
  <2>6. ASSUME NEW j \in 1..Len(script'), script'[j].stance = "yield",
               script'[j].target = script'[i].target
        PROVE  i = j
    <3>1. script'[j] = script[j + 1] /\ j + 1 \in 1..Len(script)
      BY <1>1, <1>4
    <3>2. i + 1 = j + 1
      BY <1>5, <1>9, <2>1, <2>6, <3>1 DEF YieldsCanBeFiled
    <3> QED BY <3>2
  <2> QED BY <2>5, <2>6
<1> QED BY <1>7, <1>9 DEF RunGoesOn, YieldsCanBeFiled
-----------------------------------------------------------------------------
(* Rooms *)

\* Rooms are sealed by the hotel desk only, and whoever holds one and a seat loses
\* the room when the desk files its positions, after which no seat is given out
\* before the scan.
AtTheDesk(x) == x.resource.kind = "hotel" => x.agent = "hotel"

HasSpoken(me) ==
  \E t \in 0..turn - 1 : AgentList[1 + ((round - 1 + t) % Len(AgentList))] = me

IsSpare(u) == u.resource.kind = "hotel" /\ u.ben \in SeatedPax

IsGivenBack(u) ==
  \E i \in 1..Len(script) : /\ script[i].stance = "yield" /\ script[i].target = u.claim
                            /\ u.ben \in script[i].release

BidsAtTheDesk ==
  /\ \A m \in 1..commitSeq : AtTheDesk(commitments[m].digest)
  /\ phase = "propose" /\ asked =>
       \A i \in 1..Len(script) : script[i].resource.kind = "hotel" => Speaker = "hotel"

RoomsInv ==
  /\ phase = "reveal" => turn = 0
  /\ phase = "scan" \/ (phase = "positions" /\ HasSpoken("hotel")) =>
       \A u \in alloc : ~IsSpare(u)
  /\ phase = "positions" /\ asked /\ Speaker = "hotel" =>
       \A u \in alloc : IsSpare(u) => IsGivenBack(u)

LEMMA SealsStayUnlessFiled ==
  ASSUME StormInv, StormNext, ~File
  PROVE  SealsStay
<1>1. Ledger!TypeOK /\ Ledger!NextIdsAreFree
  BY LedgerFacts DEF StormInv
<1>2. CASE UNCHANGED ledgerVars
  BY <1>2, NothingChanges DEF ledgerVars
<1>3. ASSUME NEW p, Ledger!SubmitPlain(p) PROVE SealsStay
  BY <1>3 DEF Ledger!SubmitPlain, SealsStay
<1>4. CASE Register
  BY <1>4, RegisteringAddsNothing DEF Register
<1>5. CASE TakePosition
  <2> DEFINE p == Head(script)
  <2>1. /\ phase = "positions" /\ asked /\ script # <<>>
        /\ \/ UNCHANGED ledgerVars
           \/ FileYield(p.target, Ledger!Listing(p.release))
    BY <1>5 DEF TakePosition, FileBlock, FileNote
  <2>2. p \in Stands
    <3>1. script \in Seq(Stands)
      BY <2>1 DEF StormInv, ScriptIsLegal
    <3> QED BY <2>1, <3>1, FirstAndRest
  <2>3. p.target \in ClaimId
    BY <2>2 DEF Stands
  <2> HIDE DEF p
  <2>4. ASSUME FileYield(p.target, Ledger!Listing(p.release)) PROVE SealsStay
    <3>1. \/ Ledger!Release(Speaker, p.target, Ledger!Listing(p.release))
          \/ Ledger!Withdraw(Speaker, p.target)
      BY <2>4 DEF FileYield
    <3> QED BY <1>1, <2>3, <3>1, OtherCallsAddNothing
  <2> QED BY <1>2, <2>1, <2>4
<1>6. CASE ApplyNext
  <2> DEFINE o == Head(script)
             l == Ledger!Listing(o.bens)
  <2>1. phase = "ops" /\ script # <<>> /\ RulingOp(o.op, o.claim, l)
    BY <1>6 DEF ApplyNext
  <2>2. o \in Ops
    <3>1. script \in Seq(Ops)
      BY <2>1 DEF StormInv, ScriptIsLegal
    <3> QED BY <2>1, <3>1, FirstAndRest
  <2>3. o.claim \in ClaimId
    BY <2>2 DEF Ops
  <2> HIDE DEF o, l
  <2>4. Ledger!RevokeOp(o.claim, l) \/ Ledger!GrantOp(o.claim, l) \/ Ledger!VoidClaim(o.claim)
    BY <2>1 DEF RulingOp, ApplyOp
  <2> QED BY <1>1, <2>3, <2>4, OtherCallsAddNothing, GrantsAddTheirUnits
<1>7. CASE Engine
  <2>1. CASE RevealNext
    <3> DEFINE m == Head(sealed)
    <3>1. sealed # <<>> /\ sealed \in Seq(1..MaxCommits)
      <4>1. condition # "single"
        BY <2>1, Negotiated DEF RevealNext
      <4> QED BY <2>1, <4>1 DEF RevealNext, StormInv, StageIsSet, EngineHolds, SealsAreKept
    <3>2. m \in 1..MaxCommits /\ Ledger!Reveal(m, commitments[m].digest, TRUE)
      BY <2>1, <3>1, FirstAndRest DEF RevealNext
    <3> HIDE DEF m
    <3> QED BY <1>1, <3>2, RevealsAddTheirClaim
  <2>2. ASSUME NEW c \in ClaimId, Ledger!VoidClaim(c) PROVE SealsStay
    BY <1>1, <2>2, OtherCallsAddNothing
  <2>4. \/ UNCHANGED ledgerVars \/ RevealNext \/ \E c \in ClaimId : Ledger!VoidClaim(c)
    <3>1. CASE EndReveals \/ ScanRound \/ EndRulings \/ EndSettlement
      BY <3>1 DEF EndReveals, ScanRound, EndRulings, EndSettlement
    <3>2. CASE EndRound \/ SafetyFinalize \/ EndContestSweep \/ EndSweep
      BY <3>2 DEF EndRound, SafetyFinalize, EndContestSweep, EndSweep
    <3>3. CASE \E x \in settling : SettleContest(x)
      BY <3>3 DEF SettleContest
    <3>4. CASE \E x \in settling : SweepContest(x)
      BY <3>4, SweepLists DEF SweepContest
    <3>5. CASE \E c \in clearing : SweepClaim(c)
      BY <3>5, SweepLists DEF SweepClaim
    <3> QED BY <1>7, <3>1, <3>2, <3>3, <3>4, <3>5 DEF Engine
  <2> QED BY <1>2, <2>1, <2>2, <2>4
<1>8. CASE StartSociety \/ Consult \/ TurnOver
  BY <1>2, <1>8 DEF StartSociety, Consult, TurnOver, EndTurn, vars
<1>9. CASE Mediate \/ MediateAtTheCap \/ ApplyDone
  BY <1>2, <1>9 DEF Mediate, MediateAtTheCap, Rule, Fiat, ApplyDone, EndOps
<1>10. CASE StartPlanner \/ PlanSeats \/ EndPlan
  BY <1>2, <1>10 DEF StartPlanner, PlanSeats, EndPlan
<1>11. CASE PlanFirst \/ SeatNext
  BY <1>2, <1>3, <1>11 DEF PlanFirst, SeatNext
<1> QED BY <1>4, <1>5, <1>6, <1>7, <1>8, <1>9, <1>10, <1>11 DEF StormNext

LEMMA BidsAreAtTheDesk ==
  ASSUME StormInv, BidsAtTheDesk, StormNext
  PROVE  BidsAtTheDesk'
<1>1. commitSeq \in Nat /\ MaxCommits \in Nat /\ Ledger!TypeOK /\ ~(commitSeq > MaxCommits)
  <2>1. Ledger!TypeOK /\ MaxCommits \in Nat
    BY LedgerFacts, LedgerAssumption DEF StormInv
  <2> QED BY <2>1 DEF Ledger!TypeOK
<1>2. CASE File
  <2> DEFINE b == Head(script)
             n == commitSeq
  <2>1. /\ phase = "propose" /\ asked /\ script # <<>> /\ script' = Tail(script)
        /\ Propose(Sealed(b))
    BY <1>2 DEF File
  <2>2. script \in Seq(Bids)
    BY <2>1 DEF StormInv, ScriptIsLegal
  <2>3. /\ 1 \in 1..Len(script) /\ b = script[1]
        /\ Len(Tail(script)) = Len(script) - 1 /\ Len(script) \in Nat
        /\ \A i \in 1..Len(script) - 1 : Tail(script)[i] = script[i + 1] /\ i + 1 \in 1..Len(script)
    BY <2>1, <2>2, FirstAndRest
  <2> HIDE DEF b
  <2>4. \A i \in 1..Len(script) : script[i].resource.kind = "hotel" => Speaker = "hotel"
    BY <2>1 DEF BidsAtTheDesk
  <2>5. Speaker' = Speaker
    BY <2>1 DEF Propose, Speaker
  <2>6. AtTheDesk(Sealed(b))
    BY <2>1, <2>3, <2>4 DEF Propose, AtTheDesk, Sealed
  <2>7. /\ n < MaxCommits /\ commitSeq' = n + 1
        /\ commitments' = [commitments EXCEPT ![n + 1] =
             [agent |-> Speaker, digest |-> Sealed(b), state |-> "sealed", claim |-> 0]]
    BY <2>1 DEF Propose, Ledger!Commit
  <2>8. commitments = [m \in 1..MaxCommits |-> commitments[m]]
    BY <1>1 DEF Ledger!TypeOK, Ledger!CommitId
  <2>9. n + 1 \in 1..MaxCommits
    BY <1>1, <2>7
  <2>10. /\ commitments'[n + 1].digest = Sealed(b)
         /\ \A m \in 1..MaxCommits : m # n + 1 => commitments'[m] = commitments[m]
    BY <2>7, <2>8, <2>9
  <2>11. ASSUME NEW m \in 1..n + 1 PROVE AtTheDesk(commitments'[m].digest)
    <3>1. CASE m = n + 1
      BY <2>6, <2>10, <3>1
    <3>2. CASE m # n + 1
      <4>1. m \in 1..n /\ m \in 1..MaxCommits
        BY <1>1, <2>9, <3>2
      <4> QED BY <2>10, <3>2, <4>1 DEF BidsAtTheDesk
    <3> QED BY <3>1, <3>2
  <2>12. ASSUME NEW i \in 1..Len(script'), script'[i].resource.kind = "hotel"
         PROVE  Speaker = "hotel"
    BY <2>1, <2>3, <2>4, <2>12
  <2> QED BY <2>5, <2>7, <2>11, <2>12 DEF BidsAtTheDesk, AtTheDesk
<1>3. CASE ~File
  <2>1. commitSeq' = commitSeq /\ \A m \in 1..commitSeq : commitments'[m].digest = commitments[m].digest
    <3>1. SealsStay
      BY <1>3, SealsStayUnlessFiled
    <3>2. \A m \in 1..commitSeq : m \in 1..MaxCommits
      BY <1>1
    <3> QED BY <3>1, <3>2 DEF SealsStay
  <2>2. ASSUME phase' = "propose", asked', NEW i \in 1..Len(script'), script'[i].resource.kind = "hotel"
        PROVE  Speaker' = "hotel"
    <3>1. CASE Consult
      <4>1. phase = "propose" /\ script' = Proposals(Speaker, View) /\ Speaker' = Speaker
        BY <2>2, <3>1 DEF Consult, vars, engineVars, Speaker
      <4>2. Ready /\ ViewIsSound(View)
        BY <4>1, Negotiated
      <4>3. InLine(Speaker, View.round = 1 /\ i = 1, script'[i])
        BY <2>2, <4>1, <4>2, ProposalsAreLegal
      <4> QED BY <2>2, <4>1, <4>3 DEF InLine
    <3>2. CASE ~Consult
      <4>1. asked /\ phase \in {"propose", "positions", "aborted"}
        <5>1. TurnOver => ~asked'
          BY DEF TurnOver
        <5>2. asked' = asked
          BY <1>3, <2>2, <3>2, <5>1 DEF StormNext, Register, StartSociety, TakePosition, Done,
             Idle, Mediate, MediateAtTheCap, Decree, ApplyNext, ApplyDone, Engine, StartPlanner,
             PlanFirst, PlanSeats, SeatNext, EndPlan, stormVars
        <5> QED BY <2>2, <5>2 DEF StormInv, StageIsSet
      <4>2. ~Engine
        BY <4>1, EnginePhases
      <4>3. ~TurnOver
        BY <2>2 DEF TurnOver
      <4> QED BY <1>3, <2>2, <3>2, <4>1, <4>2, <4>3 DEF StormNext, Register, StartSociety,
             TakePosition, FileBlock, FileYield, FileNote, Goto, engineVars,
             Mediate, MediateAtTheCap, Rule, Fiat, Decree, ApplyNext, RulingOp, ApplyDone, EndOps,
             StartPlanner, PlanFirst, PlanSeats, SeatNext, EndPlan
    <3> QED BY <3>1, <3>2
  <2> QED BY <2>1, <2>2 DEF BidsAtTheDesk, AtTheDesk
<1> QED BY <1>2, <1>3

\* In a negotiated run every room is of a granted claim of the desk, and every
\* seat of a granted claim.
LEMMA RoomsAreTheDesks ==
  ASSUME StormInv, Ledger!ClaimsMatchTheirSeals, BidsAtTheDesk, condition # "single",
         NEW u \in alloc
  PROVE  /\ u.claim \in ClaimId /\ Ledger!Granted(u.claim)
         /\ claims[u.claim].resource = u.resource /\ u.ben \in Ledger!Holders(u.claim)
         /\ u.resource.kind = "hotel" => claims[u.claim].agent = "hotel"
<1> DEFINE c == u.claim
           m == claims[c].commit
<1>1. /\ c \in ClaimId /\ Ledger!Granted(c) /\ claims[c].resource = u.resource
      /\ u.ben \in Ledger!Holders(c)
  BY LedgerFacts DEF StormInv, Ledger!UnitsBelongToGrantedClaims, Ledger!TypeOK,
     Ledger!Allocation, Ledger!Holders, Ledger!ClaimId, ClaimId
<1>2. claims[c].status # "absent"
  BY <1>1 DEF Ledger!Granted
<1>3. m \in 1..commitSeq /\ m # 0
  <2>1. m \in 1..Len(wish) /\ Len(wish) = commitSeq
    BY <1>1, <1>2 DEF StormInv, ClaimsAreLegal, WishesAreSealed
  <2> QED BY <2>1
<1>4. commitments[m].digest = [agent |-> claims[c].agent, resource |-> claims[c].resource,
                               bens |-> claims[c].bens]
  BY <1>1, <1>2, <1>3 DEF Ledger!ClaimsMatchTheirSeals, Ledger!HasClaim, Ledger!ClaimId, ClaimId
<1>5. AtTheDesk(commitments[m].digest)
  BY <1>3 DEF BidsAtTheDesk
<1> HIDE DEF m
<1> QED BY <1>1, <1>4, <1>5 DEF AtTheDesk

LEMMA SeatedAreShown ==
  ASSUME StormInv, NEW p \in SeatedPax
  PROVE  p \in Seated(View)
<1>1. PICK f \in Flight : HasSeat(p, f)
  BY DEF SeatedPax
<1>2. PICK u \in alloc : u.ben = p /\ u.resource = Seat(scenario, f)
  BY <1>1 DEF HasSeat
<1> DEFINE c == Record(u.claim)
<1>3. u.claim \in ClaimId /\ claims[u.claim].status = "granted" /\ claims[u.claim].resource = u.resource
  BY LedgerFacts DEF StormInv, Ledger!UnitsBelongToGrantedClaims, Ledger!TypeOK,
     Ledger!Allocation, Ledger!Granted, Ledger!ClaimId, ClaimId
<1>4. c \in View.granted /\ c.holders = Ledger!Holders(u.claim) /\ c.resource = u.resource
  BY <1>3 DEF View, Records, Record
<1>5. GroupOf(c.resource) = "seat" /\ p \in c.holders
  BY <1>2, <1>4 DEF GroupOf, Seat, Ledger!Holders
<1> HIDE DEF c
<1> QED BY <1>4, <1>5 DEF Seated, Allocated, HeldBy

\* Nobody gets a room or a seat while positions are filed.
LEMMA NobodyIsAdded ==
  ASSUME alloc' \subseteq alloc, UNCHANGED scenario
  PROVE  \A u \in alloc' : IsSpare(u)' => IsSpare(u)
BY DEF IsSpare, SeatedPax, HasSeat

LEMMA DeskAnswers ==
  ASSUME StormInv, Ledger!ClaimsMatchTheirSeals, BidsAtTheDesk, Consult,
         phase = "positions", Speaker = "hotel", NEW u \in alloc, IsSpare(u)
  PROVE  \E i \in 1..Len(script') : /\ script'[i].stance = "yield"
                                    /\ script'[i].target = u.claim
                                    /\ u.ben \in script'[i].release
<1> DEFINE v == View
           c == Record(u.claim)
<1>1. condition # "single" /\ ViewIsSound(v)
  BY Negotiated
<1>2. /\ u.claim \in ClaimId /\ Ledger!Granted(u.claim)
      /\ claims[u.claim].resource = u.resource /\ u.ben \in Ledger!Holders(u.claim)
      /\ claims[u.claim].agent = "hotel"
  BY <1>1, RoomsAreTheDesks DEF IsSpare
<1>3. /\ c \in v.granted /\ c.id = u.claim /\ c.agent = "hotel"
      /\ c.holders = Ledger!Holders(u.claim)
  BY <1>2 DEF View, Records, Record, Ledger!Granted
<1>4. u.ben \in Seated(v)
  BY SeatedAreShown DEF IsSpare
<1>5. script' = HotelResponds(v)
  BY DEF Consult, Positions
<1> HIDE DEF v, c
<1>6. c \in Lodged(v)
  BY <1>2, <1>3, <1>4 DEF Lodged, Mine
<1>7. \E i \in 1..Len(script') :
        script'[i] = Take("hotel", "yield", c.id, c.holders \intersect Seated(v))
  BY <1>1, <1>5, <1>6, HotelRespondsTyped
<1> QED BY <1>2, <1>3, <1>4, <1>7 DEF Take

LEMMA PositionsGiveBack ==
  ASSUME StormInv, RunGoesOn, RoomsInv, TakePosition, Speaker = "hotel",
         NEW u \in alloc', IsSpare(u)
  PROVE  alloc' \subseteq alloc /\ IsGivenBack(u)'
<1> DEFINE p == Head(script)
           l == Ledger!Listing(p.release)
<1>1. /\ phase = "positions" /\ asked /\ script # <<>> /\ script' = Tail(script)
      /\ \/ p.stance # "yield" /\ UNCHANGED alloc
         \/ p.stance = "yield" /\ FileYield(p.target, l)
  BY DEF TakePosition, Done, FileBlock, FileNote, ledgerVars
<1>2. Ledger!TypeOK /\ Ledger!UnitsBelongToGrantedClaims
  BY LedgerFacts DEF StormInv
<1>3. script \in Seq(Stands)
  BY <1>1 DEF StormInv, ScriptIsLegal
<1>4. /\ 1 \in 1..Len(script) /\ p = script[1] /\ p \in Stands
      /\ Len(Tail(script)) = Len(script) - 1 /\ Len(script) \in Nat
      /\ \A i \in 1..Len(script) - 1 : Tail(script)[i] = script[i + 1] /\ i + 1 \in 1..Len(script)
  BY <1>1, <1>3, FirstAndRest
<1> HIDE DEF p
<1>5. p.stance = "yield" => l.bens \subseteq Ledger!Holders(p.target) /\ ~l.repeats
  BY <1>1, <1>4 DEF RunGoesOn, YieldsCanBeFiled, Ledger!Listing
<1>6. l.bens = p.release
  BY DEF Ledger!Listing
<1> HIDE DEF l
<1>7. alloc' \subseteq alloc
  <2>1. ASSUME FileYield(p.target, l) PROVE alloc' \subseteq alloc
    BY <2>1 DEF FileYield, Ledger!Release, Ledger!Withdraw, Ledger!GiveBack, Ledger!Deallocate,
       Ledger!NoEffect, Ledger!tables
  <2> QED BY <1>1, <2>1
<1>8. PICK i \in 1..Len(script) : /\ script[i].stance = "yield" /\ script[i].target = u.claim
                                 /\ u.ben \in script[i].release
  BY <1>1, <1>7 DEF RoomsInv, IsGivenBack
<1>9. i # 1
  <2> SUFFICES ASSUME i = 1 PROVE FALSE
    OBVIOUS
  <2>1. p.stance = "yield" /\ p.target = u.claim /\ u.ben \in p.release
    BY <1>4, <1>8
  <2>2. Ledger!Granted(p.target) /\ claims[p.target].resource = u.resource
    BY <1>2, <1>7, <2>1 DEF Ledger!UnitsBelongToGrantedClaims
  <2>3. Ledger!Release(Speaker, p.target, l) /\ claims[p.target].agent = Speaker
    BY <1>1, <2>1, <2>2 DEF FileYield, Ledger!Granted
  <2>4. Ledger!Deallocate(p.target, claims[p.target].resource, l.bens)
    BY <1>5, <2>1, <2>2, <2>3 DEF Ledger!Release, Ledger!GiveBack, Ledger!CanDeallocate
  <2> QED BY <1>6, <2>1, <2>2, <2>4 DEF Ledger!Deallocate
<1>10. i - 1 \in 1..Len(script') /\ script'[i - 1] = script[i]
  BY <1>1, <1>4, <1>9
<1> QED BY <1>7, <1>8, <1>10 DEF IsGivenBack

\* Five turns come round to each of the five agents.
LEMMA TheDeskHasATurn ==
  ASSUME NEW r \in Nat, r >= 1
  PROVE  \E t \in 0..4 : AgentOrder[1 + ((r - 1 + t) % 5)] = "hotel"
<1> DEFINE k == (r - 1) % 5
           q == (r - 1) \div 5
<1>1. k \in 0..4 /\ q \in Int /\ r - 1 = 5 * q + k
  OBVIOUS
<1>2. AgentOrder[4] = "hotel"
  BY DEF AgentOrder
<1> HIDE DEF k, q
<1>3. ASSUME NEW t \in 0..4, k + t = 3 \/ k + t = 8
      PROVE  (r - 1 + t) % 5 = 3
  BY <1>1, <1>3
<1>4. \E t \in 0..4 : k + t = 3 \/ k + t = 8
  BY <1>1
<1> QED BY <1>2, <1>3, <1>4

LEMMA OtherSteps ==
  ASSUME StormInv, RunGoesOn, StormNext, ~Consult, ~File, ~TakePosition, ~TurnOver
  PROVE  /\ ~asked' /\ phase' # "scan"
         /\ phase' \in {"reveal", "positions"} => phase = "reveal" /\ turn' = turn
<1>1. phase # "aborted" /\ (asked => phase \in {"propose", "positions"})
  BY DEF RunGoesOn, StormInv, StageIsSet
<1>2. asked' = asked
  BY DEF StormNext, Register, StartSociety, Done, Idle, Mediate, MediateAtTheCap, Decree,
     ApplyNext, ApplyDone, Engine, StartPlanner, PlanFirst, PlanSeats, SeatNext, EndPlan, stormVars
<1>3. phase \notin {"propose", "positions"} => ~asked'
  <2>1. phase \notin {"propose", "positions"} => ~asked
    BY <1>1
  <2> QED BY <1>2, <2>1, Zenon
<1> USE DEF Goto, engineVars
<1>4. CASE Register \/ StartSociety \/ Mediate \/ MediateAtTheCap
  <2>1. /\ phase \in {"setup", "rule", "finalize"}
        /\ phase' \in {"setup", "propose", "ops"}
    BY <1>4 DEF Register, StartSociety, Mediate, MediateAtTheCap, Rule, Fiat, Decree
  <2> QED BY <1>3, <2>1
<1>5. CASE ApplyNext \/ ApplyDone
  <2>1. phase = "ops" /\ phase' \in {"ops", "aborted", "settle"}
    BY <1>5 DEF ApplyNext, RulingOp, ApplyDone, EndOps
  <2> QED BY <1>3, <2>1
<1>6. CASE StartPlanner \/ PlanFirst \/ PlanSeats \/ SeatNext \/ EndPlan
  <2>1. phase \in {"setup", "plan", "seats"} /\ phase' \in {"plan", "seats", "done"}
    BY <1>6 DEF StartPlanner, PlanFirst, PlanSeats, SeatNext, EndPlan
  <2> QED BY <1>3, <2>1
<1>7. CASE Engine
  <2>1. phase \in {"reveal", "scan", "rule", "settle", "round_end", "finalize", "sweep", "clear"}
    BY <1>7, EnginePhases
  <2> DEFINE Onwards ==
         phase' # "scan" /\ (phase' \in {"reveal", "positions"} => phase = "reveal" /\ turn' = turn)
  <2>2. ASSUME RevealNext PROVE Onwards
    BY <2>2 DEF RevealNext
  <2>3. ASSUME EndReveals \/ ScanRound \/ EndRulings PROVE Onwards
    BY <2>3 DEF EndReveals, ScanRound, EndRulings
  <2>4. ASSUME EndSettlement \/ EndRound \/ SafetyFinalize \/ EndContestSweep \/ EndSweep PROVE Onwards
    BY <2>4 DEF EndSettlement, EndRound, SafetyFinalize, EndContestSweep, EndSweep
  <2>5. ASSUME NEW x, SettleContest(x) \/ SweepContest(x) \/ SweepClaim(x)
        PROVE  phase' \in {"settle", "sweep", "clear"}
    BY <2>5 DEF SettleContest, SweepContest, SweepClaim
  <2>6. Onwards
    BY <1>7, <2>2, <2>3, <2>4, <2>5 DEF Engine
  <2> QED BY <1>3, <2>1, <2>6
<1> QED BY <1>4, <1>5, <1>6, <1>7 DEF StormNext

LEMMA RoomsStep ==
  ASSUME StormInv, Ledger!ClaimsMatchTheirSeals, RunGoesOn, BidsAtTheDesk, RoomsInv, StormNext
  PROVE  RoomsInv'
<1>1. CASE Consult
  <2>1. /\ phase' = phase /\ phase \in {"propose", "positions"} /\ ~asked
        /\ UNCHANGED <<alloc, round, turn, scenario>> /\ Speaker' = Speaker
        /\ HasSpoken("hotel")' = HasSpoken("hotel")
    BY <1>1 DEF Consult, vars, engineVars, ledgerVars, stormVars, Speaker, HasSpoken
  <2>2. \A u \in alloc' : IsSpare(u)' => IsSpare(u)
    BY <2>1, NobodyIsAdded
  <2>3. ASSUME phase = "positions", Speaker = "hotel", NEW u \in alloc, IsSpare(u)
        PROVE  IsGivenBack(u)'
    BY <1>1, <2>3, DeskAnswers DEF IsGivenBack
  <2> QED BY <2>1, <2>2, <2>3 DEF RoomsInv
<1>2. CASE File
  BY <1>2 DEF File, Propose, RoomsInv
<1>3. CASE TakePosition
  <2>1. /\ phase = "positions" /\ asked /\ asked' = asked
        /\ UNCHANGED <<round, turn, scenario>> /\ phase' \in {"positions", "aborted"}
    BY <1>3 DEF TakePosition, Done, stormVars, FileBlock, FileYield, FileNote, Goto, engineVars
  <2>2. Speaker' = Speaker /\ HasSpoken("hotel")' = HasSpoken("hotel")
    BY <2>1 DEF Speaker, HasSpoken
  <2>3. alloc' \subseteq alloc
    BY <1>3 DEF TakePosition, FileBlock, FileYield, FileNote, ledgerVars, Ledger!Release,
       Ledger!Withdraw, Ledger!GiveBack, Ledger!Deallocate, Ledger!NoEffect, Ledger!tables
  <2>4. \A u \in alloc' : IsSpare(u)' => IsSpare(u)
    BY <2>1, <2>3, NobodyIsAdded
  <2>5. ASSUME Speaker = "hotel", NEW u \in alloc', IsSpare(u) PROVE IsGivenBack(u)'
    BY <1>3, <2>5, PositionsGiveBack
  <2> QED BY <2>1, <2>2, <2>3, <2>4, <2>5 DEF RoomsInv
<1>4. CASE TurnOver
  <2>1. /\ phase \in {"propose", "positions"} /\ asked /\ script = <<>> /\ ~asked'
        /\ UNCHANGED <<alloc, round, scenario>>
        /\ \/ turn + 1 < Len(AgentList) /\ turn' = turn + 1 /\ phase' = phase
           \/ /\ ~(turn + 1 < Len(AgentList)) /\ turn' = 0
              /\ phase' = IF phase = "propose" THEN "reveal" ELSE "scan"
    BY <1>4 DEF TurnOver, EndTurn, Goto, ledgerVars, stormVars
  <2>2. \A u \in alloc' : IsSpare(u)' => IsSpare(u)
    BY <2>1, NobodyIsAdded
  <2>3. ControlIsTyped
    BY <2>1, Negotiated
  <2>4. turn \in Nat /\ turn < 5 /\ round \in Nat /\ round >= 1 /\ Len(AgentList) = 5
    BY <2>3, AirlineAssumption, RolesAreAgents DEF ControlIsTyped, Setting, MaxRounds
  <2>5. ASSUME phase = "positions", NEW t \in 0..turn,
               AgentList[1 + ((round - 1 + t) % Len(AgentList))] = "hotel", NEW u \in alloc
        PROVE  ~IsSpare(u)
    <3>1. CASE t = turn
      <4>1. Speaker = "hotel"
        BY <2>5, <3>1 DEF Speaker
      <4>2. ~IsGivenBack(u)
        BY <2>1 DEF IsGivenBack
      <4> QED BY <2>1, <2>5, <4>1, <4>2 DEF RoomsInv
    <3>2. CASE t # turn
      <4>1. t \in 0..turn - 1
        BY <2>4, <3>2
      <4>2. HasSpoken("hotel")
        BY <2>5, <4>1 DEF HasSpoken
      <4> QED BY <2>5, <4>2 DEF RoomsInv
    <3> QED BY <3>1, <3>2
  <2>6. CASE phase' = "positions"
    <3>1. phase = "positions" /\ turn' = turn + 1
      BY <2>1, <2>6
    <3>2. ASSUME HasSpoken("hotel")', NEW u \in alloc PROVE ~IsSpare(u)
      <4>1. PICK t \in 0..turn' - 1 : AgentList[1 + ((round - 1 + t) % Len(AgentList))] = "hotel"
        BY <2>1, <3>2 DEF HasSpoken
      <4>2. t \in 0..turn
        BY <2>4, <3>1, <4>1
      <4> QED BY <2>5, <3>1, <4>1, <4>2
    <3> QED BY <2>1, <2>2, <2>6, <3>2 DEF RoomsInv
  <2>7. CASE phase' = "scan"
    <3>1. phase = "positions" /\ turn = 4
      BY <2>1, <2>4, <2>7
    <3>2. PICK t \in 0..4 : AgentOrder[1 + ((round - 1 + t) % 5)] = "hotel"
      BY <2>4, TheDeskHasATurn
    <3>3. \A u \in alloc : ~IsSpare(u)
      BY <2>4, <2>5, <3>1, <3>2, AirlineAssumption
    <3> QED BY <2>1, <2>2, <2>7, <3>3 DEF RoomsInv
  <2>8. phase' = "reveal" => turn' = 0
    BY <2>1
  <2> QED BY <2>1, <2>6, <2>7, <2>8 DEF RoomsInv
<1>5. CASE ~Consult /\ ~File /\ ~TakePosition /\ ~TurnOver
  <2>1. /\ ~asked' /\ phase' # "scan"
        /\ phase' \in {"reveal", "positions"} => phase = "reveal" /\ turn' = turn
    BY <1>5, OtherSteps
  <2>2. phase' \in {"reveal", "positions"} => turn' = 0
    BY <2>1 DEF RoomsInv
  <2>3. turn' = 0 => ~HasSpoken("hotel")'
    BY DEF HasSpoken
  <2> QED BY <2>1, <2>2, <2>3 DEF RoomsInv
<1> QED BY <1>1, <1>2, <1>3, <1>4, <1>5

LEMMA RoomsInvIsInductive ==
  /\ StormInit => BidsAtTheDesk /\ RoomsInv
  /\ /\ StormInv /\ Ledger!ClaimsMatchTheirSeals /\ RunGoesOn /\ BidsAtTheDesk /\ RoomsInv
     /\ [StormNext]_runVars
     => (BidsAtTheDesk /\ RoomsInv)'
<1>1. StormInit => BidsAtTheDesk /\ RoomsInv
  BY DEF StormInit, Init, Ledger!Init, BidsAtTheDesk, RoomsInv
<1>2. ASSUME BidsAtTheDesk, RoomsInv, UNCHANGED runVars PROVE (BidsAtTheDesk /\ RoomsInv)'
  <2>1. UNCHANGED <<commitments, commitSeq, alloc, phase, asked, script, turn, round, scenario>>
    BY <1>2 DEF runVars, vars, engineVars, ledgerVars, stormVars
  <2>2. BidsAtTheDesk'
    BY <1>2, <2>1 DEF BidsAtTheDesk, AtTheDesk, Speaker
  <2>3. RoomsInv'
    BY <1>2, <2>1 DEF RoomsInv, HasSpoken, IsSpare, IsGivenBack, SeatedPax, HasSeat, Speaker
  <2> QED BY <2>2, <2>3
<1> QED BY <1>1, <1>2, BidsAreAtTheDesk, RoomsStep
-----------------------------------------------------------------------------
(* Who is bumped, and for whom *)

\* What the grants before the i-th operation of s will take of r.
Due(s, i, r) ==
  {z \in ClaimId \X Beneficiary : \E j \in 1..(i - 1) :
     /\ s[j].op = "grant" /\ s[j].claim = z[1] /\ z[2] \in s[j].bens
     /\ claims[z[1]].resource = r}

\* p has a seat elsewhere when the turn comes to the i-th operation of s.
HasAnother(p, r, s, i) ==
  \E g \in Legal(scenario, p) :
    /\ Seat(scenario, g) # r
    /\ Cardinality(Due(s, i, Seat(scenario, g))) < Free(Seat(scenario, g))

\* A revocation still to come is for a claim that is blocked until then.
RevokeIsLawful(s, i) ==
  \E b \in Blocked :
    /\ claims[b].resource = claims[s[i].claim].resource
    /\ \A j \in 1..(i - 1) : s[j].claim # b
    /\ \A p \in s[i].bens :
         /\ \E q \in claims[b].bens : PaxPriority(q) < PaxPriority(p)
         /\ HasAnother(p, claims[b].resource, s, i)

\* What a ruling voids holds no seat: a crew, or a claim that is blocked until then.
VoidTakesNoSeat(s, i) ==
  \/ claims[s[i].claim].resource.kind # "seat"
  \/ s[i].claim \in Blocked /\ \A j \in 1..(i - 1) : s[j].claim # s[i].claim

GrantsAreDistinct(s) ==
  \A i, j \in 1..Len(s) :
    s[i].op = "grant" /\ s[j].op = "grant" /\ s[i].claim = s[j].claim => i = j

BumpsAreAgreed(s) ==
  /\ \A i \in 1..Len(s) : s[i].op = "revoke" => RevokeIsLawful(s, i)
  /\ \A i \in 1..Len(s) : s[i].op = "void" => VoidTakesNoSeat(s, i)
  /\ GrantsAreDistinct(s)

BumpInv == phase = "ops" => BumpsAreAgreed(script)

LEMMA OpsKeepOthers ==
  ASSUME StormInv, ApplyNext
  PROVE  LET o == Head(script)
             c == o.claim
         IN /\ o \in Ops /\ script \in Seq(Ops) /\ script # <<>> /\ script' = Tail(script)
            /\ UNCHANGED scenario
            /\ \A d \in ClaimId : /\ claims'[d].resource = claims[d].resource
                                  /\ d # c => claims'[d] = claims[d]
            /\ o.op # "grant" => alloc' \subseteq alloc
            /\ alloc' \subseteq alloc \union [resource : {claims[c].resource}, ben : o.bens, claim : {c}]
<1> DEFINE o == Head(script)
           c == o.claim
           l == Ledger!Listing(o.bens)
           rows == [resource : {claims[c].resource}, ben : o.bens, claim : {c}]
<1>1. /\ phase = "ops" /\ script # <<>> /\ script' = Tail(script)
      /\ UNCHANGED scenario /\ RulingOp(o.op, c, l)
  BY DEF ApplyNext
<1>2. Ledger!TypeOK
  BY <1>1, Negotiated
<1>3. script \in Seq(Ops)
  BY <1>1 DEF StormInv, ScriptIsLegal
<1>4. o \in Ops
  BY <1>1, <1>3, FirstAndRest
<1>5. c \in ClaimId /\ o.bens \in SUBSET Beneficiary
  BY <1>4 DEF Ops
<1>6. l.bens = o.bens
  BY <1>5, ListingsAreLists
<1> HIDE DEF o, l
<1>7. ApplyOp(o.op, c, l)
  BY <1>1 DEF RulingOp
<1>8. \/ UNCHANGED claims
      \/ \E st : claims[c].status # "absent" /\ Ledger!SetStatus(c, st)
  <2>1. CASE Ledger!GrantOp(c, l)
    BY <2>1 DEF Ledger!GrantOp, Ledger!NoEffect, Ledger!tables
  <2>2. CASE Ledger!RevokeOp(c, l)
    BY <2>2 DEF Ledger!RevokeOp, Ledger!NoEffect, Ledger!tables, Ledger!Granted, Ledger!GiveBack
  <2>3. CASE Ledger!VoidClaim(c)
    BY <2>3 DEF Ledger!VoidClaim, Ledger!NoEffect, Ledger!tables
  <2> QED BY <1>7, <2>1, <2>2, <2>3 DEF ApplyOp
<1>9. \A d \in ClaimId : /\ claims'[d].resource = claims[d].resource
                         /\ d # c => claims'[d] = claims[d]
  <2>1. ASSUME NEW st, claims[c].status # "absent", Ledger!SetStatus(c, st)
        PROVE  \A d \in ClaimId : /\ claims'[d].resource = claims[d].resource
                                  /\ d # c => claims'[d] = claims[d]
    <3> DEFINE row == [claims[c] EXCEPT !.status = st]
    <3>1. row.resource = claims[c].resource
      BY <1>2, <1>5, <2>1, ClaimsAreRows
    <3>2. claims' = [claims EXCEPT ![c] = row]
      BY <2>1 DEF Ledger!SetStatus
    <3> HIDE DEF row
    <3>3. claims'[c] = row /\ \A d \in ClaimId : d # c => claims'[d] = claims[d]
      BY <1>2, <1>5, <3>2, ClaimsAreRows
    <3> QED BY <3>1, <3>3
  <2> QED BY <1>8, <2>1
<1>10. /\ o.op # "grant" => alloc' \subseteq alloc
       /\ alloc' \subseteq alloc \union rows
  <2>1. CASE o.op = "grant"
    <3>1. Ledger!GrantOp(c, l)
      BY <1>7, <2>1 DEF ApplyOp
    <3>2. alloc' = alloc \/ alloc' = alloc \union rows
      BY <1>6, <3>1 DEF Ledger!GrantOp, Ledger!NoEffect, Ledger!tables, Ledger!Allocate
    <3> QED BY <2>1, <3>2
  <2>2. CASE o.op # "grant"
    <3>1. Ledger!RevokeOp(c, l) \/ Ledger!VoidClaim(c)
      BY <1>7, <2>2 DEF ApplyOp
    <3>2. alloc' \subseteq alloc
      BY <1>2, <1>5, <3>1, OtherCallsAddNothing
    <3> QED BY <3>2
  <2> QED BY <2>1, <2>2
<1> QED BY <1>1, <1>3, <1>4, <1>9, <1>10 DEF o

\* An operation takes no more of a resource than a grant on it names.
LEMMA OpsTakeWhatTheyName ==
  ASSUME StormInv, ApplyNext, NEW r \in Resource
  PROVE  LET o == Head(script)
         IN /\ Free(r) \in Int /\ Free(r)' \in Int
            /\ ~(o.op = "grant" /\ claims[o.claim].resource = r) => Free(r) <= Free(r)'
            /\ IsFiniteSet(o.bens) /\ Cardinality(o.bens) \in Nat
            /\ Free(r) - Cardinality(o.bens) <= Free(r)'
<1> DEFINE o == Head(script)
           c == o.claim
           rows == [resource : {claims[c].resource}, ben : o.bens, claim : {c}]
           U == {x \in alloc : x.resource = r}
           V == {x \in alloc' : x.resource = r}
<1>1. /\ o \in Ops
      /\ o.op # "grant" => alloc' \subseteq alloc
      /\ alloc' \subseteq alloc \union rows
  BY OpsKeepOthers
<1>2. IsFiniteSet(alloc)
  BY UnitsAreFinite
<1>3. IsFiniteSet(o.bens) /\ Cardinality(o.bens) \in Nat
  <2>1. o.bens \in SUBSET Beneficiary
    BY <1>1 DEF Ops
  <2> QED BY <2>1, LedgerAssumption, FS_Subset, FS_CardinalityType
<1>4. IsFiniteSet(rows) /\ Cardinality(rows) <= Cardinality(o.bens) /\ Cardinality(rows) \in Nat
  <2> DEFINE f == [x \in rows |-> x.ben]
  <2>1. f \in Injection(rows, o.bens)
    BY DEF Injection, IsInjective
  <2> HIDE DEF f, rows
  <2> QED BY <1>3, <2>1, FS_Injection, FS_CardinalityType
<1> HIDE DEF o, rows
<1>a. IsFiniteSet(alloc')
  <2>1. IsFiniteSet(alloc \union rows)
    BY <1>2, <1>4, FS_Union
  <2> QED BY <1>1, <2>1, FS_Subset
<1>5. /\ IsFiniteSet(U) /\ IsFiniteSet(V) /\ Cardinality(U) \in Nat /\ Cardinality(V) \in Nat
  BY <1>2, <1>a, FS_Subset, FS_CardinalityType
<1>6. Ledger!Used(r) = Cardinality(U) /\ Ledger!Used(r)' = Cardinality(V)
  BY LedgersCount DEF Ledger!Used
<1>7. Capacity[r] \in Nat
  BY LedgerAssumption
<1>8. ASSUME ~(o.op = "grant" /\ claims[c].resource = r) PROVE Cardinality(V) <= Cardinality(U)
  <2>1. V \in SUBSET U
    BY <1>1, <1>8 DEF rows
  <2> HIDE DEF U, V
  <2> QED BY <1>5, <2>1, FS_Subset
<1>9. Cardinality(V) <= Cardinality(U) + Cardinality(o.bens)
  <2>1. V \in SUBSET (U \union rows)
    BY <1>1
  <2> HIDE DEF U, V
  <2>2. /\ IsFiniteSet(U \union rows)
        /\ Cardinality(U \union rows) = Cardinality(U) + Cardinality(rows) - Cardinality(U \cap rows)
    BY <1>4, <1>5, FS_Union
  <2>3. IsFiniteSet(U \cap rows) /\ Cardinality(U \cap rows) \in Nat
    BY <1>5, FS_Intersection, FS_CardinalityType
  <2>4. Cardinality(V) <= Cardinality(U \union rows)
    BY <2>1, <2>2, FS_Subset
  <2> QED BY <1>3, <1>4, <1>5, <2>2, <2>3, <2>4
<1>10. Free(r) = Capacity[r] - Cardinality(U) /\ Free(r)' = Capacity[r] - Cardinality(V)
  BY <1>6 DEF Free
<1> HIDE DEF U, V
<1> QED BY <1>3, <1>5, <1>7, <1>8, <1>9, <1>10 DEF o, c

LEMMA DuesAreFinite ==
  ASSUME NEW s, NEW i, NEW r
  PROVE  IsFiniteSet(Due(s, i, r)) /\ Cardinality(Due(s, i, r)) \in Nat
<1>1. IsFiniteSet(ClaimId) /\ IsFiniteSet(Beneficiary)
  BY LedgerAssumption, FS_Interval DEF ClaimId
<1>2. IsFiniteSet(ClaimId \X Beneficiary)
  BY <1>1, FS_Product
<1>3. Due(s, i, r) \in SUBSET (ClaimId \X Beneficiary)
  BY DEF Due
<1> QED BY <1>2, <1>3, FS_Subset, FS_CardinalityType

\* What was not due before the i-th operation is still free when it has moved up.
LEMMA DueIsStillFree ==
  ASSUME StormInv, ApplyNext, GrantsAreDistinct(script), NEW i \in 1..(Len(script) - 1),
         NEW r \in Resource, Cardinality(Due(script, i + 1, r)) < Free(r)
  PROVE  (Cardinality(Due(script, i, r)) < Free(r))'
<1> DEFINE o == Head(script)
           c == o.claim
           D == Due(script, i + 1, r)
           E == Due(script, i, r)'
           T == {z \in {c} \X o.bens : TRUE}
           takes == o.op = "grant" /\ claims[c].resource = r
<1>1. /\ o \in Ops /\ script \in Seq(Ops) /\ script # <<>> /\ script' = Tail(script)
      /\ \A d \in ClaimId : claims'[d].resource = claims[d].resource
  BY OpsKeepOthers
<1>2. /\ Len(script) \in Nat /\ 1 \in 1..Len(script) /\ o = script[1]
      /\ \A j \in 1..Len(script) - 1 : Tail(script)[j] = script[j + 1] /\ j + 1 \in 1..Len(script)
  BY <1>1, FirstAndRest
<1>3. c \in ClaimId /\ o.bens \in SUBSET Beneficiary
  BY <1>1 DEF Ops
<1>4. /\ Free(r) \in Int /\ Free(r)' \in Int
      /\ ~takes => Free(r) <= Free(r)'
      /\ IsFiniteSet(o.bens) /\ Cardinality(o.bens) \in Nat
      /\ Free(r) - Cardinality(o.bens) <= Free(r)'
  BY OpsTakeWhatTheyName
<1>5. E = {z \in ClaimId \X Beneficiary : \E j \in 1..(i - 1) :
             /\ script'[j].op = "grant" /\ script'[j].claim = z[1] /\ z[2] \in script'[j].bens
             /\ claims'[z[1]].resource = r}
  BY DEF Due, ClaimId
<1>6. ASSUME NEW z \in E
      PROVE  /\ z \in ClaimId \X Beneficiary /\ claims[z[1]].resource = r
             /\ \E j \in 2..i : /\ script[j].op = "grant" /\ script[j].claim = z[1]
                                /\ z[2] \in script[j].bens /\ j \in 1..Len(script)
  <2>1. z \in ClaimId \X Beneficiary /\ z[1] \in ClaimId
    BY <1>5
  <2>2. PICK j \in 1..(i - 1) :
             /\ script'[j].op = "grant" /\ script'[j].claim = z[1] /\ z[2] \in script'[j].bens
             /\ claims'[z[1]].resource = r
    BY <1>5
  <2>3. j + 1 \in 2..i /\ j + 1 \in 1..Len(script) /\ script'[j] = script[j + 1]
    BY <1>1, <1>2
  <2>4. claims[z[1]].resource = r
    BY <1>1, <2>1, <2>2
  <2> QED BY <2>1, <2>2, <2>3, <2>4
<1>7. E \subseteq D
  BY <1>6 DEF Due
<1>8. IsFiniteSet(D) /\ Cardinality(D) \in Nat
  BY DuesAreFinite
<1>9. IsFiniteSet(E) /\ Cardinality(E) \in Nat /\ Cardinality(E) <= Cardinality(D)
  BY <1>7, <1>8, FS_Subset, FS_CardinalityType
<1>10. ASSUME takes PROVE Cardinality(E) + Cardinality(o.bens) <= Cardinality(D)
  <2> DEFINE R == {c} \X o.bens
             f == [b \in o.bens |-> <<c, b>>]
  <2>1. R \subseteq D
    <3>1. ASSUME NEW b \in o.bens PROVE <<c, b>> \in D
      <4>1. 1 \in 1..((i + 1) - 1)
        OBVIOUS
      <4> QED BY <1>2, <1>3, <1>10, <4>1 DEF Due
    <3> QED BY <3>1
  <2>2. E \cap R = {}
    <3>1. ASSUME NEW z \in E, z \in R PROVE FALSE
      <4>1. PICK j \in 2..i : /\ script[j].op = "grant" /\ script[j].claim = z[1]
                              /\ j \in 1..Len(script)
        BY <1>6, <3>1
      <4>2. script[1].op = "grant" /\ script[1].claim = z[1]
        BY <1>2, <1>10, <3>1
      <4>3. j = 1
        BY <1>2, <4>1, <4>2 DEF GrantsAreDistinct
      <4> QED BY <4>1, <4>3
    <3> QED BY <3>1
  <2>3. f \in Injection(o.bens, R) /\ f \in Surjection(o.bens, R)
    BY DEF Injection, IsInjective, Surjection
  <2> HIDE DEF R, f, o, E, D
  <2>4. IsFiniteSet(R) /\ Cardinality(R) = Cardinality(o.bens)
    BY <1>4, <2>3, FS_Surjection
  <2>5. /\ IsFiniteSet(E \union R)
        /\ Cardinality(E \union R) = Cardinality(E) + Cardinality(R) - Cardinality(E \cap R)
    BY <1>9, <2>4, FS_Union
  <2>6. Cardinality(E \cap R) = 0
    BY <2>2, FS_EmptySet
  <2>7. Cardinality(E \union R) <= Cardinality(D)
    BY <1>7, <1>8, <2>1, FS_Subset
  <2> QED BY <1>4, <1>9, <2>4, <2>5, <2>6, <2>7
<1>11. Cardinality(E) < Free(r)'
  <2>1. Cardinality(D) < Free(r)
    OBVIOUS
  <2> HIDE DEF D, E, o
  <2>2. CASE takes
    BY <1>4, <1>8, <1>9, <1>10, <2>1, <2>2
  <2>3. CASE ~takes
    BY <1>4, <1>8, <1>9, <2>1, <2>3
  <2> QED BY <2>2, <2>3
<1> QED BY <1>11

LEMMA BumpsStayAgreed ==
  ASSUME StormInv, ApplyNext, BumpsAreAgreed(script)
  PROVE  BumpsAreAgreed(script)'
<1> DEFINE o == Head(script)
           c == o.claim
<1>1. /\ o \in Ops /\ script \in Seq(Ops) /\ script # <<>> /\ script' = Tail(script)
      /\ UNCHANGED scenario
      /\ \A d \in ClaimId : claims'[d].resource = claims[d].resource /\ (d # c => claims'[d] = claims[d])
  BY OpsKeepOthers
<1>2. /\ Len(script) \in Nat /\ 1 \in 1..Len(script) /\ o = script[1]
      /\ Len(Tail(script)) = Len(script) - 1
      /\ \A j \in 1..Len(script) - 1 : Tail(script)[j] = script[j + 1] /\ j + 1 \in 1..Len(script)
      /\ \A j \in 1..Len(script) : script[j] \in Ops
  BY <1>1, FirstAndRest
<1> HIDE DEF o
<1>3. scenario \in Scenarios
  BY DEF StormInv, StageIsSet
<1>4. ASSUME NEW b \in Blocked, b # c PROVE b \in Blocked' /\ claims'[b] = claims[b]
  BY <1>1, <1>4 DEF Blocked, ClaimId
<1>5. ASSUME NEW i \in 1..Len(script')
      PROVE  /\ i \in 1..(Len(script) - 1) /\ i \in Nat /\ script'[i] = script[i + 1]
             /\ i + 1 \in 1..Len(script) /\ script'[i].claim \in ClaimId
             /\ claims'[script'[i].claim].resource = claims[script[i + 1].claim].resource
             /\ \A j \in 1..(i - 1) : script'[j] = script[j + 1] /\ j + 1 \in 1..((i + 1) - 1)
  <2>1. i \in 1..(Len(script) - 1) /\ script'[i] = script[i + 1] /\ i + 1 \in 1..Len(script)
    BY <1>1, <1>2
  <2>2. script'[i].claim \in ClaimId
    BY <1>2, <2>1 DEF Ops
  <2>3. \A j \in 1..(i - 1) : script'[j] = script[j + 1] /\ j + 1 \in 1..((i + 1) - 1)
    BY <1>1, <1>2, <2>1
  <2> QED BY <1>1, <2>1, <2>2, <2>3
<1>6. ASSUME NEW i \in 1..Len(script'), script'[i].op = "revoke" PROVE RevokeIsLawful(script, i)'
  <2>1. RevokeIsLawful(script, i + 1)
    BY <1>5, <1>6 DEF BumpsAreAgreed
  <2>2. PICK b \in Blocked :
          /\ claims[b].resource = claims[script[i + 1].claim].resource
          /\ \A j \in 1..((i + 1) - 1) : script[j].claim # b
          /\ \A p \in script[i + 1].bens :
               /\ \E q \in claims[b].bens : PaxPriority(q) < PaxPriority(p)
               /\ HasAnother(p, claims[b].resource, script, i + 1)
    BY <2>1 DEF RevokeIsLawful
  <2>3. b # c
    <3>1. 1 \in 1..((i + 1) - 1)
      BY <1>5
    <3> QED BY <1>2, <2>2, <3>1
  <2>4. b \in Blocked' /\ claims'[b] = claims[b]
    BY <1>4, <2>3
  <2>5. ASSUME NEW p, HasAnother(p, claims[b].resource, script, i + 1)
        PROVE  HasAnother(p, claims[b].resource, script, i)'
    <3>1. PICK g \in Legal(scenario, p) :
             /\ Seat(scenario, g) # claims[b].resource
             /\ Cardinality(Due(script, i + 1, Seat(scenario, g))) < Free(Seat(scenario, g))
      BY <2>5 DEF HasAnother
    <3> DEFINE r == Seat(scenario, g)
    <3>2. r \in Resource
      <4>1. g \in Flight
        BY <1>3, LegalFlightsAreFlights
      <4> QED BY <1>3, <4>1, StormIsTyped
    <3>3. Cardinality(Due(script, i + 1, r)) < Free(r)
      BY <3>1
    <3>4. PICK s \in Resource : s = r
      BY <3>2
    <3> HIDE DEF r
    <3>5. (Cardinality(Due(script, i, s)) < Free(s))'
      BY <1>5, <3>3, <3>4, DueIsStillFree DEF BumpsAreAgreed
    <3>6. s = Seat(scenario', g) /\ g \in Legal(scenario', p) /\ s # claims'[b].resource
      BY <1>1, <2>4, <3>1, <3>4 DEF r
    <3> QED BY <3>5, <3>6 DEF HasAnother
  <2>6. \A j \in 1..(i - 1) : script'[j].claim # b
    BY <1>5, <2>2
  <2>7. claims'[b].resource = claims'[script'[i].claim].resource
    BY <1>5, <2>2, <2>4
  <2>8. ASSUME NEW p \in script'[i].bens
        PROVE  /\ \E q \in claims'[b].bens : PaxPriority(q) < PaxPriority(p)
               /\ HasAnother(p, claims[b].resource, script, i)'
    BY <1>5, <2>2, <2>4, <2>5
  <2> QED BY <2>4, <2>6, <2>7, <2>8 DEF RevokeIsLawful
<1>7. ASSUME NEW i \in 1..Len(script'), script'[i].op = "void" PROVE VoidTakesNoSeat(script, i)'
  <2>1. VoidTakesNoSeat(script, i + 1)
    BY <1>5, <1>7 DEF BumpsAreAgreed
  <2>2. CASE claims[script[i + 1].claim].resource.kind # "seat"
    BY <1>5, <2>2 DEF VoidTakesNoSeat
  <2>3. CASE /\ script[i + 1].claim \in Blocked
             /\ \A j \in 1..((i + 1) - 1) : script[j].claim # script[i + 1].claim
    <3>1. script[i + 1].claim # c
      <4>1. 1 \in 1..((i + 1) - 1)
        BY <1>5
      <4> QED BY <1>2, <2>3, <4>1
    <3>2. script'[i].claim \in Blocked'
      BY <1>4, <1>5, <2>3, <3>1
    <3>3. \A j \in 1..(i - 1) : script'[j].claim # script'[i].claim
      BY <1>5, <2>3
    <3> QED BY <3>2, <3>3 DEF VoidTakesNoSeat
  <2> QED BY <2>1, <2>2, <2>3 DEF VoidTakesNoSeat
<1>8. GrantsAreDistinct(script)'
  <2>1. ASSUME NEW i \in 1..Len(script'), NEW j \in 1..Len(script'),
               script'[i].op = "grant", script'[j].op = "grant", script'[i].claim = script'[j].claim
        PROVE  i = j
    <3>1. i + 1 = j + 1
      BY <1>5, <2>1 DEF BumpsAreAgreed, GrantsAreDistinct
    <3> QED BY <1>5, <3>1
  <2> QED BY <2>1 DEF GrantsAreDistinct
<1> QED BY <1>6, <1>7, <1>8 DEF BumpsAreAgreed

LEMMA FirstNIsNoLonger ==
  ASSUME NEW S, NEW s \in Seq(S), NEW n \in Nat
  PROVE  LET t == FirstN(s, n)
         IN  /\ t \in Seq(S) /\ Len(t) \in 0..n
             /\ IsFiniteSet(ToSet(t)) /\ Cardinality(ToSet(t)) \in 0..n
<1> DEFINE t == FirstN(s, n)
           m == IF n < Len(s) THEN n ELSE Len(s)
           f == [i \in 1..Len(t) |-> t[i]]
<1>1. m \in 0..n /\ m <= Len(s) /\ t = SubSeq(s, 1, m)
  BY DEF FirstN
<1> HIDE DEF m
<1>2. t \in Seq(S) /\ Len(t) = m
  BY <1>1
<1> HIDE DEF t
<1>3. DOMAIN t = 1..Len(t) /\ Len(t) \in Nat
  BY <1>2
<1>4. f \in Surjection(1..Len(t), ToSet(t))
  BY <1>3 DEF Surjection, ToSet
<1>5. IsFiniteSet(1..Len(t)) /\ Cardinality(1..Len(t)) = Len(t)
  <2>1. \A k \in Nat : IsFiniteSet(1..k) /\ Cardinality(1..k) = k
    BY FS_Interval
  <2> QED BY <1>3, <2>1
<1>6. IsFiniteSet(ToSet(t)) /\ Cardinality(ToSet(t)) <= Len(t)
  BY <1>4, <1>5, FS_Surjection
<1>7. Cardinality(ToSet(t)) \in Nat
  BY <1>6, FS_CardinalityType
<1> QED BY <1>1, <1>2, <1>6, <1>7 DEF t

\* Bumping for b makes room for no more than b asks for, and elsewhere none.
LEMMA BumpMakesRoom ==
  ASSUME Ready, NEW v, ViewIsSound(v), NEW plan \in Plans,
         NEW b \in v.blocked, b.resource.kind = "seat"
  PROVE  LET p == Bump(v, plan, b)
         IN /\ \A s \in registered \ {b.resource} : Usable(p, s) <= Usable(plan, s)
            /\ \/ Usable(p, b.resource) <= Usable(plan, b.resource)
               \/ Usable(p, b.resource) <= Len(b.wish)
<1> DEFINE r == b.resource
           shortfall == Len(b.wish) - Usable(plan, r)
           victims == IF shortfall > 0 THEN FirstN(Bumpable(v, plan, b), shortfall) ELSE <<>>
           From(c) == {victims[i].pax : i \in {j \in DOMAIN victims : victims[j].claim = c}}
           hit == ById({c \in v.granted : From(c.id) # {}})
           To(s) == {i \in DOMAIN victims :
             Seat(v.sc, FirstById(Alternatives(v, plan, victims[i].pax, r))) = s}
           p == Bump(v, plan, b)
           revokes == [i \in DOMAIN hit |-> Op("revoke", hit[i].id, From(hit[i].id))]
           hurt == {victims[i].agent : i \in DOMAIN victims}
<1>1. b \in Shown /\ r \in registered /\ b.wish \in Seq(Beneficiary)
  BY DEF ViewIsSound, Shown
<1>2. \A s \in registered : plan.free[s] \in Int /\ plan.reserved[s] \in Int
  BY DEF Plans
<1>3. shortfall \in Int /\ shortfall = Len(b.wish) - (plan.free[r] - plan.reserved[r])
  BY <1>1, <1>2 DEF Usable
<1>4. p = [plan EXCEPT !.free[r] = @ + Len(victims),
                       !.reserved = [s \in DOMAIN @ |-> @[s] + Cardinality(To(s))],
                       !.ops = @ \o revokes,
                       !.losers = @ \union hurt]
  BY DEF Bump
<1> HIDE DEF shortfall
<1>5. /\ victims \in Seq(Exposed) /\ Len(victims) \in Nat /\ DOMAIN victims = 1..Len(victims)
      /\ shortfall <= 0 => Len(victims) = 0
      /\ shortfall > 0 => Len(victims) <= shortfall
  <2>1. Bumpable(v, plan, b) \in Seq(Exposed)
    BY BumpableAreExposed
  <2>2. CASE shortfall > 0
    <3>1. shortfall \in Nat
      BY <1>3, <2>2
    <3>2. victims = FirstN(Bumpable(v, plan, b), shortfall)
      BY <2>2
    <3> HIDE DEF victims
    <3>3. victims \in Seq(Exposed) /\ Len(victims) \in 0..shortfall
      BY <2>1, <3>1, <3>2, FirstNIsNoLonger
    <3> QED BY <2>2, <3>1, <3>3
  <2>3. CASE ~(shortfall > 0)
    <3>1. victims = <<>>
      BY <2>3
    <3> HIDE DEF victims
    <3> QED BY <2>3, <3>1
  <2> QED BY <2>2, <2>3
<1> HIDE DEF victims, r, p
<1>6. \A s : Cardinality(To(s)) \in Nat
  <2>1. IsFiniteSet(DOMAIN victims)
    BY <1>5, PlacesAreFinite
  <2>2. \A s : To(s) \in SUBSET DOMAIN victims
    OBVIOUS
  <2> HIDE DEF To
  <2> QED BY <2>1, <2>2, FS_Subset, FS_CardinalityType
<1> HIDE DEF To, revokes, hurt
<1>7. ASSUME NEW s \in registered
      PROVE  /\ p.reserved[s] = plan.reserved[s] + Cardinality(To(s))
             /\ p.free[s] = IF s = r THEN plan.free[s] + Len(victims) ELSE plan.free[s]
  BY <1>1, <1>4 DEF Plans
<1>8. \A s \in registered \ {r} : Usable(p, s) <= Usable(plan, s)
  BY <1>2, <1>6, <1>7 DEF Usable
<1>9. Usable(p, r) <= Usable(plan, r) \/ Usable(p, r) <= Len(b.wish)
  <2>1. /\ Usable(p, r) = (plan.free[r] + Len(victims)) - (plan.reserved[r] + Cardinality(To(r)))
        /\ Usable(plan, r) = plan.free[r] - plan.reserved[r]
        /\ plan.free[r] \in Int /\ plan.reserved[r] \in Int
    <3>1. r \in registered
      BY <1>1 DEF r
    <3>2. /\ p.reserved[r] = plan.reserved[r] + Cardinality(To(r))
          /\ p.free[r] = plan.free[r] + Len(victims)
      BY <1>7, <3>1
    <3>3. Usable(p, r) = p.free[r] - p.reserved[r] /\ Usable(plan, r) = plan.free[r] - plan.reserved[r]
      BY DEF Usable
    <3>4. plan.free[r] \in Int /\ plan.reserved[r] \in Int
      BY <1>2, <3>1
    <3> QED BY <3>2, <3>3, <3>4
  <2>2. Cardinality(To(r)) \in Nat /\ Len(b.wish) \in Nat
    BY <1>1, <1>6
  <2>3. shortfall = Len(b.wish) - (plan.free[r] - plan.reserved[r])
    BY <1>3 DEF r
  <2> DEFINE short == Len(b.wish) - (plan.free[r] - plan.reserved[r])
  <2>4. short <= 0 => Len(victims) = 0
    BY <1>5, <2>3
  <2>5. short > 0 => Len(victims) <= short
    BY <1>5, <2>3
  <2>6. Len(victims) \in Nat
    BY <1>5
  <2>7. \A a, e, n, k, w \in Int :
          /\ n >= 0 /\ k >= 0
          /\ w - (a - e) <= 0 => n = 0
          /\ w - (a - e) > 0 => n <= w - (a - e)
          => (a + n) - (e + k) <= a - e \/ (a + n) - (e + k) <= w
    OBVIOUS
  <2> DEFINE a == plan.free[r]
             e == plan.reserved[r]
             n == Len(victims)
             k == Cardinality(To(r))
             w == Len(b.wish)
  <2>8. /\ a \in Int /\ e \in Int /\ n \in Int /\ k \in Int /\ w \in Int /\ n >= 0 /\ k >= 0
        /\ w - (a - e) <= 0 => n = 0
        /\ w - (a - e) > 0 => n <= w - (a - e)
    BY <2>1, <2>2, <2>4, <2>5, <2>6
  <2>9. Usable(p, r) = (a + n) - (e + k) /\ Usable(plan, r) = a - e
    BY <2>1
  <2> HIDE DEF a, e, n, k, w
  <2>10. (a + n) - (e + k) <= a - e \/ (a + n) - (e + k) <= w
    BY <2>7, <2>8
  <2> QED BY <2>9, <2>10 DEF w
<1> QED BY <1>8, <1>9 DEF r, p

\* The best that a blocked claim for seats asks for is one of those it is for.
LEMMA BestIsNamed ==
  ASSUME StormInv, condition # "single", NEW b \in Records("blocked"), b.resource.kind = "seat"
  PROVE  \E q \in claims[b.id].bens : PaxPriority(q) = MostProtected(b)
<1> DEFINE at == [i \in DOMAIN b.wish |-> Protection(b.wish[i])]
           T == {at[i] : i \in DOMAIN b.wish}
<1>1. b.id \in ClaimId /\ claims[b.id].status = "blocked"
  BY RecordsAreOfClaims
<1>2. b = Record(b.id)
  BY DEF Records, Record
<1>3. b \in Shown
  BY <1>1, <1>2, RecordsAreShown
<1>4. b.wish \in Seq(Beneficiary) /\ b.wish # <<>> /\ MayBoard(b.resource, ToSet(b.wish))
  BY <1>3 DEF Shown
<1>5. claims[b.id].bens = ToSet(b.wish)
  <2>1. /\ claims[b.id].commit \in 1..Len(wish)
        /\ claims[b.id].bens = ToSet(wish[claims[b.id].commit].who)
    BY <1>1 DEF StormInv, ClaimsAreLegal
  <2>2. claims[b.id].commit # 0
    BY <2>1
  <2>3. b.wish = wish[claims[b.id].commit].who
    BY <1>2, <2>2 DEF Record
  <2> QED BY <2>1, <2>3
<1>6. \A x : Protection(x) \in Nat
  BY PrioritiesAreNumbers DEF Protection
<1>7. MostProtected(b) = Min(T)
  BY DEF MostProtected
<1>8. \A i \in DOMAIN b.wish : at[i] \in Nat
  BY <1>6
<1>9. 1 \in DOMAIN b.wish
  BY <1>4
<1> HIDE DEF at
<1>10. T \in SUBSET Nat /\ T # {}
  BY <1>8, <1>9
<1> HIDE DEF T
<1>11. PICK n \in T : \A k \in T : n <= k
  BY <1>10, LeastNumber
<1>12. Min(T) \in T
  BY <1>11 DEF Min
<1>13. PICK i \in DOMAIN b.wish : MostProtected(b) = Protection(b.wish[i])
  BY <1>7, <1>12 DEF T, at
<1>14. b.wish[i] \in ToSet(b.wish)
  BY DEF ToSet
<1>15. b.wish[i] \in Passenger
  BY <1>4, <1>14 DEF MayBoard
<1> QED BY <1>5, <1>13, <1>14, <1>15 DEF Protection

\* Who may be bumped for b holds a seat of b's flight, is less protected than b's
\* best, and has another flight.
MayLose(v, plan, b) ==
  {x \in Exposed :
     /\ \E d \in v.granted : d.id = x.claim /\ d.resource = b.resource
     /\ PaxPriority(x.pax) > MostProtected(b)
     /\ Alternatives(v, plan, x.pax, b.resource) # {}}

LEMMA BumpableMayLose ==
  ASSUME NEW v, ViewIsSound(v), NEW plan, NEW b \in v.blocked, b.resource.kind = "seat"
  PROVE  Bumpable(v, plan, b) \in Seq(MayLose(v, plan, b))
<1> DEFINE S == {x \in HoldersAgainst(v, b) :
                   /\ PaxPriority(x.pax) > MostProtected(b)
                   /\ Alternatives(v, plan, x.pax, b.resource) # {}}
<1>1. S \subseteq HoldersAgainst(v, b)
  OBVIOUS
<1>2. Bumpable(v, plan, b) = ByExposure(S)
  BY DEF Bumpable
<1>3. \A x \in HoldersAgainst(v, b) : \E d \in v.granted : d.id = x.claim /\ d.resource = b.resource
  <2> DEFINE G == {d \in v.granted : d.resource = b.resource /\ d.agent # b.agent}
  <2>1. HoldersAgainst(v, b) = UNION {[pax : c.holders, claim : {c.id}, agent : {c.agent}] : c \in G}
    BY DEF HoldersAgainst
  <2>2. ASSUME NEW x \in HoldersAgainst(v, b)
        PROVE  \E d \in v.granted : d.id = x.claim /\ d.resource = b.resource
    <3>1. PICK c \in G : x \in [pax : c.holders, claim : {c.id}, agent : {c.agent}]
      BY <2>1
    <3> QED BY <3>1
  <2> QED BY <2>2
<1>4. S \subseteq MayLose(v, plan, b)
  BY <1>1, <1>3, HoldersAreExposed DEF MayLose
<1> HIDE DEF S
<1>5. S \subseteq Exposed /\ \A x, y \in S : x.pax = y.pax /\ x.claim = y.claim => x = y
  BY <1>1, HoldersAreExposed
<1>6. IsFiniteSet(S)
  BY <1>1, HoldersAreExposed, FS_Subset
<1>7. ByExposure(S) \in Seq(S)
  BY <1>5, <1>6, ByExposureIsInOrder
<1> QED BY <1>2, <1>4, <1>7

LEMMA DuesAreOfGrants ==
  ASSUME NEW s, NEW t, NEW m \in Nat, NEW i \in Nat, i > m, NEW r,
         \A j \in 1..m : t[j] = s[j], \A j \in (m + 1)..(i - 1) : t[j].op # "grant"
  PROVE  Due(t, i, r) = Due(s, m + 1, r)
<1>1. \A j \in 1..m : j \in 1..(i - 1) /\ j \in 1..((m + 1) - 1)
  OBVIOUS
<1>2. \A j \in 1..(i - 1) : t[j].op = "grant" => j \in 1..m
  OBVIOUS
<1>3. \A j \in 1..((m + 1) - 1) : j \in 1..m
  OBVIOUS
<1> QED BY <1>1, <1>2, <1>3 DEF Due

\* What a plan leaves of a flight is there when its grants have taken theirs.
LeavesWhatIsFree(plan) ==
  \A r \in registered :
    \/ Usable(plan, r) <= 0
    \/ Usable(plan, r) + Cardinality(Due(plan.ops, Len(plan.ops) + 1, r)) <= Free(r)

LEMMA BumpIsAgreed ==
  ASSUME StormInv, Ready, condition # "single", NEW v, v = View,
         NEW plan \in Plans, LeavesWhatIsFree(plan),
         NEW b \in v.blocked, b.resource.kind = "seat",
         \A j \in 1..Len(plan.ops) : plan.ops[j].claim # b.id
  PROVE  LET t == Bump(v, plan, b).ops
             m == Len(plan.ops)
         IN /\ plan.ops \in Seq(Ops) /\ t \in Seq(Ops) /\ Len(t) >= m
            /\ \A j \in 1..m : t[j] = plan.ops[j]
            /\ \A j \in (m + 1)..Len(t) :
                 /\ t[j].op = "revoke" /\ claims[t[j].claim].status = "granted"
                 /\ RevokeIsLawful(t, j)
<1> DEFINE r == b.resource
           shortfall == Len(b.wish) - Usable(plan, r)
           victims == IF shortfall > 0 THEN FirstN(Bumpable(v, plan, b), shortfall) ELSE <<>>
           From(c) == {victims[i].pax : i \in {j \in DOMAIN victims : victims[j].claim = c}}
           S == {c \in v.granted : From(c.id) # {}}
           hit == ById(S)
           revokes == [i \in DOMAIN hit |-> Op("revoke", hit[i].id, From(hit[i].id))]
           m == Len(plan.ops)
           t == Bump(v, plan, b).ops
<1>1. ViewIsSound(v) /\ v.granted = Records("granted") /\ v.blocked = Records("blocked") /\ v.sc = scenario
  <2>1. ViewIsSound(v)
    BY ViewsAreSound
  <2> QED BY <2>1 DEF View
<1>2. b \in Shown /\ r \in registered /\ b.wish \in Seq(Beneficiary)
  BY <1>1 DEF ViewIsSound, Shown
<1>3. b.id \in Blocked /\ claims[b.id].resource = r /\ claims[b.id].status = "blocked"
  BY <1>1, RecordsAreOfClaims DEF Blocked, ClaimId
<1>4. shortfall \in Int
  <2>1. plan.free[r] \in Int /\ plan.reserved[r] \in Int
    BY <1>2 DEF Plans
  <2>2. Len(b.wish) \in Int
    BY <1>2
  <2> QED BY <2>1, <2>2 DEF Usable
<1>5. plan.ops \in Seq(Ops) /\ t \in Seq(Ops)
  <2>1. Bump(v, plan, b) \in Plans
    BY <1>1, BumpIsLegal
  <2> QED BY <2>1 DEF Plans
<1>6. t = plan.ops \o revokes
  BY DEF Bump, Plans
<1> HIDE DEF shortfall
<1>7. victims \in Seq(MayLose(v, plan, b))
  <2>1. Bumpable(v, plan, b) \in Seq(MayLose(v, plan, b))
    BY <1>1, BumpableMayLose
  <2> QED BY <1>4, <2>1, FirstNIsAStart
<1> HIDE DEF victims
<1>8. \A i \in DOMAIN victims : victims[i] \in MayLose(v, plan, b)
  BY <1>7
<1>9. \A c : \A p \in From(c) : \E x \in MayLose(v, plan, b) : x.pax = p /\ x.claim = c
  BY <1>8
<1> HIDE DEF From
<1>10. /\ hit \in Seq(S) /\ Len(hit) \in Nat /\ DOMAIN hit = 1..Len(hit)
       /\ \A k \in 1..Len(hit) : hit[k] \in v.granted /\ From(hit[k].id) # {}
  <2>1. IsFiniteSet(S) /\ OneRecordPerId(S)
    BY <1>1, SomeRecords
  <2>2. \A c \in S : c \in v.granted /\ From(c.id) # {}
    OBVIOUS
  <2> HIDE DEF S
  <2>3. hit \in Seq(S)
    BY <2>1, ByIdIsInOrder
  <2> HIDE DEF hit
  <2> QED BY <2>2, <2>3
<1> HIDE DEF hit
<1>11. ASSUME NEW k \in 1..Len(hit)
       PROVE  /\ revokes[k] = Op("revoke", hit[k].id, From(hit[k].id))
              /\ claims[hit[k].id].status = "granted" /\ claims[hit[k].id].resource = r
  <2>1. hit[k] \in Records("granted")
    BY <1>1, <1>10
  <2>2. PICK x \in MayLose(v, plan, b) : x.claim = hit[k].id
    BY <1>9, <1>10
  <2>3. PICK d \in v.granted : d.id = hit[k].id /\ d.resource = r
    BY <2>2 DEF MayLose
  <2>4. claims[hit[k].id].resource = r /\ claims[hit[k].id].status = "granted"
    BY <1>1, <2>3, RecordsAreOfClaims
  <2> QED BY <1>10, <2>4
<1>12. Len(revokes) = Len(hit) /\ revokes \in Seq({revokes[k] : k \in 1..Len(hit)})
  <2>1. revokes \in [1..Len(hit) -> {revokes[k] : k \in 1..Len(hit)}]
    BY <1>10
  <2> HIDE DEF revokes
  <2> QED BY <1>10, <2>1, MappedIsASequence
<1> HIDE DEF revokes, t
<1>13. /\ m \in Nat /\ Len(t) = m + Len(hit)
       /\ \A j \in 1..m : t[j] = plan.ops[j]
       /\ \A k \in 1..Len(hit) : t[m + k] = revokes[k]
  <2> DEFINE R == {revokes[k] : k \in 1..Len(hit)}
             X == Ops \union R
  <2>1. plan.ops \in Seq(X) /\ revokes \in Seq(X)
    BY <1>5, <1>12
  <2> HIDE DEF X
  <2>2. /\ Len(t) = Len(plan.ops) + Len(revokes)
        /\ \A i \in 1..Len(plan.ops) : t[i] = plan.ops[i]
        /\ \A i \in 1..Len(revokes) : t[Len(plan.ops) + i] = revokes[i]
    BY <1>6, <2>1, JoinedIsASequence
  <2>3. m \in Nat
    BY <1>5
  <2> QED BY <1>12, <2>2, <2>3
<1>14. ASSUME NEW j \in (m + 1)..Len(t)
       PROVE  /\ j - m \in 1..Len(hit)
              /\ t[j] = Op("revoke", hit[j - m].id, From(hit[j - m].id))
              /\ t[j].op = "revoke" /\ t[j].claim = hit[j - m].id /\ t[j].bens = From(hit[j - m].id)
              /\ claims[t[j].claim].status = "granted" /\ claims[t[j].claim].resource = r
  <2>1. j - m \in 1..Len(hit) /\ m + (j - m) = j
    BY <1>10, <1>13
  <2>2. t[j] = Op("revoke", hit[j - m].id, From(hit[j - m].id))
    BY <1>11, <1>13, <2>1
  <2> QED BY <1>11, <2>1, <2>2 DEF Op
<1>15. ASSUME NEW j \in (m + 1)..Len(t) PROVE RevokeIsLawful(t, j)
  <2>1. \A i \in 1..(j - 1) : t[i].claim # b.id
    <3>1. ASSUME NEW i \in 1..(j - 1), t[i].claim = b.id PROVE FALSE
      <4>1. CASE i \in 1..m
        BY <1>13, <3>1, <4>1
      <4>2. CASE i \notin 1..m
        <5>1. i \in (m + 1)..Len(t)
          BY <1>10, <1>13, <4>2
        <5> QED BY <1>3, <1>14, <3>1, <5>1
      <4> QED BY <4>1, <4>2
    <3> QED BY <3>1
  <2>2. PICK q \in claims[b.id].bens : PaxPriority(q) = MostProtected(b)
    BY <1>1, BestIsNamed
  <2>3. ASSUME NEW p \in t[j].bens
        PROVE  PaxPriority(q) < PaxPriority(p) /\ HasAnother(p, r, t, j)
    <3>1. PICK x \in MayLose(v, plan, b) : x.pax = p
      BY <1>9, <1>14, <2>3
    <3>2. PaxPriority(p) > MostProtected(b) /\ Alternatives(v, plan, p, r) # {}
      BY <3>1 DEF MayLose
    <3>3. PICK g \in Legal(scenario, p) : Seat(scenario, g) # r /\ Usable(plan, Seat(scenario, g)) >= 1
      BY <1>1, <3>2 DEF Alternatives
    <3> DEFINE s == Seat(scenario, g)
    <3>4. s \in registered
      BY <3>3, LegalFlightsAreFlights DEF Ready
    <3>5. Usable(plan, s) >= 1 /\ s # r
      BY <3>3
    <3> HIDE DEF s
    <3>6. Usable(plan, s) \in Int
      <4>1. plan.free[s] \in Int /\ plan.reserved[s] \in Int
        BY <3>4 DEF Plans
      <4> QED BY <4>1 DEF Usable
    <3>7. Due(t, j, s) = Due(plan.ops, m + 1, s)
      <4>1. j \in Nat /\ j > m
        BY <1>10, <1>13
      <4>2. \A i \in (m + 1)..(j - 1) : t[i].op # "grant"
        <5>1. ASSUME NEW i \in (m + 1)..(j - 1) PROVE t[i].op # "grant"
          <6>1. i \in (m + 1)..Len(t)
            BY <1>10, <1>13
          <6>2. t[i].op = "revoke"
            BY <1>14, <6>1
          <6> QED BY <6>2
        <5> QED BY <5>1
      <4>3. m \in Nat /\ \A i \in 1..m : t[i] = plan.ops[i]
        BY <1>13
      <4> HIDE DEF m
      <4> QED BY <4>1, <4>2, <4>3, DuesAreOfGrants
    <3>8. Usable(plan, s) + Cardinality(Due(plan.ops, m + 1, s)) <= Free(s)
      BY <3>4, <3>5, <3>6 DEF LeavesWhatIsFree
    <3>9. Cardinality(Due(plan.ops, m + 1, s)) \in Nat /\ Free(s) \in Nat
      BY <3>4, DuesAreFinite, FreeIsANumber
    <3>10. Cardinality(Due(t, j, s)) < Free(s)
      BY <3>5, <3>6, <3>7, <3>8, <3>9
    <3>11. HasAnother(p, r, t, j)
      BY <3>3, <3>5, <3>10 DEF HasAnother, s
    <3>12. PaxPriority(q) < PaxPriority(p)
      BY <2>2, <3>2, PrioritiesAreNumbers
    <3> QED BY <3>11, <3>12
  <2>4. claims[b.id].resource = claims[t[j].claim].resource /\ claims[b.id].resource = r
    BY <1>3, <1>14
  <2> QED BY <1>3, <2>1, <2>3, <2>4 DEF RevokeIsLawful
<1>16. Len(t) >= m
  BY <1>10, <1>13
<1> QED BY <1>5, <1>13, <1>14, <1>15, <1>16 DEF t, m

LEMMA LawfulStays ==
  ASSUME NEW s, NEW t, NEW i \in Nat, i >= 1, \A j \in 1..i : t[j] = s[j], RevokeIsLawful(s, i)
  PROVE  RevokeIsLawful(t, i)
<1>1. t[i] = s[i] /\ \A j \in 1..(i - 1) : t[j] = s[j]
  OBVIOUS
<1>2. \A r : Due(t, i, r) = Due(s, i, r)
  BY <1>1 DEF Due
<1>3. \A p, r : HasAnother(p, r, s, i) => HasAnother(p, r, t, i)
  BY <1>2 DEF HasAnother
<1>4. PICK b \in Blocked :
        /\ claims[b].resource = claims[s[i].claim].resource
        /\ \A j \in 1..(i - 1) : s[j].claim # b
        /\ \A p \in s[i].bens :
             /\ \E q \in claims[b].bens : PaxPriority(q) < PaxPriority(p)
             /\ HasAnother(p, claims[b].resource, s, i)
  BY DEF RevokeIsLawful
<1>5. \A j \in 1..(i - 1) : t[j].claim # b
  BY <1>1, <1>4
<1>6. \A p \in t[i].bens :
        /\ \E q \in claims[b].bens : PaxPriority(q) < PaxPriority(p)
        /\ HasAnother(p, claims[b].resource, t, i)
  BY <1>1, <1>3, <1>4
<1> QED BY <1>1, <1>4, <1>5, <1>6 DEF RevokeIsLawful

\* The operations planned for the first n of s.
OpsAreAgreed(s, n, t) ==
  /\ \A i \in 1..Len(t) : /\ t[i].op # "void"
                          /\ t[i].op = "revoke" => RevokeIsLawful(t, i)
                          /\ \A k \in (n + 1)..Len(s) : t[i].claim # s[k].id
  /\ GrantsAreDistinct(t)

PlanIsAgreed(s, n, plan) == OpsAreAgreed(s, n, plan.ops) /\ LeavesWhatIsFree(plan)

LEMMA DuesOfOneMore ==
  ASSUME NEW s, NEW t, NEW m \in Nat, NEW c, NEW T, NEW r,
         \A j \in 1..m : t[j] = s[j], t[m + 1].claim = c, t[m + 1].bens = T
  PROVE  /\ Due(t, m + 2, r) \subseteq Due(s, m + 1, r) \union ({c} \X T)
         /\ claims[c].resource # r => Due(t, m + 2, r) \subseteq Due(s, m + 1, r)
<1>1. ASSUME NEW z \in Due(t, m + 2, r)
      PROVE  z \in Due(s, m + 1, r) \/ (z \in {c} \X T /\ claims[c].resource = r)
  <2>1. PICK j \in 1..((m + 2) - 1) :
             /\ t[j].op = "grant" /\ t[j].claim = z[1] /\ z[2] \in t[j].bens
             /\ claims[z[1]].resource = r
    BY DEF Due
  <2>2. z \in ClaimId \X Beneficiary
    BY DEF Due
  <2>3. CASE j = m + 1
    <3>1. z[1] = c /\ z[2] \in T /\ claims[c].resource = r
      BY <2>1, <2>3
    <3>2. z = <<z[1], z[2]>>
      BY <2>2
    <3> QED BY <3>1, <3>2
  <2>4. CASE j # m + 1
    <3>1. j \in 1..m /\ j \in 1..((m + 1) - 1)
      BY <2>4
    <3>2. t[j] = s[j]
      BY <3>1
    <3> QED BY <2>1, <2>2, <3>1, <3>2 DEF Due
  <2> QED BY <2>3, <2>4
<1> QED BY <1>1

\* Serving b takes no more than was left of its flight.
LEMMA ServedLeavesRoom ==
  ASSUME NEW U \in Int, NEW P \in Int, NEW L \in Nat, NEW D \in Nat, NEW E \in Nat,
         NEW F \in Int, NEW T \in Nat, NEW k \in Int,
         P >= 1, P <= U \/ P <= L, U <= 0 \/ U + D <= F,
         k = IF L < P THEN L ELSE P, T <= k, E <= D + T
  PROVE  P - k <= 0 \/ (P - k) + E <= F
OBVIOUS

LEMMA BumpLeavesOthers ==
  ASSUME StormInv, Ready, condition # "single", NEW v, v = View,
         NEW ids, NEW n \in 1..Len(Disputed(v, ids)), NEW last \in Plans,
         PlanIsAgreed(Disputed(v, ids), n - 1, last)
  PROVE  LET s == Disputed(v, ids)
             b == s[n]
             p == Bump(v, last, b)
         IN /\ ViewIsSound(v) /\ b \in v.blocked /\ b.resource.kind = "seat" /\ b.resource \in registered
            /\ p \in Plans /\ p.ops \in Seq(Ops)
            /\ OpsAreAgreed(s, n, p.ops)
            /\ \A i \in 1..Len(p.ops) : p.ops[i].claim # b.id
            /\ \A r \in registered : Due(p.ops, Len(p.ops) + 1, r) = Due(last.ops, Len(last.ops) + 1, r)
<1> DEFINE s == Disputed(v, ids)
           b == s[n]
           p == Bump(v, last, b)
           o == last.ops
           t == p.ops
<1>1. ViewIsSound(v) /\ v.blocked = Records("blocked")
  BY ViewsAreSound DEF View
<1>2. /\ Len(s) \in Nat
      /\ \A k \in 1..Len(s) : s[k] \in v.blocked /\ s[k].resource.kind = "seat"
      /\ \A j, k \in 1..Len(s) : s[j].id = s[k].id => j = k
  BY <1>1, DisputedAreBlocked
<1>3. b \in v.blocked /\ b.resource.kind = "seat" /\ b.resource \in registered
  BY <1>1, <1>2 DEF ViewIsSound, Shown
<1>4. \A k \in 1..Len(s) : claims[s[k].id].status = "blocked"
  BY <1>1, <1>2, RecordsAreOfClaims
<1> HIDE DEF s
<1>5. n \in Nat /\ n \in 1..Len(s) /\ n \in (n - 1 + 1)..Len(s)
      /\ \A k \in (n + 1)..Len(s) : k \in (n - 1 + 1)..Len(s) /\ k \in 1..Len(s) /\ k # n
  BY <1>2 DEF s
<1>6. OpsAreAgreed(s, n - 1, o) /\ LeavesWhatIsFree(last)
  BY DEF PlanIsAgreed, s
<1>7. ASSUME NEW i \in 1..Len(o)
      PROVE  /\ o[i].op # "void"
             /\ o[i].op = "revoke" => RevokeIsLawful(o, i)
             /\ \A k \in (n + 1)..Len(s) : o[i].claim # s[k].id
             /\ o[i].claim # b.id
  BY <1>5, <1>6 DEF OpsAreAgreed
<1> HIDE DEF b
<1>8. p \in Plans
  BY <1>1, <1>3, BumpIsLegal
<1>9. /\ o \in Seq(Ops) /\ t \in Seq(Ops) /\ Len(t) >= Len(o)
      /\ \A j \in 1..Len(o) : t[j] = o[j]
      /\ \A j \in (Len(o) + 1)..Len(t) :
           /\ t[j].op = "revoke" /\ claims[t[j].claim].status = "granted"
           /\ RevokeIsLawful(t, j)
  BY <1>3, <1>6, <1>7, BumpIsAgreed
<1> HIDE DEF p, o, t
<1>10. Len(o) \in Nat /\ Len(t) \in Nat
  BY <1>9
<1>11. ASSUME NEW i \in 1..Len(t), i \notin 1..Len(o)
       PROVE  /\ t[i].op = "revoke" /\ RevokeIsLawful(t, i)
              /\ \A k \in 1..Len(s) : t[i].claim # s[k].id
              /\ t[i].claim # b.id
  <2>1. i \in (Len(o) + 1)..Len(t)
    BY <1>10, <1>11
  <2>2. b = s[n]
    BY DEF b
  <2> QED BY <1>4, <1>5, <1>9, <2>1, <2>2
<1>12. ASSUME NEW i \in 1..Len(o), o[i].op = "revoke" PROVE RevokeIsLawful(t, i)
  <2>1. i \in Nat /\ i >= 1 /\ \A j \in 1..i : j \in 1..Len(o)
    BY <1>10
  <2>2. RevokeIsLawful(o, i) /\ \A j \in 1..i : t[j] = o[j]
    BY <1>7, <1>9, <1>12, <2>1
  <2> QED BY <2>1, <2>2, LawfulStays
<1>13. ASSUME NEW i \in 1..Len(t)
       PROVE  /\ t[i].op # "void"
              /\ t[i].op = "revoke" => RevokeIsLawful(t, i)
              /\ \A k \in (n + 1)..Len(s) : t[i].claim # s[k].id
              /\ t[i].claim # b.id
  <2>1. CASE i \in 1..Len(o)
    <3>1. t[i] = o[i]
      BY <1>9, <2>1
    <3> QED BY <1>7, <1>12, <2>1, <3>1
  <2>2. CASE i \notin 1..Len(o)
    <3>1. "revoke" # "void"
      OBVIOUS
    <3> QED BY <1>5, <1>11, <2>2, <3>1
  <2> QED BY <2>1, <2>2
<1>14. GrantsAreDistinct(t)
  <2>1. ASSUME NEW i \in 1..Len(t), NEW j \in 1..Len(t),
               t[i].op = "grant", t[j].op = "grant", t[i].claim = t[j].claim
        PROVE  i = j
    <3>1. i \in 1..Len(o) /\ j \in 1..Len(o)
      BY <1>11, <2>1
    <3>2. t[i] = o[i] /\ t[j] = o[j]
      BY <1>9, <3>1
    <3> QED BY <1>6, <2>1, <3>1, <3>2 DEF OpsAreAgreed, GrantsAreDistinct
  <2> QED BY <2>1 DEF GrantsAreDistinct
<1>15. OpsAreAgreed(s, n, t)
  BY <1>13, <1>14 DEF OpsAreAgreed
<1>16. \A r : Due(t, Len(t) + 1, r) = Due(o, Len(o) + 1, r)
  <2>1. Len(t) + 1 \in Nat /\ Len(t) + 1 > Len(o)
    BY <1>9, <1>10
  <2>2. \A j \in (Len(o) + 1)..((Len(t) + 1) - 1) : t[j].op # "grant"
    <3>1. ASSUME NEW j \in (Len(o) + 1)..((Len(t) + 1) - 1) PROVE t[j].op # "grant"
      <4>1. j \in (Len(o) + 1)..Len(t)
        BY <1>10
      <4>2. t[j].op = "revoke"
        BY <1>9, <4>1
      <4> QED BY <4>2
    <3> QED BY <3>1
  <2>3. \A j \in 1..Len(o) : t[j] = o[j]
    BY <1>9
  <2> QED BY <1>10, <2>1, <2>2, <2>3, DuesAreOfGrants
<1> QED BY <1>1, <1>3, <1>8, <1>9, <1>13, <1>15, <1>16 DEF s, b, p, o, t

\* Whatever room a plan has for b, the next claims are decided on a plan that leaves
\* what is free.
LEMMA DecidedIsAgreed ==
  ASSUME StormInv, Ready, condition # "single", NEW v, v = View,
         NEW ids, NEW n \in 1..Len(Disputed(v, ids)), NEW last \in Plans,
         PlanIsAgreed(Disputed(v, ids), n - 1, last)
  PROVE  PlanIsAgreed(Disputed(v, ids), n, Decided(v, last, Disputed(v, ids)[n]))
<1> DEFINE s == Disputed(v, ids)
           b == s[n]
           r == b.resource
           p == Bump(v, last, b)
           P == Usable(p, r)
           L == Len(b.wish)
           k == IF L < P THEN L ELSE P
           T == ToSet(FirstN(b.wish, k))
           g == Op("grant", b.id, T)
           q == Serve(b, p, P)
           d(x) == Due(last.ops, Len(last.ops) + 1, x)
<1>1. /\ ViewIsSound(v) /\ b \in v.blocked /\ r.kind = "seat" /\ r \in registered
      /\ p \in Plans /\ p.ops \in Seq(Ops)
      /\ OpsAreAgreed(s, n, p.ops)
      /\ \A i \in 1..Len(p.ops) : p.ops[i].claim # b.id
      /\ \A x \in registered : Due(p.ops, Len(p.ops) + 1, x) = d(x)
  BY BumpLeavesOthers
<1>2. b.wish \in Seq(Beneficiary) /\ L \in Nat
  BY <1>1 DEF ViewIsSound, Shown
<1>3. /\ \A x \in registered \ {r} : Usable(p, x) <= Usable(last, x)
      /\ P <= Usable(last, r) \/ P <= L
  BY <1>1, BumpMakesRoom
<1>4. Decided(v, last, b) = IF P <= 0 THEN p ELSE q
  BY DEF Decided
<1>5. \A x \in registered : Usable(p, x) \in Int /\ Usable(last, x) \in Int
  BY <1>1 DEF Usable, Plans
<1>6. \A x \in registered : Free(x) \in Int /\ Cardinality(d(x)) \in Nat
  BY FreeIsANumber, DuesAreFinite
<1>7. \A x \in registered : Usable(last, x) <= 0 \/ Usable(last, x) + Cardinality(d(x)) <= Free(x)
  BY DEF PlanIsAgreed, LeavesWhatIsFree
<1>8. /\ Len(s) \in Nat
      /\ \A i, j \in 1..Len(s) : s[i].id = s[j].id => i = j
  BY <1>1, DisputedAreBlocked
<1>9. claims[b.id].resource = r
  BY <1>1 DEF ViewIsSound, Shown
<1>10. \A i \in (n + 1)..Len(s) : s[i].id # b.id
  <2>1. n \in 1..Len(s) /\ \A i \in (n + 1)..Len(s) : i \in 1..Len(s) /\ i # n
    BY <1>8
  <2> HIDE DEF s
  <2> QED BY <1>8, <2>1
<1> HIDE DEF s, p, b, r, d, L, P
<1>11. ASSUME NEW x \in registered, x # r
       PROVE  Usable(p, x) <= 0 \/ Usable(p, x) + Cardinality(d(x)) <= Free(x)
  <2>1. Usable(p, x) <= Usable(last, x)
    BY <1>3, <1>11
  <2> QED BY <1>5, <1>6, <1>7, <2>1
<1>12. ASSUME P <= 0 PROVE PlanIsAgreed(s, n, p)
  <2>1. ASSUME NEW x \in registered
        PROVE  \/ Usable(p, x) <= 0
               \/ Usable(p, x) + Cardinality(Due(p.ops, Len(p.ops) + 1, x)) <= Free(x)
    <3>1. CASE x = r
      BY <1>12, <3>1 DEF P
    <3>2. CASE x # r
      BY <1>1, <1>11, <3>2
    <3> QED BY <3>1, <3>2
  <2> QED BY <1>1, <2>1 DEF PlanIsAgreed, LeavesWhatIsFree
<1>13. ASSUME ~(P <= 0) PROVE PlanIsAgreed(s, n, q)
  <2> DEFINE t == q.ops
             m == Len(p.ops)
  <2>1. P \in Int /\ P >= 1
    BY <1>1, <1>5, <1>13 DEF P
  <2>2. k \in Nat /\ k \in Int
    BY <1>2, <2>1
  <2>3. q = [p EXCEPT !.free[r] = @ - k, !.ops = Append(@, g), !.winners = @ \union {b.agent}]
    BY DEF Serve, r, L
  <2> HIDE DEF k
  <2>4. IsFiniteSet(T) /\ Cardinality(T) \in Nat /\ Cardinality(T) <= k
    BY <1>2, <2>2, FirstNIsNoLonger
  <2> HIDE DEF T, q
  <2>5. g.op = "grant" /\ g.claim = b.id /\ g.bens = T
    BY DEF Op
  <2> HIDE DEF g
  <2>6. t = Append(p.ops, g)
    BY <1>1, <2>3 DEF Plans
  <2>7. \A x \in registered : Usable(q, x) = IF x = r THEN P - k ELSE Usable(p, x)
    <3>1. ASSUME NEW x \in registered
          PROVE  /\ q.reserved[x] = p.reserved[x]
                 /\ q.free[x] = IF x = r THEN p.free[x] - k ELSE p.free[x]
                 /\ p.free[x] \in Int /\ p.reserved[x] \in Int
      BY <1>1, <2>3 DEF Plans
    <3>2. ASSUME NEW x \in registered
          PROVE  Usable(q, x) = IF x = r THEN P - k ELSE Usable(p, x)
      <4>1. CASE x = r
        <5>1. Usable(q, x) = q.free[x] - q.reserved[x] /\ P = p.free[x] - p.reserved[x]
          BY <4>1 DEF Usable, P
        <5>2. (p.free[x] - k) - p.reserved[x] = (p.free[x] - p.reserved[x]) - k
          BY <2>2, <3>1
        <5> QED BY <3>1, <4>1, <5>1, <5>2
      <4>2. CASE x # r
        BY <3>1, <4>2 DEF Usable
      <4> QED BY <4>1, <4>2
    <3> QED BY <3>2
  <2>8. m \in Nat /\ Len(t) = m + 1 /\ (\A i \in 1..m : t[i] = p.ops[i]) /\ t[m + 1] = g
    <3> DEFINE X == Ops \union {g}
    <3>1. p.ops \in Seq(X) /\ g \in X
      BY <1>1
    <3> HIDE DEF X
    <3> QED BY <2>6, <3>1
  <2> HIDE DEF t, m
  <2>9. OpsAreAgreed(s, n, t)
    <3>1. ASSUME NEW i \in 1..m
          PROVE  /\ p.ops[i].op # "void"
                 /\ p.ops[i].op = "revoke" => RevokeIsLawful(p.ops, i)
                 /\ \A j \in (n + 1)..Len(s) : p.ops[i].claim # s[j].id
                 /\ p.ops[i].claim # b.id /\ t[i] = p.ops[i]
      BY <1>1, <2>8 DEF OpsAreAgreed, m
    <3>2. ASSUME NEW i \in 1..m, p.ops[i].op = "revoke" PROVE RevokeIsLawful(t, i)
      <4>1. i \in Nat /\ i >= 1 /\ \A j \in 1..i : j \in 1..m
        BY <2>8
      <4>2. RevokeIsLawful(p.ops, i) /\ \A j \in 1..i : t[j] = p.ops[j]
        BY <2>8, <3>1, <3>2, <4>1
      <4> QED BY <4>1, <4>2, LawfulStays
    <3>3. \A i \in 1..Len(t) : i \in 1..m \/ i = m + 1
      BY <2>8
    <3>4. ASSUME NEW i \in 1..Len(t)
          PROVE  /\ t[i].op # "void"
                 /\ t[i].op = "revoke" => RevokeIsLawful(t, i)
                 /\ \A j \in (n + 1)..Len(s) : t[i].claim # s[j].id
      <4>1. CASE i \in 1..m
        BY <3>1, <3>2, <4>1
      <4>2. CASE i = m + 1
        <5>1. t[i].op = "grant" /\ t[i].claim = b.id
          BY <2>5, <2>8, <4>2
        <5> QED BY <1>10, <5>1
      <4> QED BY <3>3, <4>1, <4>2
    <3>5. GrantsAreDistinct(t)
      <4>1. ASSUME NEW i \in 1..Len(t), NEW j \in 1..Len(t),
                   t[i].op = "grant", t[j].op = "grant", t[i].claim = t[j].claim
            PROVE  i = j
        <5>1. CASE i \in 1..m /\ j \in 1..m
          <6>1. t[i] = p.ops[i] /\ t[j] = p.ops[j] /\ GrantsAreDistinct(p.ops)
            BY <1>1, <2>8, <5>1 DEF OpsAreAgreed
          <6> QED BY <4>1, <5>1, <6>1 DEF GrantsAreDistinct, m
        <5>2. CASE i = m + 1 /\ j \in 1..m
          BY <2>5, <2>8, <3>1, <4>1, <5>2
        <5>3. CASE i \in 1..m /\ j = m + 1
          BY <2>5, <2>8, <3>1, <4>1, <5>3
        <5> QED BY <3>3, <5>1, <5>2, <5>3
      <4> QED BY <4>1 DEF GrantsAreDistinct
    <3> QED BY <3>4, <3>5 DEF OpsAreAgreed
  <2>10. Len(t) + 1 = m + 2
    BY <2>8
  <2>11. \A x \in registered :
           /\ Due(t, m + 2, x) \subseteq d(x) \union ({b.id} \X T)
           /\ x # r => Due(t, m + 2, x) \subseteq d(x)
    <3>1. \A x \in registered : d(x) = Due(p.ops, m + 1, x)
      BY <1>1 DEF m
    <3>2. t[m + 1].claim = b.id /\ t[m + 1].bens = T
      BY <2>5, <2>8
    <3> QED BY <1>9, <2>8, <3>1, <3>2, DuesOfOneMore
  <2>12. ASSUME NEW x \in registered
         PROVE  \/ Usable(q, x) <= 0
                \/ Usable(q, x) + Cardinality(Due(t, m + 2, x)) <= Free(x)
    <3> DEFINE D == d(x)
               E == Due(t, m + 2, x)
               R == {b.id} \X T
    <3>1. /\ IsFiniteSet(E) /\ Cardinality(E) \in Nat /\ IsFiniteSet(D) /\ Cardinality(D) \in Nat
      BY DuesAreFinite DEF d
    <3>2. E \subseteq D \union R /\ (x # r => E \subseteq D)
      BY <2>11
    <3>3. IsFiniteSet(R) /\ Cardinality(R) \in Nat /\ Cardinality(R) <= Cardinality(T)
      <4> DEFINE f == [z \in R |-> z[2]]
      <4>1. f \in Injection(R, T)
        BY DEF Injection, IsInjective
      <4> HIDE DEF f, R
      <4> QED BY <2>4, <4>1, FS_Injection, FS_CardinalityType
    <3> HIDE DEF D, E, R
    <3>4. Cardinality(E) <= Cardinality(D) + Cardinality(T)
      <4>1. /\ IsFiniteSet(D \union R)
            /\ Cardinality(D \union R) = Cardinality(D) + Cardinality(R) - Cardinality(D \cap R)
        BY <3>1, <3>3, FS_Union
      <4>2. IsFiniteSet(D \cap R) /\ Cardinality(D \cap R) \in Nat
        BY <3>1, FS_Intersection, FS_CardinalityType
      <4>3. Cardinality(E) <= Cardinality(D \union R)
        BY <3>2, <4>1, FS_Subset
      <4> QED BY <2>4, <3>1, <3>3, <4>1, <4>2, <4>3
    <3>5. CASE x = r
      <4> DEFINE U == Usable(last, r)
                 F == Free(r)
      <4>1. /\ U \in Int /\ F \in Int /\ (U <= 0 \/ U + Cardinality(D) <= F) /\ (P <= U \/ P <= L)
        BY <1>1, <1>3, <1>5, <1>6, <1>7, <3>5 DEF D
      <4>2. Usable(q, x) = P - k /\ Free(x) = F
        BY <2>7, <3>5
      <4>3. k = IF L < P THEN L ELSE P
        BY DEF k
      <4> HIDE DEF U, F
      <4>4. P - k <= 0 \/ (P - k) + Cardinality(E) <= F
        BY <1>2, <2>1, <2>2, <2>4, <3>1, <3>4, <4>1, <4>3, ServedLeavesRoom
      <4> QED BY <4>2, <4>4 DEF E
    <3>6. CASE x # r
      <4>1. Usable(q, x) = Usable(p, x)
        BY <2>7, <3>6
      <4>2. Cardinality(E) <= Cardinality(D)
        BY <3>1, <3>2, <3>6, FS_Subset
      <4>3. Usable(p, x) <= 0 \/ Usable(p, x) + Cardinality(D) <= Free(x)
        BY <1>11, <3>6 DEF D
      <4>4. Usable(p, x) \in Int /\ Free(x) \in Int
        BY <1>5, <1>6
      <4>5. Usable(q, x) <= 0 \/ Usable(q, x) + Cardinality(E) <= Free(x)
        BY <3>1, <4>1, <4>2, <4>3, <4>4
      <4> QED BY <4>5 DEF E
    <3> QED BY <3>5, <3>6
  <2>13. LeavesWhatIsFree(q)
    BY <2>10, <2>12 DEF LeavesWhatIsFree, t
  <2> QED BY <2>9, <2>13 DEF PlanIsAgreed, t
<1>14. PlanIsAgreed(s, n, Decided(v, last, b))
  BY <1>4, <1>12, <1>13
<1> QED BY <1>14 DEF s, b

LEMMA SeatRulingsAreAgreed ==
  ASSUME StormInv, Ready, condition # "single", NEW v, v = View, NEW ids
  PROVE  BumpsAreAgreed(RuleSeats(ids, v).ops)
<1> DEFINE s == Disputed(v, ids)
           len == Len(s)
           X == {z \in (0..len) \X Plans : PlanIsAgreed(s, z[1], z[2])}
<1>1. ViewIsSound(v) /\ v.free = [r \in registered |-> Free(r)]
  <2>1. ViewIsSound(v)
    BY ViewsAreSound
  <2> QED BY <2>1 DEF View
<1>2. PICK f : RulesOnSeats(v, ids, f)
  BY <1>1, SeatRulingUnfolds
<1>3. len \in Nat
  BY <1>1, DisputedAreBlocked
<1>4. /\ f \in [0..len -> Plans] /\ f[0] = NoPlan(v)
      /\ \A n \in 1..len : f[n] = Decided(v, f[n - 1], s[n])
      /\ RuleSeats(ids, v).ops = f[len].ops
  BY <1>2 DEF RulesOnSeats
<1> DEFINE g == [k \in 0..len |-> <<k, f[k]>>]
<1>5. PlanIsAgreed(s, 0, NoPlan(v))
  <2> DEFINE plan == NoPlan(v)
  <2>1. plan.ops = <<>> /\ Len(plan.ops) = 0
    BY DEF NoPlan
  <2>2. OpsAreAgreed(s, 0, plan.ops)
    BY <2>1 DEF OpsAreAgreed, GrantsAreDistinct
  <2>3. ASSUME NEW r \in registered
        PROVE  Usable(plan, r) + Cardinality(Due(plan.ops, Len(plan.ops) + 1, r)) <= Free(r)
    <3>1. Free(r) \in Int
      BY FreeIsANumber
    <3>2. plan.free[r] = Free(r) /\ plan.reserved[r] = 0
      BY <1>1 DEF NoPlan
    <3>3. Usable(plan, r) = Free(r)
      BY <3>1, <3>2 DEF Usable
    <3>4. Due(plan.ops, Len(plan.ops) + 1, r) = {}
      BY <2>1 DEF Due
    <3>5. Cardinality(Due(plan.ops, Len(plan.ops) + 1, r)) = 0
      BY <3>4, FS_EmptySet
    <3> QED BY <3>1, <3>3, <3>5
  <2> QED BY <2>2, <2>3 DEF PlanIsAgreed, LeavesWhatIsFree
<1>6. ASSUME NEW k \in 1..len, g[k - 1] \in X PROVE g[k] \in X
  <2>1. k - 1 \in 0..len /\ k \in 0..len /\ k \in 1..Len(Disputed(v, ids))
    BY <1>3
  <2>2. g[k - 1] = <<k - 1, f[k - 1]>> /\ g[k] = <<k, f[k]>>
    BY <2>1
  <2>3. PlanIsAgreed(s, k - 1, f[k - 1])
    BY <1>6, <2>2
  <2>4. f[k - 1] \in Plans /\ f[k] \in Plans /\ f[k] = Decided(v, f[k - 1], s[k])
    BY <1>4, <2>1
  <2>5. PlanIsAgreed(s, k, f[k])
    BY <2>1, <2>3, <2>4, DecidedIsAgreed
  <2> QED BY <2>1, <2>2, <2>4, <2>5
<1>7. g[0] \in X
  BY <1>3, <1>4, <1>5
<1> HIDE DEF X, g
<1>8. g[len] \in X
  <2>1. \A k \in 0..len : g[k] \in X
    BY <1>3, <1>6, <1>7, StaysIn
  <2> QED BY <1>3, <2>1
<1>9. PlanIsAgreed(s, len, f[len])
  <2>1. len \in 0..len
    BY <1>3
  <2>2. g[len] = <<len, f[len]>>
    BY <2>1 DEF g
  <2> QED BY <1>8, <2>2 DEF X
<1> QED BY <1>4, <1>9 DEF PlanIsAgreed, OpsAreAgreed, BumpsAreAgreed

\* Crews are void for what they may not fly, seats are not.
LEMMA VoidsAreOfCrews ==
  ASSUME NEW v, ViewIsSound(v), v.granted = Records("granted"), NEW S, S \subseteq CrewRecords(v)
  PROVE  LET t == Voids(S)
         IN /\ t \in Seq(Ops)
            /\ \A i \in 1..Len(t) : /\ t[i].op = "void"
                                    /\ claims[t[i].claim].status = "granted"
                                    /\ claims[t[i].claim].resource.kind # "seat"
<1> DEFINE s == ById(S)
           t == Voids(S)
<1>1. S \subseteq v.granted /\ \A c \in S : c.resource.kind = "crew"
  BY DEF CrewRecords
<1>2. IsFiniteSet(S) /\ OneRecordPerId(S)
  BY <1>1, SomeRecords
<1>3. s \in Seq(S)
  BY <1>2, ByIdIsInOrder
<1>4. t = [i \in DOMAIN s |-> Op("void", s[i].id, {})]
  BY DEF Voids
<1>5. t \in Seq(Ops)
  BY <1>1, VoidsAreLegal
<1> HIDE DEF s, t
<1>6. DOMAIN s = 1..Len(s) /\ Len(s) \in Nat /\ DOMAIN t = 1..Len(t) /\ DOMAIN t = DOMAIN s
  BY <1>3, <1>4, <1>5
<1>7. ASSUME NEW i \in 1..Len(t)
      PROVE  /\ t[i].op = "void"
             /\ claims[t[i].claim].status = "granted"
             /\ claims[t[i].claim].resource.kind # "seat"
  <2>1. i \in DOMAIN s /\ i \in 1..Len(s)
    BY <1>6
  <2>2. s[i] \in S
    BY <1>3, <2>1, ItemIsThere
  <2>3. t[i] = Op("void", s[i].id, {})
    BY <1>4, <2>1
  <2>4. claims[s[i].id].status = "granted" /\ claims[s[i].id].resource = s[i].resource
    BY <1>1, <2>2, RecordsAreOfClaims
  <2>5. claims[s[i].id].resource.kind = "crew"
    BY <1>1, <2>2, <2>4
  <2> QED BY <2>3, <2>4, <2>5 DEF Op
<1> QED BY <1>5, <1>7 DEF t

LEMMA CrewRulingsAreAgreed ==
  ASSUME NEW v, ViewIsSound(v), v.granted = Records("granted"), NEW c
  PROVE  BumpsAreAgreed(RuleCrew(c, v).ops)
<1> DEFINE S == Illegal(v, Named(CrewRecords(v), c))
           t == Voids(S)
<1>1. S \subseteq CrewRecords(v)
  BY DEF Illegal, Named
<1>2. RuleCrew(c, v).ops = t
  BY DEF RuleCrew
<1> HIDE DEF S
<1>3. \A i \in 1..Len(t) : t[i].op = "void" /\ claims[t[i].claim].resource.kind # "seat"
  BY <1>1, VoidsAreOfCrews
<1> HIDE DEF t
<1>4. BumpsAreAgreed(t)
  BY <1>3 DEF BumpsAreAgreed, GrantsAreDistinct, VoidTakesNoSeat
<1> QED BY <1>2, <1>4

LEMMA VoidStays ==
  ASSUME NEW s, NEW t, NEW i \in Nat, i >= 1, \A j \in 1..i : t[j] = s[j], VoidTakesNoSeat(s, i)
  PROVE  VoidTakesNoSeat(t, i)
<1>1. t[i] = s[i] /\ \A j \in 1..(i - 1) : t[j] = s[j]
  OBVIOUS
<1> QED BY <1>1 DEF VoidTakesNoSeat

\* The operations of a ruling at the cap on the first n of s.
FiatIsAgreed(s, n, t) ==
  /\ \A i \in 1..Len(t) : /\ t[i].op # "revoke"
                          /\ t[i].op = "void" => VoidTakesNoSeat(t, i)
                          /\ \A k \in (n + 1)..Len(s) : t[i].claim # s[k].id
  /\ GrantsAreDistinct(t)

\* Each of the blocked claims gets one operation, and it is the first on it.
LEMMA OneMoreIsAgreed ==
  ASSUME NEW s, Len(s) \in Nat, NEW n \in 1..Len(s), NEW t \in Seq(Ops), NEW o \in Ops,
         FiatIsAgreed(s, n - 1, t),
         \A j, k \in 1..Len(s) : s[j].id = s[k].id => j = k,
         o.claim = s[n].id, o.op # "revoke", o.claim \in Blocked
  PROVE  FiatIsAgreed(s, n, Append(t, o))
<1> DEFINE u == Append(t, o)
           m == Len(t)
<1>1. m \in Nat /\ Len(u) = m + 1 /\ (\A i \in 1..m : u[i] = t[i]) /\ u[m + 1] = o
  OBVIOUS
<1>2. n \in (n - 1 + 1)..Len(s) /\ \A k \in (n + 1)..Len(s) : k \in (n - 1 + 1)..Len(s) /\ k \in 1..Len(s) /\ k # n
  OBVIOUS
<1> HIDE DEF u, m
<1>3. ASSUME NEW i \in 1..m
      PROVE  /\ u[i] = t[i] /\ t[i].op # "revoke"
             /\ t[i].op = "void" => VoidTakesNoSeat(t, i)
             /\ \A k \in (n + 1)..Len(s) : t[i].claim # s[k].id
             /\ t[i].claim # o.claim
  BY <1>1, <1>2 DEF FiatIsAgreed, m
<1>4. \A i \in 1..Len(u) : i \in 1..m \/ i = m + 1
  BY <1>1
<1>5. ASSUME NEW i \in 1..Len(u)
      PROVE  /\ u[i].op # "revoke"
             /\ u[i].op = "void" => VoidTakesNoSeat(u, i)
             /\ \A k \in (n + 1)..Len(s) : u[i].claim # s[k].id
  <2>1. CASE i \in 1..m
    <3>1. ASSUME t[i].op = "void" PROVE VoidTakesNoSeat(u, i)
      <4>1. i \in Nat /\ i >= 1 /\ \A j \in 1..i : j \in 1..m
        BY <1>1, <2>1
      <4>2. VoidTakesNoSeat(t, i) /\ \A j \in 1..i : u[j] = t[j]
        BY <1>1, <1>3, <2>1, <3>1, <4>1
      <4> QED BY <4>1, <4>2, VoidStays
    <3> QED BY <1>3, <2>1, <3>1
  <2>2. CASE i = m + 1
    <3>1. u[i] = o
      BY <1>1, <2>2
    <3>2. \A j \in 1..(i - 1) : u[j].claim # o.claim
      <4>1. \A j \in 1..(i - 1) : j \in 1..m
        BY <1>1, <2>2
      <4> QED BY <1>3, <4>1
    <3>3. VoidTakesNoSeat(u, i)
      BY <3>1, <3>2 DEF VoidTakesNoSeat
    <3>4. \A k \in (n + 1)..Len(s) : o.claim # s[k].id
      BY <1>2
    <3> QED BY <3>1, <3>3, <3>4
  <2> QED BY <1>4, <2>1, <2>2
<1>6. GrantsAreDistinct(u)
  <2>1. ASSUME NEW i \in 1..Len(u), NEW j \in 1..Len(u),
               u[i].op = "grant", u[j].op = "grant", u[i].claim = u[j].claim
        PROVE  i = j
    <3>1. CASE i \in 1..m /\ j \in 1..m
      <4>1. u[i] = t[i] /\ u[j] = t[j] /\ GrantsAreDistinct(t)
        BY <1>1, <3>1 DEF FiatIsAgreed
      <4> QED BY <2>1, <3>1, <4>1 DEF GrantsAreDistinct, m
    <3>2. CASE i = m + 1 /\ j \in 1..m
      BY <1>1, <1>3, <2>1, <3>2
    <3>3. CASE i \in 1..m /\ j = m + 1
      BY <1>1, <1>3, <2>1, <3>3
    <3> QED BY <1>4, <3>1, <3>2, <3>3
  <2> QED BY <2>1 DEF GrantsAreDistinct
<1> QED BY <1>5, <1>6 DEF FiatIsAgreed, u

LEMMA FiatRulingsAreAgreed ==
  ASSUME StormInv, Ready, condition # "single", NEW v, v = View
  PROVE  BumpsAreAgreed(FiatRuling(v).ops)
<1> DEFINE s == ByProtection(v.blocked)
           len == Len(s)
           X == {z \in (0..len) \X FiatPlans : FiatIsAgreed(s, z[1], z[2].ops)}
<1>1. ViewIsSound(v) /\ v.granted = Records("granted") /\ v.blocked = Records("blocked")
  <2>1. ViewIsSound(v)
    BY ViewsAreSound
  <2> QED BY <2>1 DEF View
<1>2. PICK f : RulesByFiat(v, f)
  BY <1>1, FiatUnfolds
<1>3. /\ len \in Nat
      /\ \A n \in 1..len : s[n] \in v.blocked
      /\ \A m, n \in 1..len : s[m].id = s[n].id => m = n
  BY <1>1, BlockedAreListed
<1>4. /\ f \in [0..len -> FiatPlans] /\ f[0] = CrewFiat(v)
      /\ \A n \in 1..len : f[n] = SettledByFiat(f[n - 1], s[n])
      /\ FiatRuling(v).ops = f[len].ops
  BY <1>2 DEF RulesByFiat
<1>5. \A n \in 1..len : s[n].id \in Blocked /\ claims[s[n].id].status = "blocked"
  BY <1>1, <1>3, RecordsAreOfClaims DEF Blocked, ClaimId
<1> DEFINE g == [k \in 0..len |-> <<k, f[k]>>]
<1> HIDE DEF s
<1>6. FiatIsAgreed(s, 0, CrewFiat(v).ops)
  <2> DEFINE S == Illegal(v, Challenged(v))
             t == Voids(S)
  <2>1. CrewFiat(v).ops = t
    BY DEF CrewFiat
  <2>2. S \subseteq CrewRecords(v)
    BY DEF Illegal, Challenged
  <2> HIDE DEF S
  <2>3. \A i \in 1..Len(t) : /\ t[i].op = "void"
                             /\ claims[t[i].claim].status = "granted"
                             /\ claims[t[i].claim].resource.kind # "seat"
    BY <1>1, <2>2, VoidsAreOfCrews
  <2> HIDE DEF t
  <2>4. \A k \in (0 + 1)..len : k \in 1..len
    OBVIOUS
  <2>5. "granted" # "blocked" /\ "void" # "revoke" /\ "void" # "grant"
    OBVIOUS
  <2>6. FiatIsAgreed(s, 0, t)
    BY <1>5, <2>3, <2>4, <2>5 DEF FiatIsAgreed, GrantsAreDistinct, VoidTakesNoSeat
  <2> QED BY <2>1, <2>6
<1>7. ASSUME NEW k \in 1..len, g[k - 1] \in X PROVE g[k] \in X
  <2> DEFINE last == f[k - 1]
             b == s[k]
             room == last.free[b.resource]
             n == IF Len(b.wish) < room THEN Len(b.wish) ELSE room
             void == Op("void", b.id, {})
             grant == Op("grant", b.id, ToSet(FirstN(b.wish, n)))
  <2>1. k - 1 \in 0..len /\ k \in 0..len /\ k \in 1..Len(s)
    BY <1>3
  <2>2. g[k - 1] = <<k - 1, f[k - 1]>> /\ g[k] = <<k, f[k]>>
    BY <2>1
  <2>3. FiatIsAgreed(s, k - 1, last.ops)
    BY <1>7, <2>2
  <2>4. last \in FiatPlans /\ f[k] \in FiatPlans /\ f[k] = SettledByFiat(last, b)
    BY <1>4, <2>1
  <2>5. b \in v.blocked /\ b.id \in Blocked
    BY <1>3, <1>5, <2>1
  <2>6. b \in Shown /\ b.resource \in registered /\ b.id \in ClaimId
    BY <1>1, <2>5 DEF ViewIsSound, Shown
  <2>7. room \in Int /\ last.ops \in Seq(Ops)
    BY <2>4, <2>6 DEF FiatPlans
  <2>8. void \in Ops /\ grant \in Ops
    BY <1>1, <2>5, <2>6, <2>7, OpIsLegal, ServeIsLegal
  <2>9. void.op = "void" /\ void.claim = b.id /\ grant.op = "grant" /\ grant.claim = b.id
    BY DEF Op
  <2>10. f[k].ops = Append(last.ops, void) \/ f[k].ops = Append(last.ops, grant)
    <3>1. CASE room <= 0
      <4>1. f[k] = [last EXCEPT !.ops = Append(@, void)]
        BY <2>4, <3>1 DEF SettledByFiat
      <4> QED BY <2>4, <4>1 DEF FiatPlans
    <3>2. CASE ~(room <= 0)
      <4>1. f[k] = [last EXCEPT !.free[b.resource] = @ - n, !.ops = Append(@, grant),
                                !.winners = @ \union {b.agent}]
        BY <2>4, <3>2 DEF SettledByFiat, Serve
      <4> HIDE DEF n, grant
      <4> QED BY <2>4, <4>1 DEF FiatPlans
    <3> QED BY <3>1, <3>2
  <2> HIDE DEF void, grant
  <2>11. FiatIsAgreed(s, k, Append(last.ops, void)) /\ FiatIsAgreed(s, k, Append(last.ops, grant))
    <3>1. void.op # "revoke" /\ grant.op # "revoke"
      BY <2>9
    <3>2. void.claim \in Blocked /\ grant.claim \in Blocked
      BY <2>5, <2>9
    <3> QED BY <1>3, <2>1, <2>3, <2>7, <2>8, <2>9, <3>1, <3>2, OneMoreIsAgreed
  <2>12. FiatIsAgreed(s, k, f[k].ops)
    BY <2>10, <2>11
  <2> QED BY <2>1, <2>2, <2>4, <2>12
<1>8. g[0] \in X
  BY <1>3, <1>4, <1>6
<1> HIDE DEF X, g
<1>9. g[len] \in X
  <2>1. \A k \in 0..len : g[k] \in X
    BY <1>3, <1>7, <1>8, StaysIn
  <2> QED BY <1>3, <2>1
<1>10. FiatIsAgreed(s, len, f[len].ops)
  <2>1. len \in 0..len
    BY <1>3
  <2>2. g[len] = <<len, f[len]>>
    BY <2>1 DEF g
  <2> QED BY <1>9, <2>2 DEF X
<1> QED BY <1>4, <1>10 DEF FiatIsAgreed, BumpsAreAgreed

\* What the duty manager decrees is agreed as things stand.
LEMMA DecreesAreAgreed ==
  ASSUME StormInv, Mediate \/ MediateAtTheCap
  PROVE  BumpInv'
<1>1. PICK r : /\ Decree(r)
               /\ \/ r = FiatRuling(View) /\ Fiat
                  \/ \E d \in pending : r = Ruling(d, View) /\ Rule(d)
  BY DEF Mediate, MediateAtTheCap
<1>2. /\ phase \in {"rule", "finalize"} /\ script' = r.ops
      /\ UNCHANGED <<scenario, alloc, claims>>
  BY <1>1 DEF Decree, Rule, Fiat, ledgerVars
<1>3. condition # "single" /\ Ready /\ ViewIsSound(View)
  BY <1>2, Negotiated
<1>4. PICK v : v = View
  OBVIOUS
<1>5. ViewIsSound(v) /\ v.granted = Records("granted")
  BY <1>3, <1>4 DEF View
<1>6. BumpsAreAgreed(r.ops)
  <2>1. BumpsAreAgreed(FiatRuling(v).ops)
    BY <1>3, <1>4, FiatRulingsAreAgreed
  <2>2. ASSUME NEW d PROVE BumpsAreAgreed(Ruling(d, v).ops)
    BY <1>3, <1>4, <1>5, CrewRulingsAreAgreed, SeatRulingsAreAgreed DEF Ruling
  <2> QED BY <1>1, <1>4, <2>1, <2>2
<1> DEFINE t == r.ops
<1>7. Blocked' = Blocked
  BY <1>2 DEF Blocked
<1>8. /\ \A s, i, x : Due(s, i, x)' = Due(s, i, x)
      /\ \A x : Free(x)' = Free(x)
  BY <1>2 DEF Due, Free, Ledger!Used
<1>9. \A p, x, s, i : HasAnother(p, x, s, i)' = HasAnother(p, x, s, i)
  BY <1>2, <1>8 DEF HasAnother
<1>10. BumpsAreAgreed(script)'
  <2>1. \A i : RevokeIsLawful(script, i)' <=> RevokeIsLawful(t, i)
    BY <1>2, <1>7, <1>9 DEF RevokeIsLawful
  <2>2. \A i : VoidTakesNoSeat(script, i)' <=> VoidTakesNoSeat(t, i)
    BY <1>2, <1>7 DEF VoidTakesNoSeat
  <2>3. GrantsAreDistinct(script)' <=> GrantsAreDistinct(t)
    BY <1>2 DEF GrantsAreDistinct
  <2> QED BY <1>2, <1>6, <2>1, <2>2, <2>3 DEF BumpsAreAgreed
<1> QED BY <1>10 DEF BumpInv

LEMMA BumpInvIsInductive ==
  /\ StormInit => BumpInv
  /\ StormInv /\ BumpInv /\ [StormNext]_runVars => BumpInv'
<1>1. StormInit => BumpInv
  BY DEF StormInit, Init, BumpInv
<1>2. ASSUME BumpInv, UNCHANGED runVars PROVE BumpInv'
  <2>1. UNCHANGED <<phase, script, scenario, alloc, claims>>
    BY <1>2 DEF runVars, vars, engineVars, ledgerVars, stormVars
  <2>2. Blocked' = Blocked
    BY <2>1 DEF Blocked
  <2>3. \A s, i, x : Due(s, i, x)' = Due(s, i, x)
    BY <2>1 DEF Due
  <2>4. \A x : Free(x)' = Free(x)
    BY <2>1 DEF Free, Ledger!Used
  <2>5. \A p, x, s, i : HasAnother(p, x, s, i)' = HasAnother(p, x, s, i)
    BY <2>1, <2>3, <2>4 DEF HasAnother
  <2>6. \A i : RevokeIsLawful(script, i)' <=> RevokeIsLawful(script, i)
    BY <2>1, <2>2, <2>5 DEF RevokeIsLawful
  <2>7. \A i : VoidTakesNoSeat(script, i)' <=> VoidTakesNoSeat(script, i)
    BY <2>1, <2>2 DEF VoidTakesNoSeat
  <2>8. GrantsAreDistinct(script)' <=> GrantsAreDistinct(script)
    BY <2>1 DEF GrantsAreDistinct
  <2> QED BY <1>2, <2>1, <2>6, <2>7, <2>8 DEF BumpInv, BumpsAreAgreed
<1>3. ASSUME StormInv, BumpInv, StormNext PROVE BumpInv'
  <2>1. CASE Mediate \/ MediateAtTheCap
    BY <1>3, <2>1, DecreesAreAgreed
  <2>2. CASE ApplyNext
    <3>1. phase = "ops"
      BY <2>2 DEF ApplyNext
    <3>2. BumpsAreAgreed(script)'
      BY <1>3, <2>2, <3>1, BumpsStayAgreed DEF BumpInv
    <3> QED BY <3>2 DEF BumpInv
  <2>3. CASE Engine
    BY <2>3, EnginePhases DEF BumpInv
  <2>4. ASSUME Register \/ StartSociety \/ Consult \/ File \/ TakePosition \/ TurnOver
        PROVE  phase' # "ops"
    <3>1. phase \in {"setup", "propose", "positions"}
      BY <2>4 DEF Register, StartSociety, Consult, File, Propose, TakePosition, TurnOver, EndTurn
    <3>2. ASSUME TurnOver PROVE phase' # "ops"
      BY <3>1, <3>2 DEF TurnOver, EndTurn, Goto
    <3>3. ASSUME TakePosition PROVE phase' # "ops"
      BY <3>3 DEF TakePosition, FileBlock, FileYield, FileNote, Goto, engineVars
    <3>4. ASSUME File PROVE phase' # "ops"
      BY <3>4 DEF File, Propose, engineVars
    <3>5. ASSUME Register \/ StartSociety \/ Consult PROVE phase' # "ops"
      BY <3>5 DEF Register, StartSociety, Consult, Goto, engineVars, vars
    <3> QED BY <2>4, <3>2, <3>3, <3>4, <3>5
  <2>5. ASSUME ApplyDone \/ StartPlanner \/ PlanFirst \/ PlanSeats \/ SeatNext \/ EndPlan
        PROVE  phase' # "ops"
    BY <2>5 DEF ApplyDone, EndOps, StartPlanner, PlanFirst, PlanSeats, SeatNext, EndPlan,
       Goto, engineVars
  <2> QED BY <1>3, <2>1, <2>2, <2>3, <2>4, <2>5 DEF StormNext, BumpInv
<1> QED BY <1>1, <1>2, <1>3

\* What an operation takes away is of the claim it names, and of nobody else.
LEMMA TakenUnits ==
  ASSUME StormInv, ApplyNext, NEW u \in alloc, u \notin alloc'
  PROVE  LET o == Head(script)
         IN o.op \in {"revoke", "void"} /\ u.claim = o.claim /\ (o.op = "revoke" => u.ben \in o.bens)
<1> DEFINE o == Head(script)
           c == o.claim
           l == Ledger!Listing(o.bens)
<1>1. phase = "ops" /\ RulingOp(o.op, c, l) /\ o \in Ops
  BY OpsKeepOthers DEF ApplyNext
<1>2. c \in ClaimId /\ o.bens \in SUBSET Beneficiary /\ o.op \in {"revoke", "grant", "void"}
  BY <1>1 DEF Ops
<1>3. l.bens = o.bens
  BY <1>2, ListingsAreLists
<1> HIDE DEF o, l
<1>4. ApplyOp(o.op, c, l)
  BY <1>1 DEF RulingOp
<1>5. CASE o.op = "grant"
  <2>1. Ledger!GrantOp(c, l)
    BY <1>4, <1>5 DEF ApplyOp
  <2>2. alloc \subseteq alloc'
    BY <2>1 DEF Ledger!GrantOp, Ledger!NoEffect, Ledger!tables, Ledger!Allocate
  <2> QED BY <2>2
<1>6. CASE o.op = "revoke"
  <2>1. Ledger!RevokeOp(c, l)
    BY <1>4, <1>6 DEF ApplyOp
  <2>2. u.claim = c /\ u.ben \in l.bens
    BY <2>1 DEF Ledger!RevokeOp, Ledger!NoEffect, Ledger!tables, Ledger!GiveBack, Ledger!Deallocate
  <2> QED BY <1>3, <1>6, <2>2 DEF o
<1>7. CASE o.op = "void"
  <2>1. Ledger!VoidClaim(c)
    BY <1>4, <1>7 DEF ApplyOp
  <2>2. u.claim = c
    BY <2>1 DEF Ledger!VoidClaim, Ledger!NoEffect, Ledger!tables, Ledger!Deallocate
  <2> QED BY <1>7, <2>2 DEF o
<1> QED BY <1>2, <1>5, <1>6, <1>7

BumpIsLawful(p) ==
  \E f \in Flight :
    /\ HasSeat(p, f)
    /\ \E c \in Blocked : /\ claims[c].resource = Seat(scenario, f)
                          /\ \E q \in claims[c].bens : PaxPriority(q) < PaxPriority(p)
    /\ \E g \in Legal(scenario, p) \ {f} : IsFree(g)'

LEMMA TakenSeatsAreBumps ==
  ASSUME StormInv, BumpInv, ApplyNext, NEW p \in SeatedPax, p \notin SeatedPax'
  PROVE  BumpIsLawful(p)
<1> DEFINE o == Head(script)
           c == o.claim
<1>1. phase = "ops"
  BY DEF ApplyNext
<1>2. BumpsAreAgreed(script)
  BY <1>1 DEF BumpInv
<1>3. o \in Ops /\ script \in Seq(Ops) /\ script # <<>> /\ UNCHANGED scenario
  BY OpsKeepOthers
<1>4. 1 \in 1..Len(script) /\ script[1] = o
  BY <1>3, FirstAndRest
<1>5. PICK f \in Flight, u \in alloc : u.ben = p /\ u.resource = Seat(scenario, f)
  BY DEF SeatedPax, HasSeat
<1>6. p \in Passenger
  BY DEF SeatedPax
<1>7. u \notin alloc'
  BY <1>3, <1>5, <1>6 DEF SeatedPax, HasSeat
<1>8. o.op \in {"revoke", "void"} /\ u.claim = c /\ (o.op = "revoke" => p \in o.bens)
  BY <1>5, <1>7, TakenUnits
<1>9. claims[c].status = "granted" /\ claims[c].resource = Seat(scenario, f)
  <2>1. Ledger!UnitsBelongToGrantedClaims
    BY LedgerFacts DEF StormInv
  <2> QED BY <1>5, <1>8, <2>1 DEF Ledger!UnitsBelongToGrantedClaims, Ledger!Granted
<1>10. scenario \in Scenarios
  BY DEF StormInv, StageIsSet
<1>11. o.op = "revoke"
  <2>1. ASSUME o.op = "void" PROVE FALSE
    <3>1. VoidTakesNoSeat(script, 1)
      BY <1>2, <1>4, <2>1 DEF BumpsAreAgreed
    <3>2. c \notin Blocked
      BY <1>9 DEF Blocked
    <3>3. claims[c].resource.kind = "seat"
      BY <1>5, <1>9, <1>10, StormIsTyped
    <3> QED BY <1>4, <3>1, <3>2, <3>3 DEF VoidTakesNoSeat
  <2> QED BY <1>8, <2>1
<1>12. RevokeIsLawful(script, 1)
  BY <1>2, <1>4, <1>11 DEF BumpsAreAgreed
<1>13. PICK b \in Blocked :
         /\ claims[b].resource = Seat(scenario, f)
         /\ \E q \in claims[b].bens : PaxPriority(q) < PaxPriority(p)
         /\ HasAnother(p, Seat(scenario, f), script, 1)
  BY <1>4, <1>8, <1>9, <1>11, <1>12 DEF RevokeIsLawful
<1>14. PICK g \in Legal(scenario, p) :
         /\ Seat(scenario, g) # Seat(scenario, f)
         /\ Cardinality(Due(script, 1, Seat(scenario, g))) < Free(Seat(scenario, g))
  BY <1>13 DEF HasAnother
<1> DEFINE r == Seat(scenario, g)
<1>15. r \in Resource
  <2>1. g \in Flight
    BY LegalFlightsAreFlights
  <2> QED BY <1>10, <2>1, StormIsTyped
<1>16. Cardinality(Due(script, 1, r)) = 0
  <2>1. Due(script, 1, r) = {}
    BY DEF Due
  <2> HIDE DEF r
  <2> QED BY <2>1, FS_EmptySet
<1>17. Cardinality(Due(script, 1, r)) < Free(r)
  BY <1>14
<1>18. PICK x \in Resource : x = r
  BY <1>15
<1> HIDE DEF r, o
<1>19. Free(x) \in Int /\ Free(x)' \in Int /\ Free(x) <= Free(x)'
  BY <1>11, OpsTakeWhatTheyName DEF o
<1>20. (Free(x) > 0)'
  BY <1>16, <1>17, <1>18, <1>19
<1>21. IsFree(g)'
  <2>1. x = Seat(scenario', g)
    BY <1>3, <1>18 DEF r
  <2> QED BY <1>20, <2>1 DEF IsFree
<1> QED BY <1>5, <1>13, <1>14, <1>21 DEF BumpIsLawful, HasSeat
-----------------------------------------------------------------------------
(* The crew of the ferry is bid for once, and first *)

\* x, a claim or a bid, is on a crew.
OnACrew(x) == x.resource.kind = "crew"

\* The only bid on a crew is the first of the run, and the legality agent bids
\* for nothing.
CrewBids ==
  /\ phase = "setup" => round = 1 /\ turn = 0 /\ commitSeq = 0
  /\ phase = "propose" /\ round = 1 /\ turn = 0 /\ ~asked => commitSeq = 0
  /\ \A m \in 1..commitSeq :
       /\ commitments[m].digest.agent # "crew_legality"
       /\ OnACrew(commitments[m].digest) => m = 1 /\ commitments[m].digest = Sealed(TheCrewBid)
  /\ phase = "propose" /\ asked /\ script # <<>> => Speaker # "crew_legality"
  /\ phase = "propose" /\ asked =>
       \A i \in 1..Len(script) : OnACrew(script[i]) =>
         i = 1 /\ commitSeq = 0 /\ round = 1 /\ script[i] = TheCrewBid
  /\ \A i \in 1..Len(sealed) : OnACrew(commitments[sealed[i]].digest) => round = 1

\* In the first round the agents speak in the order they are listed in.
LEMMA FirstSpeakers ==
  ASSUME ControlIsTyped, round = 1
  PROVE  /\ Speaker = AgentOrder[1 + turn] /\ turn \in 0..4
         /\ Speaker = "rebooking" <=> turn = 0
         /\ Speaker = "crew_legality" <=> turn = 1
<1>1. turn \in 0..4 /\ AgentList = AgentOrder /\ Len(AgentList) = 5
  <2>1. AgentList = AgentOrder /\ Len(AgentList) = 5
    BY RolesAreAgents, AirlineAssumption
  <2>2. turn \in Nat /\ turn < Len(AgentList)
    BY DEF ControlIsTyped
  <2> QED BY <2>1, <2>2
<1>2. (round - 1 + turn) % 5 = turn
  BY <1>1
<1>3. Speaker = AgentOrder[1 + turn]
  BY <1>1, <1>2 DEF Speaker
<1>4. /\ AgentOrder[1] = "rebooking" /\ AgentOrder[2] = "crew_legality"
      /\ AgentOrder[3] = "gate_ground" /\ AgentOrder[4] = "hotel" /\ AgentOrder[5] = "advocate"
  BY DEF AgentOrder
<1> QED BY <1>1, <1>3, <1>4

\* An answer is on the script when the agent gives it, or has given it.
LEMMA AnswersAreConsulted ==
  ASSUME StormInv, StormNext, ~Consult, asked', phase' = "propose"
  PROVE  File
<1>1. TurnOver => ~asked'
  BY DEF TurnOver
<1>2. CASE ~File
  <2>1. asked' = asked
    BY <1>1, <1>2 DEF StormNext, Register, StartSociety, TakePosition, Done,
       Idle, Mediate, MediateAtTheCap, Decree, ApplyNext, ApplyDone, Engine, StartPlanner,
       PlanFirst, PlanSeats, SeatNext, EndPlan, stormVars
  <2>2. asked /\ phase \in {"propose", "positions", "aborted"}
    BY <2>1 DEF StormInv, StageIsSet
  <2>3. ~Engine
    BY <2>2, EnginePhases
  <2> QED BY <1>1, <1>2, <2>2, <2>3 DEF StormNext, Register, StartSociety,
       TakePosition, FileBlock, FileYield, FileNote, Goto, engineVars,
       Mediate, MediateAtTheCap, Rule, Fiat, Decree, ApplyNext, RulingOp, ApplyDone, EndOps,
       StartPlanner, PlanFirst, PlanSeats, SeatNext, EndPlan
<1> QED BY <1>2

\* What a step that files no bid does to the round and to what is sealed.
MovesOn ==
  /\ sealed' = sealed \/ (sealed # <<>> /\ sealed' = Tail(sealed))
  /\ round' = round \/ (phase = "round_end" /\ round' = round + 1)
  /\ phase' = "setup" => phase = "setup" /\ UNCHANGED <<round, turn>>
  /\ phase' = "propose" /\ ~asked' /\ turn' = 0 =>
       \/ phase = "setup" /\ UNCHANGED <<round, turn>>
       \/ phase = "round_end" /\ round' = round + 1
  /\ phase' = "propose" => \/ phase \in {"setup", "propose"}
                           \/ phase = "round_end" /\ round' = round + 1

\* A step that files no bid moves the round and the phases forward only.
LEMMA StepsMoveOn ==
  ASSUME StormInv, StormNext, ~File, condition # "single"
  PROVE  MovesOn
<1> USE DEF MovesOn, Goto, engineVars, vars, Done, Idle, Decree
<1>0. phase \in Phase /\ phase \notin {"plan", "seats"} /\ (phase = "propose" => turn \in Nat)
  BY NotNegotiated, Negotiated DEF StormInv, StageIsSet, EngineHolds, ControlIsTyped
<1>1. CASE Register \/ StartSociety
  BY <1>1 DEF Register, StartSociety
<1>2. CASE Consult
  BY <1>2 DEF Consult
<1>3. CASE TakePosition
  BY <1>3 DEF TakePosition, FileBlock, FileYield, FileNote
<1>4. CASE TurnOver
  <2>1. turn + 1 # 0 \/ phase = "positions"
    BY <1>0, <1>4 DEF TurnOver, EndTurn
  <2> QED BY <1>4, <2>1 DEF TurnOver, EndTurn
<1>5. CASE Mediate \/ MediateAtTheCap
  BY <1>5 DEF Mediate, MediateAtTheCap, Rule, Fiat
<1>6. CASE ApplyNext \/ ApplyDone
  BY <1>6 DEF ApplyNext, RulingOp, ApplyDone, EndOps
<1>7. CASE Engine
  <2>1. CASE RevealNext
    BY <2>1 DEF RevealNext
  <2>2. CASE EndReveals \/ ScanRound \/ EndRulings
    BY <2>2 DEF EndReveals, ScanRound, EndRulings
  <2>3. CASE EndSettlement \/ SafetyFinalize \/ EndContestSweep \/ EndSweep
    BY <2>3 DEF EndSettlement, SafetyFinalize, EndContestSweep, EndSweep
  <2>4. CASE EndRound
    BY <2>4 DEF EndRound
  <2>5. ASSUME NEW x, SettleContest(x) \/ SweepContest(x) \/ SweepClaim(x)
        PROVE  phase \in {"settle", "sweep", "clear"} /\ UNCHANGED <<phase, round, turn, sealed>>
    BY <2>5 DEF SettleContest, SweepContest, SweepClaim
  <2>6. CASE phase \in {"settle", "sweep", "clear"} /\ UNCHANGED <<phase, round, turn, sealed>>
    BY <2>6
  <2> QED BY <1>7, <2>1, <2>2, <2>3, <2>4, <2>5, <2>6 DEF Engine
<1>8. CASE StartPlanner \/ PlanFirst \/ PlanSeats \/ SeatNext \/ EndPlan
  BY <1>0, <1>8 DEF StartPlanner, PlanFirst, PlanSeats, SeatNext, EndPlan
<1> QED BY <1>1, <1>2, <1>3, <1>4, <1>5, <1>6, <1>7, <1>8 DEF StormNext

\* What is in a sequence stays where it is when one is added.
LEMMA AppendedKeepsItems ==
  ASSUME NEW S, NEW s \in Seq(S), NEW x \in S
  PROVE  \A j \in 1..Len(s) : Append(s, x)[j] = s[j] /\ s[j] \in S
OBVIOUS

\* No step commits a second bid on a crew.
LEMMA CrewBidsStep ==
  ASSUME StormInv, CrewBids, StormNext, condition # "single"
  PROVE  CrewBids'
<1>0. /\ commitSeq \in Nat /\ MaxCommits \in Nat /\ Ledger!TypeOK /\ ~(commitSeq > MaxCommits)
      /\ ControlIsTyped /\ SealsAreKept /\ round \in Nat /\ round >= 1
  <2>1. Ledger!TypeOK /\ MaxCommits \in Nat
    BY LedgerFacts, LedgerAssumption DEF StormInv
  <2>2. ControlIsTyped /\ SealsAreKept
    BY DEF StormInv, StageIsSet, EngineHolds
  <2> QED BY <2>1, <2>2 DEF Ledger!TypeOK, ControlIsTyped, Setting, MaxRounds
<1>1. CASE File
  <2> DEFINE b == Head(script)
             n == commitSeq
  <2>1. /\ phase = "propose" /\ asked /\ asked' = asked /\ script # <<>> /\ script' = Tail(script)
        /\ Propose(Sealed(b))
    BY <1>1 DEF File
  <2>2. script \in Seq(Bids)
    BY <2>1 DEF StormInv, ScriptIsLegal
  <2>3. /\ 1 \in 1..Len(script) /\ b = script[1]
        /\ Len(Tail(script)) = Len(script) - 1 /\ Len(script) \in Nat
        /\ \A i \in 1..Len(script) - 1 : Tail(script)[i] = script[i + 1] /\ i + 1 \in 1..Len(script)
    BY <2>1, <2>2, FirstAndRest
  <2> HIDE DEF b
  <2>4. Speaker # "crew_legality" /\ Sealed(b).agent = Speaker /\ Speaker' = Speaker
        /\ phase' = phase /\ round' = round /\ sealed' = Append(sealed, n + 1)
    BY <2>1 DEF CrewBids, Propose, Speaker, Ledger!Commit
  <2>5. OnACrew(Sealed(b)) => n = 0 /\ round = 1 /\ b = TheCrewBid
    BY <2>1, <2>3 DEF CrewBids, OnACrew, Sealed
  <2>6. /\ n < MaxCommits /\ commitSeq' = n + 1
        /\ commitments' = [commitments EXCEPT ![n + 1] =
             [agent |-> Speaker, digest |-> Sealed(b), state |-> "sealed", claim |-> 0]]
    BY <2>1 DEF Propose, Ledger!Commit
  <2>7. commitments = [m \in 1..MaxCommits |-> commitments[m]]
    BY <1>0 DEF Ledger!TypeOK, Ledger!CommitId
  <2>8. n + 1 \in 1..MaxCommits
    BY <1>0, <2>6
  <2>9. /\ commitments'[n + 1].digest = Sealed(b)
        /\ \A m \in 1..MaxCommits : m # n + 1 => commitments'[m] = commitments[m]
    BY <2>6, <2>7, <2>8
  <2>10. ASSUME NEW m \in 1..n + 1
         PROVE  /\ commitments'[m].digest.agent # "crew_legality"
                /\ OnACrew(commitments'[m].digest) => m = 1 /\ commitments'[m].digest = Sealed(TheCrewBid)
    <3>1. CASE m = n + 1
      BY <2>4, <2>5, <2>9, <3>1
    <3>2. CASE m # n + 1
      <4>1. m \in 1..n /\ m \in 1..MaxCommits
        BY <1>0, <2>8, <3>2
      <4> QED BY <2>9, <3>2, <4>1 DEF CrewBids
    <3> QED BY <3>1, <3>2
  <2>11. ASSUME NEW i \in 1..Len(script') PROVE ~OnACrew(script'[i])
    <3>1. script'[i] = script[i + 1] /\ i + 1 \in 1..Len(script) /\ i + 1 # 1
      BY <2>1, <2>3
    <3> QED BY <2>1, <3>1 DEF CrewBids
  <2>12. ASSUME NEW i \in 1..Len(sealed'), OnACrew(commitments'[sealed'[i]].digest)
         PROVE  round = 1
    <3>1. sealed \in Seq(1..MaxCommits)
      BY <1>0 DEF SealsAreKept
    <3>2. \/ i \in 1..Len(sealed) /\ sealed'[i] = sealed[i] /\ sealed[i] \in 1..MaxCommits
          \/ sealed'[i] = n + 1
      <4>1. Len(sealed) \in Nat /\ Len(Append(sealed, n + 1)) = Len(sealed) + 1
        BY <3>1
      <4>2. \A j \in 1..Len(sealed) : Append(sealed, n + 1)[j] = sealed[j] /\ sealed[j] \in 1..MaxCommits
        <5>1. PICK k \in 1..MaxCommits : k = n + 1
          BY <2>8
        <5>2. \A j \in 1..Len(sealed) : Append(sealed, k)[j] = sealed[j] /\ sealed[j] \in 1..MaxCommits
          BY <3>1, <5>1, AppendedKeepsItems
        <5> QED BY <5>1, <5>2
      <4>3. Append(sealed, n + 1)[Len(sealed) + 1] = n + 1
        BY <2>8, <3>1
      <4>4. i \in 1..Len(sealed) \/ i = Len(sealed) + 1
        BY <2>4, <4>1
      <4> QED BY <2>4, <4>2, <4>3, <4>4
    <3>3. CASE sealed'[i] = n + 1
      BY <2>5, <2>9, <2>12, <3>3
    <3>4. CASE sealed'[i] # n + 1
      BY <2>9, <2>12, <3>2, <3>4 DEF CrewBids
    <3> QED BY <3>3, <3>4
  <2> QED BY <2>1, <2>4, <2>6, <2>10, <2>11, <2>12 DEF CrewBids, OnACrew
<1>2. CASE ~File
  <2>1. commitSeq' = commitSeq /\ \A m \in 1..MaxCommits : commitments'[m].digest = commitments[m].digest
    BY <1>2, SealsStayUnlessFiled DEF SealsStay
  <2>2. \A m \in 1..commitSeq : m \in 1..MaxCommits
    BY <1>0
  <2>3. MovesOn
    BY <1>2, StepsMoveOn
  <2>4. \A m \in 1..commitSeq' :
          /\ commitments'[m].digest.agent # "crew_legality"
          /\ OnACrew(commitments'[m].digest) => m = 1 /\ commitments'[m].digest = Sealed(TheCrewBid)
    BY <2>1, <2>2 DEF CrewBids
  <2>5. ASSUME NEW i \in 1..Len(sealed'), OnACrew(commitments'[sealed'[i]].digest)
        PROVE  round' = 1
    <3>1. sealed \in Seq(1..MaxCommits)
      BY <1>0 DEF SealsAreKept
    <3>2. PICK j \in 1..Len(sealed) : sealed'[i] = sealed[j]
      <4>1. CASE sealed' = sealed
        BY <2>5, <4>1
      <4>2. CASE sealed # <<>> /\ sealed' = Tail(sealed)
        <5>1. i \in 1..Len(sealed) - 1
          BY <2>5, <3>1, <4>2, FirstAndRest
        <5>2. Tail(sealed)[i] = sealed[i + 1] /\ i + 1 \in 1..Len(sealed)
          BY <3>1, <4>2, <5>1, FirstAndRest
        <5> QED BY <4>2, <5>2
      <4> QED BY <2>3, <4>1, <4>2 DEF MovesOn
    <3>3. sealed[j] \in 1..MaxCommits
      BY <3>1, ItemIsThere
    <3>4. round = 1
      BY <2>1, <2>5, <3>2, <3>3 DEF CrewBids
    <3>5. phase # "round_end"
      <4>1. sealed # <<>>
        BY <3>1, <3>2
      <4> QED BY <1>0, <4>1 DEF ControlIsTyped
    <3> QED BY <2>3, <3>4, <3>5 DEF MovesOn
  <2>6. phase' = "setup" => round' = 1 /\ turn' = 0 /\ commitSeq' = 0
    BY <2>1, <2>3 DEF MovesOn, CrewBids
  <2>7. phase' = "propose" /\ round' = 1 /\ turn' = 0 /\ ~asked' => commitSeq' = 0
    BY <1>0, <2>1, <2>3 DEF MovesOn, CrewBids
  <2>8. CASE ~(phase' = "propose" /\ asked')
    BY <2>4, <2>5, <2>6, <2>7, <2>8 DEF CrewBids, OnACrew
  <2>9. CASE phase' = "propose" /\ asked'
    <3>1. Consult
      BY <1>2, <2>9, AnswersAreConsulted
    <3>2. /\ phase = "propose" /\ ~asked /\ script' = Proposals(Speaker, View) /\ Speaker' = Speaker
          /\ round' = round /\ turn' = turn
      BY <2>9, <3>1 DEF Consult, vars, engineVars, Speaker
    <3>3. Ready /\ ViewIsSound(View) /\ View.round = round
      BY <3>2, Negotiated DEF View
    <3>4. ASSUME NEW i \in 1..Len(script'), OnACrew(script'[i])
          PROVE  i = 1 /\ commitSeq' = 0 /\ round' = 1 /\ script'[i] = TheCrewBid
      <4>1. InLine(Speaker, View.round = 1 /\ i = 1, script'[i])
        BY <3>2, <3>3, <3>4, ProposalsAreLegal
      <4>2. Speaker = "rebooking" /\ round = 1 /\ i = 1 /\ script'[i] = TheCrewBid
        BY <3>3, <3>4, <4>1 DEF InLine, OnACrew
      <4>3. turn = 0
        BY <1>0, <4>2, FirstSpeakers
      <4> QED BY <2>1, <3>2, <4>2, <4>3 DEF CrewBids
    <3>5. Speaker = "crew_legality" => script' = <<>>
      BY <3>2 DEF Proposals
    <3> QED BY <2>4, <2>5, <2>6, <2>7, <3>2, <3>4, <3>5 DEF CrewBids, OnACrew
  <2> QED BY <2>8, <2>9
<1> QED BY <1>1, <1>2
-----------------------------------------------------------------------------
(* What becomes of a claim *)

\* Nothing that was decided is blocked again, and only what waited is granted.
StatusesGoOn ==
  \A c \in ClaimId : claims[c].status # "absent" =>
    /\ claims'[c].status = "blocked" => claims[c].status = "blocked"
    /\ claims'[c].status = "granted" => claims[c].status \in {"granted", "blocked"}

\* A status that is set is neither blocked nor granted, save to what was blocked.
LEMMA StatusGoesOn ==
  ASSUME Ledger!TypeOK, NEW c \in ClaimId, claims[c].status # "absent",
         NEW status, status \notin {"absent", "blocked"},
         status = "granted" => claims[c].status = "blocked",
         Ledger!SetStatus(c, status) \/ UNCHANGED claims
  PROVE  ClaimsStay /\ StatusesGoOn
<1>1. ClaimsStay
  BY StatusChanges
<1>2. CASE UNCHANGED claims
  BY <1>1, <1>2 DEF StatusesGoOn
<1>3. CASE Ledger!SetStatus(c, status)
  <2> DEFINE row == [claims[c] EXCEPT !.status = status]
  <2>1. row.status = status
    BY ClaimsAreRows
  <2>2. claims' = [claims EXCEPT ![c] = row]
    BY <1>3 DEF Ledger!SetStatus
  <2> HIDE DEF row
  <2>3. claims'[c] = row /\ \A d \in ClaimId : d # c => claims'[d] = claims[d]
    BY <2>2, ClaimsAreRows
  <2> QED BY <1>1, <2>1, <2>3 DEF StatusesGoOn
<1> QED BY <1>2, <1>3

\* No call of the ledger blocks or grants a claim again.
LEMMA ClaimsGoOn ==
  ASSUME Ledger!TypeOK, Ledger!NextIdsAreFree, [Ledger!Next]_ledgerVars
  PROVE  ClaimsStay /\ StatusesGoOn
<1> DEFINE Fine == ClaimsStay /\ StatusesGoOn
<1>0. UNCHANGED claims => Fine
  BY DEF ClaimsStay, StatusesGoOn
<1>1. ASSUME NEW kind, Ledger!NoEffect(kind) PROVE Fine
  BY <1>0, <1>1 DEF Ledger!NoEffect, Ledger!tables
<1>2. ASSUME NEW p, NEW m, claimSeq < MaxClaims, claimSeq' = claimSeq + 1,
             Ledger!InsertAndApply(claimSeq', p, m)
      PROVE  Fine
  <2> DEFINE c == claimSeq + 1
  <2>1. c \in ClaimId /\ claims[c].status = "absent"
    <3>1. claimSeq \in Nat /\ MaxClaims \in Nat
      BY LedgerAssumption DEF Ledger!TypeOK
    <3>2. c \in ClaimId /\ c > claimSeq
      BY <1>2, <3>1 DEF ClaimId
    <3> QED BY <3>2 DEF Ledger!NextIdsAreFree, Ledger!HasClaim, Ledger!ClaimId, ClaimId
  <2>2. claims = [d \in ClaimId |-> claims[d]]
    BY ClaimsAreRows
  <2>3. \A d \in ClaimId : d # c => claims'[d] = claims[d]
    <3>1. UNCHANGED claims \/ \E row : claims' = [claims EXCEPT ![c] = row]
      BY <1>2 DEF Ledger!InsertAndApply
    <3> HIDE DEF c
    <3> QED BY <2>1, <2>2, <3>1
  <2> HIDE DEF c
  <2> QED BY <2>1, <2>3 DEF ClaimsStay, StatusesGoOn
<1>3. ASSUME NEW c \in ClaimId, NEW l, NEW final, final \notin {"absent", "blocked", "granted"},
             Ledger!Granted(c), Ledger!GiveBack(c, l, final)
      PROVE  Fine
  <2>1. claims[c].status # "absent" /\ (Ledger!SetStatus(c, final) \/ UNCHANGED claims)
    BY <1>3 DEF Ledger!Granted, Ledger!GiveBack
  <2> QED BY <1>3, <2>1, StatusGoesOn
<1>4. CASE UNCHANGED ledgerVars
  BY <1>0, <1>4 DEF ledgerVars
<1>5. ASSUME NEW r, Ledger!RegisterResource(r) PROVE Fine
  BY <1>0, <1>1, <1>5 DEF Ledger!RegisterResource
<1>6. ASSUME NEW a, NEW p, Ledger!Commit(a, p) PROVE Fine
  BY <1>0, <1>6 DEF Ledger!Commit
<1>7. ASSUME NEW m, NEW p, NEW n, Ledger!Reveal(m, p, n) PROVE Fine
  <2>1. CASE Ledger!NoEffect("ledger_error")
    BY <1>1, <2>1
  <2>2. CASE Ledger!RevealMismatch(m)
    BY <1>0, <2>2 DEF Ledger!RevealMismatch
  <2>3. CASE Ledger!RevealMatch(m, p)
    BY <1>2, <2>3 DEF Ledger!RevealMatch
  <2> QED BY <1>7, <2>1, <2>2, <2>3 DEF Ledger!Reveal
<1>8. ASSUME NEW p, Ledger!SubmitPlain(p) PROVE Fine
  BY <1>2, <1>8 DEF Ledger!SubmitPlain
<1>9. ASSUME NEW a, NEW c \in ClaimId, NEW l, Ledger!Release(a, c, l) PROVE Fine
  BY <1>1, <1>3, <1>9 DEF Ledger!Release
<1>10. ASSUME NEW c \in ClaimId, NEW l, Ledger!RevokeOp(c, l) PROVE Fine
  BY <1>1, <1>3, <1>10 DEF Ledger!RevokeOp
<1>11. ASSUME NEW c \in ClaimId, NEW l, Ledger!GrantOp(c, l) PROVE Fine
  <2>1. CASE Ledger!NoEffect("ledger_error") \/ Ledger!NoEffect("integrity_violation")
    BY <1>1, <2>1
  <2>2. CASE claims[c].status = "blocked" /\ Ledger!SetStatus(c, "granted")
    BY <2>2, StatusGoesOn
  <2> QED BY <1>11, <2>1, <2>2 DEF Ledger!GrantOp
<1>12. ASSUME NEW a, NEW c \in ClaimId, Ledger!Withdraw(a, c) PROVE Fine
  <2>1. CASE Ledger!NoEffect("ledger_error")
    BY <1>1, <2>1
  <2>2. CASE claims[c].status = "blocked" /\ Ledger!SetStatus(c, "withdrawn")
    BY <2>2, StatusGoesOn
  <2> QED BY <1>12, <2>1, <2>2 DEF Ledger!Withdraw
<1>13. ASSUME NEW c \in ClaimId, Ledger!VoidClaim(c) PROVE Fine
  <2>1. CASE Ledger!NoEffect("ledger_error") \/ Ledger!NoEffect("ok")
    BY <1>1, <2>1
  <2>2. CASE claims[c].status # "absent" /\ Ledger!SetStatus(c, "voided")
    BY <2>2, StatusGoesOn
  <2> QED BY <1>13, <2>1, <2>2 DEF Ledger!VoidClaim
<1>14. CASE Ledger!Reopen
  BY <1>0, <1>14 DEF Ledger!Reopen, Ledger!tables
<1> QED
  BY <1>4, <1>5, <1>6, <1>7, <1>8, <1>9, <1>10, <1>11, <1>12, <1>13, <1>14
     DEF Ledger!Next, Ledger!ClaimId, ClaimId

\* In a negotiated run a claim comes from a bid that is revealed.
LEMMA NoClaimUnlessRevealed ==
  ASSUME StormInv, StormNext, condition # "single", ~RevealNext
  PROVE  NoNewClaim
<1>1. Ledger!TypeOK /\ Ledger!NextIdsAreFree
  BY LedgerFacts DEF StormInv
<1>2. CASE UNCHANGED claims
  BY <1>2 DEF NoNewClaim
<1>4. CASE Register
  BY <1>4, RegisteringAddsNothing DEF Register
<1>5. CASE TakePosition
  <2> DEFINE p == Head(script)
  <2>1. /\ phase = "positions" /\ asked /\ script # <<>>
        /\ \/ UNCHANGED ledgerVars
           \/ FileYield(p.target, Ledger!Listing(p.release))
    BY <1>5 DEF TakePosition, FileBlock, FileNote
  <2>2. p \in Stands
    <3>1. script \in Seq(Stands)
      BY <2>1 DEF StormInv, ScriptIsLegal
    <3> QED BY <2>1, <3>1, FirstAndRest
  <2>3. p.target \in ClaimId
    BY <2>2 DEF Stands
  <2> HIDE DEF p
  <2>4. ASSUME FileYield(p.target, Ledger!Listing(p.release)) PROVE NoNewClaim
    <3>1. \/ Ledger!Release(Speaker, p.target, Ledger!Listing(p.release))
          \/ Ledger!Withdraw(Speaker, p.target)
      BY <2>4 DEF FileYield
    <3> QED BY <1>1, <2>3, <3>1, OtherCallsAddNothing
  <2>5. UNCHANGED ledgerVars => UNCHANGED claims
    BY DEF ledgerVars
  <2> QED BY <1>2, <2>1, <2>4, <2>5
<1>6. CASE ApplyNext
  <2> DEFINE o == Head(script)
             l == Ledger!Listing(o.bens)
  <2>1. phase = "ops" /\ script # <<>> /\ RulingOp(o.op, o.claim, l)
    BY <1>6 DEF ApplyNext
  <2>2. o \in Ops
    <3>1. script \in Seq(Ops)
      BY <2>1 DEF StormInv, ScriptIsLegal
    <3> QED BY <2>1, <3>1, FirstAndRest
  <2>3. o.claim \in ClaimId
    BY <2>2 DEF Ops
  <2> HIDE DEF o, l
  <2>4. Ledger!RevokeOp(o.claim, l) \/ Ledger!GrantOp(o.claim, l) \/ Ledger!VoidClaim(o.claim)
    BY <2>1 DEF RulingOp, ApplyOp
  <2> QED BY <1>1, <2>3, <2>4, OtherCallsAddNothing, GrantsAddTheirUnits
<1>7. CASE Engine
  <2>2. ASSUME NEW c \in ClaimId, Ledger!VoidClaim(c) PROVE NoNewClaim
    BY <1>1, <2>2, OtherCallsAddNothing
  <2>4. UNCHANGED claims \/ \E c \in ClaimId : Ledger!VoidClaim(c)
    <3> USE DEF ledgerVars
    <3>1. CASE EndReveals \/ ScanRound \/ EndRulings \/ EndSettlement
      BY <3>1 DEF EndReveals, ScanRound, EndRulings, EndSettlement
    <3>2. CASE EndRound \/ SafetyFinalize \/ EndContestSweep \/ EndSweep
      BY <3>2 DEF EndRound, SafetyFinalize, EndContestSweep, EndSweep
    <3>3. CASE \E x \in settling : SettleContest(x)
      BY <3>3 DEF SettleContest
    <3>4. CASE \E x \in settling : SweepContest(x)
      BY <3>4, SweepLists DEF SweepContest
    <3>5. CASE \E c \in clearing : SweepClaim(c)
      BY <3>5, SweepLists DEF SweepClaim
    <3> QED BY <1>7, <3>1, <3>2, <3>3, <3>4, <3>5 DEF Engine
  <2> QED BY <1>2, <2>2, <2>4
<1>8. CASE StartSociety \/ Consult \/ TurnOver \/ File
  BY <1>2, <1>8 DEF StartSociety, Consult, TurnOver, EndTurn, vars, ledgerVars, File, Propose, Ledger!Commit
<1>9. CASE Mediate \/ MediateAtTheCap \/ ApplyDone
  BY <1>2, <1>9 DEF Mediate, MediateAtTheCap, Rule, Fiat, ApplyDone, EndOps, ledgerVars
<1>10. CASE StartPlanner \/ PlanSeats \/ EndPlan \/ PlanFirst \/ SeatNext
  BY <1>10, NotNegotiated DEF StartPlanner, PlanSeats, EndPlan, PlanFirst, SeatNext
<1> QED BY <1>4, <1>5, <1>6, <1>7, <1>8, <1>9, <1>10 DEF StormNext

\* A crew is claimed once, for the first bid of the run.
IsCrewClaim(c) == claims[c].status # "absent" /\ OnACrew(claims[c])

\* A claim on a crew is rebooking's claim on the ferry's, from the first commitment.
LEMMA TheCrewClaim ==
  ASSUME StormInv, Ledger!ClaimsMatchTheirSeals, CrewBids, condition # "single",
         NEW c \in ClaimId, claims[c].status # "absent"
  PROVE  /\ claims[c].agent # "crew_legality"
         /\ OnACrew(claims[c]) =>
              /\ claims[c].agent = "rebooking" /\ claims[c].resource = FerryCrew
              /\ claims[c].bens = {"C1"} /\ claims[c].commit = 1
              /\ commitments[1].claim = c /\ commitments[1].state = "accepted"
<1> DEFINE m == claims[c].commit
<1>1. m \in 1..commitSeq /\ m # 0
  <2>1. m \in 1..Len(wish) /\ Len(wish) = commitSeq
    BY DEF StormInv, ClaimsAreLegal, WishesAreSealed
  <2> QED BY <2>1
<1>2. /\ commitments[m].state = "accepted" /\ commitments[m].claim = c
      /\ commitments[m].digest = [agent |-> claims[c].agent, resource |-> claims[c].resource,
                                  bens |-> claims[c].bens]
  BY <1>1 DEF Ledger!ClaimsMatchTheirSeals, Ledger!HasClaim, Ledger!ClaimId, ClaimId
<1>3. ToSet(<<"C1">>) = {"C1"}
  BY OneIsASequence
<1> HIDE DEF m
<1>4. commitments[m].digest.agent # "crew_legality"
  BY <1>1 DEF CrewBids
<1>5. ASSUME OnACrew(claims[c])
      PROVE  /\ claims[c].agent = "rebooking" /\ claims[c].resource = FerryCrew
             /\ claims[c].bens = {"C1"} /\ m = 1
  <2>1. OnACrew(commitments[m].digest)
    BY <1>2, <1>5 DEF OnACrew
  <2>2. m = 1 /\ commitments[m].digest = Sealed(TheCrewBid)
    BY <1>1, <2>1 DEF CrewBids
  <2>3. Sealed(TheCrewBid) = [agent |-> "rebooking", resource |-> FerryCrew, bens |-> {"C1"}]
    BY <1>3 DEF Sealed, TheCrewBid, Bid
  <2> QED BY <1>2, <2>2, <2>3
<1> QED BY <1>2, <1>4, <1>5 DEF m

\* There is at most one claim on a crew.
LEMMA CrewIsClaimedOnce ==
  ASSUME StormInv, Ledger!ClaimsMatchTheirSeals, CrewBids, condition # "single",
         NEW c \in ClaimId, NEW d \in ClaimId, IsCrewClaim(c), IsCrewClaim(d)
  PROVE  c = d
BY TheCrewClaim DEF IsCrewClaim
-----------------------------------------------------------------------------
(* The crew that is free is granted *)

\* No claim on a crew waits for one.
CrewClaimsAreNotBlocked == \A c \in Blocked : ~OnACrew(claims[c])

\* What RevealNext reveals.
LEMMA RevealsOpenTheirSeal ==
  ASSUME StormInv, RevealNext, condition # "single"
  PROVE  /\ Head(sealed) \in 1..MaxCommits /\ Head(sealed) \in 1..commitSeq
         /\ \E i \in 1..Len(sealed) : Head(sealed) = sealed[i]
         /\ commitments[Head(sealed)].state = "sealed"
         /\ commitments[Head(sealed)].digest \in Ledger!Proposal
<1> DEFINE m == Head(sealed)
<1>1. Ledger!TypeOK /\ SealsAreKept /\ Ledger!NextIdsAreFree
  BY LedgerFacts DEF StormInv, StageIsSet, EngineHolds
<1>2. m \in 1..MaxCommits /\ m = sealed[1] /\ 1 \in 1..Len(sealed)
  BY <1>1, FirstAndRest DEF RevealNext, SealsAreKept
<1>3. commitments[m].state = "sealed"
  BY <1>1, <1>2 DEF SealsAreKept
<1>4. commitments[m].digest \in Ledger!Proposal
  BY <1>1, <1>2, <1>3, SealsHoldBids
<1>5. ~(m > commitSeq) /\ commitSeq \in Nat /\ m \in Nat /\ m >= 1
  BY <1>1, <1>2, <1>3 DEF Ledger!NextIdsAreFree, Ledger!TypeOK, Ledger!CommitId
<1> HIDE DEF m
<1>6. m \in 1..commitSeq
  BY <1>5
<1> QED BY <1>2, <1>3, <1>4, <1>6 DEF m

\* While no crew is claimed, the crew is free.
LEMMA FreeCrewIsGranted ==
  ASSUME StormInv, Ledger!ClaimsMatchTheirSeals, CrewBids, condition # "single",
         commitments[1].state = "sealed"
  PROVE  Ledger!TryAllocate(FerryCrew, Ledger!Listing({"C1"})) = "granted"
<1> DEFINE l == Ledger!Listing({"C1"})
<1>1. FerryCrew \in Resource /\ FerryCrew.kind = "crew" /\ Capacity[FerryCrew] = 1
      /\ Group[FerryCrew] = "none" /\ NoGroup = "none" /\ "C1" \in Beneficiary
  BY AirlineAssumption, CastAssumption DEF TarmacResources, FerryCrew, Capacities, Groups, GroupOf,
     TarmacBeneficiaries
<1>2. ASSUME NEW u \in alloc, u.resource = FerryCrew PROVE FALSE
  <2>1. u.claim \in ClaimId /\ Ledger!Granted(u.claim) /\ claims[u.claim].resource = FerryCrew
    BY <1>2, LedgerFacts DEF StormInv, Ledger!UnitsBelongToGrantedClaims, Ledger!TypeOK,
       Ledger!Allocation, Ledger!ClaimId, ClaimId
  <2>2. claims[u.claim].status # "absent" /\ OnACrew(claims[u.claim])
    BY <1>1, <2>1 DEF Ledger!Granted, OnACrew
  <2> QED BY <2>1, <2>2, TheCrewClaim
<1>3. Ledger!Used(FerryCrew) = 0
  <2>1. {x \in alloc : x.resource = FerryCrew} = {}
    BY <1>2
  <2>2. Cardinality({}) = 0
    BY FS_EmptySet
  <2> QED BY <2>1, <2>2, LedgersCount DEF Ledger!Used
<1>4. l.bens = {"C1"} /\ l.repeats = FALSE /\ Ledger!Length(l) = 1
  <2>1. Cardinality({"C1"}) = 1
    BY FS_Singleton
  <2> QED BY <2>1, LedgersCount DEF Ledger!Length, Ledger!Listing
<1>5. Ledger!FitsCapacity(FerryCrew, l) /\ Ledger!FitsGroup(FerryCrew, l)
  <2> HIDE DEF l
  <2>1. 0 + 1 <= 1
    OBVIOUS
  <2> QED BY <1>1, <1>3, <1>4, <2>1 DEF Ledger!FitsCapacity, Ledger!FitsGroup
<1>6. Ledger!SchemaAccepts(FerryCrew, l)
  <2> HIDE DEF l
  <2> QED BY <1>2, <1>4, <1>5 DEF Ledger!SchemaAccepts
<1> HIDE DEF l
<1>7. Ledger!TryAllocate(FerryCrew, l) = "granted"
  BY <1>5, <1>6 DEF Ledger!TryAllocate
<1> QED BY <1>7 DEF l

\* The crew is claimed in the first round, and granted at once.
LEMMA NewCrewClaims ==
  ASSUME StormInv, Ledger!ClaimsMatchTheirSeals, CrewBids, condition # "single", StormNext,
         NEW c \in ClaimId, claims[c].status = "absent", claims'[c].status # "absent",
         OnACrew(claims'[c])
  PROVE  phase = "reveal" /\ round = 1 /\ claims'[c].status = "granted" /\ RevealNext
         /\ commitments[1].state = "sealed"
<1> DEFINE m == Head(sealed)
           p == commitments[m].digest
<1>1. RevealNext
  BY NoClaimUnlessRevealed DEF NoNewClaim
<1>2. /\ m \in 1..MaxCommits /\ m \in 1..commitSeq /\ commitments[m].state = "sealed"
      /\ \E i \in 1..Len(sealed) : m = sealed[i]
  BY <1>1, RevealsOpenTheirSeal
<1>3. phase = "reveal" /\ Ledger!Reveal(m, p, TRUE)
  BY <1>1 DEF RevealNext
<1>4. Ledger!TypeOK /\ Ledger!NextIdsAreFree
  BY LedgerFacts DEF StormInv
<1> HIDE DEF m
<1>5. NewClaim(p.resource, p.bens, m)
  BY <1>2, <1>3, <1>4, RevealsAddTheirClaim
<1>6. claims'[c].resource = p.resource /\ claims' # claims
  BY <1>5 DEF NewClaim
<1>7. OnACrew(p)
  BY <1>6 DEF OnACrew
<1>8. m = 1 /\ p = Sealed(TheCrewBid) /\ round = 1
  BY <1>2, <1>7 DEF CrewBids
<1>9. p.resource = FerryCrew /\ p.bens = {"C1"}
  <2>1. ToSet(<<"C1">>) = {"C1"}
    BY OneIsASequence
  <2> QED BY <1>8, <2>1 DEF Sealed, TheCrewBid, Bid
<1>10. Ledger!TryAllocate(p.resource, Ledger!Listing(p.bens)) = "granted"
  BY <1>2, <1>8, <1>9, FreeCrewIsGranted
<1>11. claimSeq' = claimSeq + 1 /\ Ledger!InsertAndApply(claimSeq', p, m)
  BY <1>3, <1>6 DEF Ledger!Reveal, Ledger!NoEffect, Ledger!tables, Ledger!RevealMismatch, Ledger!RevealMatch
<1> HIDE DEF p
<1>12. claims' = [claims EXCEPT ![claimSeq'] =
            [agent |-> p.agent, resource |-> p.resource, bens |-> p.bens,
             status |-> "granted", commit |-> m]]
  BY <1>6, <1>10, <1>11 DEF Ledger!InsertAndApply
<1>13. claims = [d \in ClaimId |-> claims[d]]
  BY <1>4, ClaimsAreRows
<1>14. PICK n : n = claimSeq'
  OBVIOUS
<1>15. claims'[c].status = "granted"
  <2>1. c = n
    <3>1. c # n => claims'[c] = claims[c]
      BY <1>12, <1>13, <1>14
    <3> QED BY <3>1
  <2>2. claims'[n].status = "granted"
    BY <1>12, <1>13, <1>14, <2>1
  <2> QED BY <2>1, <2>2
<1> QED BY <1>1, <1>2, <1>3, <1>8, <1>15
-----------------------------------------------------------------------------
(* When the legality agent sees the grant, and how contests go on *)

\* The legality agent has not been shown what the first round's bids came to.
NotYetSeen ==
  /\ round = 1
  /\ \/ phase \in {"setup", "propose", "reveal"}
     \/ phase = "positions" /\ (turn = 0 \/ (turn = 1 /\ ~asked))

\* In a run of the society the control state is in its bounds.
LEMMA RunIsOn ==
  ASSUME StormInv, condition # "single"
  PROVE  /\ ControlIsTyped /\ phase \in Phase /\ phase \notin {"plan", "seats"}
         /\ round \in Nat /\ round >= 1 /\ turn \in Nat /\ turn < 5 /\ Len(AgentList) = 5
<1>1. ControlIsTyped
  BY DEF StormInv, StageIsSet, EngineHolds
<1>2. phase \notin {"plan", "seats"}
  BY NotNegotiated
<1>3. Len(AgentList) = 5
  BY AirlineAssumption, RolesAreAgents
<1>4. round \in Nat /\ round >= 1 /\ turn \in Nat /\ turn < Len(AgentList) /\ phase \in Phase
  BY <1>1 DEF ControlIsTyped, Setting, MaxRounds
<1> QED BY <1>1, <1>2, <1>3, <1>4

\* What a turn that ends leads to.
LEMMA TurnsGoRound ==
  ASSUME TurnOver
  PROVE  /\ phase \in {"propose", "positions"} /\ asked /\ script = <<>> /\ ~asked'
         /\ UNCHANGED <<ledgerVars, bankVars, detectorVars, round, scenario, setting>>
         /\ \/ turn + 1 < Len(AgentList) /\ turn' = turn + 1 /\ phase' = phase
            \/ /\ ~(turn + 1 < Len(AgentList)) /\ turn' = 0
               /\ phase' = IF phase = "propose" THEN "reveal" ELSE "scan"
BY DEF TurnOver, EndTurn, Goto, stormVars

\* A position that is taken leaves the turn where it is.
LEMMA PositionsAreTaken ==
  ASSUME TakePosition
  PROVE  /\ phase = "positions" /\ asked /\ asked' = asked /\ script # <<>> /\ script' = Tail(script)
         /\ UNCHANGED <<round, turn, scenario, setting, condition, detectorVars>>
         /\ phase' \in {"positions", "aborted"} /\ Speaker' = Speaker
<1>1. /\ phase = "positions" /\ asked /\ asked' = asked /\ script # <<>> /\ script' = Tail(script)
      /\ UNCHANGED <<round, turn, scenario, setting, condition, detectorVars>>
      /\ phase' \in {"positions", "aborted"}
  BY DEF TakePosition, Done, stormVars, FileBlock, FileYield, FileNote, Goto, engineVars
<1> QED BY <1>1 DEF Speaker

\* What the legality agent has been shown it has been shown.
LEMMA SeenStaysSeen ==
  ASSUME StormInv, RunGoesOn, StormNext, condition # "single", NotYetSeen'
  PROVE  NotYetSeen
<1>0. round \in Nat /\ round >= 1 /\ turn \in Nat
  BY RunIsOn
<1>1. CASE Consult
  <2>1. asked' /\ UNCHANGED <<phase, round, turn>>
    BY <1>1 DEF Consult, vars, engineVars
  <2> QED BY <2>1 DEF NotYetSeen
<1>2. CASE File
  BY <1>2 DEF File, Propose, NotYetSeen
<1>3. CASE TakePosition
  BY <1>3, PositionsAreTaken DEF NotYetSeen
<1>4. CASE TurnOver
  <2>1. /\ phase \in {"propose", "positions"} /\ round' = round
        /\ phase = "positions" /\ phase' = "positions" => turn' = turn + 1
        /\ phase = "positions" => phase' \in {"positions", "scan"}
    BY <1>4, TurnsGoRound
  <2>2. CASE phase = "propose"
    BY <2>1, <2>2 DEF NotYetSeen
  <2>3. CASE phase = "positions"
    <3>1. phase' = "positions" /\ turn + 1 \in {0, 1} /\ round = 1
      BY <2>1, <2>3 DEF NotYetSeen
    <3>2. turn = 0
      BY <1>0, <3>1
    <3> QED BY <2>3, <3>1, <3>2 DEF NotYetSeen
  <2> QED BY <2>1, <2>2, <2>3
<1>5. CASE ~Consult /\ ~File /\ ~TakePosition /\ ~TurnOver
  <2>1. phase' \in {"reveal", "positions"} => phase = "reveal"
    BY <1>5, OtherSteps
  <2>2. MovesOn
    BY <1>5, StepsMoveOn
  <2>3. phase' \in {"setup", "propose"} => phase \in {"setup", "propose"} \/ round' # 1
    BY <1>0, <2>2 DEF MovesOn
  <2>4. round' = 1 => round = 1
    BY <1>0, <2>2 DEF MovesOn
  <2> QED BY <2>1, <2>3, <2>4 DEF NotYetSeen
<1> QED BY <1>1, <1>2, <1>3, <1>4, <1>5

\* A contest opens with a position that blocks, and closes when a ruling or the
\* last sweep comes to it.
Opens(x) ==
  /\ TakePosition /\ Head(script).stance = "block"
  /\ contests[x].status = "absent"
  /\ contests'[x] = [agent |-> Speaker, target |-> Head(script).target, status |-> "open"]

Closes(x) ==
  /\ phase \in {"settle", "sweep"} /\ contests[x].status = "open"
  /\ contests'[x].status \in {"won", "lost", "void"}
  /\ contests'[x].agent = contests[x].agent /\ contests'[x].target = contests[x].target

\* The contests are a function of their ids.
LEMMA ContestRows ==
  ASSUME Bank!BankTypeOK
  PROVE  /\ contests = [x \in Bank!ContestId |-> contests[x]]
         /\ \A x \in Bank!ContestId : contests[x].status # "absent" => contests[x] \in Bank!Contest
         /\ \A x \in Bank!ContestId : contests[x].status # "absent" => contests[x].target \in ClaimId
BY DEF Bank!BankTypeOK, Bank!NoContest, Bank!Contest, ClaimId

\* What closes a contest leaves the others as they are.
LEMMA ClosingContests ==
  ASSUME Bank!BankTypeOK, NEW x \in Bank!ContestId, NEW won \in BOOLEAN,
         contests[x].status = "open", phase \in {"settle", "sweep"},
         Bank!Settle(x, won) \/ Bank!VoidContest(x)
  PROVE  Closes(x) /\ \A y \in Bank!ContestId : y # x => contests'[y] = contests[y]
<1>1. PICK s \in {"won", "lost", "void"} : contests' = [contests EXCEPT ![x].status = s]
  BY DEF Bank!Settle, Bank!VoidContest, Bank!Close
<1>2. contests[x] \in Bank!Contest /\ contests = [y \in Bank!ContestId |-> contests[y]]
  BY ContestRows
<1>3. contests'[x] = [contests[x] EXCEPT !.status = s]
  BY <1>1, <1>2
<1>4. /\ contests'[x].status = s /\ contests'[x].target = contests[x].target
      /\ contests'[x].agent = contests[x].agent
  BY <1>2, <1>3 DEF Bank!Contest
<1> QED BY <1>1, <1>2, <1>4 DEF Closes

\* A contest stays as it is but for the step that opens or closes it.
LEMMA ContestsGoOn ==
  ASSUME StormInv, StormNext, NEW x \in Bank!ContestId
  PROVE  contests'[x] = contests[x] \/ Opens(x) \/ Closes(x)
<1>0. Bank!BankTypeOK
  BY BankFacts DEF StormInv
<1>1. UNCHANGED bankVars => contests'[x] = contests[x]
  BY DEF bankVars
<1>2. CASE TakePosition
  <2>1. CASE Head(script).stance = "block" /\ Bank!OpenContest(Speaker, Head(script).target)
    <3>1. CASE UNCHANGED contests
      BY <3>1
    <3>2. CASE ~UNCHANGED contests
      <4>1. /\ contestSeq < MaxContests /\ contestSeq' = contestSeq + 1
            /\ contests' = [contests EXCEPT ![contestSeq'] =
                 [agent |-> Speaker, target |-> Head(script).target, status |-> "open"]]
        BY <2>1, <3>2 DEF Bank!OpenContest, Bank!BankUnchanged
      <4>2. PICK n : n = contestSeq + 1
        OBVIOUS
      <4>3. n \in Bank!ContestId /\ contests[n].status = "absent"
        <5>1. contestSeq \in Nat /\ MaxContests \in Nat
          BY <1>0, BankAssumption DEF Bank!BankTypeOK
        <5>2. n \in Bank!ContestId /\ ~(n <= contestSeq)
          BY <4>1, <4>2, <5>1 DEF Bank!ContestId
        <5> QED BY <1>0, <5>2 DEF Bank!BankTypeOK
      <4>4. CASE x = n
        BY <1>0, <1>2, <2>1, <4>1, <4>2, <4>3, <4>4, ContestRows DEF Opens
      <4>5. CASE x # n
        BY <1>0, <4>1, <4>2, <4>5, ContestRows
      <4> QED BY <4>4, <4>5
    <3> QED BY <3>1, <3>2
  <2> QED BY <1>1, <1>2, <2>1 DEF TakePosition, FileBlock, FileYield, FileNote
<1>3. CASE Engine
  <2>1. ASSUME NEW y \in settling, SettleContest(y)
        PROVE  contests'[x] = contests[x] \/ Closes(x)
    <3>1. phase = "settle" /\ Settlement(y)
      BY <2>1 DEF SettleContest
    <3>2. y \in Bank!ContestId /\ contests[y].status = "open"
      <4>1. condition # "single"
        BY <3>1, Negotiated
      <4> QED BY <4>1 DEF StormInv, StageIsSet, EngineHolds, SettlementIsOnItsWay, OpenContests
    <3>3. CASE UNCHANGED bankVars
      BY <1>1, <3>3
    <3>4. CASE Bank!Settle(y, TRUE) \/ Bank!Settle(y, FALSE) \/ Bank!VoidContest(y)
      BY <1>0, <3>1, <3>2, <3>4, ClosingContests
    <3> QED BY <3>1, <3>3, <3>4 DEF Settlement
  <2>2. ASSUME NEW y \in settling, SweepContest(y)
        PROVE  contests'[x] = contests[x] \/ Closes(x)
    <3>1. phase = "sweep" /\ Bank!VoidContest(y) /\ y \in Bank!ContestId /\ contests[y].status = "open"
      BY <2>2, SweepLists DEF SweepContest
    <3> QED BY <1>0, <3>1, ClosingContests
  <2>3. CASE RevealNext \/ EndReveals \/ ScanRound \/ EndRulings
    BY <1>1, <2>3 DEF RevealNext, EndReveals, ScanRound, EndRulings
  <2>4. CASE EndSettlement \/ EndRound \/ SafetyFinalize \/ EndContestSweep \/ EndSweep
    BY <1>1, <2>4 DEF EndSettlement, EndRound, SafetyFinalize, EndContestSweep, EndSweep
  <2>5. ASSUME NEW c, SweepClaim(c) PROVE contests'[x] = contests[x]
    BY <1>1, <2>5 DEF SweepClaim
  <2> QED BY <1>3, <2>1, <2>2, <2>3, <2>4, <2>5 DEF Engine
<1>4. CASE Register \/ StartSociety \/ Consult \/ File \/ TurnOver
  BY <1>1, <1>4 DEF Register, StartSociety, Consult, File, Propose, TurnOver, EndTurn, vars
<1>5. CASE Mediate \/ MediateAtTheCap \/ ApplyNext \/ ApplyDone
  BY <1>1, <1>5 DEF Mediate, MediateAtTheCap, ApplyNext, ApplyDone, Rule, Fiat, RulingOp, EndOps
<1>6. CASE StartPlanner \/ PlanFirst \/ PlanSeats \/ SeatNext \/ EndPlan
  BY <1>1, <1>6 DEF StartPlanner, PlanFirst, PlanSeats, SeatNext, EndPlan
<1> QED BY <1>2, <1>3, <1>4, <1>5, <1>6 DEF StormNext
-----------------------------------------------------------------------------
(* Vetoes and deadlocks are on the crew that was claimed *)

\* The legality agent contests nothing but crews.
VetoesAreOfCrews ==
  /\ \A x \in Bank!ContestId :
       contests[x].status # "absent" /\ contests[x].agent = "crew_legality"
         => contests[x].target \in ClaimId /\ IsCrewClaim(contests[x].target)
  /\ phase = "positions" /\ asked /\ Speaker = "crew_legality" =>
       \A i \in 1..Len(script) : script[i].stance = "block" =>
         script[i].target \in ClaimId /\ IsCrewClaim(script[i].target)

\* The legality agent has filed no contest yet.
NoVetoes ==
  \A x \in Bank!ContestId : contests[x].status # "absent" => contests[x].agent # "crew_legality"

\* What the agent finds illegal are granted claims on a crew.
LEMMA IllegalCrewsAreClaims ==
  ASSUME NEW c \in IllegalCrew(View)
  PROVE  c.id \in ClaimId /\ claims[c.id].status = "granted" /\ IsCrewClaim(c.id)
<1>1. c \in Records("granted") /\ c.resource.kind = "crew"
  BY DEF IllegalCrew, CrewClaims, View
<1>2. c.id \in ClaimId /\ claims[c.id].status = "granted" /\ c.resource = claims[c.id].resource
  BY <1>1, RecordsAreOfClaims
<1> QED BY <1>1, <1>2 DEF IsCrewClaim, OnACrew

\* It contests nothing before it has seen the grants.
LEMMA NoVetoUnseen ==
  ASSUME StormInv, RunGoesOn, StormNext, condition # "single", NotYetSeen => NoVetoes
  PROVE  NotYetSeen' => NoVetoes'
<1> SUFFICES ASSUME NotYetSeen', NEW x \in Bank!ContestId, contests'[x].status # "absent"
             PROVE  contests'[x].agent # "crew_legality"
  BY DEF NoVetoes
<1>1. NotYetSeen /\ NoVetoes
  BY SeenStaysSeen
<1>2. CASE contests'[x] = contests[x] \/ Closes(x)
  BY <1>1, <1>2 DEF NoVetoes, Closes
<1>3. CASE Opens(x)
  <2>1. phase = "positions" /\ asked
    BY <1>3, PositionsAreTaken DEF Opens
  <2>2. round = 1 /\ turn = 0
    BY <1>1, <2>1 DEF NotYetSeen
  <2>3. Speaker = "rebooking"
    BY <2>2, FirstSpeakers, RunIsOn
  <2> QED BY <1>3, <2>3 DEF Opens
<1> QED BY <1>2, <1>3, ContestsGoOn

\* A deadlock is about claims on its own resources.
DeadlocksAreOnTheirs ==
  \A d \in pending : \A c \in d.claims :
    c \in ClaimId /\ claims[c].status # "absent" /\ claims[c].resource \in d.resources

\* A deadlock that is found names its claims' resources.
LEMMA ScansAreOnTheirs ==
  ASSUME StormInv, NEW d,
         d \in Detector!NewCycles(CurrentView) \/ d \in Detector!NewContested(CurrentView),
         NEW c \in d.claims
  PROVE  c \in ClaimId /\ claims[c].status # "absent" /\ claims[c].resource \in d.resources
<1> DEFINE v == CurrentView
<1>1. \A x \in v.blocked \union v.held \union v.challenged :
        x.claim \in ClaimId /\ claims[x.claim].status # "absent" /\ claims[x.claim].resource = x.resource
  <2>1. \A x \in alloc : x.claim \in ClaimId /\ claims[x.claim].status = "granted"
    BY LedgerFacts DEF StormInv, Ledger!UnitsBelongToGrantedClaims, Ledger!TypeOK,
       Ledger!Allocation, Ledger!Granted, Ledger!ClaimId, ClaimId
  <2> QED BY <2>1 DEF CurrentView, RowOf, Blocked, Ledger!Granted
<1> HIDE DEF v
<1>2. CASE d \in Detector!NewCycles(v)
  <2>1. PICK C : d = Detector!CycleDeadlock(v, C)
    BY <1>2 DEF Detector!NewCycles, Detector!Cycles
  <2>2. PICK e \in Detector!Involving(v, C) : c = e[1].claim \/ c = e[2].claim
    BY <2>1 DEF Detector!CycleDeadlock, Detector!Involving
  <2>3. e[1].resource \in d.resources
    BY <2>1, <2>2 DEF Detector!CycleDeadlock
  <2>4. e[1] \in v.blocked /\ e[2] \in v.held /\ e[1].resource = e[2].resource
    BY <2>2 DEF Detector!Involving, Detector!Waits
  <2> QED BY <1>1, <2>2, <2>3, <2>4
<1>3. CASE d \in Detector!NewContested(v)
  <2>1. PICK r : d = Detector!ContestedDeadlock(v, r)
    BY <1>3 DEF Detector!NewContested
  <2>2. PICK x \in Detector!ContestedRows(v, r) : c = x.claim
    BY <2>1 DEF Detector!ContestedDeadlock
  <2>3. x.resource = r /\ x \in v.blocked \union v.held \union v.challenged
    BY <2>2 DEF Detector!ContestedRows, Detector!On
  <2>4. d.resources = {r}
    BY <2>1 DEF Detector!ContestedDeadlock
  <2> QED BY <1>1, <2>2, <2>3, <2>4
<1> QED BY <1>2, <1>3 DEF v
-----------------------------------------------------------------------------
(* What a ruling on the crew does *)

\* c is a granted claim on a crew.
IsUp(c) == c \in ClaimId /\ claims[c].status = "granted" /\ OnACrew(claims[c])
=============================================================================
