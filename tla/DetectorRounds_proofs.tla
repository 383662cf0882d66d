------------------------ MODULE DetectorRounds_proofs ------------------------
(***************************************************************************)
(* Proofs about DetectorRounds, for every number of agents, resources,     *)
(* claims, rounds and contested_rounds.                                    *)
(*                                                                         *)
(* Contested resources.  The counter of a resource is not what the         *)
(* properties speak of: they speak of the last contested_rounds scans.     *)
(* The invariant says that the counter is the length of the stretch of     *)
(* contested scans that ends with the last one, cut off at contested_rounds*)
(*                                                                         *)
(* Cycles.  SearchInv is the invariant of Tarjan's search and Measure what *)
(* is left of it; together they make find_cycles return the components of  *)
(* the wait-for graph, and the properties of reported cycles follow.       *)
(***************************************************************************)
EXTENDS DetectorRounds, FiniteSetTheorems, SequenceTheorems, WellFoundedInduction,
        TLAPS

\* The k-th scan from the last one, k = 0 being the last.
Seen(k) == recent[Len(recent) - k]

RecentIsTyped ==
  /\ recent \in Seq(SUBSET Resource)
  /\ Len(recent) <= ContestedRounds
  /\ streaks \in [Resource -> 0..ContestedRounds]

\* As many scans as the streak says saw the resource contested, and the one
\* before them did not.
StreaksCountScans ==
  \A r \in Resource :
    /\ streaks[r] <= Len(recent)
    /\ \A k \in 0..streaks[r] - 1 : r \in Seen(k)
    /\ streaks[r] < Len(recent) => r \notin Seen(streaks[r])

StreakInv == RecentIsTyped /\ StreaksCountScans
-----------------------------------------------------------------------------
\* A resource was contested throughout exactly if its streak is full.
FullStreaksAreContested ==
  \A r \in Resource : ContestedThroughout(r) <=> streaks[r] = ContestedRounds

LEMMA FullStreak == StreakInv => FullStreaksAreContested
<1> SUFFICES ASSUME StreakInv, NEW r \in Resource
             PROVE  ContestedThroughout(r) <=> streaks[r] = ContestedRounds
  BY DEF FullStreaksAreContested
<1> DEFINE n == Len(recent)
<1>1. n \in Nat /\ ContestedRounds \in Nat /\ streaks[r] \in 0..ContestedRounds
  BY ContestedRoundsAssumption DEF StreakInv, RecentIsTyped
<1>2. DOMAIN recent = 1..n
  BY DEF StreakInv, RecentIsTyped
<1>3. ASSUME ContestedThroughout(r) PROVE streaks[r] = ContestedRounds
  <2>1. n = ContestedRounds /\ \A i \in 1..n : r \in recent[i]
    BY <1>2, <1>3 DEF ContestedThroughout
  <2>2. streaks[r] < n => n - streaks[r] \in 1..n
    BY <1>1
  <2> QED BY <1>1, <2>1, <2>2 DEF StreakInv, StreaksCountScans, Seen
<1>4. ASSUME streaks[r] = ContestedRounds PROVE ContestedThroughout(r)
  <2>1. n = ContestedRounds
    BY <1>1, <1>4 DEF StreakInv, StreaksCountScans, RecentIsTyped
  <2>2. ASSUME NEW i \in 1..n PROVE r \in recent[i]
    <3>1. n - i \in 0..streaks[r] - 1 /\ n - (n - i) = i
      BY <1>1, <1>4, <2>1
    <3> QED BY <3>1 DEF StreakInv, StreaksCountScans, Seen
  <2> QED BY <1>2, <2>1, <2>2 DEF ContestedThroughout
<1> QED
  BY <1>3, <1>4

LEMMA StreaksInit == RoundsInit => StreakInv
<1> SUFFICES ASSUME RoundsInit PROVE StreakInv
  OBVIOUS
<1>1. recent = <<>> /\ Len(recent) = 0 /\ recent \in Seq(SUBSET Resource)
  BY DEF RoundsInit
<1>2. \A r \in Resource : streaks[r] = 0
  BY DEF RoundsInit, DetectorInit
<1>3. RecentIsTyped
  BY <1>1, ContestedRoundsAssumption DEF RecentIsTyped, RoundsInit, DetectorInit
<1>4. StreaksCountScans
  BY <1>1, <1>2 DEF StreaksCountScans
<1> QED
  BY <1>3, <1>4 DEF StreakInv

\* What a scan sees contested are resources.
LEMMA ContestedIsTyped == Contested(CurrentView) \subseteq Resource
  BY RowsAssumption DEF Contested, CurrentView, Rows

\* The scans remembered, once C was seen.
Remember(log, C) ==
  LET longer == Append(log, C)
  IN IF Len(longer) > ContestedRounds THEN Tail(longer) ELSE longer

\* The last scan is the new one, and the others have moved up.
LEMMA RememberedScans ==
  ASSUME NEW log \in Seq(SUBSET Resource), Len(log) <= ContestedRounds,
         NEW C \in SUBSET Resource
  PROVE  LET after == Remember(log, C)
             m == IF Len(log) < ContestedRounds THEN Len(log) + 1 ELSE ContestedRounds
         IN /\ after \in Seq(SUBSET Resource)
            /\ Len(after) = m
            /\ after[m] = C
            /\ \A k \in 0..Len(log) - 1 :
                 k + 1 < m => after[m - (k + 1)] = log[Len(log) - k]
<1> DEFINE longer == Append(log, C)
           n == Len(log)
           after == Remember(log, C)
<1>1. n \in Nat /\ ContestedRounds \in Nat \ {0} /\ n <= ContestedRounds
  BY ContestedRoundsAssumption
<1>2. /\ longer \in Seq(SUBSET Resource) /\ Len(longer) = n + 1
      /\ longer[n + 1] = C
      /\ \A i \in 1..n : longer[i] = log[i]
  OBVIOUS
<1>3. after = IF Len(longer) > ContestedRounds THEN Tail(longer) ELSE longer
  BY DEF Remember
<1> HIDE DEF longer, after
<1>4. CASE n < ContestedRounds
  <2>1. after = longer
    BY <1>1, <1>2, <1>3, <1>4
  <2>2. \A k \in 0..n - 1 : n + 1 - (k + 1) = n - k /\ n - k \in 1..n
    BY <1>1
  <2>3. Len(after) = n + 1 /\ after[n + 1] = C /\ after \in Seq(SUBSET Resource)
    BY <1>2, <2>1
  <2>4. \A k \in 0..n - 1 : after[n + 1 - (k + 1)] = log[n - k]
    BY <1>2, <2>1, <2>2
  <2> HIDE DEF n
  <2>5. (IF n < ContestedRounds THEN n + 1 ELSE ContestedRounds) = n + 1
    BY <1>4
  <2> QED BY <2>3, <2>4, <2>5 DEF n, after
<1>5. CASE n = ContestedRounds
  <2>1. after = Tail(longer)
    BY <1>1, <1>2, <1>3, <1>5
  <2>2. /\ after \in Seq(SUBSET Resource) /\ Len(after) = n
        /\ \A i \in 1..n : after[i] = longer[i + 1]
    BY <1>1, <1>2, <2>1
  <2>3. after[n] = C
    BY <1>1, <1>2, <1>5, <2>2
  <2>4. \A k \in 0..n - 1 : k + 1 < n => after[n - (k + 1)] = log[n - k]
    <3> SUFFICES ASSUME NEW k \in 0..n - 1, k + 1 < n
                 PROVE  after[n - (k + 1)] = log[n - k]
      OBVIOUS
    <3>1. n - (k + 1) \in 1..n /\ n - (k + 1) + 1 = n - k /\ n - k \in 1..n
      BY <1>1
    <3> QED BY <1>2, <2>2, <3>1
  <2>5. (IF n < ContestedRounds THEN n + 1 ELSE ContestedRounds) = n
    BY <1>1, <1>5
  <2> QED BY <2>2, <2>3, <2>4, <2>5 DEF after
<1> QED
  BY <1>1, <1>4, <1>5

LEMMA RoundKeeps ==
  ASSUME StreakInv, Round
  PROVE  StreakInv'
<1> USE DEF StreakInv
<1> DEFINE n == Len(recent)
           C == Contested(CurrentView)'
           m == IF n < ContestedRounds THEN n + 1 ELSE ContestedRounds
<1>1. n \in Nat /\ ContestedRounds \in Nat \ {0} /\ n <= ContestedRounds
  BY ContestedRoundsAssumption DEF RecentIsTyped
<1>2. C \subseteq Resource
  BY ContestedIsTyped, RowsAssumption DEF Contested, CurrentView, Rows
<1>3. recent' = Remember(recent, C)
  BY DEF Round, Remember
<1> HIDE DEF C
<1>4. /\ recent' \in Seq(SUBSET Resource) /\ Len(recent') = m
      /\ recent'[m] = C
      /\ \A k \in 0..n - 1 : k + 1 < m => recent'[m - (k + 1)] = recent[n - k]
  BY <1>1, <1>2, <1>3, RememberedScans DEF RecentIsTyped
<1>5. streaks' = [r \in Resource |->
        IF r \notin C THEN 0
        ELSE IF streaks[r] < ContestedRounds THEN streaks[r] + 1 ELSE ContestedRounds]
  BY DEF Round, Scan, NextStreak, C
<1>6. RecentIsTyped'
  BY <1>1, <1>4, <1>5 DEF RecentIsTyped
<1>7. ASSUME NEW r \in Resource
      PROVE  /\ streaks'[r] <= m
             /\ \A k \in 0..streaks'[r] - 1 : r \in recent'[m - k]
             /\ streaks'[r] < m => r \notin recent'[m - streaks'[r]]
  <2> DEFINE s == streaks[r]
  <2>1. s \in 0..ContestedRounds /\ s <= n
    BY DEF RecentIsTyped, StreaksCountScans
  <2>2. CASE r \notin C
    <3>1. streaks'[r] = 0
      BY <1>5, <2>2
    <3> QED BY <1>1, <1>4, <2>2, <3>1
  <2>3. CASE r \in C
    <3>1. streaks'[r] = IF s < ContestedRounds THEN s + 1 ELSE ContestedRounds
      BY <1>5, <2>3
    <3>2. streaks'[r] \in Nat /\ streaks'[r] <= m /\ streaks'[r] <= s + 1 /\ streaks'[r] > 0
      BY <1>1, <2>1, <3>1
    <3>3. ASSUME NEW k \in 0..streaks'[r] - 1 PROVE r \in recent'[m - k]
      <4>1. CASE k = 0
        BY <1>1, <1>4, <2>3, <4>1
      <4>2. CASE k > 0
        <5>1. k - 1 \in 0..s - 1 /\ k - 1 \in 0..n - 1 /\ (k - 1) + 1 < m /\ (k - 1) + 1 = k
          BY <1>1, <2>1, <3>2, <4>2
        <5>2. r \in recent[n - (k - 1)]
          BY <5>1 DEF StreaksCountScans, Seen
        <5>3. recent'[m - k] = recent[n - (k - 1)]
          BY <1>4, <5>1
        <5> QED BY <5>2, <5>3
      <4> QED BY <3>2, <4>1, <4>2
    <3>4. ASSUME streaks'[r] < m PROVE r \notin recent'[m - streaks'[r]]
      <4>1. streaks'[r] = s + 1 /\ s < n /\ s \in 0..n - 1 /\ s + 1 < m
        BY <1>1, <2>1, <3>1, <3>4
      <4>2. r \notin recent[n - s]
        BY <4>1 DEF StreaksCountScans, Seen
      <4>3. recent'[m - (s + 1)] = recent[n - s]
        BY <1>4, <4>1
      <4> QED BY <4>1, <4>2, <4>3
    <3> QED BY <3>2, <3>3, <3>4
  <2> QED BY <2>2, <2>3
<1>8. StreaksCountScans'
  BY <1>4, <1>7 DEF StreaksCountScans, Seen
<1> QED
  BY <1>6, <1>8

LEMMA RuledKeeps ==
  ASSUME StreakInv, NEW q \in Resource, Ruled(q)
  PROVE  StreakInv'
<1> USE DEF StreakInv
<1> DEFINE n == Len(recent)
<1>1. /\ n \in Nat /\ DOMAIN recent = 1..n
      /\ \A i \in 1..n : recent[i] \in SUBSET Resource
  BY DEF RecentIsTyped
<1>2. recent' = [i \in 1..n |-> recent[i] \ {q}]
  BY <1>1 DEF Ruled
<1>3. recent' \in [1..n -> SUBSET Resource]
  BY <1>1, <1>2
<1>4. recent' \in Seq(SUBSET Resource) /\ Len(recent') = n
  BY <1>1, <1>2, <1>3
<1>5. /\ streaks'[q] = 0
      /\ \A r \in Resource \ {q} : streaks'[r] = streaks[r]
      /\ streaks' \in [Resource -> 0..ContestedRounds]
  BY ContestedRoundsAssumption DEF Ruled, ResetResources, RecentIsTyped
<1>6. RecentIsTyped'
  BY <1>4, <1>5 DEF RecentIsTyped
<1>7. \A i \in 1..n : /\ q \notin recent'[i]
                      /\ \A r \in Resource \ {q} : r \in recent'[i] <=> r \in recent[i]
  BY <1>2
<1>8. ASSUME NEW r \in Resource
      PROVE  /\ streaks'[r] <= n
             /\ \A k \in 0..streaks'[r] - 1 : r \in recent'[n - k]
             /\ streaks'[r] < n => r \notin recent'[n - streaks'[r]]
  <2>1. CASE r = q
    BY <1>1, <1>5, <1>7, <2>1
  <2>2. CASE r # q
    <3>1. streaks'[r] = streaks[r] /\ streaks[r] \in Nat /\ streaks[r] <= n
      BY <1>5, <2>2, ContestedRoundsAssumption DEF RecentIsTyped, StreaksCountScans
    <3>2. /\ \A k \in 0..streaks[r] - 1 : n - k \in 1..n
          /\ streaks[r] < n => n - streaks[r] \in 1..n
      BY <1>1, <3>1
    <3> QED BY <1>7, <2>2, <3>1, <3>2 DEF StreaksCountScans, Seen
  <2> QED BY <2>1, <2>2
<1>9. StreaksCountScans'
  BY <1>4, <1>8 DEF StreaksCountScans, Seen
<1> QED
  BY <1>6, <1>9

LEMMA StreaksStep == StreakInv /\ [RoundsNext]_roundVars => StreakInv'
<1> SUFFICES ASSUME StreakInv, [RoundsNext]_roundVars PROVE StreakInv'
  OBVIOUS
<1>1. CASE Round
  BY <1>1, RoundKeeps
<1>2. ASSUME NEW q \in Resource, Ruled(q) PROVE StreakInv'
  BY <1>2, RuledKeeps
<1>3. CASE UNCHANGED roundVars
  BY <1>3 DEF roundVars, detectorVars, StreakInv, RecentIsTyped, StreaksCountScans, Seen
<1> QED
  BY <1>1, <1>2, <1>3 DEF RoundsNext

LEMMA StreakInvHolds == RoundsSpec => []StreakInv
  BY StreaksInit, StreaksStep, PTL DEF RoundsSpec
-----------------------------------------------------------------------------
\* What a scan reports as contested has a full streak.
LEMMA ReportedStreaks ==
  ASSUME StreakInv, Round, NEW d \in found', d.kind = "contested",
         NEW r \in d.resources
  PROVE  r \in Resource /\ streaks'[r] = ContestedRounds
<1> DEFINE v == CurrentView'
<1>1. d \in NewCycles(v) \/ d \in NewContested(v)
  BY DEF Round, Scan
<1>2. d \notin NewCycles(v)
  BY DEF NewCycles, Cycles, CycleDeadlock
<1>3. PICK q \in Contested(v) : NextStreak(v, q) >= ContestedRounds /\ d = ContestedDeadlock(v, q)
  BY <1>1, <1>2 DEF NewContested
<1>4. r = q
  BY <1>3 DEF ContestedDeadlock
<1>5. q \in Resource
  BY <1>3, RowsAssumption DEF Contested, CurrentView, Rows
<1>6. streaks'[q] = NextStreak(v, q)
  BY <1>5 DEF Round, Scan
<1>7. streaks[q] \in 0..ContestedRounds
  BY <1>5 DEF StreakInv, RecentIsTyped
<1>8. NextStreak(v, q) = ContestedRounds
  BY <1>3, <1>7, ContestedRoundsAssumption DEF NextStreak
<1> QED
  BY <1>4, <1>5, <1>6, <1>8

\* A mediator is not called in for a resource that was not contested for
\* contested_rounds scans in a row since the last ruling on it, however the
\* claims on it come and go.
THEOREM NothingEscalatesEarly == RoundsSpec => NoEarlyEscalation
<1> DEFINE Early == \A d \in found' : scans' # scans /\ d.kind = "contested" =>
                      \A r \in d.resources : ContestedThroughout(r)'
<1>1. StreakInv /\ FullStreaksAreContested' /\ [RoundsNext]_roundVars => [Early]_roundVars
  <2> SUFFICES ASSUME StreakInv, FullStreaksAreContested', RoundsNext, scans' # scans,
                      NEW d \in found', d.kind = "contested", NEW r \in d.resources
               PROVE  ContestedThroughout(r)'
    OBVIOUS
  <2>1. Round
    BY ContestedRoundsAssumption DEF RoundsNext, Ruled
  <2>2. r \in Resource /\ streaks'[r] = ContestedRounds
    BY <2>1, ReportedStreaks
  <2> QED BY <2>2 DEF FullStreaksAreContested
<1> QED
  BY <1>1, FullStreak, StreakInvHolds, PTL DEF RoundsSpec, NoEarlyEscalation

LEMMA RoundEscalates ==
  ASSUME StreakInv, FullStreaksAreContested', Round
  PROVE  ContestedEscalates'
<1> DEFINE v == CurrentView'
<1> SUFFICES ASSUME NEW r \in Resource, ContestedThroughout(r)'
             PROVE  \/ Key(ContestedDeadlock(v, r)) \in fired'
                    \/ \E d \in Cycles(v) : r \in d.resources /\ Key(d) \in fired'
  BY DEF ContestedEscalates
<1>1. streaks'[r] = ContestedRounds
  BY DEF FullStreaksAreContested
<1>2. streaks'[r] = NextStreak(v, r)
  BY DEF Round, Scan
<1>3. r \in Contested(v)
  BY <1>1, <1>2, ContestedRoundsAssumption DEF NextStreak
<1>4. CASE r \in UNION {d.resources : d \in NewCycles(v)}
  <2>1. PICK d \in NewCycles(v) : r \in d.resources
    BY <1>4
  <2>2. d \in Cycles(v) /\ Key(d) \in fired'
    BY <2>1 DEF NewCycles, Round, Scan
  <2> QED BY <2>1, <2>2
<1>5. CASE r \notin UNION {d.resources : d \in NewCycles(v)}
  <2>1. NextStreak(v, r) >= ContestedRounds
    BY <1>1, <1>2, ContestedRoundsAssumption
  <2>2. CASE Key(ContestedDeadlock(v, r)) \in fired
    BY <2>2 DEF Round, Scan
  <2>3. CASE Key(ContestedDeadlock(v, r)) \notin fired
    <3>1. ContestedDeadlock(v, r) \in NewContested(v)
      BY <1>3, <1>5, <2>1, <2>3 DEF NewContested
    <3> QED BY <3>1 DEF Round, Scan
  <2> QED BY <2>2, <2>3
<1> QED
  BY <1>4, <1>5

LEMMA RuledEscalates ==
  ASSUME StreakInv, ContestedEscalates, NEW q \in Resource, Ruled(q)
  PROVE  ContestedEscalates'
<1>1. standing' = standing /\ fired' = fired /\ CurrentView' = CurrentView
  BY DEF Ruled, ResetResources, CurrentView, Rows
<1>2. DOMAIN recent = 1..Len(recent) /\ Len(recent) \in Nat
  BY DEF StreakInv, RecentIsTyped
<1>3. recent' = [i \in 1..Len(recent) |-> recent[i] \ {q}]
  BY <1>2 DEF Ruled
<1>4. DOMAIN recent' = 1..Len(recent) /\ Len(recent') = Len(recent)
  BY <1>2, <1>3
<1>5. ASSUME NEW r \in Resource, ContestedThroughout(r)' PROVE ContestedThroughout(r)
  BY <1>2, <1>3, <1>4, <1>5 DEF ContestedThroughout
<1> QED
  BY <1>1, <1>5 DEF ContestedEscalates

\* A resource that stays contested for contested_rounds scans is brought to
\* the mediator, on its own or through a cycle, with the claims as they stand
\* now; a report that was made before is not lost by a ruling elsewhere.
THEOREM LastingContestsEscalate == RoundsSpec => []ContestedEscalates
<1>1. RoundsInit => ContestedEscalates
  BY ContestedRoundsAssumption DEF RoundsInit, ContestedEscalates, ContestedThroughout
<1>2. StreakInv /\ FullStreaksAreContested' /\ ContestedEscalates /\ [RoundsNext]_roundVars
        => ContestedEscalates'
  <2> SUFFICES ASSUME StreakInv, FullStreaksAreContested', ContestedEscalates,
                      [RoundsNext]_roundVars
               PROVE  ContestedEscalates'
    OBVIOUS
  <2>1. CASE Round
    BY <2>1, RoundEscalates
  <2>2. ASSUME NEW q \in Resource, Ruled(q) PROVE ContestedEscalates'
    BY <2>2, RuledEscalates
  <2>3. CASE UNCHANGED roundVars
    BY <2>3 DEF roundVars, detectorVars, ContestedEscalates, ContestedThroughout, CurrentView, Rows
  <2> QED BY <2>1, <2>2, <2>3 DEF RoundsNext
<1> QED
  BY <1>1, <1>2, FullStreak, StreakInvHolds, PTL DEF RoundsSpec
-----------------------------------------------------------------------------
(* The search for cycles *)

Graph == SUBSET (Agent \X Agent)

\* A set that holds x's successors and those of its members holds what x reaches.
ClosedUnder(E, x, S) == \A e \in E : e[1] = x \/ e[1] \in S => e[2] \in S

LEMMA ReachesStaysIn ==
  ASSUME NEW E, NEW x, NEW y, Reaches(E, x, y), NEW S \in SUBSET Agent, ClosedUnder(E, x, S)
  PROVE  y \in S
  BY DEF Reaches, ClosedUnder

\* A wait is a way.
LEMMA EdgeReaches ==
  ASSUME NEW E, NEW x, NEW y, <<x, y>> \in E
  PROVE  Reaches(E, x, y)
<1> SUFFICES ASSUME NEW S \in SUBSET Agent, \A e \in E : e[1] = x \/ e[1] \in S => e[2] \in S
             PROVE  y \in S
  BY DEF Reaches
<1>1. <<x, y>>[1] = x /\ <<x, y>>[2] = y
  OBVIOUS
<1> QED
  BY <1>1

\* Ways join up.
LEMMA ReachesOn ==
  ASSUME NEW E, NEW x, NEW y, NEW z, Reaches(E, x, y), Reaches(E, y, z)
  PROVE  Reaches(E, x, z)
<1> SUFFICES ASSUME NEW S \in SUBSET Agent, \A e \in E : e[1] = x \/ e[1] \in S => e[2] \in S
             PROVE  z \in S
  BY DEF Reaches
<1>1. y \in S
  BY DEF Reaches
<1>2. \A e \in E : e[1] = y \/ e[1] \in S => e[2] \in S
  BY <1>1
<1> QED
  BY <1>2 DEF Reaches

\* A way that is not empty starts with an edge.
LEMMA ReachesFirst ==
  ASSUME NEW E \in Graph, NEW x, NEW y, Reaches(E, x, y)
  PROVE  \E e \in E : e[1] = x /\ (e[2] = y \/ Reaches(E, e[2], y))
<1> SUFFICES ASSUME \A e \in E : e[1] = x => e[2] # y /\ ~Reaches(E, e[2], y)
             PROVE  FALSE
  OBVIOUS
<1> DEFINE S == {z \in Agent : \E e \in E : e[1] = x /\ (e[2] = z \/ Reaches(E, e[2], z))}
<1>1. ASSUME NEW e \in E, e[1] = x \/ e[1] \in S PROVE e[2] \in S
  <2>1. e[2] \in Agent /\ e = <<e[1], e[2]>>
    BY DEF Graph
  <2>2. CASE e[1] = x
    BY <2>1, <2>2
  <2>3. CASE e[1] \in S
    <3>1. PICK d \in E : d[1] = x /\ (d[2] = e[1] \/ Reaches(E, d[2], e[1]))
      BY <2>3
    <3>2. Reaches(E, e[1], e[2])
      BY <2>1, EdgeReaches
    <3>3. Reaches(E, d[2], e[2])
      BY <3>1, <3>2, ReachesOn
    <3> QED BY <2>1, <3>1, <3>3
  <2> QED BY <1>1, <2>2, <2>3
<1>2. y \in S
  BY <1>1, ReachesStaysIn DEF ClosedUnder
<1> QED
  BY <1>2

\* A way from x to y, if only the empty one.
Leads(E, x, y) == x = y \/ Reaches(E, x, y)

LEMMA LeadsOn ==
  ASSUME NEW E, NEW x, NEW y, NEW z, Leads(E, x, y), Leads(E, y, z)
  PROVE  Leads(E, x, z)
  BY ReachesOn DEF Leads
-----------------------------------------------------------------------------
(* The invariant of the search *)

Frame == [node : Agent, todo : SUBSET Agent]
SearchState == [index : [Agent -> Nat], low : [Agent -> Nat], stack : Seq(Agent),
                work : Seq(Frame), cycles : SUBSET (SUBSET Agent)]

Met(s) == {x \in Agent : s.index[x] > 0}
Stacked(s) == {x \in Agent : OnStack(s, x)}
\* Nodes whose component has been found.
Closed(s) == Met(s) \ Stacked(s)

\* An edge that has been looked at, or need not be.
Waiting(s, e) == \E i \in 1..Len(s.work) : s.work[i].node = e[1] /\ e[2] \in s.work[i].todo
LookedAt(s, e) == s.index[e[1]] > 0 /\ ~Waiting(s, e)

\* Numbers tell nodes apart, and the stack and the path are in their order.
Numbered(s) ==
  /\ \A x \in Agent : s.index[x] <= Cardinality(Met(s))
  /\ \A x, y \in Met(s) : s.index[x] = s.index[y] => x = y
  /\ \A i \in 1..Len(s.stack) : s.index[s.stack[i]] > 0
  /\ \A i, j \in 1..Len(s.stack) : i < j => s.index[s.stack[i]] < s.index[s.stack[j]]
PathIsStacked(E, s) ==
  /\ \A i \in 1..Len(s.work) : /\ s.work[i].node \in Stacked(s)
                               /\ \A y \in s.work[i].todo : <<s.work[i].node, y>> \in E
  /\ \A i, j \in 1..Len(s.work) : i < j => s.index[s.work[i].node] < s.index[s.work[j].node]

\* Whatever was closed leads nowhere else, and whatever was looked at was met,
\* but perhaps for the nodes of U.
ClosedIsClosed(E, s) == \A e \in E : e[1] \in Closed(s) => e[2] \in Closed(s)
LookedAtAreMet(E, s, U) == \A e \in E : LookedAt(s, e) => e[2] \in Met(s) \union U

\* On the stack every node leads to the later ones and back to some node of the
\* path that is not later.
StackLeadsOn(E, s) ==
  \A x, y \in Stacked(s) : s.index[x] <= s.index[y] => Leads(E, x, y)
StackLeadsBack(E, s) ==
  \A x \in Stacked(s) : \E i \in 1..Len(s.work) :
    s.index[s.work[i].node] <= s.index[x] /\ Leads(E, x, s.work[i].node)

\* A low link is the number of a stacked node that can be reached; for a node of
\* the path no edge looked at so far, of itself or of what is closed below it,
\* leads to a stacked node with a smaller one.
LowIsReached(E, s) ==
  \A x \in Stacked(s) :
    /\ s.low[x] <= s.index[x]
    /\ \E y \in Stacked(s) : s.index[y] = s.low[x] /\ Leads(E, x, y)
Under(s, i, x) ==
  /\ s.index[s.work[i].node] <= s.index[x]
  /\ \A j \in 1..Len(s.work) : j > i => s.index[x] < s.index[s.work[j].node]
LowIsLeast(E, s) ==
  \A e \in E, i \in 1..Len(s.work) :
    LookedAt(s, e) /\ e[1] \in Stacked(s) /\ e[2] \in Stacked(s) /\ Under(s, i, e[1])
      => s.low[s.work[i].node] <= s.index[e[2]]

\* The cycles recorded so far are the components all of whose nodes are closed.
ComponentsIn(E, S) == {C \in Components(E) : C \subseteq S}
CyclesAreClosed(E, s) == s.cycles = ComponentsIn(E, Closed(s))

\* The invariant of the search, up to edges to U that are being looked at.
SearchInvBut(E, s, U) ==
  /\ s \in SearchState
  /\ Numbered(s)
  /\ PathIsStacked(E, s)
  /\ ClosedIsClosed(E, s)
  /\ LookedAtAreMet(E, s, U)
  /\ StackLeadsOn(E, s)
  /\ StackLeadsBack(E, s)
  /\ LowIsReached(E, s)
  /\ LowIsLeast(E, s)
  /\ CyclesAreClosed(E, s)
SearchInv(E, s) == SearchInvBut(E, s, {})
-----------------------------------------------------------------------------
(* A node is met *)

\* What meeting x makes of the state, field by field.
Successors(E, x) == {y \in Agent : <<x, y>> \in E}
MeetsAs(E, s, x, t) ==
  /\ t.index[x] = Cardinality(Met(s)) + 1 /\ t.low[x] = t.index[x]
  /\ \A z \in Agent \ {x} : t.index[z] = s.index[z] /\ t.low[z] = s.low[z]
  /\ Len(t.stack) = Len(s.stack) + 1
  /\ t.stack[Len(s.stack) + 1] = x
  /\ \A i \in 1..Len(s.stack) : t.stack[i] = s.stack[i]
  /\ Len(t.work) = Len(s.work) + 1
  /\ t.work[Len(s.work) + 1].node = x /\ t.work[Len(s.work) + 1].todo = Successors(E, x)
  /\ \A i \in 1..Len(s.work) : t.work[i] = s.work[i]
  /\ t.cycles = s.cycles

\* Nodes can be counted.
LEMMA MetIsFinite ==
  ASSUME NEW s PROVE IsFiniteSet(Met(s)) /\ Cardinality(Met(s)) \in Nat
<1>1. Met(s) \in SUBSET Agent
  BY DEF Met
<1>2. IsFiniteSet(Met(s))
  BY <1>1, FS_Subset, AgentsAssumption
<1> QED BY <1>2, FS_CardinalityType

\* Meet does that.
LEMMA MeetEffect ==
  ASSUME NEW E, NEW s \in SearchState, NEW x \in Agent
  PROVE  Meet(E, s, x) \in SearchState /\ MeetsAs(E, s, x, Meet(E, s, x))
<1> DEFINE n == Cardinality(Met(s)) + 1
           frame == [node |-> x, todo |-> Successors(E, x)]
<1>1. /\ s.index \in [Agent -> Nat] /\ s.low \in [Agent -> Nat] /\ s.stack \in Seq(Agent)
      /\ s.work \in Seq(Frame) /\ s.cycles \in SUBSET (SUBSET Agent)
  BY DEF SearchState
<1>2. n \in Nat
  BY MetIsFinite
<1>3. frame \in Frame
  BY DEF Frame, Successors
<1> DEFINE index == [s.index EXCEPT ![x] = n]
           low == [s.low EXCEPT ![x] = n]
           stack == Append(s.stack, x)
           work == Append(s.work, frame)
<1>4. Meet(E, s, x) = [index |-> index, low |-> low, stack |-> stack, work |-> work,
                       cycles |-> s.cycles]
  <2>1. 1 + Cardinality({y \in Agent : s.index[y] > 0}) = n
    BY <1>2, MetIsFinite DEF Met
  <2>2. s = [index |-> s.index, low |-> s.low, stack |-> s.stack, work |-> s.work,
             cycles |-> s.cycles]
    BY DEF SearchState
  <2>3. Meet(E, s, x) = [s EXCEPT !.index[x] = n, !.low[x] = n, !.stack = stack, !.work = work]
    BY <2>1 DEF Meet, Successors
  <2> HIDE DEF n, stack, work
  <2> QED BY <2>2, <2>3
<1>5. /\ index \in [Agent -> Nat] /\ index[x] = n
      /\ \A z \in Agent \ {x} : index[z] = s.index[z]
  <2> HIDE DEF n
  <2> QED BY <1>1, <1>2
<1>6. /\ low \in [Agent -> Nat] /\ low[x] = n
      /\ \A z \in Agent \ {x} : low[z] = s.low[z]
  <2> HIDE DEF n
  <2> QED BY <1>1, <1>2
<1>7. /\ stack \in Seq(Agent) /\ Len(stack) = Len(s.stack) + 1
      /\ stack[Len(s.stack) + 1] = x
      /\ \A i \in 1..Len(s.stack) : stack[i] = s.stack[i]
  BY <1>1, AppendProperties
<1>8. /\ work \in Seq(Frame) /\ Len(work) = Len(s.work) + 1
      /\ work[Len(s.work) + 1] = frame
      /\ \A i \in 1..Len(s.work) : work[i] = s.work[i]
  <2> HIDE DEF frame
  <2> QED BY <1>1, <1>3, AppendProperties
<1> HIDE DEF index, low, stack, work, n
<1> QED
  BY <1>1, <1>4, <1>5, <1>6, <1>7, <1>8 DEF MeetsAs, SearchState, n

\* Facts of a typed state that the provers need in many places.
LEMMA SearchFields ==
  ASSUME NEW s \in SearchState
  PROVE  /\ \A x \in Agent : s.index[x] \in Nat /\ s.low[x] \in Nat
         /\ Len(s.stack) \in Nat /\ DOMAIN s.stack = 1..Len(s.stack)
         /\ \A i \in 1..Len(s.stack) : s.stack[i] \in Agent
         /\ Len(s.work) \in Nat
         /\ \A i \in 1..Len(s.work) : s.work[i].node \in Agent /\ s.work[i].todo \in SUBSET Agent
<1>1. /\ s.index \in [Agent -> Nat] /\ s.low \in [Agent -> Nat] /\ s.stack \in Seq(Agent)
      /\ s.work \in Seq(Frame)
  BY DEF SearchState
<1>2. \A i \in 1..Len(s.work) : s.work[i] \in Frame
  BY <1>1
<1> QED BY <1>1, <1>2 DEF Frame

\* A new node is the last on the stack, leads nowhere yet, and everything on
\* the stack leads to it.
LEMMA MeetKeeps ==
  ASSUME NEW E \in Graph, NEW s, NEW U, NEW x \in Agent, NEW t,
         SearchInvBut(E, s, U), U \subseteq {x}, s.index[x] = 0,
         \A z \in Stacked(s) : Leads(E, z, x),
         t \in SearchState, MeetsAs(E, s, x, t)
  PROVE  SearchInv(E, t)
<1> DEFINE n == Cardinality(Met(s))
           w == Len(s.work)
           h == Len(s.stack)
<1>1. s \in SearchState
  BY DEF SearchInvBut
<1>s. /\ \A z \in Agent : s.index[z] \in Nat /\ s.low[z] \in Nat
      /\ h \in Nat /\ DOMAIN s.stack = 1..h /\ \A i \in 1..h : s.stack[i] \in Agent
      /\ w \in Nat
      /\ \A i \in 1..w : s.work[i].node \in Agent /\ s.work[i].todo \in SUBSET Agent
  BY <1>1, SearchFields
<1>t. DOMAIN t.stack = 1..Len(t.stack)
  BY SearchFields
<1>n. n \in Nat
  BY MetIsFinite
<1>2. /\ t.index[x] = n + 1 /\ t.low[x] = n + 1
      /\ \A z \in Agent \ {x} : t.index[z] = s.index[z] /\ t.low[z] = s.low[z]
      /\ Len(t.stack) = h + 1 /\ t.stack[h + 1] = x
      /\ \A i \in 1..h : t.stack[i] = s.stack[i]
      /\ Len(t.work) = w + 1
      /\ t.work[w + 1].node = x /\ t.work[w + 1].todo = Successors(E, x)
      /\ \A i \in 1..w : t.work[i] = s.work[i]
      /\ t.cycles = s.cycles
  BY DEF MeetsAs
<1> HIDE DEF w, h, n
<1>3. /\ \A z \in Agent : s.index[z] <= n
      /\ \A i \in 1..h : s.index[s.stack[i]] > 0
  BY DEF SearchInvBut, Numbered, n, h
<1>4. Met(t) = Met(s) \union {x}
  BY <1>2, <1>n DEF Met
<1>5. Cardinality(Met(t)) = n + 1
  <2>1. x \notin Met(s)
    BY DEF Met
  <2>2. IsFiniteSet(Met(s))
    BY MetIsFinite
  <2>3. Cardinality(Met(s) \union {x}) = Cardinality(Met(s)) + 1
    BY <2>1, <2>2, FS_AddElement
  <2> QED BY <1>4, <2>3 DEF n
<1>6. x \notin Stacked(s)
  BY <1>3, <1>s DEF Stacked, OnStack
<1>7. Stacked(t) = Stacked(s) \union {x}
  <2>1. ASSUME NEW z \in Agent PROVE OnStack(t, z) <=> OnStack(s, z) \/ z = x
    <3>1. ASSUME OnStack(t, z) PROVE OnStack(s, z) \/ z = x
      BY <3>1, <1>2, <1>s, <1>t DEF OnStack
    <3>2. ASSUME OnStack(s, z) PROVE OnStack(t, z)
      <4>1. PICK i \in 1..h : s.stack[i] = z
        BY <3>2, <1>s DEF OnStack
      <4>2. i \in 1..h + 1 /\ t.stack[i] = z
        BY <4>1, <1>2, <1>s
      <4> QED BY <4>2, <1>2, <1>t DEF OnStack
    <3>3. OnStack(t, x)
      BY <1>2, <1>s, <1>t DEF OnStack
    <3> QED BY <3>1, <3>2, <3>3
  <2> QED BY <2>1 DEF Stacked
<1>8. Closed(t) = Closed(s)
  BY <1>4, <1>6, <1>7 DEF Closed, Met
<1>9. \A z \in Stacked(s) : z \in Agent /\ z # x /\ s.index[z] > 0 /\ t.index[z] = s.index[z] /\ t.low[z] = s.low[z]
  BY <1>2, <1>3, <1>6, <1>s DEF Stacked, OnStack
<1>a. \A i \in 1..h : s.stack[i] \in Stacked(s)
  BY <1>s DEF Stacked, OnStack, h
<1>b. \A z \in Stacked(s) : t.index[z] \in Nat /\ t.index[z] <= n
  BY <1>3, <1>9, <1>s
<1>10. \A i \in 1..w : s.work[i].node \in Stacked(s)
  BY DEF SearchInvBut, PathIsStacked, w
<1>11. ASSUME NEW e \in E, LookedAt(t, e) PROVE e[1] # x /\ LookedAt(s, e)
  <2>1. e = <<e[1], e[2]>> /\ e[1] \in Agent /\ e[2] \in Agent
    BY DEF Graph
  <2>2. e[1] # x
    <3> SUFFICES ASSUME e[1] = x PROVE FALSE
      OBVIOUS
    <3>1. e[2] \in t.work[w + 1].todo
      BY <1>2, <2>1 DEF Successors
    <3> QED BY <1>11, <1>2, <1>s, <3>1 DEF LookedAt, Waiting
  <2>3. ASSUME Waiting(s, e) PROVE Waiting(t, e)
    <3>1. PICK i \in 1..w : s.work[i].node = e[1] /\ e[2] \in s.work[i].todo
      BY <2>3 DEF Waiting, w
    <3>2. i \in 1..w + 1 /\ t.work[i] = s.work[i]
      BY <1>2, <1>s
    <3> QED BY <1>2, <3>1, <3>2 DEF Waiting
  <2> QED BY <1>2, <1>11, <2>1, <2>2, <2>3 DEF LookedAt
<1>12. Numbered(t)
  <2>1. \A z \in Agent : t.index[z] <= n + 1
    BY <1>2, <1>3, <1>s, <1>n
  <2>2. \A y, z \in Met(t) : t.index[y] = t.index[z] => y = z
    <3> SUFFICES ASSUME NEW y \in Met(t), NEW z \in Met(t), t.index[y] = t.index[z] PROVE y = z
      OBVIOUS
    <3>1. \A a, b \in Met(s) : s.index[a] = s.index[b] => a = b
      BY DEF SearchInvBut, Numbered
    <3>2. \A a \in Met(s) : a \in Agent \ {x} /\ s.index[a] # n + 1
      BY <1>3, <1>n, <1>s DEF Met
    <3> QED BY <1>2, <1>4, <3>1, <3>2
  <2>3. \A i \in 1..h + 1 : t.index[t.stack[i]] > 0
    <3>1. \A i \in 1..h : t.index[t.stack[i]] > 0
      BY <1>2, <1>9, <1>a
    <3>2. t.index[t.stack[h + 1]] > 0
      BY <1>2, <1>n
    <3> QED BY <1>s, <3>1, <3>2
  <2>4. \A i, j \in 1..h + 1 : i < j => t.index[t.stack[i]] < t.index[t.stack[j]]
    <3> SUFFICES ASSUME NEW i \in 1..h + 1, NEW j \in 1..h + 1, i < j
                 PROVE  t.index[t.stack[i]] < t.index[t.stack[j]]
      OBVIOUS
    <3>0. i \in 1..h /\ (j \in 1..h \/ j = h + 1)
      <4>1. h \in Nat
        BY <1>s
      <4> QED BY <4>1
    <3>1. t.index[t.stack[i]] = s.index[s.stack[i]] /\ t.index[t.stack[i]] \in Nat /\ t.index[t.stack[i]] <= n
      BY <1>2, <1>9, <1>a, <1>b, <3>0
    <3>2. CASE j = h + 1
      <4>1. t.index[t.stack[j]] = n + 1
        BY <1>2, <3>2
      <4> QED BY <1>n, <3>1, <4>1
    <3>3. CASE j \in 1..h
      <4>1. t.index[t.stack[j]] = s.index[s.stack[j]]
        BY <1>2, <1>9, <1>a, <3>3
      <4>2. s.index[s.stack[i]] < s.index[s.stack[j]]
        BY <3>0, <3>3 DEF SearchInvBut, Numbered, h
      <4> QED BY <3>1, <4>1, <4>2
    <3> QED BY <3>0, <3>2, <3>3
  <2> QED BY <1>2, <1>5, <2>1, <2>2, <2>3, <2>4 DEF Numbered
<1>13. PathIsStacked(E, t)
  <2>1. \A i \in 1..w + 1 : /\ t.work[i].node \in Stacked(t)
                            /\ \A y \in t.work[i].todo : <<t.work[i].node, y>> \in E
    <3> SUFFICES ASSUME NEW i \in 1..w + 1
                 PROVE  /\ t.work[i].node \in Stacked(t)
                        /\ \A y \in t.work[i].todo : <<t.work[i].node, y>> \in E
      OBVIOUS
    <3>1. CASE i \in 1..w
      <4>1. \A y \in s.work[i].todo : <<s.work[i].node, y>> \in E
        BY <3>1 DEF SearchInvBut, PathIsStacked, w
      <4> QED BY <1>2, <1>7, <1>10, <3>1, <4>1
    <3>2. CASE i = w + 1
      BY <1>2, <1>7, <3>2 DEF Successors
    <3> QED BY <3>1, <3>2, <1>s
  <2>2. \A i, j \in 1..w + 1 : i < j => t.index[t.work[i].node] < t.index[t.work[j].node]
    <3> SUFFICES ASSUME NEW i \in 1..w + 1, NEW j \in 1..w + 1, i < j
                 PROVE  t.index[t.work[i].node] < t.index[t.work[j].node]
      OBVIOUS
    <3>0. i \in 1..w /\ (j \in 1..w \/ j = w + 1)
      <4>1. w \in Nat
        BY <1>s
      <4> QED BY <4>1
    <3>1. /\ t.index[t.work[i].node] = s.index[s.work[i].node]
          /\ t.index[t.work[i].node] \in Nat /\ t.index[t.work[i].node] <= n
      BY <1>2, <1>9, <1>10, <1>b, <3>0
    <3>2. CASE j = w + 1
      <4>1. t.index[t.work[j].node] = n + 1
        BY <1>2, <3>2
      <4> QED BY <1>n, <3>1, <4>1
    <3>3. CASE j \in 1..w
      <4>1. t.index[t.work[j].node] = s.index[s.work[j].node]
        BY <1>2, <1>9, <1>10, <3>3
      <4>2. s.index[s.work[i].node] < s.index[s.work[j].node]
        BY <3>0, <3>3 DEF SearchInvBut, PathIsStacked, w
      <4> QED BY <3>1, <4>1, <4>2
    <3> QED BY <3>0, <3>2, <3>3
  <2> QED BY <1>2, <2>1, <2>2 DEF PathIsStacked
<1>14. ClosedIsClosed(E, t)
  BY <1>8 DEF SearchInvBut, ClosedIsClosed
<1>15. LookedAtAreMet(E, t, {})
  BY <1>4, <1>11 DEF SearchInvBut, LookedAtAreMet
<1>16. StackLeadsOn(E, t)
  <2> SUFFICES ASSUME NEW y \in Stacked(t), NEW z \in Stacked(t), t.index[y] <= t.index[z]
               PROVE  Leads(E, y, z)
    BY DEF StackLeadsOn
  <2>1. CASE y = x
    <3>1. z \notin Stacked(s)
      BY <1>2, <1>b, <1>n, <2>1
    <3> QED BY <1>7, <2>1, <3>1 DEF Leads
  <2>2. CASE y \in Stacked(s) /\ z = x
    BY <2>2
  <2>3. CASE y \in Stacked(s) /\ z \in Stacked(s)
    BY <1>9, <2>3 DEF SearchInvBut, StackLeadsOn
  <2> QED BY <1>7, <2>1, <2>2, <2>3
<1>17. StackLeadsBack(E, t)
  <2> SUFFICES ASSUME NEW z \in Stacked(t)
               PROVE  \E i \in 1..w + 1 : t.index[t.work[i].node] <= t.index[z] /\ Leads(E, z, t.work[i].node)
    BY <1>2 DEF StackLeadsBack
  <2>1. CASE z = x
    BY <1>2, <1>n, <1>s, <2>1 DEF Leads
  <2>2. CASE z \in Stacked(s)
    <3>1. PICK i \in 1..w : s.index[s.work[i].node] <= s.index[z] /\ Leads(E, z, s.work[i].node)
      BY <2>2 DEF SearchInvBut, StackLeadsBack, w
    <3>2. i \in 1..w + 1 /\ t.work[i] = s.work[i]
      <4>1. w \in Nat
        BY <1>s
      <4> QED BY <1>2, <4>1
    <3>3. t.index[z] = s.index[z] /\ t.index[s.work[i].node] = s.index[s.work[i].node]
      BY <1>9, <1>10, <2>2
    <3> QED BY <3>1, <3>2, <3>3
  <2> QED BY <1>7, <2>1, <2>2
<1>18. LowIsReached(E, t)
  <2> SUFFICES ASSUME NEW z \in Stacked(t)
               PROVE  /\ t.low[z] <= t.index[z]
                      /\ \E y \in Stacked(t) : t.index[y] = t.low[z] /\ Leads(E, z, y)
    BY DEF LowIsReached
  <2>1. CASE z = x
    BY <1>2, <1>7, <1>n, <2>1 DEF Leads
  <2>2. CASE z \in Stacked(s)
    <3>1. /\ s.low[z] <= s.index[z]
          /\ \E y \in Stacked(s) : s.index[y] = s.low[z] /\ Leads(E, z, y)
      BY <2>2 DEF SearchInvBut, LowIsReached
    <3> QED BY <1>7, <1>9, <2>2, <3>1
  <2> QED BY <1>7, <2>1, <2>2
<1>19. LowIsLeast(E, t)
  <2> SUFFICES ASSUME NEW e \in E, NEW i \in 1..w + 1, LookedAt(t, e),
                      e[1] \in Stacked(t), e[2] \in Stacked(t), Under(t, i, e[1])
               PROVE  t.low[t.work[i].node] <= t.index[e[2]]
    BY <1>2 DEF LowIsLeast
  <2>1. e[1] \in Stacked(s) /\ LookedAt(s, e)
    BY <1>7, <1>11
  <2>2. i \in 1..w
    <3>1. i # w + 1
      BY <1>2, <1>b, <1>n, <2>1 DEF Under
    <3> QED BY <3>1, <1>s
  <2>3. Under(s, i, e[1])
    <3>0. \A j \in 1..w : j \in 1..w + 1
      BY <1>s
    <3>1. \A j \in 1..w : j \in 1..w + 1 /\ t.index[t.work[j].node] = s.index[s.work[j].node]
      BY <1>2, <1>9, <1>10, <3>0
    <3>2. t.index[e[1]] = s.index[e[1]]
      BY <1>9, <2>1
    <3>3. \A j \in 1..w : j > i => s.index[e[1]] < s.index[s.work[j].node]
      BY <1>2, <3>1, <3>2 DEF Under
    <3>4. s.index[s.work[i].node] <= s.index[e[1]]
      BY <2>2, <3>1, <3>2 DEF Under
    <3> QED BY <3>3, <3>4 DEF Under, w
  <2>4. t.work[i].node = s.work[i].node /\ t.low[s.work[i].node] = s.low[s.work[i].node]
    BY <1>2, <1>9, <1>10, <2>2
  <2>5. CASE e[2] = x
    <3>1. s.low[s.work[i].node] <= s.index[s.work[i].node]
      BY <1>10, <2>2 DEF SearchInvBut, LowIsReached
    <3>2. /\ s.index[s.work[i].node] \in Nat /\ s.low[s.work[i].node] \in Nat
          /\ s.index[s.work[i].node] <= n
      BY <1>3, <1>s, <2>2
    <3> QED BY <1>2, <1>n, <2>4, <2>5, <3>1, <3>2
  <2>6. CASE e[2] \in Stacked(s)
    <3>1. s.low[s.work[i].node] <= s.index[e[2]]
      BY <2>1, <2>2, <2>3, <2>6 DEF SearchInvBut, LowIsLeast, w
    <3> QED BY <1>9, <2>4, <2>6, <3>1
  <2> QED BY <1>7, <2>5, <2>6
<1>20. CyclesAreClosed(E, t)
  BY <1>2, <1>8 DEF SearchInvBut, CyclesAreClosed
<1> QED
  BY <1>12, <1>13, <1>14, <1>15, <1>16, <1>17, <1>18, <1>19, <1>20
  DEF SearchInv, SearchInvBut

-----------------------------------------------------------------------------
(* A child is looked at *)

\* y is struck off what the last node of the path, x, has still to look at, and
\* x has the low link l.
Looked(s, x, y, l, t) ==
  /\ t.index = s.index /\ t.stack = s.stack /\ t.cycles = s.cycles
  /\ t.low[x] = l /\ \A z \in Agent \ {x} : t.low[z] = s.low[z]
  /\ Len(t.work) = Len(s.work)
  /\ \A i \in 1..Len(s.work) : t.work[i].node = s.work[i].node
  /\ \A i \in 1..Len(s.work) - 1 : t.work[i].todo = s.work[i].todo
  /\ t.work[Len(s.work)].todo = s.work[Len(s.work)].todo \ {y}

\* Striking y off does that, with the old low link of x or with another.
LEMMA LookEffect ==
  ASSUME NEW s \in SearchState, Len(s.work) > 0, NEW y, NEW x \in Agent, NEW l \in Nat
  PROVE  LET rest == [s EXCEPT !.work[Len(s.work)].todo = @ \ {y}]
             t == [rest EXCEPT !.low[x] = l]
         IN /\ rest \in SearchState /\ Looked(s, x, y, s.low[x], rest)
            /\ t \in SearchState /\ Looked(s, x, y, l, t)
<1> DEFINE w == Len(s.work)
           f == s.work[w]
           frame == [f EXCEPT !.todo = @ \ {y}]
           work == [s.work EXCEPT ![w] = frame]
           rest == [s EXCEPT !.work[w].todo = @ \ {y}]
           low == [s.low EXCEPT ![x] = l]
           t == [rest EXCEPT !.low[x] = l]
<1>1. /\ s.index \in [Agent -> Nat] /\ s.low \in [Agent -> Nat] /\ s.stack \in Seq(Agent)
      /\ s.work \in Seq(Frame) /\ s.cycles \in SUBSET (SUBSET Agent)
      /\ s = [index |-> s.index, low |-> s.low, stack |-> s.stack, work |-> s.work,
              cycles |-> s.cycles]
  BY DEF SearchState
<1>2. w \in Nat /\ w \in 1..w /\ DOMAIN s.work = 1..w
  BY <1>1
<1>3. f \in Frame
  BY <1>1, <1>2
<1>4. frame \in Frame /\ frame.node = f.node /\ frame.todo = f.todo \ {y}
  BY <1>3 DEF Frame
<1> HIDE DEF frame
<1>5. /\ work \in Seq(Frame) /\ Len(work) = w
      /\ \A i \in 1..w : work[i] = IF i = w THEN frame ELSE s.work[i]
  BY <1>1, <1>2, <1>4
<1>6. rest = [index |-> s.index, low |-> s.low, stack |-> s.stack, work |-> work,
              cycles |-> s.cycles]
  <2>1. rest = [s EXCEPT !.work = work]
    BY DEF frame
  <2> HIDE DEF work, rest
  <2> QED BY <1>1, <2>1
<1>7. low \in [Agent -> Nat] /\ low[x] = l /\ \A z \in Agent \ {x} : low[z] = s.low[z]
  BY <1>1
<1>8. t = [index |-> s.index, low |-> low, stack |-> s.stack, work |-> work,
           cycles |-> s.cycles]
  <2>1. t = [rest EXCEPT !.low = [rest.low EXCEPT ![x] = l]]
    OBVIOUS
  <2> HIDE DEF work, rest
  <2>2. rest.low = s.low
    BY <1>6
  <2>3. t = [rest EXCEPT !.low = low]
    BY <2>1, <2>2
  <2> HIDE DEF low, t
  <2> QED BY <1>6, <2>3
<1> HIDE DEF work, rest, low, t, f
<1>9. /\ \A i \in 1..w : work[i].node = s.work[i].node
      /\ \A i \in 1..w - 1 : work[i].todo = s.work[i].todo
      /\ work[w].todo = s.work[w].todo \ {y}
  BY <1>2, <1>4, <1>5 DEF f
<1>10. rest \in SearchState /\ t \in SearchState
  BY <1>1, <1>5, <1>6, <1>7, <1>8 DEF SearchState
<1>11. Looked(s, x, y, s.low[x], rest)
  BY <1>1, <1>5, <1>6, <1>9 DEF Looked
<1>12. Looked(s, x, y, l, t)
  BY <1>1, <1>5, <1>7, <1>8, <1>9 DEF Looked
<1> QED
  BY <1>10, <1>11, <1>12 DEF rest, t

\* What the search knows of the last node of the path.
LEMMA TopOfPath ==
  ASSUME NEW E \in Graph, NEW s, NEW U, SearchInvBut(E, s, U), Len(s.work) > 0
  PROVE  LET x == s.work[Len(s.work)].node
         IN /\ x \in Agent /\ x \in Stacked(s) /\ s.index[x] > 0 /\ x \in Met(s)
            /\ \A i \in 1..Len(s.work) - 1 : s.index[s.work[i].node] < s.index[x]
            /\ \A z \in Stacked(s) : Leads(E, z, x)
            /\ s.low[x] <= s.index[x]
<1> DEFINE w == Len(s.work)
           x == s.work[w].node
<1>1. s \in SearchState
  BY DEF SearchInvBut
<1>2. /\ \A z \in Agent : s.index[z] \in Nat /\ s.low[z] \in Nat
      /\ Len(s.stack) \in Nat /\ DOMAIN s.stack = 1..Len(s.stack)
      /\ w \in Nat
      /\ \A i \in 1..w : s.work[i].node \in Agent
  BY <1>1, SearchFields
<1>3. w \in 1..w /\ \A i \in 1..w - 1 : i \in 1..w /\ i < w
  BY <1>2
<1>4. x \in Agent /\ x \in Stacked(s)
  BY <1>2, <1>3 DEF SearchInvBut, PathIsStacked
<1>5. s.index[x] > 0 /\ x \in Met(s)
  BY <1>2, <1>4 DEF SearchInvBut, Numbered, Stacked, OnStack, Met
<1>6. \A i \in 1..w - 1 : s.index[s.work[i].node] < s.index[x]
  BY <1>3 DEF SearchInvBut, PathIsStacked
<1>7. ASSUME NEW z \in Stacked(s) PROVE Leads(E, z, x)
  <2>1. PICK i \in 1..w : Leads(E, z, s.work[i].node)
    BY DEF SearchInvBut, StackLeadsBack
  <2>2. s.work[i].node \in Stacked(s) /\ s.index[s.work[i].node] <= s.index[x]
    <3>1. s.work[i].node \in Stacked(s)
      BY DEF SearchInvBut, PathIsStacked
    <3>2. i = w \/ i \in 1..w - 1
      BY <1>2
    <3> QED BY <1>2, <1>4, <1>6, <3>1, <3>2 DEF Stacked
  <2>3. Leads(E, s.work[i].node, x)
    BY <1>4, <2>2 DEF SearchInvBut, StackLeadsOn
  <2> QED BY <2>1, <2>3, LeadsOn
<1>8. s.low[x] <= s.index[x]
  BY <1>4 DEF SearchInvBut, LowIsReached
<1> QED
  BY <1>4, <1>5, <1>6, <1>7, <1>8

\* A look at a stacked node lowers the low link of x to its number at least.
LEMMA LookKeeps ==
  ASSUME NEW E \in Graph, NEW s, NEW t, NEW U, NEW y, NEW l \in Nat,
         SearchInv(E, s), Len(s.work) > 0, y \in s.work[Len(s.work)].todo,
         t \in SearchState, Looked(s, s.work[Len(s.work)].node, y, l, t),
         y \in Met(s) \union U,
         \/ l = s.low[s.work[Len(s.work)].node]
         \/ y \in Stacked(s) /\ l = s.index[y] /\ l < s.low[s.work[Len(s.work)].node],
         y \in Stacked(s) => l <= s.index[y]
  PROVE  SearchInvBut(E, t, U)
<1> DEFINE w == Len(s.work)
           x == s.work[w].node
<1>1. s \in SearchState /\ SearchInvBut(E, s, {})
  BY DEF SearchInvBut, SearchInv
<1>2. /\ \A z \in Agent : s.index[z] \in Nat /\ s.low[z] \in Nat
      /\ w \in Nat
      /\ \A i \in 1..w : s.work[i].node \in Agent /\ s.work[i].todo \in SUBSET Agent
  BY <1>1, SearchFields
<1>3. /\ x \in Agent /\ x \in Stacked(s) /\ s.index[x] > 0 /\ x \in Met(s)
      /\ \A i \in 1..w - 1 : s.index[s.work[i].node] < s.index[x]
      /\ s.low[x] <= s.index[x]
  BY <1>1, TopOfPath
<1>4. /\ t.index = s.index /\ t.stack = s.stack /\ t.cycles = s.cycles
      /\ t.low[x] = l /\ \A z \in Agent \ {x} : t.low[z] = s.low[z]
      /\ Len(t.work) = w
      /\ \A i \in 1..w : t.work[i].node = s.work[i].node
      /\ \A i \in 1..w - 1 : t.work[i].todo = s.work[i].todo
      /\ t.work[w].todo = s.work[w].todo \ {y}
  BY DEF Looked
<1>5. /\ l = s.low[x] \/ (y \in Stacked(s) /\ l = s.index[y] /\ l < s.low[x])
      /\ y \in Stacked(s) => l <= s.index[y]
      /\ y \in s.work[w].todo
      /\ w \in 1..w
  BY <1>2
<1>6. <<x, y>> \in E /\ \A i \in 1..w : s.work[i].node \in Stacked(s)
  BY <1>1, <1>5 DEF SearchInvBut, PathIsStacked
<1> HIDE DEF w, x
<1>7. Met(t) = Met(s) /\ Stacked(t) = Stacked(s) /\ Closed(t) = Closed(s)
  BY <1>4 DEF Met, Stacked, OnStack, Closed
<1>8. ASSUME NEW e \in E, LookedAt(t, e), e # <<x, y>> PROVE LookedAt(s, e)
  <2>1. e = <<e[1], e[2]>>
    BY DEF Graph
  <2> SUFFICES ASSUME NEW i \in 1..w, s.work[i].node = e[1], e[2] \in s.work[i].todo
               PROVE  Waiting(t, e)
    BY <1>4, <1>8 DEF LookedAt, Waiting, w
  <2>2. CASE i = w
    <3>1. e[2] # y
      BY <1>8, <2>1, <2>2 DEF x
    <3> QED BY <1>4, <2>2, <3>1 DEF Waiting
  <2>3. CASE i \in 1..w - 1
    BY <1>4, <2>3 DEF Waiting
  <2> QED BY <1>2, <2>2, <2>3
<1>9. Numbered(t)
  BY <1>1, <1>4, <1>7 DEF SearchInvBut, Numbered
<1>10. PathIsStacked(E, t)
  <2>1. \A i \in 1..w : t.work[i].todo \subseteq s.work[i].todo
    <3> SUFFICES ASSUME NEW i \in 1..w PROVE t.work[i].todo \subseteq s.work[i].todo
      OBVIOUS
    <3>1. i = w \/ i \in 1..w - 1
      BY <1>2
    <3> QED BY <1>4, <3>1
  <2>2. \A i \in 1..w : \A z \in s.work[i].todo : <<s.work[i].node, z>> \in E
    BY <1>1 DEF SearchInvBut, PathIsStacked, w
  <2>3. \A i, j \in 1..w : i < j => s.index[s.work[i].node] < s.index[s.work[j].node]
    BY <1>1 DEF SearchInvBut, PathIsStacked, w
  <2> QED BY <1>4, <1>6, <1>7, <2>1, <2>2, <2>3 DEF PathIsStacked
<1>11. ClosedIsClosed(E, t)
  BY <1>1, <1>7 DEF SearchInvBut, ClosedIsClosed
<1>12. LookedAtAreMet(E, t, U)
  <2> SUFFICES ASSUME NEW e \in E, LookedAt(t, e) PROVE e[2] \in Met(s) \union U
    BY <1>7 DEF LookedAtAreMet
  <2>1. CASE e = <<x, y>>
    BY <2>1
  <2>2. CASE e # <<x, y>>
    BY <1>1, <1>8, <2>2 DEF SearchInvBut, LookedAtAreMet
  <2> QED BY <2>1, <2>2
<1>13. StackLeadsOn(E, t)
  BY <1>1, <1>4, <1>7 DEF SearchInvBut, StackLeadsOn
<1>14. StackLeadsBack(E, t)
  <2> SUFFICES ASSUME NEW z \in Stacked(s)
               PROVE  \E i \in 1..w : t.index[t.work[i].node] <= t.index[z] /\ Leads(E, z, t.work[i].node)
    BY <1>4, <1>7 DEF StackLeadsBack
  <2>1. PICK i \in 1..w : s.index[s.work[i].node] <= s.index[z] /\ Leads(E, z, s.work[i].node)
    BY <1>1 DEF SearchInvBut, StackLeadsBack, w
  <2> QED BY <1>4, <2>1
<1>15. LowIsReached(E, t)
  <2> SUFFICES ASSUME NEW z \in Stacked(s)
               PROVE  /\ t.low[z] <= s.index[z]
                      /\ \E q \in Stacked(s) : s.index[q] = t.low[z] /\ Leads(E, z, q)
    BY <1>4, <1>7 DEF LowIsReached
  <2>1. /\ s.low[z] <= s.index[z]
        /\ \E q \in Stacked(s) : s.index[q] = s.low[z] /\ Leads(E, z, q)
    BY <1>1 DEF SearchInvBut, LowIsReached
  <2>2. z \in Agent
    BY DEF Stacked
  <2>3. CASE t.low[z] = s.low[z]
    BY <2>1, <2>3
  <2>4. CASE t.low[z] # s.low[z]
    <3>1. z = x /\ y \in Stacked(s) /\ l = s.index[y] /\ l < s.low[x] /\ t.low[z] = l
      BY <1>4, <1>5, <2>2, <2>4
    <3>2. Leads(E, x, y)
      BY <1>6, EdgeReaches DEF Leads
    <3>3. l <= s.index[x]
      BY <1>2, <1>3, <3>1
    <3> QED BY <3>1, <3>2, <3>3
  <2> QED BY <2>3, <2>4
<1>16. LowIsLeast(E, t)
  <2> SUFFICES ASSUME NEW e \in E, NEW i \in 1..w, LookedAt(t, e),
                      e[1] \in Stacked(s), e[2] \in Stacked(s), Under(t, i, e[1])
               PROVE  t.low[s.work[i].node] <= s.index[e[2]]
    BY <1>4, <1>7 DEF LowIsLeast
  <2>1. Under(s, i, e[1])
    BY <1>4 DEF Under, w
  <2>2. CASE e # <<x, y>>
    <3>1. s.low[s.work[i].node] <= s.index[e[2]]
      BY <1>1, <1>8, <2>1, <2>2 DEF SearchInvBut, LowIsLeast, w
    <3>2. /\ s.work[i].node \in Agent /\ e[2] \in Agent
          /\ t.low[s.work[i].node] = s.low[s.work[i].node] \/ (t.low[s.work[i].node] = l /\ s.work[i].node = x)
      BY <1>2, <1>4 DEF Stacked
    <3>3. l <= s.low[x]
      BY <1>2, <1>3, <1>5
    <3> QED BY <1>2, <3>1, <3>2, <3>3
  <2>3. CASE e = <<x, y>>
    <3>1. e[1] = x /\ e[2] = y
      BY <2>3
    <3>2. i = w
      <4> SUFFICES ASSUME i # w PROVE FALSE
        OBVIOUS
      <4>1. w > i
        BY <1>2
      <4>2. s.index[x] < s.index[s.work[w].node]
        BY <1>5, <2>1, <3>1, <4>1 DEF Under, w
      <4> QED BY <1>2, <1>3, <4>2 DEF x
    <3> QED BY <1>4, <1>5, <3>1, <3>2 DEF x
  <2> QED BY <2>2, <2>3
<1>17. CyclesAreClosed(E, t)
  BY <1>1, <1>4, <1>7 DEF SearchInvBut, CyclesAreClosed
<1> QED
  BY <1>9, <1>10, <1>11, <1>12, <1>13, <1>14, <1>15, <1>16, <1>17 DEF SearchInvBut

\* A look at a node that was met, and at one that was not.
LEMMA LookAtKeeps ==
  ASSUME NEW E \in Graph, NEW s, NEW y,
         SearchInv(E, s), Len(s.work) > 0, y \in s.work[Len(s.work)].todo
  PROVE  SearchInv(E, LookAt(E, s, y))
<1> DEFINE w == Len(s.work)
           x == s.work[w].node
           rest == [s EXCEPT !.work[w].todo = @ \ {y}]
           lower == [rest EXCEPT !.low[x] = s.index[y]]
<1>1. s \in SearchState /\ SearchInvBut(E, s, {})
  BY DEF SearchInvBut, SearchInv
<1>2. /\ \A z \in Agent : s.index[z] \in Nat /\ s.low[z] \in Nat
      /\ w \in Nat
      /\ \A i \in 1..w : s.work[i].node \in Agent /\ s.work[i].todo \in SUBSET Agent
  BY <1>1, SearchFields
<1>3. /\ x \in Agent /\ x \in Stacked(s)
      /\ \A z \in Stacked(s) : Leads(E, z, x)
  BY <1>1, TopOfPath
<1>4. w \in 1..w /\ y \in Agent
  BY <1>2
<1>5. <<x, y>> \in E
  BY <1>1, <1>4 DEF SearchInvBut, PathIsStacked
<1>6. /\ rest \in SearchState /\ Looked(s, x, y, s.low[x], rest)
      /\ lower \in SearchState /\ Looked(s, x, y, s.index[y], lower)
  BY <1>1, <1>2, <1>3, <1>4, LookEffect
<1>7. LookAt(E, s, y) = IF s.index[y] = 0 THEN Meet(E, rest, y)
                        ELSE IF OnStack(s, y) /\ s.index[y] < s.low[x] THEN lower
                        ELSE rest
  BY DEF LookAt, Top
<1>8. y \in Stacked(s) <=> OnStack(s, y)
  BY <1>4 DEF Stacked
<1>9. s.low[x] \in Nat /\ s.index[y] \in Nat
  BY <1>2, <1>3, <1>4
<1> HIDE DEF rest, lower
<1>10. CASE s.index[y] = 0
  <2>1. y \notin Stacked(s)
    <3>1. \A i \in 1..Len(s.stack) : s.index[s.stack[i]] > 0
      BY <1>1 DEF SearchInvBut, Numbered
    <3> QED BY <1>1, <1>10, <3>1, SearchFields DEF Stacked, OnStack
  <2>2. SearchInvBut(E, rest, {y})
    BY <1>6, <1>9, <2>1, LookKeeps
  <2>3. Stacked(rest) = Stacked(s) /\ rest.index[y] = 0
    BY <1>6, <1>10 DEF Looked, Stacked, OnStack
  <2>4. \A z \in Stacked(rest) : Leads(E, z, y)
    <3> SUFFICES ASSUME NEW z \in Stacked(s) PROVE Leads(E, z, y)
      BY <2>3
    <3>1. Leads(E, z, x) /\ Leads(E, x, y)
      BY <1>3, <1>5, EdgeReaches DEF Leads
    <3> QED BY <3>1, LeadsOn
  <2>5. Meet(E, rest, y) \in SearchState /\ MeetsAs(E, rest, y, Meet(E, rest, y))
    BY <1>4, <1>6, MeetEffect
  <2>6. SearchInv(E, Meet(E, rest, y))
    BY <1>4, <2>2, <2>3, <2>4, <2>5, MeetKeeps
  <2> QED BY <1>7, <1>10, <2>6
<1>11. CASE s.index[y] # 0 /\ OnStack(s, y) /\ s.index[y] < s.low[x]
  <2>1. y \in Met(s)
    BY <1>4, <1>9, <1>11 DEF Met
  <2>2. y \in Stacked(s) /\ s.index[y] <= s.index[y]
    BY <1>8, <1>9, <1>11
  <2>3. SearchInvBut(E, lower, {})
    BY <1>6, <1>9, <1>11, <2>1, <2>2, LookKeeps
  <2> QED BY <1>7, <1>11, <2>3 DEF SearchInv
<1>12. CASE s.index[y] # 0 /\ ~(OnStack(s, y) /\ s.index[y] < s.low[x])
  <2>1. y \in Met(s)
    BY <1>4, <1>9, <1>12 DEF Met
  <2>2. OnStack(s, y) => s.low[x] <= s.index[y]
    BY <1>9, <1>12
  <2>3. SearchInvBut(E, rest, {})
    BY <1>6, <1>8, <1>9, <2>1, <2>2, LookKeeps
  <2> QED BY <1>7, <1>12, <2>3 DEF SearchInv
<1> QED
  BY <1>10, <1>11, <1>12

-----------------------------------------------------------------------------
(* A node is left *)

\* The last node of the path, x, is left: the one before it takes over a lower
\* low link, and the component of x is closed if x's own is its number.
LowPassedOn(s, t) ==
  LET w == Len(s.work)
      x == s.work[w].node
  IN \A z \in Agent :
       \/ /\ w > 1 /\ z = s.work[w - 1].node /\ s.low[x] < s.low[z]
          /\ t.low[z] = s.low[x]
       \/ /\ t.low[z] = s.low[z]
          /\ w > 1 /\ z = s.work[w - 1].node => s.low[z] <= s.low[x]
PathShortened(s, t) ==
  /\ t.index = s.index
  /\ Len(t.work) = Len(s.work) - 1
  /\ \A i \in 1..Len(s.work) - 1 : t.work[i] = s.work[i]
StackKept(s, t) == t.stack = s.stack /\ t.cycles = s.cycles
StackCut(E, s, x, t) ==
  /\ Len(t.stack) = PlaceOf(s, x) - 1
  /\ \A i \in 1..PlaceOf(s, x) - 1 : t.stack[i] = s.stack[i]
  /\ t.cycles = IF Cardinality(ComponentOf(s, x)) >= 2 \/ <<x, x>> \in E
                THEN s.cycles \union {ComponentOf(s, x)} ELSE s.cycles

\* A stacked node has a place on the stack.
LEMMA PlaceOfStacked ==
  ASSUME NEW s \in SearchState, NEW x \in Stacked(s)
  PROVE  PlaceOf(s, x) \in 1..Len(s.stack) /\ s.stack[PlaceOf(s, x)] = x
<1>1. \E i \in DOMAIN s.stack : s.stack[i] = x
  BY DEF Stacked, OnStack
<1>2. PlaceOf(s, x) \in DOMAIN s.stack /\ s.stack[PlaceOf(s, x)] = x
  BY <1>1 DEF PlaceOf
<1> QED BY <1>2, SearchFields

\* The record of the search without x on the path, before low links.
LEMMA CloseEffect ==
  ASSUME NEW E, NEW s \in SearchState, NEW x \in Stacked(s)
  PROVE  \E stack \in Seq(Agent), cycles \in SUBSET (SUBSET Agent) :
           LET t == Close(E, s, x)
           IN /\ t = [index |-> s.index, low |-> s.low, stack |-> stack, work |-> s.work,
                      cycles |-> cycles]
              /\ s.low[x] # s.index[x] => StackKept(s, t)
              /\ s.low[x] = s.index[x] => StackCut(E, s, x, t)
<1> DEFINE k == PlaceOf(s, x)
           C == ComponentOf(s, x)
           stack == SubSeq(s.stack, 1, k - 1)
           cycles == IF Cardinality(C) >= 2 \/ <<x, x>> \in E THEN s.cycles \union {C} ELSE s.cycles
           t == Close(E, s, x)
<1>1. /\ s.index \in [Agent -> Nat] /\ s.low \in [Agent -> Nat] /\ s.stack \in Seq(Agent)
      /\ s.work \in Seq(Frame) /\ s.cycles \in SUBSET (SUBSET Agent)
      /\ s = [index |-> s.index, low |-> s.low, stack |-> s.stack, work |-> s.work,
              cycles |-> s.cycles]
  BY DEF SearchState
<1>2. k \in 1..Len(s.stack)
  BY PlaceOfStacked
<1>3. Len(s.stack) \in Nat /\ \A i \in 1..Len(s.stack) : s.stack[i] \in Agent
  BY SearchFields
<1>4. CASE s.low[x] # s.index[x]
  <2>1. t = s
    BY <1>4 DEF Close
  <2> HIDE DEF t
  <2> QED BY <1>1, <1>4, <2>1 DEF StackKept, t
<1>5. CASE s.low[x] = s.index[x]
  <2>1. t = [s EXCEPT !.stack = stack, !.cycles = cycles]
    BY <1>5 DEF Close
  <2>2. \A i \in 1..k - 1 : s.stack[i] \in Agent
    BY <1>2, <1>3
  <2>3. stack \in Seq(Agent) /\ Len(stack) = k - 1 /\ \A i \in 1..k - 1 : stack[i] = s.stack[i]
    <3> HIDE DEF k
    <3>1. 1 \in Int /\ k - 1 \in Int
      BY <1>2, <1>3
    <3>2. /\ SubSeq(s.stack, 1, k - 1) \in Seq(Agent)
          /\ Len(SubSeq(s.stack, 1, k - 1)) = IF 1 <= k - 1 THEN k - 1 - 1 + 1 ELSE 0
          /\ \A i \in 1..k - 1 - 1 + 1 : SubSeq(s.stack, 1, k - 1)[i] = s.stack[1 + i - 1]
      BY <2>2, <3>1, SubSeqProperties
    <3>3. k \in Nat /\ k >= 1
      BY <1>2, <1>3
    <3> QED BY <3>2, <3>3
  <2>4. C \in SUBSET Agent
    BY <1>2, <1>3 DEF ComponentOf
  <2>5. cycles \in SUBSET (SUBSET Agent)
    BY <1>1, <2>4
  <2>6. t = [index |-> s.index, low |-> s.low, stack |-> stack, work |-> s.work, cycles |-> cycles]
    <3> HIDE DEF stack, cycles, t
    <3> QED BY <1>1, <2>1
  <2>7. StackCut(E, s, x, t)
    <3>1. t.stack = stack /\ t.cycles = cycles
      <4> HIDE DEF stack, cycles, t
      <4> QED BY <2>6
    <3> QED BY <2>3, <3>1 DEF StackCut
  <2> HIDE DEF stack, cycles, t
  <2> QED BY <1>5, <2>3, <2>5, <2>6, <2>7 DEF t
<1> QED
  BY <1>4, <1>5

\* Leave does that.
LEMMA LeaveEffect ==
  ASSUME NEW E, NEW s \in SearchState, Len(s.work) > 0,
         s.work[Len(s.work)].node \in Stacked(s)
  PROVE  LET x == s.work[Len(s.work)].node
             t == Leave(E, s)
         IN /\ t \in SearchState
            /\ PathShortened(s, t) /\ LowPassedOn(s, t)
            /\ s.low[x] # s.index[x] => StackKept(s, t)
            /\ s.low[x] = s.index[x] => StackCut(E, s, x, t)
<1> DEFINE w == Len(s.work)
           x == s.work[w].node
           closed == Close(E, s, x)
           work == SubSeq(s.work, 1, w - 1)
           left == [closed EXCEPT !.work = work]
           p == Top(left).node
           t == Leave(E, s)
<1>1. PICK stack \in Seq(Agent), cycles \in SUBSET (SUBSET Agent) :
         /\ closed = [index |-> s.index, low |-> s.low, stack |-> stack, work |-> s.work,
                      cycles |-> cycles]
         /\ s.low[x] # s.index[x] => StackKept(s, closed)
         /\ s.low[x] = s.index[x] => StackCut(E, s, x, closed)
  BY CloseEffect
<1>2. /\ s.index \in [Agent -> Nat] /\ s.low \in [Agent -> Nat] /\ s.work \in Seq(Frame)
      /\ w \in Nat /\ w > 0
  BY DEF SearchState
<1>3. work \in Seq(Frame) /\ Len(work) = w - 1 /\ \A i \in 1..w - 1 : work[i] = s.work[i]
  BY <1>2
<1>4. t = IF work = <<>> \/ s.low[x] >= s.low[p] THEN left
          ELSE [left EXCEPT !.low[p] = s.low[x]]
  BY DEF Leave, Top
<1> HIDE DEF work, t, closed
<1>5. left = [index |-> s.index, low |-> s.low, stack |-> stack, work |-> work,
              cycles |-> cycles]
  BY <1>1
<1>6. closed.stack = stack /\ closed.cycles = cycles
  BY <1>1
<1>7. work = <<>> <=> w = 1
  <2>1. work # <<>> => Len(work) \in Nat \ {0}
    BY <1>3, EmptySeq
  <2>2. work = <<>> => Len(work) = 0
    BY EmptySeq
  <2> HIDE DEF w
  <2> QED BY <1>2, <1>3, <2>1, <2>2
<1>8. w > 1 => p = s.work[w - 1].node /\ p \in Agent
  <2> SUFFICES ASSUME w > 1 PROVE p = s.work[w - 1].node /\ p \in Agent
    OBVIOUS
  <2>1. left.work = work
    BY <1>5
  <2>2. Top(left) = s.work[w - 1]
    <3> HIDE DEF left, w
    <3> QED BY <1>2, <1>3, <2>1 DEF Top
  <2>3. s.work[w - 1].node \in Agent
    BY <1>2, SearchFields
  <2> QED BY <2>2, <2>3
<1>9. x \in Agent /\ s.low[x] \in Nat
  BY <1>2 DEF Stacked
<1> HIDE DEF left, p, w, x
<1>10. \E low \in [Agent -> Nat] :
          /\ t = [index |-> s.index, low |-> low, stack |-> stack, work |-> work, cycles |-> cycles]
          /\ \A z \in Agent :
               \/ /\ w > 1 /\ z = s.work[w - 1].node /\ s.low[x] < s.low[z]
                  /\ low[z] = s.low[x]
               \/ /\ low[z] = s.low[z]
                  /\ w > 1 /\ z = s.work[w - 1].node => s.low[z] <= s.low[x]
  <2>1. CASE work = <<>>
    BY <1>2, <1>4, <1>5, <1>7, <2>1
  <2>2. CASE work # <<>> /\ s.low[x] >= s.low[p]
    <3>1. s.low[p] \in Nat /\ s.low[p] <= s.low[x]
      BY <1>2, <1>7, <1>8, <1>9, <2>2
    <3>2. t = left
      BY <1>4, <2>2
    <3>3. \A z \in Agent : z = s.work[w - 1].node /\ w > 1 => s.low[z] <= s.low[x]
      BY <1>8, <3>1
    <3> QED BY <1>2, <1>5, <3>2, <3>3
  <2>3. CASE work # <<>> /\ ~(s.low[x] >= s.low[p])
    <3>0. w > 1
      BY <1>2, <1>7, <2>3
    <3>1. s.low[p] \in Nat /\ s.low[x] < s.low[p]
      BY <1>2, <1>8, <1>9, <2>3, <3>0
    <3> DEFINE low == [s.low EXCEPT ![p] = s.low[x]]
    <3>2. t = [left EXCEPT !.low = [left.low EXCEPT ![p] = s.low[x]]]
      BY <1>4, <2>3
    <3>3. left.low = s.low
      BY <1>5
    <3>4. t = [left EXCEPT !.low = low]
      BY <3>2, <3>3
    <3>5. low \in [Agent -> Nat] /\ low[p] = s.low[x] /\ \A z \in Agent \ {p} : low[z] = s.low[z]
      BY <1>2, <1>8, <1>9, <3>0
    <3> HIDE DEF low
    <3>6. t = [index |-> s.index, low |-> low, stack |-> stack, work |-> work, cycles |-> cycles]
      BY <1>5, <3>4
    <3>7. \A z \in Agent :
               \/ /\ w > 1 /\ z = s.work[w - 1].node /\ s.low[x] < s.low[z]
                  /\ low[z] = s.low[x]
               \/ /\ low[z] = s.low[z]
                  /\ w > 1 /\ z = s.work[w - 1].node => s.low[z] <= s.low[x]
      BY <1>8, <3>0, <3>1, <3>5
    <3> QED BY <3>5, <3>6, <3>7
  <2> QED BY <2>1, <2>2, <2>3
<1>11. PICK low \in [Agent -> Nat] :
          /\ t = [index |-> s.index, low |-> low, stack |-> stack, work |-> work, cycles |-> cycles]
          /\ \A z \in Agent :
               \/ /\ w > 1 /\ z = s.work[w - 1].node /\ s.low[x] < s.low[z]
                  /\ low[z] = s.low[x]
               \/ /\ low[z] = s.low[z]
                  /\ w > 1 /\ z = s.work[w - 1].node => s.low[z] <= s.low[x]
  BY <1>10
<1>12. /\ t.index = s.index /\ t.low = low /\ t.stack = stack /\ t.work = work
       /\ t.cycles = cycles
  BY <1>11
<1>13. t \in SearchState
  BY <1>2, <1>3, <1>11 DEF SearchState
<1>14. PathShortened(s, t)
  BY <1>3, <1>12 DEF PathShortened, w
<1>15. LowPassedOn(s, t)
  BY <1>11, <1>12 DEF LowPassedOn, w, x
<1>16. s.low[x] # s.index[x] => StackKept(s, t)
  BY <1>1, <1>6, <1>12 DEF StackKept
<1>17. s.low[x] = s.index[x] => StackCut(E, s, x, t)
  BY <1>1, <1>6, <1>12 DEF StackCut
<1> QED
  BY <1>13, <1>14, <1>15, <1>16, <1>17 DEF t, x, w

-----------------------------------------------------------------------------
\* x reaches an earlier node, so the one before it on the path does too.
LEMMA LeaveOpenKeeps ==
  ASSUME NEW E \in Graph, NEW s, NEW t,
         SearchInv(E, s), Len(s.work) > 0, s.work[Len(s.work)].todo = {},
         s.low[s.work[Len(s.work)].node] # s.index[s.work[Len(s.work)].node],
         t \in SearchState, PathShortened(s, t), LowPassedOn(s, t), StackKept(s, t)
  PROVE  SearchInv(E, t)
<1> DEFINE w == Len(s.work)
           x == s.work[w].node
           p == s.work[w - 1].node
<1>1. s \in SearchState /\ SearchInvBut(E, s, {})
  BY DEF SearchInvBut, SearchInv
<1>2. /\ \A z \in Agent : s.index[z] \in Nat /\ s.low[z] \in Nat
      /\ w \in Nat /\ w > 0
      /\ \A i \in 1..w : s.work[i].node \in Agent /\ s.work[i].todo \in SUBSET Agent
  BY <1>1, SearchFields
<1>3. /\ x \in Agent /\ x \in Stacked(s) /\ s.index[x] > 0 /\ x \in Met(s)
      /\ \A i \in 1..w - 1 : s.index[s.work[i].node] < s.index[x]
      /\ s.low[x] < s.index[x]
  <2>1. /\ x \in Agent /\ x \in Stacked(s) /\ s.index[x] > 0 /\ x \in Met(s)
        /\ \A i \in 1..w - 1 : s.index[s.work[i].node] < s.index[x]
        /\ s.low[x] <= s.index[x]
    BY <1>1, TopOfPath
  <2>2. s.low[x] # s.index[x] /\ s.low[x] \in Nat /\ s.index[x] \in Nat
    BY <1>2, <2>1
  <2> HIDE DEF x, w
  <2>3. s.low[x] < s.index[x]
    BY <2>1, <2>2
  <2> QED BY <2>1, <2>3
<1>4. /\ t.index = s.index /\ t.stack = s.stack /\ t.cycles = s.cycles
      /\ Len(t.work) = w - 1 /\ \A i \in 1..w - 1 : t.work[i] = s.work[i]
  BY DEF PathShortened, StackKept
<1>5. \A z \in Agent : \/ w > 1 /\ z = p /\ s.low[x] < s.low[z] /\ t.low[z] = s.low[x]
                       \/ t.low[z] = s.low[z] /\ (w > 1 /\ z = p => s.low[z] <= s.low[x])
  BY DEF LowPassedOn
<1>6. \A i \in 1..w - 1 : i \in 1..w /\ s.work[i].node \in Stacked(s)
  <2>1. \A i \in 1..w : s.work[i].node \in Stacked(s)
    BY <1>1 DEF SearchInvBut, PathIsStacked
  <2>2. \A i \in 1..w - 1 : i \in 1..w
    BY <1>2
  <2> QED BY <2>1, <2>2
<1>7. Met(t) = Met(s) /\ Stacked(t) = Stacked(s) /\ Closed(t) = Closed(s)
  BY <1>4 DEF Met, Stacked, OnStack, Closed
<1>8. \A z \in Stacked(s) : z \in Agent
  BY DEF Stacked
<1>9. PICK y \in Stacked(s) : s.index[y] = s.low[x] /\ Leads(E, x, y)
  BY <1>1, <1>3 DEF SearchInvBut, LowIsReached
<1>10. PICK k \in 1..w : s.index[s.work[k].node] <= s.index[y] /\ Leads(E, y, s.work[k].node)
  BY <1>1 DEF SearchInvBut, StackLeadsBack
<1>11. k \in 1..w - 1
  <2>1. s.index[x] \in Nat /\ s.index[y] \in Nat /\ s.index[y] < s.index[x]
    BY <1>2, <1>3, <1>8, <1>9
  <2>2. k # w
    BY <1>10, <2>1
  <2> QED BY <1>2, <2>2
<1>12. w > 1 /\ w - 1 \in 1..w - 1 /\ p \in Stacked(s) /\ p \in Agent /\ s.index[p] < s.index[x]
  <2>1. w > 1 /\ w - 1 \in 1..w - 1
    BY <1>2, <1>11
  <2> QED BY <1>3, <1>6, <1>8, <2>1
<1>e. ASSUME NEW e \in E, LookedAt(t, e) PROVE LookedAt(s, e)
  <2> SUFFICES ASSUME NEW i \in 1..w, s.work[i].node = e[1], e[2] \in s.work[i].todo
               PROVE  Waiting(t, e)
    BY <1>4, <1>e DEF LookedAt, Waiting, w
  <2>1. i # w
    OBVIOUS
  <2>2. i \in 1..w - 1
    BY <1>2, <2>1
  <2> QED BY <1>4, <2>2 DEF Waiting
<1>i. \A i \in 1..w - 1 : i # w - 1 => s.work[i].node # p
  <2> SUFFICES ASSUME NEW i \in 1..w - 1, i # w - 1 PROVE s.work[i].node # p
    OBVIOUS
  <2>1. i \in 1..w /\ w - 1 \in 1..w /\ i < w - 1
    BY <1>2, <1>12
  <2>2. s.index[s.work[i].node] < s.index[p]
    BY <1>1, <2>1 DEF SearchInvBut, PathIsStacked
  <2> QED BY <1>2, <1>12, <2>2
<1>t. s.work[w].todo = {}
  OBVIOUS
<1>p. /\ Numbered(s) /\ PathIsStacked(E, s) /\ ClosedIsClosed(E, s) /\ LookedAtAreMet(E, s, {})
      /\ StackLeadsOn(E, s) /\ CyclesAreClosed(E, s)
      /\ \A z \in Stacked(s) : \E i \in 1..w :
           s.index[s.work[i].node] <= s.index[z] /\ Leads(E, z, s.work[i].node)
      /\ \A z \in Stacked(s) :
          /\ s.low[z] <= s.index[z]
          /\ \E q \in Stacked(s) : s.index[q] = s.low[z] /\ Leads(E, z, q)
      /\ \A e \in E, i \in 1..w :
          LookedAt(s, e) /\ e[1] \in Stacked(s) /\ e[2] \in Stacked(s) /\ Under(s, i, e[1])
            => s.low[s.work[i].node] <= s.index[e[2]]
  BY <1>1 DEF SearchInvBut, StackLeadsBack, LowIsReached, LowIsLeast
<1> HIDE DEF w, x, p
<1>l. \A z \in Agent : t.low[z] <= s.low[z] /\ t.low[z] \in Nat
  <2> SUFFICES ASSUME NEW z \in Agent PROVE t.low[z] <= s.low[z] /\ t.low[z] \in Nat
    OBVIOUS
  <2>1. s.low[z] \in Nat /\ s.low[x] \in Nat
    BY <1>2, <1>3
  <2>2. t.low[z] = s.low[z] \/ (s.low[x] < s.low[z] /\ t.low[z] = s.low[x])
    BY <1>5
  <2> QED BY <2>1, <2>2
<1>13. Numbered(t)
  BY <1>p, <1>4, <1>7 DEF Numbered
<1>14. PathIsStacked(E, t)
  <2>1. /\ \A i \in 1..w : \A z \in s.work[i].todo : <<s.work[i].node, z>> \in E
        /\ \A i, j \in 1..w : i < j => s.index[s.work[i].node] < s.index[s.work[j].node]
    BY <1>p DEF PathIsStacked, w
  <2> QED BY <1>4, <1>6, <1>7, <2>1 DEF PathIsStacked
<1>15. ClosedIsClosed(E, t)
  BY <1>p, <1>7 DEF ClosedIsClosed
<1>16. LookedAtAreMet(E, t, {})
  BY <1>p, <1>e, <1>7 DEF LookedAtAreMet
<1>17. StackLeadsOn(E, t)
  BY <1>p, <1>4, <1>7 DEF StackLeadsOn
<1>18. StackLeadsBack(E, t)
  <2> SUFFICES ASSUME NEW z \in Stacked(s)
               PROVE  \E i \in 1..w - 1 : s.index[s.work[i].node] <= s.index[z] /\ Leads(E, z, s.work[i].node)
    BY <1>4, <1>7 DEF StackLeadsBack
  <2>1. PICK i \in 1..w : s.index[s.work[i].node] <= s.index[z] /\ Leads(E, z, s.work[i].node)
    BY <1>p
  <2>2. CASE i = w
    <3>1. Leads(E, z, x) /\ s.index[x] <= s.index[z]
      BY <2>1, <2>2 DEF x
    <3>2. Leads(E, z, y)
      BY <1>9, <3>1, LeadsOn
    <3>3. Leads(E, z, s.work[k].node)
      BY <1>10, <3>2, LeadsOn
    <3>4. s.index[s.work[k].node] < s.index[x] /\ s.work[k].node \in Agent
      BY <1>3, <1>6, <1>8, <1>11
    <3>5. s.index[s.work[k].node] <= s.index[z]
      BY <1>2, <1>3, <1>8, <3>1, <3>4
    <3> QED BY <1>11, <3>3, <3>5
  <2>3. CASE i # w
    <3>1. i \in 1..w - 1
      BY <1>2, <2>3
    <3> QED BY <2>1, <3>1
  <2> QED BY <2>2, <2>3
<1>19. LowIsReached(E, t)
  <2> SUFFICES ASSUME NEW z \in Stacked(s)
               PROVE  /\ t.low[z] <= s.index[z]
                      /\ \E q \in Stacked(s) : s.index[q] = t.low[z] /\ Leads(E, z, q)
    BY <1>4, <1>7 DEF LowIsReached
  <2>1. CASE t.low[z] = s.low[z]
    BY <1>p, <2>1
  <2>2. CASE t.low[z] # s.low[z]
    <3>1. z = p /\ s.low[x] < s.low[p] /\ t.low[z] = s.low[x]
      BY <1>5, <1>8, <2>2
    <3>2. s.low[p] <= s.index[p]
      BY <1>p, <1>12
    <3>3. Leads(E, p, x)
      <4>1. s.index[p] <= s.index[x]
        BY <1>2, <1>3, <1>12
      <4>2. StackLeadsOn(E, s)
        BY <1>p
      <4> QED BY <1>3, <1>12, <4>1, <4>2 DEF StackLeadsOn
    <3>4. Leads(E, p, y)
      BY <1>9, <3>3, LeadsOn
    <3>5. s.low[x] <= s.index[p]
      BY <1>2, <1>3, <1>12, <3>1, <3>2
    <3> QED BY <1>9, <3>1, <3>4, <3>5
  <2> QED BY <2>1, <2>2
<1>20. LowIsLeast(E, t)
  <2> SUFFICES ASSUME NEW e \in E, NEW i \in 1..w - 1, LookedAt(t, e),
                      e[1] \in Stacked(s), e[2] \in Stacked(s), Under(t, i, e[1])
               PROVE  t.low[s.work[i].node] <= s.index[e[2]]
    BY <1>4, <1>7 DEF LowIsLeast
  <2>1. LookedAt(s, e) /\ i \in 1..w
    BY <1>e, <1>6
  <2>2. e[1] \in Agent /\ e[2] \in Agent /\ s.work[i].node \in Agent
    BY <1>6, <1>8
  <2>3. /\ s.index[s.work[i].node] <= s.index[e[1]]
        /\ \A j \in 1..w - 1 : j > i => s.index[e[1]] < s.index[s.work[j].node]
    BY <1>4 DEF Under
  <2>4. CASE s.index[e[1]] < s.index[x]
    <3>1. \A j \in 1..w : j > i => s.index[e[1]] < s.index[s.work[j].node]
      <4> SUFFICES ASSUME NEW j \in 1..w, j > i PROVE s.index[e[1]] < s.index[s.work[j].node]
        OBVIOUS
      <4>1. CASE j = w
        BY <2>4, <4>1 DEF x
      <4>2. CASE j # w
        <5>1. j \in 1..w - 1
          BY <1>2, <4>2
        <5> QED BY <2>3, <5>1
      <4> QED BY <4>1, <4>2
    <3>2. Under(s, i, e[1])
      BY <2>3, <3>1 DEF Under, w
    <3>3. s.low[s.work[i].node] <= s.index[e[2]]
      BY <1>p, <2>1, <3>2
    <3>4. t.low[s.work[i].node] <= s.low[s.work[i].node] /\ t.low[s.work[i].node] \in Nat
      BY <1>l, <2>2
    <3> QED BY <1>2, <2>2, <3>3, <3>4
  <2>5. CASE ~(s.index[e[1]] < s.index[x])
    <3>1. i = w - 1
      <4> SUFFICES ASSUME i # w - 1 PROVE FALSE
        OBVIOUS
      <4>1. w - 1 > i
        BY <1>2
      <4>2. s.index[e[1]] < s.index[p]
        BY <1>12, <2>3, <4>1 DEF p
      <4> QED BY <1>2, <1>3, <1>12, <2>2, <2>5, <4>2
    <3>2. Under(s, w, e[1])
      <4>1. s.index[x] <= s.index[e[1]]
        BY <1>2, <1>3, <2>2, <2>5
      <4>2. \A j \in 1..w : ~(j > w)
        BY <1>2
      <4> QED BY <4>1, <4>2 DEF Under, x, w
    <3>3. s.low[x] <= s.index[e[2]]
      <4>1. w \in 1..w
        BY <1>2
      <4> QED BY <1>p, <2>1, <3>2, <4>1 DEF x
    <3>4. s.work[i].node = p
      BY <3>1 DEF p
    <3>5. t.low[p] <= s.low[x] /\ t.low[p] \in Nat
      BY <1>2, <1>3, <1>5, <1>12
    <3> QED BY <1>2, <1>3, <2>2, <3>3, <3>4, <3>5
  <2> QED BY <2>4, <2>5
<1>21. CyclesAreClosed(E, t)
  BY <1>p, <1>4, <1>7 DEF CyclesAreClosed
<1> QED
  BY <1>13, <1>14, <1>15, <1>16, <1>17, <1>18, <1>19, <1>20, <1>21 DEF SearchInvBut, SearchInv

-----------------------------------------------------------------------------
\* Whoever x waits on, if in a roundabout way, and that waits on x.
Class(E, x) == {y \in Agent : Reaches(E, x, y) /\ Reaches(E, y, x)}

\* The components are the classes of the agents that wait on themselves.
LEMMA ClassesAreComponents ==
  ASSUME NEW E
  PROVE  /\ \A x \in Agent : Reaches(E, x, x) => Class(E, x) \in Components(E)
         /\ \A K \in Components(E) : \E x \in Agent : x \in K /\ Reaches(E, x, x) /\ K = Class(E, x)
  BY DEF Components, Class

\* A class is that of each of its members.
LEMMA SameClass ==
  ASSUME NEW E, NEW x \in Agent, NEW y \in Class(E, x)
  PROVE  Class(E, y) = Class(E, x)
<1>1. Reaches(E, x, y) /\ Reaches(E, y, x)
  BY DEF Class
<1>2. \A z \in Agent : Reaches(E, x, z) <=> Reaches(E, y, z)
  BY <1>1, ReachesOn
<1>3. \A z \in Agent : Reaches(E, z, x) <=> Reaches(E, z, y)
  BY <1>1, ReachesOn
<1> QED BY <1>2, <1>3 DEF Class

\* C leads nowhere but to itself and to D, D only to itself, and C is tied
\* together through x: then the components inside both are those of D and, if
\* there is a cycle in it, C.
NewCycle(E, C, x) == IF Cardinality(C) >= 2 \/ <<x, x>> \in E THEN {C} ELSE {}

LEMMA ClosingAComponent ==
  ASSUME NEW E \in Graph, NEW C \in SUBSET Agent, NEW D \in SUBSET Agent, NEW x \in C,
         C \cap D = {},
         \A e \in E : e[1] \in D => e[2] \in D,
         \A e \in E : e[1] \in C => e[2] \in C \union D,
         \A z \in C : Leads(E, x, z) /\ Leads(E, z, x)
  PROVE  ComponentsIn(E, C \union D) = ComponentsIn(E, D) \union NewCycle(E, C, x)
<1>1. \A z : Reaches(E, x, z) => z \in C \union D
  <2>1. ClosedUnder(E, x, C \union D)
    BY DEF ClosedUnder
  <2> QED BY <2>1, ReachesStaysIn
<1>2. \A y \in D : \A z : Reaches(E, y, z) => z \in D
  <2>1. \A y \in D : ClosedUnder(E, y, D)
    BY DEF ClosedUnder
  <2> QED BY <2>1, ReachesStaysIn
<1>3. Class(E, x) \subseteq C
  BY <1>1, <1>2 DEF Class
<1>4. Reaches(E, x, x) => Class(E, x) = C
  <2> SUFFICES ASSUME Reaches(E, x, x), NEW z \in C PROVE z \in Class(E, x)
    BY <1>3
  <2>1. CASE z = x
    BY <2>1 DEF Class
  <2>2. CASE z # x
    BY <2>2 DEF Class, Leads
  <2> QED BY <2>1, <2>2
<1>5. IsFiniteSet(C) /\ Cardinality(C) \in Nat
  BY AgentsAssumption, FS_Subset, FS_CardinalityType
<1>6. (Cardinality(C) >= 2 \/ <<x, x>> \in E) <=> Reaches(E, x, x)
  <2>1. ASSUME <<x, x>> \in E PROVE Reaches(E, x, x)
    BY <2>1, EdgeReaches
  <2>2. ASSUME Cardinality(C) >= 2 PROVE Reaches(E, x, x)
    <3>1. C # {x}
      <4>1. Cardinality({x}) = 1
        BY FS_Singleton
      <4> QED BY <2>2, <4>1
    <3>2. PICK z \in C : z # x
      BY <3>1
    <3>3. Reaches(E, x, z) /\ Reaches(E, z, x)
      BY <3>2 DEF Leads
    <3> QED BY <3>3, ReachesOn
  <2>3. ASSUME Reaches(E, x, x), ~(Cardinality(C) >= 2) PROVE <<x, x>> \in E
    <3>1. Cardinality(C) = 1
      <4>1. Cardinality(C) # 0
        BY <1>5, FS_EmptySet
      <4> QED BY <1>5, <2>3, <4>1
    <3>2. C = {x}
      BY <1>5, <3>1, FS_Singleton
    <3>3. PICK e \in E : e[1] = x /\ (e[2] = x \/ Reaches(E, e[2], x))
      BY <2>3, ReachesFirst
    <3>4. e = <<x, e[2]>> /\ e[2] \in Agent
      BY <3>3 DEF Graph
    <3>5. CASE e[2] = x
      BY <3>4, <3>5
    <3>6. CASE Reaches(E, e[2], x)
      <4>1. Reaches(E, x, e[2])
        BY <3>4, EdgeReaches
      <4>2. e[2] \in Class(E, x)
        BY <3>4, <3>6, <4>1 DEF Class
      <4> QED BY <1>3, <3>2, <3>4, <4>2
    <3> QED BY <3>3, <3>5, <3>6
  <2> QED BY <2>1, <2>2, <2>3
<1>7. ASSUME NEW K \in Components(E), K \subseteq C \union D, ~(K \subseteq D)
      PROVE  K = C /\ Reaches(E, x, x)
  <2>1. PICK z \in K : z \in C
    BY <1>7
  <2>2. PICK y \in Agent : y \in K /\ Reaches(E, y, y) /\ K = Class(E, y)
    BY ClassesAreComponents
  <2>3. Class(E, z) = K /\ Reaches(E, z, z)
    <3>1. Reaches(E, y, z) /\ Reaches(E, z, y)
      BY <2>1, <2>2 DEF Class
    <3> QED BY <2>1, <2>2, <3>1, SameClass, ReachesOn
  <2>4. CASE z = x
    BY <1>4, <2>3, <2>4
  <2>5. CASE z # x
    <3>1. Reaches(E, x, z) /\ Reaches(E, z, x)
      BY <2>1, <2>5 DEF Leads
    <3>2. Reaches(E, x, x)
      BY <3>1, ReachesOn
    <3>3. z \in Class(E, x)
      BY <2>1, <3>1 DEF Class
    <3> QED BY <1>4, <2>3, <3>2, <3>3, SameClass
  <2> QED BY <2>4, <2>5
<1>8. Reaches(E, x, x) => C \in Components(E)
  BY <1>4, ClassesAreComponents
<1> QED
  BY <1>6, <1>7, <1>8 DEF ComponentsIn, NewCycle

\* Nothing stacked before x can be reached from x or from what came after it.
LEMMA LeaveCloseKeeps ==
  ASSUME NEW E \in Graph, NEW s, NEW t,
         SearchInv(E, s), Len(s.work) > 0, s.work[Len(s.work)].todo = {},
         s.low[s.work[Len(s.work)].node] = s.index[s.work[Len(s.work)].node],
         t \in SearchState, PathShortened(s, t), LowPassedOn(s, t),
         StackCut(E, s, s.work[Len(s.work)].node, t)
  PROVE  SearchInv(E, t)
<1> DEFINE w == Len(s.work)
           h == Len(s.stack)
           x == s.work[w].node
           k == PlaceOf(s, x)
           C == ComponentOf(s, x)
<1>1. s \in SearchState /\ SearchInvBut(E, s, {})
  BY DEF SearchInvBut, SearchInv
<1>2. /\ \A z \in Agent : s.index[z] \in Nat /\ s.low[z] \in Nat
      /\ h \in Nat /\ DOMAIN s.stack = 1..h /\ \A i \in 1..h : s.stack[i] \in Agent
      /\ w \in Nat /\ w > 0
      /\ \A i \in 1..w : s.work[i].node \in Agent /\ s.work[i].todo \in SUBSET Agent
  BY <1>1, SearchFields
<1>3. /\ x \in Agent /\ x \in Stacked(s) /\ s.index[x] > 0 /\ x \in Met(s)
      /\ \A i \in 1..w - 1 : s.index[s.work[i].node] < s.index[x]
      /\ s.low[x] = s.index[x]
      /\ \A z \in Stacked(s) : Leads(E, z, x)
  BY <1>1, <1>2, TopOfPath
<1>4. k \in 1..h /\ s.stack[k] = x
  BY <1>1, <1>3, PlaceOfStacked
<1>5. /\ t.index = s.index
      /\ Len(t.work) = w - 1 /\ \A i \in 1..w - 1 : t.work[i] = s.work[i]
      /\ Len(t.stack) = k - 1 /\ \A i \in 1..k - 1 : t.stack[i] = s.stack[i]
      /\ t.cycles = IF Cardinality(C) >= 2 \/ <<x, x>> \in E THEN s.cycles \union {C} ELSE s.cycles
      /\ DOMAIN t.stack = 1..Len(t.stack)
  BY SearchFields DEF PathShortened, StackCut
<1>6. \A i \in 1..w - 1 : i \in 1..w /\ s.work[i].node \in Stacked(s)
  <2>1. \A i \in 1..w : s.work[i].node \in Stacked(s)
    BY <1>1 DEF SearchInvBut, PathIsStacked
  <2>2. \A i \in 1..w - 1 : i \in 1..w
    BY <1>2
  <2> QED BY <2>1, <2>2
<1>7. \A z \in Stacked(s) : z \in Agent /\ s.index[z] > 0
  BY <1>1, <1>2 DEF SearchInvBut, Numbered, Stacked, OnStack
<1>8. C = {s.stack[i] : i \in k..h}
  BY DEF ComponentOf
<1>p. /\ Numbered(s) /\ PathIsStacked(E, s) /\ ClosedIsClosed(E, s) /\ LookedAtAreMet(E, s, {})
      /\ StackLeadsOn(E, s) /\ StackLeadsBack(E, s) /\ LowIsReached(E, s)
      /\ LowIsLeast(E, s) /\ CyclesAreClosed(E, s)
  BY <1>1 DEF SearchInvBut
<1>o. \A i, j \in 1..h : i < j => s.index[s.stack[i]] < s.index[s.stack[j]]
  BY <1>p DEF Numbered
<1>t. s.work[w].todo = {} /\ LowPassedOn(s, t)
  OBVIOUS
<1> HIDE DEF w, h, x, k, C
<1>9. \A i \in 1..k - 1 : i \in 1..h /\ s.index[s.stack[i]] < s.index[x]
  BY <1>2, <1>4, <1>o
<1>10. \A i \in k..h : i \in 1..h /\ s.index[x] <= s.index[s.stack[i]]
  <2> SUFFICES ASSUME NEW i \in k..h PROVE i \in 1..h /\ s.index[x] <= s.index[s.stack[i]]
    OBVIOUS
  <2>1. i \in 1..h /\ (i = k \/ k < i)
    BY <1>2, <1>4
  <2>2. s.index[s.stack[i]] \in Nat /\ s.index[x] \in Nat
    BY <1>2, <1>3, <2>1
  <2> QED BY <1>4, <1>o, <2>1, <2>2
<1>11. ASSUME NEW z \in Stacked(s)
       PROVE  /\ z \in Stacked(t) <=> s.index[z] < s.index[x]
              /\ z \in C <=> s.index[x] <= s.index[z]
  <2>1. PICK i \in 1..h : s.stack[i] = z
    BY <1>2 DEF Stacked, OnStack
  <2>2. z \in Agent /\ s.index[z] \in Nat /\ s.index[x] \in Nat
    BY <1>2, <1>3, <1>7
  <2>3. CASE i < k
    <3>1. i \in 1..k - 1
      BY <1>2, <1>4, <2>3
    <3>2. s.index[z] < s.index[x]
      BY <1>9, <2>1, <3>1
    <3>3. OnStack(t, z)
      BY <1>5, <2>1, <3>1 DEF OnStack
    <3>4. z \notin C
      BY <1>8, <1>10, <2>2, <3>2
    <3> QED BY <2>2, <3>2, <3>3, <3>4 DEF Stacked
  <2>4. CASE ~(i < k)
    <3>1. i \in k..h
      BY <1>2, <1>4, <2>4
    <3>2. s.index[x] <= s.index[z] /\ z \in C
      BY <1>8, <1>10, <2>1, <3>1
    <3>3. ~OnStack(t, z)
      <4> SUFFICES ASSUME NEW j \in 1..k - 1, t.stack[j] = z PROVE FALSE
        BY <1>5 DEF OnStack
      <4>1. s.index[z] < s.index[x]
        BY <1>5, <1>9
      <4> QED BY <2>2, <3>2, <4>1
    <3> QED BY <2>2, <3>2, <3>3 DEF Stacked
  <2> QED BY <2>3, <2>4
<1>12. Stacked(t) \subseteq Stacked(s) /\ C \subseteq Stacked(s) /\ x \in C
  <2>1. \A i \in 1..h : s.stack[i] \in Stacked(s)
    BY <1>2 DEF Stacked, OnStack
  <2>2. C \subseteq Stacked(s)
    BY <1>8, <1>10, <2>1
  <2>3. Stacked(t) \subseteq Stacked(s)
    BY <1>5, <1>9, <2>1 DEF Stacked, OnStack
  <2>4. x \in C
    BY <1>2, <1>3, <1>11
  <2> QED BY <2>2, <2>3, <2>4
<1>13. Met(t) = Met(s) /\ Closed(t) = C \union Closed(s)
  <2>1. Met(t) = Met(s)
    BY <1>5 DEF Met
  <2>2. \A z \in Stacked(s) : z \in Met(s) /\ (z \in C <=> z \notin Stacked(t))
    BY <1>2, <1>3, <1>7, <1>11 DEF Met
  <2> QED BY <1>12, <2>1, <2>2 DEF Closed
<1>14. \A i \in 1..w - 1 : s.work[i].node \in Stacked(t)
  BY <1>3, <1>6, <1>11
<1>15. \A i \in 1..w : i = w \/ i \in 1..w - 1
  BY <1>2
<1>e. ASSUME NEW e \in E, LookedAt(t, e) PROVE LookedAt(s, e)
  <2> SUFFICES ASSUME NEW i \in 1..w, s.work[i].node = e[1], e[2] \in s.work[i].todo
               PROVE  Waiting(t, e)
    BY <1>5, <1>e DEF LookedAt, Waiting, w
  <2>1. i \in 1..w - 1
    BY <1>15, <1>t
  <2> QED BY <1>5, <2>1 DEF Waiting
<1>l. \A z \in Stacked(t) : t.low[z] = s.low[z]
  <2> SUFFICES ASSUME NEW z \in Stacked(t), t.low[z] # s.low[z] PROVE FALSE
    OBVIOUS
  <2>1. z \in Agent /\ z \in Stacked(s)
    BY <1>7, <1>12
  <2>2. s.low[x] < s.low[z]
    BY <1>t, <2>1 DEF LowPassedOn, x, w
  <2>3. s.low[z] <= s.index[z]
    BY <1>p, <2>1 DEF LowIsReached
  <2>4. s.index[z] < s.index[x]
    BY <1>11, <2>1
  <2> QED BY <1>2, <1>3, <2>1, <2>2, <2>3, <2>4
<1>16. \A e \in E : e[1] \in C => e[2] \in C \union Closed(s)
  <2> SUFFICES ASSUME NEW e \in E, e[1] \in C PROVE e[2] \in C \union Closed(s)
    OBVIOUS
  <2>1. e[1] \in Stacked(s) /\ e[1] \in Agent /\ s.index[x] <= s.index[e[1]] /\ s.index[e[1]] > 0
    BY <1>7, <1>11, <1>12
  <2>2. ~Waiting(s, e)
    <3> SUFFICES ASSUME NEW i \in 1..w, s.work[i].node = e[1], e[2] \in s.work[i].todo PROVE FALSE
      BY DEF Waiting, w
    <3>1. i \in 1..w - 1
      BY <1>15, <1>t
    <3> QED BY <1>2, <1>3, <2>1, <3>1
  <2>3. LookedAt(s, e)
    BY <2>1, <2>2 DEF LookedAt
  <2>4. e[2] \in Met(s)
    BY <1>p, <2>3 DEF LookedAtAreMet
  <2>5. CASE e[2] \in Stacked(s)
    <3>1. Under(s, w, e[1])
      <4>1. \A j \in 1..w : ~(j > w)
        BY <1>2
      <4> QED BY <2>1, <4>1 DEF Under, x, w
    <3>2. w \in 1..w
      BY <1>2
    <3>3. s.low[x] <= s.index[e[2]]
      BY <1>p, <2>1, <2>3, <2>5, <3>1, <3>2 DEF LowIsLeast, x, w
    <3> QED BY <1>3, <1>11, <2>5, <3>3
  <2> QED BY <2>4, <2>5 DEF Closed
<1>17. Numbered(t)
  <2>1. \A i \in 1..k - 1 : i \in 1..h /\ s.index[s.stack[i]] > 0
    BY <1>9, <1>p DEF Numbered, h
  <2>2. \A i, j \in 1..k - 1 : i < j => s.index[s.stack[i]] < s.index[s.stack[j]]
    BY <1>9, <1>o
  <2> QED BY <1>5, <1>13, <1>p, <2>1, <2>2 DEF Numbered
<1>18. PathIsStacked(E, t)
  <2>1. /\ \A i \in 1..w : \A z \in s.work[i].todo : <<s.work[i].node, z>> \in E
        /\ \A i, j \in 1..w : i < j => s.index[s.work[i].node] < s.index[s.work[j].node]
    BY <1>p DEF PathIsStacked, w
  <2> QED BY <1>5, <1>6, <1>14, <2>1 DEF PathIsStacked
<1>19. ClosedIsClosed(E, t)
  BY <1>p, <1>13, <1>16 DEF ClosedIsClosed
<1>20. LookedAtAreMet(E, t, {})
  BY <1>p, <1>e, <1>13 DEF LookedAtAreMet
<1>21. StackLeadsOn(E, t)
  BY <1>p, <1>5, <1>12 DEF StackLeadsOn
<1>22. StackLeadsBack(E, t)
  <2> SUFFICES ASSUME NEW z \in Stacked(t)
               PROVE  \E i \in 1..w - 1 : s.index[s.work[i].node] <= s.index[z] /\ Leads(E, z, s.work[i].node)
    BY <1>5 DEF StackLeadsBack
  <2>1. z \in Stacked(s) /\ s.index[z] < s.index[x] /\ z \in Agent
    BY <1>7, <1>11, <1>12
  <2>2. PICK i \in 1..w : s.index[s.work[i].node] <= s.index[z] /\ Leads(E, z, s.work[i].node)
    BY <1>p, <2>1 DEF StackLeadsBack, w
  <2>3. i # w
    BY <1>2, <1>3, <2>1, <2>2 DEF x
  <2> QED BY <1>15, <2>2, <2>3
<1>23. LowIsReached(E, t)
  <2> SUFFICES ASSUME NEW z \in Stacked(t)
               PROVE  /\ s.low[z] <= s.index[z]
                      /\ \E q \in Stacked(t) : s.index[q] = s.low[z] /\ Leads(E, z, q)
    BY <1>5, <1>l DEF LowIsReached
  <2>1. z \in Stacked(s) /\ s.index[z] < s.index[x] /\ z \in Agent
    BY <1>7, <1>11, <1>12
  <2>2. s.low[z] <= s.index[z] /\ \E q \in Stacked(s) : s.index[q] = s.low[z] /\ Leads(E, z, q)
    BY <1>p, <2>1 DEF LowIsReached
  <2>3. PICK q \in Stacked(s) : s.index[q] = s.low[z] /\ Leads(E, z, q)
    BY <2>2
  <2>4. s.index[q] < s.index[x]
    BY <1>2, <1>3, <2>1, <2>2, <2>3
  <2>5. q \in Stacked(t)
    BY <1>11, <2>4
  <2> QED BY <2>2, <2>3, <2>5
<1>24. LowIsLeast(E, t)
  <2> SUFFICES ASSUME NEW e \in E, NEW i \in 1..w - 1, LookedAt(t, e),
                      e[1] \in Stacked(t), e[2] \in Stacked(t), Under(t, i, e[1])
               PROVE  s.low[s.work[i].node] <= s.index[e[2]]
    <3>1. \A i \in 1..w - 1 : t.low[t.work[i].node] = s.low[s.work[i].node]
      BY <1>5, <1>14, <1>l
    <3> QED BY <1>5, <3>1 DEF LowIsLeast
  <2>1. LookedAt(s, e) /\ i \in 1..w /\ e[1] \in Stacked(s) /\ e[2] \in Stacked(s)
    BY <1>e, <1>6, <1>12
  <2>2. s.index[e[1]] < s.index[x]
    BY <1>11, <2>1
  <2>3. /\ s.index[s.work[i].node] <= s.index[e[1]]
        /\ \A j \in 1..w - 1 : j > i => s.index[e[1]] < s.index[s.work[j].node]
    BY <1>5 DEF Under
  <2>4. \A j \in 1..w : j > i => s.index[e[1]] < s.index[s.work[j].node]
    BY <1>15, <2>2, <2>3 DEF x
  <2>5. Under(s, i, e[1])
    BY <2>3, <2>4 DEF Under, w
  <2> QED BY <1>p, <2>1, <2>5 DEF LowIsLeast, w
<1>25. CyclesAreClosed(E, t)
  <2>1. s.cycles = ComponentsIn(E, Closed(s))
    BY <1>p DEF CyclesAreClosed
  <2>2. \A z \in C : Leads(E, x, z) /\ Leads(E, z, x)
    BY <1>3, <1>11, <1>12, <1>p DEF StackLeadsOn
  <2>3. C \cap Closed(s) = {} /\ C \in SUBSET Agent /\ Closed(s) \in SUBSET Agent
    BY <1>7, <1>12 DEF Closed, Met
  <2>4. \A e \in E : e[1] \in Closed(s) => e[2] \in Closed(s)
    BY <1>p DEF ClosedIsClosed
  <2>5. ComponentsIn(E, C \union Closed(s)) = ComponentsIn(E, Closed(s)) \union NewCycle(E, C, x)
    BY <1>12, <1>16, <2>2, <2>3, <2>4, ClosingAComponent
  <2>6. t.cycles = s.cycles \union NewCycle(E, C, x)
    BY <1>5 DEF NewCycle
  <2> QED BY <1>13, <2>1, <2>5, <2>6 DEF CyclesAreClosed
<1> QED
  BY <1>17, <1>18, <1>19, <1>20, <1>21, <1>22, <1>23, <1>24, <1>25 DEF SearchInvBut, SearchInv

-----------------------------------------------------------------------------
\* The search ends: what is left of it gets less with every step.
Left(E, s) == {e \in E : s.index[e[1]] = 0 \/ Waiting(s, e)}
Measure(E, s) == 2 * Cardinality(Agent \ Met(s)) + Len(s.work) + Cardinality(Left(E, s))
IsDone(s) == s.work = <<>> /\ Met(s) = Agent

\* The measure is a number.
LEMMA MeasureIsTyped ==
  ASSUME NEW E \in Graph, NEW s \in SearchState
  PROVE  /\ IsFiniteSet(Agent \ Met(s)) /\ Cardinality(Agent \ Met(s)) \in Nat
         /\ IsFiniteSet(E) /\ Cardinality(E) \in Nat
         /\ IsFiniteSet(Left(E, s)) /\ Cardinality(Left(E, s)) \in Nat
         /\ Len(s.work) \in Nat
         /\ Measure(E, s) \in Nat
<1>1. IsFiniteSet(Agent \ Met(s))
  BY AgentsAssumption, FS_Subset
<1>2. IsFiniteSet(E)
  BY AgentsAssumption, FS_Product, FS_Subset DEF Graph
<1>3. IsFiniteSet(Left(E, s))
  BY <1>2, FS_Subset DEF Left
<1>4. Len(s.work) \in Nat
  BY SearchFields
<1>5. /\ Cardinality(Agent \ Met(s)) \in Nat /\ Cardinality(E) \in Nat
      /\ Cardinality(Left(E, s)) \in Nat
  BY <1>1, <1>2, <1>3, FS_CardinalityType
<1>6. Measure(E, s) \in Nat
  BY <1>4, <1>5 DEF Measure
<1> QED BY <1>1, <1>2, <1>3, <1>4, <1>5, <1>6

\* Each kind of step lowers it.
LEMMA MeetGetsOn ==
  ASSUME NEW E \in Graph, NEW s \in SearchState, NEW t \in SearchState, NEW x \in Agent,
         s.index[x] = 0, MeetsAs(E, s, x, t)
  PROVE  Measure(E, t) < Measure(E, s)
<1> DEFINE w == Len(s.work)
<1>1. /\ t.index[x] = Cardinality(Met(s)) + 1 /\ Cardinality(Met(s)) \in Nat
      /\ \A z \in Agent \ {x} : t.index[z] = s.index[z]
      /\ Len(t.work) = w + 1 /\ t.work[w + 1].node = x
      /\ \A i \in 1..w : t.work[i] = s.work[i]
  BY MetIsFinite DEF MeetsAs
<1>2. /\ IsFiniteSet(Agent \ Met(s)) /\ Cardinality(Agent \ Met(s)) \in Nat
      /\ IsFiniteSet(Left(E, s)) /\ Cardinality(Left(E, s)) \in Nat
      /\ w \in Nat /\ Measure(E, s) \in Nat
      /\ Cardinality(Left(E, t)) \in Nat
  BY MeasureIsTyped
<1>3. Agent \ Met(t) = (Agent \ Met(s)) \ {x} /\ x \in Agent \ Met(s)
  BY <1>1 DEF Met
<1>4. Cardinality(Agent \ Met(t)) = Cardinality(Agent \ Met(s)) - 1
  <2>1. Cardinality((Agent \ Met(s)) \ {x}) = Cardinality(Agent \ Met(s)) - 1
    BY <1>2, <1>3, FS_RemoveElement
  <2> QED BY <1>3, <2>1
<1>5. Left(E, t) \subseteq Left(E, s)
  <2> SUFFICES ASSUME NEW e \in E, t.index[e[1]] = 0 \/ Waiting(t, e) PROVE e \in Left(E, s)
    BY DEF Left
  <2>1. e[1] \in Agent
    BY DEF Graph
  <2>2. CASE t.index[e[1]] = 0
    BY <1>1, <2>1, <2>2 DEF Left
  <2>3. CASE Waiting(t, e)
    <3>1. PICK i \in 1..w + 1 : t.work[i].node = e[1] /\ e[2] \in t.work[i].todo
      BY <1>1, <2>3 DEF Waiting
    <3>2. CASE i = w + 1
      BY <1>1, <3>1, <3>2 DEF Left
    <3>3. CASE i # w + 1
      <4>1. i \in 1..w
        BY <1>2, <3>3
      <4> QED BY <1>1, <3>1, <4>1 DEF Left, Waiting
    <3> QED BY <3>2, <3>3
  <2> QED BY <2>2, <2>3
<1>6. Cardinality(Left(E, t)) <= Cardinality(Left(E, s))
  BY <1>2, <1>5, FS_Subset
<1> DEFINE a == Cardinality(Agent \ Met(s))
           b == Cardinality(Left(E, s))
           c == Cardinality(Left(E, t))
<1>7. a \in Nat /\ b \in Nat /\ c \in Nat /\ w \in Nat /\ c <= b
  BY <1>2, <1>6
<1>8. Measure(E, t) = 2 * (a - 1) + (w + 1) + c /\ Measure(E, s) = 2 * a + w + b
  BY <1>1, <1>4 DEF Measure
<1> HIDE DEF a, b, c, w
<1> QED
  BY <1>7, <1>8

LEMMA LookGetsOn ==
  ASSUME NEW E \in Graph, NEW s, NEW t \in SearchState, NEW y, NEW l,
         SearchInv(E, s), Len(s.work) > 0, y \in s.work[Len(s.work)].todo,
         Looked(s, s.work[Len(s.work)].node, y, l, t)
  PROVE  Measure(E, t) < Measure(E, s)
<1> DEFINE w == Len(s.work)
           x == s.work[w].node
           edge == <<x, y>>
<1>1. s \in SearchState /\ SearchInvBut(E, s, {})
  BY DEF SearchInv, SearchInvBut
<1>2. /\ t.index = s.index /\ Len(t.work) = w
      /\ \A i \in 1..w : t.work[i].node = s.work[i].node
      /\ \A i \in 1..w - 1 : t.work[i].todo = s.work[i].todo
      /\ t.work[w].todo = s.work[w].todo \ {y}
  BY DEF Looked
<1>3. /\ Cardinality(Agent \ Met(s)) \in Nat
      /\ IsFiniteSet(Left(E, s)) /\ Cardinality(Left(E, s)) \in Nat
      /\ w \in Nat /\ Measure(E, s) \in Nat
      /\ Cardinality(Left(E, t)) \in Nat
  BY <1>1, MeasureIsTyped
<1>4. /\ x \in Agent /\ s.index[x] > 0 /\ s.index[x] \in Nat
      /\ \A i \in 1..w - 1 : s.index[s.work[i].node] < s.index[x]
  BY <1>1, TopOfPath, SearchFields
<1>5. w \in 1..w /\ \A i \in 1..w : i = w \/ i \in 1..w - 1
  BY <1>3
<1>6. y \in s.work[w].todo
  OBVIOUS
<1>7. edge \in E
  BY <1>1, <1>5 DEF SearchInvBut, PathIsStacked
<1>8. edge[1] = x /\ edge[2] = y
  OBVIOUS
<1> HIDE DEF w, x, edge
<1>9. edge \in Left(E, s)
  BY <1>5, <1>6, <1>7, <1>8 DEF Left, Waiting, w, x
<1>10. edge \notin Left(E, t)
  <2> SUFFICES ASSUME NEW i \in 1..w, t.work[i].node = x, y \in t.work[i].todo PROVE FALSE
    BY <1>2, <1>4, <1>8 DEF Left, Waiting
  <2>1. CASE i = w
    BY <1>2, <2>1
  <2>2. CASE i \in 1..w - 1
    <3>1. s.work[i].node = x
      BY <1>2
    <3>2. s.index[s.work[i].node] < s.index[x]
      BY <1>4, <2>2
    <3> QED BY <1>4, <3>1, <3>2
  <2> QED BY <1>5, <2>1, <2>2
<1>11. Left(E, t) \subseteq Left(E, s)
  <2> SUFFICES ASSUME NEW e \in E, NEW i \in 1..w, t.work[i].node = e[1], e[2] \in t.work[i].todo
               PROVE  Waiting(s, e)
    BY <1>2 DEF Left, Waiting
  <2>1. e[2] \in s.work[i].todo
    BY <1>2, <1>5
  <2> QED BY <1>2, <2>1 DEF Waiting, w
<1>12. Left(E, t) \subseteq Left(E, s) \ {edge}
  BY <1>10, <1>11
<1>13. /\ IsFiniteSet(Left(E, s) \ {edge})
       /\ Cardinality(Left(E, s) \ {edge}) = Cardinality(Left(E, s)) - 1
  BY <1>3, <1>9, FS_RemoveElement
<1>14. Cardinality(Left(E, t)) <= Cardinality(Left(E, s)) - 1
  BY <1>12, <1>13, FS_Subset
<1>15. Met(t) = Met(s)
  BY <1>2 DEF Met
<1> QED
  BY <1>2, <1>3, <1>14, <1>15 DEF Measure, w

LEMMA LeaveGetsOn ==
  ASSUME NEW E \in Graph, NEW s \in SearchState, NEW t \in SearchState,
         Len(s.work) > 0, PathShortened(s, t)
  PROVE  Measure(E, t) < Measure(E, s)
<1> DEFINE w == Len(s.work)
<1>1. t.index = s.index /\ Len(t.work) = w - 1 /\ \A i \in 1..w - 1 : t.work[i] = s.work[i]
  BY DEF PathShortened
<1>2. /\ Cardinality(Agent \ Met(s)) \in Nat
      /\ IsFiniteSet(Left(E, s)) /\ Cardinality(Left(E, s)) \in Nat
      /\ w \in Nat /\ Measure(E, s) \in Nat
      /\ Cardinality(Left(E, t)) \in Nat
  BY MeasureIsTyped
<1>3. Left(E, t) \subseteq Left(E, s)
  <2>1. \A i \in 1..w - 1 : i \in 1..w
    BY <1>2
  <2> QED BY <1>1, <2>1 DEF Left, Waiting
<1>4. Cardinality(Left(E, t)) <= Cardinality(Left(E, s))
  BY <1>2, <1>3, FS_Subset
<1>5. Met(t) = Met(s)
  BY <1>1 DEF Met
<1> QED
  BY <1>1, <1>2, <1>4, <1>5 DEF Measure

\* A step keeps the invariant, and unless the search is over gets on with it.
LEMMA SearchStepKeeps ==
  ASSUME NEW E \in Graph, NEW s, SearchInv(E, s)
  PROVE  /\ SearchInv(E, SearchStep(E, s))
         /\ ~IsDone(s) => Measure(E, SearchStep(E, s)) < Measure(E, s)
         /\ IsDone(s) => SearchStep(E, s) = s
<1> DEFINE w == Len(s.work)
           x == s.work[w].node
           unmet == {z \in Agent : s.index[z] = 0}
<1>1. s \in SearchState /\ SearchInvBut(E, s, {})
  BY DEF SearchInv, SearchInvBut
<1>2. w \in Nat /\ (s.work # <<>> <=> w > 0)
  <2>1. s.work \in Seq(Frame)
    BY <1>1 DEF SearchState
  <2> QED BY <2>1, EmptySeq
<1>3. Top(s) = s.work[w]
  BY DEF Top
<1>4. unmet = Agent \ Met(s)
  BY <1>1, SearchFields DEF Met
<1>5. CASE s.work # <<>> /\ Top(s).todo # {}
  <2> DEFINE y == CHOOSE z \in Top(s).todo : TRUE
  <2>1. y \in s.work[w].todo
    BY <1>3, <1>5
  <2>2. SearchStep(E, s) = LookAt(E, s, y)
    BY <1>5 DEF SearchStep
  <2>3. w > 0
    BY <1>2, <1>5
  <2>4. y \in Agent /\ x \in Agent
    BY <1>1, <1>2, <2>1, <2>3, SearchFields
  <2> HIDE DEF y
  <2>5. SearchInv(E, LookAt(E, s, y))
    BY <2>1, <2>3, LookAtKeeps
  <2>6. Measure(E, LookAt(E, s, y)) < Measure(E, s)
    <3> DEFINE rest == [s EXCEPT !.work[Len(s.work)].todo = @ \ {y}]
               lower == [rest EXCEPT !.low[x] = s.index[y]]
    <3>1. s.low[x] \in Nat /\ s.index[y] \in Nat
      BY <1>1, <2>4, SearchFields
    <3>2. /\ rest \in SearchState /\ Looked(s, x, y, s.low[x], rest)
          /\ lower \in SearchState /\ Looked(s, x, y, s.index[y], lower)
      BY <1>1, <2>3, <2>4, <3>1, LookEffect
    <3>3. LookAt(E, s, y) = IF s.index[y] = 0 THEN Meet(E, rest, y)
                        ELSE IF OnStack(s, y) /\ s.index[y] < s.low[x] THEN lower
                        ELSE rest
      BY DEF LookAt, Top
    <3> HIDE DEF rest, lower
    <3>4. Measure(E, rest) < Measure(E, s) /\ Measure(E, lower) < Measure(E, s)
      BY <2>1, <2>3, <3>2, LookGetsOn
    <3>5. CASE s.index[y] = 0
      <4>1. Meet(E, rest, y) \in SearchState /\ MeetsAs(E, rest, y, Meet(E, rest, y))
        BY <2>4, <3>2, MeetEffect
      <4>2. rest.index[y] = 0
        BY <3>2, <3>5 DEF Looked
      <4>3. Measure(E, Meet(E, rest, y)) < Measure(E, rest)
        BY <2>4, <3>2, <4>1, <4>2, MeetGetsOn
      <4>4. /\ Measure(E, Meet(E, rest, y)) \in Nat /\ Measure(E, rest) \in Nat
            /\ Measure(E, s) \in Nat
        BY <1>1, <3>2, <4>1, MeasureIsTyped
      <4> QED BY <3>3, <3>4, <3>5, <4>3, <4>4
    <3> QED BY <3>3, <3>4, <3>5
  <2> QED BY <1>5, <2>2, <2>5, <2>6 DEF IsDone
<1>6. CASE s.work # <<>> /\ Top(s).todo = {}
  <2> DEFINE t == Leave(E, s)
  <2>1. SearchStep(E, s) = t /\ w > 0 /\ s.work[w].todo = {}
    BY <1>2, <1>3, <1>6 DEF SearchStep
  <2>2. x \in Stacked(s)
    BY <1>1, <2>1, TopOfPath
  <2>3. /\ t \in SearchState
        /\ PathShortened(s, t) /\ LowPassedOn(s, t)
        /\ s.low[x] # s.index[x] => StackKept(s, t)
        /\ s.low[x] = s.index[x] => StackCut(E, s, x, t)
    BY <1>1, <2>1, <2>2, LeaveEffect
  <2> HIDE DEF t
  <2>4. SearchInv(E, t)
    BY <2>1, <2>3, LeaveOpenKeeps, LeaveCloseKeeps
  <2>5. Measure(E, t) < Measure(E, s)
    BY <1>1, <2>1, <2>3, LeaveGetsOn
  <2> QED BY <1>6, <2>1, <2>4, <2>5 DEF IsDone
<1>7. CASE s.work = <<>> /\ unmet # {}
  <2> DEFINE y == CHOOSE z \in unmet : TRUE
  <2>1. y \in unmet /\ y \in Agent /\ s.index[y] = 0
    BY <1>7
  <2>2. SearchStep(E, s) = Meet(E, s, y)
    BY <1>7 DEF SearchStep
  <2> HIDE DEF y
  <2>3. Meet(E, s, y) \in SearchState /\ MeetsAs(E, s, y, Meet(E, s, y))
    BY <1>1, <2>1, MeetEffect
  <2>4. Stacked(s) = {}
    <3>1. 1..w = {}
      BY <1>2, <1>7
    <3> QED BY <1>1, <3>1 DEF SearchInvBut, StackLeadsBack
  <2>5. SearchInv(E, Meet(E, s, y))
    BY <1>1, <2>1, <2>3, <2>4, MeetKeeps
  <2>6. Measure(E, Meet(E, s, y)) < Measure(E, s)
    BY <1>1, <2>1, <2>3, MeetGetsOn
  <2> QED BY <1>4, <1>7, <2>1, <2>2, <2>5, <2>6 DEF IsDone
<1>8. CASE s.work = <<>> /\ unmet = {}
  <2>1. SearchStep(E, s) = s
    BY <1>8 DEF SearchStep
  <2>2. IsDone(s)
    BY <1>4, <1>8 DEF IsDone, Met
  <2> QED BY <2>1, <2>2
<1> QED
  BY <1>5, <1>6, <1>7, <1>8

\* The search starts well, and when it is over has found the components.
LEMMA SearchStarts ==
  ASSUME NEW E \in Graph
  PROVE  SearchInv(E, Search) /\ Measure(E, Search) = 2 * Cardinality(Agent) + Cardinality(E)
<1> DEFINE s == Search
<1>1. /\ \A x \in Agent : s.index[x] = 0
      /\ s.stack = <<>> /\ s.work = <<>> /\ s.cycles = {}
      /\ Len(s.stack) = 0 /\ Len(s.work) = 0
  BY DEF Search
<1>2. s \in SearchState
  BY DEF Search, SearchState
<1>3. DOMAIN s.stack = 1..Len(s.stack)
  BY <1>2, SearchFields
<1> HIDE DEF s
<1>4. Met(s) = {} /\ Stacked(s) = {} /\ Closed(s) = {}
  BY <1>1, <1>3 DEF Met, Stacked, OnStack, Closed
<1>5. \A e \in E : ~LookedAt(s, e) /\ e \in Left(E, s)
  BY <1>1 DEF LookedAt, Left, Graph
<1>6. ComponentsIn(E, {}) = {}
  <2>1. \A K \in Components(E) : K # {}
    BY ClassesAreComponents
  <2> QED BY <2>1 DEF ComponentsIn
<1>7. Numbered(s)
  BY <1>1, <1>4, FS_EmptySet DEF Numbered
<1>8. PathIsStacked(E, s)
  BY <1>1 DEF PathIsStacked
<1>9. SearchInv(E, s)
  BY <1>1, <1>2, <1>4, <1>5, <1>6, <1>7, <1>8
  DEF SearchInv, SearchInvBut, ClosedIsClosed, LookedAtAreMet, StackLeadsOn, StackLeadsBack,
      LowIsReached, LowIsLeast, CyclesAreClosed
<1>10. Left(E, s) = E /\ Agent \ Met(s) = Agent
  BY <1>4, <1>5 DEF Left
<1>11. Cardinality(Agent) \in Nat /\ Cardinality(E) \in Nat
  BY <1>2, AgentsAssumption, FS_CardinalityType, MeasureIsTyped
<1>12. Measure(E, s) = 2 * Cardinality(Agent) + Cardinality(E)
  <2>1. Measure(E, s) = 2 * Cardinality(Agent) + 0 + Cardinality(E)
    BY <1>1, <1>10 DEF Measure
  <2> QED BY <1>11, <2>1
<1> QED
  BY <1>9, <1>12 DEF s

LEMMA DoneHasFound ==
  ASSUME NEW E \in Graph, NEW s, SearchInv(E, s), IsDone(s)
  PROVE  s.cycles = Components(E)
<1>1. 1..Len(s.work) = {}
  BY DEF IsDone
<1>2. Stacked(s) = {}
  BY <1>1 DEF SearchInv, SearchInvBut, StackLeadsBack
<1>3. Closed(s) = Agent
  BY <1>2 DEF Closed, IsDone
<1>4. ComponentsIn(E, Agent) = Components(E)
  BY DEF ComponentsIn, Components
<1> QED
  BY <1>3, <1>4 DEF SearchInv, SearchInvBut, CyclesAreClosed

\* A non-empty set of numbers has a least one.
LEMMA LeastNumber ==
  ASSUME NEW T \in SUBSET Nat, T # {}
  PROVE  \E n \in T : \A k \in T : n <= k
<1>1. PICK n \in T : \A k \in T : ~(<<k, n>> \in OpToRel(<, Nat))
  BY WFMin, NatLessThanWellFounded
<1>2. \A k \in T : ~(k < n)
  BY <1>1 DEF OpToRel
<1> QED BY <1>2

\* The states of the search one after the other: the recursion in FindCycles
\* has a solution.
StepFrom(E, before) == CHOOSE t \in {SearchStep(E, s) : s \in {before}} : TRUE

LEMMA NextIsTheStep ==
  ASSUME NEW E, NEW before PROVE StepFrom(E, before) = SearchStep(E, before)
  BY DEF StepFrom

LEMMA SearchesExist ==
  ASSUME NEW E, NEW steps \in Nat
  PROVE  \E f : f = [n \in 0..steps |-> IF n = 0 THEN Search ELSE StepFrom(E, f[n - 1])]
<1> DEFINE Body(f, n) == IF n = 0 THEN Search ELSE StepFrom(E, f[n - 1])
           Solved(m) == \E f : f = [n \in 0..m |-> Body(f, n)]
           T == {m \in Nat : ~Solved(m)}
<1>1. SUFFICES ASSUME T # {} PROVE FALSE
  BY <1>1
<1>2. PICK m \in T : \A k \in T : m <= k
  BY <1>1, LeastNumber
<1>3. m # 0
  <2>1. [n \in 0..0 |-> Search] = [n \in 0..0 |-> Body([k \in 0..0 |-> Search], n)]
    OBVIOUS
  <2> QED BY <2>1, <1>2
<1>4. Solved(m - 1)
  <2>1. m - 1 \in Nat /\ ~(m <= m - 1)
    BY <1>2, <1>3
  <2>2. m - 1 \notin T
    BY <1>2, <2>1
  <2> HIDE DEF Solved
  <2> QED BY <2>1, <2>2
<1>5. PICK f : f = [n \in 0..(m - 1) |-> Body(f, n)]
  BY <1>4
<1> DEFINE g == [n \in 0..m |-> IF n = m THEN StepFrom(E, f[m - 1]) ELSE f[n]]
<1>6. ASSUME NEW n \in 0..m PROVE g[n] = Body(g, n)
  <2>1. CASE n = m
    BY <2>1, <1>3
  <2>2. CASE n # m
    <3>1. n \in 0..(m - 1) /\ g[n] = f[n] /\ (n # 0 => g[n - 1] = f[n - 1])
      BY <2>2
    <3>2. f[n] = Body(f, n)
      BY <3>1, <1>5
    <3> QED BY <3>1, <3>2
  <2> QED BY <2>1, <2>2
<1> HIDE DEF Body
<1>7. g = [n \in 0..m |-> Body(g, n)]
  BY <1>6
<1> QED BY <1>7, <1>2

\* The depth-first search of find_cycles, for every graph of any number of
\* agents and whatever order it takes them in, finds the sets of agents that
\* wait on one another, each of them and nothing else.
THEOREM TarjanFindsTheComponents ==
  ASSUME NEW E \in SUBSET (Agent \X Agent)
  PROVE  FindCycles(E) = Components(E)
<1> DEFINE steps == 2 * Cardinality(Agent) + Cardinality(E)
<1>1. E \in Graph
  BY DEF Graph
<1>2. SearchInv(E, Search) /\ Measure(E, Search) = steps
  BY <1>1, SearchStarts
<1>3. Search \in SearchState
  BY <1>2 DEF SearchInv, SearchInvBut
<1>4. steps \in Nat
  BY <1>1, <1>2, <1>3, MeasureIsTyped
<1> HIDE DEF steps
<1> DEFINE after == CHOOSE f : f = [n \in 0..steps |-> IF n = 0 THEN Search ELSE StepFrom(E, f[n - 1])]
<1>5. after = [n \in 0..steps |-> IF n = 0 THEN Search ELSE StepFrom(E, after[n - 1])]
  BY <1>4, SearchesExist
<1>6. FindCycles(E) = after[steps].cycles
  BY DEF FindCycles, StepFrom, steps
<1> HIDE DEF after
<1>7. after[0] = Search /\ \A n \in 1..steps : after[n] = SearchStep(E, after[n - 1])
  <2>1. \A n \in 1..steps : n \in 0..steps /\ n # 0
    BY <1>4
  <2> QED BY <1>4, <1>5, <2>1, NextIsTheStep
<1> DEFINE Good(n) == SearchInv(E, after[n]) /\ (IsDone(after[n]) \/ Measure(E, after[n]) <= steps - n)
           T == {n \in Nat : n <= steps /\ ~Good(n)}
<1>8. \A n \in 0..steps : Good(n)
  <2> SUFFICES ASSUME T # {} PROVE FALSE
    BY <1>4
  <2>1. PICK m \in T : \A k \in T : m <= k
    BY LeastNumber
  <2>2. m # 0
    BY <1>2, <1>4, <1>7, <2>1
  <2>3. m - 1 \in Nat /\ m \in 1..steps /\ Good(m - 1)
    BY <1>4, <2>1, <2>2
  <2> DEFINE s == after[m - 1]
  <2>4. after[m] = SearchStep(E, s)
    BY <1>7, <2>3
  <2>5. SearchInv(E, s) /\ (IsDone(s) \/ Measure(E, s) <= steps - (m - 1))
    BY <2>3
  <2> HIDE DEF s
  <2>6. /\ SearchInv(E, after[m])
        /\ ~IsDone(s) => Measure(E, after[m]) < Measure(E, s)
        /\ IsDone(s) => after[m] = s
    BY <1>1, <2>4, <2>5, SearchStepKeeps
  <2>7. s \in SearchState /\ after[m] \in SearchState
    BY <2>5, <2>6 DEF SearchInv, SearchInvBut
  <2>8. Measure(E, s) \in Nat /\ Measure(E, after[m]) \in Nat
    BY <1>1, <2>7, MeasureIsTyped
  <2>9. Good(m)
    <3>1. CASE IsDone(s)
      BY <2>6, <3>1
    <3>2. CASE ~IsDone(s)
      <4>1. Measure(E, after[m]) <= steps - m
        BY <1>4, <2>1, <2>5, <2>6, <2>8, <3>2
      <4> QED BY <2>6, <4>1
    <3> QED BY <3>1, <3>2
  <2> QED BY <2>1, <2>9
<1> DEFINE s == after[steps]
<1>9. SearchInv(E, s) /\ (IsDone(s) \/ Measure(E, s) <= 0)
  <2>1. steps \in 0..steps /\ steps - steps = 0
    BY <1>4
  <2> QED BY <1>8, <2>1
<1> HIDE DEF s
<1>10. s \in SearchState
  BY <1>9 DEF SearchInv, SearchInvBut
<1>11. IsDone(s)
  <2> SUFFICES ASSUME Measure(E, s) <= 0 PROVE IsDone(s)
    BY <1>9
  <2>1. /\ Cardinality(Agent \ Met(s)) \in Nat /\ IsFiniteSet(Agent \ Met(s))
        /\ Cardinality(Left(E, s)) \in Nat /\ Len(s.work) \in Nat
    BY <1>1, <1>10, MeasureIsTyped
  <2>2. Cardinality(Agent \ Met(s)) = 0 /\ Len(s.work) = 0
    BY <2>1 DEF Measure
  <2>3. Agent \ Met(s) = {}
    BY <2>1, <2>2, FS_EmptySet
  <2>4. s.work = <<>>
    <3>1. s.work \in Seq(Frame)
      BY <1>10 DEF SearchState
    <3> QED BY <2>2, <3>1, EmptySeq
  <2> QED BY <2>3, <2>4 DEF IsDone, Met
<1>12. s.cycles = Components(E)
  BY <1>1, <1>9, <1>11, DoneHasFound
<1> QED
  BY <1>6, <1>12 DEF s
-----------------------------------------------------------------------------
(* What the scans make of the search *)

\* The view after a step is one of rows over known claims, agents and resources.
LEMMA ViewIsTyped == CurrentView' \in View
<1>1. \A how : Rows(how)' \subseteq Row
  BY RowsAssumption DEF Rows, Row
<1> QED BY <1>1 DEF CurrentView, View

LEMMA EdgesAreTyped ==
  ASSUME NEW v \in View
  PROVE  /\ Edges(v) \in SUBSET (Agent \X Agent)
         /\ \A e \in Waits(v) : e[1] \in Row /\ e[2] \in Row
<1>1. \A e \in Waits(v) : e[1] \in Row /\ e[2] \in Row
  BY DEF Waits, View
<1>2. \A x \in Row : x.agent \in Agent
  BY DEF Row
<1> QED BY <1>1, <1>2 DEF Edges

\* The cycles of a view are those of its components.
LEMMA CyclesOfComponents ==
  ASSUME NEW v \in View
  PROVE  Cycles(v) = {CycleDeadlock(v, C) : C \in Components(Edges(v))}
  BY EdgesAreTyped, TarjanFindsTheComponents DEF Cycles

LEMMA CycleIsTyped ==
  ASSUME NEW v \in View, NEW C \in Components(Edges(v))
  PROVE  CycleDeadlock(v, C) \in Deadlock
<1>1. C \in SUBSET Agent
  BY DEF Components
<1>2. \A e \in Waits(v) : /\ e[1].resource \in Resource /\ e[1].claim \in ClaimId
                          /\ e[2].claim \in ClaimId
  BY EdgesAreTyped DEF Row
<1>3. {e[1].resource : e \in Involving(v, C)} \in SUBSET Resource
  BY <1>2 DEF Involving
<1>4. {e[1].claim : e \in {w \in Waits(v) : w[1].agent \in C}}
      \union {e[2].claim : e \in {w \in Waits(v) : w[2].agent \in C}} \in SUBSET ClaimId
  BY <1>2
<1> QED BY <1>1, <1>3, <1>4 DEF CycleDeadlock, Deadlock

LEMMA ContestedDeadlockIsTyped ==
  ASSUME NEW v \in View, NEW r \in Contested(v)
  PROVE  ContestedDeadlock(v, r) \in Deadlock
<1>1. v.blocked \subseteq Row /\ v.held \subseteq Row /\ v.challenged \subseteq Row
  BY DEF View
<1>2. r \in Resource
  BY <1>1 DEF Contested, Row
<1>3. \A x \in ContestedRows(v, r) : x.claim \in ClaimId
  BY <1>1 DEF ContestedRows, On, Row
<1> QED BY <1>2, <1>3 DEF ContestedDeadlock, Deadlock

ReportsAreTyped == found \subseteq Deadlock /\ {Key(d) : d \in found} \subseteq fired

LEMMA ReportsStep ==
  ReportsAreTyped /\ [RoundsNext]_roundVars => ReportsAreTyped'
<1> SUFFICES ASSUME ReportsAreTyped, [RoundsNext]_roundVars PROVE ReportsAreTyped'
  OBVIOUS
<1>1. CASE Round
  <2> PICK v : v = CurrentView'
    OBVIOUS
  <2>1. v \in View
    BY ViewIsTyped
  <2>2. found' = NewCycles(v) \union NewContested(v) /\ fired' = fired \union {Key(d) : d \in found'}
    BY <1>1 DEF Round, Scan
  <2>3. NewCycles(v) \subseteq Deadlock
    BY <2>1, CyclesOfComponents, CycleIsTyped DEF NewCycles
  <2>4. NewContested(v) \subseteq Deadlock
    BY <2>1, ContestedDeadlockIsTyped DEF NewContested
  <2> QED BY <2>2, <2>3, <2>4 DEF ReportsAreTyped
<1>2. ASSUME NEW q \in Resource, Ruled(q) PROVE ReportsAreTyped'
  BY <1>2 DEF Ruled, ResetResources, ReportsAreTyped
<1>3. CASE UNCHANGED roundVars
  BY <1>3 DEF roundVars, detectorVars, ReportsAreTyped
<1> QED
  BY <1>1, <1>2, <1>3 DEF RoundsNext

\* Streaks never pass contested_rounds, and what a scan returns is a deadlock
\* over known agents, resources and claims that is on record as reported.
THEOREM DetectorIsTyped == RoundsSpec => []DetectorTypeOK
<1>1. RoundsInit => ReportsAreTyped
  BY DEF RoundsInit, DetectorInit, ReportsAreTyped
<1>2. RoundsSpec => []ReportsAreTyped
  BY <1>1, ReportsStep, PTL DEF RoundsSpec
<1>3. StreakInv /\ ReportsAreTyped => DetectorTypeOK
  BY DEF StreakInv, RecentIsTyped, ReportsAreTyped, DetectorTypeOK
<1> QED
  BY <1>2, <1>3, StreakInvHolds, PTL

\* Whoever waits on one another, two agents or a ring of any length, is on
\* record as a deadlock once a round is over, and the search reports no other
\* set of agents.
THEOREM CircularWaitsAreReported == RoundsSpec => []CircularWaitsReported
<1>1. RoundsInit => CircularWaitsReported
  BY DEF RoundsInit, CircularWaitsReported
<1>2. CircularWaitsReported /\ [RoundsNext]_roundVars => CircularWaitsReported'
  <2> SUFFICES ASSUME CircularWaitsReported, [RoundsNext]_roundVars PROVE CircularWaitsReported'
    OBVIOUS
  <2>1. CASE Round
    <3> PICK v : v = CurrentView'
      OBVIOUS
    <3>1. v \in View
      BY ViewIsTyped
    <3>2. found' = NewCycles(v) \union NewContested(v) /\ fired' = fired \union {Key(d) : d \in found'}
      BY <2>1 DEF Round, Scan
    <3>3. Cycles(v) = {CycleDeadlock(v, C) : C \in Components(Edges(v))}
      BY <3>1, CyclesOfComponents
    <3>4. \A C \in Components(Edges(v)) : Key(CycleDeadlock(v, C)) \in fired'
      BY <3>2, <3>3 DEF NewCycles
    <3>5. \A d \in found' : d.kind = "cycle" => d.agents \in Components(Edges(v))
      <4>1. \A d \in NewContested(v) : d.kind = "contested"
        BY DEF NewContested, ContestedDeadlock
      <4>2. \A d \in NewCycles(v) : d.agents \in Components(Edges(v))
        BY <3>3 DEF NewCycles, CycleDeadlock
      <4> QED BY <3>2, <4>1, <4>2
    <3> QED BY <3>4, <3>5 DEF CircularWaitsReported
  <2>2. ASSUME NEW q \in Resource, Ruled(q) PROVE CircularWaitsReported'
    <3>1. CurrentView' = CurrentView /\ fired' = fired /\ found' = found /\ scans' = scans
      BY <2>2 DEF Ruled, ResetResources, CurrentView, Rows
    <3> QED BY <3>1 DEF CircularWaitsReported
  <2>3. CASE UNCHANGED roundVars
    <3>1. CurrentView' = CurrentView /\ fired' = fired /\ found' = found /\ scans' = scans
      BY <2>3 DEF roundVars, detectorVars, CurrentView, Rows
    <3> QED BY <3>1 DEF CircularWaitsReported
  <2> QED BY <2>1, <2>2, <2>3 DEF RoundsNext
<1> QED
  BY <1>1, <1>2, PTL DEF RoundsSpec

\* Each member of a component waits on a member of it.
LEMMA MembersWaitOnMembers ==
  ASSUME NEW E \in Graph, NEW C \in Components(E), NEW a \in C
  PROVE  \E b \in C : <<a, b>> \in E
<1>1. PICK x \in Agent : x \in C /\ Reaches(E, x, x) /\ C = Class(E, x)
  BY ClassesAreComponents
<1>2. Reaches(E, x, a) /\ Reaches(E, a, x) /\ a \in Agent
  BY <1>1 DEF Class
<1>3. Reaches(E, a, a) /\ Class(E, a) = C
  BY <1>1, <1>2, ReachesOn, SameClass
<1>4. PICK e \in E : e[1] = a /\ (e[2] = a \/ Reaches(E, e[2], a))
  BY <1>3, ReachesFirst
<1>5. e = <<a, e[2]>> /\ e[2] \in Agent
  BY <1>4 DEF Graph
<1>6. e[2] \in C
  BY <1>1, <1>2, <1>3, <1>4, <1>5, EdgeReaches DEF Class
<1> QED BY <1>4, <1>5, <1>6

\* A mediator who is shown a cycle is shown one: every agent of it waits on
\* another, and the report names the resource and both claims.
THEOREM ReportsOfCyclesAreTrue == RoundsSpec => ReportedCyclesAreCycles
<1> DEFINE Cyclic == \A d \in found' : scans' # scans /\ d.kind = "cycle" =>
             \A a \in d.agents : \E e \in Waits(CurrentView') :
               /\ e[1].agent = a /\ e[2].agent \in d.agents
               /\ e[1].resource = e[2].resource /\ e[1].resource \in d.resources
               /\ {e[1].claim, e[2].claim} \subseteq d.claims
<1>1. [RoundsNext]_roundVars => [Cyclic]_roundVars
  <2> SUFFICES ASSUME RoundsNext, scans' # scans,
                      NEW d \in found', d.kind = "cycle", NEW a \in d.agents
               PROVE  \E e \in Waits(CurrentView') :
                        /\ e[1].agent = a /\ e[2].agent \in d.agents
                        /\ e[1].resource = e[2].resource /\ e[1].resource \in d.resources
                        /\ {e[1].claim, e[2].claim} \subseteq d.claims
    OBVIOUS
  <2>1. Round
    BY DEF RoundsNext, Ruled
  <2> PICK v : v = CurrentView'
    OBVIOUS
  <2>2. v \in View
    BY ViewIsTyped
  <2>3. d \in NewCycles(v)
    <3>1. \A c \in NewContested(v) : c.kind = "contested"
      BY DEF NewContested, ContestedDeadlock
    <3> QED BY <2>1, <3>1 DEF Round, Scan
  <2>4. PICK C \in Components(Edges(v)) : d = CycleDeadlock(v, C)
    BY <2>2, <2>3, CyclesOfComponents DEF NewCycles
  <2>5. a \in C
    BY <2>4 DEF CycleDeadlock
  <2>6. PICK b \in C : <<a, b>> \in Edges(v)
    BY <2>2, <2>5, EdgesAreTyped, MembersWaitOnMembers DEF Graph
  <2>7. PICK e \in Waits(v) : <<e[1].agent, e[2].agent>> = <<a, b>>
    BY <2>6 DEF Edges
  <2>8. e[1].agent = a /\ e[2].agent = b /\ e[1].resource = e[2].resource
    BY <2>7 DEF Waits
  <2>9. e[1].resource \in d.resources
    BY <2>4, <2>5, <2>8 DEF CycleDeadlock, Involving
  <2>10. {e[1].claim, e[2].claim} \subseteq d.claims
    BY <2>4, <2>5, <2>8 DEF CycleDeadlock
  <2>11. e[2].agent \in d.agents
    BY <2>4, <2>8 DEF CycleDeadlock
  <2> QED BY <2>8, <2>9, <2>10, <2>11
<1> QED
  BY <1>1, PTL DEF RoundsSpec, ReportedCyclesAreCycles
=============================================================================
