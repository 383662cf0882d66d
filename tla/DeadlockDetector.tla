-------------------------- MODULE DeadlockDetector --------------------------
(***************************************************************************)
(* The deadlock detector (src/src/tarmac_society/deadlock.py), scanned     *)
(* once a round.  What a scan reads of the ledger and the bank is a view:  *)
(*   blocked     the blocked claims                                        *)
(*   held        the claims that hold units                                *)
(*   challenged  the granted claims with an open contest                   *)
(* each a set of [claim, agent, resource], the agent being the claimant.   *)
(* The agents of a contested deadlock only choose the positions a mediator *)
(* is shown; they are left out.                                            *)
(*                                                                         *)
(* The streak of a resource that has none is 0; one that has reached       *)
(* ContestedRounds is not counted further, since only >= is ever asked.    *)
(***************************************************************************)
EXTENDS Naturals, Sequences, FiniteSets

CONSTANTS Agent, Resource, ClaimId, ContestedRounds

ASSUME ContestedRoundsAssumption == ContestedRounds \in Nat \ {0}
ASSUME AgentsAssumption == IsFiniteSet(Agent)

VARIABLES streaks,   \* DeadlockDetector._streaks
          fired,     \* DeadlockDetector._fired
          found      \* what the last scan returned

detectorVars == <<streaks, fired, found>>

Row == [claim : ClaimId, agent : Agent, resource : Resource]
View == [blocked : SUBSET Row, held : SUBSET Row, challenged : SUBSET Row]
Deadlock == [kind : {"cycle", "contested"}, resources : SUBSET Resource,
             agents : SUBSET Agent, claims : SUBSET ClaimId]
-----------------------------------------------------------------------------
(* The wait-for graph *)

\* A blocked claim b waits on a claim h of another agent for one resource.
Waits_OnAnybody(v) == {e \in v.blocked \X v.held : e[1].agent # e[2].agent}
Waits(v) ==
  {e \in v.blocked \X v.held : /\ e[1].resource = e[2].resource
                               /\ e[1].agent # e[2].agent}

Edges(v) == {<<e[1].agent, e[2].agent>> : e \in Waits(v)}

\* find_cycles: Tarjan's search over the wait-for graph, one node met, one
\* child looked at or one node left at a time.  index is 0 for a node that has
\* not been met.  The code's order, by name, is an arbitrary one here.
Search == [index |-> [x \in Agent |-> 0], low |-> [x \in Agent |-> 0],
           stack |-> <<>>, work |-> <<>>, cycles |-> {}]
OnStack(s, x) == \E i \in DOMAIN s.stack : s.stack[i] = x
Top(s) == s.work[Len(s.work)]

Meet(E, s, x) ==
  LET number == 1 + Cardinality({y \in Agent : s.index[y] > 0})
  IN [s EXCEPT !.index[x] = number, !.low[x] = number,
               !.stack = Append(@, x),
               !.work = Append(@, [node |-> x, todo |-> {y \in Agent : <<x, y>> \in E}])]

LookAt(E, s, y) ==
  LET x == Top(s).node
      rest == [s EXCEPT !.work[Len(s.work)].todo = @ \ {y}]
  IN IF s.index[y] = 0 THEN Meet(E, rest, y)
     ELSE IF OnStack(s, y) /\ s.index[y] < s.low[x]
     THEN [rest EXCEPT !.low[x] = s.index[y]]
     ELSE rest

\* The component of x is what was stacked since x was.
PlaceOf(s, x) == CHOOSE i \in DOMAIN s.stack : s.stack[i] = x
ComponentOf(s, x) == {s.stack[i] : i \in PlaceOf(s, x)..Len(s.stack)}
Close(E, s, x) ==
  LET C == ComponentOf(s, x)
  IN IF s.low[x] # s.index[x] THEN s
     ELSE [s EXCEPT !.stack = SubSeq(@, 1, PlaceOf(s, x) - 1),
                    !.cycles = IF Cardinality(C) >= 2 \/ <<x, x>> \in E
                               THEN @ \union {C} ELSE @]

Leave_ForgetsTheParent(E, s) ==
  LET x == Top(s).node
      closed == Close(E, s, x)
  IN [closed EXCEPT !.work = SubSeq(@, 1, Len(@) - 1)]
Leave(E, s) ==
  LET x == Top(s).node
      closed == Close(E, s, x)
      work == SubSeq(s.work, 1, Len(s.work) - 1)
      left == [closed EXCEPT !.work = work]
  IN IF work = <<>> \/ s.low[x] >= s.low[Top(left).node] THEN left
     ELSE [left EXCEPT !.low[Top(left).node] = s.low[x]]

SearchStep(E, s) ==
  LET unmet == {x \in Agent : s.index[x] = 0}
  IN IF s.work # <<>> /\ Top(s).todo # {}
       THEN LookAt(E, s, CHOOSE y \in Top(s).todo : TRUE)
     ELSE IF s.work # <<>> THEN Leave(E, s)
     ELSE IF unmet # {} THEN Meet(E, s, CHOOSE x \in unmet : TRUE)
     ELSE s

\* Every node is met and left once, and every edge looked at once.
FindCycles(E) ==
  LET steps == 2 * Cardinality(Agent) + Cardinality(E)
      after[n \in 0..steps] ==
        IF n = 0 THEN Search
        ELSE CHOOSE t \in {SearchStep(E, s) : s \in {after[n - 1]}} : TRUE
  IN after[steps].cycles

\* involved: the resources and claims of every wait an agent of C is part of.
Involving(v, C) == {e \in Waits(v) : e[1].agent \in C \/ e[2].agent \in C}
CycleDeadlock(v, C) ==
  [kind |-> "cycle",
   resources |-> {e[1].resource : e \in Involving(v, C)},
   agents |-> C,
   claims |-> {e[1].claim : e \in {w \in Waits(v) : w[1].agent \in C}}
              \union {e[2].claim : e \in {w \in Waits(v) : w[2].agent \in C}}]
Cycles(v) == {CycleDeadlock(v, C) : C \in FindCycles(Edges(v))}
-----------------------------------------------------------------------------
(* Contested resources *)

On(rows, r) == {x \in rows : x.resource = r}
Contested(v) == {x.resource : x \in v.blocked \union v.challenged}
ContestedRows(v, r) ==
  On(v.blocked, r) \union On(v.challenged, r)
  \union (IF On(v.blocked, r) # {} THEN On(v.held, r) ELSE {})

ContestedDeadlock(v, r) ==
  [kind |-> "contested", resources |-> {r},
   agents |-> {},
   claims |-> {x.claim : x \in ContestedRows(v, r)}]

\* A resource that is not contested loses its streak.
NextStreak_NeverBroken(v, r) ==
  IF r \notin Contested(v) THEN streaks[r]
  ELSE IF streaks[r] < ContestedRounds THEN streaks[r] + 1
  ELSE ContestedRounds
NextStreak(v, r) ==
  IF r \notin Contested(v) THEN 0
  ELSE IF streaks[r] < ContestedRounds THEN streaks[r] + 1
  ELSE ContestedRounds

\* What tells a deadlock from those already reported.
Key(d) ==
  IF d.kind = "cycle" THEN <<"cycle", d.agents, d.claims>>
  ELSE <<"contested", d.resources, d.claims>>
-----------------------------------------------------------------------------
(* The operations *)

DetectorInit ==
  /\ streaks = [r \in Resource |-> 0]
  /\ fired = {}
  /\ found = {}

\* Cycles first; a resource escalating through a new cycle is not also
\* reported as contested this round.
NewCycles(v) == {d \in Cycles(v) : Key(d) \notin fired}
NewContested_LateByOne(v) ==
  {d \in {ContestedDeadlock(v, r) :
            r \in {s \in Contested(v) \ UNION {d.resources : d \in NewCycles(v)} :
                     streaks[s] >= ContestedRounds}} :
     Key(d) \notin fired}
NewContested(v) ==
  {d \in {ContestedDeadlock(v, r) :
            r \in {s \in Contested(v) \ UNION {d.resources : d \in NewCycles(v)} :
                     NextStreak(v, s) >= ContestedRounds}} :
     Key(d) \notin fired}

Scan_ForgetsContested(v) ==
  /\ found' = NewCycles(v) \union NewContested(v)
  /\ streaks' = [r \in Resource |-> NextStreak(v, r)]
  /\ fired' = fired \union {Key(d) : d \in NewCycles(v)}
Scan(v) ==
  /\ found' = NewCycles(v) \union NewContested(v)
  /\ streaks' = [r \in Resource |-> NextStreak(v, r)]
  /\ fired' = fired \union {Key(d) : d \in found'}

\* reset_resource, for each r of R
ResetResources(R) ==
  /\ streaks' = [r \in Resource |-> IF r \in R THEN 0 ELSE streaks[r]]
  /\ UNCHANGED <<fired, found>>
-----------------------------------------------------------------------------
(* Properties *)

\* Streaks, keys and reports are over known resources, agents and claims, and
\* what was just reported is on record.
DetectorTypeOK ==
  /\ streaks \in [Resource -> 0..ContestedRounds]
  /\ found \subseteq Deadlock
  /\ {Key(d) : d \in found} \subseteq fired
=============================================================================
