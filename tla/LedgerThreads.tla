---------------------------- MODULE LedgerThreads ----------------------------
(***************************************************************************)
(* One ClaimLedger called by several threads, and a process that may die.  *)
(* ClaimLedger.tla takes a call as one step; here a call is the sequence   *)
(* of queries, write transactions and log appends it is made of            *)
(* (ledger.py on storage.py and chainlog.py).  The lock of SQLiteStorage   *)
(* and BEGIN IMMEDIATE make a query or a transaction one step; nothing     *)
(* holds the lock between two of them.                                     *)
(*                                                                         *)
(* What threads can race for is one resource of one exclusivity group; a   *)
(* claim is its beneficiaries and its status, and all calls are their      *)
(* owner's or the mediator's.  Taking the next claim id is one step: on    *)
(* the CPython versions the project supports no thread switch can fall     *)
(* between the increment and the read.                                     *)
(***************************************************************************)
EXTENDS ChainLog, FiniteSets, SequencesExt

CONSTANTS Beneficiary, Capacity, MaxClaims,
          HasLog,       \* whether the ledger was given a decision log
          MaxCalls,     \* bound: calls made
          MaxCrashes    \* bound: deaths of the process

ASSUME TableAssumption ==
  IsFiniteSet(Beneficiary) /\ Capacity \in Nat /\ MaxClaims \in Nat

VARIABLES claims, alloc, claimSeq,
          thread,                  \* what each thread is doing
          calls, crashes

ClaimId == 1..MaxClaims
Note == [kind |-> "note"]
Unit(kind, b) == [kind |-> kind, ben |-> b]
LedgerEvent == {Note} \union {Unit(k, b) : k \in {"alloc", "dealloc"}, b \in Beneficiary}
ASSUME EventAssumption == LedgerEvent \subseteq Event

ledgerVars == <<claims, alloc, claimSeq>>
vars == <<ledgerVars, logVars, thread, calls, crashes>>

Absent == [status |-> "absent", bens |-> {}]
Resting == [at |-> "rest", say |-> <<>>]

\* A thread: where it is in its call, what it has still to log, the call, and
\* what it read of the claim.
Going(at, say, op, c, S) ==
  [at |-> at, say |-> say, op |-> op, claim |-> c, bens |-> S, status |-> "absent"]

At(t, place) == thread[t].at = place /\ thread[t].say = <<>>
AtRest == \A t \in Thread : At(t, "rest")
Say(events) == IF HasLog THEN events ELSE <<>>
Move(t, at) == thread' = [thread EXCEPT ![t].at = at]
\* The call ends, in an answer or an exception, once the events are logged.
Return(t, events) == thread' = [thread EXCEPT ![t] = [Resting EXCEPT !.say = Say(events)]]
MoveSaying(t, at, events) ==
  thread' = [thread EXCEPT ![t].at = at, ![t].say = Say(events)]

Holders(c) == {x.ben : x \in {y \in alloc : y.claim = c}}
UnitsFor(c, S) == [claim : {c}, ben : S]
Fits(S) == /\ Cardinality(alloc) + Cardinality(S) <= Capacity
           /\ S \intersect {x.ben : x \in alloc} = {}
EventsOf(kind, S) == SetToSeq({Unit(kind, b) : b \in S})
-----------------------------------------------------------------------------
Init ==
  /\ claims = [c \in ClaimId |-> Absent]
  /\ alloc = {}
  /\ claimSeq = 0
  /\ LogInit
  /\ thread = [t \in Thread |-> Resting]
  /\ calls = 0
  /\ crashes = 0

\* The run opens its log before it makes the ledger that its threads share.
Open(t) ==
  /\ HasLog /\ AtRest
  /\ AskGenesis(t)
  /\ thread' = [thread EXCEPT ![t].say = <<Genesis>>]
  /\ UNCHANGED <<ledgerVars, calls, crashes>>
Opened == HasLog => head.seq > 0

\* submit_plain logs the bid and then applies it.
CallSubmit_FromTheTable(t, S) ==
  /\ At(t, "rest")
  /\ calls < MaxCalls
  /\ calls' = calls + 1
  /\ claimSeq' = Cardinality({c \in ClaimId : claims[c] # Absent}) + 1
  /\ claimSeq' <= MaxClaims
  /\ thread' = [thread EXCEPT ![t] = Going("apply", Say(<<Note>>), "submit", claimSeq', S)]
  /\ UNCHANGED <<claims, alloc, logVars, crashes>>
CallSubmit(t, S) ==
  /\ At(t, "rest")
  /\ Opened /\ calls < MaxCalls /\ claimSeq < MaxClaims
  /\ calls' = calls + 1
  /\ claimSeq' = claimSeq + 1
  /\ thread' = [thread EXCEPT ![t] = Going("apply", Say(<<Note>>), "submit", claimSeq', S)]
  /\ UNCHANGED <<claims, alloc, logVars, crashes>>

\* release, withdraw_claim, void_claim and a ruling's grant first look.
CallOn(t, op, c) ==
  /\ At(t, "rest")
  /\ Opened /\ calls < MaxCalls
  /\ claims[c] # Absent
  /\ calls' = calls + 1
  /\ thread' = [thread EXCEPT ![t] = Going("status", <<>>, op, c, {})]
  /\ UNCHANGED <<ledgerVars, logVars, crashes>>

\* _insert_and_apply: row, check and units in one transaction
Apply_CheckedBefore(t) ==
  LET c == thread[t].claim
      S == thread[t].bens
  IN \/ At(t, "apply") /\ Fits(S) /\ Move(t, "insert")
        /\ UNCHANGED <<ledgerVars, logVars, calls, crashes>>
     \/ /\ At(t, "insert")
        /\ claims' = [claims EXCEPT ![c] = [status |-> "granted", bens |-> S]]
        /\ alloc' = alloc \union UnitsFor(c, S)
        /\ Return(t, <<Note>> \o EventsOf("alloc", S))
        /\ UNCHANGED <<claimSeq, logVars, calls, crashes>>
     \/ /\ At(t, "apply") /\ ~Fits(S)
        /\ claims' = [claims EXCEPT ![c] = [status |-> "blocked", bens |-> S]]
        /\ Return(t, <<Note>>)
        /\ UNCHANGED <<claimSeq, alloc, logVars, calls, crashes>>
Apply(t) ==
  LET c == thread[t].claim
      S == thread[t].bens
  IN /\ At(t, "apply")
     /\ \/ /\ Fits(S)
           /\ claims' = [claims EXCEPT ![c] = [status |-> "granted", bens |-> S]]
           /\ alloc' = alloc \union UnitsFor(c, S)
           /\ Return(t, <<Note>> \o EventsOf("alloc", S))
        \/ /\ ~Fits(S)
           /\ claims' = [claims EXCEPT ![c] = [status |-> "blocked", bens |-> S]]
           /\ Return(t, <<Note>>)
           /\ UNCHANGED alloc
     /\ UNCHANGED <<claimSeq, logVars, calls, crashes>>

\* claim(): the row in one query, the holders in another
ReadStatus(t) ==
  /\ At(t, "status")
  /\ thread' = [thread EXCEPT ![t].at = "holders",
                              ![t].status = claims[thread[t].claim].status]
  /\ UNCHANGED <<ledgerVars, logVars, calls, crashes>>

\* What the call does next is decided on what it has read.
NextPlace(op, status, held) ==
  CASE op = "release" /\ status = "granted" -> "dealloc"
    [] op = "grant" /\ status = "blocked" -> "grant"
    [] op = "withdraw" /\ status = "blocked" -> "mark"
    [] op = "void" /\ status = "granted" /\ held # {} -> "dealloc"
    [] op = "void" /\ status = "granted" /\ held = {} -> "mark"
    [] op = "void" /\ status \in {"blocked", "withdrawn"} -> "mark"
    [] OTHER -> "rest"

ReadHolders(t) ==
  LET held == Holders(thread[t].claim)
      place == NextPlace(thread[t].op, thread[t].status, held)
  IN /\ At(t, "holders")
     /\ IF place = "rest" THEN Return(t, <<>>)
        ELSE thread' = [thread EXCEPT ![t].at = place,
               ![t].bens = IF thread[t].op = "grant" THEN claims[thread[t].claim].bens
                           ELSE held]
     /\ UNCHANGED <<ledgerVars, logVars, calls, crashes>>

\* _deallocate: all that was read as held, or nothing
Deallocate(t) ==
  LET c == thread[t].claim
      S == thread[t].bens
  IN /\ At(t, "dealloc")
     /\ \/ /\ S \subseteq Holders(c)
           /\ alloc' = alloc \ UnitsFor(c, S)
           /\ MoveSaying(t, IF thread[t].op = "release" THEN "recheck" ELSE "mark",
                         EventsOf("dealloc", S))
        \/ /\ ~(S \subseteq Holders(c))
           /\ Return(t, <<>>)
           /\ UNCHANGED alloc
     /\ UNCHANGED <<claims, claimSeq, logVars, calls, crashes>>

\* release looks again before it ends the claim.
Recheck(t) ==
  /\ At(t, "recheck")
  /\ IF Holders(thread[t].claim) = {} THEN Move(t, "mark")
     ELSE Return(t, <<Note>>)
  /\ UNCHANGED <<ledgerVars, logVars, calls, crashes>>

GrantUnits_Waits(t) ==
  LET c == thread[t].claim
      S == thread[t].bens
  IN /\ At(t, "grant") /\ Fits(S)
     /\ alloc' = alloc \union UnitsFor(c, S)
     /\ claims' = [claims EXCEPT ![c].status = "granted"]
     /\ Return(t, EventsOf("alloc", S) \o <<Note>>)
     /\ UNCHANGED <<claimSeq, logVars, calls, crashes>>
\* A ruling's grant: the check of capacity and group and the new status share
\* a transaction, but not with the status the call looked at.
GrantUnits(t) ==
  LET c == thread[t].claim
      S == thread[t].bens
  IN /\ At(t, "grant")
     /\ \/ /\ Fits(S)
           /\ alloc' = alloc \union UnitsFor(c, S)
           /\ claims' = [claims EXCEPT ![c].status = "granted"]
           /\ Return(t, EventsOf("alloc", S) \o <<Note>>)
        \/ /\ ~Fits(S)
           /\ Return(t, <<>>)
           /\ UNCHANGED <<claims, alloc>>
     /\ UNCHANGED <<claimSeq, logVars, calls, crashes>>

Final(op) == CASE op = "release" -> "released" [] op = "withdraw" -> "withdrawn"
               [] OTHER -> "voided"
Mark(t) ==
  /\ At(t, "mark")
  /\ claims' = [claims EXCEPT ![thread[t].claim].status = Final(thread[t].op)]
  /\ Return(t, <<Note>>)
  /\ UNCHANGED <<alloc, claimSeq, logVars, calls, crashes>>
-----------------------------------------------------------------------------
(* Logging *)

\* _emit, for the next event the thread has to log
Emit(t) ==
  /\ thread[t].say # <<>>
  /\ \/ /\ ReadHead(t, Head(thread[t].say))
        /\ UNCHANGED thread
     \/ Insert(t) /\ UNCHANGED thread
     \/ /\ StoreHead(t)
        /\ thread' = [thread EXCEPT ![t].say = Tail(@)]
  /\ UNCHANGED <<ledgerVars, calls, crashes>>

\* An append that fails ends the call: what it had to log is not logged.
EmitFails(t) ==
  /\ thread[t].say # <<>>
  /\ Refuse(t)
  /\ Return(t, <<>>)
  /\ UNCHANGED <<ledgerVars, calls, crashes>>

\* The process dies; a new one opens the database.
Crash ==
  /\ crashes < MaxCrashes
  /\ crashes' = crashes + 1
  /\ thread' = [t \in Thread |-> Resting]
  /\ claimSeq' \in {n \in 0..MaxClaims :
       /\ n = 0 \/ claims[n] # Absent
       /\ \A c \in ClaimId : claims[c] # Absent => c <= n}
  /\ LogReopen
  /\ UNCHANGED <<claims, alloc, calls>>

Step(t) ==
  \/ Apply(t) \/ ReadStatus(t) \/ ReadHolders(t) \/ Deallocate(t) \/ Recheck(t)
  \/ GrantUnits(t) \/ Mark(t)
  \/ Emit(t) \/ EmitFails(t)

Next ==
  \/ \E t \in Thread : Open(t)
  \/ \E t \in Thread, S \in (SUBSET Beneficiary) \ {{}} : CallSubmit(t, S)
  \/ \E t \in Thread, c \in ClaimId, op \in {"release", "grant", "withdraw", "void"} :
       CallOn(t, op, c)
  \/ \E t \in Thread : Step(t)
  \/ Crash

Spec == Init /\ [][Next]_vars

\* Every thread gets to run, and no query waits for a lock for ever.
FairSpec == Spec /\ \A t \in Thread : WF_vars(Step(t))
-----------------------------------------------------------------------------
(* Properties *)

\* I1 for racing threads: "two writers cannot interleave a check-then-insert",
\* so no interleaving of bids, grants, releases and deaths gives out more
\* units than there are or two of them to one beneficiary.
RacesKeepCapacity ==
  /\ Cardinality(alloc) <= Capacity
  /\ \A x, y \in alloc : x.ben = y.ben => x = y

\* The id a thread is about to insert a claim under is no other thread's and
\* has no row yet, before and after a restart.
ClaimIdsStayFresh ==
  \A t \in Thread : thread[t].at = "apply" =>
    /\ claims[thread[t].claim] = Absent
    /\ \A u \in Thread \ {t} : thread[u].at = "apply" => thread[u].claim # thread[t].claim

\* A call ends, with all it had to log logged or in an exception: nobody waits
\* for ever on the lock, the log or another thread.
CallsReturn == \A t \in Thread : ~At(t, "rest") ~> At(t, "rest")

\* The allocations that a list of events replays to.
Logged == [i \in DOMAIN entries |-> entries[i].event]
ReplaysTo(events) ==
  {b \in Beneficiary : \E i \in DOMAIN events :
     /\ events[i] = Unit("alloc", b)
     /\ \A j \in DOMAIN events : j > i => events[j] # Unit("dealloc", b)}
-----------------------------------------------------------------------------
(* What the documentation says and the code does not do *)

\* ledger.py: "Every state change appends to the hash-chained decision log",
\* whose alloc and dealloc events "carry the entire allocation state": between
\* two calls, the log replays to what the database holds.
LogCarriesTheState == AtRest => ReplaysTo(Logged) = {x.ben : x \in alloc}

\* storage.py: "two writers cannot interleave a check-then-insert"; a call
\* that checks for a blocked or a granted claim acts on a claim that is.
UnitsBelongToGrantedClaims ==
  AtRest => \A x \in alloc : claims[x.claim].status = "granted"
=============================================================================
