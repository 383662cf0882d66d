------------------------------ MODULE ChainLog ------------------------------
(***************************************************************************)
(* The hash-chained decision log (src/src/tarmac_society/chainlog.py) as   *)
(* its callers' threads see it.  append reads the head it keeps in memory, *)
(* inserts the row in a transaction of its own and only then moves the     *)
(* head: three steps between which other threads run.  (On the CPython     *)
(* versions the project supports no thread switch falls between the two    *)
(* reads, or the two stores, of _seq and _head.)                           *)
(*                                                                         *)
(* SHA-256 is taken to be injective: the hash of an entry is what is       *)
(* hashed.  Sequence numbers start at 1 here, at 0 in the code.            *)
(***************************************************************************)
EXTENDS Naturals, Sequences

CONSTANTS Thread, Event,
          Genesis,      \* the event of the first entry
          MaxEntries    \* bound: rows in the log

ASSUME GenesisAssumption == Genesis \notin Event

VARIABLES entries,   \* the log_chain table
          head,      \* ChainLog._seq and _head
          writer     \* how far each thread is in append

logVars == <<entries, head, writer>>

NoHash == "none"
NewLog == [seq |-> 0, hash |-> NoHash]
Away == [at |-> "away"]

Hash(prev, seq, event) == <<prev, seq, event>>
Entry(seq, event, prev) ==
  [seq |-> seq, event |-> event, prev |-> prev, hash |-> Hash(prev, seq, event)]

LogInit ==
  /\ entries = <<>>
  /\ head = NewLog
  /\ writer = [t \in Thread |-> Away]

\* genesis() first asks whether the log is empty; append is a call of its own,
\* so two threads can both have been told that it is.
AskGenesis(t) ==
  /\ writer[t].at = "away"
  /\ head.seq = 0
  /\ writer' = [writer EXCEPT ![t] = [at |-> "genesis"]]
  /\ UNCHANGED <<entries, head>>

\* append refuses every other event until there is a first entry.
MayAppend(t, event) ==
  IF event = Genesis THEN writer[t].at = "genesis"
  ELSE writer[t].at = "away" /\ head.seq > 0

\* The entry is made from the head as it is now.
ReadHead(t, event) ==
  /\ MayAppend(t, event)
  /\ head.seq < MaxEntries
  /\ writer' = [writer EXCEPT ![t] =
       [at |-> "insert", entry |-> Entry(head.seq + 1, event, head.hash)]]
  /\ UNCHANGED <<entries, head>>

\* seq is the primary key: the row of a thread that was overtaken is refused.
Overtaken(t) == writer[t].entry.seq <= Len(entries)

Insert_AtTheEnd(t) ==
  /\ writer[t].at = "insert"
  /\ entries' = Append(entries, writer[t].entry)
  /\ writer' = [writer EXCEPT ![t] = [at |-> "store", entry |-> writer[t].entry]]
  /\ UNCHANGED head
Insert(t) ==
  /\ writer[t].at = "insert"
  /\ ~Overtaken(t)
  /\ entries' = Append(entries, writer[t].entry)
  /\ writer' = [writer EXCEPT ![t] = [at |-> "store", entry |-> writer[t].entry]]
  /\ UNCHANGED head

\* IntegrityViolation out of append
Refuse(t) ==
  /\ writer[t].at = "insert"
  /\ Overtaken(t)
  /\ writer' = [writer EXCEPT ![t] = Away]
  /\ UNCHANGED <<entries, head>>

StoreHead_Next(t) ==
  /\ writer[t].at = "store"
  /\ head' = [seq |-> head.seq, hash |-> writer[t].entry.hash]
  /\ writer' = [writer EXCEPT ![t] = Away]
  /\ UNCHANGED entries
StoreHead(t) ==
  /\ writer[t].at = "store"
  /\ head' = [seq |-> writer[t].entry.seq, hash |-> writer[t].entry.hash]
  /\ writer' = [writer EXCEPT ![t] = Away]
  /\ UNCHANGED entries

\* The process dies, and a new ChainLog over the same database takes its head
\* from the last row.
LogReopen ==
  /\ writer' = [t \in Thread |-> Away]
  /\ head' = IF entries = <<>> THEN NewLog
             ELSE [seq |-> entries[Len(entries)].seq,
                   hash |-> entries[Len(entries)].hash]
  /\ UNCHANGED entries

LogStep(t) ==
  \/ AskGenesis(t)
  \/ \E event \in Event \union {Genesis} : ReadHead(t, event)
  \/ Insert(t) \/ Refuse(t) \/ StoreHead(t)
LogNext == (\E t \in Thread : LogStep(t)) \/ LogReopen

LogSpec == LogInit /\ [][LogNext]_logVars
-----------------------------------------------------------------------------
(* Properties *)

\* verify_chain: what an auditor requires of the entries it is given.
VerifyChain(log) ==
  /\ log # <<>>
  /\ log[1].event = Genesis /\ log[1].prev = NoHash
  /\ \A i \in 1..Len(log) :
       /\ log[i].seq = i
       /\ log[i].hash = Hash(log[i].prev, log[i].seq, log[i].event)
       /\ i > 1 => log[i].prev = log[i - 1].hash

\* However appends of several threads and crashes interleave, whatever is in
\* the database is a chain the auditor accepts: no gap, no fork, no rewriting.
LogAlwaysVerifies == entries # <<>> => VerifyChain(entries)

\* The head in memory is the last row, or the row before it while the one
\* thread that inserted the last row has not moved the head yet.
HeadFollowsTheLog ==
  /\ \A t, u \in Thread : writer[t].at = "store" /\ writer[u].at = "store" => t = u
  /\ IF \E t \in Thread : writer[t].at = "store"
       THEN head.seq + 1 = Len(entries)
       ELSE /\ head.seq = Len(entries)
            /\ entries # <<>> => head.hash = entries[Len(entries)].hash
=============================================================================
