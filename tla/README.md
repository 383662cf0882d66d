# A verification of tarmac_society

TLA+ models, TLC runs and TLAPS proofs for `tarmac_society` (`src/src/tarmac_society`), a
library in which agents bid for scarce resources under sealed bids, challenge each other's
claims with credibility credits, and are ruled on by a mediator, with every step in a
hash-chained log; and for the airline society built on it, which rebooks the passengers of a
storm. File names without a directory are in `src/src/tarmac_society`.

## Inventory

| Component | State | Operations | What makes it correct |
|---|---|---|---|
| Claim ledger (`ledger.py`) | four tables (resources, commitments, claims, allocations), two id counters | register, commit, reveal, submit plain, release, ruling ops (revoke, grant, void), withdraw, void, reopen | capacity and exclusivity (I1), sealed bids are what was sealed (I4), the log replays to the tables (I5), life cycle of a claim, ids are fresh |
| Credibility bank (`currency.py`) | balances, contests, counter | open a contest, settle, void, reopen | credits are conserved, one open contest per agent and claim, a contest pays once |
| Deadlock detector (`deadlock.py`) | streaks, reported keys | scan, reset a resource | every circular wait and every lasting contest is reported, none early, none wrongly |
| Round engine (`society.py`) | round, phase, sealed bids in hand, ruling in hand | commit, reveal, positions, scan, rule, settle, finalize | no uncaught exception, nothing hanging at the end, disputed grants do not board, the run ends |
| Decision log (`chainlog.py`) | rows, head in memory | genesis, append, reopen, verify | what is stored always verifies |
| Storage (`storage.py`) | one connection, one lock | query, execute, transaction | a check and the insertion it guards are one transaction |
| Auditor (`verify.py`) | none | verify the chain, replay, check capacity, groups, citations, reveals | accepts what the program writes, notices damage, and what it accepts is what the tables hold |
| Mediator interface and transport (`mediator.py`, `qwen/transport.py`) | replies tried | propose, respond, rule, fiat, each with one retry | every run ends, and early only for a reason that can be named, of which bad replies of a role agent are none |
| Airline policies (`tarmac/personas.py`, `tarmac/regs.py`) | none of their own | propose and respond of five roles, rule and fiat of the duty manager | crews, seats, rooms and bumps are lawful, the courier arrives, no answer breaks the protocol |
| Scenario, runs, planner (`tarmac/scenario.py`, `seed.py`, `run.py`, `baseline.py`) | the storm | generate, validate, build, run under three conditions | only valid storms are run; the planner leaves nobody with reason to complain |
| Commitments, schemas, canonical JSON (`commitment.py`, `schemas.py`, `canonical.py`) | none | seal, verify, validate | a reveal matches only what was sealed |
| Signing, citations, command line, deployment, metrics, benches | - | - | outside the models, see the end |

The engine is the only caller of ledger, bank and detector. It calls the agents and the
mediator back in the middle of a round; ledger and bank call the log; all of them share one
storage. What is hard in this code: a call is several transactions and several log appends, so
threads and crashes come in between; calls of the ledger compose in any order, with partial
lists and with failures after a first effect; the detector remembers what it reported while
claims change; rulings act on deadlocks that earlier rulings of the same round have changed;
policies answer from one view of the ledger and their answers are applied after those of others;
and a run must end with nothing blocked and no stake out, whichever way it ends. `PROJECT.json`
lists these hazards at their lines, each with the properties that would catch it going wrong.

## Modules

| Module | Models | Uses |
|---|---|---|
| `UnitAllocation` | the promise: units move one claim at a time, all or nothing, within capacity and exclusivity | |
| `ClaimLedger` | every public method of the ledger, one action each | implements `UnitAllocation` |
| `CredibilityBank` | every public method of the bank that changes it | |
| `DeadlockDetector` | `scan`, `reset_resource` and the search of `find_cycles`, for any view of the ledger | |
| `DetectorRounds` | the detector over rounds in which claims change and rulings reset | extends `DeadlockDetector` |
| `Society` | `Society.run`, one action per call it makes | instances of `ClaimLedger`, `CredibilityBank`, `DeadlockDetector`; implements `ClaimLedger` and `CredibilityBank` |
| `LiveRun` | a run with a language model behind the mediator and some agents | extends `Society` |
| `Scenario` | the timetable, the passengers, what each may board; which storms are valid | |
| `Policies` | what the roles of the airline and the planner answer to a view | extends `Scenario` |
| `DutyManager` | the rulings and the fiat of the airline's mediator | extends `Policies` |
| `Tarmac` | whole runs of the airline, mediated, unmediated and planned | extends `Society`, `DutyManager` |
| `ChainLog` | `genesis`, `append` as the three steps it is, reopening, `verify_chain`, for any number of threads | |
| `LedgerThreads` | calls of several threads as sequences of queries, transactions and appends, with a dying process | extends `ChainLog`, implements it |
| `Auditor` | `verify_log`, check by check, as operators on a log | instance of `ChainLog` |
| `AuditedLedger` | the ledger with the log its calls write and the manifest that closes it | extends `ClaimLedger`, instance of `Auditor` |
| `RunInvariant` | the inductive invariant of `Society`, which the proofs about it and about `Tarmac` share | extends `Society` |
| `Tables_proofs` | theorems about `ClaimLedger` and `CredibilityBank` | |
| `Tarmac_lemmas` | what the theorems of `Tarmac_proofs` rest on: the policies' operators, and single moves of a run | |
| `*_proofs` | theorems about the module they are named after | |
| `MC*` | the small instances that TLC checks | |

**ClaimLedger.** The variables are the four tables, the two counters, `replayed` (the manifest
that the logged `alloc`/`dealloc` events replay to, `verify.py`'s `replay_manifest`) and
`outcome` (how the last call ended). An action is a whole call: guards that raise are disjuncts
that end in `NoEffect`, transactions that roll back leave the tables alone, but what an earlier
transaction of the same call wrote stays (`RevealMatch` marks the commitment whatever becomes
of the claim). `TryAllocate` keeps the order of the code: capacity, then group, then the
constraints of the schema, which raise an `IntegrityViolation` that is no `LedgerError`. A list
of beneficiaries is the set it names and whether it names somebody twice: that is all the code
can tell apart. A digest is the proposal it seals.

**CredibilityBank.** `Close` is the common part of `settle` and `void_contest`; the stake of a
contest is `ContestCost`, the cost the bank was opened with. A second bank over one storage
with another cost is not modelled, nor are the balance snapshots, which nothing reads back.

**DeadlockDetector.** A scan sees a view: the blocked claims, the claims that hold units, the
granted claims with an open contest. `FindCycles` is the code's iterative Tarjan search, frame
by frame; what it should find is defined in `DetectorRounds` by reachability (`Components`), and
the two are compared. A streak is counted up to `ContestedRounds`, since only "at least" is
asked. `DetectorRounds` adds the history variable `recent`, so that what has to be reported is
stated by what was seen and not by how the detector counts.

**Society.** `phase` says which loop of `run` the engine is in; `settling` and `clearing` are
what is left of the lists that a loop over contests or blocked claims goes through, as they were
when it began (a settlement, and the last sweep's two passes); agents speak in the rotated
order of the round. Agents and the mediator may say anything their types allow: they propose
any claim in their own name, challenge or yield any claim, the mediator orders any operations
on any claims and names any winners, or cites nothing that resolves. Operations of a ruling are
chosen as they are applied. `setting` is the configuration of a run, drawn from `Settings`: with
a mediator or without, the round cap, and whether agents and mediator are `careful`; if they are
not, they may also misuse the protocol: impersonate, give back what is not held, name a
beneficiary twice. `aborted` is an exception out of `run`.

**LiveRun.** Every decision of a live agent or mediator is a request; `tries` counts the replies
to it that did not validate, of which the second is final. An agent is then passed over, a
mediator ends the run (`GiveUp`). Items in another agent's name are dropped by the transport
(`OwnItems`) before the engine would raise on them. The client may raise at any request. `cause`
says what ended a run early.

**Scenario, Policies, DutyManager, Tarmac.** The roles of `personas.py` are pure functions of a
view, and are operators here; `Tarmac!View` is what `_view_for` shows of the state of `Society`.
A role answers when its turn starts (`Consult`); its answers are then filed one by one with the
actions of `Society`, after the ledger has changed under them. The duty manager's ruling is
computed when it is asked and its operations are applied one by one. `wish` keeps what each bid
asked for, in order, because policies read the order; `bumped` remembers whose seat a ruling
revoked. The timetable and the rules are the code's; the cast is a CONSTANT. What the model
decides, bid by bid and ruling by ruling, was compared with the Python program on 270 runs of
scenarios of this size, without a difference.

**ChainLog and LedgerThreads.** A query or a `BEGIN IMMEDIATE` transaction is one step because
`SQLiteStorage` holds its lock throughout; between two steps any thread may run. In
`LedgerThreads` a call reads the claim (row, then holders), decides on what it read, writes in
one or more transactions, and then logs its events one by one through `ChainLog`. The threads
race for one resource of one group, which is where a race can hurt. A crash empties the threads
and reopens ledger and log from the tables.

**Auditor and AuditedLedger.** An entry has a sequence number, an event and the hash of the one
before it; a hash is the entry itself. `AuditedLedger` pairs each call of `ClaimLedger` with the
events `ledger.py` emits for it, and adds the two entries of the engine that the auditor reads:
rulings with those of their citations that resolve, and the manifest. A reveal brings the right
nonce, a wrong one, or what is no nonce at all.

Definitions whose name ends in an underscore and a word (`FitsCapacity_OneIsEnough`,
`Insert_AtTheEnd`) are not part of the model: each is the definition after it with a plausible
bug, kept to show that the property named with it in `PROJECT.json` notices.

## Runs

| Run | Instance | States | Shows |
|---|---|---|---|
| `Tables` | ledger: 1 agent, 2 beneficiaries, 2 flights of one group (1 and 2 seats), 2 claims, 1 commitment; bank: 2 agents with unequal budgets and one without an account, 2 claims, 4 contests, reopenings | 212,450 | types, I1, I5, no unit without a granted claim, finished claims stay finished, `UnitAllocation` is implemented; no negative balance, conservation |
| `Audit` | 2 agents, 1 beneficiary, 2 flights of one group, 2 claims, 2 commitments, 6 entries | 59,888 | the auditor passes finished runs without malformed nonces, notices any one entry lost, swapped or overwritten and a missing end, accepts only what the tables hold; I4; fresh ids |
| `Detector` | 3 agents, 3 resources, 7 claims that can wait in a ring or two on each other, 3 scans, rulings between them | 60,099 | contests escalate in time and not early, circular waits are reported, reported cycles are real |
| `Society` | 2 agents, a flight of 2 seats, 2 claims, 2 contests; mediated for 2 rounds, unmediated for 3, unmediated and careless for 2 | 1,338,055 | bookkeeping, nothing hanging at the end, no uncaught exception, rulings close what they touch, disputed grants do not board |
| `Live` | a live agent, another agent without an account, a live mediator; a seat, a gate without a group, a resource nobody registered; 2 rounds, careless answers | 476,348 | every run ends; what ends it early is one of the listed reasons, and moves no unit and no credit |
| `Threads` | 2 threads, 2 beneficiaries, 1 unit, 3 calls, 1 crash, with a log | 231,346 | no double claim, no shared id, the chain verifies and its head follows, every call ends |
| `Tarmac` | 10 passengers, 6 flights, 144 storms (8 seat plans, 3 booking orders, 2 sets of flexible passengers, 3 hotel sizes), each under 3 conditions, 6 rounds | 62,176 | no illegal crew flies, seats are legal, open seats are asked for, no room for the seated, the courier arrives, policies stay within the protocol, the planner has no envy, bumps are lawful |
| `Ledger_doc_ids`, `Audit_doc_report`, `Threads_doc_crash`, `Threads_doc_status`, `Tarmac_doc_reseat` | | | counterexamples, see below |

**Bounds.** Two claims are enough for one to block the other and for a third party's unit to be
freed by a partial release; two beneficiaries tell a partial list from a whole one, and two
flights of one group tell exclusivity from capacity. `Tables` is small because what it
checks is also proved for every instance; ledger and bank share no variable and neither calls
the other, so it runs the one while the other rests. Two rounds of the engine contain a contested streak
and its ruling (`ContestedRounds = 2`); three let an unmediated contest outlive a quiet round.
Circular waits take four claims and do not arise in the `Society` instance; `Detector` is the
run for them, and its ring of three is the shortest on which an error in handing a low link to
the parent shows. Six entries hold the genesis, a resource, a commitment, its reveal, an
allocation and the manifest; shorter logs hold rulings and rejected reveals, so every check of
the auditor has something to refuse. Three calls of two threads contain a double bid, a bid and
a ruling's grant that follows it, and a release that races a void; `Threads_doc_status` takes
five. `MaxEntries` is never reached in `Threads`, nor `MaxClaims`, `MaxCommits` and
`MaxContests` in `Tarmac`, whose runs are finite and without choice once storm and condition are
given. The ten passengers are one of each category at least, two where a rule compares two of a
kind. In the generator's storms every reserve crew is illegal (`validate_scenario` refuses
others), so the branch of rebooking for a lawful crew is never taken. All bounds are constants
named in the modules and appear in guards.

**Deadlock** is checked in `Tables`. It is not in the other runs, where
runs end, logs fill up or the scans and calls are bounded.

**Fairness.** Safety is checked without any. `Society!FairSpec`, and `LiveFairSpec` on it, say
that the engine makes its next call and that an agent's turn and a ruling's operations come to
an end: `run` is one thread, and the lists it iterates over are finite. `LedgerThreads!FairSpec`
says that each thread gets to run; a query or transaction waits only for a lock that its holder
gives back within one step.

## Where the code and its documentation part

- `Ledger_doc_ids`: the id counter of a reopened ledger comes from the claims table, but
  `reveal` writes the id into the commitment before the claim exists. If the claim is refused
  (unknown resource), the next ledger object issues the id again, and two accepted commitments
  name one claim. The docstring of the reopening test says ids must not be reused.
- `Threads_doc_crash`: a process that dies after a transaction and before its log appends leaves
  tables and log apart for good. `ledger.py` says the log carries the entire allocation state.
- `Threads_doc_status`: a ruling's grant and a withdrawal of one blocked claim both act on the
  status they read before their transactions; the unit ends up under a claim that is withdrawn.
  `storage.py` says that a check and an insert cannot be interleaved.
- `Audit_doc_report`: `_check_reveals` re-derives the digest of a rejected reveal without the
  guard of `verify_commitment`, so that a reveal with a malformed nonce, which the ledger rejects
  and logs like any other, makes `verify_log` raise (`verify.py:155`). `verify.py` says that it
  checks every rejected reveal and returns a report.
- `Tarmac_doc_reseat`: a run quiesces once a round had no bid and no position and leaves nothing
  blocked, and the rulings of that round may have cleared what was blocked by granting it in
  part. In the run TLC finds, the rulings of round 2 bump `TC-01` off QW441 and `PAX-001` off
  QW519; in round 3 rebooking bids QW602 for both in one claim, which is blocked, one of the two
  seats having gone to `WCHR-1`; round 4 has no bid and no position, because rebooking waits for
  the blocked claim; its ruling grants that claim to `TC-01` only ("remainder must re-book
  elsewhere", `tarmac/personas.py:686`), nothing is blocked any more, and the run is over with
  `PAX-001` without a seat beside a free, legal one on QW777. `docs/friction-log.md` says that a
  later round re-seats who is bumped.

Also read in the code, not the subject of a run of their own: a ruling looks for the other seat
of each passenger it bumps before it reserves those of the others (`tarmac/personas.py:649-662`),
so two bumped for one claim may be pointed to the same last seat, as `TC-01` and `TC-02` are in
the `Tarmac` instance; `BumpsAreLawful` is about each by themselves. The operations of a ruling
stand or fall one by one: one that takes seats for a claim may be followed by a grant that the
ledger refuses, because the claim names somebody seated meanwhile; the engine logs that and goes
on, and the seats are open again. A live mediator's fiat ruling whose citations
do not resolve is dropped, and the final sweep quarantines contested grants only without a
mediator, so in such a run they stay on board (`society.py:364-400`). `void_claim` voids a
withdrawn claim (`ledger.py:456`), a transition the diagram in `schemas.py:10-12` does not have;
a ruling may grant to beneficiaries its claim does not name (`ledger.py:408`), although
`schemas.py:123` speaks of a subset; `docs/SPEC-CLAIMS.md`, which `schemas.py` refers to, does
not exist.

## Proofs

For every value of the constants:

- `Tables_proofs`, on the ledger: `Typing`, `Capacity_I1`, `Exclusivity_I1`, `Replay_I5`, `FreshIds`,
  `NoOrphanUnits`, `Seals_I4`, `NoRevival`, and `ImplementsUnits` (the refinement of
  `UnitAllocation`). Typing is inductive by itself. Capacity needs the allocations to be finite.
  Exclusivity, replay and orphans go together in one invariant: replaying is exact only because
  no two allocations agree on resource and beneficiary, and a ruling's grant takes units for a
  claim that holds none only because units belong to granted claims. Sealed bids need that the
  ids above the counter are free and that an accepted commitment's claim is not above it. They
  rest on the assumptions of `ClaimLedger` (capacities are numbers, beneficiaries are finitely
  many, bounds are numbers).
- `Tables_proofs`, on the bank: `BankTyping`, `Conservation`, `OneStakePerTarget`, `PaidOnce`.
  Contests are counted by status per agent; opening one adds it to a finite set, closing one
  moves it between two.
- `LedgerThreads_proofs`, first part: `Chain_Verifies` and `Head_Follows` of `ChainLog`, for any
  number of threads, the race for the genesis entry included. The auditor's check is not inductive: `LogInv` adds that an
  entry still to be inserted fits the end of the log unless it was overtaken, and that it does
  not while some thread has inserted a row and not yet stored the head.
- `LedgerThreads_proofs`, second part: `RacesKeepUnits` and `TakenIdsAreFresh` for any number of threads,
  claims and crashes; `ThreadsImplementTheLog`, that every step of a thread is a step of
  `ChainLog` or none, and from it and `Chain_Verifies`, `ThreadsLogVerifies`. That no unit goes
  out twice needs only what the tables hold; fresh ids need to be known of every thread how far
  it is in its call (`IdsAreOwned`: ids above the counter have no row, and a thread that has
  taken an id has one at or below it).
- `DetectorRounds_proofs`, first part: `NothingEscalatesEarly` and `LastingContestsEscalate`. The
  invariant ties the detector's counter of a resource to what was seen: it is the length of the
  stretch of contested scans that ends with the last one, cut off at `ContestedRounds`
  (`StreaksCountScans`).
- `DetectorRounds_proofs`, second part: `TarjanFindsTheComponents`, that the search of
  `find_cycles` ends and returns the strongly connected components of more than one node, and the
  self-loops, each of them and nothing else, for every graph of any number of agents and whatever
  order it takes them in. The argument is that of Tarjan's algorithm. `SearchInv` says of every
  state of the search that numbers tell nodes apart and grow along the stack and along the path of
  frames; that on the stack every node leads to the later ones and back to the path; that a low
  link is the number of a stacked node that can be reached, and for a node of the path no greater
  than any that an edge looked at so far leads to, from it or from what was closed above it; that
  what was closed leads nowhere else; and that the cycles recorded are the components all of whose
  nodes are closed. One lemma per step of the search (a node is met, an edge is looked at, a
  component closed, a frame left) preserves it. `Measure`, the nodes not met, the edges not looked
  at and the frames, falls with every step, so the search has come to its end when `FindCycles`
  reads it. Where induction is needed it is over a least number without the property.
  From it follow `CircularWaitsAreReported`, `ReportsOfCyclesAreTrue` and, with the types of what
  a scan builds, `DetectorIsTyped`. They assume that the agents are finitely many
  (`AgentsAssumption`) and that the rows a view may have are rows (`RowsAssumption`).
- `AuditedLedger_proofs`: `AuditedIsALedger`, that logging only restricts the ledger, so that all
  of the first item holds of an audited run; `FinishedRunsAreOk`, that the auditor accepts every
  finished run without malformed nonces, for any number of calls and entries; `DamageIsAlwaysNoticed`, that it accepts no
  unfinished run and no finished one with an entry lost, swapped or overwritten; and
  `AcceptedIsTheTables`. `AuditInv` is the invariant of the ledger; what every single entry
  asserts (a reveal that was accepted rederives the sealed digest, one that was rejected does
  not, a ruling cites something, a registration is the resource's); that the registrations and
  commitments of the tables are in the log; that the units of the log are those of the tables;
  and that the hash chain verifies. An entry is added at the end, so what it asserts is about
  earlier entries only and stays true: that is what makes the invariant inductive although the
  auditor folds over the whole log.
- `Society_proofs`: `RunsUseTheLedger` and `RunsUseTheBank`, that a run of arbitrary agents and
  mediator is a behaviour of the ledger and of the bank; and with what is proved of those,
  `EngineIsTyped`, `RunsSettle`, `NoDisputedGrantBoards`, `RulingsCloseContests` and
  `CarefulRunsGoOn`. The proof instantiates the theorems of `Tables_proofs`: `RunInv`, in
  `RunInvariant`, is their invariants and, of the engine's own, where it is
  in its round (`ControlIsTyped`), that bids in hand are sealed and distinct (`SealsAreKept`,
  without which a reveal could be refused), that contests a ruling has been through are closed
  or not touched by it (`SettlementIsOnItsWay`), that the last sweep's lists are all that is open
  and then all that is blocked (`SweepIsOnItsWay`), that a run that is done has nothing open
  (`DoneIsDone`) and that without a mediator a closed contest's claim holds nothing
  (`ClosedContestsHoldNothing`). `CarefulRunsGoOn` assumes that every resource has an
  exclusivity group and every agent an account; without either there are runs that abort.
- `LiveRun_proofs`: `LiveRunsUseTheLedger`, `LiveRunsUseTheBank`, `LiveRunsSettle` and
  `RunsEndForAReason`. A step of a live run is a step of `Society`, or a failure that changes
  nothing but the phase (`LiveStepsAreSteps`, `Cut`), which `RunInv` survives. For the last theorem
  `LiveInv` adds that whoever was heard is heard in its own name until its turn is over; that the
  only exceptions left to the engine are those of `RaisesOnYield`, `RaisesOnContest` and
  `RaisesOnUnits`, and that they leave the tables as they were, is read off `Society` call by call.

- `Tarmac_lemmas` and `Tarmac_proofs`, for every cast, timetable of seats, number of rooms, gates and crews:
  `SeatsAreForTheirPassengers`, that nobody ever holds a seat on a flight that is not legal for
  them; `AgentsPlayByTheRules`, that after the setup every step of a negotiated storm is a step of
  `Society`, so that what is proved of arbitrary agents holds of the airline's; `StormsUseTheLedger`
  and `StormsUseTheBank`, setup and planner included; and from these `StormsAreSettled` and
  `StormRulingsCloseContests`. `Tarmac_lemmas` first says of each policy what its answers are: bids of
  the agent in its own name, for passengers who may board, without repetitions; operations only on
  claims that exist; nobody granted whom the claim does not name. Sorting is `Listed`, which is
  shown to enumerate a finite set once and in order (`ListedIsInOrder`); the loops of `Fill`, of
  `RuleSeats` and of `FiatRuling` are recursive functions, and what is claimed of them holds
  because a least round of the loop without it cannot exist. That is not enough by itself, because
  an answer is filed, and a ruling applied, one item at a time while the ledger moves on. `StormInv`
  says that what is still to be done is legal and stays it (`ScriptIsLegal`), that every seal hides
  a wish and every claim of a negotiated run comes from one (`WishesAreSealed`, `ClaimsAreLegal`),
  and that all the storm's resources are registered before anybody asks what is free; with the
  invariants of ledger, bank and engine.
  `StormsGoOn`, that no answer of the policies and no operation of the duty manager ends in an
  exception that the run does not catch, adds `RunGoesOn`: a yield in the script names what its
  agent still holds, and no two name the same; crews and gates have one unit each, so that the
  check of capacity comes before a clash of primary keys can; whoever speaks has an account.
  `RoomsGoToTheStranded`, that after the positions of a round nobody who has a seat holds a room,
  adds `RoomsInv`: only the desk seals bids for rooms (by I4 of the ledger the claims are its,
  `ClaimsAreSealed`), while it has its turn every room to be given back is covered by a yield
  still to be filed, and afterwards there is none, because nobody else releases a room or takes a
  seat before the round is over. That five turns reach every agent is part of it: a desk that
  never spoke would give nothing back.
  `BumpsAreForTheMoreProtected`, that a ruling takes a seat only for somebody more protected and
  only from who has another, adds `BumpInv` on what is left of a ruling: each revocation is for a
  claim that stays blocked until its turn and whose best is better than whom it bumps, and for
  each of those some other flight has more seats than the grants before it in the script still
  take (`Due`). It is proved along the loop over the blocked claims: what a plan leaves of a
  flight, `working_free` less `reserved`, is never more than what is free less what its own
  grants take (`LeavesWhatIsFree`), since bumping makes room for no more than its claim asks for.
  `IllegalCrewsDoNotFly`, that a negotiated run never ends with a crew on the ferry whose duty does
  not cover the sector, adds `CrewInv`, of many parts, because the crew is granted before anybody
  objects and a ruling may be about anything: there is one bid for a crew (`CrewBids`) and its
  claim is granted at once (`CrewClaimsAreNotBlocked`); from then on the legality agent has not
  answered since (`NotYetSeen`), or its veto is about to be filed (`VetoDue`), or the contest is
  open and whatever could close it is not on its way (`VetoStands`). The veto outlives every ruling
  on something else, since such a ruling names neither the claim nor the agent (`LeftAlone`), and a
  ruling on the crew, fiat and the sweep void the claim before they close the contest.
  `OpenSeatsAreAskedFor`, that from the third round on nobody is passed over for whom there is a
  seat, adds `SeatsInv`. A passenger without a seat and a flight with one that rebooking sees are
  both in its answer, the passenger for some flight or as many on the flight as it has seats
  (`FillAsks`); but the answer is filed bid by bid, the bids are revealed one by one, and those of
  others come in between. So the invariant follows passenger and flight through the round: they
  wait in a blocked claim, or a bid that sees to one of them is still to be filed, or sealed and
  still to be revealed (`OpenSeatsAreSought`). A reveal makes of a bid a blocked claim or units, and
  units seat the passenger or fill the flight. That nothing is forgotten also needs that rebooking
  bids for seats and the crew only (`RebookingAsks`), that a crew is not a passenger's
  (`CrewUnits`), what a seat is (`SeatsOfTheStorm`) and that a round starts with the first turn
  (`TurnsStartOver`).
  `PlannerIsFair` is about the single planner: `PlannerInv` says that those still to be served
  stand behind all who have a seat in the order of rank, that whoever has been served is content,
  and that a flight that was full stays full.
  The theorems rest on the assumptions of the modules: ids are unique (`RosterAssumption`), a
  scenario has the fields and the shape of the generator's and passes `validate_scenario`
  (`ScenariosAssumption`), `C1` is a crew and no passenger and there are two wheelchair users, whom the advocate's
  policy indexes (`CastAssumption`), and the resources, groups and accounts are those that
  `register_resources` and `run_society` make (`AirlineAssumption`), which also give every agent
  what the bank of the run starts with, enough for a contest (`PurseAssumption`).

Each module's theorems follow from an invariant with one proof step per action. The assumptions
are evaluated by TLC in the runs of the module that declares them.

What was changed in the models for these proofs is no behaviour. `LoggedReveal` had two overlapping
cases for the event of a reveal; they now exclude one another, in the order of the code. `Close`
takes a component off the stack from the place of its root on, which is what the code's loop of
pops does, and compares the low link with the index as the code does. The policies' sorts and
choices are stated by sets of pairs (`Listed`) and definitions of their own, not by operators that
take operators, which no prover here can instantiate. The union in `Pending` has the parentheses
without which TLC and TLAPS read it differently. The agents of the bank are called `Filer` there,
so that one module can extend it and the ledger.

Model-checked only: liveness (`RunEnds`, `CallsReturn`), and of the airline's runs
`CourierMakesIt`, which is about the storms that the generator makes and not about all.

## Not modelled

Cryptography (signatures, SHA-256, canonical JSON) is taken to be injective or left out; the
table of regulations is the set of citations that resolve. Prompts, parsing, recordings,
embeddings and the HTTP client of `qwen/` are I/O; of the client only that it answers or raises
is used. Arguments, concessions and other wording of the policies are left out, as are the counts
of `tarmac/metrics.py` and `bench.py`, which are arithmetic over one finished run, the command
line and the deployment. `tarmac/seed.py`'s random draws are replaced by chosen scenarios of its
form. Two processes on one database file, and lock timeouts, are not modelled. Ids are numbers:
the padding to three digits, which breaks the order of ids past 999, is left out.

## Plan

What could follow: `CourierMakesIt` for every storm of the generator's shape; two processes on one
database with lock timeouts, if the code comes to support that; larger casts, where a duty manager
has more than one cycle to rule on in a round.
