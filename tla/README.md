# Verification of the company backend and of the RethinkDB it runs on

The repository is a small Node backend (companies, employees, users,
positions) over RethinkDB, whose server (2.4.1) is part of the tree. This
project models both ends: the backend's request handlers, with the interleavings
Node allows, and the parts of RethinkDB that decide whether an acknowledged write
survives: Raft, through which the configuration of every table goes, the
contracts that say which server is a table's primary, and the replication of a
table's writes. Modules are checked with TLC on small instances and, where
stated, proved with TLAPS for every instance.

## 1. Inventory

| part | state | operations | what makes it correct |
|---|---|---|---|
| company routes (`controller/company.js`) | table `company` | list, create, update, soft delete | active names unique; nothing erased |
| employee routes (`controller/employee.js`) | table `employee` | list, list by company, create, update, soft delete | no two active employees agree in name, position, company |
| user routes (`controller/user.js`) | table `user` | list, login, register | one account per username |
| position routes (`controller/position.js`) | table `positions` | list, create | one row per role |
| document tables | rows by primary key | insert, get.update, filter | each query atomic (external: the driver and server) |
| Raft core (`clustering/generic/raft_core.*`) | term, vote, log, snapshot, commit index; mode, match indexes | elections, replication, snapshots, membership changes | one leader per term, logs match, committed states agree, never go back |
| Raft storage (`persist/raft_storage_interface.cc`) | metadata file | five writes | each write is one transaction |
| Raft network (`raft_network.tcc`) | mailboxes | send_rpc, virtual heartbeats | a reply belongs to the request that waits for it |
| table contracts (`clustering/table_contract/`) | contract, branch history, executions | plan, acknowledge, fail over, hand over | no acknowledged write is lost |
| immediate consistency (`clustering/immediate_consistency/`) | branches, versions, backfill sessions | dispatch, stream, backfill | a replica's data is that of the version it says |
| query routing, connectivity, concurrency primitives, buffer cache, serializer | - | - | used as specified (section 9) |
| ReQL, B-tree, drivers, console | - | - | out of scope (section 9) |

How they interact: Express runs the handlers of several requests interleaved at
their awaits; each handler issues queries to RethinkDB. RethinkDB decides which
server owns which shard through one Raft cluster per table, whose state holds
the table's contract; executors on every server carry the contract out, and a
primary's dispatcher streams its writes to secondaries that first have to be
backfilled. PROJECT.json lists the hazards of all parts at the lines where they
bite.

## 2. The backend's modules

`Documents` is the table: a function from primary keys to documents. It is
modelled from how `model/*.js` uses the driver. An insert with a taken key
reports an error in its result and changes nothing; an update merges.

Node runs a handler without interruption between two awaits and a query takes
effect in the database at one instant. A handler is therefore one action per
query, followed by the code up to the next query. `Handlers` declares what the
controllers share, `Slots`, the handlers in flight together: `pc[s]` is what slot s awaits, `request[s]` the part of the
request it holds on to. A promise can reject before the query took effect
(`reject`) or after it (the `None` branch of `Answer`): no handler catches
that, so the request is never answered. A filter with an undefined field is
refused by the driver when it is built (`drivers/javascript/ast.coffee:524`).

| module | actions | code |
|---|---|---|
| `CompanyController` | createCheck, createInsert, updateCheck, updateWrite, delete, getAll, reject | `controller/company.js` |
| `CompanyRegistry` | Store, Deactivate | what the company API promises |
| `EmployeeController` | the same, with getByCompany | `controller/employee.js` |
| `UserController` | registerInsert, registerConnect, registerCount, login, getAllUser, rejectUser | `controller/user.js` |
| `PositionController` | createInsert, createAnswer, getAllPosition, reject | `controller/position.js` |

The history variables `accepted` and `refused` of `UserController` record which
rows were answered 200 and 409, `own` the row a handler stored. (Its names begin
with `user` where `CompanyController`, which `MCRoutes` extends as well, has the same.) A registration whose body carries a taken id
stores nothing and is no row of either: register looks only at the count and
answers it 200 when the username has one row, so `OneAccountGranted` speaks of
accounts and not of answers. `PositionController` has the same history. The un-awaited query of a position's create is a
promise, a record without a length, and `undefined > 0` is false.

## 3. The Raft modules

`RaftLog` has the data of `raft_core.hpp`: configurations and quorums, joint
consensus, the log slice after a snapshot. The state machine's state is the
sequence of changes applied, which is all that its users could compare.

`RaftMember` has one record per `raft_member_t`: `ps` on disk, the rest in
memory. All code of a member runs under its mutex, so a handler is an operator
from the member's state to its next one, composed as the code composes it
(`on_append_entries_rpc` calls `on_rpc_from_leader`, then `AppendEntries`, which
calls `update_commit_index`, and so on). Every `write_*` adds the persistent state
it leaves behind to `disk`; an action either completes or crashes into one of
those states (`Crashes`), from which the member restarts (`Restarted`).

`msgs` is the set of requests ever sent. A request may be handled late, in any
order, or again, which covers lost messages, retries and RPCs that fail although
they were executed. A reply reaches the coroutine that waits for it, or nobody.
`SendUpdate` is one round of `leader_send_updates`, `HandleReply` its
continuation; `LeaderLoop` is one turn of `candidate_and_leader_coro`, which
wakes up only on the condition the code gives to `run_until_satisfied_2`;
`StepDown` is the coroutine `candidate_or_leader_note_term` spawns. Time is
abstract: a watchdog may fire whenever its member is not leader, and a follower may
or may not have heard from a leader lately when it is asked for a vote.

Abstractions to know of:

- a crash in the middle of `BecomeLeader` sends no heartbeat;
- the connected quorum `readiness_for_change` asks for is arbitrary;
- a joining member may copy any started member's state at any time, where the
  code copies it from a member whose committed state names the newcomer;
- a heartbeat once sent may be heard at any later time;
- the random snapshots of debug builds are left out, the threshold is a constant;
- terms and indexes are unbounded naturals; the code's 64 bits do not overflow.

## 4. The modules of table contracts and replication

`ContractRules` is `calculate_contract()` as a relation from a contract, the
configuration and the servers' acks to the contracts it may issue, with the
rules for acknowledging writes and contracts (`is_safe`, `is_contract_ackable`).
`BranchHistory` has versions and their common ancestors. `TableContracts` puts
coordinator and executors together: `state` is the committed table_raft_state_t,
`view[s]` the one server s knows, `exec[s]` its execution, `disk[s]` the version
in its store's metainfo, `seen[s]` the ack the coordinator has of it. A secondary
that has no primary sends its version with the history it had at that moment; the
ack stays in `seen` until the coordinator hears the next one, whatever has
happened to the branch since.

| action | code |
|---|---|
| ChangeConfig, OnAckChange, PumpContracts | `coordinator.cc`, `calculate_contracts.cc` |
| UpdateExecution, Crash, Erase, GcBranchHistory | `executor.cc`, `exec_erase.cc` |
| ProposeBranch, UpdateContractOnStoreThread, AckReady, OnWrite, OnRead | `exec_primary.cc` |
| Subscribe, Backfill, ApplyWrite, LosePrimary | `exec_secondary.cc`; the steps of `ReplicaStream` |

Abstractions to know of: the table has one region; the Raft log is reliable and
a new coordinator does not see older acks; the writes are hard and acknowledged
by a majority; at most one server is cut off at a time, not always the same; the
emergency repair, server names and the priorities of backfills are left out. A
restart keeps what a store has applied: a crash that loses writes acknowledged
with soft durability is outside the model.

`Replication` and its parts (`ReplicationState` for the state, `WriteDispatch` for
the writes and reads of a branch, `Backfill` for the copying of what is older)
open up what `TableContracts` takes as four steps: a secondary
subscribes to the primary's dispatcher, is backfilled in sessions that may be
cut short while new writes already stream in, and takes over when the two have
met. A key's data is the set of changes made to it, a version a timestamp on the
branch. `TimestampRangeTracker` is timestamp_range_tracker_t, which says which
part of a streamed write the store may apply. `ReplicaStream` is the promise,
`ImplementsStream` says that `Replication` keeps it.

| action | code |
|---|---|
| SpawnWrite, LocalWrite, BackgroundWrite, Read, OnReady | `primary_dispatcher.cc`, `local_replicator.cc`, `remote_replicator_server.cc` |
| Subscribe, CreateBackfillee, StartBackfill, Go, BecomeStreaming, OnWriteAsync, OnWriteSync, Restart | `remote_replicator_client.cc` |
| ServeRead | `replica.cc` |
| Commit, SendAckItems, ReachEnd, SessionDone, SendPreItems, OnBackfilleeMessage | `backfillee.cc` |
| OnBackfillerMessage, SendItems | `backfiller.cc`, `store_send_backfill.cc` |
| StoreWrite | `store_receive_backfill.cc`, `btree/backfill.cc` |

Abstractions to know of: a chunk covers one key, the finest part a session can be
cut into; messages that only carry on one coroutine are not delayed; the store's
apply and `on_commit` are one step; versions of earlier branches have left the
primary's line at timestamp 0; an interruption drops the queue of write tokens;
deletion timestamps, secondary indexes, dummy reads and the size of the
dispatcher's coroutine pool are left out. The dispatcher sends a read to a
secondary only if no other replica has acknowledged more: nothing in
`replica_t` makes a read wait for the asynchronous writes of a secondary that
has just taken over, so `ReadsSeeAckedWrites` rests on that preference alone.
(`primary_dispatcher.cc:245-249` says why: an acknowledged write must be seen by
later reads. The other wait, that of `replica_t::do_read` for the timestamp the
read was given, decides nothing with one secondary: a read goes to it only
when it has acknowledged at least that timestamp.) `Restart` of the client, too,
keeps what the store has applied.

## 5. Runs that pass

| run | instance | what it shows |
|---|---|---|
| `routes` | 2 handlers of the company (3 keys, 2 names), the user (3 keys, 2 usernames) or the employee routes (2 keys, complete PUTs) | TypeOK; NameBudget: duplicates of a name and handlers about to write it never exceed the handlers in flight; ImplementsRegistry: every write is a step of the registry; NeverErased; OwnRow; OneAccountGranted: at most one account of a username is told 200; RefusedIsTaken: an account is told 409 only when its username has another; EmployeeTypeOK; EmployeeBudget |
| `raft` | three situations: elections of 3 voters with 2 candidates, 2 terms, partial connectivity and a crashing voter; 3 voters and 3 terms in which leaders overwrite each other; snapshots on a voter and a listener | TypeOK, ElectionSafety, LogMatching, LeaderCompleteness, StateMachineSafety, StatesInSync, GuaranteesHold, NeverGoesBackwards |
| `raft_reconfiguration` | {a} growing to {a, b} or handing over to {b}, with crashes and a joining member, fair scheduling | ElectionSafety, LeaderCompleteness, StateMachineSafety, GuaranteesHold, NeverGoesBackwards, ReconfigurationFinishes |
| `contracts` | nine situations of two or three servers: creation, fail-overs, a read at a primary that may be deposed, restarts with history collection, hand-over, moves, replacement of a voter | TypeOK, AckedOnMajority, AckedAtPrimary, AckedOnBranch, ReadsSeeAckedWrites, CommonAncestorIsExact, PrimaryOnCurrentBranch |
| `contracts_progress` | three situations without partitions, fair scheduling | ConfigurationReached |
| `replication` | 3 keys, queues of one chunk, up to 3 writes, cut sessions and lost clients, fair scheduling | TypeOK, MetainfoIsTrue, TrackerIsTrue, GuaranteesHold, ThrottlesBalance, ReadsSeeAckedWrites, NeverRewinds, CatchesUp, ImplementsStream |

GuaranteesHold collects the `guarantee()`s of the handlers: for every request in
`msgs` and every state of its receiver (Raft), for every message that may arrive
at a client or a session (replication), none of them fails.

CommonAncestorIsExact is about the timestamp by which the coordinator compares
voters: it never says that a voter has a write of the current branch's line that
it does not have, even where the history has been pruned too far and the code
falls back to the root (section 6); as long as the history is complete it does
not say too little either.

## 6. Runs that find a violation

Each is a disagreement between the code and a line of it that says what is
meant; PROJECT.json quotes the line.

- `company_race` (UniqueActiveNames): two creates pass the test before either writes.
- `employee_partial` (UniqueActiveEmployees): one PUT without a position is
  compared as sent and stored as merged.
- `position_conflict` (OneCreatedPerRole): the query for the role is not awaited,
  so the second create of a role is told 200. Awaiting it would not do: the row is
  stored before it is counted, and `> 0` would refuse every create.
- `raft_removed_leader` (RemovedLeaderStepsDown): committing C_new satisfies
  neither disjunct of the wait, so a removed leader is not woken to step down.
- `contracts_history` (HistoryComplete): the primary restarts twice and registers
  two branches under one contract; a secondary's streaming ack, of the first
  branch but of the same contract, counts as being on the last one, and the
  coordinator drops the ancestors that the secondary's next version needs. The
  code then logs an incomplete history and takes the version for the root's,
  which costs the secondary its rank as a candidate but never gives it too high a one.
- `contracts_shrink` (RemovalLeavesStreamingMajority): the loop that removes
  voters never lowers its count of streaming ones.

The models show, and no run states, some more of what the handlers do:

- an insert with a taken primary key is answered 200 although nothing is stored;
- the position and the company of an employee are looked up in two lists, so an
  employee is refused when one row has the position and another the company;
- the listing by company is never answered, since it passes no company on;
- a refused registration has already stored its row, which login accepts, and two
  registrations of a free username that overlap may refuse each other;
- register and position create never close their connection.

## 7. Bounds and fairness

Two handlers are what a race needs; a third key lets both write beside an
existing row. Two keys are enough for the employees, whose budget counts a
third copy as soon as a handler is about to write it. Keys, names and handlers are symmetric. In Raft, conflicts and
lagging logs need three voters. `MaxTerm` and `MaxIndex` bound elections and
proposals in the guards; `Candidates`, `Crashing` and `Listening` name who runs,
crashes and hears heartbeats. The three-voter runs use a network in which a
reaches only c while b reaches both (`OneWay`): a and b still compete for c's
vote, overwrite each other's entries on c, and b replaces those of a. Two
terms leave room for crashes of c, whose vote decides, three (`InTurns`: b, a, b)
for a leader whose first append does not fit a follower's log. Snapshots and
reconfigurations need one voter and a second member, and are explored with
crashes of both on a full network. Deadlock is not checked in the Raft runs,
because at the bounds nothing is left to do.

Fairness is only assumed in `LiveSpec` of `RaftMember`: coroutines that can run
do, RPCs are answered or fail, and one that is repeated for ever is answered
at some point: the scheduler of `arch/runtime` is fair and send_rpc returns on a
disconnect. A server that is to join does: `do_sync` runs whenever the table's
members change and whenever the server connects (`multi_table_manager.cc:559-651`). Nothing is assumed of clients, crashes or elections. The conditions on
LeaderLoop and the RPC handlers are written as `[]<>~(waits)`, which is weak
fairness of an action whose every step ends the wait.

A contract run is a set of scenarios, each with the bounds its situation needs
(contracts, branches, writes, reads, restarts): a fail-over takes two contracts, a
move of a table six, and a stale read a write and a read with a fail-over of three
voters between them. s2 and s3 are symmetric. Three keys tell apart the key before,
at and after the threshold of a session, queues of one chunk are full at once,
and two cut sessions or one lost client leave keys at three different versions.

`LiveSpec` of `TableContracts` and of `Replication` assumes weak fairness of what
coroutines and messages do by themselves, and nothing of clients, restarts,
configuration changes, cut sessions or reads. All budgets are finite, so weak
fairness of the progress actions is enough.

## 8. Proofs

| module | theorem | argument |
|---|---|---|
| `CompanyProofs` | TypeCorrect | TypeOK is inductive |
| | BudgetKept | NameBudget is inductive relative to TypeOK: a check claims a name only when no active company has it, so claims alone are bounded by Slots; a write trades its claim for at most one row; nothing else adds either |
| | RowsStay | every write keeps a document a document |
| | HandlersImplementRegistry | a handler about to write is itself a claim on the name, so the budget leaves room for its row (RoomForClaim); every write is then a Store or a Deactivate. With one handler the registry allows one copy: names are unique |
| `UserProofs` | TypeCorrect, OwnRowKept | an insert never overwrites, so a row stays with its registration |
| | AtMostOneAccount | who counts one row sees its own, hence no accepted one |
| | RefusedAreTaken | who counts two rows sees one besides its own, and no step takes a row away or renames it |
| `RaftProofs` | QuorumsMeet, OneWinnerPerVote | two majorities of one finite set intersect |
| | JointConsensusBridges | a joint quorum is a quorum of both parts |
| | QuorumHasValidLeader | a quorum contains a voter |
| `ContractProofs` | ElectedHasMajorityWrites | more than half of the voters are not ahead of the elected one, so one of the majority that has the write is among them |
| | SafeUnderNextVoters | voters change only to temp_voters, which is_safe asks as well |
| | FailOverKeepsWrites | both together |
| | ContractsStaySane | by cases over the steps of calculate_contract |
| `ReplicationProofs` | ClipIsExact, WriteAdvances, BackfillExtends | the tracker's entries are ordered by key and fall strictly in version; the first entry that reaches a key exists because the indexes are well-ordered |
| | MetainfoStaysTrue, TrackerStaysTrue, GuaranteesStayTrue | the inductive invariant below |
| | VersionsNeverRewind | the first store write in the queue finds its keys at the version before |
| | ReadsStayCurrent | a secondary ahead of the primary's store has acknowledged a write after its subscription, and no acknowledged write is later than what it has |
| | SecondaryImplementsStream | all store writes queued lie after the subscription, and the first is the oldest version's successor |

Assumptions. Slots and Ids are finite, and the markers Absent, NoDoc and None are
none of the values they stand beside. `RaftProofs` assumes finitely many voters.
`Replication` has at least one key, queues of at least one chunk, and scenarios
whose writes change keys of the region; the number of keys, writes, sessions,
lost clients and reads is arbitrary.

The invariant of `Replication` is defined in `ReplicationInvariant`, with the
lemmas about the tracker and about what depends on what; `ReplicationSteps` shows
that writes and the chunks of a backfill keep it, `ReplicationSessions` that its
sessions do (one lemma per action), `ReplicationProofs` puts them together. It says more than the properties do:

- tokens: for a key up to the session's threshold, the store writes queued for it
  form an unbroken chain from the version its metainfo says to the one the tracker
  says; no store write is queued for a key beyond;
- chunks: those on their way are contiguous, start where the tracker ends, and
  have versions no older than the writes thrown away before the backfill started;
- pre-items: what the backfiller must know of the secondary before it sends a
  key has arrived, or is on its way in front of what depends on it;
- sessions: each begins once and ends once, whichever messages are under way;
- acks: as under ReadsStayCurrent.

MetainfoIsTrue alone is not inductive: a store write with a gap before it
breaks it only when it is done, long after the mistake that left the gap. The
tracker's lemmas take the first entry that reaches a key, so they assume that
every set of natural numbers has a least element; `ReplicationProofs` proves that
(NatWellOrdered) and discharges the assumption.

Only model-checked: the invariants of `RaftMember` and of `TableContracts`, which
need the safety argument of the whole protocol; TypeOK and ThrottlesBalance of
`Replication`; the employee budget; and every liveness property, which is
outside what TLAPS proves.

## 9. Not modelled

The components with status `not_modelled` in PROJECT.json. The B-tree, the
ReQL interpreter, drivers, console and operating-system layer are byte-level
code or I/O. Concurrency primitives, connectivity, buffer cache and log
serializer are used as their interfaces specify them: a handler that holds a mutex
is one action, a transaction is atomic, what is written durably survives a
crash. Query routing only forwards queries to the primary.
