---------------------------- MODULE TableContracts ---------------------------
(***************************************************************************)
(* How a table keeps the writes it has acknowledged: the coordinator on the *)
(* Raft leader issues contracts, every server's executor carries out what   *)
(* the latest contract it knows of says about it, and reports back.         *)
(*                                                                          *)
(* The Raft log is taken as reliable: state is the table_raft_state_t that  *)
(* is committed, view[s] the one server s knows, which may be older.  The   *)
(* acks travel through the directory, so seen[s] may be older than what s   *)
(* says now, but a server's acks are not seen out of order.  The table has  *)
(* one region.  Writes are hard and acknowledged by a majority.             *)
(***************************************************************************)
EXTENDS ContractRules, BranchHistory, Sequences

CONSTANTS
    Servers,
    Scenarios     \* [config, changes, contracts, branches, budget, with]

VARIABLES
    state,     \* table_raft_state_t: contract id, contract, current branch, history
    config,    \* the table configuration the user asked for
    changes,   \* the configurations the user will still ask for
    view,      \* the Raft state each server knows
    exec,      \* the execution each server runs
    disk,      \* the version in each store's metainfo
    hist,      \* the branches each server's history manager knows
    seen,      \* the acks for state's contract that the coordinator has
    origin,    \* the birth certificates of the branches made so far
    tip,       \* the timestamp of the last write dispatched on each branch
    pending,   \* the writes whose callbacks are waiting
    acked,     \* the versions of the writes acknowledged to clients
    missed,    \* acknowledged writes that a majority read did not see
    budget,    \* how many writes, reads and restarts may still happen
    limits     \* the bounds of the run, fixed at the start

vars == <<state, config, changes, view, exec, disk, hist, seen, origin, tip,
          pending, acked, missed, budget, limits>>

Branches == 1 .. Len(origin)

(* The servers that have ever been asked to have a replica of the table. *)
Members == limits.config.replicas
               \cup UNION {limits.changes[i].replicas : i \in DOMAIN limits.changes}

(* get_contract_key(): an execution goes on while its key stays the same. *)
get_contract_key(s, st) ==
    IF st.c.primary = s THEN <<"primary", Nil, 0>>
    ELSE IF s \in st.c.replicas THEN <<"secondary", st.c.primary, st.branch>>
    ELSE <<"erase", Nil, 0>>

KeyOf(e) ==
    IF e.role = "secondary" THEN <<e.role, e.primary, e.branch>>
    ELSE <<e.role, Nil, 0>>

Serves(s, b) ==
    /\ exec[s].role = "primary" /\ exec[s].phase = "serving" /\ exec[s].branch = b

Streams(s, b) ==
    /\ exec[s].role = "secondary" /\ exec[s].phase = "secondary_streaming"
    /\ exec[s].branch = b

ReadyDispatchees(b) == {s \in Servers : Serves(s, b) \/ Streams(s, b)}

(* The ack in a server's ack_map for the contract in its view.  A secondary  *)
(* that backfills tells the coordinator no more than one that has not        *)
(* answered.                                                                 *)
AckOf(s) ==
    LET e == exec[s]
    IN  CASE e.role = "primary" /\ e.phase = "need_branch" ->
               [state |-> "primary_need_branch", branch |-> e.branch,
                history |-> {e.branch} \cup export_branch_history(origin, hist[s],
                                               origin[e.branch].branch)]
          [] e.role = "primary" /\ e.phase = "serving" ->
               [state |-> IF e.ready THEN "primary_ready" ELSE "primary_in_progress"]
          [] e.role = "secondary" /\ e.phase = "secondary_need_primary" ->
               [state |-> e.phase, version |-> disk[s], history |-> e.history]
          [] e.role = "secondary" /\ e.phase = "secondary_streaming" ->
               [state |-> e.phase]
          [] OTHER -> NoAck

(* The history that a secondary sends along with its version. *)
OwnHistory(s) == export_branch_history(origin, hist[s], disk[s].branch)

(* The execution that a server starts for a contract. *)
Execution(s, st) ==
    LET key == get_contract_key(s, st)
    IN  CASE key[1] = "primary" ->
               [role |-> "primary", phase |-> "starting", branch |-> 0,
                ready |-> FALSE, sync |-> 0, id |-> st.id, c |-> st.c]
          [] key[1] = "secondary" ->
               [role |-> "secondary", phase |-> "secondary_need_primary",
                primary |-> key[2], branch |-> key[3], start |-> 0, gc |-> FALSE,
                history |-> OwnHistory(s)]
          [] OTHER -> [role |-> "erase", phase |-> "erasing"]

(* The Raft state, every server's view of it, its version and its history fit *)
(* together: contract_t::sanity_check(), no version past the end of its       *)
(* branch, no branch older than the one it comes from.                        *)
TypeOK ==
    /\ state.id \in Nat /\ state.branch \in Branches \cup {0}
    /\ state.history \subseteq Branches
    /\ state.c.voters \subseteq state.c.replicas
    /\ state.c.primary \in state.c.replicas \cup {Nil}
    /\ state.c.hand_over \in state.c.replicas \cup {Nil}
    /\ \A s \in Servers :
        /\ view[s].id \in 1 .. state.id
        /\ disk[s] = zero \/ disk[s].branch \in Branches
        /\ disk[s].branch # 0 => disk[s].timestamp <= tip[disk[s].branch]
        /\ hist[s] \subseteq Branches
    /\ \A b \in Branches : origin[b].branch < b /\ origin[b].timestamp <= tip[b]

(* make_new_table_raft_state(), and every server new to the table. *)
NewTable ==
    /\ state = [id |-> 1, branch |-> 0, history |-> {},
                c |-> Contract(config.replicas, config.voters, {}, config.primary, Nil)]
    /\ origin = <<>> /\ tip = <<>>
    /\ disk = [s \in Servers |-> zero]
    /\ hist = [s \in Servers |-> {}]
    /\ exec = [s \in Servers |-> Execution(s, state)]

(* The same table once its primary has registered a branch, its secondaries  *)
(* stream and the other servers have nothing.                                *)
SettledTable ==
    /\ state = [id |-> 1, branch |-> 1, history |-> {1},
                c |-> Contract(config.replicas, config.voters, {}, config.primary, Nil)]
    /\ origin = <<zero>> /\ tip = <<1>>
    /\ disk = [s \in Servers |-> IF s \in config.replicas THEN Version(1, 1) ELSE zero]
    /\ hist = [s \in Servers |-> IF s \in config.replicas THEN {1} ELSE {}]
    /\ exec = [s \in Servers |->
           LET e == Execution(s, state)
           IN  CASE e.role = "primary" ->
                      [e EXCEPT !.phase = "serving", !.branch = 1, !.ready = TRUE]
                 [] e.role = "secondary" ->
                      [e EXCEPT !.phase = "secondary_streaming", !.gc = TRUE,
                                !.history = {}]
                 [] OTHER -> [e EXCEPT !.phase = "erased"]]

Init ==
    /\ limits \in Scenarios
    /\ config = limits.config
    /\ changes = limits.changes
    /\ IF "settled" \in limits.with THEN SettledTable ELSE NewTable
    /\ view = [s \in Servers |-> state]
    /\ seen = [s \in Servers |-> NoAck]
    /\ pending = {} /\ acked = {} /\ missed = {}
    /\ budget = limits.budget

------------------------------------------------------------------------------
(* The coordinator.                                                           *)

(* change_config() *)
ChangeConfig ==
    /\ changes # <<>>
    /\ config' = Head(changes)
    /\ changes' = Tail(changes)
    /\ UNCHANGED <<state, view, exec, disk, hist, seen, origin, tip, pending,
                   acked, missed, budget, limits>>

(* on_ack_change(): the ack of s, or its removal, reaches the coordinator. *)
OnAckChange(s) ==
    /\ view[s].id = state.id
    /\ seen[s] # AckOf(s)
    /\ seen' = [seen EXCEPT ![s] = AckOf(s)]
    /\ UNCHANGED <<state, config, changes, view, exec, disk, hist, origin, tip,
                   pending, acked, missed, budget, limits>>

CommonAncestor(ack) ==
    version_find_branch_common(origin, state.history \cup ack.history, ack.version,
                               state.branch, 2 * Len(origin),
                               IF state.branch = 0 THEN 0 ELSE tip[state.branch])

(* A mutant: timestamps are compared whatever branches they are on. *)
PlainTimestamp(ack) == ack.version.timestamp

(* The place of an ack on the current branch: a missing branch counts as the *)
(* root.                                                                     *)
Place(ack) == Max({v.timestamp : v \in CommonAncestor(ack)} \cup {0})

(* The servers whose acks break_ack_into_fragments() has to place. *)
Placed == {s \in state.c.voters \cup state.c.temp_voters :
              seen[s].state = "secondary_need_primary"}

(* break_ack_into_fragments() *)
AckFragments ==
    [s \in Servers |->
        IF s \in Placed THEN [state |-> seen[s].state, common_ancestor |-> Place(seen[s])]
        ELSE seen[s]]

(* The branch that a primary has asked to be registered, or the current one. *)
RegisteredBranch(c) ==
    LET p == state.c.primary
    IN  IF p # Nil /\ c.primary = p /\ seen[p].state = "primary_need_branch"
        THEN seen[p].branch ELSE state.branch

(* The branch history after the change: all that the current branch comes    *)
(* from, unless every replica is known to be on it.                          *)
KeptHistory(c, branch) ==
    LET can_gc == \A s \in c.replicas :
                      seen[s].state \in {"primary_ready", "secondary_streaming"}
        live == IF can_gc THEN {state.branch}
                ELSE export_branch_history(origin, state.history, state.branch)
    IN  (state.history \cap live)
            \cup IF branch = state.branch THEN {}
                 ELSE copy_branch_history_for_branch(origin, branch,
                          seen[c.primary].history, state.history)

(* The sets of servers that may be linked to one another and the coordinator: *)
(* at most one server is cut off at a time, though not always the same one.   *)
Links == {Members} \cup IF "partitions" \in limits.with
                        THEN {Members \ {s} : s \in Members} ELSE {}

(* pump_contracts(): calculate_all_contracts() and the change it proposes. *)
PumpContracts ==
    \E c \in calculate_contract(state.c, config, AckFragments, Links) :
        LET branch == RegisteredBranch(c)
            next == [id |-> IF c = state.c THEN state.id ELSE state.id + 1,
                     c |-> c, branch |-> branch, history |-> KeptHistory(c, branch)]
        IN  /\ next # state
            /\ next.id <= limits.contracts
            /\ state' = next
            /\ seen' = IF c = state.c THEN seen ELSE [s \in Servers |-> NoAck]
            /\ UNCHANGED <<config, changes, view, exec, disk, hist, origin, tip,
                           pending, acked, missed, budget, limits>>

------------------------------------------------------------------------------
(* The executors.                                                             *)

(* The writes of an execution that ends are never acknowledged. *)
Dropped(e) ==
    IF e.role = "primary" /\ e.phase = "serving"
    THEN {w \in pending : w.branch = e.branch} ELSE {}

(* spawn_write() gives a sync write a timestamp. *)
SyncTimestamp(b) == tip[b] + 1

(* update_contract_or_raft_state() of a primary finds its branch registered. *)
AnyUpdate(e, st) == e.role = "primary" /\ e.phase = "need_branch"

Registered(e, st) ==
    e.role = "primary" /\ e.phase = "need_branch" /\ e.branch = st.branch

(* update_blocking(): an execution goes on if its key is the same, and gives *)
(* way to another one if not.  Once its branch is registered, run() of a     *)
(* primary goes on: the local replica moves to the branch, the dispatcher    *)
(* takes queries and a first sync write goes out.                            *)
UpdateExecution(s) ==
    LET e == exec[s]
        b == IF e.role = "primary" THEN e.branch ELSE 0
        goesOn == KeyOf(e) = get_contract_key(s, state)
        registered == goesOn /\ Registered(e, state)
        updated == IF registered
                   THEN [e EXCEPT !.phase = "serving", !.sync = SyncTimestamp(b),
                                  !.id = state.id, !.c = state.c]
                   ELSE IF e.role = "primary"
                   THEN [e EXCEPT !.ready = @ /\ state.id = view[s].id]
                   ELSE e
    IN  /\ view[s] # state
        /\ view' = [view EXCEPT ![s] = state]
        /\ exec' = [exec EXCEPT ![s] = IF goesOn THEN updated ELSE Execution(s, state)]
        /\ pending' = IF goesOn THEN pending ELSE pending \ Dropped(e)
        /\ tip' = IF registered THEN [tip EXCEPT ![b] = SyncTimestamp(b)] ELSE tip
        /\ hist' = IF registered THEN [hist EXCEPT ![s] = @ \cup {b}] ELSE hist
        /\ disk' = IF registered
                   THEN [disk EXCEPT ![s] = Version(b, origin[b].timestamp)] ELSE disk
        /\ UNCHANGED <<state, config, changes, seen, origin, acked, missed, budget,
                       limits>>

(* The server restarts: its executions end, its disk and its log remain. *)
Crash(s) ==
    /\ budget.crashes > 0
    /\ exec[s] # Execution(s, view[s])
    /\ budget' = [budget EXCEPT !.crashes = @ - 1]
    /\ exec' = [exec EXCEPT ![s] = Execution(s, view[s])]
    /\ pending' = pending \ Dropped(exec[s])
    /\ UNCHANGED <<state, config, changes, view, disk, hist, seen, origin, tip,
                   acked, missed, limits>>

(* erase_execution_t::run() *)
Erase(s) ==
    /\ exec[s].role = "erase" /\ exec[s].phase = "erasing"
    /\ disk' = [disk EXCEPT ![s] = zero]
    /\ exec' = [exec EXCEPT ![s].phase = "erased"]
    /\ UNCHANGED <<state, config, changes, view, hist, seen, origin, tip, pending,
                   acked, missed, budget, limits>>

(* gc_branch_history(): only once the execution has settled on a branch. *)
GcBranchHistory(s) ==
    LET e == exec[s]
        live == IF e.role = "erase" THEN {}
                ELSE mark_ancestors_since_base_live(origin, hist[s],
                         view[s].history, e.branch)
    IN  /\ "gc" \in limits.with
        /\ \/ e.role = "primary" /\ e.phase = "serving"
           \/ e.role = "secondary" /\ e.gc
           \/ e.role = "erase" /\ e.phase = "erased"
        /\ hist[s] \ live # {}
        /\ hist' = [hist EXCEPT ![s] = @ \cap live]
        /\ UNCHANGED <<state, config, changes, view, exec, disk, seen, origin, tip,
                       pending, acked, missed, budget, limits>>

------------------------------------------------------------------------------
(* A primary: primary_execution_t.                                            *)

(* run(), up to the request for the registration of a branch of its own. *)
ProposeBranch(p) ==
    /\ exec[p].role = "primary" /\ exec[p].phase = "starting"
    /\ Len(origin) < limits.branches
    /\ origin' = Append(origin, disk[p])
    /\ tip' = Append(tip, disk[p].timestamp)
    /\ exec' = [exec EXCEPT ![p].phase = "need_branch", ![p].branch = Len(origin) + 1]
    /\ UNCHANGED <<state, config, changes, view, disk, hist, seen, pending, acked,
                   missed, budget, limits>>

(* update_contract_on_store_thread(): new writes follow the contract, and a  *)
(* sync write goes out behind the ones that do not.                          *)
UpdateContractOnStoreThread(p) ==
    LET e == exec[p]
    IN  /\ e.role = "primary" /\ e.phase = "serving"
        /\ e.id # view[p].id
        /\ exec' = [exec EXCEPT ![p].id = view[p].id, ![p].c = view[p].c,
                                ![p].sync = SyncTimestamp(e.branch)]
        /\ tip' = [tip EXCEPT ![e.branch] = SyncTimestamp(e.branch)]
        /\ UNCHANGED <<state, config, changes, view, disk, hist, seen, origin, pending,
                       acked, missed, budget, limits>>

(* sync_contract_with_replicas() has succeeded, and the contract is acked. *)
AckReady(p) ==
    LET e == exec[p]
    IN  /\ e.role = "primary" /\ e.phase = "serving"
        /\ e.id = view[p].id /\ ~ e.ready
        /\ is_contract_ackable(e.c, {s \in Servers :
               disk[s].branch = e.branch /\ disk[s].timestamp >= e.sync})
        /\ exec' = [exec EXCEPT ![p].ready = TRUE]
        /\ UNCHANGED <<state, config, changes, view, disk, hist, seen, origin, tip,
                       pending, acked, missed, budget, limits>>

(* spawn_write(): the next timestamp, and a callback under the contract. *)
SpawnWrite(p, unseen) ==
    LET b == exec[p].branch
    IN  /\ tip' = [tip EXCEPT ![b] = @ + 1]
        /\ pending' = pending \cup
               {[branch |-> b, timestamp |-> tip[b] + 1, c |-> exec[p].c,
                 acks |-> {}, unseen |-> unseen]}
        /\ UNCHANGED <<state, config, changes, view, exec, disk, hist, seen, origin,
                       acked, missed, limits>>

(* on_write() *)
OnWrite(p) ==
    /\ budget.writes > 0
    /\ budget' = [budget EXCEPT !.writes = @ - 1]
    /\ exec[p].role = "primary" /\ exec[p].phase = "serving"
    /\ exec[p].c.hand_over = Nil
    /\ is_safe(exec[p].c, ReadyDispatchees(exec[p].branch))
    /\ SpawnWrite(p, {})

(* The acknowledged writes that a version lacks. *)
Unseen(v) == {w \in acked : ~ version_is_ancestor(origin, w, v)}

(* A mutant: the read succeeds at once, as in single mode. *)
UnsyncedRead(p) ==
    /\ budget.reads > 0
    /\ budget' = [budget EXCEPT !.reads = @ - 1]
    /\ exec[p].role = "primary" /\ exec[p].phase = "serving"
    /\ exec[p].c.hand_over = Nil
    /\ missed' = missed \cup Unseen(disk[p])
    /\ UNCHANGED <<state, config, changes, view, exec, disk, hist, seen, origin, tip,
                   pending, acked, limits>>

(* on_read() in majority mode: a replica that has every write acknowledged   *)
(* on this branch is read, and sync_committed_read() sends a sync write      *)
(* whose success lets the read succeed.  is_majority_available() was asked   *)
(* when the read arrived, and may have changed by now.                       *)
OnRead(p) ==
    /\ budget.reads > 0
    /\ budget' = [budget EXCEPT !.reads = @ - 1]
    /\ exec[p].role = "primary" /\ exec[p].phase = "serving"
    /\ exec[p].c.hand_over = Nil
    /\ \E d \in ReadyDispatchees(exec[p].branch) :
        /\ \A w \in acked : w.branch = exec[p].branch => w.timestamp <= disk[d].timestamp
        /\ SpawnWrite(p, Unseen(disk[d]))

------------------------------------------------------------------------------
(* The replicas of a branch.                                                  *)

(* secondary_execution_t::run() finds its primary in the directory, and its  *)
(* remote_replicator_client_t subscribes to the writes dispatched from now.  *)
(* The backfillee takes over the history of the primary's version.           *)
Subscribe(s) ==
    LET e == exec[s]
    IN  /\ e.role = "secondary" /\ e.phase = "secondary_need_primary"
        /\ e.primary # Nil /\ Serves(e.primary, e.branch)
        /\ hist' = [hist EXCEPT ![s] = @ \cup
               export_branch_history(origin, hist[e.primary], e.branch)]
        /\ exec' = [exec EXCEPT ![s].phase = "secondary_backfilling",
                                ![s].start = tip[e.branch], ![s].history = {}]
        /\ UNCHANGED <<state, config, changes, view, disk, seen, origin, tip,
                       pending, acked, missed, budget, limits>>

(* The client's constructor ends.  The backfill has started once the         *)
(* primary's store had the writes from before the subscription, and leaves   *)
(* the replica at one of the versions since; ReplicaStream says the same.    *)
Backfill(s) ==
    LET e == exec[s]
    IN  /\ e.role = "secondary" /\ e.phase = "secondary_backfilling"
        /\ Serves(e.primary, e.branch)
        /\ disk[e.primary].timestamp >= e.start
        /\ \E t \in e.start .. tip[e.branch] :
               disk' = [disk EXCEPT ![s] = Version(e.branch, t)]
        /\ exec' = [exec EXCEPT ![s].phase = "secondary_streaming", ![s].gc = TRUE,
                                ![s].start = 0]
        /\ UNCHANGED <<state, config, changes, view, hist, seen, origin, tip, pending,
                       acked, missed, budget, limits>>

(* The stop signal of run(): the primary has gone from the directory. *)
LosePrimary(s) ==
    LET e == exec[s]
    IN  /\ e.role = "secondary"
        /\ e.phase \in {"secondary_backfilling", "secondary_streaming"}
        /\ ~ Serves(e.primary, e.branch)
        /\ exec' = [exec EXCEPT ![s].phase = "secondary_need_primary", ![s].start = 0,
                                ![s].history = OwnHistory(s)]
        /\ UNCHANGED <<state, config, changes, view, disk, hist, seen, origin, tip,
                       pending, acked, missed, budget, limits>>

(* background_write(): the next write of the branch reaches the disk of s,   *)
(* and the callback hears of it.  A write that is safe is acknowledged.      *)
ApplyWrite(s) ==
    LET b == exec[s].branch
        v == Version(b, disk[s].timestamp + 1)
        heard == {w \in pending : w.branch = b /\ w.timestamp = v.timestamp}
        noted == {[w EXCEPT !.acks = @ \cup {s}] : w \in heard}
        done == {w \in noted : is_safe(w.c, w.acks)}
    IN  /\ exec[s].role \in {"primary", "secondary"}
        /\ Serves(s, b) \/ Streams(s, b)
        /\ disk[s].timestamp < tip[b]
        /\ disk' = [disk EXCEPT ![s] = v]
        /\ pending' = (pending \ heard) \cup (noted \ done)
        /\ acked' = acked \cup {Version(b, w.timestamp) : w \in done}
        /\ missed' = missed \cup UNION {w.unseen : w \in done}
        /\ UNCHANGED <<state, config, changes, view, exec, hist, seen, origin, tip,
                       budget, limits>>

------------------------------------------------------------------------------
Next ==
    \/ ChangeConfig
    \/ PumpContracts
    \/ \E s \in Members :
        \/ OnAckChange(s) \/ UpdateExecution(s) \/ Crash(s)
        \/ Erase(s) \/ GcBranchHistory(s)
        \/ ProposeBranch(s) \/ UpdateContractOnStoreThread(s)
        \/ AckReady(s) \/ OnWrite(s) \/ OnRead(s)
        \/ Subscribe(s) \/ Backfill(s) \/ LosePrimary(s) \/ ApplyWrite(s)

Spec == Init /\ [][Next]_vars

------------------------------------------------------------------------------
(* Properties.                                                                *)

Has(s, w) == version_is_ancestor(origin, w, disk[s])

(* contract_metadata.hpp, 47: a majority of the contract's voters have a      *)
(* version on disk which descends from every acknowledged write.              *)
AckedOnMajority ==
    \A w \in acked : IsMajority({s \in Servers : Has(s, w)}, state.c.voters)

(* contract_metadata.hpp, 49: so does the primary that the contract names. *)
AckedAtPrimary ==
    state.c.primary # Nil => \A w \in acked : Has(state.c.primary, w)

(* contract_metadata.hpp, 51: so does the latest version on current_branches. *)
AckedOnBranch ==
    \A w \in acked :
        /\ state.branch # 0
        /\ version_is_ancestor(origin, w, Version(state.branch, tip[state.branch]))

(* contract_metadata.hpp, 36: a majority read that succeeds has seen every    *)
(* write that was acknowledged before it, whoever was primary then.           *)
ReadsSeeAckedWrites == missed = {}

(* calculate_contracts.cc, 35: an ack's common_ancestor says which writes of  *)
(* the current branch, and of the branches it comes from, a voter has.  It    *)
(* never says too much, even when the history is incomplete, and never too    *)
(* little when it is not.                                                     *)
CommonAncestorIsExact ==
    \A s \in IF state.branch = 0 THEN {} ELSE Placed :
        LET place == Place(seen[s])
            found == CommonAncestor(seen[s]) # {}
        IN  \A b \in Branches : \A t \in origin[b].timestamp + 1 .. tip[b] :
                version_is_ancestor(origin, Version(b, t),
                                    Version(state.branch, tip[state.branch]))
                => LET has == version_is_ancestor(origin, Version(b, t), seen[s].version)
                   IN  (t <= place => has) /\ (found /\ has => t <= place)

(* contract_metadata.hpp, 254: the branch history in the Raft state and the   *)
(* one a replica sends with its version give a complete picture of how that   *)
(* version relates to the current branch.                                     *)
HistoryComplete == \A s \in Placed : CommonAncestor(seen[s]) # {}

(* A primary that serves under the contract in force is on the branch that    *)
(* the Raft state has registered: an execution never outlives a failover.     *)
PrimaryOnCurrentBranch ==
    \A p \in Servers, b \in Branches :
        Serves(p, b) /\ view[p].id = state.id => b = state.branch

(* calculate_contracts.cc, 166: voters are not removed if that would leave    *)
(* less than a majority of streaming ones.                                    *)
RemovalLeavesStreamingMajority ==
    \A c \in calculate_contract(state.c, config, AckFragments, Links) :
        c.temp_voters # {} /\ state.c.temp_voters = {} /\ state.c.voters \ c.temp_voters # {}
            => IsMajority({s \in Servers : is_streaming(state.c, seen, s)}, c.temp_voters)

(* check_all_replicas_ready() *)
check_all_replicas_ready ==
    /\ state.c = Contract(config.replicas, config.voters, {}, config.primary, Nil)
    /\ \A s \in config.replicas :
           seen[s].state \in {"primary_ready", "secondary_streaming"}

(* The pumps of the coordinator and of the executors run whenever they are    *)
(* notified, and messages between servers that stay up arrive.  Nobody has to *)
(* change a configuration, write, read or restart.                            *)
Fairness ==
    /\ WF_vars(PumpContracts)
    /\ \A s \in Servers :
        /\ WF_vars(OnAckChange(s)) /\ WF_vars(UpdateExecution(s)) /\ WF_vars(Erase(s))
        /\ WF_vars(ProposeBranch(s)) /\ WF_vars(UpdateContractOnStoreThread(s))
        /\ WF_vars(AckReady(s)) /\ WF_vars(ApplyWrite(s))
        /\ WF_vars(Subscribe(s)) /\ WF_vars(Backfill(s)) /\ WF_vars(LosePrimary(s))

LiveSpec == Spec /\ Fairness

(* While all servers stay connected, table_wait() ends: after the last change *)
(* of the configuration every replica of it gets ready, and stays so.         *)
ConfigurationReached == <>[]check_all_replicas_ready
==============================================================================
