------------------------------ MODULE RaftMember -----------------------------
(***************************************************************************)
(* RethinkDB's Raft (clustering/generic/raft_core.tcc), which every table's *)
(* configuration goes through.  member[i] is one raft_member_t: what it has *)
(* on disk (ps) and what it keeps in memory.  A member has one mutex, so a  *)
(* handler is one action: an operator from the member's state to its next   *)
(* one.  disk collects the persistent states the handler has written, each  *)
(* of which a crash in the middle of the handler may leave behind.          *)
(*                                                                          *)
(* msgs holds every RPC request ever sent: it may arrive late, out of order *)
(* or, after a retry, twice.  Time is abstract: a watchdog may fire at any  *)
(* moment, and a member may be connected to any set of others.              *)
(***************************************************************************)
EXTENDS RaftLog, SequencesExt

CONSTANTS Members, InitialConfig,
          Proposals,          \* what clients propose: changes, Nil for a no-op
          NewConfigs,         \* configurations clients propose
          SnapshotThreshold,  \* snapshot_threshold: 20 in a release build
          MaxTerm,            \* bound: no election beyond this term
          MaxIndex,           \* bound: no proposal beyond this log index
          Candidates,         \* bound: Candidates[t] may run for election in term t
          Connected,          \* <<i, j>>: i may have j in get_connected_members()
          Crashing,           \* bound: the members that crash
          Listening,          \* bound: the members that get virtual heartbeats
          Joining,            \* bound: the members that may join later
          Nil, NotStarted

VARIABLES member, msgs
vars == <<member, msgs>>

NoRpc == [kind |-> "no rpc"]
Stopped == [kind |-> "stopped"]
NoReply == [kind |-> "no reply"]

Started == {i \in Members : member[i] # NotStarted}

make_initial ==
    [current_term |-> 0, voted_for |-> Nil, commit_index |-> 0,
     snapshot_state |-> <<>>, snapshot_config |-> Simple(InitialConfig),
     log |-> [prev_index |-> 0, prev_term |-> 0, entries |-> <<>>]]

Replay(p, n) == apply_log_entries([log_index |-> p.log.prev_index,
                                   state     |-> p.snapshot_state,
                                   config    |-> p.snapshot_config], p.log, n)

\* The constructor: a member starts, or restarts, from what is on disk.
Restarted(p) ==
    [ps |-> p, committed_state |-> Replay(p, p.commit_index),
     latest_state |-> Replay(p, get_latest_index(p.log)),
     mode |-> "follower", current_term_leader_id |-> Nil, votes_for_us |-> {},
     match_indexes |-> <<>>, update |-> <<>>, initial_next_index |-> 0,
     latest_log_index |-> 0, noted |-> {}, disk |-> {}]

Init == /\ member = [i \in Members |->
                        IF i \in ConfigMembers(InitialConfig)
                        THEN Restarted(make_initial) ELSE NotStarted]
        /\ msgs = {}

(* ------------------------------- storage ------------------------------- *)

Written(m, p) == [m EXCEPT !.ps = p, !.disk = @ \cup {p}]

write_current_term_and_voted_for(m, term, voted_for) ==
    Written(m, [m.ps EXCEPT !.current_term = term, !.voted_for = voted_for])

\* Mutant: the commit index stays in memory, as in the Raft paper.
write_commit_index_volatile(m, n) == m

write_commit_index(m, n) == Written(m, [m.ps EXCEPT !.commit_index = n])

write_log_replace_tail(m, source, first) ==
    Written(m, [m.ps EXCEPT !.log.entries =
        Slice(m.ps.log, m.ps.log.prev_index + 1, first - 1)
            \o Slice(source, first, get_latest_index(source))])

write_log_append_one(m, entry) ==
    Written(m, [m.ps EXCEPT !.log.entries = Append(@, entry)])

write_snapshot(m, state, config, clear_log, n, term, commit_index) ==
    Written(m, [m.ps EXCEPT
        !.snapshot_state = state, !.snapshot_config = config, !.commit_index = commit_index,
        !.log = IF clear_log THEN [prev_index |-> n, prev_term |-> term, entries |-> <<>>]
                ELSE delete_entries_to(@, n, term)])

(* ----------------- what every part of a member relies on ---------------- *)

current_term(m) == m.ps.current_term
latest_index(m) == get_latest_index(m.ps.log)
commit_index(m) == m.committed_state.log_index

\* The coroutines note_term has spawned check that the term is still the one
\* they saw, so a new term makes them harmless.
update_term(m, term, voted_for) ==
    [write_current_term_and_voted_for(m, term, voted_for)
        EXCEPT !.current_term_leader_id = Nil, !.noted = {}]

\* Mutant: the old leader's match indexes survive.
become_follower_dirty(m) ==
    [m EXCEPT !.mode = "follower", !.votes_for_us = {}, !.update = <<>>]

\* Interrupts candidate_and_leader_coro with the coroutines it has spawned.
become_follower(m) ==
    [m EXCEPT !.mode = "follower", !.votes_for_us = {}, !.match_indexes = <<>>,
              !.update = <<>>, !.initial_next_index = 0, !.latest_log_index = 0]

note_term(m, term) ==
    IF term > current_term(m) THEN [m EXCEPT !.noted = @ \cup {term}] ELSE m

update_commit_index(m, n) ==
    LET m1 == write_commit_index(m, n)
        m2 == [m1 EXCEPT !.committed_state = apply_log_entries(@, m1.ps.log, n)]
    IN  IF n - m2.ps.log.prev_index > SnapshotThreshold
        THEN write_snapshot(m2, m2.committed_state.state, m2.committed_state.config,
                            FALSE, n, get_entry_term(m2.ps.log, n), n)
        ELSE m2

\* The index up to which the leader may commit: entries of earlier terms are
\* skipped, and the first entry of this term without a quorum ends the search.
CommitTarget(i, m) ==
    LET approving(n) == {j \in DOMAIN m.match_indexes : m.match_indexes[j] >= n}
        ours == {n \in (commit_index(m) + 1) .. latest_index(m) :
                    get_entry_term(m.ps.log, n) = current_term(m)}
        approved == {n \in ours : \A k \in ours :
                        k <= n => is_quorum(m.latest_state.config, approving(k))}
    IN  IF approved = {} THEN commit_index(m)
        ELSE CHOOSE n \in approved : \A k \in approved : k <= n

leader_update_match_index(i, m, j, n) ==
    LET m1 == [m EXCEPT !.match_indexes[j] = n]
        target == CommitTarget(i, m1)
    IN  IF target # commit_index(m) THEN update_commit_index(m1, target) ELSE m1

Entry(type, term, change, config) ==
    [type |-> type, term |-> term, change |-> change, config |-> config]

leader_append_log_entry(i, m, entry) ==
    LET m1 == write_log_append_one(m, entry)
        m2 == [m1 EXCEPT !.latest_state = apply_log_entries(@, m1.ps.log, latest_index(m1))]
    IN  leader_update_match_index(i, m2, i, latest_index(m2))

\* Steps down when no longer a valid leader; starts the second phase of a
\* configuration change once the first is committed.
leader_continue_reconfiguration(i, m) ==
    LET committed == m.committed_state.config
        latest == m.latest_state.config
    IN  IF ~is_valid_leader(committed, i) /\ ~is_valid_leader(latest, i)
        THEN note_term(m, current_term(m) + 1)
        ELSE IF is_joint_consensus(committed) /\ is_joint_consensus(latest)
        THEN leader_append_log_entry(i, m,
                 Entry("config", current_term(m), Nil, Simple(committed.new_config)))
        ELSE m

leader_spawn_update_coros(i, m) ==
    LET peers == get_all_members(m.latest_state.config) \ {i}
        fresh == [next_index |-> m.initial_next_index, member_commit_index |-> 0,
                  send_even_if_empty |-> TRUE, rpc |-> NoRpc, reply |-> NoReply]
    IN  [m EXCEPT
           !.update = [j \in peers |-> IF j \in DOMAIN @ THEN @[j] ELSE fresh],
           !.match_indexes = [j \in peers \cup {i} |-> IF j \in DOMAIN @ THEN @[j] ELSE 0]]

\* One turn of the leader's loop, which remembers how far it has seen the log.
LeaderTurn(i, m) ==
    LET m1 == leader_continue_reconfiguration(i, leader_spawn_update_coros(i, m))
    IN  [m1 EXCEPT !.latest_log_index = m1.latest_state.log_index]

(* ------------------------------ RPC handlers ---------------------------- *)

on_rpc_from_leader(m, leader, term) ==
    LET m1 == IF term > current_term(m) THEN update_term(become_follower(m), term, Nil) ELSE m
        m2 == IF m1.mode = "candidate" THEN become_follower(m1) ELSE m1
    IN  IF term < current_term(m) THEN m
        ELSE [m2 EXCEPT !.current_term_leader_id = leader]

\* Mutant: no comparison of the logs at all.
UpToDateUnchecked(m, r) == TRUE

UpToDate(m, r) ==
    LET last_term == get_entry_term(m.ps.log, latest_index(m))
    IN  \/ r.last_log_term > last_term
        \/ r.last_log_term = last_term /\ r.last_log_index >= latest_index(m)

\* A leader disregards candidates that are not members of its configuration.
\* (A follower that hears from a leader disregards every candidate: whether it
\* does depends on time, so HandleRequestVote lets it.)
LeaderDisregards(m, r) ==
    m.mode = "leader" /\ r.from \notin get_all_members(m.latest_state.config)

VoteTerm(m, r) ==
    IF r.term > current_term(m) THEN update_term(become_follower(m), r.term, Nil) ELSE m

\* Mutant: voted_for is not looked at.
GrantsVoteAgain(m, r) == r.term = current_term(m) /\ UpToDate(m, r)

GrantsVote(m, r) == /\ r.term = current_term(m)
                    /\ m.ps.voted_for \in {Nil, r.from}
                    /\ UpToDate(m, r)

on_request_vote_rpc(m, r) ==
    LET m1 == VoteTerm(m, r)
    IN  IF GrantsVote(m1, r)
        THEN write_current_term_and_voted_for(m1, current_term(m1), r.from)
        ELSE m1

Included(r) == [log_index |-> r.last_included_index, state |-> r.state, config |-> r.config]

\* Mutant: only the index of the state machine is reset.
ResetIndex(m, r) ==
    IF r.last_included_index > commit_index(m)
    THEN [m EXCEPT !.committed_state.log_index = r.last_included_index] ELSE m

\* "Reset state machine using snapshot contents"
ResetStateMachine(m, r) ==
    IF r.last_included_index > commit_index(m)
    THEN [m EXCEPT !.committed_state = Included(r)] ELSE m

\* The log has the last entry of the snapshot, and keeps what follows it.
Retains(m, r) ==
    /\ r.last_included_index <= latest_index(m)
    /\ get_entry_term(m.ps.log, r.last_included_index) = r.last_included_term

on_install_snapshot_rpc(m, r) ==
    LET m1 == on_rpc_from_leader(m, r.from, r.term)
        n == r.last_included_index
        write(clear_log, commit) == write_snapshot(m1, r.state, r.config, clear_log,
                                                   n, r.last_included_term, commit)
        m2 == IF Retains(m1, r) THEN write(FALSE, max(n, m1.ps.commit_index))
              ELSE [write(TRUE, n) EXCEPT !.latest_state = Included(r)]
    IN  IF r.term < current_term(m) \/ n <= m1.ps.log.prev_index THEN m1
        ELSE ResetStateMachine(m2, r)

\* Mutant: the term of the previous entry is not compared.
RejectsTooShort(m, r) == r.entries.prev_index > latest_index(m)

\* The log does not have the entry the leader's new entries build on.
Rejects(m, r) ==
    \/ r.entries.prev_index > latest_index(m)
    \/ /\ r.entries.prev_index >= m.ps.log.prev_index
       /\ get_entry_term(m.ps.log, r.entries.prev_index) # r.entries.prev_term

Conflicts(m, r) ==
    {n \in (max(r.entries.prev_index, m.ps.log.prev_index) + 1)
            .. min(latest_index(m), get_latest_index(r.entries)) :
        get_entry_term(m.ps.log, n) # get_entry_term(r.entries, n)}

first_nonmatching_index(m, r) ==
    IF Conflicts(m, r) # {}
    THEN CHOOSE n \in Conflicts(m, r) : \A k \in Conflicts(m, r) : n <= k
    ELSE max(max(r.entries.prev_index, m.ps.log.prev_index),
             min(latest_index(m), get_latest_index(r.entries))) + 1

\* Mutant: latest_state is not rewound when entries were replaced.
AppendEntriesNoRewind(m, r) ==
    LET first == first_nonmatching_index(m, r)
        m1 == IF Conflicts(m, r) # {} \/ first > latest_index(m)
              THEN write_log_replace_tail(m, r.entries, first) ELSE m
        m2 == [m1 EXCEPT !.latest_state = apply_log_entries(@, m1.ps.log, latest_index(m1))]
    IN  IF r.leader_commit > commit_index(m2)
        THEN update_commit_index(m2, min(r.leader_commit, get_latest_index(r.entries)))
        ELSE m2

AppendEntries(m, r) ==
    LET conflict == Conflicts(m, r) # {}
        first == first_nonmatching_index(m, r)
        m1 == IF conflict \/ first > latest_index(m)
              THEN write_log_replace_tail(m, r.entries, first) ELSE m
        base == IF conflict THEN m1.committed_state ELSE m1.latest_state
        m2 == [m1 EXCEPT !.latest_state =
                  apply_log_entries(base, m1.ps.log, latest_index(m1))]
    IN  IF r.leader_commit > commit_index(m2)
        THEN update_commit_index(m2, min(r.leader_commit, get_latest_index(r.entries)))
        ELSE m2

on_append_entries_rpc(m, r) ==
    LET m1 == on_rpc_from_leader(m, r.from, r.term)
    IN  IF r.term < current_term(m) \/ Rejects(m1, r) THEN m1 ELSE AppendEntries(m1, r)

AppendSucceeds(m, r) ==
    r.term >= current_term(m) /\ ~Rejects(on_rpc_from_leader(m, r.from, r.term), r)

(* -------------------------------- actions ------------------------------- *)

\* A handler runs to its end, or the process dies after one of its writes.
Completes(i, m) == member' = [member EXCEPT ![i] = [m EXCEPT !.disk = {}]]
Crashes(i, m) == /\ i \in Crashing
                 /\ \E p \in m.disk : member' = [member EXCEPT ![i] = Restarted(p)]
                 /\ UNCHANGED msgs

Does(i, m) == \/ Completes(i, m) /\ UNCHANGED msgs
              \/ Crashes(i, m)

Restart(i) == /\ i \in Crashing
              /\ member' = [member EXCEPT ![i] = Restarted(@.ps)]
              /\ UNCHANGED msgs

\* The watchdog of a follower, or the election timeout of a candidate, fires.
Candidate(i, m) ==
    [update_term(m, current_term(m) + 1, i) EXCEPT !.mode = "candidate", !.votes_for_us = {i}]

StartElection(i) ==
    LET m == Candidate(i, member[i])
        request == [kind |-> "request_vote", term |-> current_term(m), from |-> i,
                    dests |-> get_all_members(m.latest_state.config) \ {i},
                    last_log_index |-> latest_index(m),
                    last_log_term |-> get_entry_term(m.ps.log, latest_index(m))]
    IN  /\ member[i].mode # "leader"
        /\ current_term(m) <= MaxTerm /\ i \in Candidates[current_term(m)]
        /\ \/ Completes(i, m) /\ msgs' = msgs \cup {request}
           \/ Crashes(i, m)

\* What the candidate makes of member i's reply, if it still waits for it.
VoteReply(c, r, i, term, granted) ==
    IF c.mode # "candidate" \/ current_term(c) # r.term THEN c
    ELSE IF term > r.term THEN note_term(c, term)
    ELSE IF granted THEN [c EXCEPT !.votes_for_us = @ \cup {i}]
    ELSE c

Replies(i, m, r, granted) ==
    /\ member' = [member EXCEPT
                    ![i] = [m EXCEPT !.disk = {}],
                    ![r.from] = VoteReply(@, r, i, current_term(m), granted)]
    /\ UNCHANGED msgs

HandleRequestVote(i) ==
    \E r \in msgs :
        LET m == on_request_vote_rpc(member[i], r)
        IN  /\ r.kind = "request_vote" /\ i \in r.dests /\ <<r.from, i>> \in Connected
            /\ \/ /\ member[i].mode = "follower" \/ LeaderDisregards(member[i], r)
                  /\ Replies(i, member[i], r, FALSE)
               \/ /\ ~LeaderDisregards(member[i], r)
                  /\ \/ Replies(i, m, r, GrantsVote(VoteTerm(member[i], r), r))
                     \/ Does(i, m)

\* The rest of candidate_and_leader_coro, up to where it first blocks.
Elected(i, m) ==
    LET m1 == [m EXCEPT !.mode = "leader", !.votes_for_us = {},
                        !.current_term_leader_id = i,
                        !.initial_next_index = latest_index(m) + 1,
                        !.match_indexes = [j \in {i} |-> latest_index(m)]]
    IN  LeaderTurn(i, leader_append_log_entry(i, m1, Entry("noop", current_term(m), Nil, Nil)))

BecomeLeader(i) ==
    /\ member[i].mode = "candidate"
    /\ is_quorum(member[i].latest_state.config, member[i].votes_for_us)
    /\ \/ /\ Completes(i, Elected(i, member[i]))
          /\ msgs' = msgs \cup {[kind |-> "heartbeat", from |-> i,
                                 term |-> current_term(member[i])]}
       \/ Crashes(i, Elected(i, member[i]))

\* Mutant: the loop wakes up only when the log has grown.
LeaderWakesOnAppend(m) == m.latest_state.log_index > m.latest_log_index

\* The leader's loop wakes up when there is a committed joint consensus whose
\* second phase is not in the log, or when the log has grown.
LeaderWakes(m) ==
    \/ is_joint_consensus(m.committed_state.config) /\ is_joint_consensus(m.latest_state.config)
    \/ m.latest_state.log_index > m.latest_log_index

LeaderLoop(i) == /\ member[i].mode = "leader"
                 /\ LeaderWakes(member[i])
                 /\ Does(i, LeaderTurn(i, member[i]))

\* The coroutine candidate_or_leader_note_term has spawned runs.
StepDown(i) == \E term \in member[i].noted :
    /\ term <= MaxTerm
    /\ Does(i, update_term(become_follower(member[i]), term, Nil))

InstallSnapshot(i, j) ==
    LET p == member[i].ps
    IN  [kind |-> "install", term |-> p.current_term, from |-> i, dest |-> j,
         last_included_index |-> p.log.prev_index, last_included_term |-> p.log.prev_term,
         state |-> p.snapshot_state, config |-> p.snapshot_config]

AppendRequest(i, j, next_index) ==
    LET log == member[i].ps.log
    IN  [kind |-> "append", term |-> current_term(member[i]), from |-> i, dest |-> j,
         entries |-> [prev_index |-> next_index - 1,
                      prev_term  |-> get_entry_term(log, next_index - 1),
                      entries    |-> Slice(log, next_index, get_latest_index(log))],
         leader_commit |-> commit_index(member[i])]

\* leader_send_updates for peer j sends it whatever it lacks.  It does so again
\* when the RPC it waits for has failed: the request, or the reply to it, is lost.
SendUpdate(i, j) ==
    LET m == member[i]
        u == m.update[j]
        needs_snapshot == u.next_index <= m.ps.log.prev_index
        request == IF needs_snapshot THEN InstallSnapshot(i, j)
                   ELSE AppendRequest(i, j, u.next_index)
    IN  /\ m.mode = "leader" /\ j \in DOMAIN m.update /\ u.rpc # Stopped
        /\ <<i, j>> \in Connected
        /\ \/ needs_snapshot
           \/ u.next_index <= latest_index(m)
           \/ u.member_commit_index < commit_index(m)
           \/ u.send_even_if_empty
        /\ member' = [member EXCEPT ![i].update[j].rpc = request,
                                    ![i].update[j].reply = NoReply]
        /\ msgs' = msgs \cup {request}

\* A reply reaches the coroutine that waits for it; one that nobody waits for
\* any more is dropped.
Replied(leader, i, r, reply) ==
    IF /\ leader.mode = "leader" /\ i \in DOMAIN leader.update
       /\ leader.update[i].rpc = r
    THEN [leader EXCEPT !.update[i].reply = reply]
    ELSE leader

Answers(i, m, r, success) ==
    /\ member' = [member EXCEPT
                    ![i] = [m EXCEPT !.disk = {}],
                    ![r.from] = Replied(@, i, r, [term |-> current_term(m), success |-> success])]
    /\ UNCHANGED msgs

HandleAppend(i) ==
    \E r \in msgs :
        LET m == on_append_entries_rpc(member[i], r)
        IN  /\ r.kind = "append" /\ r.dest = i
            /\ \/ Answers(i, m, r, AppendSucceeds(member[i], r))
               \/ Crashes(i, m)

HandleInstall(i) ==
    \E r \in msgs :
        LET m == on_install_snapshot_rpc(member[i], r)
        IN  /\ r.kind = "install" /\ r.dest = i
            /\ \/ Answers(i, m, r, TRUE)
               \/ Crashes(i, m)

HandleHeartbeat(i) ==
    \E r \in msgs : /\ i \in Listening
                    /\ r.kind = "heartbeat" /\ r.from # i
                    /\ Does(i, on_rpc_from_leader(member[i], r.from, r.term))

\* The coroutine for peer j goes on with the reply to its request.
AfterReply(i, m, j) ==
    LET u == m.update[j]
        last == IF u.rpc.kind = "install" THEN u.rpc.last_included_index
                ELSE get_latest_index(u.rpc.entries)
        idle == [u EXCEPT !.rpc = NoRpc, !.reply = NoReply, !.send_even_if_empty = FALSE]
        matched(v) == leader_update_match_index(i, [m EXCEPT !.update[j] = v], j, last)
    IN  IF u.reply.term > current_term(m)
        THEN note_term([m EXCEPT !.update[j].rpc = Stopped, !.update[j].reply = NoReply],
                       u.reply.term)
        ELSE IF u.rpc.kind = "install"
        THEN matched([idle EXCEPT !.next_index = last + 1])
        ELSE IF ~u.reply.success
        THEN [m EXCEPT !.update[j] = [idle EXCEPT !.next_index = @ - 1]]
        ELSE LET v == [idle EXCEPT !.next_index = last + 1,
                                   !.member_commit_index = u.rpc.leader_commit]
             IN  IF m.match_indexes[j] < last THEN matched(v)
                 ELSE [m EXCEPT !.update[j] = v]

HandleReply(i, j) ==
    /\ member[i].mode = "leader" /\ j \in DOMAIN member[i].update
    /\ member[i].update[j].reply # NoReply
    /\ Does(i, AfterReply(i, member[i], j))

\* Clients' proposals.  readiness_for_change also asks for a connected quorum,
\* which the leader may or may not have.
MayPropose(i) == member[i].mode = "leader" /\ latest_index(member[i]) < MaxIndex

Propose(i, type, change, config) ==
    Does(i, leader_append_log_entry(i, member[i],
                Entry(type, current_term(member[i]), change, config)))

propose_change(i) == /\ MayPropose(i)
                     /\ \E c \in Proposals \ {Nil} : Propose(i, "regular", c, Nil)

propose_noop(i) == /\ MayPropose(i)
                   /\ Nil \in Proposals
                   /\ Propose(i, "noop", Nil, Nil)

propose_config_change(i) ==
    /\ MayPropose(i)
    /\ ~is_joint_consensus(member[i].committed_state.config)
    /\ ~is_joint_consensus(member[i].latest_state.config)
    /\ \E c \in NewConfigs :
          Propose(i, "config", Nil, Joint(member[i].latest_state.config.config, c))

\* A new member starts from a copy of what an existing one has on disk.
get_state_for_init(p) == [p EXCEPT !.voted_for = Nil]

Join(i, j) ==
    /\ j \in Joining /\ member[j] = NotStarted
    /\ member' = [member EXCEPT ![j] = Restarted(get_state_for_init(member[i].ps))]
    /\ UNCHANGED msgs

Next == \E i \in Started :
            \/ Restart(i) \/ StartElection(i) \/ HandleRequestVote(i) \/ BecomeLeader(i)
            \/ LeaderLoop(i) \/ StepDown(i)
            \/ HandleAppend(i) \/ HandleInstall(i) \/ HandleHeartbeat(i)
            \/ propose_change(i) \/ propose_noop(i) \/ propose_config_change(i)
            \/ \E j \in Members : SendUpdate(i, j) \/ HandleReply(i, j)
                                    \/ Join(i, j)

Spec == Init /\ [][Next]_vars

(* ------------------------------ properties ------------------------------ *)

Entries == [type : {"regular", "config", "noop"}, term : 1 .. MaxTerm,
            change : Proposals \cup {Nil}]
Modes == {"follower", "candidate", "leader"}

\* Type correctness: what a member has on disk and in memory has the shape the
\* structures of raft_core.hpp give it, and only a leader has update coroutines.
TypeOK ==
    \A i \in Started :
        LET m == member[i]
        IN  /\ m.ps.current_term \in 0 .. MaxTerm
            /\ m.ps.voted_for \in Members \cup {Nil}
            /\ m.ps.commit_index \in m.ps.log.prev_index .. latest_index(m)
            /\ \A k \in DOMAIN m.ps.log.entries :
                  LET e == m.ps.log.entries[k]
                  IN  [type |-> e.type, term |-> e.term, change |-> e.change] \in Entries
            /\ m.mode \in Modes
            /\ (m.mode = "leader") = (i \in DOMAIN m.match_indexes)
            /\ m.mode = "leader" => DOMAIN m.match_indexes = DOMAIN m.update \cup {i}
            /\ m.mode # "leader" => m.update = <<>>
            /\ m.disk = {}

\* Election safety (check_invariants: "at most one leader can be elected in a
\* given term"): of all the elections ever won, no two were in the same term,
\* whatever was lost, repeated or forgotten in a crash in between.
ElectionSafety ==
    \A r, s \in {r \in msgs : r.kind = "heartbeat"} : r.term = s.term => r.from = s.from

\* Log matching (check_invariants): if two logs have an entry with the same
\* index and term, they agree on every entry both still have up to there.
LogMatching ==
    \A a \in Started : \A b \in Started \ {a} :
        LET p == member[a].ps.log
            q == member[b].ps.log
            common == {n \in 1 .. get_latest_index(p) : Covers(p, n) /\ Covers(q, n)}
        IN  \A n \in common : get_entry_term(p, n) = get_entry_term(q, n)
                => \A k \in common : k <= n => get_entry(p, k) = get_entry(q, k)

\* State machine safety: the states two members have committed are the same
\* one at the same index, and otherwise one extends the other.
StateMachineSafety ==
    \A a \in Started : \A b \in Started \ {a} :
        LET s == member[a].committed_state
            u == member[b].committed_state
        IN  s.log_index <= u.log_index
                => IsPrefix(s.state, u.state) /\ (s.log_index = u.log_index => s = u)

\* Leader completeness: the log of a leader reaches as far as what any member
\* of its term or an earlier one has committed, and says the same up to there.
LeaderCompleteness ==
    \A l \in {l \in Started : member[l].mode = "leader"}, a \in Started :
        LET p == member[l].ps
            s == member[a].committed_state
        IN  current_term(member[a]) <= current_term(member[l])
            => /\ s.log_index <= latest_index(member[l])
               /\ s.log_index >= p.log.prev_index =>
                     /\ get_entry_term(p.log, s.log_index)
                            = get_entry_term(member[a].ps.log, s.log_index)
                     /\ s = Replay(p, s.log_index)

\* check_invariants: what a member keeps in memory is what its log on disk
\* replays to, so that a restart at any moment changes neither state.
StatesInSync ==
    \A i \in Started :
        LET m == member[i]
        IN  /\ m.committed_state = Replay(m.ps, m.ps.commit_index)
            /\ m.latest_state = Replay(m.ps, latest_index(m))

(* The guarantee()s of the handlers, for every message that may arrive. *)
VoteGuarantee(i, m, r) ==
    ~LeaderDisregards(m, r) =>
        LET m1 == VoteTerm(m, r)
        IN  /\ r.term = current_term(m1) =>
                  r.from # i /\ (m1.mode # "follower" => m1.ps.voted_for = i)
            /\ GrantsVote(m1, r) => r.last_log_index >= m1.ps.commit_index

LeaderGuarantee(m, r) ==
    r.term = current_term(m) =>
        m.mode # "leader" /\ m.current_term_leader_id \in {Nil, r.from}

AppendGuarantee(m, r) ==
    AppendSucceeds(m, r) =>
        LET first == first_nonmatching_index(m, r)
        IN  /\ Conflicts(m, r) # {} \/ first > latest_index(m)
                => first > m.ps.commit_index /\ first <= latest_index(m) + 1
            /\ r.leader_commit > commit_index(m)
                => min(r.leader_commit, get_latest_index(r.entries)) > commit_index(m)

InstallGuarantee(m, r) ==
    r.term >= current_term(m) /\ r.last_included_index = m.ps.log.prev_index
        => r.last_included_term = m.ps.log.prev_term

\* leader_update_match_index: a peer's match index never falls.
ReplyGuarantee(m, u, j) ==
    u.reply # NoReply /\ u.rpc.kind = "install" /\ u.reply.term = current_term(m)
        => m.match_indexes[j] <= u.rpc.last_included_index

Receivers(r) == CASE r.kind = "request_vote" -> r.dests
                  [] r.kind = "heartbeat"    -> Members \ {r.from}
                  [] OTHER                   -> {r.dest}

\* No guarantee() of the RPC handlers can fail, whichever request arrives
\* when: a leader never hears from another leader of its term, a follower from
\* two; no vote goes to a candidate that lacks what the voter has committed, no
\* append cuts off committed entries, no snapshot contradicts another, and no
\* late reply acknowledges less than the leader knew already.
GuaranteesHold ==
    /\ \A i \in Started : \A j \in DOMAIN member[i].update :
          ReplyGuarantee(member[i], member[i].update[j], j)
    /\ \A r \in msgs : \A i \in Started \cap Receivers(r) :
        LET m == member[i]
        IN  /\ r.kind = "request_vote" => VoteGuarantee(i, m, r)
            /\ r.kind # "request_vote" => LeaderGuarantee(m, r)
            /\ r.kind = "append" => AppendGuarantee(m, r)
            /\ r.kind = "install" => InstallGuarantee(m, r)

\* The comment in update_commit_index: the commit index is persisted, "so the
\* state machine never appears to go backwards".  Through handlers, crashes in
\* the middle of them and restarts, a member's committed state only ever grows.
NeverGoesBackwards ==
    [][\A i \in Started :
          /\ member'[i].committed_state.log_index >= member[i].committed_state.log_index
          /\ IsPrefix(member[i].committed_state.state, member'[i].committed_state.state)]_vars

(* ------------------------------- liveness ------------------------------- *)

\* Coroutines and handlers that can run do, an RPC is answered or fails, and one
\* that is repeated for ever is answered at some point.  Nothing is assumed of
\* crashes, elections or clients.  The first two conditions are WF of LeaderLoop
\* and of the RPC handlers, whose steps end what they wait for; the last is SF
\* of HandleReply, which is enabled whenever there is a reply.  A server that is
\* to join does so: do_sync runs whenever the table's member_ids change, and
\* again whenever the server connects.
LeaderWaits(i) == i \in Started /\ member[i].mode = "leader" /\ LeaderWakes(member[i])

AwaitsReply(i, j) ==
    /\ i \in Started /\ j \in Started /\ j \in DOMAIN member[i].update
    /\ member[i].update[j].rpc \notin {NoRpc, Stopped}
    /\ member[i].update[j].reply = NoReply

HasReply(i, j) == /\ i \in Started /\ j \in DOMAIN member[i].update
                  /\ member[i].update[j].reply # NoReply

Fairness ==
    \A i \in Members :
        /\ i \in Joining => WF_vars(\E j \in Started : Join(j, i))
        /\ []<>~LeaderWaits(i)
        /\ WF_vars(i \in Started /\ StepDown(i))
        /\ \A j \in Members :
              /\ []<>~AwaitsReply(i, j)
              /\ WF_vars(i \in Started /\ SendUpdate(i, j))
              /\ []<>HasReply(i, j) => []<><<i \in Started /\ HandleReply(i, j)>>_vars

LiveSpec == Spec /\ Fairness

IsLeader(i) == i \in Started /\ member[i].mode = "leader"

\* A configuration change finishes: a leader whose latest configuration is a
\* joint consensus (propose_config_change) comes to commit one that is not,
\* unless it stops being the leader.
ReconfigurationFinishes ==
    \A i \in Members :
        (IsLeader(i) /\ is_joint_consensus(member[i].latest_state.config))
            ~> (IsLeader(i) => /\ ~is_joint_consensus(member[i].latest_state.config)
                               /\ ~is_joint_consensus(member[i].committed_state.config))

\* The comment in candidate_and_leader_coro: "check if we have just committed a
\* config in which we are no longer leader, in which case we need to step
\* down".  A leader that has committed its own removal stops being the leader.
RemovedLeaderStepsDown ==
    \A i \in Members :
        (/\ IsLeader(i)
         /\ ~is_valid_leader(member[i].committed_state.config, i)
         /\ ~is_valid_leader(member[i].latest_state.config, i)) ~> ~IsLeader(i)
==============================================================================
