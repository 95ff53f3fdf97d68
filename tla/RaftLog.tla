------------------------------- MODULE RaftLog -------------------------------
(***************************************************************************)
(* The data of RethinkDB's Raft (clustering/generic/raft_core.hpp): member  *)
(* configurations, the log slice that follows a snapshot, and the state     *)
(* machine, whose state is the sequence of changes applied to it.           *)
(***************************************************************************)
EXTENDS Integers, Sequences, FiniteSets

CONSTANT NoConfig   \* the empty `new_config` of a configuration

max(a, b) == IF a >= b THEN a ELSE b
min(a, b) == IF a <= b THEN a ELSE b

(* raft_config_t: voting and non-voting members *)
Config(voting, non_voting) ==
    [voting_members |-> voting, non_voting_members |-> non_voting]

ConfigMembers(c) == c.voting_members \cup c.non_voting_members

ConfigQuorum(c, S) ==
    2 * Cardinality(c.voting_members \cap S) > Cardinality(c.voting_members)

(* raft_complex_config_t: one configuration, or the joint consensus of two *)
Simple(c) == [config |-> c, new_config |-> NoConfig]
Joint(c, d) == [config |-> c, new_config |-> d]

is_joint_consensus(cc) == cc.new_config # NoConfig

Parts(cc) == {cc.config} \cup ({cc.new_config} \ {NoConfig})

get_all_members(cc) == UNION {ConfigMembers(c) : c \in Parts(cc)}

\* Mutant: a joint consensus needs the old configuration's majority only.
is_quorum_old_only(cc, S) == ConfigQuorum(cc.config, S)

is_quorum(cc, S) == \A c \in Parts(cc) : ConfigQuorum(c, S)

is_valid_leader(cc, i) == \E c \in Parts(cc) : i \in c.voting_members

(* raft_log_t: the entries after prev_index *)
get_latest_index(log) == log.prev_index + Len(log.entries)

get_entry(log, n) == log.entries[n - log.prev_index]

get_entry_term(log, n) ==
    IF n = log.prev_index THEN log.prev_term ELSE get_entry(log, n).term

Covers(log, n) == n \in (log.prev_index + 1) .. get_latest_index(log)

\* The entries with indexes first..last.
Slice(log, first, last) ==
    SubSeq(log.entries, first - log.prev_index, last - log.prev_index)

\* Mutant: the entry the snapshot ends with stays in the log.
delete_entries_before(log, n, term) ==
    [prev_index |-> n, prev_term |-> term,
     entries |-> Slice(log, n, get_latest_index(log))]

delete_entries_to(log, n, term) ==
    [prev_index |-> n, prev_term |-> term,
     entries |-> Slice(log, n + 1, get_latest_index(log))]

(* apply_log_entries: regular entries change the state, config entries the
   configuration, no-ops only the index *)
Changes(entries) ==
    LET regular == SelectSeq(entries, LAMBDA e : e.type = "regular")
    IN  [k \in DOMAIN regular |-> regular[k].change]

LastConfig(entries, otherwise) ==
    LET configs == SelectSeq(entries, LAMBDA e : e.type = "config")
    IN  IF configs = <<>> THEN otherwise ELSE configs[Len(configs)].config

apply_log_entries(sc, log, last) ==
    LET entries == Slice(log, sc.log_index + 1, last)
    IN  [log_index |-> last,
         state     |-> sc.state \o Changes(entries),
         config    |-> LastConfig(entries, sc.config)]
==============================================================================
