--------------------------- MODULE ReplicationState --------------------------
(***************************************************************************)
(* The state of a secondary that joins a branch, see Replication.           *)
(***************************************************************************)
EXTENDS Integers, Sequences, TimestampRangeTracker

CONSTANTS
    NumKeys,        \* the region has the keys 1 .. NumKeys
    ItemQueue,      \* item_queue_mem_size, in chunks that have an item
    PreItemQueue,   \* pre_item_queue_mem_size, in pre-items
    Changes,        \* the sets of keys that a write may change
    Scenarios       \* [log, diverged, budget]

Keys == 1 .. NumKeys

Old == 0 - 1

None == 0 - 1

ASSUME BoundsAssumption ==
    NumKeys \in Nat \ {0} /\ ItemQueue \in Nat \ {0} /\ PreItemQueue \in Nat \ {0}

ASSUME ChangesAssumption ==
    /\ Changes \subseteq SUBSET Keys
    /\ \A sc \in Scenarios : sc.log \in Seq(SUBSET Keys)

VARIABLES
    log,            \* the keys changed by each write the dispatcher has timestamped
    pstore,         \* the timestamp of the primary's own store
    most_recent_acked_write_timestamp,
    remote,         \* the secondary's dispatchee_registration_t
    writes,         \* the writes on their way to the secondary
    reads,          \* the min_timestamps of the reads sent to the secondary
    client,         \* remote_replicator_client_t
    session,        \* backfillee_t::session_t
    pre,            \* the pre-item part of backfillee_t
    backfiller,     \* backfiller_t::client_t and its session_t
    to_backfiller, to_backfillee,   \* messages, which fifo tokens keep in order
    tokens,         \* store writes that have a write token, in that order
    store, meta,    \* the secondary's data and metainfo
    budget          \* how many writes, preemptions and restarts may still happen

primary_vars == <<log, pstore, most_recent_acked_write_timestamp>>
dispatch_vars == <<remote, writes, reads>>
backfill_vars == <<session, pre, backfiller, to_backfiller, to_backfillee>>
store_vars == <<tokens, store, meta>>
vars == <<primary_vars, dispatch_vars, client, backfill_vars, store_vars, budget>>

(* The changes made to a key up to a version of the branch. *)
Content(key, version) == {t \in 1 .. version : key \in log[t]}

NoSession == [threshold |-> 0, items |-> <<>>, mem_size |-> 0, unacked |-> 0,
              sent_end |-> FALSE, got_ack |-> FALSE, refused |-> FALSE]

NoPre == [sent |-> 0, unacked |-> 0, common |-> [k \in Keys |-> 0]]

NoBackfiller == [common |-> [k \in Keys |-> 0], pre_items |-> {}, pre_right |-> 0,
                 session |-> None, unacked |-> 0]

NoClient == [phase |-> "starting", tracker |-> Tracker(0), completed |-> 0,
             subscribed |-> 0, start |-> 0, end |-> 0]

NoRemote == [state |-> "none", started |-> 0, acked |-> 0]

(* What ends a session. *)
EndMessages == <<[type |-> "end_session"]>>

(* The size of a chunk, which the two throttles count. *)
Size(has) == IF has THEN 1 ELSE 0

(* backfill_mode_t, which changes only where the constructor gets to. *)
Mode ==
    CASE client.phase \in {"synchronizing", "session", "finishing"} -> "BACKFILLING"
      [] client.phase = "streaming" -> "STREAMING"
      [] OTHER -> "PAUSED"

Backfilling == client.phase \in {"paused", "synchronizing", "session", "finishing"}
==============================================================================
