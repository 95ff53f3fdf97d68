----------------------------- MODULE Replication -----------------------------
(***************************************************************************)
(* How a secondary joins a branch: immediate_consistency/.  The primary's   *)
(* dispatcher sends it every write from the moment it subscribes, while a   *)
(* backfillee on the secondary and a backfiller on the primary copy what is *)
(* older, from left to right, in sessions that may be cut short.            *)
(*                                                                          *)
(* A key's data is the set of the changes made to it.  Write t of the       *)
(* branch changes the keys log[t].  A version is a timestamp on the branch, *)
(* or Old: a version of an earlier branch, which has left the primary's     *)
(* line at timestamp 0.  A chunk of items covers one key, the smallest part *)
(* that a session can be cut into.  Handlers that wait are actions guarded  *)
(* by what they wait for, and the messages that only carry on one           *)
(* coroutine (intros, ready, synchronize, acks of writes) are not delayed.  *)
(***************************************************************************)
EXTENDS WriteDispatch, Backfill

Init ==
    \E sc \in Scenarios :
        /\ log = sc.log /\ pstore = Len(sc.log)
        /\ most_recent_acked_write_timestamp = Len(sc.log)
        /\ store = [k \in Keys |-> IF k \in sc.diverged THEN {Old} ELSE {}]
        /\ meta = [k \in Keys |-> Old]
        /\ budget = sc.budget
        /\ remote = NoRemote /\ writes = {} /\ reads = {}
        /\ client = NoClient /\ session = NoSession /\ pre = NoPre
        /\ backfiller = NoBackfiller
        /\ to_backfiller = <<>> /\ to_backfillee = <<>> /\ tokens = <<>>

(* The client is destroyed: the contact was lost, or the server restarts.    *)
(* What has not reached the store is gone, and another client starts.        *)
Restart ==
    /\ budget.restarts > 0 /\ client.phase # "starting"
    /\ budget' = [budget EXCEPT !.restarts = @ - 1]
    /\ client' = NoClient /\ session' = NoSession /\ pre' = NoPre
    /\ backfiller' = NoBackfiller /\ remote' = NoRemote
    /\ writes' = {} /\ reads' = {} /\ tokens' = <<>>
    /\ to_backfiller' = <<>> /\ to_backfillee' = <<>>
    /\ UNCHANGED <<primary_vars, store, meta>>

------------------------------------------------------------------------------
Progress ==
    \/ LocalWrite \/ BackgroundWrite \/ OnReady
    \/ Subscribe \/ CreateBackfillee \/ StartBackfill \/ Go \/ BecomeStreaming
    \/ Commit(TRUE) \/ SendAckItems \/ ReachEnd \/ SessionDone \/ SendPreItems
    \/ OnBackfillerMessage \/ OnBackfilleeMessage \/ SendItems
    \/ StoreWrite
    \/ \E w \in writes : OnWriteAsync(w) \/ OnWriteSync(w)
    \/ \E r \in reads : ServeRead(r)

Next ==
    \/ \E keys \in Changes : SpawnWrite(keys)
    \/ Read \/ Commit(FALSE) \/ Restart
    \/ Progress

Spec == Init /\ [][Next]_vars

------------------------------------------------------------------------------
(* Properties.                                                                *)

(* The throttles hold, and what is on its way belongs to a write that exists. *)
TypeOK ==
    /\ pstore \in 0 .. Len(log) /\ remote.started \in 0 .. Len(log)
    /\ client.completed \in 0 .. remote.started /\ remote.acked <= client.end
    /\ \A k \in Keys : meta[k] \in {Old} \cup 0 .. Len(log)
    /\ backfiller.unacked \in 0 .. ItemQueue /\ pre.unacked \in 0 .. PreItemQueue
    /\ backfiller.pre_right <= pre.sent /\ backfiller.session \in {None} \cup 0 .. NumKeys

(* The metainfo of every key says a version, and the data is that version's:  *)
(* streamed writes and backfill together neither skip nor duplicate a change  *)
(* (remote_replicator_client.cc, 86), whatever is interrupted.  A store write *)
(* finds its keys at the version before it, as its metainfo_checker asserts.  *)
MetainfoIsTrue ==
    /\ \A k \in Keys : meta[k] # Old => store[k] = Content(k, meta[k])
    /\ tokens # <<>> =>
           \A k \in 1 .. Head(tokens).right : meta[k] = Head(tokens).ts - 1

(* The version that a key will have once the store writes are done. *)
FinalVersion(key) ==
    LET later == {i \in DOMAIN tokens : key <= tokens[i].right}
    IN  IF later = {} THEN meta[key] ELSE tokens[CHOOSE i \in later : \A j \in later : j <= i].ts

(* The tracker, by which writes are clipped, is right about every key that it *)
(* covers, and in order; once it is gone all keys are at the last write, as   *)
(* the sanity check before the replica_t is made says.                        *)
TrackerIsTrue ==
    IF Mode = "STREAMING"
    THEN \A k \in Keys : FinalVersion(k) = client.completed
    ELSE /\ Ordered(client.tracker, NumKeys)
         /\ \A k \in 1 .. get_backfill_threshold(client.tracker) :
                FinalVersion(k) = TimestampOf(client.tracker, k)

First(queue, type) == queue # <<>> /\ Head(queue).type = type

(* The guarantees of the client, the backfillee and the backfiller: sessions  *)
(* do not overlap in time, start no further right than the furthest point     *)
(* reached, and report the key space without a gap; the tracker is            *)
(* homogeneous when the replica_t takes over; synchronous writes find one.    *)
GuaranteesHold ==
    /\ client.tracker.prev = client.completed \/ Mode = "STREAMING"
    /\ client.phase = "finishing" /\ WritesCaughtUp => is_homogeneous(client.tracker, NumKeys)
    /\ First(to_backfiller, "begin_session") =>
           /\ backfiller.session = None
           /\ \A k \in backfiller.pre_items : k > Head(to_backfiller).threshold
    /\ First(to_backfiller, "end_session") => backfiller.session # None
    /\ First(to_backfillee, "items") => client.phase = "session"
    /\ First(to_backfillee, "ack_end_session") => session.sent_end
    /\ session.items # <<>> =>
           /\ Head(session.items).key = session.threshold + 1
           /\ session.refused \/ session.threshold = get_backfill_threshold(client.tracker)
    /\ session.got_ack /\ session.items = <<>> =>
           session.threshold = NumKeys \/ session.refused
    /\ \A w \in writes : w.sync => Mode = "STREAMING"

(* primary_dispatcher.cc, 245-249: a read sees every write acked before it, also  *)
(* on a secondary whose replica_t started while its store lagged behind.      *)
ReadsSeeAckedWrites ==
    \A r \in reads : client.end >= r => \A k \in Keys : meta[k] >= r

(* A key on the branch never goes back to an older version of it, even when a *)
(* secondary that was ahead of the primary's own store starts over.           *)
NeverRewinds == [][\A k \in Keys : meta'[k] >= meta[k]]_vars

(* The version that every key has, at least. *)
OldestVersion == CHOOSE v \in {meta[k] : k \in Keys} : \A k \in Keys : v <= meta[k]

(* What contracts rely on, see ReplicaStream. *)
Stream == INSTANCE ReplicaStream WITH
    tip <- Len(log),
    phase <- IF client.phase \in {"starting", "streaming"} THEN client.phase ELSE "backfilling",
    start <- IF client.phase \in {"starting", "streaming"} THEN 0 ELSE client.subscribed,
    version <- IF client.phase = "streaming" THEN OldestVersion ELSE 0,
    acked <- remote.acked

(* The secondary behaves as the contracts assume: it starts streaming no      *)
(* older than its subscription, takes every later write in order, and acks    *)
(* only what it has with everything before it.                                *)
ImplementsStream == Stream!Spec

(* Everything but queries, preemptions and restarts goes on by itself. *)
LiveSpec == Spec /\ WF_vars(Progress)

(* The secondary gets ready and has every write in the end: no throttle, lock *)
(* or wait for a write holds it up for good.                                  *)
CatchesUp == <>[](remote.state = "ready" /\ \A k \in Keys : meta[k] = Len(log))
==============================================================================
