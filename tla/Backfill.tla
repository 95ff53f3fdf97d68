------------------------------- MODULE Backfill ------------------------------
(***************************************************************************)
(* How a secondary gets what is older than its subscription: the            *)
(* constructor of remote_replicator_client_t, backfillee_t and its sessions *)
(* on the secondary, backfiller_t on the primary.  See Replication.         *)
(***************************************************************************)
EXTENDS ReplicationState

------------------------------------------------------------------------------
(* The constructor of remote_replicator_client_t.                             *)

(* It subscribes to the writes that are timestamped from now on. *)
Subscribe ==
    /\ client.phase = "starting"
    /\ remote' = [state |-> "async", started |-> Len(log), acked |-> 0]
    /\ client' = [client EXCEPT !.phase = "registered", !.completed = Len(log),
                                !.subscribed = Len(log), !.tracker = Tracker(Len(log))]
    /\ UNCHANGED <<primary_vars, writes, reads, backfill_vars, store_vars, budget>>

(* The common ancestor of the secondary's version of a key and the primary's. *)
CommonVersion(key) ==
    IF meta[key] = Old THEN 0 ELSE IF meta[key] < pstore THEN meta[key] ELSE pstore

(* backfillee_t() and backfiller_t::client_t() exchange their intros. *)
CreateBackfillee ==
    /\ client.phase = "registered"
    /\ client' = [client EXCEPT !.phase = "paused"]
    /\ backfiller' = [NoBackfiller EXCEPT !.common = [k \in Keys |-> CommonVersion(k)]]
    /\ pre' = [NoPre EXCEPT !.common = [k \in Keys |-> CommonVersion(k)]]
    /\ UNCHANGED <<primary_vars, dispatch_vars, session, to_backfiller, to_backfillee,
                   store_vars, budget>>

(* The throttler lock is acquired, and the mode becomes BACKFILLING. *)
StartBackfill ==
    /\ client.phase = "paused"
    /\ client' = [client EXCEPT !.phase = "synchronizing", !.start = client.completed]
    /\ UNCHANGED <<primary_vars, dispatch_vars, backfill_vars, store_vars, budget>>

(* A mutant: the backfill does not wait for the primary's store. *)
Unsynchronized == TRUE

(* on_synchronize() *)
Synchronized == pstore >= client.start

(* The primary's store has reached the start timestamp, and go() begins a    *)
(* session where the tracker says.                                           *)
Go ==
    /\ client.phase = "synchronizing"
    /\ Synchronized
    /\ client' = [client EXCEPT !.phase = "session"]
    /\ session' = [NoSession EXCEPT !.threshold = get_backfill_threshold(client.tracker)]
    /\ to_backfiller' = Append(to_backfiller, [type |-> "begin_session",
                                   threshold |-> get_backfill_threshold(client.tracker)])
    /\ UNCHANGED <<primary_vars, dispatch_vars, pre, backfiller, to_backfillee,
                   store_vars, budget>>

(* wait_all_before(get_max_timestamp()) *)
WritesCaughtUp == client.completed >= get_max_timestamp(client.tracker)

(* The replica_t takes over. *)
BecomeStreaming ==
    /\ client.phase = "finishing"
    /\ WritesCaughtUp
    /\ client' = [client EXCEPT !.phase = "streaming", !.end = client.completed]
    /\ UNCHANGED <<primary_vars, dispatch_vars, backfill_vars, store_vars, budget>>

------------------------------------------------------------------------------
(* The session, on the backfillee's side.                                     *)

(* A mutant: chunks are not acknowledged. *)
NoAckMessages(s) == <<>>

(* send_ack_items(): the size of what has been consumed since the last ack. *)
AckMessages(s) ==
    IF s.unacked = s.mem_size THEN <<>>
    ELSE <<[type |-> "ack_items", size |-> s.unacked - s.mem_size]>>

(* receive_backfill() applies a chunk to the store, and on_commit() reports  *)
(* it to on_progress(), which asks for more or not.  Chunks that come after  *)
(* it has refused are applied, but it does not hear of them.                 *)
Commit(more) ==
    LET i == Head(session.items)
        heard == ~ session.refused
        ends == heard /\ ~ more
    IN  /\ client.phase = "session" /\ session.items # <<>>
        /\ ~ more => heard /\ budget.preempts > 0
        /\ budget' = IF more THEN budget ELSE [budget EXCEPT !.preempts = @ - 1]
        /\ store' = IF i.has THEN [store EXCEPT ![i.key] = Content(i.key, i.version)]
                    ELSE store
        /\ meta' = [meta EXCEPT ![i.key] = i.version]
        /\ client' = IF heard
                     THEN [client EXCEPT !.tracker = record_backfill(@, i.key, i.version)]
                     ELSE client
        /\ session' = [session EXCEPT !.items = Tail(@), !.mem_size = @ - Size(i.has),
                                      !.threshold = i.key, !.refused = @ \/ ~ more,
                                      !.sent_end = @ \/ ends]
        /\ to_backfiller' = to_backfiller \o IF ends THEN EndMessages ELSE <<>>
        /\ UNCHANGED <<primary_vars, dispatch_vars, pre, backfiller, to_backfillee, tokens>>

(* ack_periodically(), and run() before it waits for items. *)
SendAckItems ==
    /\ client.phase = "session"
    /\ AckMessages(session) # <<>>
    /\ to_backfiller' = to_backfiller \o AckMessages(session)
    /\ session' = [session EXCEPT !.unacked = session.mem_size]
    /\ UNCHANGED <<primary_vars, dispatch_vars, client, pre, backfiller, to_backfillee,
                   store_vars, budget>>

(* run() has reached the end of the range. *)
ReachEnd ==
    /\ client.phase = "session" /\ session.threshold = NumKeys /\ ~ session.sent_end
    /\ to_backfiller' = to_backfiller \o AckMessages(session) \o EndMessages
    /\ session' = [session EXCEPT !.unacked = session.mem_size, !.sent_end = TRUE]
    /\ UNCHANGED <<primary_vars, dispatch_vars, client, pre, backfiller, to_backfillee,
                   store_vars, budget>>

(* run() ends and go() returns; the loop goes on in PAUSED mode, or ends. *)
SessionDone ==
    /\ client.phase = "session" /\ session.got_ack /\ session.items = <<>>
    /\ to_backfiller' = to_backfiller \o AckMessages(session)
    /\ session' = NoSession
    /\ client' = [client EXCEPT !.phase =
           IF get_backfill_threshold(client.tracker) = NumKeys THEN "finishing" ELSE "paused"]
    /\ UNCHANGED <<primary_vars, dispatch_vars, pre, backfiller, to_backfillee,
                   store_vars, budget>>

(* send_backfill_pre(): whether a key has changed since the common version. *)
Diverges(key) ==
    \E t \in store[key] : t = Old \/ t > pre.common[key]

(* send_pre_items(): the next part of the range, if the throttle lets it. *)
SendPreItems ==
    LET k == pre.sent + 1
        has == Diverges(k)
    IN  /\ Backfilling /\ pre.sent < NumKeys /\ pre.unacked < PreItemQueue
        /\ pre' = [pre EXCEPT !.sent = k, !.unacked = @ + Size(has)]
        /\ to_backfiller' = Append(to_backfiller, [type |-> "pre_items", key |-> k, has |-> has])
        /\ UNCHANGED <<primary_vars, dispatch_vars, client, session, backfiller,
                       to_backfillee, store_vars, budget>>

(* on_items(), on_ack_end_session(), on_ack_pre_items() *)
OnBackfillerMessage ==
    LET m == Head(to_backfillee)
    IN  /\ to_backfillee # <<>>
        /\ to_backfillee' = Tail(to_backfillee)
        /\ session' = CASE m.type = "items" ->
                             [session EXCEPT !.items = Append(@, m.item),
                                             !.mem_size = @ + Size(m.item.has),
                                             !.unacked = @ + Size(m.item.has)]
                        [] m.type = "ack_end_session" -> [session EXCEPT !.got_ack = TRUE]
                        [] OTHER -> session
        /\ pre' = IF m.type = "ack_pre_items" THEN [pre EXCEPT !.unacked = @ - m.size] ELSE pre
        /\ UNCHANGED <<primary_vars, dispatch_vars, client, backfiller, to_backfiller,
                       store_vars, budget>>

------------------------------------------------------------------------------
(* The backfiller, on the primary.                                            *)

(* on_pre_items(), on_begin_session(), on_end_session(), on_ack_items() *)
OnBackfilleeMessage ==
    LET m == Head(to_backfiller)
    IN  /\ to_backfiller # <<>>
        /\ to_backfiller' = Tail(to_backfiller)
        /\ backfiller' = CASE m.type = "pre_items" ->
                                [backfiller EXCEPT !.pre_right = m.key,
                                     !.pre_items = @ \cup IF m.has THEN {m.key} ELSE {}]
                           [] m.type = "begin_session" ->
                                [backfiller EXCEPT !.session = m.threshold]
                           [] m.type = "end_session" -> [backfiller EXCEPT !.session = None]
                           [] OTHER -> [backfiller EXCEPT !.unacked = @ - m.size]
        /\ to_backfillee' = to_backfillee \o IF m.type = "end_session"
                                             THEN <<[type |-> "ack_end_session"]>> ELSE <<>>
        /\ UNCHANGED <<primary_vars, dispatch_vars, client, session, pre, store_vars, budget>>

(* Whether the secondary has to be sent a key: it changed there, or here. *)
NeedsItem(key) ==
    \/ key \in backfiller.pre_items
    \/ \E t \in backfiller.common[key] + 1 .. pstore : key \in log[t]

(* A mutant: the throttle is not asked. *)
Unthrottled == TRUE

(* The throttle has room for a chunk, and the pre-items of it have come. *)
MaySend ==
    backfiller.unacked < ItemQueue /\ backfiller.pre_right > backfiller.session

(* session_t::run(): send_backfill() reads the next part of the primary's    *)
(* store, and it is sent; common_version and pre_items now say what the      *)
(* secondary will have.                                                      *)
SendItems ==
    LET k == backfiller.session + 1
        has == NeedsItem(k)
        known == k \in backfiller.pre_items
    IN  /\ backfiller.session \in 0 .. NumKeys - 1
        /\ MaySend
        /\ backfiller' = [backfiller EXCEPT !.session = k, !.unacked = @ + Size(has),
                              !.common[k] = pstore, !.pre_items = @ \ {k}]
        /\ to_backfillee' = to_backfillee
               \o <<[type |-> "items", item |-> [key |-> k, version |-> pstore, has |-> has]]>>
               \o IF known THEN <<[type |-> "ack_pre_items", size |-> 1]>> ELSE <<>>
        /\ UNCHANGED <<primary_vars, dispatch_vars, client, session, pre, to_backfiller,
                       store_vars, budget>>
==============================================================================
