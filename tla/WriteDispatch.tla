---------------------------- MODULE WriteDispatch ----------------------------
(***************************************************************************)
(* The writes and reads of a branch: primary_dispatcher_t, the replica on   *)
(* the primary itself, and the writes at the secondary, which it takes from *)
(* remote_replicator_client_t while that backfills and from replica_t       *)
(* afterwards.  See Replication.                                            *)
(***************************************************************************)
EXTENDS ReplicationState

------------------------------------------------------------------------------
(* The primary: primary_dispatcher_t, local_replicator_t, proxy_replica_t.    *)

(* spawn_write() *)
SpawnWrite(keys) ==
    /\ budget.writes > 0
    /\ budget' = [budget EXCEPT !.writes = @ - 1]
    /\ log' = Append(log, keys)
    /\ UNCHANGED <<pstore, most_recent_acked_write_timestamp, dispatch_vars, client,
                   backfill_vars, store_vars>>

Latest(timestamp) ==
    IF timestamp > most_recent_acked_write_timestamp THEN timestamp
    ELSE most_recent_acked_write_timestamp

(* background_write() on the primary's own replica, up to its ack. *)
LocalWrite ==
    /\ pstore < Len(log)
    /\ pstore' = pstore + 1
    /\ most_recent_acked_write_timestamp' = Latest(pstore + 1)
    /\ UNCHANGED <<log, dispatch_vars, client, backfill_vars, store_vars, budget>>

(* background_write() for the secondary takes the next write of its queue. *)
BackgroundWrite ==
    /\ remote.state # "none" /\ remote.started < Len(log)
    /\ remote' = [remote EXCEPT !.started = @ + 1]
    /\ writes' = writes \cup
           {[ts |-> remote.started + 1, sync |-> remote.state = "ready"]}
    /\ UNCHANGED <<primary_vars, reads, client, backfill_vars, store_vars, budget>>

(* on_ready(): from now on the secondary gets reads and synchronous writes. *)
OnReady ==
    /\ client.phase = "streaming" /\ remote.state = "async"
    /\ remote' = [remote EXCEPT !.state = "ready"]
    /\ UNCHANGED <<primary_vars, writes, reads, client, backfill_vars, store_vars, budget>>

(* A mutant: any ready replica will do. *)
AnyReady == remote.state = "ready"

(* read() prefers the replica that has acked the latest write, and among     *)
(* those the primary.                                                        *)
PrefersRemote == remote.state = "ready" /\ remote.acked > pstore

(* read() *)
Read ==
    /\ budget.reads > 0
    /\ PrefersRemote
    /\ budget' = [budget EXCEPT !.reads = @ - 1]
    /\ reads' = reads \cup {most_recent_acked_write_timestamp}
    /\ UNCHANGED <<primary_vars, remote, writes, client, backfill_vars, store_vars>>

------------------------------------------------------------------------------
(* The writes at the secondary.                                               *)

(* on_write_async(): the next write in order, unless a backfill that has not *)
(* got far enough makes it wait.  It is clipped to the part of the key space *)
(* that lacks it, and gets a write token.                                    *)
OnWriteAsync(w) ==
    LET tr == client.tracker
        clip == clip_next_write(tr)
    IN  /\ ~ w.sync /\ w.ts = client.completed + 1
        /\ Mode = "BACKFILLING" => can_clip_next_write_backfilling(tr, NumKeys)
        /\ writes' = writes \ {w}
        /\ IF Mode = "STREAMING"
           THEN /\ client' = [client EXCEPT !.completed = w.ts]
                /\ tokens' = Append(tokens, [ts |-> w.ts, right |-> NumKeys, sync |-> FALSE])
           ELSE /\ client' = [client EXCEPT !.completed = w.ts,
                                            !.tracker = record_write(tr, clip, w.ts)]
                /\ tokens' = IF clip = 0 THEN tokens
                             ELSE Append(tokens, [ts |-> w.ts, right |-> clip, sync |-> FALSE])
        /\ UNCHANGED <<primary_vars, remote, reads, backfill_vars, store, meta, budget>>

(* on_write_sync(), up to the write token that replica_t::do_write() takes. *)
OnWriteSync(w) ==
    /\ w.sync /\ w.ts = client.completed + 1
    /\ writes' = writes \ {w}
    /\ client' = [client EXCEPT !.completed = w.ts]
    /\ tokens' = Append(tokens, [ts |-> w.ts, right |-> NumKeys, sync |-> TRUE])
    /\ UNCHANGED <<primary_vars, remote, reads, backfill_vars, store, meta, budget>>

(* store_t::write() or set_metainfo() in the order of the tokens, and then   *)
(* the ack of a synchronous write.                                           *)
StoreWrite ==
    LET w == Head(tokens)
    IN  /\ tokens # <<>>
        /\ tokens' = Tail(tokens)
        /\ store' = [k \in Keys |-> IF k <= w.right /\ k \in log[w.ts]
                                    THEN store[k] \cup {w.ts} ELSE store[k]]
        /\ meta' = [k \in Keys |-> IF k <= w.right THEN w.ts ELSE meta[k]]
        /\ client' = [client EXCEPT !.end = IF w.ts > @ THEN w.ts ELSE @]
        /\ remote' = IF w.sync THEN [remote EXCEPT !.acked = w.ts] ELSE remote
        /\ most_recent_acked_write_timestamp' =
               IF w.sync THEN Latest(w.ts) ELSE most_recent_acked_write_timestamp
        /\ UNCHANGED <<log, pstore, writes, reads, backfill_vars, budget>>

(* do_read() waits for the writes that the read has to see. *)
ServeRead(r) ==
    /\ client.end >= r
    /\ reads' = reads \ {r}
    /\ UNCHANGED <<primary_vars, remote, writes, client, backfill_vars, store_vars, budget>>
==============================================================================
