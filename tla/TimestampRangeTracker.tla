------------------------ MODULE TimestampRangeTracker ------------------------
(***************************************************************************)
(* timestamp_range_tracker_t of remote_replicator_client.cc: how far each   *)
(* part of the key space is, while a backfill brings the keys from left to  *)
(* right and the primary's writes stream in.                                *)
(*                                                                          *)
(* Keys are 1, 2, ..., end; a right bound is the last key before it, so 0   *)
(* is the left end of the store's region and of the empty region.           *)
(***************************************************************************)
EXTENDS Naturals, Sequences

(* prev is the timestamp of the last streamed write.  An entry says that the *)
(* keys from the previous entry's bound up to its own have a timestamp.      *)
Tracker(prev) == [prev |-> prev, entries |-> <<>>]

Entry(right, ts) == [right |-> right, ts |-> ts]

LastEntry(tr) == tr.entries[Len(tr.entries)]

record_backfill(tr, right, ts) ==
    IF tr.entries = <<>> \/ LastEntry(tr).ts # ts
    THEN [tr EXCEPT !.entries = Append(@, Entry(right, ts))]
    ELSE [tr EXCEPT !.entries[Len(tr.entries)].right = right]

(* A mutant: entries of the same timestamp are not merged. *)
record_write_unmerged(tr, right, ts) ==
    IF right = 0 THEN [tr EXCEPT !.prev = ts]
    ELSE [tr EXCEPT !.prev = ts, !.entries[1].ts = ts]

record_write(tr, right, ts) ==
    IF right = 0 THEN [tr EXCEPT !.prev = ts]
    ELSE IF Len(tr.entries) > 1 /\ tr.entries[2].ts = ts
    THEN [prev |-> ts, entries |-> Tail(tr.entries)]
    ELSE [tr EXCEPT !.prev = ts, !.entries[1].ts = ts]

get_max_timestamp(tr) == IF tr.entries = <<>> THEN tr.prev ELSE LastEntry(tr).ts

get_backfill_threshold(tr) == IF tr.entries = <<>> THEN 0 ELSE LastEntry(tr).right

is_homogeneous(tr, end) == tr.entries # <<>> /\ tr.entries[1].right = end

(* A mutant: one entry is enough, although the next chunk may be older than  *)
(* the write.                                                                *)
can_clip_early(tr, end) == tr.entries # <<>>

can_clip_next_write_backfilling(tr, end) ==
    tr.entries # <<>> /\ (Len(tr.entries) > 1 \/ tr.entries[1].right = end)

(* A mutant: the write is applied to everything that has been backfilled. *)
clip_at_threshold(tr) == get_backfill_threshold(tr)

(* clip_next_write_paused(): the right bound of what the next write applies  *)
(* to, which is what the backfill has not brought in already.                *)
clip_next_write(tr) ==
    IF tr.entries = <<>> \/ tr.entries[1].ts > tr.prev THEN 0
    ELSE tr.entries[1].right

(* The timestamp of key, which the backfill has reached. *)
TimestampOf(tr, key) ==
    tr.entries[CHOOSE i \in 1 .. Len(tr.entries) :
                   /\ key <= tr.entries[i].right
                   /\ \A j \in 1 .. i - 1 : tr.entries[j].right < key].ts

(* The comment on entries: bounds and timestamps both increase strictly.  No *)
(* timestamp is older than the last write, as the assertions say.            *)
Ordered(tr, end) ==
    /\ \A i \in 1 .. Len(tr.entries) :
           tr.entries[i].right \in 1 .. end /\ tr.entries[i].ts >= tr.prev
    /\ \A i, j \in 1 .. Len(tr.entries) :
           i < j => /\ tr.entries[i].right < tr.entries[j].right
                    /\ tr.entries[i].ts < tr.entries[j].ts
==============================================================================
