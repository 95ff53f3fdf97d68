------------------------ MODULE ReplicationProperties ------------------------
(***************************************************************************)
(* The balance of Replication's throttles.                                  *)
(***************************************************************************)
EXTENDS Replication, FiniteSetsExt, SequencesExt

SumOf(queue, type) ==
    FoldSeq(LAMBDA m, n : n + IF m.type = type THEN m.size ELSE 0, 0, queue)

(* No throttle leaks credits, however sessions end: what the backfiller has   *)
(* sent and not had acknowledged is in a message, or known to the session.    *)
(* The same of the pre-items.                                                 *)
ThrottlesBalance ==
    /\ backfiller.unacked = session.unacked + SumOf(to_backfiller, "ack_items")
           + Len(SelectSeq(to_backfillee, LAMBDA m : m.type = "items" /\ m.item.has))
    /\ pre.unacked = Cardinality(backfiller.pre_items) + SumOf(to_backfillee, "ack_pre_items")
           + Len(SelectSeq(to_backfiller, LAMBDA m : m.type = "pre_items" /\ m.has))
==============================================================================
