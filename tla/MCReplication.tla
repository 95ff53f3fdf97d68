---------------------------- MODULE MCReplication ----------------------------
(***************************************************************************)
(* Small instances of Replication.                                          *)
(***************************************************************************)
EXTENDS ReplicationProperties

Scenario(past, diverged, new, preempted, lost, read) ==
    [log |-> past, diverged |-> diverged,
     budget |-> [writes |-> new, preempts |-> preempted, restarts |-> lost, reads |-> read]]

All == {1, 2, 3}

(* Writes while the secondary backfills, with one or two cut sessions. *)
Sessions == {Scenario(<<All>>, {1, 3}, 2, 1, 0, 0), Scenario(<<All>>, {1, 3}, 1, 2, 0, 0)}

(* The client is lost at any point, also when it is ahead of the primary. *)
Losses == {Scenario(<<All>>, {1, 3}, 2, 0, 1, 1), Scenario(<<All>>, {1, 3}, 1, 1, 1, 0)}

(* More writes than there are keys, in one session. *)
Streaming == {Scenario(<<>>, {2}, 3, 0, 0, 1)}

AllScenarios == Sessions \cup Losses \cup Streaming
==============================================================================
