---------------------------- MODULE ReplicaStream ----------------------------
(***************************************************************************)
(* What the contracts of a table rely on when a secondary follows a         *)
(* primary: the steps that TableContracts takes for it, one secondary and   *)
(* one branch at a time.                                                    *)
(***************************************************************************)
EXTENDS Naturals

VARIABLES
    tip,        \* the timestamp of the last write of the branch
    phase,      \* "starting", "backfilling" or "streaming"
    start,      \* the last write dispatched before the subscription
    version,    \* the writes that a streaming secondary has
    acked       \* the last write it has acknowledged

vars == <<tip, phase, start, version, acked>>

Init == tip \in Nat /\ phase = "starting" /\ start = 0 /\ version = 0 /\ acked = 0

Write == tip' = tip + 1 /\ UNCHANGED <<phase, start, version, acked>>

Subscribe ==
    /\ phase = "starting"
    /\ phase' = "backfilling" /\ start' = tip
    /\ UNCHANGED <<tip, version, acked>>

Backfill ==
    /\ phase = "backfilling"
    /\ phase' = "streaming" /\ version' \in start .. tip /\ start' = 0
    /\ UNCHANGED <<tip, acked>>

ApplyWrite ==
    /\ phase = "streaming" /\ version < tip
    /\ version' = version + 1
    /\ acked' \in {acked, version'}
    /\ UNCHANGED <<tip, phase, start>>

LosePrimary ==
    /\ phase' = "starting" /\ start' = 0 /\ version' = 0 /\ acked' = 0
    /\ UNCHANGED tip

Next == Write \/ Subscribe \/ Backfill \/ ApplyWrite \/ LosePrimary

Spec == Init /\ [][Next]_vars
==============================================================================
