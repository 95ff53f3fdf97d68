---------------------------- MODULE BranchHistory ----------------------------
(***************************************************************************)
(* The history of a table's data: history.cc and branch_history_gc.cc.      *)
(* Every primary that comes up starts a branch of its own, and a version is *)
(* a branch with the timestamp of the last write of it that was applied.    *)
(*                                                                          *)
(* One region: the origin in a birth certificate is one version, and the    *)
(* initial timestamp of a branch is that version's.  Branch identifiers are *)
(* numbered in the order they were generated, 0 being the nil one, so the   *)
(* origin of a branch lies on a smaller branch.  A branch history is the    *)
(* set of the branches it knows; what it knows of each is origin[b].        *)
(***************************************************************************)
EXTENDS Naturals

Version(b, t) == [branch |-> b, timestamp |-> t]

zero == Version(0, 0)

(* export_branch_history(), mark_all_ancestors_live(): b and the branches it *)
(* comes from, as far back as they are known.                                *)
export_branch_history(origin, known, branch) ==
    LET reach[b \in Nat] ==
            IF b \in known THEN {b} \cup reach[origin[b].branch] ELSE {}
    IN  reach[branch]

(* What has to be copied from source for existing to cover the branch root. *)
copy_branch_history_for_branch(origin, root, source, existing) ==
    LET copy[b \in Nat] ==
            IF b \in source \ existing THEN {b} \cup copy[origin[b].branch]
                                       ELSE {}
    IN  copy[root]

(* The branches an executor keeps: it stops at the point where the history   *)
(* in the Raft state stops too.                                              *)
mark_ancestors_since_base_live(origin, known, base, root) ==
    LET live[b \in Nat] ==
            LET parent == origin[b].branch
            IN  {b} \cup IF parent \in known /\ (b \in base => parent \in base)
                         THEN live[parent] ELSE {}
    IN  live[root]

(* Whether descendent contains every write that ancestor does. *)
version_is_ancestor(origin, ancestor, descendent) ==
    LET matches[b \in Nat] ==
            \/ b = ancestor.branch
            \/ /\ b # 0
               /\ origin[b].timestamp >= ancestor.timestamp
               /\ matches[origin[b].branch]
    IN  /\ descendent.timestamp >= ancestor.timestamp
        /\ matches[descendent.branch]

(* The fragment version_find_common() works on: two versions, and for each   *)
(* the versions equivalent to it that it has already stepped back from.      *)
Fragment(v1, v2, e1, e2) == [v1 |-> v1, v2 |-> v2, e1 |-> e1, e2 |-> e2]

IsBase(x) ==
    \/ x.v1.branch = x.v2.branch
    \/ x.v2 \in x.e1 \/ x.v1 \in x.e2
    \/ zero \in {x.v1, x.v2}

(* One turn of the loop: step back from the branch that starts later. *)
StepBack(origin, x) ==
    LET y == IF origin[x.v1.branch].timestamp < origin[x.v2.branch].timestamp
             THEN Fragment(x.v2, x.v1, x.e2, x.e1) ELSE x
        start == origin[y.v1.branch]
        equiv == {Version(y.v1.branch, start.timestamp)}
                 \cup IF y.v1.timestamp = start.timestamp THEN y.e1 ELSE {}
    IN  Fragment(start, y.v2, equiv, y.e2)

CommonOf(x) ==
    IF x.v1.branch = x.v2.branch
    THEN IF x.v1.timestamp < x.v2.timestamp THEN x.v1 ELSE x.v2
    ELSE IF x.v2 \in x.e1 THEN x.v2
    ELSE IF x.v1 \in x.e2 THEN x.v1 ELSE zero

(* The set of the results of version_find_common(): empty when a branch it   *)
(* needs is missing from known.  The loop ends before it has stepped back    *)
(* from every branch on both sides.                                          *)
version_find_common(origin, known, v1, v2, turns) ==
    LET after[n \in Nat] ==
            IF n = 0 THEN {Fragment(v1, v2, {}, {})}
            ELSE {IF IsBase(x) \/ {x.v1.branch, x.v2.branch} \ known # {}
                  THEN x ELSE StepBack(origin, x) : x \in after[n - 1]}
    IN  {CommonOf(x) : x \in {x \in after[turns] : IsBase(x)}}

(* The point where a version leaves the path to the end of a branch. *)
version_find_branch_common(origin, known, v, branch, turns, latest) ==
    version_find_common(origin, known, v,
        IF branch = 0 THEN zero ELSE Version(branch, latest), turns)
==============================================================================
