----------------------------- MODULE MCContracts -----------------------------
(***************************************************************************)
(* Small instances of TableContracts.                                       *)
(***************************************************************************)
EXTENDS TableContracts, TLC

CONSTANTS s1, s2, s3, s4

Scenario(cfg, chs, contracts, branches, writes, reads, restarts, with) ==
    [config |-> cfg, changes |-> chs, contracts |-> contracts, branches |-> branches,
     budget |-> [writes |-> writes, reads |-> reads, crashes |-> restarts], with |-> with]

(* A table whose replicas all vote. *)
Table(servers, primary) ==
    [replicas |-> servers, voters |-> servers, primary |-> primary]

All == Table({s1, s2, s3}, s1)

(* The primary is lost, or restarts, while a write is under way. *)
Failover == Scenario(All, <<>>, 3, 2, 1, 0, 1, {"settled", "partitions"})

(* The primary that a failover has chosen is lost as well. *)
TwoFailovers == Scenario(All, <<>>, 4, 2, 1, 0, 0, {"settled", "partitions"})

(* A failover, a write before or after it, and a majority read at a primary  *)
(* that may have been deposed.                                               *)
Reads == Scenario(All, <<>>, 3, 2, 1, 1, 0, {"settled", "partitions"})

(* A table is created, and its servers restart. *)
Fresh(x) == Scenario(Table({s1, x}, s1), <<>>, 1, 3, 1, 0, 1, {"gc"})

(* Every restart of the primary starts a branch and the history is pruned,   *)
(* while a secondary lags behind.                                            *)
Restarts == Scenario(All, <<>>, 1, 3, 0, 0, 2, {"settled", "gc"})

(* The primary hands over to another server. *)
HandOver(x) == Scenario(Table({s1, x}, s1), <<Table({s1, x}, x)>>, 4, 2, 1, 0, 0,
                        {"settled", "partitions"})

(* The table moves from one server to another, which takes six contracts. *)
Move(x) == Scenario(Table({s1}, s1), <<Table({x}, x)>>, 7, 3, 1, 0, 1, {"settled"})

(* The first steps of it, with a primary that may be lost on the way. *)
HalfMove(x) ==
    Scenario(Table({s1}, s1), <<Table({x}, x)>>, 5, 2, 1, 0, 0, {"settled", "partitions"})

(* One of two voters is replaced. *)
Replace(x, y) == Scenario(Table({s1, x}, s1), <<Table({s1, y}, s1)>>, 4, 1, 1, 0, 0, {"settled"})

ScenariosOf(x, y) == {Failover, TwoFailovers, Reads, Fresh(x), Restarts, HandOver(x),
                      Move(x), HalfMove(x), Replace(x, y)}

(* s2 and s3 are interchangeable: every scenario is there for both. *)
AllScenarios == ScenariosOf(s2, s3) \cup ScenariosOf(s3, s2)

Symmetry == Permutations({s2, s3})

(* Configurations that must be reached although the servers restart. *)
ReachableScenarios ==
    {Scenario(Table({s1}, s1), <<Table({s2}, s2)>>, 10, 4, 1, 0, 1, {}),
     Scenario(Table({s1, s2}, s1), <<Table({s1, s2}, s2)>>, 10, 4, 1, 0, 1, {"settled"}),
     Scenario(Table({s1, s2}, s1), <<Table({s1, s3}, s3)>>, 10, 3, 0, 0, 0, {"settled"})}

(* Only the restarts. *)
RestartScenarios == {Restarts}

(* All voters but one are to be removed. *)
ShrinkScenarios ==
    {Scenario(Table({s1, s2, s3, s4}, s1), <<Table({s4}, s4)>>, 2, 1, 0, 0, 0, {"settled"})}
==============================================================================
