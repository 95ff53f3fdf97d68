--------------------------- MODULE MCRaftScenarios ---------------------------
(***************************************************************************)
(* Three small instances of RaftMember in one run: the constants of the     *)
(* configuration file describe elections among three voters; beside them,   *)
(* three terms of leaders that overwrite each other's entries, and          *)
(* snapshots on a voter and a listener.  `scenario` is chosen in the        *)
(* initial state and never changes.                                         *)
(***************************************************************************)
EXTENDS MCRaft

VARIABLE scenario

Snapshots == INSTANCE RaftMember
                 WITH InitialConfig <- ListenerB, SnapshotThreshold <- 1,
                      Connected <- Everyone, Crashing <- AB, Listening <- AB, MaxIndex <- 2

ThreeTerms == INSTANCE RaftMember
                  WITH Candidates <- InTurns, Proposals <- {}, Crashing <- {},
                       Listening <- {}

ScenarioInit == \/ scenario = "elections" /\ Init
                \/ scenario = "three terms" /\ ThreeTerms!Init
                \/ scenario = "snapshots" /\ Snapshots!Init

ScenarioNext == /\ UNCHANGED scenario
                /\ \/ scenario = "elections" /\ Next
                   \/ scenario = "three terms" /\ ThreeTerms!Next
                   \/ scenario = "snapshots" /\ Snapshots!Next

ScenarioSpec == ScenarioInit /\ [][ScenarioNext]_<<vars, scenario>>
==============================================================================
