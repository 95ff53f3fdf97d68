----------------------------- MODULE MCEmployee ------------------------------
(***************************************************************************)
(* Small instances of EmployeeController.                                   *)
(***************************************************************************)
EXTENDS EmployeeController, TLC

Symmetry == Permutations(Ids) \cup Permutations(Slots)

\* Every body leaves the choice of the primary key to the database.
ServerIds == {Absent}
==============================================================================
