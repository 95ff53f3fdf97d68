------------------------------ MODULE Documents ------------------------------
(***************************************************************************)
(* The document table as the backend's model/*.js files use it: RethinkDB   *)
(* executes insert, get(id).update and filter as atomic operations on one   *)
(* table.  A table is a function from primary keys to documents; NoDoc is   *)
(* the value of a key that is not in use, Absent that of a missing field.   *)
(***************************************************************************)
CONSTANTS Ids, Absent, NoDoc

Stored(table) == {i \in Ids : table[i] # NoDoc}

\* Mutant: a taken primary key overwrites the row.
insertReplace(table, id, doc) == [table EXCEPT ![id] = doc]

\* insert(data): a taken primary key is reported in the result's `errors`
\* field, never as an exception, and leaves the table alone.
insert(table, id, doc) ==
    IF table[id] = NoDoc THEN [table EXCEPT ![id] = doc] ELSE table

\* The primary keys insert may use: the one in the data, or a fresh one.
InsertKeys(table, id) == IF id = Absent THEN Ids \ Stored(table) ELSE {id}

\* update(data) merges: a field the data does not have keeps its value.
Merged(old, new) == IF new = Absent THEN old ELSE new

\* get(id).update(data) writes nothing when the row is missing (`skipped`) or
\* when the data carries another primary key (`errors`).
Updatable(table, id, data_id) == table[id] # NoDoc /\ data_id \in {Absent, id}
==============================================================================
