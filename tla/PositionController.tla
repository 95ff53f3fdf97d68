------------------------- MODULE PositionController --------------------------
(***************************************************************************)
(* The position routes (router/position.js, controller/position.js,         *)
(* model/position.js).  create stores the position, connects, and starts a  *)
(* query for the role that it does not await: the length of the promise it  *)
(* then tests is undefined, whatever the table holds.                       *)
(***************************************************************************)
EXTENDS Handlers

CONSTANT Roles

VARIABLES positions,  \* the table 'positions'
          pc,         \* what each handler awaits
          role,       \* req.body.role of the handler's request
          own,        \* the row the handler's insert stored, or None: history
          response,
          created     \* the rows whose create was answered 200: history
vars == <<positions, pc, role, own, response, created>>

Doc == [role : Roles \cup {Absent}]

Init == /\ positions = [i \in Ids |-> NoDoc]
        /\ pc = [s \in Slots |-> "idle"]
        /\ role = [s \in Slots |-> None]
        /\ own = [s \in Slots |-> None]
        /\ response = [s \in Slots |-> None]
        /\ created = {}

Finish(s, code) == /\ pc' = [pc EXCEPT ![s] = "idle"]
                   /\ role' = [role EXCEPT ![s] = None]
                   /\ own' = [own EXCEPT ![s] = None]
                   /\ response' = [response EXCEPT ![s] = code]

createInsert(s) ==
    /\ pc[s] = "idle"
    /\ \E doc \in Doc, id \in Ids \cup {Absent} : \E i \in InsertKeys(positions, id) :
          /\ positions' = insert(positions, i, doc)
          /\ role' = [role EXCEPT ![s] = doc.role]
          /\ own' = [own EXCEPT ![s] = IF positions[i] = NoDoc THEN i ELSE None]
    /\ pc' = [pc EXCEPT ![s] = "connect"]
    /\ response' = [response EXCEPT ![s] = None]
    /\ UNCHANGED created

RowsOf(r) == {i \in Stored(positions) : positions[i].role = r}

\* The query is sent; its rows will be the value of a promise nobody awaits.
result(s) == [type |-> "promise", value |-> RowsOf(role[s])]

\* x.length > n; a missing length is undefined, and undefined > n is false.
LongerThan(x, n) == "length" \in DOMAIN x /\ x.length > n

\* The connection is there; the query is sent and the answer follows at once.
\* A body without a role makes building the query throw.
createAnswer(s) ==
    /\ pc[s] = "connect"
    /\ role[s] # Absent
    /\ \/ LongerThan(result(s), 0) /\ Finish(s, 409) /\ UNCHANGED created
       \/ /\ ~LongerThan(result(s), 0)
          /\ Finish(s, 200)
          /\ created' = created \cup ({own[s]} \ {None})
    /\ UNCHANGED positions

reject(s) == /\ pc[s] # "idle"
             /\ Finish(s, None)
             /\ UNCHANGED <<positions, created>>

getAllPosition(s) == /\ pc[s] = "idle"
                     /\ Finish(s, 200) \/ Finish(s, None)
                     /\ UNCHANGED <<positions, created>>

Next == \E s \in Slots : \/ createInsert(s) \/ createAnswer(s)
                         \/ reject(s) \/ getAllPosition(s)

Spec == Init /\ [][Next]_vars
------------------------------------------------------------------------------
\* Two positions of one role are never both answered 200: what create asks the
\* table for the role, and answers 409, for.
OneCreatedPerRole ==
    \A i, j \in created : positions[i].role = positions[j].role => i = j
==============================================================================
