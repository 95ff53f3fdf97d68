---------------------------- MODULE UserController ---------------------------
(***************************************************************************)
(* The user routes (router/user.js, controller/user.js, model/user.js).     *)
(* register stores the user first and counts the rows of that username      *)
(* afterwards, on a connection of its own; nothing takes the row back.      *)
(***************************************************************************)
EXTENDS Handlers

CONSTANTS Usernames, Passwords

ASSUME UserAbsentAssumption == Absent \notin Ids \cup Usernames

VARIABLES user,           \* the table 'user'
          user_pc,        \* what each handler awaits
          username,       \* req.body.username of the handler's request
          own,            \* the row the handler's insert stored, or None: history
          user_response,  \* the status code the slot's last request was answered with
          accepted,       \* the rows whose registration was answered 200: history
          refused         \* the rows whose registration was answered 409: history
user_vars == <<user, user_pc, username, own, user_response, accepted, refused>>

UserDoc == [username : Usernames \cup {Absent}, password : Passwords]
ASSUME UserNoDocAssumption == NoDoc \notin UserDoc
ASSUME UserNoneAssumption == None \notin Ids \cup Usernames \cup {Absent, 200, 401, 409}

\* The rows filter({username}) finds.
Named(name) == {i \in Ids : user[i] # NoDoc /\ user[i].username = name}

UserInit == /\ user = [i \in Ids |-> NoDoc]
            /\ user_pc = [s \in Slots |-> "idle"]
            /\ username = [s \in Slots |-> None]
            /\ own = [s \in Slots |-> None]
            /\ user_response = [s \in Slots |-> None]
            /\ accepted = {} /\ refused = {}

UserFinish(s, code) == /\ user_pc' = [user_pc EXCEPT ![s] = "idle"]
                       /\ username' = [username EXCEPT ![s] = None]
                       /\ own' = [own EXCEPT ![s] = None]
                       /\ user_response' = [user_response EXCEPT ![s] = code]

\* User.register(req.body): the insert's own errors are not looked at.
registerInsert(s) ==
    /\ user_pc[s] = "idle"
    /\ \E doc \in UserDoc, id \in Ids \cup {Absent} : \E i \in InsertKeys(user, id) :
          /\ user' = insert(user, i, doc)
          /\ own' = [own EXCEPT ![s] = IF user[i] = NoDoc THEN i ELSE None]
          /\ username' = [username EXCEPT ![s] = doc.username]
    /\ user_pc' = [user_pc EXCEPT ![s] = "connect"]
    /\ user_response' = [user_response EXCEPT ![s] = None]
    /\ UNCHANGED <<accepted, refused>>

\* await r.connect()
registerConnect(s) ==
    /\ user_pc[s] = "connect"
    /\ user_pc' = [user_pc EXCEPT ![s] = "count"]
    /\ UNCHANGED <<user, username, own, user_response, accepted, refused>>

\* Mutant: counts one row too many before it refuses.
TakenOffByOne(name) == Cardinality(Named(name)) > 2

\* Mutant: forgets that the handler's own row is counted.
TakenAtAll(name) == Cardinality(Named(name)) > 0

\* result.length > 1
Taken(name) == Cardinality(Named(name)) > 1

\* The count and the answer.  Without a username the filter cannot be built.
registerCount(s) ==
    /\ user_pc[s] = "count"
    /\ username[s] # Absent
    /\ UNCHANGED user
    /\ \/ /\ Taken(username[s])
          /\ refused' = refused \cup ({own[s]} \ {None})
          /\ UNCHANGED accepted
          /\ UserFinish(s, 409)
       \/ /\ ~Taken(username[s])
          /\ accepted' = accepted \cup ({own[s]} \ {None})
          /\ UNCHANGED refused
          /\ UserFinish(s, 200)

\* A query or the connection fails, or the filter cannot be built: the handler
\* rejects, the row it stored stays and no answer is sent.
rejectUser(s) == /\ user_pc[s] # "idle"
                 /\ UserFinish(s, None)
                 /\ UNCHANGED <<user, accepted, refused>>

\* Rows that match username and password; a missing field matches nothing.
Matches(name, password) == {i \in Named(name) : user[i].password = password}

\* A query that rejects, or a body without a username, leaves it unanswered.
login(s) ==
    /\ user_pc[s] = "idle"
    /\ \/ \E name \in Usernames, password \in Passwords :
             UserFinish(s, IF Matches(name, password) # {} THEN 200 ELSE 401)
       \/ UserFinish(s, None)
    /\ UNCHANGED <<user, accepted, refused>>

getAllUser(s) == /\ user_pc[s] = "idle"
                 /\ UserFinish(s, 200) \/ UserFinish(s, None)
                 /\ UNCHANGED <<user, accepted, refused>>

UserNext == \E s \in Slots :
                \/ registerInsert(s) \/ registerConnect(s) \/ registerCount(s)
                \/ rejectUser(s) \/ login(s) \/ getAllUser(s)

UserSpec == UserInit /\ [][UserNext]_user_vars
------------------------------------------------------------------------------
\* Type correctness; the rows answered for are keys of the table.
UserTypeOK == /\ user \in [Ids -> UserDoc \cup {NoDoc}]
              /\ user_pc \in [Slots -> {"idle", "connect", "count"}]
              /\ username \in [Slots -> Usernames \cup {Absent, None}]
              /\ own \in [Slots -> Ids \cup {None}]
              /\ user_response \in [Slots -> {None, 200, 401, 409}]
              /\ accepted \subseteq Ids /\ refused \subseteq Ids

\* A row is answered for by one handler only, and belongs to the username that
\* handler counts: what makes the count see the handler's own row.
OwnRow ==
    /\ \A s \in Slots : own[s] # None =>
          /\ own[s] \in Ids
          /\ user[own[s]] # NoDoc
          /\ user[own[s]].username = username[s]
          /\ own[s] \notin accepted \cup refused
          /\ \A t \in Slots : own[t] = own[s] => t = s
    /\ \A i \in accepted \cup refused : user[i] # NoDoc

\* register stores before it counts, so of all the registrations of a username
\* that stored an account, however they interleave, fail or are retried, at most
\* one is told 200.  It says nothing of a registration whose body carries a taken
\* id: that one stores nothing, and register answers it 200, too, as long as the
\* username has at most one row.
OneAccountGranted ==
    \A i, j \in accepted : user[i].username = user[j].username => i = j

\* register refuses only what is taken: an account whose registration was told
\* 'Username already exist!' has a username that another stored account has, too,
\* and goes on having.
RefusedIsTaken ==
    \A i \in refused : \E j \in Stored(user) \ {i} : user[j].username = user[i].username
==============================================================================
