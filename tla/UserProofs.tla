------------------------------ MODULE UserProofs -----------------------------
(***************************************************************************)
(* Proofs about UserController, for every set of keys, usernames, passwords *)
(* and handlers: of the accounts of a username register grants at most one, *)
(* and it refuses an account only when its username has another.            *)
(* The argument: a handler stores before it counts, so it counts its own    *)
(* row (OwnRow); a row that is never taken back is counted by everyone who  *)
(* counts later, so who counts one row was the first to be accepted.        *)
(***************************************************************************)
EXTENDS UserController, FiniteSetTheorems, TLAPS

\* The constants are told apart the way the handlers tell them apart.
LEMMA Distinct == /\ None \notin Ids /\ NoDoc \notin UserDoc /\ Absent \notin Ids
  BY UserAbsentAssumption, UserNoDocAssumption, UserNoneAssumption

\* A key that insert may use is a key of the table.
LEMMA KeysAreIds ==
  ASSUME NEW id \in Ids \cup {Absent}, NEW i \in InsertKeys(user, id)
  PROVE  i \in Ids
  BY DEF InsertKeys

\* The types, kept by every step of every handler.
LEMMA StepType ==
  ASSUME UserTypeOK, [UserNext]_user_vars
  PROVE  UserTypeOK'
<1>0. CASE UNCHANGED user_vars
  BY <1>0 DEF user_vars, UserTypeOK
<1> SUFFICES ASSUME NEW s \in Slots,
                    \/ registerInsert(s) \/ registerConnect(s) \/ registerCount(s)
                    \/ rejectUser(s) \/ login(s) \/ getAllUser(s)
             PROVE  UserTypeOK'
  BY <1>0 DEF UserNext
<1>1. CASE registerInsert(s)
  <2>1. PICK doc \in UserDoc, id \in Ids \cup {Absent} : \E i \in InsertKeys(user, id) :
          /\ user' = insert(user, i, doc)
          /\ own' = [own EXCEPT ![s] = IF user[i] = NoDoc THEN i ELSE None]
          /\ username' = [username EXCEPT ![s] = doc.username]
    BY <1>1 DEF registerInsert
  <2>2. PICK i \in Ids :
          /\ user' = insert(user, i, doc)
          /\ own' = [own EXCEPT ![s] = IF user[i] = NoDoc THEN i ELSE None]
          /\ username' = [username EXCEPT ![s] = doc.username]
    BY <2>1, KeysAreIds
  <2>3. doc.username \in Usernames \cup {Absent, None}
    BY DEF UserDoc
  <2>4. user' \in [Ids -> UserDoc \cup {NoDoc}]
    BY <2>2 DEF insert, UserTypeOK
  <2> QED
    BY <1>1, <2>2, <2>3, <2>4 DEF registerInsert, UserTypeOK
<1>2. CASE registerConnect(s)
  BY <1>2 DEF registerConnect, UserTypeOK
<1>3. CASE registerCount(s)
  BY <1>3 DEF registerCount, UserFinish, UserTypeOK
<1>4. CASE rejectUser(s) \/ login(s) \/ getAllUser(s)
  BY <1>4 DEF rejectUser, login, getAllUser, UserFinish, UserTypeOK
<1> QED
  BY <1>1, <1>2, <1>3, <1>4

\* UserTypeOK is an invariant of the handlers of controller/user.js.
THEOREM TypeCorrect == UserSpec => []UserTypeOK
<1>1. UserInit => UserTypeOK
  BY DEF UserInit, UserTypeOK
<1> QED
  BY <1>1, StepType, PTL DEF UserSpec

\* A handler that ends without having touched the table or the answers keeps
\* every row with the handler that answers for it.
LEMMA FinishOwnRow ==
  ASSUME UserTypeOK, OwnRow, NEW s \in Slots, NEW code, UserFinish(s, code),
         UNCHANGED <<user, accepted, refused>>
  PROVE  OwnRow'
  BY DEF UserTypeOK, OwnRow, UserFinish

\* Every step of every handler keeps OwnRow.
LEMMA StepOwnRow ==
  ASSUME UserTypeOK, OwnRow, [UserNext]_user_vars
  PROVE  OwnRow'
<1>0. CASE UNCHANGED user_vars
  BY <1>0 DEF user_vars, OwnRow
<1> SUFFICES ASSUME NEW s \in Slots,
                    \/ registerInsert(s) \/ registerConnect(s) \/ registerCount(s)
                    \/ rejectUser(s) \/ login(s) \/ getAllUser(s)
             PROVE  OwnRow'
  BY <1>0 DEF UserNext
<1>1. CASE registerInsert(s)
  <2>1. PICK doc \in UserDoc, id \in Ids \cup {Absent} : \E i \in InsertKeys(user, id) :
          /\ user' = insert(user, i, doc)
          /\ own' = [own EXCEPT ![s] = IF user[i] = NoDoc THEN i ELSE None]
          /\ username' = [username EXCEPT ![s] = doc.username]
    BY <1>1 DEF registerInsert
  <2>2. PICK i \in Ids :
          /\ user' = insert(user, i, doc)
          /\ own' = [own EXCEPT ![s] = IF user[i] = NoDoc THEN i ELSE None]
          /\ username' = [username EXCEPT ![s] = doc.username]
    BY <2>1, KeysAreIds
  <2>3. UNCHANGED <<accepted, refused>>
    BY <1>1 DEF registerInsert
  <2>4. CASE user[i] = NoDoc
    <3>1. /\ user' = [user EXCEPT ![i] = doc]
          /\ own' = [own EXCEPT ![s] = i]
      BY <2>2, <2>4 DEF insert
    <3>2. \A t \in Slots : own[t] # i
      BY <2>4, Distinct DEF OwnRow
    <3>3. i \notin accepted \cup refused
      BY <2>4 DEF OwnRow
    <3>4. user'[i] # NoDoc /\ user'[i].username = doc.username
      BY <3>1, Distinct DEF UserTypeOK
    <3> QED
      BY <2>2, <2>3, <3>1, <3>2, <3>3, <3>4 DEF OwnRow, UserTypeOK
  <2>5. CASE user[i] # NoDoc
    <3>1. user' = user /\ own' = [own EXCEPT ![s] = None]
      BY <2>2, <2>5 DEF insert
    <3> QED
      BY <2>2, <2>3, <3>1 DEF OwnRow, UserTypeOK
  <2> QED
    BY <2>4, <2>5
<1>2. CASE registerConnect(s)
  BY <1>2 DEF registerConnect, OwnRow
<1>3. CASE registerCount(s)
  <2>1. accepted' \cup refused' = (accepted \cup refused) \cup ({own[s]} \ {None})
    BY <1>3 DEF registerCount
  <2>2. UNCHANGED user /\ \E code : UserFinish(s, code)
    BY <1>3 DEF registerCount
  <2> QED
    BY <2>1, <2>2 DEF OwnRow, UserFinish, UserTypeOK
<1>4. CASE rejectUser(s) \/ login(s) \/ getAllUser(s)
  BY <1>4, FinishOwnRow DEF rejectUser, login, getAllUser
<1> QED
  BY <1>1, <1>2, <1>3, <1>4

\* OwnRow is an invariant: insert of model/user.js never overwrites a row, so a
\* registration's row stays its own until it is answered.
THEOREM OwnRowKept == UserSpec => []OwnRow
<1>1. UserInit => OwnRow
  BY DEF UserInit, OwnRow
<1> QED
  BY <1>1, StepOwnRow, TypeCorrect, PTL DEF UserSpec

\* A username that is not taken has at most one row.
LEMMA NotTakenOneRow ==
  ASSUME NEW n, ~Taken(n), NEW i \in Named(n), NEW j \in Named(n)
  PROVE  i = j
<1> SUFFICES ASSUME i # j PROVE FALSE
  OBVIOUS
<1>1. IsFiniteSet(Named(n))
  BY FS_Subset, IdsAssumption DEF Named
<1>2. IsFiniteSet({i}) /\ Cardinality({i}) = 1
  BY FS_Singleton
<1>3. IsFiniteSet({i} \cup {j}) /\ Cardinality({i} \cup {j}) = 2
  BY <1>2, FS_AddElement
<1>4. Cardinality({i} \cup {j}) <= Cardinality(Named(n))
  BY <1>1, FS_Subset
<1> QED
  BY <1>1, <1>3, <1>4, FS_CardinalityType DEF Taken

\* OneAccountGranted is an invariant: register of controller/user.js stores
\* before it counts, so whatever the interleaving, of all the registrations of a
\* username that stored an account at most one is answered 200.  (A registration
\* that stores nothing, its body's id being taken, is not among them.)
THEOREM AtMostOneAccount == UserSpec => []OneAccountGranted
<1>1. UserInit => OneAccountGranted
  BY DEF UserInit, OneAccountGranted
<1>2. UserTypeOK /\ OwnRow /\ OneAccountGranted /\ [UserNext]_user_vars => OneAccountGranted'
  <2> SUFFICES ASSUME UserTypeOK, OwnRow, OneAccountGranted, [UserNext]_user_vars
               PROVE  OneAccountGranted'
    OBVIOUS
  <2>0. CASE UNCHANGED <<user, accepted>>
    BY <2>0 DEF OneAccountGranted
  <2> SUFFICES ASSUME NEW s \in Slots, registerInsert(s) \/ registerCount(s)
               PROVE  OneAccountGranted'
    BY <2>0 DEF UserNext, user_vars, registerConnect, rejectUser, login, getAllUser
  <2>1. CASE registerInsert(s)
    <3>1. \A i \in accepted : user'[i] = user[i]
      BY <2>1, KeysAreIds DEF registerInsert, insert, OwnRow, UserTypeOK
    <3> QED
      BY <2>1, <3>1 DEF registerInsert, OneAccountGranted
  <2>2. CASE registerCount(s) /\ Taken(username[s])
    BY <2>0, <2>2 DEF registerCount
  <2>3. CASE registerCount(s) /\ ~Taken(username[s])
    <3>1. accepted' = accepted \cup ({own[s]} \ {None}) /\ user' = user
      BY <2>3 DEF registerCount
    <3>2. own[s] # None => own[s] \in Named(username[s])
      BY DEF OwnRow, Named
    <3>3. \A i \in accepted : user[i].username = username[s] => i \in Named(username[s])
      BY DEF OwnRow, Named, UserTypeOK
    <3>4. \A i \in accepted : own[s] # None /\ user[i].username = username[s] => i = own[s]
      BY <2>3, <3>2, <3>3, NotTakenOneRow
    <3> QED
      BY <3>1, <3>4 DEF OneAccountGranted, OwnRow
  <2> QED
    BY <2>1, <2>2, <2>3
<1> QED
  BY <1>1, <1>2, TypeCorrect, OwnRowKept, PTL DEF UserSpec

\* A username that is taken has a row besides any given one.
LEMMA TakenHasAnother ==
  ASSUME NEW n, NEW i, Taken(n)
  PROVE  \E j \in Named(n) : j # i
<1> SUFFICES ASSUME \A j \in Named(n) : j = i PROVE FALSE
  OBVIOUS
<1>1. IsFiniteSet({i}) /\ Cardinality({i}) = 1
  BY FS_Singleton
<1>2. Cardinality(Named(n)) <= Cardinality({i})
  BY <1>1, FS_Subset
<1>3. IsFiniteSet(Named(n))
  BY FS_Subset, IdsAssumption DEF Named
<1> QED
  BY <1>1, <1>2, <1>3, FS_CardinalityType DEF Taken

\* No step of a handler changes a stored account or takes it away.
LEMMA AccountsStay ==
  ASSUME UserTypeOK, [UserNext]_user_vars, NEW i \in Stored(user)
  PROVE  i \in Stored(user)' /\ user'[i] = user[i]
<1>1. CASE UNCHANGED user
  BY <1>1 DEF Stored
<1>2. CASE \E s \in Slots : registerInsert(s)
  BY <1>2, KeysAreIds DEF registerInsert, insert, Stored, UserTypeOK
<1> QED
  BY <1>1, <1>2 DEF UserNext, user_vars, registerConnect, registerCount, rejectUser, login,
                    getAllUser

\* RefusedIsTaken is an invariant: register of controller/user.js counts the
\* account it has just stored, so it refuses it only when there is another, and
\* no route takes that other one away or renames it.
THEOREM RefusedAreTaken == UserSpec => []RefusedIsTaken
<1>1. UserInit => RefusedIsTaken
  BY DEF UserInit, RefusedIsTaken
<1>2. UserTypeOK /\ OwnRow /\ RefusedIsTaken /\ [UserNext]_user_vars => RefusedIsTaken'
  <2> SUFFICES ASSUME UserTypeOK, OwnRow, RefusedIsTaken, [UserNext]_user_vars, NEW i \in refused'
               PROVE  \E j \in Stored(user)' \ {i} : user'[j].username = user'[i].username
    BY DEF RefusedIsTaken
  <2>1. CASE i \in refused
    <3>1. i \in Stored(user)
      BY <2>1 DEF OwnRow, Stored, UserTypeOK
    <3>2. PICK j \in Stored(user) \ {i} : user[j].username = user[i].username
      BY <2>1 DEF RefusedIsTaken
    <3> QED
      BY <3>1, <3>2, AccountsStay
  <2>2. CASE i \notin refused
    <3>1. PICK s \in Slots : registerCount(s) /\ Taken(username[s]) /\ i = own[s] /\ own[s] # None
      BY <2>2 DEF UserNext, user_vars, registerInsert, registerConnect, registerCount,
                  rejectUser, login, getAllUser
    <3>2. user' = user /\ user[i].username = username[s]
      BY <3>1 DEF registerCount, OwnRow
    <3>3. PICK j \in Named(username[s]) : j # i
      BY <3>1, TakenHasAnother
    <3> QED
      BY <3>2, <3>3 DEF Named, Stored
  <2> QED
    BY <2>1, <2>2
<1> QED
  BY <1>1, <1>2, TypeCorrect, OwnRowKept, PTL DEF UserSpec
==============================================================================
