---------------------------- MODULE CompanyProofs ----------------------------
(***************************************************************************)
(* Proofs about CompanyController, for every set of keys, names and         *)
(* handlers: type correctness, and that the active companies of a name and  *)
(* the handlers about to write it never exceed the handlers in flight.      *)
(***************************************************************************)
EXTENDS CompanyController, FiniteSetTheorems, TLAPS

\* The constants are told apart the way the handlers tell them apart.
LEMMA Distinct == /\ Absent \notin Names /\ Absent \notin Ids
                  /\ NoDoc \notin Doc /\ None \notin Request
  BY AbsentAssumption, NoDocAssumption, NoneAssumption

\* A handler that ends, with or without an answer, keeps the types.
LEMMA FinishType ==
  ASSUME TypeOK, NEW s \in Slots, NEW code \in {None, 200, 400, 409}, Finish(s, code),
         company' \in [Ids -> Doc \cup {NoDoc}]
  PROVE  TypeOK'
  BY DEF TypeOK, Finish

\* What create and update do up to their second query keeps the types.
LEMMA CheckNameType ==
  ASSUME TypeOK, NEW s \in Slots, NEW query \in {"create", "update"}, NEW req \in Request,
         query = "update" => req.id \in Ids, CheckName(s, query, req)
  PROVE  TypeOK'
<1>1. company' \in [Ids -> Doc \cup {NoDoc}]
  BY DEF CheckName, TypeOK
<1>2. CASE Finish(s, None) \/ Finish(s, 409)
  BY <1>1, <1>2, FinishType
<1>3. CASE req.body.company_name # Absent /\ Await(s, query, req)
  <2>1. req.body.company_name \in Names
    BY <1>3 DEF Request, Body
  <2> QED
    BY <1>1, <1>3, <2>1 DEF Await, TypeOK
<1> QED
  BY <1>2, <1>3 DEF CheckName

\* TypeOK is an invariant: no interleaving of the handlers of
\* controller/company.js stores a row without a company_name or loses the
\* request of a handler that is about to write.
THEOREM TypeCorrect == Spec => []TypeOK
<1>1. Init => TypeOK
  BY DEF Init, TypeOK
<1>2. TypeOK /\ [Next]_vars => TypeOK'
  <2> SUFFICES ASSUME TypeOK, [Next]_vars PROVE TypeOK'
    OBVIOUS
  <2>0. CASE UNCHANGED vars
    BY <2>0 DEF vars, TypeOK
  <2> SUFFICES ASSUME NEW s \in Slots,
                      \/ createCheck(s) \/ createInsert(s) \/ updateCheck(s)
                      \/ updateWrite(s) \/ delete(s) \/ getAll(s) \/ reject(s)
               PROVE  TypeOK'
    BY <2>0 DEF Next
  <2>1. CASE createCheck(s)
    <3>1. PICK body \in Body : CheckName(s, "create", [id |-> Absent, body |-> body])
      BY <2>1 DEF createCheck
    <3>2. [id |-> Absent, body |-> body] \in Request
      BY DEF Request
    <3> QED
      BY <3>1, <3>2, CheckNameType
  <2>2. CASE createInsert(s)
    <3>1. NewDoc(request[s].body) \in Doc
      BY <2>2 DEF createInsert, TypeOK, NewDoc, Doc, Request, Body
    <3>2. PICK i \in InsertKeys(company, request[s].body.id) :
             company' = insert(company, i, NewDoc(request[s].body))
      BY <2>2 DEF createInsert
    <3>3. company' \in [Ids -> Doc \cup {NoDoc}]
      BY <3>1, <3>2 DEF insert, TypeOK
    <3> QED
      BY <2>2, <3>3, FinishType DEF createInsert, Answer
  <2>3. CASE updateCheck(s)
    <3>1. PICK i \in Ids, body \in Body : CheckName(s, "update", [id |-> i, body |-> body])
      BY <2>3 DEF updateCheck
    <3>2. [id |-> i, body |-> body] \in Request
      BY DEF Request
    <3> QED
      BY <3>1, <3>2, CheckNameType
  <2>4. CASE updateWrite(s)
    <3>1. /\ request[s].id \in Ids /\ request[s].body \in Body
          /\ request[s].body.company_name \in Names
      BY <2>4 DEF updateWrite, TypeOK, Request
    <3>2. company' \in [Ids -> Doc \cup {NoDoc}]
      <4>1. CASE Updatable(company, request[s].id, request[s].body.id)
        <5>1. company[request[s].id] \in Doc
          BY <3>1, <4>1 DEF Updatable, TypeOK
        <5>2. Patched(company[request[s].id], request[s].body) \in Doc
          BY <3>1, <5>1 DEF Patched, Merged, Doc, Body, Statuses
        <5> QED
          BY <2>4, <3>1, <4>1, <5>2 DEF updateWrite, TypeOK
      <4>2. CASE ~Updatable(company, request[s].id, request[s].body.id)
        BY <2>4, <4>2 DEF updateWrite, TypeOK
      <4> QED
        BY <4>1, <4>2
    <3>3. \E code \in {None, 200, 400, 409} : Finish(s, code)
      BY <2>4 DEF updateWrite, Answer
    <3> QED
      BY <3>2, <3>3, FinishType
  <2>5. CASE delete(s)
    <3>1. company' \in [Ids -> Doc \cup {NoDoc}]
      <4>1. PICK i \in Ids : company' = IF company[i] = NoDoc THEN company
                                        ELSE [company EXCEPT ![i].status = "Inactive"]
        BY <2>5 DEF delete
      <4>2. company[i] # NoDoc => company[i] \in Doc
        BY DEF TypeOK
      <4>3. company[i] # NoDoc => [company[i] EXCEPT !.status = "Inactive"] \in Doc
        BY <4>2 DEF Doc, Statuses
      <4> QED
        BY <4>1, <4>3 DEF TypeOK
    <3> QED
      BY <2>5, <3>1, FinishType DEF delete, Answer
  <2>6. CASE getAll(s) \/ reject(s)
    <3>1. company' \in [Ids -> Doc \cup {NoDoc}]
      BY <2>6 DEF getAll, reject, TypeOK
    <3> QED
      BY <2>6, <3>1, FinishType DEF getAll, reject, Answer
  <2> QED
    BY <2>1, <2>2, <2>3, <2>4, <2>5, <2>6
<1> QED
  BY <1>1, <1>2, PTL DEF Spec

(* ----------------------------- the name budget -------------------------- *)

\* A write turns at most one key into a row of the name, and uses up a claim.
LEMMA ClaimUsed ==
  ASSUME NEW G, NEW H, NEW C, NEW D, NEW i, NEW s, NEW k \in Nat,
         IsFiniteSet(G), IsFiniteSet(C), s \in C,
         H \subseteq G \cup {i}, D = C \ {s},
         Cardinality(G) + Cardinality(C) <= k
  PROVE  Cardinality(H) + Cardinality(D) <= k
<1>1. /\ IsFiniteSet(G \cup {i})
      /\ Cardinality(G \cup {i}) = IF i \in G THEN Cardinality(G) ELSE Cardinality(G) + 1
  BY FS_AddElement, Zenon
<1>2. IsFiniteSet(H) /\ Cardinality(H) <= Cardinality(G \cup {i})
  BY <1>1, FS_Subset
<1>3. IsFiniteSet(D) /\ Cardinality(D) = Cardinality(C) - 1
  BY FS_RemoveElement
<1>4. /\ Cardinality(G) \in Nat /\ Cardinality(C) \in Nat
      /\ Cardinality(H) \in Nat /\ Cardinality(D) \in Nat
      /\ Cardinality(G \cup {i}) \in Nat
  BY <1>1, <1>2, <1>3, FS_CardinalityType
<1> QED
  BY <1>1, <1>2, <1>3, <1>4

\* A step that adds neither rows nor claims of the name keeps within the budget.
LEMMA NothingAdded ==
  ASSUME NEW G, NEW H, NEW C, NEW D, NEW k \in Nat,
         IsFiniteSet(G), IsFiniteSet(C), H \subseteq G, D \subseteq C,
         Cardinality(G) + Cardinality(C) <= k
  PROVE  Cardinality(H) + Cardinality(D) <= k
<1>1. IsFiniteSet(H) /\ Cardinality(H) <= Cardinality(G)
  BY FS_Subset
<1>2. IsFiniteSet(D) /\ Cardinality(D) <= Cardinality(C)
  BY FS_Subset
<1>3. /\ Cardinality(G) \in Nat /\ Cardinality(C) \in Nat
      /\ Cardinality(H) \in Nat /\ Cardinality(D) \in Nat
  BY <1>1, <1>2, FS_CardinalityType
<1> QED
  BY <1>1, <1>2, <1>3

\* Rows and claims of a name are finitely many, and claims at most the slots.
LEMMA Finite ==
  ASSUME NEW n
  PROVE  /\ IsFiniteSet(getByCompanyName(n)) /\ IsFiniteSet(Claims(n))
         /\ Cardinality(Claims(n)) <= Cardinality(Slots)
         /\ Cardinality(Slots) \in Nat
<1>1. getByCompanyName(n) \in SUBSET Ids /\ Claims(n) \in SUBSET Slots
  BY DEF getByCompanyName, Claims
<1> QED
  BY <1>1, FS_Subset, FS_CardinalityType, IdsAssumption, SlotsAssumption

\* A handler that ends gives up its claim, if it had one.
LEMMA FinishClaims ==
  ASSUME TypeOK, NEW s \in Slots, NEW code, Finish(s, code), NEW n
  PROVE  Claims(n)' = Claims(n) \ {s}
  BY DEF TypeOK, Finish, Claims

\* A handler that passes the test takes a claim while the name is free.
LEMMA CheckNameBudget ==
  ASSUME TypeOK, NameBudget, NEW s \in Slots, NEW query \in {"create", "update"},
         NEW req \in Request, CheckName(s, query, req)
  PROVE  NameBudget'
<1> SUFFICES ASSUME NEW n \in Names
             PROVE  Cardinality(getByCompanyName(n)') + Cardinality(Claims(n)')
                        <= Cardinality(Slots)
  BY DEF NameBudget
<1>1. getByCompanyName(n)' = getByCompanyName(n)
  BY DEF CheckName, getByCompanyName
<1>2. CASE Finish(s, None) \/ Finish(s, 409)
  <2>1. Claims(n)' \subseteq Claims(n)
    BY <1>2, FinishClaims
  <2> QED
    BY <1>1, <2>1, Finite, NothingAdded DEF NameBudget
<1>3. CASE getByCompanyName(req.body.company_name) = {} /\ Await(s, query, req)
  <2>1. CASE n = req.body.company_name
    <3>1. Claims(n)' \in SUBSET Slots
      BY DEF Claims
    <3>2. IsFiniteSet(Claims(n)') /\ Cardinality(Claims(n)') <= Cardinality(Slots)
      BY <3>1, FS_Subset, SlotsAssumption
    <3>3. Cardinality(getByCompanyName(n)') = 0
      BY <1>1, <1>3, <2>1, FS_EmptySet
    <3> QED
      BY <3>2, <3>3, FS_CardinalityType
  <2>2. CASE n # req.body.company_name
    <3>1. Claims(n)' \subseteq Claims(n)
      BY <1>3, <2>2 DEF Await, Claims, TypeOK
    <3> QED
      BY <1>1, <3>1, Finite, NothingAdded DEF NameBudget
  <2> QED
    BY <2>1, <2>2
<1> QED
  BY <1>2, <1>3 DEF CheckName

\* Every step of a handler keeps every name within its budget.
LEMMA StepBudget ==
  ASSUME TypeOK, NameBudget, [Next]_vars
  PROVE  NameBudget'
<1>0. CASE UNCHANGED vars
  BY <1>0 DEF vars, NameBudget, getByCompanyName, Claims
<1> SUFFICES ASSUME NEW s \in Slots,
                    \/ createCheck(s) \/ createInsert(s) \/ updateCheck(s)
                    \/ updateWrite(s) \/ delete(s) \/ getAll(s) \/ reject(s)
             PROVE  NameBudget'
  BY <1>0 DEF Next
<1>1. CASE createCheck(s)
  <2>1. PICK body \in Body : CheckName(s, "create", [id |-> Absent, body |-> body])
    BY <1>1 DEF createCheck
  <2>2. [id |-> Absent, body |-> body] \in Request
    BY DEF Request
  <2> QED
    BY <2>1, <2>2, CheckNameBudget
<1>2. CASE updateCheck(s)
  <2>1. PICK i \in Ids, body \in Body : CheckName(s, "update", [id |-> i, body |-> body])
    BY <1>2 DEF updateCheck
  <2>2. [id |-> i, body |-> body] \in Request
    BY DEF Request
  <2> QED
    BY <2>1, <2>2, CheckNameBudget
<1> SUFFICES ASSUME NEW n \in Names,
                    \/ createInsert(s) \/ updateWrite(s)
                    \/ delete(s) \/ getAll(s) \/ reject(s)
             PROVE  Cardinality(getByCompanyName(n)') + Cardinality(Claims(n)')
                        <= Cardinality(Slots)
  BY <1>1, <1>2 DEF NameBudget
<1>3. Claims(n)' = Claims(n) \ {s}
  <2>1. \E code \in {None, 200, 400, 409} : Finish(s, code)
    BY DEF createInsert, updateWrite, delete, getAll, reject, Answer
  <2> QED
    BY <2>1, FinishClaims
<1>4. CASE getByCompanyName(n)' \subseteq getByCompanyName(n)
  BY <1>3, <1>4, Finite, NothingAdded DEF NameBudget
<1>5. /\ IsFiniteSet(getByCompanyName(n)) /\ IsFiniteSet(Claims(n))
      /\ Cardinality(getByCompanyName(n)) + Cardinality(Claims(n)) <= Cardinality(Slots)
      /\ Cardinality(Slots) \in Nat
  BY Finite DEF NameBudget
<1>6. CASE createInsert(s)
  <2>1. PICK i \in InsertKeys(company, request[s].body.id) :
           company' = insert(company, i, NewDoc(request[s].body))
    BY <1>6 DEF createInsert
  <2>2. CASE n = request[s].body.company_name
    <3>1. s \in Claims(n)
      BY <1>6, <2>2 DEF createInsert, Claims
    <3>2. getByCompanyName(n)' \subseteq getByCompanyName(n) \cup {i}
      BY <2>1 DEF insert, getByCompanyName, TypeOK
    <3> QED
      BY <1>3, <1>5, <3>1, <3>2, ClaimUsed, Zenon
  <2>3. CASE n # request[s].body.company_name
    <3>1. getByCompanyName(n)' \subseteq getByCompanyName(n)
      BY <2>1, <2>3 DEF insert, NewDoc, getByCompanyName, TypeOK
    <3> QED
      BY <1>4, <3>1
  <2> QED
    BY <2>2, <2>3
<1>7. CASE updateWrite(s)
  <2> DEFINE id == request[s].id
             body == request[s].body
  <2>1. body.company_name # Absent
    BY <1>7, Distinct DEF updateWrite, TypeOK
  <2>2. CASE ~Updatable(company, id, body.id)
    <3>1. getByCompanyName(n)' \subseteq getByCompanyName(n)
      BY <1>7, <2>2 DEF updateWrite, getByCompanyName
    <3> QED
      BY <1>4, <3>1
  <2>3. CASE Updatable(company, id, body.id)
    <3>1. company' = [company EXCEPT ![id] = Patched(company[id], body)]
      BY <1>7, <2>3 DEF updateWrite
    <3>2. Patched(company[id], body).company_name = body.company_name
      BY <2>1 DEF Patched, Merged
    <3>3. CASE n = body.company_name
      <4>1. s \in Claims(n)
        BY <1>7, <3>3 DEF updateWrite, Claims
      <4>2. PICK i : getByCompanyName(n)' \subseteq getByCompanyName(n) \cup {i}
        BY <3>1 DEF getByCompanyName, TypeOK
      <4> QED
        BY <1>3, <1>5, <4>1, <4>2, ClaimUsed, Zenon
    <3>4. CASE n # body.company_name
      <4>1. getByCompanyName(n)' \subseteq getByCompanyName(n)
        BY <3>1, <3>2, <3>4 DEF getByCompanyName, TypeOK
      <4> QED
        BY <1>4, <4>1
    <3> QED
      BY <3>3, <3>4
  <2> QED
    BY <2>2, <2>3
<1>8. CASE delete(s)
  <2>1. PICK i \in Ids : company' = IF company[i] = NoDoc THEN company
                                    ELSE [company EXCEPT ![i].status = "Inactive"]
    BY <1>8 DEF delete
  <2>2. CASE company[i] = NoDoc
    BY <1>4, <2>1, <2>2 DEF getByCompanyName
  <2>3. CASE company[i] # NoDoc
    <3>1. company[i] \in Doc
      BY <2>3 DEF TypeOK
    <3>2. company' = [company EXCEPT ![i] = [company[i] EXCEPT !.status = "Inactive"]]
      BY <2>1, <2>3
    <3>3. [company[i] EXCEPT !.status = "Inactive"].status = "Inactive"
      BY <3>1 DEF Doc
    <3>4. getByCompanyName(n)' \subseteq getByCompanyName(n)
      BY <3>2, <3>3 DEF getByCompanyName, TypeOK
    <3> QED
      BY <1>4, <3>4
  <2> QED
    BY <2>2, <2>3
<1>9. CASE getAll(s) \/ reject(s)
  BY <1>4, <1>9 DEF getAll, reject, getByCompanyName
<1> QED
  BY <1>6, <1>7, <1>8, <1>9

\* NameBudget is an invariant: create and update of controller/company.js test
\* for the name and write it in two queries, and yet the active companies of a
\* name and the handlers about to write it never outnumber the handlers that
\* are in flight together.
THEOREM BudgetKept == Spec => []NameBudget
<1>1. Init => NameBudget
  <2> SUFFICES ASSUME Init, NEW n \in Names
               PROVE  Cardinality(getByCompanyName(n)) + Cardinality(Claims(n))
                          <= Cardinality(Slots)
    BY DEF NameBudget
  <2>1. getByCompanyName(n) = {} /\ Claims(n) = {}
    BY DEF Init, getByCompanyName, Claims
  <2> QED
    BY <2>1, FS_EmptySet, FS_CardinalityType, SlotsAssumption
<1> QED
  BY <1>1, StepBudget, TypeCorrect, PTL DEF Spec

(* ----------------------------- what is stored --------------------------- *)

\* NeverErased holds: delete of controller/company.js is a soft delete, and no
\* other handler takes a row out of the table either.
THEOREM RowsStay == Spec => NeverErased
<1>1. TypeOK /\ TypeOK' /\ [Next]_vars => [Stored(company) \subseteq Stored(company')]_vars
  <2> SUFFICES ASSUME TypeOK, TypeOK', NEW s \in Slots,
                      \/ createCheck(s) \/ createInsert(s) \/ updateCheck(s)
                      \/ updateWrite(s) \/ delete(s) \/ getAll(s) \/ reject(s),
                      NEW i \in Ids, company[i] # NoDoc
               PROVE  company'[i] # NoDoc
    BY DEF Next, Stored
  <2>1. CASE createCheck(s) \/ updateCheck(s) \/ getAll(s) \/ reject(s)
    BY <2>1 DEF createCheck, updateCheck, CheckName, getAll, reject
  <2>2. CASE createInsert(s)
    BY <2>2 DEF createInsert, insert, TypeOK
  <2>3. CASE updateWrite(s)
    <3>1. request[s].id \in Ids
      BY <2>3 DEF updateWrite, TypeOK
    <3>2. CASE i = request[s].id /\ Updatable(company, i, request[s].body.id)
      <4>1. company'[i] = Patched(company[i], request[s].body)
        BY <2>3, <3>2 DEF updateWrite, TypeOK
      <4>2. Patched(company[i], request[s].body) \in Doc
        BY <2>3, <3>1 DEF updateWrite, TypeOK, Patched, Merged, Doc, Request, Body, Statuses
      <4> QED
        BY <4>1, <4>2, Distinct
    <3>3. CASE i # request[s].id \/ ~Updatable(company, i, request[s].body.id)
      BY <2>3, <3>1, <3>3 DEF updateWrite, TypeOK
    <3> QED
      BY <3>2, <3>3
  <2>4. CASE delete(s)
    <3>1. PICK k \in Ids : company' = IF company[k] = NoDoc THEN company
                                      ELSE [company EXCEPT ![k].status = "Inactive"]
      BY <2>4 DEF delete
    <3>2. company[k] \in Doc => [company[k] EXCEPT !.status = "Inactive"] \in Doc
      BY DEF Doc, Statuses
    <3> QED
      BY <3>1, <3>2, Distinct DEF TypeOK
  <2> QED
    BY <2>1, <2>2, <2>3, <2>4
<1> QED
  BY <1>1, TypeCorrect, PTL DEF Spec, NeverErased

(* ------------------------------ the registry ---------------------------- *)

\* A handler that is about to write a name finds room for it: its own claim is
\* part of the name's budget.
LEMMA RoomForClaim ==
  ASSUME TypeOK, NameBudget, NEW s \in Slots, pc[s] # "idle"
  PROVE  Cardinality(getByCompanyName(request[s].body.company_name)) < Cardinality(Slots)
<1> DEFINE n == request[s].body.company_name
<1>1. n \in Names
  BY DEF TypeOK
<1>2. s \in Claims(n)
  BY DEF Claims
<1> HIDE DEF n
<1>3. IsFiniteSet(Claims(n) \ {s}) /\ Cardinality(Claims(n) \ {s}) = Cardinality(Claims(n)) - 1
  BY <1>2, Finite, FS_RemoveElement
<1>4. /\ Cardinality(Claims(n)) \in Nat /\ Cardinality(Claims(n) \ {s}) \in Nat
      /\ Cardinality(getByCompanyName(n)) \in Nat /\ Cardinality(Slots) \in Nat
  BY <1>3, Finite, FS_CardinalityType
<1>5. Cardinality(getByCompanyName(n)) + Cardinality(Claims(n)) <= Cardinality(Slots)
  BY <1>1 DEF NameBudget
<1>6. Cardinality(getByCompanyName(n)) < Cardinality(Slots)
  BY <1>3, <1>4, <1>5
<1> QED
  BY <1>6 DEF n

\* ImplementsRegistry holds: every answer, failure and lost answer of the
\* handlers of controller/company.js is a write of the registry, made while
\* there is room for the name, or no write.
THEOREM HandlersImplementRegistry == Spec => ImplementsRegistry
<1>1. Init => Registry!Init
  BY DEF Init, Registry!Init
<1>2. TypeOK /\ NameBudget /\ [Next]_vars => [Registry!Next]_company
  <2> SUFFICES ASSUME TypeOK, NameBudget, NEW s \in Slots,
                      \/ createCheck(s) \/ createInsert(s) \/ updateCheck(s)
                      \/ updateWrite(s) \/ delete(s) \/ getAll(s) \/ reject(s),
                      company' # company
               PROVE  Registry!Next
    BY DEF Next, vars
  <2>0. \A n : Registry!Cardinality(Registry!Active(n)) = Cardinality(getByCompanyName(n))
    BY DEF Registry!Active, getByCompanyName, Registry!Cardinality, Cardinality
  <2>1. CASE createInsert(s)
    <3> DEFINE doc == NewDoc(request[s].body)
    <3>1. PICK i \in InsertKeys(company, request[s].body.id) : company' = insert(company, i, doc)
      BY <2>1 DEF createInsert
    <3>2. i \in Ids /\ doc \in Registry!Doc
      BY <2>1 DEF createInsert, InsertKeys, TypeOK, Request, Body, NewDoc, Registry!Doc, Statuses
    <3>3. doc.company_name = request[s].body.company_name
      BY DEF NewDoc
    <3>4. Registry!Cardinality(Registry!Active(doc.company_name)) < Cardinality(Slots)
      BY <2>0, <2>1, <3>3, RoomForClaim DEF createInsert
    <3> HIDE DEF doc
    <3> QED
      BY <3>1, <3>2, <3>4 DEF insert, Registry!Next, Registry!Store
  <2>2. CASE updateWrite(s)
    <3> DEFINE i == request[s].id
               doc == Patched(company[i], request[s].body)
    <3>1. Updatable(company, i, request[s].body.id) /\ company' = [company EXCEPT ![i] = doc]
      BY <2>2 DEF updateWrite
    <3>2. i \in Ids /\ doc \in Registry!Doc
      BY <2>2, <3>1 DEF updateWrite, Updatable, TypeOK, Patched, Merged,
                        Doc, Request, Body, Statuses, Registry!Doc
    <3>3. doc.company_name = request[s].body.company_name
      BY <2>2, Distinct DEF updateWrite, TypeOK, Patched, Merged
    <3>4. Registry!Cardinality(Registry!Active(doc.company_name)) < Cardinality(Slots)
      BY <2>0, <2>2, <3>3, RoomForClaim DEF updateWrite
    <3> HIDE DEF doc
    <3> QED
      BY <3>1, <3>2, <3>4 DEF Registry!Next, Registry!Store
  <2>3. CASE delete(s)
    BY <2>3 DEF delete, Registry!Next, Registry!Deactivate
  <2> QED
    BY <2>1, <2>2, <2>3 DEF createCheck, updateCheck, CheckName, getAll, reject
<1> QED
  BY <1>1, <1>2, TypeCorrect, BudgetKept, PTL DEF Spec, ImplementsRegistry, Registry!Spec
==============================================================================
