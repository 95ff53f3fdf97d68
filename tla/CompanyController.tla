-------------------------- MODULE CompanyController --------------------------
(***************************************************************************)
(* The company routes (router/company.js, controller/company.js,            *)
(* model/company.js).  create and update test for the name in one query and *)
(* write in another; Handlers says what an action is.                       *)
(***************************************************************************)
EXTENDS Handlers

CONSTANT Names

ASSUME AbsentAssumption == /\ Absent \notin Ids \cup Names
                           /\ Absent \notin {"Active", "Inactive"}

VARIABLES company,   \* the table 'company'
          pc,        \* what each handler awaits
          request,   \* the id parameter and body a handler holds on to
          response   \* the status code the slot's last request was answered with

vars == <<company, pc, request, response>>

Statuses == {"Active", "Inactive", Absent}
Doc == [company_name : Names, status : Statuses]
ASSUME NoDocAssumption == NoDoc \notin Doc

Body == [id : Ids \cup {Absent}, company_name : Names \cup {Absent}, status : Statuses]
Request == [id : Ids \cup {Absent}, body : Body]
ASSUME NoneAssumption == None \notin Request /\ None \notin {200, 400, 409}

\* The rows getByCompanyName(name) finds.
getByCompanyName(name) ==
    {i \in Ids : /\ company[i] # NoDoc
                 /\ company[i].company_name = name
                 /\ company[i].status = "Active"}

Init == /\ company = [i \in Ids |-> NoDoc]
        /\ pc = [s \in Slots |-> "idle"]
        /\ request = [s \in Slots |-> None]
        /\ response = [s \in Slots |-> None]

\* The handler ends; code None means that no answer is ever sent.
Finish(s, code) == /\ pc' = [pc EXCEPT ![s] = "idle"]
                   /\ request' = [request EXCEPT ![s] = None]
                   /\ response' = [response EXCEPT ![s] = code]

Await(s, query, req) == /\ pc' = [pc EXCEPT ![s] = query]
                        /\ request' = [request EXCEPT ![s] = req]
                        /\ response' = [response EXCEPT ![s] = None]

\* The answer reaches the client unless the query's promise rejects although
\* the database has executed it (a lost connection): no handler catches that.
Answer(s, code) == Finish(s, code) \/ Finish(s, None)

\* Mutant: no test for a conflicting name before the write.
CheckNameNoTest(s, query, req) ==
    /\ pc[s] = "idle"
    /\ req.body.company_name # Absent
    /\ Await(s, query, req)
    /\ UNCHANGED company

\* create and update up to their second query.  Without a company_name the
\* driver refuses to build the filter and the handler rejects unanswered.
CheckName(s, query, req) ==
    /\ pc[s] = "idle"
    /\ \/ req.body.company_name = Absent /\ Finish(s, None)
       \/ /\ req.body.company_name # Absent
          /\ getByCompanyName(req.body.company_name) # {}
          /\ Finish(s, 409)
       \/ /\ req.body.company_name # Absent
          /\ getByCompanyName(req.body.company_name) = {}
          /\ Await(s, query, req)
    /\ UNCHANGED company

createCheck(s) ==
    \E body \in Body : CheckName(s, "create", [id |-> Absent, body |-> body])

NewDoc(body) == [company_name |-> body.company_name, status |-> body.status]

\* Company.create(req.body); the answer is 200 whatever the insert reports.
createInsert(s) ==
    LET body == request[s].body
    IN  /\ pc[s] = "create"
        /\ \E i \in InsertKeys(company, body.id) :
              company' = insert(company, i, NewDoc(body))
        /\ Answer(s, 200)

\* Mutant: the handler loses the id parameter across the await.
updateCheckNoId(s) ==
    \E body \in Body : CheckName(s, "update", [id |-> Absent, body |-> body])

updateCheck(s) ==
    \E i \in Ids, body \in Body : CheckName(s, "update", [id |-> i, body |-> body])

Patched(doc, body) ==
    [company_name |-> Merged(doc.company_name, body.company_name),
     status       |-> Merged(doc.status, body.status)]

\* Company.update(id, req.body).  The database counts the row as `replaced`
\* only when some field changes; the fields the model leaves out may.
updateWrite(s) ==
    LET id   == request[s].id
        body == request[s].body
    IN  /\ pc[s] = "update"
        /\ \/ /\ Updatable(company, id, body.id)
              /\ company' = [company EXCEPT ![id] = Patched(company[id], body)]
              /\ Answer(s, 200) \/ (company' = company /\ Answer(s, 400))
           \/ /\ ~Updatable(company, id, body.id)
              /\ UNCHANGED company
              /\ Answer(s, 400)

\* Mutant: the row is taken out of the table.
deleteRow(s) ==
    /\ pc[s] = "idle"
    /\ \E i \in Ids : company' = [company EXCEPT ![i] = NoDoc]
    /\ Answer(s, 200)

\* delete is a soft delete and answers 200 for an unknown id, too.
delete(s) ==
    /\ pc[s] = "idle"
    /\ \E i \in Ids :
          company' = IF company[i] = NoDoc THEN company
                     ELSE [company EXCEPT ![i].status = "Inactive"]
    /\ Answer(s, 200)

getAll(s) == pc[s] = "idle" /\ UNCHANGED company /\ Answer(s, 200)

\* The awaited query's promise rejects and the query never takes effect.
reject(s) == pc[s] # "idle" /\ UNCHANGED company /\ Finish(s, None)

Next == \E s \in Slots : \/ createCheck(s) \/ createInsert(s)
                         \/ updateCheck(s) \/ updateWrite(s)
                         \/ delete(s) \/ getAll(s) \/ reject(s)

Spec == Init /\ [][Next]_vars
------------------------------------------------------------------------------
\* Type correctness: rows always have a company_name (a handler without one
\* never gets to its write), and a handler that awaits its write holds on to the
\* request it is going to write.
TypeOK == /\ company \in [Ids -> Doc \cup {NoDoc}]
          /\ pc \in [Slots -> {"idle", "create", "update"}]
          /\ request \in [Slots -> Request \cup {None}]
          /\ response \in [Slots -> {None, 200, 400, 409}]
          /\ \A s \in Slots :
                pc[s] # "idle" => /\ request[s] \in Request
                                  /\ request[s].body.company_name \in Names
                                  /\ pc[s] = "update" => request[s].id \in Ids

\* The handlers that have passed the test for a conflicting name and will
\* still write that name.
Claims(n) == {s \in Slots : pc[s] # "idle" /\ request[s].body.company_name = n}

\* The test of create and update and their write are two queries, so several
\* handlers can pass the test before one of them writes.  Each active company
\* beyond the first was claimed while no active company had its name: active
\* companies and outstanding claims of a name never exceed the handlers that
\* can be in flight together.
NameBudget ==
    \A n \in Names : Cardinality(getByCompanyName(n)) + Cardinality(Claims(n))
                        <= Cardinality(Slots)

\* No two active companies share a name: what answering 409 'Company Already
\* Exist!' is there for.
UniqueActiveNames ==
    \A n \in Names : \A i, j \in getByCompanyName(n) : i = j

\* What the company API promises when it handles that many requests at once.
Registry == INSTANCE CompanyRegistry WITH Copies <- Cardinality(Slots)

\* The handlers implement the registry: whatever the interleaving, every write
\* is one atomic step of it, made while the name has fewer active companies
\* than there are handlers in flight.  A backend that handles one request at a
\* time never stores a name that is taken.
ImplementsRegistry == Registry!Spec

\* delete is a soft delete: no handler, and no interleaving of handlers,
\* takes a stored row out of the table or gives it another key.
NeverErased == [][Stored(company) \subseteq Stored(company')]_vars
==============================================================================
