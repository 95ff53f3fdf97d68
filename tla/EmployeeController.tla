------------------------- MODULE EmployeeController --------------------------
(***************************************************************************)
(* The employee routes (router/employee.js, controller/employee.js,         *)
(* model/employee.js), with the same handlers in flight as in               *)
(* CompanyController.  An employee is a conflict when some active employee  *)
(* of that name has the position and some active employee of that name has  *)
(* the company: the code tests two lists, not one row.                      *)
(***************************************************************************)
EXTENDS Handlers

CONSTANTS Names, Positions, Companies,
          BodyIds,         \* the primary keys a body may carry
          PartialUpdates   \* may a PUT leave out the position or the company?

VARIABLES employee, pc, request, response
vars == <<employee, pc, request, response>>

Statuses == {"Active", "Inactive", Absent}
Doc == [employee_name : Names, employee_position : Positions \cup {Absent},
        company_name : Companies \cup {Absent}, status : Statuses]
Body == [id : BodyIds, employee_name : Names \cup {Absent},
         employee_position : Positions \cup {Absent},
         company_name : Companies \cup {Absent}, status : Statuses]
FullBody == {b \in Body : Absent \notin {b.employee_position, b.company_name}}
Request == [id : Ids \cup {Absent}, body : Body]

getByEmployeeName(name) ==
    {i \in Ids : /\ employee[i] # NoDoc
                 /\ employee[i].employee_name = name
                 /\ employee[i].status = "Active"}

\* get_employees_positions.includes(...) && get_employees_company.includes(...)
Conflict(body) ==
    LET employee_by_name == getByEmployeeName(body.employee_name)
    IN  /\ \E i \in employee_by_name : employee[i].employee_position = body.employee_position
        /\ \E i \in employee_by_name : employee[i].company_name = body.company_name

Init == /\ employee = [i \in Ids |-> NoDoc]
        /\ pc = [s \in Slots |-> "idle"]
        /\ request = [s \in Slots |-> None]
        /\ response = [s \in Slots |-> None]

Finish(s, code) == /\ pc' = [pc EXCEPT ![s] = "idle"]
                   /\ request' = [request EXCEPT ![s] = None]
                   /\ response' = [response EXCEPT ![s] = code]

Await(s, query, req) == /\ pc' = [pc EXCEPT ![s] = query]
                        /\ request' = [request EXCEPT ![s] = req]
                        /\ response' = [response EXCEPT ![s] = None]

Answer(s, code) == Finish(s, code) \/ Finish(s, None)

\* Mutant: no test for a conflict before the write.
CheckEmployeeNoTest(s, query, req) ==
    /\ pc[s] = "idle"
    /\ req.body.employee_name # Absent
    /\ Await(s, query, req)
    /\ UNCHANGED employee

\* create and update up to their second query.
CheckEmployee(s, query, req) ==
    /\ pc[s] = "idle"
    /\ \/ req.body.employee_name = Absent /\ Finish(s, None)
       \/ req.body.employee_name # Absent /\ Conflict(req.body) /\ Finish(s, 409)
       \/ req.body.employee_name # Absent /\ ~Conflict(req.body) /\ Await(s, query, req)
    /\ UNCHANGED employee

createCheck(s) ==
    \E body \in Body : CheckEmployee(s, "create", [id |-> Absent, body |-> body])

NewDoc(body) ==
    [employee_name |-> body.employee_name, employee_position |-> body.employee_position,
     company_name |-> body.company_name, status |-> body.status]

createInsert(s) ==
    LET body == request[s].body
    IN  /\ pc[s] = "create"
        /\ \E i \in InsertKeys(employee, body.id) :
              employee' = insert(employee, i, NewDoc(body))
        /\ Answer(s, 200)

\* Mutant: the handler loses the id parameter across the await.
updateCheckNoId(s) ==
    \E body \in FullBody : CheckEmployee(s, "update", [id |-> Absent, body |-> body])

updateCheck(s) ==
    \E i \in Ids, body \in IF PartialUpdates THEN Body ELSE FullBody :
        CheckEmployee(s, "update", [id |-> i, body |-> body])

Patched(doc, body) ==
    [employee_name     |-> Merged(doc.employee_name, body.employee_name),
     employee_position |-> Merged(doc.employee_position, body.employee_position),
     company_name      |-> Merged(doc.company_name, body.company_name),
     status            |-> Merged(doc.status, body.status)]

\* Employee.update(id, req.body); unlike for a company, the answer is always 200.
updateWrite(s) ==
    LET id   == request[s].id
        body == request[s].body
    IN  /\ pc[s] = "update"
        /\ employee' = IF Updatable(employee, id, body.id)
                       THEN [employee EXCEPT ![id] = Patched(employee[id], body)]
                       ELSE employee
        /\ Answer(s, 200)

delete(s) ==
    /\ pc[s] = "idle"
    /\ \E i \in Ids :
          employee' = IF employee[i] = NoDoc THEN employee
                      ELSE [employee EXCEPT ![i].status = "Inactive"]
    /\ Answer(s, 200)

getAllEmployee(s) == pc[s] = "idle" /\ UNCHANGED employee /\ Answer(s, 200)

\* GET /api/employees/:company.  The handler calls Employee.getByCompany()
\* without its argument; the filter then has an undefined field, which the
\* driver refuses, and the handler rejects without an answer.
getByCompany(s) ==
    /\ pc[s] = "idle"
    /\ Await(s, "getByCompany", None)
    /\ UNCHANGED employee

reject(s) == pc[s] # "idle" /\ UNCHANGED employee /\ Finish(s, None)

Next == \E s \in Slots : \/ createCheck(s) \/ createInsert(s)
                         \/ updateCheck(s) \/ updateWrite(s)
                         \/ delete(s) \/ getAllEmployee(s)
                         \/ getByCompany(s) \/ reject(s)

Spec == Init /\ [][Next]_vars
------------------------------------------------------------------------------
\* Type correctness: rows always have an employee_name, and a handler that
\* awaits its write holds on to the request it is going to write.
TypeOK == /\ employee \in [Ids -> Doc \cup {NoDoc}]
          /\ pc \in [Slots -> {"idle", "create", "update", "getByCompany"}]
          /\ request \in [Slots -> Request \cup {None}]
          /\ response \in [Slots -> {None, 200, 409}]
          /\ \A s \in Slots :
                pc[s] \in {"create", "update"} =>
                    /\ request[s] \in Request
                    /\ request[s].body.employee_name \in Names
                    /\ pc[s] = "update" => request[s].id \in Ids

\* The active employees with the name, position and company of d.
Same(d) == {i \in getByEmployeeName(d.employee_name) :
               /\ employee[i].employee_position = d.employee_position
               /\ employee[i].company_name = d.company_name}

Claims(d) == {s \in Slots : /\ pc[s] \in {"create", "update"}
                            /\ request[s].body.employee_name = d.employee_name
                            /\ request[s].body.employee_position = d.employee_position
                            /\ request[s].body.company_name = d.company_name}

\* When every PUT carries all three fields, the two-list test is at least as
\* strict as a test of one row: active copies of an employee and the handlers
\* about to write one never exceed the handlers in flight together.
EmployeeBudget ==
    \A d \in {d \in Doc : d.status = "Active"} :
        Cardinality(Same(d)) + Cardinality(Claims(d)) <= Cardinality(Slots)

\* No two active employees agree in name, position and company: what answering
\* 409 'Employee Already Exist!' is there for.
UniqueActiveEmployees == \A d \in Doc : \A i, j \in Same(d) : i = j
==============================================================================
