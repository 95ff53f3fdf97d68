------------------------------- MODULE MCRoutes ------------------------------
(***************************************************************************)
(* Small instances of CompanyController, UserController and                 *)
(* EmployeeController.  The routes share no state, so a behaviour exercises *)
(* one of them: `route` is chosen in the initial state.                     *)
(***************************************************************************)
EXTENDS CompanyController, UserController, TLC

CONSTANTS EmployeeIds, EmployeeNames, Positions, Companies

VARIABLES route,
          employee, employee_pc, employee_request, employee_response
employee_vars == <<employee, employee_pc, employee_request, employee_response>>

\* Bodies leave the primary key to the database, and every PUT carries the name,
\* the position and the company.
Employee == INSTANCE EmployeeController
                WITH Ids <- EmployeeIds, Names <- EmployeeNames,
                     BodyIds <- {Absent}, PartialUpdates <- FALSE,
                     pc <- employee_pc, request <- employee_request,
                     response <- employee_response

RouteInit == /\ route \in {"company", "user", "employee"}
             /\ Init /\ UserInit /\ Employee!Init

RouteNext ==
    /\ UNCHANGED route
    /\ \/ route = "company" /\ Next /\ UNCHANGED <<user_vars, employee_vars>>
       \/ route = "user" /\ UserNext /\ UNCHANGED <<vars, employee_vars>>
       \/ route = "employee" /\ Employee!Next /\ UNCHANGED <<vars, user_vars>>

RouteSpec == RouteInit /\ [][RouteNext]_<<vars, user_vars, employee_vars, route>>

Symmetry == Permutations(Ids) \cup Permutations(Names) \cup Permutations(Slots)

\* Type correctness of the employee handlers' state.
EmployeeTypeOK == Employee!TypeOK

\* EmployeeController's EmployeeBudget, for PUTs that carry all three fields.
EmployeeBudget == Employee!EmployeeBudget
==============================================================================
