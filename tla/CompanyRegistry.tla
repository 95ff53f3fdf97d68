-------------------------- MODULE CompanyRegistry ---------------------------
(***************************************************************************)
(* The promise of the company API: a company is stored under a name, or     *)
(* given one, only while fewer than Copies active companies have that name, *)
(* and deleting one only takes its Active status away.  Every write is a    *)
(* single step.  With one copy the names of active companies are unique.    *)
(***************************************************************************)
EXTENDS Documents, Naturals, FiniteSets

CONSTANTS Names, Copies
VARIABLE company

Doc == [company_name : Names, status : {"Active", "Inactive", Absent}]

Active(name) == {i \in Ids : /\ company[i] # NoDoc
                             /\ company[i].company_name = name
                             /\ company[i].status = "Active"}

Init == company = [i \in Ids |-> NoDoc]

Store(i, doc) == /\ Cardinality(Active(doc.company_name)) < Copies
                 /\ company' = [company EXCEPT ![i] = doc]

Deactivate(i) == /\ company[i] # NoDoc
                 /\ company' = [company EXCEPT ![i].status = "Inactive"]

Next == \E i \in Ids : Deactivate(i) \/ \E doc \in Doc : Store(i, doc)

Spec == Init /\ [][Next]_company
==============================================================================
