------------------------------ MODULE Workflow ------------------------------
(***************************************************************************)
(* The two Frappe workflows the app ships as fixtures (fixtures/workflow   *)
(* .json), the roles that may take each transition, and the archetype      *)
(* states of a loan application (a2c_marketplace/stages.py).               *)
(*                                                                         *)
(* A workflow is a set of edges <<state, next_state, allowed role>>.  The  *)
(* fixture is what an installed site runs: it is synced after the patches, *)
(* so it has the last word on the transitions.                             *)
(***************************************************************************)

(* roles.py.  "Admin" is the app role "A2C Administrator", not Frappe's    *)
(* superuser.                                                              *)
DevAgent  == "DevAgent"
Farmer    == "Farmer"
BankAgent == "BankAgent"
BankAdmin == "BankAdmin"
Admin     == "Admin"

BankRoles == {BankAgent, BankAdmin}
Roles     == {DevAgent, Farmer, Admin} \cup BankRoles

(* "absent" stands for a row that is not in its table.                     *)
Absent == "absent"

LeadStates == {"Active", "Verified", "Processed", "Granted", "Rejected", "Dormant"}

ArchetypeStates     == {"Active", "In Transition", "Completed", "Rejected", "Cancelled"}
TerminalArchetypes  == {"Completed", "Rejected", "Cancelled"}
SuccessfulArchetypes == {"Completed"}

LeadWorkflow ==
    { <<"Active",    "Verified",  DevAgent>>,
      <<"Verified",  "Processed", DevAgent>>,
      <<"Active",    "Rejected",  DevAgent>>,
      <<"Verified",  "Rejected",  DevAgent>>,
      <<"Active",    "Dormant",   DevAgent>>,
      <<"Verified",  "Dormant",   DevAgent>>,
      <<"Dormant",   "Active",    DevAgent>> }
    \cup ({"Processed"} \X {"Granted", "Rejected"} \X BankRoles)

LoanWorkflow ==
    ({"Active"} \X {"In Transition"} \X {DevAgent, Farmer})
    \cup ({"In Transition"} \X {"Completed", "Rejected"} \X BankRoles)

(* resolve_workflow_transition: the transition exists in the workflow and  *)
(* one of its rows is allowed for the caller's role.                       *)
TransitionAllowed(workflow, current, target, role) ==
    <<current, target, role>> \in workflow

DocStatusRefusals(state) == IF state = "Rejected" THEN 1 ELSE 0  \* mutant

(* The docstatus the fixture gives a loan state: 1 is submitted, which     *)
(* Frappe refuses to save again or to delete.                              *)
DocStatus(state) == IF state \in {"Completed", "Rejected"} THEN 1
                    ELSE IF state = "Cancelled" THEN 2 ELSE 0

GrantAlways(archetype) == "Granted"    \* mutant: the outcome is not looked at
MirrorLoanState(archetype) == archetype  \* mutant: the loan's word is copied

(* _LEAD_SYNC_PATHS: where the lead of a decided loan ends up.  Only a     *)
(* Verified or Processed lead has a path.                                  *)
LeadSyncTarget(archetype) ==
    IF archetype \in SuccessfulArchetypes THEN "Granted" ELSE "Rejected"
LeadSyncable == {"Verified", "Processed"}
=============================================================================
