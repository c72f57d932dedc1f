---------------------------- MODULE LoanContract ----------------------------
(***************************************************************************)
(* What the marketplace promises about a credit case, whatever the         *)
(* endpoints, roles, stages and consents behind it: an application is      *)
(* raised, submitted and decided once; a decision is final; the case of a  *)
(* lead is granted only in the very step that completes an application     *)
(* raised for it, and a granted case stays granted.                        *)
(***************************************************************************)
CONSTANTS Loans, Cases, NoCase

VARIABLES loan,   \* loan -> where it stands
          raised, \* loan -> the case it was raised for, NoCase for self service
          case    \* case -> "none", "open" or "granted"

vars == <<loan, raised, case>>

Init ==
    /\ loan   = [a \in Loans |-> "none"]
    /\ raised = [a \in Loans |-> NoCase]
    /\ case   = [l \in Cases |-> "none"]

Open(l) ==
    /\ case[l] = "none"
    /\ case' = [case EXCEPT ![l] = "open"]
    /\ UNCHANGED <<loan, raised>>

(* A case no loan was raised for may disappear.                            *)
Forget(l) ==
    /\ case[l] = "open"
    /\ \A a \in Loans : raised[a] # l
    /\ case' = [case EXCEPT ![l] = "none"]
    /\ UNCHANGED <<loan, raised>>

(* One loan per case; a self-service loan has none.                        *)
Raise(a, l) ==
    /\ loan[a] = "none"
    /\ l # NoCase => case[l] = "open" /\ \A b \in Loans : raised[b] # l
    /\ loan' = [loan EXCEPT ![a] = "draft"]
    /\ raised' = [raised EXCEPT ![a] = l]
    /\ UNCHANGED case

Submit(a) ==
    /\ loan[a] = "draft"
    /\ loan' = [loan EXCEPT ![a] = "submitted"]
    /\ UNCHANGED <<raised, case>>

Withdraw(a) ==
    /\ loan[a] \in {"draft", "submitted"}
    /\ loan' = [loan EXCEPT ![a] = "none"]
    /\ raised' = [raised EXCEPT ![a] = NoCase]
    /\ UNCHANGED case

Refuse(a) ==
    /\ loan[a] = "submitted"
    /\ loan' = [loan EXCEPT ![a] = "refused"]
    /\ UNCHANGED <<raised, case>>

Complete(a) ==
    /\ loan[a] = "submitted"
    /\ loan' = [loan EXCEPT ![a] = "completed"]
    /\ \/ UNCHANGED case
       \/ raised[a] # NoCase /\ case' = [case EXCEPT ![raised[a]] = "granted"]
    /\ UNCHANGED raised

Next ==
    \/ \E l \in Cases : Open(l) \/ Forget(l)
    \/ \E a \in Loans, l \in Cases \cup {NoCase} : Raise(a, l)
    \/ \E a \in Loans : Submit(a) \/ Withdraw(a) \/ Refuse(a) \/ Complete(a)

Spec == Init /\ [][Next]_vars
=============================================================================
