------------------------- MODULE ApplicationIntake -------------------------
(***************************************************************************)
(* create_loan_application called by several agents at once.  The handler  *)
(* reads the lead, takes a locking read on the applications of that lead,  *)
(* looks for one with a plain read, and inserts.  No unique index backs    *)
(* it: the lock is all there is.                                           *)
(*                                                                         *)
(* The database (external) is MariaDB 11.8, as in ci.yml: a plain read     *)
(* sees the snapshot taken by the first read of the transaction; a locking *)
(* read takes the row, exclusively, or the gap, shared with other gap      *)
(* locks, and fails when it meets a row newer than the snapshot (the       *)
(* default since 11.6, innodb_snapshot_isolation; MySQL and older versions *)
(* let it pass); an insert waits for the gap locks of others, and two that *)
(* wait for each other are a deadlock of which the database fails one.     *)
(***************************************************************************)
EXTENDS FiniteSets

CONSTANTS Requests,  \* concurrent calls
          Leads,
          LeadOf,    \* the lead each call names
          SnapshotConflicts  \* a locking read fails on a row newer than the snapshot

ASSUME IntakeAssumption == LeadOf \in [Requests -> Leads] /\ SnapshotConflicts \in BOOLEAN

VARIABLES pc,    \* where each call stands
          view,  \* the rows its snapshot shows, named by the call that wrote them
          held,  \* its lock on the applications of the lead
          row    \* the application it wrote

vars == <<pc, view, held, row>>

Init ==
    /\ pc   = [r \in Requests |-> "start"]
    /\ view = [r \in Requests |-> {}]
    /\ held = [r \in Requests |-> "none"]
    /\ row  = [r \in Requests |-> "none"]

Rivals(r)    == {q \in Requests \ {r} : LeadOf[q] = LeadOf[r]}
Committed(S) == {q \in S : row[q] = "committed"}

FinishKeepsLock(r, how) ==  \* mutant: the locks outlive the request
    /\ pc' = [pc EXCEPT ![r] = how]
    /\ UNCHANGED held

(* The end of the request ends its transaction, and with it its locks.     *)
Finish(r, how) ==
    /\ pc' = [pc EXCEPT ![r] = how]
    /\ held' = [held EXCEPT ![r] = "none"]

(* has_permission and _get_lead: the first plain reads.                    *)
Open(r) ==
    /\ pc[r] = "start"
    /\ pc' = [pc EXCEPT ![r] = "opened"]
    /\ view' = [view EXCEPT ![r] = Committed(Requests)]
    /\ UNCHANGED <<held, row>>

LockNothing(r) ==  \* mutant: the lookup is a plain read
    /\ pc[r] = "opened"
    /\ pc' = [pc EXCEPT ![r] = "locked"]
    /\ UNCHANGED <<view, held, row>>

(* The locking read.  It waits while a rival's row is not committed.       *)
Lock(r) ==
    /\ pc[r] = "opened"
    /\ \A q \in Rivals(r) : row[q] # "written"
    /\ \/ /\ Committed(Rivals(r)) = {}
          /\ pc' = [pc EXCEPT ![r] = "locked"]
          /\ held' = [held EXCEPT ![r] = "gap"]
       \/ /\ Committed(Rivals(r)) # {}
          /\ SnapshotConflicts => Committed(Rivals(r)) \subseteq view[r]
          /\ \A q \in Rivals(r) : held[q] # "row"
          /\ pc' = [pc EXCEPT ![r] = "locked"]
          /\ held' = [held EXCEPT ![r] = "row"]
       \/ /\ SnapshotConflicts
          /\ ~(Committed(Rivals(r)) \subseteq view[r])
          /\ Finish(r, "refused")
    /\ UNCHANGED <<view, row>>

(* The plain read of the existing application, then the checks on profile, *)
(* credit information and product, any of which may refuse the call.       *)
Check(r) ==
    /\ pc[r] = "locked"
    /\ \/ view[r] \cap Rivals(r) = {} /\ pc' = [pc EXCEPT ![r] = "checked"] /\ UNCHANGED held
       \/ Finish(r, "refused")
    /\ UNCHANGED <<view, row>>

Insert(r) ==
    /\ pc[r] = "checked"
    /\ \A q \in Rivals(r) : held[q] = "none"
    /\ pc' = [pc EXCEPT ![r] = "inserted"]
    /\ row' = [row EXCEPT ![r] = "written"]
    /\ UNCHANGED <<view, held>>

(* Two inserts that wait for each other's gap lock: one is failed.         *)
Deadlocked(r) ==
    /\ pc[r] = "checked"
    /\ \E q \in Rivals(r) : pc[q] = "checked" /\ held[q] = "gap"
    /\ Finish(r, "refused")
    /\ UNCHANGED <<view, row>>

Commit(r) ==
    /\ pc[r] = "inserted"
    /\ row' = [row EXCEPT ![r] = "committed"]
    /\ Finish(r, "done")
    /\ UNCHANGED view

Step(r) == Open(r) \/ Lock(r) \/ Check(r) \/ Insert(r) \/ Deadlocked(r) \/ Commit(r)

Next == \E r \in Requests : Step(r)

(* A worker runs the request it has accepted to its end.                   *)
Fairness == \A r \in Requests : WF_vars(Step(r))

Spec == Init /\ [][Next]_vars /\ Fairness

(***************************************************************************)
(* Properties.                                                             *)
(***************************************************************************)
(* The states of calls and rows; only a call under way holds a lock.       *)
TypeOK ==
    /\ pc \in [Requests -> {"start", "opened", "locked", "checked", "inserted",
                            "done", "refused"}]
    /\ view \in [Requests -> SUBSET Requests]
    /\ held \in [Requests -> {"none", "gap", "row"}]
    /\ row \in [Requests -> {"none", "written", "committed"}]
    /\ \A r \in Requests : held[r] # "none" => pc[r] \in {"locked", "checked", "inserted"}

(* However the calls interleave, a lead gets at most one application: the  *)
(* lock does what the comment above it promises ("to prevent TOCTOU race   *)
(* conditions").                                                           *)
OneApplicationPerLead ==
    \A r, q \in Requests :
        row[r] = "committed" /\ row[q] = "committed" /\ LeadOf[r] = LeadOf[q] => r = q

(* No call waits for ever on the locks of another.                         *)
EveryCallEnds == \A r \in Requests : <>(pc[r] \in {"done", "refused"})
=============================================================================
