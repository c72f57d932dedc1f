----------------------------- MODULE LeadIntake -----------------------------
(***************************************************************************)
(* How a lead enters the funnel, several requests at once: create_lead by  *)
(* an agent, lead_inbound by the telco gateway (which may deliver an event *)
(* more than once), while staff move leads through their workflow.  No     *)
(* unique index backs phone_number or external_id.                         *)
(*                                                                         *)
(* The database (external) is the one of ApplicationIntake: plain reads    *)
(* from the snapshot of the transaction's first read, locking reads that   *)
(* see the present and lock a row or a gap.  A save locks its row and      *)
(* refuses when the row changed since the document was loaded.             *)
(***************************************************************************)
EXTENDS FiniteSets

CONSTANTS Requests,
          KindOf,             \* "create" or "inbound"
          PhoneOf,
          RefOf,              \* the external reference a request carries, or None
          Phones, Refs, None,
          SnapshotConflicts   \* a locking read fails on a row newer than the snapshot

ASSUME IntakeAssumption ==
    /\ KindOf \in [Requests -> {"create", "inbound"}]
    /\ PhoneOf \in [Requests -> Phones]
    /\ RefOf \in [Requests -> Refs \cup {None}]
    /\ None \notin Requests \cup Phones \cup Refs
    /\ SnapshotConflicts \in BOOLEAN

VARIABLES pc,      \* where each request stands
          view,    \* the leads its snapshot shows
          gaps,    \* the index gaps it has locked
          target,  \* the lead lead_inbound found, or None
          row      \* the lead each request wrote; its phone is the request's

vars == <<pc, view, gaps, target, row>>

Indexes == {"phone", "ref"}

(* "open" stands for Active and Verified, "locked" for Processed, Granted  *)
(* and Rejected.                                                           *)
Live   == {"open", "dormant", "locked"}
States == {"none", "written"} \cup Live

Lead  == [state : States, ref : Refs \cup {None}, notes : SUBSET Requests]
Blank == [state |-> "none", ref |-> None, notes |-> {}]

Init ==
    /\ pc     = [r \in Requests |-> "start"]
    /\ view   = [r \in Requests |-> [m \in Requests |-> Blank]]
    /\ gaps   = [r \in Requests |-> {}]
    /\ target = [r \in Requests |-> None]
    /\ row    = [m \in Requests |-> Blank]

(* The leads of T, a snapshot or the table, found by an index.             *)
ByPhone(T, r) == {m \in Requests : T[m].state \in Live /\ PhoneOf[m] = PhoneOf[r]}
ByRef(T, r)   == {m \in Requests : T[m].state \in Live /\ RefOf[r] # None
                                   /\ T[m].ref = RefOf[r]}
Found(T, r, index) == IF index = "phone" THEN ByPhone(T, r) ELSE ByRef(T, r)

(* _enforce_phone_uniqueness as it sees T, for lead m.                     *)
PhoneTaken(T, m) == \E n \in ByPhone(T, m) \ {m} : T[n].state = "open"

(* _enforce_external_id_uniqueness, for lead m as it is saved with ref.    *)
RefTaken(T, m, ref) ==
    ref # None /\ \E n \in Requests \ {m} : T[n].state \in Live /\ T[n].ref = ref

SameKey(r, q, index) ==
    IF index = "phone" THEN PhoneOf[r] = PhoneOf[q] ELSE RefOf[r] # None /\ RefOf[r] = RefOf[q]

EndKeepsGaps(r, how) ==  \* mutant: the locks outlive the request
    pc' = [pc EXCEPT ![r] = how] /\ UNCHANGED gaps

(* The end of the request ends its transaction, and with it its locks.     *)
End(r, how) ==
    /\ pc' = [pc EXCEPT ![r] = how]
    /\ gaps' = [gaps EXCEPT ![r] = {}]

Open(r) ==
    /\ pc[r] = "start"
    /\ pc' = [pc EXCEPT ![r] = IF KindOf[r] = "create" THEN "opened" ELSE "routing"]
    /\ view' = [view EXCEPT ![r] = [m \in Requests |-> IF row[m].state \in Live
                                                       THEN row[m] ELSE Blank]]
    /\ UNCHANGED <<gaps, target, row>>

(***************************************************************************)
(* create_lead.                                                            *)
(***************************************************************************)
LockNoGap(r, index, next) ==  \* mutant: get_value without for_update
    \/ Found(view[r], r, index) = {} /\ pc' = [pc EXCEPT ![r] = next] /\ UNCHANGED gaps
    \/ Found(view[r], r, index) # {} /\ End(r, "refused")

(* The locking read of one index, then the plain read.  The first waits    *)
(* for a row that is not committed yet, meets a row newer than the         *)
(* snapshot, or locks; the second refuses what the snapshot shows.         *)
LockAndLook(r, index, next) ==
    LET present == Found(row, r, index)
        seen    == Found(view[r], r, index)
    IN
    /\ \A q \in Requests \ {r} : SameKey(r, q, index) => row[q].state # "written"
    /\ \/ /\ seen = {}
          /\ SnapshotConflicts => present = {}
          /\ pc' = [pc EXCEPT ![r] = next]
          /\ gaps' = [gaps EXCEPT ![r] = IF present = {} THEN @ \cup {index} ELSE @]
       \/ /\ seen # {} \/ (SnapshotConflicts /\ present # {})
          /\ End(r, "refused")

LockPhone(r) ==
    /\ pc[r] = "opened"
    /\ LockAndLook(r, "phone", IF RefOf[r] = None THEN "checked" ELSE "phone locked")
    /\ UNCHANGED <<view, target, row>>

LockRef(r) ==
    /\ pc[r] = "phone locked"
    /\ LockAndLook(r, "ref", "checked")
    /\ UNCHANGED <<view, target, row>>

(* The insert waits for the gap locks of others.  before_save repeats, on  *)
(* the same snapshot, reads that have passed already.                      *)
Barred(r) == {q \in Requests \ {r} : \E i \in gaps[q] : SameKey(r, q, i)}

Insert(r) ==
    /\ pc[r] = "checked"
    /\ Barred(r) = {}
    /\ pc' = [pc EXCEPT ![r] = "inserted"]
    /\ row' = [row EXCEPT ![r] = [state |-> "written", ref |-> RefOf[r],
                                  notes |-> IF KindOf[r] = "inbound" THEN {r} ELSE {}]]
    /\ UNCHANGED <<view, gaps, target>>

(* Two that wait for each other: the database fails one.                   *)
Waits(q) == pc[q] \in {"checked", "phone locked"}

Deadlocked(r) ==
    /\ pc[r] = "checked"
    /\ \E q \in Barred(r) : Waits(q) /\ \E i \in gaps[r] : SameKey(r, q, i)
    /\ End(r, "refused")
    /\ UNCHANGED <<view, target, row>>

Commit(r) ==
    /\ pc[r] = "inserted"
    /\ row' = [row EXCEPT ![r].state = "open"]
    /\ End(r, "done")
    /\ UNCHANGED <<view, target>>

(***************************************************************************)
(* lead_inbound.                                                           *)
(***************************************************************************)
(* By reference in any state, else by phone in the open funnel, else a     *)
(* fresh lead: plain reads, no lock.                                       *)
OpenByPhone(r) == {m \in ByPhone(view[r], r) : view[r][m].state = "open"}

Route(r) ==
    /\ pc[r] = "routing"
    /\ \/ \E m \in ByRef(view[r], r) :
              target' = [target EXCEPT ![r] = m] /\ pc' = [pc EXCEPT ![r] = "matched"]
       \/ /\ ByRef(view[r], r) = {}
          /\ \E m \in OpenByPhone(r) :
                 target' = [target EXCEPT ![r] = m] /\ pc' = [pc EXCEPT ![r] = "matched"]
       \/ /\ ByRef(view[r], r) = {} /\ OpenByPhone(r) = {}
          /\ pc' = [pc EXCEPT ![r] = "checked"]
          /\ UNCHANGED target
    /\ UNCHANGED <<view, gaps, row>>

SaveAnyway(r) ==  \* mutant: saves what it read, whatever was written since
    LET m == target[r] IN
    /\ pc[r] = "matched"
    /\ row' = [row EXCEPT ![m].notes = view[r][m].notes \cup {r}]
    /\ End(r, "done")
    /\ UNCHANGED <<view, target>>

(* _update_existing_lead: the call note is appended and a missing          *)
(* reference filled in.  The save refuses a row that changed since the     *)
(* snapshot, a locked lead, a phone that another open lead holds and a     *)
(* reference that any other lead holds.                                    *)
Save(r) ==
    LET m == target[r]
        ref == IF view[r][m].ref = None THEN RefOf[r] ELSE view[r][m].ref
        saved == /\ row[m] = view[r][m]
                 /\ view[r][m].state # "locked"
                 /\ ~PhoneTaken(view[r], m) /\ ~RefTaken(view[r], m, ref)
    IN
    /\ pc[r] = "matched"
    /\ \/ /\ saved
          /\ row' = [row EXCEPT ![m].notes = @ \cup {r},
                                ![m].ref = IF @ = None THEN RefOf[r] ELSE @]
          /\ End(r, "done")
       \/ ~saved /\ End(r, "refused") /\ UNCHANGED row
    /\ UNCHANGED <<view, target>>

(***************************************************************************)
(* update_lead_status by staff, as one step: what it means for intake is   *)
(* whether the lead is in the open funnel and whether it may be saved.     *)
(***************************************************************************)
Moves == { <<"open", "dormant">>, <<"dormant", "open">>, <<"open", "locked">> }

UpdateLeadStatus(m, to) ==
    /\ <<row[m].state, to>> \in Moves
    /\ ~PhoneTaken(row, m) /\ ~RefTaken(row, m, row[m].ref)
    /\ row' = [row EXCEPT ![m].state = to]
    /\ UNCHANGED <<pc, view, gaps, target>>

Step(r) ==
    \/ Open(r) \/ LockPhone(r) \/ LockRef(r) \/ Route(r) \/ Save(r)
    \/ Insert(r) \/ Deadlocked(r) \/ Commit(r)

Next ==
    \/ \E r \in Requests : Step(r)
    \/ \E m \in Requests, to \in Live : UpdateLeadStatus(m, to)

(* A worker runs the request it has accepted to its end; staff move leads  *)
(* when they please.                                                       *)
Spec == Init /\ [][Next]_vars /\ \A r \in Requests : WF_vars(Step(r))

(***************************************************************************)
(* Properties.                                                             *)
(***************************************************************************)
(* The states of requests and leads; only a request under way holds locks. *)
TypeOK ==
    /\ pc \in [Requests -> {"start", "opened", "phone locked", "checked", "inserted",
                            "routing", "matched", "done", "refused"}]
    /\ view \in [Requests -> [Requests -> Lead]]
    /\ gaps \in [Requests -> SUBSET Indexes]
    /\ target \in [Requests -> Requests \cup {None}]
    /\ row \in [Requests -> Lead]
    /\ \A r \in Requests :
           gaps[r] # {} => pc[r] \in {"phone locked", "checked", "inserted"}

(* Two agents never open a lead each for one phone number, nor for one     *)
(* external reference, however their calls interleave with one another and *)
(* with the gateway's: create_lead has no unique index behind it, only the *)
(* locking reads ("to prevent TOCTOU race conditions").  The gateway's own *)
(* leads are left out: lead_inbound takes no lock.                         *)
AgentLead(m) == KindOf[m] = "create" /\ row[m].state \in Live

OneAgentLead ==
    \A m, n \in Requests :
        m # n /\ AgentLead(m) /\ AgentLead(n) =>
            /\ PhoneOf[m] # PhoneOf[n]
            /\ RefOf[m] # None => RefOf[m] # RefOf[n]

(* A delivery answered with success is on record: its note is on a lead,   *)
(* and no concurrent delivery or status change wipes it out.               *)
DeliveryOnRecord ==
    \A r \in Requests :
        KindOf[r] = "inbound" /\ pc[r] = "done" => \E m \in Requests : r \in row[m].notes

(* No request waits for ever on the locks of another.                      *)
EveryRequestEnds == \A r \in Requests : <>(pc[r] \in {"done", "refused"})
=============================================================================
