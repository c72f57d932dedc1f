-------------------------- MODULE LeadIntakeProofs --------------------------
(***************************************************************************)
(* The entry of leads into the funnel, for any number of requests, phones  *)
(* and references.                                                         *)
(***************************************************************************)
EXTENDS LeadIntake, TLAPS

Pending == {"start", "opened", "phone locked", "checked", "routing", "matched"}

(* A lead is written when its request inserts it, not before, and by then  *)
(* carries the note of the delivery that opens it; a delivery is matched   *)
(* with a lead of the funnel.                                              *)
Placed ==
    \A r \in Requests :
        /\ pc[r] \in Pending => row[r] = Blank
        /\ pc[r] = "inserted" => /\ row[r].state = "written"
                                 /\ KindOf[r] = "inbound" => r \in row[r].notes
        /\ pc[r] = "matched" => target[r] \in Requests /\ view[r][target[r]].state \in Live

(* What others may do to a lead: move it about the funnel, add notes, fill *)
(* in a reference it lacks.                                                *)
Touch(m) ==
    \/ row'[m] = row[m]
    \/ /\ row[m].state \in Live /\ row'[m].state \in Live
       /\ row[m].notes \subseteq row'[m].notes
       /\ row[m].ref # None => row'[m].ref = row[m].ref

(***************************************************************************)
(* Types.                                                                  *)
(***************************************************************************)
LEMMA LeadsTyped ==
    /\ Blank \in Lead
    /\ \A old \in Lead, s \in States : [old EXCEPT !.state = s] \in Lead
    /\ \A old \in Lead, n \in SUBSET Requests, x \in Refs \cup {None} :
           [old EXCEPT !.notes = n, !.ref = x] \in Lead
BY DEF Blank, Lead, States

LEMMA TypeInit == Init => TypeOK
<1>1. Init => view \in [Requests -> [Requests -> Lead]] /\ row \in [Requests -> Lead]
  <2>1. [m \in Requests |-> Blank] \in [Requests -> Lead]
    BY LeadsTyped
  <2> QED BY <2>1 DEF Init
<1> QED BY <1>1 DEF Init, TypeOK

(* Who locks and looks ends refused, or goes on with one more gap at most. *)
LEMMA Looking ==
    ASSUME NEW r \in Requests, NEW index \in Indexes, NEW next, LockAndLook(r, index, next), TypeOK
    PROVE  \/ pc' = [pc EXCEPT ![r] = next] /\ gaps' \in {gaps, [gaps EXCEPT ![r] = @ \cup {index}]}
           \/ pc' = [pc EXCEPT ![r] = "refused"] /\ gaps' = [gaps EXCEPT ![r] = {}]
<1>1. CASE End(r, "refused")
  BY <1>1 DEF End
<1>2. CASE /\ pc' = [pc EXCEPT ![r] = next]
           /\ gaps' = [gaps EXCEPT ![r] = IF Found(row, r, index) = {} THEN @ \cup {index} ELSE @]
  BY <1>2 DEF TypeOK
<1> QED BY <1>1, <1>2 DEF LockAndLook

LEMMA TypeStep == TypeOK /\ [Next]_vars => TypeOK'
<1> SUFFICES ASSUME TypeOK, [Next]_vars PROVE TypeOK'
  OBVIOUS
<1> DEFINE Stages == {"start", "opened", "phone locked", "checked", "inserted",
                      "routing", "matched", "done", "refused"}
           Locking == {"phone locked", "checked", "inserted"}
<1>0. ASSUME NEW r \in Requests, NEW w \in Stages, pc' = [pc EXCEPT ![r] = w],
             \/ gaps' = [gaps EXCEPT ![r] = {}]
             \/ gaps' = gaps /\ (pc[r] \in Locking => w \in Locking)
             \/ w \in Locking /\ \E i \in Indexes : gaps' = [gaps EXCEPT ![r] = @ \cup {i}]
      PROVE  /\ pc' \in [Requests -> Stages] /\ gaps' \in [Requests -> SUBSET Indexes]
             /\ \A q \in Requests : gaps'[q] # {} => pc'[q] \in Locking
  <2>1. pc' \in [Requests -> Stages] /\ gaps' \in [Requests -> SUBSET Indexes]
    BY <1>0 DEF TypeOK
  <2>2. \A q \in Requests \ {r} : pc'[q] = pc[q] /\ gaps'[q] = gaps[q]
    BY <1>0 DEF TypeOK
  <2>3. gaps'[r] # {} => pc'[r] \in Locking
    BY <1>0 DEF TypeOK
  <2> QED BY <2>1, <2>2, <2>3 DEF TypeOK
<1>1. ASSUME NEW r \in Requests, Open(r) PROVE TypeOK'
  <2>1. view' \in [Requests -> [Requests -> Lead]]
    <3>1. \A m \in Requests : row[m] \in Lead
      BY DEF TypeOK
    <3>2. [m \in Requests |-> IF row[m].state \in Live THEN row[m] ELSE Blank] \in [Requests -> Lead]
      BY <3>1, LeadsTyped
    <3> QED BY <1>1, <3>2 DEF Open, TypeOK
  <2>2. pc[r] = "start" /\ gaps' = gaps /\ (pc' = [pc EXCEPT ![r] = "opened"] \/ pc' = [pc EXCEPT ![r] = "routing"])
    BY <1>1 DEF Open
  <2>3. UNCHANGED <<target, row>>
    BY <1>1 DEF Open
  <2> QED BY <1>0, <2>1, <2>2, <2>3 DEF TypeOK
<1>2. ASSUME NEW r \in Requests, LockPhone(r) \/ LockRef(r) PROVE TypeOK'
  <2>1. UNCHANGED <<view, target, row>>
    BY <1>2 DEF LockPhone, LockRef
  <2>2. PICK next \in {"phone locked", "checked"}, index \in Indexes : LockAndLook(r, index, next)
    BY <1>2 DEF LockPhone, LockRef, Indexes
  <2>3. \/ pc' = [pc EXCEPT ![r] = next] /\ gaps' \in {gaps, [gaps EXCEPT ![r] = @ \cup {index}]}
        \/ pc' = [pc EXCEPT ![r] = "refused"] /\ gaps' = [gaps EXCEPT ![r] = {}]
    BY <2>2, Looking
  <2> QED BY <1>0, <2>1, <2>3 DEF TypeOK
<1>3. ASSUME NEW r \in Requests, Route(r) PROVE TypeOK'
  <2>1. /\ pc[r] = "routing" /\ UNCHANGED <<view, gaps, row>>
        /\ pc' = [pc EXCEPT ![r] = "matched"] \/ pc' = [pc EXCEPT ![r] = "checked"]
        /\ target' = target \/ \E m \in Requests : target' = [target EXCEPT ![r] = m]
    BY <1>3 DEF Route, ByRef, OpenByPhone, ByPhone
  <2>2. target' \in [Requests -> Requests \cup {None}]
    BY <2>1 DEF TypeOK
  <2> QED BY <1>0, <2>1, <2>2 DEF TypeOK
<1>4. ASSUME NEW r \in Requests, Save(r) PROVE TypeOK'
  <2>1. row' \in [Requests -> Lead]
    <3> DEFINE m == target[r]
    <3>1. CASE row' = row
      BY <3>1 DEF TypeOK
    <3>2. CASE row' # row
      <4>1. row' = [row EXCEPT ![m].notes = @ \cup {r}, ![m].ref = IF @ = None THEN RefOf[r] ELSE @]
        BY <1>4, <3>2 DEF Save
      <4>2. CASE m \in Requests
        <5>1. row[m] \in Lead
          BY <4>2 DEF TypeOK
        <5>2. RefOf[r] \in Refs \cup {None} /\ row[m].notes \cup {r} \in SUBSET Requests
          BY <5>1, IntakeAssumption DEF Lead
        <5> DEFINE new == [row[m] EXCEPT !.notes = @ \cup {r}, !.ref = IF @ = None THEN RefOf[r] ELSE @]
        <5>3. new \in Lead
          BY <5>1, <5>2 DEF Lead
        <5>4. row' = [row EXCEPT ![m] = new]
          BY <4>1, <4>2, <5>1 DEF TypeOK, Lead
        <5> HIDE DEF new
        <5> QED BY <4>2, <5>3, <5>4 DEF TypeOK
      <4>3. CASE m \notin Requests
        BY <4>1, <4>3 DEF TypeOK
      <4> QED BY <4>2, <4>3
    <3> QED BY <3>1, <3>2
  <2>2. /\ pc' = [pc EXCEPT ![r] = "done"] \/ pc' = [pc EXCEPT ![r] = "refused"]
        /\ gaps' = [gaps EXCEPT ![r] = {}] /\ UNCHANGED <<view, target>>
    BY <1>4 DEF Save, End
  <2> QED BY <1>0, <2>1, <2>2 DEF TypeOK
<1>5. ASSUME NEW r \in Requests, Insert(r) PROVE TypeOK'
  <2>1. row' \in [Requests -> Lead]
    <3>1. [state |-> "written", ref |-> RefOf[r], notes |-> IF KindOf[r] = "inbound" THEN {r} ELSE {}] \in Lead
      BY IntakeAssumption DEF Lead, States
    <3> QED BY <1>5, <3>1 DEF Insert, TypeOK
  <2>2. pc' = [pc EXCEPT ![r] = "inserted"] /\ UNCHANGED <<view, gaps, target>>
    BY <1>5 DEF Insert
  <2> QED BY <1>0, <2>1, <2>2 DEF TypeOK
<1>6. ASSUME NEW r \in Requests, Deadlocked(r) PROVE TypeOK'
  <2>1. pc' = [pc EXCEPT ![r] = "refused"] /\ gaps' = [gaps EXCEPT ![r] = {}] /\ UNCHANGED <<view, target, row>>
    BY <1>6 DEF Deadlocked, End
  <2> QED BY <1>0, <2>1 DEF TypeOK
<1>7. ASSUME NEW r \in Requests, Commit(r) PROVE TypeOK'
  <2>1. row' \in [Requests -> Lead]
    <3>1. row' = [row EXCEPT ![r] = [row[r] EXCEPT !.state = "open"]]
      BY <1>7 DEF Commit
    <3>2. row[r] \in Lead /\ "open" \in States
      BY DEF TypeOK, States, Live
    <3>3. [row[r] EXCEPT !.state = "open"] \in Lead
      BY <3>2, LeadsTyped
    <3> QED BY <3>1, <3>3 DEF TypeOK
  <2>2. pc' = [pc EXCEPT ![r] = "done"] /\ gaps' = [gaps EXCEPT ![r] = {}] /\ UNCHANGED <<view, target>>
    BY <1>7 DEF Commit, End
  <2> QED BY <1>0, <2>1, <2>2 DEF TypeOK
<1>8. ASSUME NEW m \in Requests, NEW to \in Live, UpdateLeadStatus(m, to) PROVE TypeOK'
  <2>1. row' = [row EXCEPT ![m] = [row[m] EXCEPT !.state = to]] /\ UNCHANGED <<pc, view, gaps, target>>
    BY <1>8 DEF UpdateLeadStatus
  <2>2. row[m] \in Lead /\ to \in States
    BY DEF TypeOK, States
  <2>3. [row[m] EXCEPT !.state = to] \in Lead
    BY <2>2, LeadsTyped
  <2> QED BY <2>1, <2>3 DEF TypeOK
<1>9. CASE UNCHANGED vars
  BY <1>9 DEF vars, TypeOK
<1> QED BY <1>1, <1>2, <1>3, <1>4, <1>5, <1>6, <1>7, <1>8, <1>9 DEF Next, Step

(* For any number of requests: the tables are well typed, and only a       *)
(* request under way holds locks.                                          *)
THEOREM IntakeTyped == Spec => []TypeOK
BY TypeInit, TypeStep, PTL DEF Spec

(***************************************************************************)
(* What a step does to a lead, and to the request of a lead.               *)
(***************************************************************************)
LEMMA LeadMoves ==
    ASSUME TypeOK, Placed, [Next]_vars, NEW m \in Requests
    PROVE  Touch(m) \/ Insert(m) \/ Commit(m)
<1>1. ASSUME NEW r \in Requests, Insert(r) \/ Commit(r), r # m PROVE row'[m] = row[m]
  BY <1>1 DEF Insert, Commit, TypeOK
<1>2. ASSUME NEW r \in Requests, Save(r) PROVE Touch(m)
  <2>1. CASE row' = row
    BY <2>1 DEF Touch
  <2>2. CASE row' # row
    <3> DEFINE t == target[r]
    <3>1. /\ row' = [row EXCEPT ![t].notes = @ \cup {r}, ![t].ref = IF @ = None THEN RefOf[r] ELSE @]
          /\ pc[r] = "matched" /\ row[t] = view[r][t]
      BY <1>2, <2>2 DEF Save
    <3>2. t \in Requests /\ row[t].state \in Live /\ row[t] \in Lead
      BY <3>1 DEF Placed, TypeOK
    <3>3. CASE m = t
      <4> DEFINE new == [row[t] EXCEPT !.notes = @ \cup {r}, !.ref = IF @ = None THEN RefOf[r] ELSE @]
      <4>1. /\ new.state = row[t].state /\ new.notes = row[t].notes \cup {r}
            /\ row[t].ref # None => new.ref = row[t].ref
        BY <3>2 DEF Lead
      <4>2. row' = [row EXCEPT ![t] = new]
        BY <3>1, <3>2 DEF TypeOK, Lead
      <4> HIDE DEF new
      <4>3. row'[t] = new
        BY <3>2, <4>2 DEF TypeOK
      <4> QED BY <3>2, <3>3, <4>1, <4>3 DEF Touch
    <3>4. CASE m # t
      BY <3>1, <3>2, <3>4 DEF Touch, TypeOK
    <3> QED BY <3>3, <3>4
  <2> QED BY <2>1, <2>2
<1>3. ASSUME NEW r \in Requests, Open(r) \/ LockPhone(r) \/ LockRef(r) \/ Route(r) \/ Deadlocked(r)
      PROVE  row'[m] = row[m]
  BY <1>3 DEF Open, LockPhone, LockRef, Route, Deadlocked
<1>4. ASSUME NEW n \in Requests, NEW to \in Live, UpdateLeadStatus(n, to) PROVE Touch(m)
  <2>1. /\ row[n].state \in Live /\ row[n] \in Lead
        /\ row' = [row EXCEPT ![n] = [row[n] EXCEPT !.state = to]]
    BY <1>4 DEF UpdateLeadStatus, Moves, Live, TypeOK
  <2> QED BY <2>1 DEF Touch, TypeOK, Lead
<1>5. CASE UNCHANGED vars
  BY <1>5 DEF vars, Touch
<1> QED BY <1>1, <1>2, <1>3, <1>4, <1>5 DEF Next, Step, Touch

LEMMA RequestMoves ==
    ASSUME TypeOK, [Next]_vars, NEW r \in Requests, ~Step(r)
    PROVE  /\ pc'[r] = pc[r] /\ view'[r] = view[r] /\ gaps'[r] = gaps[r] /\ target'[r] = target[r]
           /\ ~Insert(r) /\ ~Commit(r)
<1>1. ASSUME NEW q \in Requests, Step(q), q # r
      PROVE  pc'[r] = pc[r] /\ view'[r] = view[r] /\ gaps'[r] = gaps[r] /\ target'[r] = target[r]
  <2>1. CASE LockPhone(q) \/ LockRef(q)
    <3>1. UNCHANGED <<view, target>>
      BY <2>1 DEF LockPhone, LockRef
    <3>2. PICK next \in {"phone locked", "checked"}, index \in Indexes : LockAndLook(q, index, next)
      BY <2>1 DEF LockPhone, LockRef, Indexes
    <3>3. \/ pc' = [pc EXCEPT ![q] = next] /\ gaps' \in {gaps, [gaps EXCEPT ![q] = @ \cup {index}]}
          \/ pc' = [pc EXCEPT ![q] = "refused"] /\ gaps' = [gaps EXCEPT ![q] = {}]
      BY <3>2, Looking
    <3> QED BY <1>1, <3>1, <3>3 DEF TypeOK
  <2>2. CASE Open(q) \/ Route(q) \/ Save(q)
    BY <1>1, <2>2 DEF Open, Route, Save, End, TypeOK
  <2>3. CASE Insert(q) \/ Deadlocked(q) \/ Commit(q)
    BY <1>1, <2>3 DEF Insert, Deadlocked, Commit, End, TypeOK
  <2> QED BY <1>1, <2>1, <2>2, <2>3 DEF Step
<1>0. ~Insert(r) /\ ~Commit(r)
  BY DEF Step
<1>2. CASE \E m \in Requests, to \in Live : UpdateLeadStatus(m, to)
  BY <1>0, <1>2 DEF UpdateLeadStatus
<1>3. CASE UNCHANGED vars
  BY <1>0, <1>3 DEF vars
<1>4. \/ \E q \in Requests : Step(q) /\ q # r
      \/ \E m \in Requests, to \in Live : UpdateLeadStatus(m, to)
      \/ UNCHANGED vars
  BY DEF Next
<1> QED BY <1>0, <1>1, <1>2, <1>3, <1>4

(***************************************************************************)
(* Every lead is where its request left it.                                *)
(***************************************************************************)
LEMMA PlacedInit == Init => Placed
BY DEF Init, Placed

LEMMA PlacedStep == TypeOK /\ Placed /\ [Next]_vars => Placed'
<1> SUFFICES ASSUME TypeOK, Placed, [Next]_vars, NEW r \in Requests
             PROVE  /\ pc'[r] \in Pending => row'[r] = Blank
                    /\ pc'[r] = "inserted" => /\ row'[r].state = "written"
                                              /\ KindOf[r] = "inbound" => r \in row'[r].notes
                    /\ pc'[r] = "matched" => target'[r] \in Requests /\ view'[r][target'[r]].state \in Live
  BY DEF Placed
(* A lead that nobody has put in the funnel is left alone.                 *)
<1>1. ASSUME ~Insert(r), ~Commit(r), pc[r] \in Pending \cup {"inserted"}
      PROVE  row'[r] = row[r]
  <2>1. row[r].state \notin Live
    BY <1>1 DEF Placed, Blank, Live
  <2> QED BY <1>1, <2>1, LeadMoves DEF Touch
<1>2. CASE ~Step(r)
  BY <1>1, <1>2, RequestMoves DEF Placed
<1>3. CASE Open(r)
  <2>1. pc[r] = "start" /\ (pc' = [pc EXCEPT ![r] = "opened"] \/ pc' = [pc EXCEPT ![r] = "routing"]) /\ row' = row
    BY <1>3 DEF Open
  <2> QED BY <2>1 DEF Placed, Pending, TypeOK
<1>4. CASE LockPhone(r) \/ LockRef(r)
  <2>1. pc[r] \in {"opened", "phone locked"} /\ row' = row
    BY <1>4 DEF LockPhone, LockRef
  <2>2. PICK next \in {"phone locked", "checked"}, index \in Indexes : LockAndLook(r, index, next)
    BY <1>4 DEF LockPhone, LockRef, Indexes
  <2>3. pc'[r] \in {"phone locked", "checked", "refused"}
    BY <2>2, Looking DEF TypeOK
  <2> QED BY <2>1, <2>3 DEF Placed, Pending
<1>5. CASE Route(r)
  <2>1. pc[r] = "routing" /\ UNCHANGED <<row, view>>
    BY <1>5 DEF Route
  <2>2. row'[r] = Blank
    BY <2>1 DEF Placed, Pending
  <2>3. \/ pc' = [pc EXCEPT ![r] = "checked"]
        \/ /\ pc' = [pc EXCEPT ![r] = "matched"]
           /\ \E m \in Requests : target' = [target EXCEPT ![r] = m] /\ view[r][m].state \in Live
    BY <1>5 DEF Route, ByRef, OpenByPhone, ByPhone
  <2>4. pc'[r] = "matched" => target'[r] \in Requests /\ view'[r][target'[r]].state \in Live
    BY <2>1, <2>3 DEF TypeOK
  <2>5. pc'[r] # "inserted"
    BY <2>3 DEF TypeOK
  <2> QED BY <2>2, <2>4, <2>5
<1>6. CASE Save(r)
  <2>1. pc' = [pc EXCEPT ![r] = "done"] \/ pc' = [pc EXCEPT ![r] = "refused"]
    BY <1>6 DEF Save, End
  <2> QED BY <2>1 DEF TypeOK, Pending
<1>7. CASE Insert(r)
  <2>1. pc'[r] = "inserted"
    BY <1>7 DEF Insert, TypeOK
  <2>2. row'[r] = [state |-> "written", ref |-> RefOf[r], notes |-> IF KindOf[r] = "inbound" THEN {r} ELSE {}]
    BY <1>7 DEF Insert, TypeOK
  <2> QED BY <2>1, <2>2 DEF Pending
<1>8. CASE Deadlocked(r) \/ Commit(r)
  <2>1. pc' = [pc EXCEPT ![r] = "done"] \/ pc' = [pc EXCEPT ![r] = "refused"]
    BY <1>8 DEF Deadlocked, Commit, End
  <2> QED BY <2>1 DEF TypeOK, Pending
<1> QED BY <1>2, <1>3, <1>4, <1>5, <1>6, <1>7, <1>8 DEF Step

PlacedInv == TypeOK /\ Placed

LEMMA PlacedInvariant == Spec => []PlacedInv
<1>1. Init => PlacedInv
  BY TypeInit, PlacedInit DEF PlacedInv
<1>2. PlacedInv /\ [Next]_vars => PlacedInv'
  BY TypeStep, PlacedStep DEF PlacedInv
<1> QED BY <1>1, <1>2, PTL DEF Spec

LEMMA RecordStep == PlacedInv /\ DeliveryOnRecord /\ [Next]_vars => DeliveryOnRecord'
<1> SUFFICES ASSUME PlacedInv, DeliveryOnRecord, [Next]_vars,
                    NEW r \in Requests, KindOf[r] = "inbound", pc'[r] = "done"
             PROVE  \E m \in Requests : r \in row'[m].notes
  BY DEF DeliveryOnRecord
<1> USE DEF PlacedInv
(* A note stays where it is: an insert finds no lead in its place.         *)
<1>1. ASSUME NEW m \in Requests, r \in row[m].notes PROVE r \in row'[m].notes
  <2>1. CASE Insert(m)
    <3>1. row[m] = Blank
      BY <2>1 DEF Insert, Placed, Pending
    <3> QED BY <1>1, <3>1 DEF Blank
  <2>2. CASE Commit(m)
    <3>1. row' = [row EXCEPT ![m] = [row[m] EXCEPT !.state = "open"]] /\ row[m] \in Lead
      BY <2>2 DEF Commit, TypeOK
    <3>2. row'[m] = [row[m] EXCEPT !.state = "open"]
      BY <3>1 DEF TypeOK
    <3> QED BY <1>1, <3>1, <3>2 DEF Lead
  <2>3. CASE Touch(m)
    BY <1>1, <2>3 DEF Touch
  <2> QED BY <2>1, <2>2, <2>3, LeadMoves
<1>2. CASE pc[r] = "done"
  BY <1>1, <1>2 DEF DeliveryOnRecord
<1>3. CASE pc[r] # "done"
  <2>1. Step(r)
    BY <1>3, RequestMoves
  <2>2. CASE Commit(r)
    BY <1>1, <2>2 DEF Commit, Placed
  <2>3. CASE Save(r)
    <3> DEFINE m == target[r]
    <3>1. pc[r] = "matched" /\ m \in Requests /\ row[m] \in Lead
      BY <2>3 DEF Save, Placed, TypeOK
    <3>2. row' = [row EXCEPT ![m].notes = @ \cup {r}, ![m].ref = IF @ = None THEN RefOf[r] ELSE @]
      <4>1. \/ row' = [row EXCEPT ![m].notes = @ \cup {r}, ![m].ref = IF @ = None THEN RefOf[r] ELSE @]
            \/ pc' = [pc EXCEPT ![r] = "refused"]
        BY <2>3 DEF Save, End
      <4> QED BY <4>1 DEF TypeOK
    <3>3. r \in row'[m].notes
      BY <3>1, <3>2 DEF TypeOK, Lead
    <3> QED BY <3>1, <3>3
  <2>4. CASE LockPhone(r) \/ LockRef(r)
    <3>1. PICK next \in {"phone locked", "checked"}, index \in Indexes : LockAndLook(r, index, next)
      BY <2>4 DEF LockPhone, LockRef, Indexes
    <3> QED BY <3>1, Looking DEF TypeOK
  <2>5. CASE Open(r) \/ Route(r) \/ Insert(r) \/ Deadlocked(r)
    <3>1. \E w \in {"opened", "routing", "matched", "checked", "inserted", "refused"} : pc' = [pc EXCEPT ![r] = w]
      BY <2>5 DEF Open, Route, Insert, Deadlocked, End
    <3> QED BY <3>1 DEF TypeOK
  <2> QED BY <2>1, <2>2, <2>3, <2>4, <2>5 DEF Step
<1> QED BY <1>2, <1>3

(* For any number of deliveries: one that was answered with success is on  *)
(* record, and stays there whatever other deliveries and staff write.      *)
THEOREM DeliveriesStayOnRecord == Spec => []DeliveryOnRecord
<1>1. Init => DeliveryOnRecord
  BY DEF Init, DeliveryOnRecord
<1> QED BY <1>1, PlacedInvariant, RecordStep, PTL DEF Spec

(***************************************************************************)
(* One agent, one lead.                                                    *)
(***************************************************************************)
OnTable(m) == row[m].state # "none"

(* A gap that a request has locked is empty of other leads; a call of      *)
(* create_lead comes to its insert with every gap it needs.                *)
Fenced ==
    \A r \in Requests :
        /\ pc[r] \in {"routing", "matched"} => KindOf[r] = "inbound"
        /\ pc[r] = "opened" => KindOf[r] = "create"
        /\ KindOf[r] = "create" /\ pc[r] \in {"phone locked", "checked"} => "phone" \in gaps[r]
        /\ KindOf[r] = "create" /\ pc[r] = "checked" /\ RefOf[r] # None => "ref" \in gaps[r]
        /\ \A i \in gaps[r], q \in Requests \ {r} : SameKey(r, q, i) => ~OnTable(q)

(* A lead keeps the reference it was created with; agents' leads have no   *)
(* key in common.                                                          *)
Apart ==
    /\ \A m \in Requests : OnTable(m) /\ RefOf[m] # None => row[m].ref = RefOf[m]
    /\ \A m, n \in Requests, i \in Indexes :
           m # n /\ KindOf[m] = "create" /\ KindOf[n] = "create" /\ SameKey(m, n, i)
           => ~OnTable(m) \/ ~OnTable(n)

(* Nothing but its insert puts a lead on the table.                        *)
LEMMA Appears ==
    ASSUME PlacedInv, [Next]_vars, NEW m \in Requests
    PROVE  /\ OnTable(m)' => OnTable(m) \/ Insert(m)
           /\ OnTable(m) /\ ~Insert(m) /\ row[m].ref # None => row'[m].ref = row[m].ref
<1> USE DEF PlacedInv
<1>1. CASE Insert(m)
  BY <1>1
<1>2. CASE Commit(m)
  <2>1. /\ row' = [row EXCEPT ![m] = [row[m] EXCEPT !.state = "open"]] /\ row[m] \in Lead
        /\ row[m].state = "written"
    BY <1>2 DEF Commit, Placed, TypeOK
  <2>2. row'[m] = [row[m] EXCEPT !.state = "open"]
    BY <2>1 DEF TypeOK
  <2> QED BY <2>1, <2>2 DEF OnTable, Lead
<1>3. CASE Touch(m)
  BY <1>3 DEF Touch, OnTable, Live
<1> QED BY <1>1, <1>2, <1>3, LeadMoves

LEMMA ApartStep == PlacedInv /\ Fenced /\ Apart /\ [Next]_vars => Apart'
<1> SUFFICES ASSUME PlacedInv, Fenced, Apart, [Next]_vars PROVE Apart'
  OBVIOUS
<1>1. ASSUME NEW m \in Requests, OnTable(m)', RefOf[m] # None PROVE row'[m].ref = RefOf[m]
  <2>1. CASE Insert(m)
    BY <2>1 DEF Insert, PlacedInv, TypeOK
  <2>2. CASE ~Insert(m)
    BY <1>1, <2>2, Appears DEF Apart
  <2> QED BY <2>1, <2>2
(* Who inserts holds the gaps of all its keys, and a gap holds no lead.    *)
<1>2. ASSUME NEW m \in Requests, NEW n \in Requests, NEW i \in Indexes, m # n,
             KindOf[m] = "create", KindOf[n] = "create", SameKey(m, n, i), Insert(m)
      PROVE  ~OnTable(n)'
  <2>1. pc[m] = "checked" /\ row'[n] = row[n]
    BY <1>2 DEF Insert, PlacedInv, TypeOK
  <2>2. i \in gaps[m]
    BY <1>2, <2>1 DEF Fenced, Indexes, SameKey
  <2>3. ~OnTable(n)
    BY <1>2, <2>2 DEF Fenced
  <2> QED BY <2>1, <2>3 DEF OnTable
<1>3. ASSUME NEW m \in Requests, NEW n \in Requests, NEW i \in Indexes, m # n,
             KindOf[m] = "create", KindOf[n] = "create", SameKey(m, n, i)
      PROVE  ~OnTable(m)' \/ ~OnTable(n)'
  <2>1. SameKey(n, m, i)
    BY <1>3 DEF SameKey
  <2>2. CASE Insert(m) \/ Insert(n)
    BY <1>2, <1>3, <2>1, <2>2
  <2>3. CASE ~Insert(m) /\ ~Insert(n)
    BY <1>3, <2>3, Appears DEF Apart
  <2> QED BY <2>2, <2>3
<1> QED BY <1>1, <1>3 DEF Apart

(* Where the first locking read sees all there is, a gap is locked empty   *)
(* and bars the inserts of others until it is given up.                    *)
LEMMA FencedStep == ASSUME SnapshotConflicts, PlacedInv, Fenced, Apart, [Next]_vars PROVE Fenced'
<1> USE DEF PlacedInv
<1> SUFFICES ASSUME NEW r \in Requests
             PROVE  /\ pc'[r] \in {"routing", "matched"} => KindOf[r] = "inbound"
                    /\ pc'[r] = "opened" => KindOf[r] = "create"
                    /\ KindOf[r] = "create" /\ pc'[r] \in {"phone locked", "checked"} => "phone" \in gaps'[r]
                    /\ KindOf[r] = "create" /\ pc'[r] = "checked" /\ RefOf[r] # None => "ref" \in gaps'[r]
                    /\ \A i \in gaps'[r], q \in Requests \ {r} : SameKey(r, q, i) => ~OnTable(q)'
  BY DEF Fenced
(* The gaps that it has already stay empty.                                *)
<1>1. ASSUME NEW i \in gaps[r], NEW q \in Requests \ {r}, SameKey(r, q, i) PROVE ~OnTable(q)'
  <2>1. ~OnTable(q)
    BY <1>1 DEF Fenced
  <2>2. ~Insert(q)
    <3>1. SameKey(q, r, i)
      BY <1>1 DEF SameKey
    <3> QED BY <1>1, <3>1 DEF Insert, Barred
  <2> QED BY <2>1, <2>2, Appears
<1>2. CASE ~Step(r)
  BY <1>1, <1>2, RequestMoves DEF Fenced
<1>3. CASE gaps'[r] = {} /\ pc'[r] \in {"done", "refused"}
  BY <1>3
<1>4. CASE Open(r)
  <2>1. pc'[r] = IF KindOf[r] = "create" THEN "opened" ELSE "routing"
    BY <1>4 DEF Open, TypeOK
  <2>2. gaps' = gaps /\ KindOf[r] \in {"create", "inbound"}
    BY <1>4, IntakeAssumption DEF Open
  <2> QED BY <1>1, <2>1, <2>2
<1>5. ASSUME NEW index \in Indexes, NEW next \in {"phone locked", "checked"},
             LockAndLook(r, index, next), UNCHANGED row
      PROVE  \/ gaps'[r] = {} /\ pc'[r] = "refused"
             \/ /\ gaps'[r] = gaps[r] \cup {index} /\ pc'[r] = next
                /\ \A i \in gaps'[r], q \in Requests \ {r} : SameKey(r, q, i) => ~OnTable(q)'
  <2>1. CASE End(r, "refused")
    BY <2>1 DEF End, TypeOK
  <2>2. CASE ~End(r, "refused")
    <3>1. /\ Found(row, r, index) = {}
          /\ \A q \in Requests \ {r} : SameKey(r, q, index) => row[q].state # "written"
          /\ pc' = [pc EXCEPT ![r] = next] /\ gaps' = [gaps EXCEPT ![r] = @ \cup {index}]
      BY <1>5, <2>2 DEF LockAndLook
    <3>2. ASSUME NEW q \in Requests \ {r}, SameKey(r, q, index) PROVE ~OnTable(q)
      <4>1. row[q].state \in {"none", "written"} \cup Live /\ row[q].state # "written"
        BY <3>1, <3>2 DEF TypeOK, Lead, States
      <4>2. CASE index = "phone"
        BY <3>1, <3>2, <4>1, <4>2 DEF Found, ByPhone, SameKey, OnTable
      <4>3. CASE index # "phone"
        <5>1. RefOf[r] # None /\ RefOf[q] = RefOf[r]
          BY <3>2, <4>3 DEF SameKey
        <5>2. OnTable(q) => row[q].ref = RefOf[r]
          BY <5>1 DEF Apart
        <5> QED BY <3>1, <4>1, <4>3, <5>1, <5>2 DEF Found, ByRef, OnTable
      <4> QED BY <4>2, <4>3
    <3>3. ASSUME NEW q \in Requests \ {r}, ~OnTable(q) PROVE ~OnTable(q)'
      BY <1>5, <3>3 DEF OnTable
    <3> QED BY <1>1, <3>1, <3>2, <3>3 DEF TypeOK
  <2> QED BY <2>1, <2>2
<1>6. CASE LockPhone(r)
  <2>1. pc[r] = "opened" /\ UNCHANGED row /\ LockAndLook(r, "phone", IF RefOf[r] = None THEN "checked" ELSE "phone locked")
    BY <1>6 DEF LockPhone
  <2>2. CASE gaps'[r] = {} /\ pc'[r] = "refused"
    BY <1>3, <2>2
  <2>3. CASE /\ gaps'[r] = gaps[r] \cup {"phone"}
             /\ pc'[r] = IF RefOf[r] = None THEN "checked" ELSE "phone locked"
             /\ \A i \in gaps'[r], q \in Requests \ {r} : SameKey(r, q, i) => ~OnTable(q)'
    BY <2>3
  <2> QED BY <1>5, <2>1, <2>2, <2>3 DEF Indexes
<1>7. CASE LockRef(r)
  <2>1. pc[r] = "phone locked" /\ UNCHANGED row /\ LockAndLook(r, "ref", "checked")
    BY <1>7 DEF LockRef
  <2>2. CASE gaps'[r] = {} /\ pc'[r] = "refused"
    BY <1>3, <2>2
  <2>3. CASE /\ gaps'[r] = gaps[r] \cup {"ref"} /\ pc'[r] = "checked"
             /\ \A i \in gaps'[r], q \in Requests \ {r} : SameKey(r, q, i) => ~OnTable(q)'
    BY <2>1, <2>3 DEF Fenced
  <2> QED BY <1>5, <2>1, <2>2, <2>3 DEF Indexes
<1>8. CASE Route(r)
  <2>1. pc[r] = "routing" /\ gaps' = gaps
    BY <1>8 DEF Route
  <2>2. KindOf[r] = "inbound" /\ pc'[r] # "opened"
    BY <1>8, <2>1 DEF Fenced, Route, TypeOK
  <2> QED BY <1>1, <2>1, <2>2
<1>9. CASE Insert(r)
  <2>1. pc'[r] = "inserted" /\ gaps' = gaps
    BY <1>9 DEF Insert, TypeOK
  <2> QED BY <1>1, <2>1
<1>10. CASE Save(r) \/ Deadlocked(r) \/ Commit(r)
  BY <1>3, <1>10 DEF Save, Deadlocked, Commit, End, TypeOK
<1> QED BY <1>2, <1>4, <1>6, <1>7, <1>8, <1>9, <1>10 DEF Step

(* For any number of concurrent create_lead calls, deliveries and status   *)
(* changes, where locking reads fail on rows newer than the snapshot: no   *)
(* two agents' leads share a phone number or an external reference.        *)
THEOREM OneLeadPerKey == ASSUME SnapshotConflicts PROVE Spec => []OneAgentLead
<1> DEFINE Inv == PlacedInv /\ Fenced /\ Apart
<1>1. Init => Fenced /\ Apart
  <2> SUFFICES ASSUME Init PROVE Fenced /\ Apart
    OBVIOUS
  <2>1. \A m \in Requests : ~OnTable(m) /\ pc[m] = "start" /\ gaps[m] = {}
    BY DEF Init, OnTable, Blank
  <2> QED BY <2>1 DEF Fenced, Apart
<1>2. Inv /\ [Next]_vars => (Fenced /\ Apart)'
  BY ApartStep, FencedStep
<1>3. Inv => OneAgentLead
  <2> SUFFICES ASSUME Apart, NEW m \in Requests, NEW n \in Requests, m # n, AgentLead(m), AgentLead(n)
               PROVE  PhoneOf[m] # PhoneOf[n] /\ (RefOf[m] # None => RefOf[m] # RefOf[n])
    BY DEF OneAgentLead
  <2>1. OnTable(m) /\ OnTable(n) /\ KindOf[m] = "create" /\ KindOf[n] = "create"
    BY DEF AgentLead, OnTable, Live
  <2>2. \A i \in Indexes : ~SameKey(m, n, i)
    BY <2>1 DEF Apart
  <2> QED BY <2>2 DEF SameKey, Indexes
<1> QED BY <1>1, <1>2, <1>3, PlacedInvariant, PTL DEF Spec
=============================================================================
