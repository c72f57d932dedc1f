----------------------- MODULE ApplicationIntakeProofs -----------------------
(***************************************************************************)
(* Machine-checked proofs about ApplicationIntake and ApplicationFile, for *)
(* every set of calls, leads, documents, officers and amounts.             *)
(***************************************************************************)
EXTENDS ApplicationFile, TLAPS

LEMMA RivalsMutual ==
    ASSUME NEW r \in Requests, NEW q \in Rivals(r)
    PROVE  q \in Requests /\ r \in Rivals(q)
BY DEF Rivals

(* How locks and rows go with where a call stands.                         *)
LockInv ==
    /\ \A r \in Requests : row[r] = "written" <=> pc[r] = "inserted"
    /\ \A r \in Requests : pc[r] \in {"locked", "checked", "inserted"} => held[r] \in {"gap", "row"}
    /\ \A r \in Requests : pc[r] \in {"start", "opened", "done", "refused"} => held[r] = "none"

LEMMA InitInv == Init => TypeOK /\ LockInv
BY DEF Init, TypeOK, LockInv

(* The states of calls, rows and locks go together through every step.     *)
LEMMA TypeStep == TypeOK /\ LockInv /\ [Next]_vars => TypeOK' /\ LockInv'
<1> SUFFICES ASSUME TypeOK, LockInv, [Next]_vars PROVE TypeOK' /\ LockInv'
  OBVIOUS
<1>1. CASE UNCHANGED vars
  BY <1>1 DEF vars, TypeOK, LockInv
<1>2. ASSUME NEW r \in Requests, Step(r) PROVE TypeOK' /\ LockInv'
  <2> USE DEF TypeOK, LockInv
  <2>1. CASE Open(r)
    BY <2>1 DEF Open, Committed
  <2>2. CASE Lock(r)
    <3>1. \E to \in {"locked", "refused"}, lock \in {"none", "gap", "row"} :
              /\ pc' = [pc EXCEPT ![r] = to] /\ held' = [held EXCEPT ![r] = lock]
              /\ to = "refused" <=> lock = "none"
      BY <2>2 DEF Lock, Finish
    <3>2. UNCHANGED <<view, row>> /\ pc[r] = "opened"
      BY <2>2 DEF Lock
    <3> QED BY <3>1, <3>2
  <2>3. CASE Check(r)
    BY <2>3 DEF Check, Finish
  <2>4. CASE Insert(r)
    BY <2>4 DEF Insert
  <2>5. CASE Deadlocked(r)
    BY <2>5 DEF Deadlocked, Finish
  <2>6. CASE Commit(r)
    BY <2>6 DEF Commit, Finish
  <2> QED BY <1>2, <2>1, <2>2, <2>3, <2>4, <2>5, <2>6 DEF Step
<1> QED BY <1>1, <1>2 DEF Next

(* The states of calls, locks and rows in every execution.                 *)
THEOREM CallsTyped == Spec => []TypeOK
BY InitInv, TypeStep, PTL DEF Spec

(***************************************************************************)
(* One application per lead.                                               *)
(***************************************************************************)
(* A call that holds the gap has no rival with a row; a call whose locking *)
(* read met a row has that row in its snapshot, so it will see it and stop.*)
GapInv ==
    /\ \A r \in Requests : pc[r] \in {"checked", "inserted"} => held[r] = "gap"
    /\ \A r \in Requests : held[r] = "gap" => \A q \in Rivals(r) : row[q] = "none"
    /\ \A r \in Requests : pc[r] = "locked" /\ held[r] = "row" => view[r] \cap Rivals(r) # {}
    /\ \A r \in Requests : row[r] # "none" => \A q \in Rivals(r) : row[q] = "none"

LEMMA GapStep ==
    ASSUME SnapshotConflicts, TypeOK, LockInv, GapInv, [Next]_vars
    PROVE  GapInv'
<1> USE DEF TypeOK
<1>0. ASSUME UNCHANGED row, NEW r \in Requests,
             \A q \in Requests \ {r} : /\ held'[q] = held[q] /\ pc'[q] = pc[q]
                                       /\ view'[q] = view[q],
             held'[r] = "gap" => held[r] = "gap" \/ \A q \in Rivals(r) : row[q] = "none",
             pc'[r] = "locked" /\ held'[r] = "row" => view'[r] \cap Rivals(r) # {},
             pc'[r] \in {"checked", "inserted"} => held'[r] = "gap"
      PROVE  GapInv'
  BY <1>0 DEF GapInv, Rivals
<1>1. CASE UNCHANGED vars
  BY <1>1 DEF vars, GapInv, Rivals
<1>2. ASSUME NEW r \in Requests, Step(r) PROVE GapInv'
  <2>1. CASE Open(r)
    BY <2>1, <1>0 DEF Open
  <2>2. CASE Lock(r)
    <3>1. \A q \in Rivals(r) : row[q] # "written"
      BY <2>2 DEF Lock
    <3>2. ASSUME Committed(Rivals(r)) = {} PROVE \A q \in Rivals(r) : row[q] = "none"
      BY <3>1, <3>2, RivalsMutual DEF Committed
    <3>3. ASSUME Committed(Rivals(r)) # {}, Committed(Rivals(r)) \subseteq view[r]
          PROVE  view[r] \cap Rivals(r) # {}
      BY <3>3 DEF Committed
    <3> QED BY <2>2, <3>2, <3>3, <1>0 DEF Lock, Finish
  <2>3. CASE Check(r)
    <3>1. held[r] = "gap" \/ view[r] \cap Rivals(r) # {}
      BY <2>3 DEF Check, LockInv, GapInv
    <3> QED BY <2>3, <3>1, <1>0 DEF Check, Finish
  <2>4. CASE Insert(r)
    <3>1. held[r] = "gap"
      BY <2>4 DEF Insert, GapInv
    <3>2. \A q \in Rivals(r) : row[q] = "none" /\ held[q] = "none"
      BY <2>4, <3>1 DEF Insert, GapInv
    <3>3. row' = [row EXCEPT ![r] = "written"] /\ pc' = [pc EXCEPT ![r] = "inserted"]
          /\ UNCHANGED <<view, held>>
      BY <2>4 DEF Insert
    <3>4. \A q \in Rivals(r) : r \in Rivals(q) /\ q \in Requests
      BY RivalsMutual
    <3>5. ASSUME NEW q \in Requests, held'[q] = "gap", NEW k \in Rivals(q) PROVE row'[k] = "none"
      <4>1. k # r
        BY <3>2, <3>3, <3>5, RivalsMutual
      <4> QED BY <3>3, <3>5, <4>1, RivalsMutual DEF GapInv
    <3>6. ASSUME NEW q \in Requests, row'[q] # "none", NEW k \in Rivals(q) PROVE row'[k] = "none"
      <4>1. CASE q = r
        BY <3>2, <3>3, <3>6, <4>1 DEF Rivals
      <4>2. CASE q # r
        <5>1. k # r
          BY <3>2, <3>3, <3>6, <4>2, RivalsMutual
        <5> QED BY <3>3, <3>6, <4>2, <5>1, RivalsMutual DEF GapInv
      <4> QED BY <4>1, <4>2
    <3>7. ASSUME NEW q \in Requests, pc'[q] = "locked", held'[q] = "row"
          PROVE  view'[q] \cap Rivals(q) # {}
      BY <3>3, <3>7 DEF GapInv
    <3>8. \A q \in Requests : Rivals(q)' = Rivals(q)
      BY DEF Rivals
    <3>9. ASSUME NEW q \in Requests, pc'[q] \in {"checked", "inserted"} PROVE held'[q] = "gap"
      BY <3>1, <3>3, <3>9 DEF GapInv
    <3> QED BY <3>5, <3>6, <3>7, <3>8, <3>9 DEF GapInv
  <2>5. CASE Deadlocked(r)
    BY <2>5, <1>0 DEF Deadlocked, Finish
  <2>6. CASE Commit(r)
    <3>1. row[r] # "none"
      BY <2>6 DEF Commit, LockInv
    <3>2. /\ \A q \in Requests : row'[q] = "none" <=> row[q] = "none"
          /\ \A q \in Requests : held'[q] = "gap" => held[q] = "gap"
          /\ \A q \in Requests : pc'[q] = "locked" => pc[q] = "locked" /\ held'[q] = held[q]
          /\ \A q \in Requests : pc'[q] \in {"checked", "inserted"} => pc[q] = pc'[q] /\ held'[q] = held[q]
          /\ UNCHANGED view
      BY <2>6, <3>1 DEF Commit, Finish
    <3> QED BY <3>2 DEF GapInv, Rivals
  <2> QED BY <1>2, <2>1, <2>2, <2>3, <2>4, <2>5, <2>6 DEF Step
<1> QED BY <1>1, <1>2 DEF Next

(* On a database whose locking reads fail on rows newer than the snapshot, *)
(* any number of overlapping calls leaves one application per lead.        *)
THEOREM OneApplication ==
    ASSUME SnapshotConflicts
    PROVE  Spec => []OneApplicationPerLead
<1>1. Init => GapInv
  BY DEF Init, GapInv
<1>2. TypeOK /\ LockInv /\ GapInv /\ [Next]_vars => GapInv'
  BY GapStep
<1>3. GapInv => OneApplicationPerLead
  BY DEF GapInv, OneApplicationPerLead, Rivals
<1> QED BY <1>1, <1>2, <1>3, InitInv, TypeStep, PTL DEF Spec

(***************************************************************************)
(* The file of an application.                                             *)
(***************************************************************************)
FileTyped ==
    /\ form \in [Leads -> Form]
    /\ paper \in [Documents -> Paper]
    /\ trail \in [Documents -> [uploaded : {0, 1}, deleted : Nat]]
    /\ job \in [FileCallers -> Job]

(* What a call under way has loaded is as it stands unless it is marked    *)
(* old, and it passed the check its kind calls for.                        *)
Loaded(c) ==
    job[c] # None =>
        /\ job[c].kind \in Saves /\ ~job[c].stale => job[c].row = form[job[c].app]
        /\ job[c].kind = "amount" => job[c].row.status = "Active"
AllLoaded == \A c \in FileCallers : Loaded(c)

(* Call b is still what it was after call c ended; not marked old only if  *)
(* c wrote nothing b has loaded.                                           *)
GoesOn(b, c) ==
    /\ b # c /\ job[b] # None
    /\ job'[b].kind = job[b].kind /\ job'[b].app = job[b].app
    /\ job'[b].row = job[b].row
    /\ ~job'[b].stale => ~job[b].stale

LEMMA JobFields ==
    ASSUME FileTyped, NEW c \in FileCallers, job[c] # None
    PROVE  /\ job[c].kind \in Kinds /\ job[c].app \in Leads /\ job[c].docs \in SUBSET Documents
           /\ job[c].row \in Form \cup {None}
BY DEF FileTyped, Job

LEMMA ClosedUnwritten ==
    ASSUME FileTyped, NEW c \in FileCallers, Close(c, FALSE)
    PROVE  /\ job' \in [FileCallers -> Job] /\ job'[c] = None
           /\ \A b \in FileCallers \ {c} : job'[b] = job[b]
<1>1. /\ job'[c] = None /\ \A b \in FileCallers \ {c} : job'[b] = job[b]
      /\ job' = [b \in FileCallers |-> job'[b]]
  BY DEF Close
<1>2. None \in Job
  BY DEF Job
<1> QED BY <1>1, <1>2 DEF FileTyped

LEMMA ClosedWritten ==
    ASSUME FileTyped, NEW c \in FileCallers, Close(c, TRUE)
    PROVE  /\ job' \in [FileCallers -> Job] /\ job'[c] = None
           /\ \A b \in FileCallers : job'[b] # None =>
                  /\ GoesOn(b, c)
                  /\ ~job'[b].stale /\ job[b].kind \in Saves => job[b].app # job[c].app
<1>1. /\ job' = [b \in FileCallers |-> job'[b]]
      /\ job'[c] = None
      /\ \A b \in FileCallers \ {c} :
             job'[b] = IF job[b] # None /\ job[b].kind \notin Papers /\ job[b].app = job[c].app
                       THEN [job[b] EXCEPT !.stale = TRUE] ELSE job[b]
  BY DEF Close
<1>2. None \in Job
  BY DEF Job
<1>3. ASSUME NEW b \in FileCallers, job[b] # None
      PROVE  LET r == [job[b] EXCEPT !.stale = TRUE] IN
             /\ r \in Job /\ r.stale /\ r.kind = job[b].kind /\ r.app = job[b].app
             /\ r.row = job[b].row
  BY <1>3 DEF FileTyped, Job
<1>4. job' \in [FileCallers -> Job]
  BY <1>1, <1>2, <1>3 DEF FileTyped
<1>5. \A kind \in Saves : kind \notin Papers
  BY DEF Saves, Papers
<1>6. ASSUME NEW b \in FileCallers, job'[b] # None
      PROVE  /\ GoesOn(b, c)
             /\ ~job'[b].stale /\ job[b].kind \in Saves => job[b].app # job[c].app
  <2>0. b # c /\ job[b] # None
    BY <1>1, <1>6
  <2>1. CASE job[b].kind \notin Papers /\ job[b].app = job[c].app
    <3>1. job'[b] = [job[b] EXCEPT !.stale = TRUE]
      BY <1>1, <2>0, <2>1
    <3>2. /\ job'[b].stale /\ job'[b].kind = job[b].kind /\ job'[b].app = job[b].app
          /\ job'[b].row = job[b].row
      BY <1>3, <2>0, <3>1
    <3> QED BY <2>0, <3>2 DEF GoesOn
  <2>2. CASE job[b].kind \in Papers \/ job[b].app # job[c].app
    <3>1. job'[b] = job[b]
      BY <1>1, <2>0, <2>2
    <3> QED BY <1>5, <2>0, <2>2, <3>1 DEF GoesOn
  <2> QED BY <2>1, <2>2
<1> QED BY <1>1, <1>4, <1>6

(* On an older database two deletions can both be told of.                 *)
Recorded == SnapshotConflicts => OnRecord

FileInv == FileTyped /\ AllLoaded /\ Recorded

UnderReview(l) ==
    form[l].status # "Active" => /\ form'[l].status = form[l].status
                                 /\ form'[l].amount = form[l].amount

(* A step that leaves the rows of applications alone.                      *)
LEMMA LoadedStays ==
    ASSUME AllLoaded, UNCHANGED form,
           \A b \in FileCallers : job'[b] # None => job'[b] = job[b] \/ Loaded(b)'
    PROVE  AllLoaded'
BY DEF AllLoaded, Loaded

(* A call that writes its application leaves what is under review, if what *)
(* it writes does.                                                         *)
LEMMA WriteStands ==
    ASSUME FileInv, NEW c \in FileCallers, job[c] # None, NEW new \in Form,
           form' = [form EXCEPT ![job[c].app] = new], Close(c, TRUE), UNCHANGED <<paper, trail>>,
           form[job[c].app].status # "Active" =>
               new.status = form[job[c].app].status /\ new.amount = form[job[c].app].amount
    PROVE  FileInv' /\ \A l \in Leads : UnderReview(l)
<1> USE DEF FileInv
<1>1. job[c].app \in Leads
  BY JobFields
<1>2. /\ form' \in [Leads -> Form] /\ form'[job[c].app] = new
      /\ \A l \in Leads \ {job[c].app} : form'[l] = form[l]
  BY <1>1 DEF FileTyped
<1>3. FileTyped' /\ Recorded'
  BY <1>2, ClosedWritten DEF FileTyped, Recorded, OnRecord
<1>4. ASSUME NEW b \in FileCallers PROVE Loaded(b)'
  <2> SUFFICES ASSUME job'[b] # None
               PROVE  /\ job'[b].kind \in Saves /\ ~job'[b].stale => job'[b].row = form'[job'[b].app]
                      /\ job'[b].kind = "amount" => job'[b].row.status = "Active"
    BY DEF Loaded
  <2>1. GoesOn(b, c) /\ (~job'[b].stale /\ job[b].kind \in Saves => job[b].app # job[c].app)
    BY ClosedWritten
  <2>2. Loaded(b) /\ job[b] # None /\ job[b].app \in Leads
    BY <2>1, JobFields DEF AllLoaded, GoesOn
  <2>3. ASSUME job'[b].kind \in Saves, ~job'[b].stale PROVE job'[b].row = form'[job'[b].app]
    <3>1. job[b].row = form[job[b].app] /\ job[b].app # job[c].app
      BY <2>1, <2>2, <2>3 DEF GoesOn, Loaded
    <3> QED BY <1>2, <2>1, <2>2, <3>1 DEF GoesOn
  <2>4. job'[b].kind = "amount" => job'[b].row.status = "Active"
    BY <2>1, <2>2 DEF GoesOn, Loaded
  <2> QED BY <2>3, <2>4
<1>5. \A l \in Leads : UnderReview(l)
  BY <1>2 DEF UnderReview
<1> QED BY <1>3, <1>4, <1>5 DEF AllLoaded

(* So does a call that changes documents only.                             *)
LEMMA PaperStands ==
    ASSUME FileInv, NEW c \in FileCallers,
           UNCHANGED form, Close(c, FALSE), FileTyped', Recorded'
    PROVE  FileInv' /\ \A l \in Leads : UnderReview(l)
<1> USE DEF FileInv
<1>1. job'[c] = None /\ \A b \in FileCallers \ {c} : job'[b] = job[b]
  BY ClosedUnwritten
<1>2. AllLoaded'
  BY <1>1, LoadedStays
<1>3. \A l \in Leads : UnderReview(l)
  BY DEF UnderReview
<1> QED BY <1>2, <1>3

(* Each call of the file, and each step between them, leaves the terms a   *)
(* bank reviews.                                                           *)
LEMMA FileStands ==
    ASSUME FileInv, [FileNext]_<<vars, fileVars>>
    PROVE  FileInv' /\ \A l \in Leads : UnderReview(l)
<1> USE DEF FileInv
<1>1. ASSUME UNCHANGED <<form, paper, trail>>, job' \in [FileCallers -> Job],
             \A b \in FileCallers : job'[b] # None => job'[b] = job[b] \/ Loaded(b)'
      PROVE  FileInv' /\ \A l \in Leads : UnderReview(l)
  <2>1. FileTyped' /\ Recorded'
    BY <1>1 DEF FileTyped, Recorded, OnRecord
  <2>2. \A l \in Leads : UnderReview(l)
    BY <1>1 DEF UnderReview
  <2> QED BY <1>1, <2>1, <2>2, LoadedStays
<1>2. CASE (Next /\ UNCHANGED fileVars) \/ UNCHANGED <<vars, fileVars>>
  BY <1>1, <1>2 DEF fileVars, FileTyped
<1>3. ASSUME NEW c \in FileCallers, NEW kind \in Kinds, NEW l \in Leads, NEW docs \in SUBSET Documents,
             Begin(c, kind, l, docs)
      PROVE  FileInv' /\ \A m \in Leads : UnderReview(m)
  <2> DEFINE t == [kind |-> kind, app |-> l, docs |-> docs, stale |-> FALSE,
                   row |-> IF kind \in Saves THEN form[l] ELSE None]
  <2>1. job' = [job EXCEPT ![c] = t] /\ UNCHANGED <<form, paper, trail>> /\ DraftRequired(c, kind, l)
    BY <1>3 DEF Begin
  <2>2. t \in Job
    BY DEF FileTyped, Job
  <2>3. t.kind = kind /\ t.app = l /\ t.row = IF kind \in Saves THEN form[l] ELSE None
    OBVIOUS
  <2> HIDE DEF t
  <2>4. job' \in [FileCallers -> Job] /\ job'[c] = t /\ \A b \in FileCallers \ {c} : job'[b] = job[b]
    BY <2>1, <2>2 DEF FileTyped
  <2>5. kind = "amount" => kind \in Saves /\ form[l].status = "Active"
    BY <2>1 DEF Saves, DraftRequired
  <2>7. t.kind = "amount" => t.row.status = "Active"
    BY <2>3, <2>5
  <2>8. Loaded(c)'
    BY <2>1, <2>3, <2>4, <2>7 DEF Loaded
  <2> QED BY <1>1, <2>1, <2>4, <2>8
<1>4. ASSUME NEW c \in FileCallers, UploadSupportingDocuments(c)
      PROVE  FileInv' /\ \A l \in Leads : UnderReview(l)
  <2>1. /\ job[c] # None /\ job[c].kind = "upload" /\ job[c].kind \in Papers
        /\ UNCHANGED form /\ Close(c, FALSE)
    BY <1>4 DEF UploadSupportingDocuments, Under, Papers
  <2>2. PICK kept \in SUBSET Unused :
            /\ paper' = [d \in Documents |-> IF d \in kept THEN job[c].app ELSE paper[d]]
            /\ \/ trail' = [d \in Documents |-> IF d \in kept THEN [trail[d] EXCEPT !.uploaded = 1] ELSE trail[d]]
               \/ trail' = [d \in Documents |-> trail[d]]
    BY <1>4 DEF UploadSupportingDocuments
  <2>3. job[c].app \in Leads \ {"unused", "deleted"}
    BY <2>1, JobFields, FileAssumption
  <2>4. \A d \in Documents : /\ d \in kept => paper[d] = "unused" /\ paper'[d] = job[c].app
                             /\ d \notin kept => paper'[d] = paper[d]
    BY <2>2 DEF Unused
  <2>5. /\ trail' \in [Documents -> [uploaded : {0, 1}, deleted : Nat]]
        /\ \A d \in Documents : /\ trail'[d].deleted = trail[d].deleted
                                /\ d \notin kept => trail'[d].uploaded = trail[d].uploaded
    BY <2>2 DEF FileTyped
  <2>6. paper' \in [Documents -> Paper]
    BY <2>2, <2>3 DEF FileTyped, Paper
  <2>7. FileTyped'
    BY <2>1, <2>5, <2>6, ClosedUnwritten DEF FileTyped
  <2>8. Recorded'
    BY <2>3, <2>4, <2>5 DEF Recorded, OnRecord
  <2> QED BY <2>1, <2>7, <2>8, PaperStands
<1>5. ASSUME NEW c \in FileCallers, DeleteSupportingDocument(c)
      PROVE  FileInv' /\ \A l \in Leads : UnderReview(l)
  <2>1. /\ job[c] # None /\ job[c].kind = "delete" /\ job[c].kind \in Papers
        /\ UNCHANGED form /\ Close(c, FALSE)
    BY <1>5 DEF DeleteSupportingDocument, Under, Papers
  <2>2. PICK e \in job[c].docs :
            /\ SnapshotConflicts => paper[e] = job[c].app
            /\ paper' = [paper EXCEPT ![e] = "deleted"]
            /\ trail' = [trail EXCEPT ![e].deleted = @ + 1]
    BY <1>5 DEF DeleteSupportingDocument
  <2>3. e \in Documents /\ job[c].app \in Leads \ {"unused", "deleted"}
    BY <2>1, JobFields, FileAssumption
  <2>4. /\ paper' \in [Documents -> Paper] /\ paper'[e] = "deleted"
        /\ \A d \in Documents \ {e} : paper'[d] = paper[d]
    BY <2>2, <2>3 DEF FileTyped, Paper
  <2>5. /\ trail' \in [Documents -> [uploaded : {0, 1}, deleted : Nat]]
        /\ trail'[e].deleted = trail[e].deleted + 1 /\ trail[e].deleted \in Nat
        /\ \A d \in Documents \ {e} : trail'[d] = trail[d]
    BY <2>2, <2>3 DEF FileTyped
  <2>6. FileTyped'
    BY <2>1, <2>4, <2>5, ClosedUnwritten DEF FileTyped
  <2>7. SnapshotConflicts => trail[e].deleted = 0
    BY <2>2, <2>3 DEF Recorded, OnRecord
  <2>8. Recorded'
    BY <2>4, <2>5, <2>7 DEF Recorded, OnRecord
  <2> QED BY <2>1, <2>6, <2>8, PaperStands
<1>6. ASSUME NEW c \in FileCallers, UpdateLoanStep(c) \/ AssignLoanOfficer(c) \/ UpdateApplication(c)
      PROVE  FileInv' /\ \A l \in Leads : UnderReview(l)
  <2> DEFINE old == form[job[c].app]
  <2>1. job[c] # None /\ job[c].kind \in Saves
    BY <1>6 DEF UpdateLoanStep, AssignLoanOfficer, UpdateApplication, Under, Saves
  <2>2. \E new : Save(c, new)
    BY <1>6 DEF UpdateLoanStep, AssignLoanOfficer, UpdateApplication
  <2>3. ~job[c].stale
    BY <2>2 DEF Save
  <2>4. job[c].row = old /\ old \in Form
    BY <2>1, <2>3, JobFields DEF AllLoaded, Loaded, FileTyped
  <2>5. ASSUME NEW new \in Form, Save(c, new),
               old.status # "Active" => new.status = old.status /\ new.amount = old.amount
        PROVE  FileInv' /\ \A l \in Leads : UnderReview(l)
    BY <2>1, <2>5, WriteStands DEF Save
  <2>6. CASE UpdateLoanStep(c)
    <3>1. PICK step \in 1..MaxStep : Save(c, [old EXCEPT !.step = step])
      BY <2>4, <2>6 DEF UpdateLoanStep
    <3> DEFINE new == [old EXCEPT !.step = step]
    <3>2. new \in Form /\ new.status = old.status /\ new.amount = old.amount
      BY <2>4 DEF Form
    <3> HIDE DEF new, old
    <3> QED BY <2>5, <3>1, <3>2 DEF new
  <2>7. CASE AssignLoanOfficer(c)
    <3>1. PICK officer \in Officers : Save(c, [old EXCEPT !.officer = officer])
      BY <2>4, <2>7 DEF AssignLoanOfficer
    <3> DEFINE new == [old EXCEPT !.officer = officer]
    <3>2. new \in Form /\ new.status = old.status /\ new.amount = old.amount
      BY <2>4 DEF Form
    <3> HIDE DEF new, old
    <3> QED BY <2>5, <3>1, <3>2 DEF new
  <2>8. CASE UpdateApplication(c)
    <3>1. PICK amount \in Amounts : Save(c, [old EXCEPT !.amount = amount])
      BY <2>4, <2>8 DEF UpdateApplication
    <3>2. old.status = "Active"
      BY <2>1, <2>4, <2>8 DEF UpdateApplication, Under, AllLoaded, Loaded
    <3> DEFINE new == [old EXCEPT !.amount = amount]
    <3>3. new \in Form
      BY <2>4 DEF Form
    <3> HIDE DEF new, old
    <3> QED BY <2>5, <3>1, <3>2, <3>3 DEF new
  <2> QED BY <1>6, <2>6, <2>7, <2>8
<1>7. ASSUME NEW c \in FileCallers, SubmitApplication(c)
      PROVE  FileInv' /\ \A l \in Leads : UnderReview(l)
  <2> DEFINE old == form[job[c].app]
             new == [old EXCEPT !.status = "In Transition"]
  <2>1. /\ job[c] # None /\ Close(c, TRUE) /\ UNCHANGED <<paper, trail>>
        /\ \/ old.status = "Active" /\ form' = [form EXCEPT ![job[c].app] = new]
           \/ UNCHANGED form
    BY <1>7 DEF SubmitApplication, Under
  <2>2. old \in Form /\ job[c].app \in Leads
    BY <2>1, JobFields DEF FileTyped
  <2>3. new \in Form
    BY <2>2 DEF Form
  <2>4. UNCHANGED form => form' = [form EXCEPT ![job[c].app] = old]
    BY <2>2 DEF FileTyped
  <2> HIDE DEF new
  <2> QED BY <2>1, <2>2, <2>3, <2>4, WriteStands
<1>8. ASSUME NEW c \in FileCallers, Refuse(c)
      PROVE  FileInv' /\ \A l \in Leads : UnderReview(l)
  BY <1>1, <1>8, ClosedUnwritten DEF Refuse
<1> QED BY <1>2, <1>3, <1>4, <1>5, <1>6, <1>7, <1>8 DEF FileNext, FileStep

LEMMA FileStarts == FileInit => FileInv
<1> SUFFICES ASSUME FileInit PROVE FileInv
  OBVIOUS
<1>1. [status |-> "Active", step |-> 1, amount |-> 0, officer |-> None] \in Form
  BY FileAssumption DEF Form
<1>2. form \in [Leads -> Form]
  BY <1>1 DEF FileInit
<1>3. \A c \in FileCallers : job[c] = None
  BY DEF FileInit
<1>4. job \in [FileCallers -> Job]
  BY DEF FileInit, Job
<1>5. paper \in [Documents -> Paper] /\ trail \in [Documents -> [uploaded : {0, 1}, deleted : Nat]]
  BY DEF FileInit, Paper
<1>6. Recorded
  BY DEF FileInit, Recorded, OnRecord
<1> QED BY <1>2, <1>3, <1>4, <1>5, <1>6 DEF FileInv, FileTyped, AllLoaded, Loaded

(* For any number of overlapping calls on any number of applications, on   *)
(* either database: an application that was submitted keeps its amount and *)
(* is no draft again.                                                      *)
THEOREM SubmittedStands == FileSpec => SubmittedTermsStand
<1>1. FileInv /\ [FileNext]_<<vars, fileVars>> =>
          FileInv' /\ [\A l \in Leads : UnderReview(l)]_<<vars, fileVars>>
  BY FileStands
<1> QED BY <1>1, FileStarts, PTL DEF FileSpec, SubmittedTermsStand, UnderReview

(* Where the database refuses a write of a row newer than its snapshot:    *)
(* each deletion of a document is told of once, each announced upload came.*)
THEOREM DocumentsOnRecord == ASSUME SnapshotConflicts PROVE FileSpec => []OnRecord
<1>1. FileInv => OnRecord
  BY DEF FileInv, Recorded
<1>2. FileInv /\ [FileNext]_<<vars, fileVars>> => FileInv'
  BY FileStands
<1> QED BY <1>1, <1>2, FileStarts, PTL DEF FileSpec
=============================================================================
