------------------------ MODULE ConsentRequestProofs ------------------------
(***************************************************************************)
(* The row lock of verify_otp and submit_consent does what it is for, for  *)
(* any number of calls and queue workers, whatever deliveries carry.       *)
(***************************************************************************)
EXTENDS ConsentRequest, TLAPS

Actors == OtpCalls \cup Acts \cup Jobs
Early  == {"start", "free", "locked", "opening", "answered", "unanswered"}
Places == Early \cup {"begun", "asking", "idle", "running", "done", "refused", "dead"}

(* Only acts hold rows, and who is at work on a request has one.           *)
Shape ==
    /\ pc \in [Actors -> Places]
    /\ holder \in [OtpCalls -> Acts \cup {None}]
    /\ \A c \in Acts \cup Jobs : pc[c] \in {"begun", "asking", "running"} => target[c] \in OtpCalls

(* A request_otp call that has not ended has not written its request, and  *)
(* only written requests are worked on.                                    *)
OnRecord(r) == row[r].status # "none"

Written ==
    /\ \A r \in OtpCalls : pc[r] \in Early => ~OnRecord(r)
    /\ \A r \in OtpCalls : row[r].registered => OnRecord(r)
    /\ \A r \in due : OnRecord(r)
    /\ \A c \in Acts \cup Jobs : pc[c] \in {"begun", "asking", "running"} => OnRecord(target[c])

(* Who asks the registry holds the request's row, which is as it read it.  *)
Held ==
    \A c \in Acts : pc[c] = "asking" =>
        /\ holder[target[c]] = c
        /\ row[target[c]] = view[c]
        /\ Ready(c)

Typed == TypeOK /\ Shape

(***************************************************************************)
(* Types.                                                                  *)
(***************************************************************************)
LEMMA RowsTyped ==
    /\ NoRow \in Row
    /\ \A old \in Row, s \in {"Pending OTP", "Approved", "Rejected", "Revoked", "Failed"} :
           /\ [old EXCEPT !.status = s] \in Row
           /\ [old EXCEPT !.otp = "sent"] \in Row
           /\ [old EXCEPT !.otp = "verified"] \in Row
           /\ [old EXCEPT !.registered = TRUE] \in Row
BY DEF NoRow, Row

LEMMA InitTyped == Init => Typed
<1> SUFFICES ASSUME Init PROVE Typed
  OBVIOUS
<1>1. /\ \A c \in OtpCalls \cup Acts : pc[c] = "start"
      /\ \A j \in Jobs : pc[j] = "idle"
  BY ConsentAssumption DEF Init
<1>2. TypeOK
  BY <1>1, RowsTyped DEF Init, TypeOK
<1>3. Shape
  BY <1>1 DEF Init, Shape, Actors, Early, Places
<1> QED BY <1>2, <1>3 DEF Typed

(* A step of a request_otp call moves that call and nobody else.           *)
LEMMA OtpTyped ==
    ASSUME Typed, NEW c \in OtpCalls, OtpStep(c) \/ Die(c)
    PROVE  Typed'
<1> USE DEF Typed
<1>1. /\ UNCHANGED <<target, view, holder, due>>
      /\ \E where \in Early \cup {"done", "refused", "dead"} : pc' = [pc EXCEPT ![c] = where]
      /\ {lock', answer'} \subseteq OtpCalls \cup {None}
  <2>1. CASE ProbeLock(c)
    BY <2>1 DEF ProbeLock, Goto, TypeOK, Early
  <2>2. CASE TakeLock(c)
    BY <2>2 DEF TakeLock, Goto, TypeOK, Early
  <2>3. CASE Recall(c)
    BY <2>3 DEF Recall, Goto, TypeOK, Early
  <2>4. CASE AskForOtp(c)
    BY <2>4 DEF AskForOtp, Goto, TypeOK, Early
  <2>5. CASE CommitRequest(c)
    BY <2>5 DEF CommitRequest, Goto, TypeOK, Early
  <2>6. CASE Die(c)
    BY <2>6 DEF Die, Goto, TypeOK, Early
  <2> QED BY <2>1, <2>2, <2>3, <2>4, <2>5, <2>6 DEF OtpStep
<1>2. row' \in [OtpCalls -> Row]
  <2>1. CASE CommitRequest(c)
    <3>1. /\ [NoRow EXCEPT !.status = "Pending OTP"] \in Row
          /\ [NoRow EXCEPT !.status = "Pending OTP", !.otp = "sent"] \in Row
      BY DEF NoRow, Row
    <3>2. row' = row \/ \E new \in Row : row' = [row EXCEPT ![c] = new]
      BY <2>1, <3>1 DEF CommitRequest
    <3> QED BY <3>2 DEF TypeOK
  <2>2. CASE ~CommitRequest(c)
    BY <2>2 DEF OtpStep, ProbeLock, TakeLock, Recall, AskForOtp, Die, TypeOK
  <2> QED BY <2>1, <2>2
<1>3. \A d \in Actors \ {c} : pc'[d] = pc[d]
  BY <1>1 DEF Shape
<1>4. c \notin Acts \cup Jobs
  BY ConsentAssumption
<1>5. pc' \in [Actors -> Places]
  BY <1>1 DEF Shape, Early, Places
<1>6. pc'[c] \in Early \cup {"done", "refused", "dead"}
  BY <1>1 DEF Shape, Actors
<1>7. Shape'
  BY <1>1, <1>3, <1>4, <1>5 DEF Shape, Actors
<1>8. TypeOK'
  <2>1. \A d \in OtpCalls : pc'[d] \in Early \cup {"done", "refused", "dead"}
    BY <1>3, <1>6 DEF TypeOK, Actors, Early
  <2>2. \A r \in OtpCalls : holder'[r] # None => pc'[holder'[r]] = "asking" /\ target'[holder'[r]] = r
    BY <1>1, <1>3, <1>4 DEF TypeOK, Shape, Actors
  <2> QED BY <1>1, <1>2, <1>3, <1>4, <2>1, <2>2 DEF TypeOK, Actors, Early
<1> QED BY <1>7, <1>8

(* A step of an act or a job about the request it has: it moves itself and *)
(* at most that request, and a row that it holds after it, it asks about.  *)
LEMMA SubjectTyped ==
    ASSUME Typed, NEW c \in Acts \cup Jobs, NEW r \in OtpCalls, target[c] = r,
           NEW where \in Places, pc' = [pc EXCEPT ![c] = where],
           c \in Acts => where \in {"asking", "done", "refused"},
           c \in Jobs => where = "idle",
           row' = row \/ \E new \in Row : row' = [row EXCEPT ![r] = new],
           due' \subseteq OtpCalls, UNCHANGED <<lock, answer>>,
           \/ where = "asking" /\ holder' = [holder EXCEPT ![r] = c] /\ UNCHANGED <<target, view>>
           \/ /\ where # "asking" /\ Forget(c)
              /\ \/ pc[c] # "asking" /\ UNCHANGED holder
                 \/ holder' = [holder EXCEPT ![r] = None]
    PROVE  Typed'
<1> USE DEF Typed
<1>1. row' \in [OtpCalls -> Row]
  BY DEF TypeOK
<1>2. \A d \in Actors \ {c} : pc'[d] = pc[d] /\ (d \in Acts \cup Jobs => target'[d] = target[d])
  BY DEF Shape, Forget, TypeOK, Actors
<1>3. pc'[c] = where /\ c \in Actors
  BY DEF Shape, Actors
<1>4. target' \in [Acts \cup Jobs -> OtpCalls \cup {None}] /\ view' \in [Acts \cup Jobs -> Row]
  <2>1. CASE UNCHANGED <<target, view>>
    BY <2>1 DEF TypeOK
  <2>2. CASE Forget(c)
    <3>1. target' = [target EXCEPT ![c] = None] /\ view' = [view EXCEPT ![c] = NoRow]
      BY <2>2 DEF Forget
    <3>2. NoRow \in Row
      BY RowsTyped
    <3> QED BY <3>1, <3>2 DEF TypeOK
  <2> QED BY <2>1, <2>2
<1>5. holder' \in [OtpCalls -> Acts \cup {None}]
  BY ConsentAssumption DEF Shape, TypeOK
<1>6. ASSUME NEW q \in OtpCalls, holder'[q] # None
      PROVE  pc'[holder'[q]] = "asking" /\ target'[holder'[q]] = q
  <2>1. CASE where = "asking" /\ holder' = [holder EXCEPT ![r] = c] /\ UNCHANGED <<target, view>>
    BY <1>2, <1>3, <1>6, <2>1 DEF Shape, TypeOK, Actors
  <2>2. CASE where # "asking" /\ Forget(c)
    BY <1>2, <1>6, <2>2 DEF Shape, TypeOK, Actors
  <2> QED BY <2>1, <2>2
<1>7. Shape'
  <2>1. pc' \in [Actors -> Places]
    BY DEF Shape
  <2>2. \A d \in Acts \cup Jobs : pc'[d] \in {"begun", "asking", "running"} => target'[d] \in OtpCalls
    BY <1>2, <1>3, ConsentAssumption DEF Shape, Actors
  <2> QED BY <1>5, <2>1, <2>2 DEF Shape
<1>8. TypeOK'
  <2>1. c \notin OtpCalls
    BY ConsentAssumption
  <2>2. \A d \in OtpCalls : pc'[d] = pc[d]
    BY <1>2, <2>1 DEF Actors
  <2>3. \A d \in Acts : pc'[d] \in {"start", "begun", "asking", "done", "refused"}
    BY <1>2, <1>3 DEF TypeOK, Actors
  <2>4. \A d \in Jobs : pc'[d] \in {"idle", "running"}
    BY <1>2, <1>3 DEF TypeOK, Actors
  <2> QED BY <1>1, <1>4, <1>6, <2>2, <2>3, <2>4 DEF TypeOK
<1> QED BY <1>7, <1>8

LEMMA ActTyped == ASSUME Typed, NEW c \in Acts, ActStep(c) PROVE Typed'
<1> DEFINE r == target[c]
<1>1. CASE LockRow(c)
  <2>1. pc[c] = "begun" /\ r \in OtpCalls
    BY <1>1 DEF LockRow, Typed, Shape
  <2>2. PICK where \in {"asking", "done", "refused"} : pc' = [pc EXCEPT ![c] = where]
    BY <1>1 DEF LockRow, Goto
  <2>3. UNCHANGED <<lock, answer, row, due>> /\ due \subseteq OtpCalls
    BY <1>1 DEF LockRow, Typed, TypeOK
  <2>4. pc'[c] = where
    BY <2>2 DEF Typed, Shape, Actors
  <2>5. \/ where = "asking" /\ holder' = [holder EXCEPT ![r] = c] /\ UNCHANGED <<target, view>>
        \/ where # "asking" /\ Forget(c) /\ UNCHANGED holder
    <3>1. \/ pc' = [pc EXCEPT ![c] = "asking"] /\ holder' = [holder EXCEPT ![r] = c] /\ UNCHANGED <<target, view>>
          \/ (\E how \in {"done", "refused"} : pc' = [pc EXCEPT ![c] = how]) /\ Forget(c) /\ UNCHANGED holder
      BY <1>1 DEF LockRow, Goto
    <3> QED BY <2>4, <3>1 DEF Typed, Shape, Actors
  <2> QED BY <2>1, <2>2, <2>3, <2>5, SubjectTyped, ConsentAssumption DEF Places
<1>2. CASE VerifyOtp(c) \/ SubmitConsent(c)
  <2>1. pc[c] = "asking" /\ r \in OtpCalls
    BY <1>2 DEF VerifyOtp, SubmitConsent, Typed, Shape
  <2>2. row[r] \in Row
    BY <2>1 DEF Typed, TypeOK
  <2>3. row' = row \/ \E new \in Row : row' = [row EXCEPT ![r] = new]
    <3>1. [row[r] EXCEPT !.status = "Pending OTP", !.otp = "verified"] \in Row
      BY <2>2 DEF Row
    <3>2. [row[r] EXCEPT !.status = "Approved", !.registered = TRUE] \in Row
      BY <2>2 DEF Row
    <3>3. [row[r] EXCEPT !.status = "Rejected"] \in Row
      BY <2>2 DEF Row
    <3>4. \/ row' = row
          \/ row' = [row EXCEPT ![r] = [row[r] EXCEPT !.status = "Pending OTP", !.otp = "verified"]]
          \/ row' = [row EXCEPT ![r] = [row[r] EXCEPT !.status = "Approved", !.registered = TRUE]]
          \/ row' = [row EXCEPT ![r] = [row[r] EXCEPT !.status = "Rejected"]]
      BY <1>2, <2>1, <2>2 DEF VerifyOtp, SubmitConsent, Typed, TypeOK
    <3> QED BY <3>1, <3>2, <3>3, <3>4
  <2>4. UNCHANGED <<lock, answer>> /\ due' \subseteq OtpCalls
    <3>1. due' \in {due, due \cup {r}} /\ UNCHANGED <<lock, answer>>
      BY <1>2 DEF VerifyOtp, SubmitConsent
    <3> QED BY <2>1, <3>1 DEF Typed, TypeOK
  <2>5. PICK how \in {"done", "refused"} : End(c, how)
    BY <1>2 DEF VerifyOtp, SubmitConsent
  <2>6. pc' = [pc EXCEPT ![c] = how] /\ Forget(c) /\ holder' = [holder EXCEPT ![r] = None]
    BY <2>5 DEF End, Goto
  <2>7. c \notin Jobs /\ how \in Places /\ how # "asking"
    BY ConsentAssumption DEF Places
  <2> QED BY <2>1, <2>3, <2>4, <2>6, <2>7, SubjectTyped
<1> QED BY <1>1, <1>2 DEF ActStep

LEMMA FinishTyped == ASSUME Typed, NEW j \in Jobs, FinishJob(j) PROVE Typed'
<1> DEFINE r == target[j]
<1>1. /\ pc[j] = "running" /\ r \in OtpCalls /\ row[r] \in Row
      /\ pc' = [pc EXCEPT ![j] = "idle"] /\ Forget(j)
      /\ UNCHANGED <<lock, answer, holder, due>> /\ due \subseteq OtpCalls
  BY DEF FinishJob, Goto, Typed, TypeOK, Shape
<1>2. row' = row \/ \E new \in Row : row' = [row EXCEPT ![r] = new]
  <2>1. PICK status \in Delivered \cup {row[r].status, "Failed"} : row' = [row EXCEPT ![r].status = status]
    BY DEF FinishJob
  <2>2. [row[r] EXCEPT !.status = status] \in Row
    BY <1>1, ConsentAssumption DEF Row
  <2> QED BY <2>1, <2>2
<1> QED BY <1>1, <1>2, SubjectTyped, ConsentAssumption DEF Places

(* An act or a job takes up a request.                                     *)
LEMMA TakeUpTyped ==
    ASSUME Typed, NEW c \in Acts \cup Jobs, NEW r \in OtpCalls, NEW where,
           c \in Acts => pc[c] = "start" /\ where = "begun",
           c \in Jobs => pc[c] = "idle" /\ where = "running",
           pc' = [pc EXCEPT ![c] = where],
           target' = [target EXCEPT ![c] = r], view' = [view EXCEPT ![c] = row[r]],
           UNCHANGED <<lock, answer, row, holder>>, due' \subseteq due
    PROVE  Typed'
<1> USE DEF Typed
<1>1. \A d \in Actors \ {c} : pc'[d] = pc[d] /\ (d \in Acts \cup Jobs => target'[d] = target[d])
  BY DEF Shape, TypeOK, Actors
<1>2. pc'[c] = where /\ target'[c] = r
  BY DEF Shape, TypeOK, Actors
<1>3. where \in {"begun", "running"} /\ pc[c] # "asking"
  OBVIOUS
<1>4. Shape'
  BY <1>1, <1>2, <1>3 DEF Shape, Actors, Places
<1>5. TypeOK'
  <2>1. row[r] \in Row
    BY DEF TypeOK
  <2>2. target' \in [Acts \cup Jobs -> OtpCalls \cup {None}] /\ view' \in [Acts \cup Jobs -> Row]
    BY <2>1 DEF TypeOK
  <2>3. c \notin OtpCalls
    BY ConsentAssumption
  <2>4. /\ \A d \in OtpCalls : pc'[d] = pc[d]
        /\ \A d \in Acts : pc'[d] \in {"start", "begun", "asking", "done", "refused"}
        /\ \A d \in Jobs : pc'[d] \in {"idle", "running"}
    BY <1>1, <1>2, <2>3 DEF TypeOK, Actors
  <2>5. \A q \in OtpCalls : holder'[q] # None => pc'[holder'[q]] = "asking" /\ target'[holder'[q]] = q
    BY <1>1, <1>3 DEF TypeOK, Shape, Actors
  <2> QED BY <2>2, <2>4, <2>5 DEF TypeOK
<1> QED BY <1>4, <1>5

LEMMA TypedStep == Typed /\ [Next]_vars => Typed'
<1> SUFFICES ASSUME Typed, [Next]_vars PROVE Typed'
  OBVIOUS
<1>1. ASSUME NEW c \in OtpCalls, OtpStep(c) \/ Die(c) PROVE Typed'
  BY <1>1, OtpTyped
<1>2. ASSUME NEW c \in Acts, ActStep(c) PROVE Typed'
  BY <1>2, ActTyped
<1>3. ASSUME NEW c \in Acts, NEW r \in OtpCalls, Begin(c, r) PROVE Typed'
  BY <1>3, TakeUpTyped, ConsentAssumption DEF Begin, Goto
<1>4. ASSUME NEW j \in Jobs, FinishJob(j) PROVE Typed'
  BY <1>4, FinishTyped
<1>5. ASSUME NEW j \in Jobs, NEW r \in OtpCalls, StartJob(j, r) PROVE Typed'
  BY <1>5, TakeUpTyped, ConsentAssumption DEF StartJob, Goto
<1>6. CASE ExpireLock
  BY <1>6 DEF ExpireLock, Typed, TypeOK, Shape
<1>7. CASE UNCHANGED vars
  BY <1>7 DEF vars, Typed, TypeOK, Shape
<1> QED BY <1>1, <1>2, <1>3, <1>4, <1>5, <1>6, <1>7 DEF Next

(* For any number of calls and jobs: the tables are well typed, and a row  *)
(* is locked only by a call that asks the registry about it.               *)
THEOREM ConsentTyped == Spec => []TypeOK
<1>1. Spec => []Typed
  BY InitTyped, TypedStep, PTL DEF Spec
<1>2. Typed => TypeOK
  BY DEF Typed
<1> QED BY <1>1, <1>2, PTL

(***************************************************************************)
(* Who asks holds what it asks about.                                      *)
(***************************************************************************)
(* How each kind of step changes the rows: a request_otp call writes its   *)
(* own as it ends, an act or a job its target, which stays written.        *)
LEMMA OtpRows ==
    ASSUME Typed, NEW c \in OtpCalls, OtpStep(c) \/ Die(c)
    PROVE  /\ UNCHANGED <<target, view, holder, due>>
           /\ \A d \in Actors \ {c} : pc'[d] = pc[d]
           /\ \A r \in OtpCalls \ {c} : row'[r] = row[r]
           /\ pc[c] \in Early
           /\ row'[c] = row[c] \/ (pc'[c] \notin Early /\ row'[c].status = "Pending OTP")
<1> USE DEF Typed
<1>1. CASE CommitRequest(c)
  <2>1. /\ UNCHANGED <<target, view, holder, due>> /\ pc[c] \in Early
        /\ pc' = [pc EXCEPT ![c] = "done"] \/ pc' = [pc EXCEPT ![c] = "refused"]
    BY <1>1 DEF CommitRequest, Goto, Early
  <2>2. \/ row' = row
        \/ row' = [row EXCEPT ![c] = [NoRow EXCEPT !.status = "Pending OTP", !.otp = "sent"]]
        \/ row' = [row EXCEPT ![c] = [NoRow EXCEPT !.status = "Pending OTP"]]
    BY <1>1 DEF CommitRequest
  <2>3. pc'[c] \notin Early /\ \A d \in Actors \ {c} : pc'[d] = pc[d]
    BY <2>1 DEF Shape, Actors, Early
  <2>4. (\A r \in OtpCalls \ {c} : row'[r] = row[r]) /\ (row'[c] = row[c] \/ row'[c].status = "Pending OTP")
    <3>1. /\ [NoRow EXCEPT !.status = "Pending OTP", !.otp = "sent"].status = "Pending OTP"
          /\ [NoRow EXCEPT !.status = "Pending OTP"].status = "Pending OTP"
      BY DEF NoRow
    <3>2. row' = row \/ \E new : row' = [row EXCEPT ![c] = new] /\ new.status = "Pending OTP"
      BY <2>2, <3>1
    <3>3. row \in [OtpCalls -> Row]
      BY DEF TypeOK
    <3> QED BY <3>2, <3>3
  <2> QED BY <2>1, <2>3, <2>4
<1>2. CASE ~CommitRequest(c)
  <2>1. /\ UNCHANGED <<row, target, view, holder, due>> /\ pc[c] \in Early
        /\ \E where : pc' = [pc EXCEPT ![c] = where]
    BY <1>2 DEF OtpStep, Die, ProbeLock, TakeLock, Recall, AskForOtp, Goto, Early
  <2> QED BY <2>1 DEF Shape
<1> QED BY <1>1, <1>2

LEMMA WorkRows ==
    ASSUME Typed, NEW c \in Acts \cup Jobs,
           \/ c \in Acts /\ ActStep(c)
           \/ c \in Jobs /\ FinishJob(c)
    PROVE  /\ target[c] \in OtpCalls /\ pc[c] \in {"begun", "asking", "running"}
           /\ pc'[c] \in {"asking", "done", "refused", "idle"}
           /\ pc'[c] = "asking" => target'[c] = target[c]
           /\ \A d \in Actors \ {c} : pc'[d] = pc[d]
           /\ \A d \in (Acts \cup Jobs) \ {c} : target'[d] = target[d] /\ view'[d] = view[d]
           /\ \A r \in OtpCalls \ {target[c]} : row'[r] = row[r] /\ holder'[r] = holder[r]
           /\ row[target[c]].status # "none" => row'[target[c]].status # "none"
           /\ due' \subseteq due \cup {target[c]}
<1> DEFINE r == target[c]
<1> USE DEF Typed
<1>1. /\ r \in OtpCalls /\ row[r] \in Row /\ pc[c] \in {"begun", "asking", "running"}
      /\ pc[c] = "begun" => UNCHANGED <<row, due>>
  BY ConsentAssumption DEF ActStep, LockRow, VerifyOtp, SubmitConsent, FinishJob, Shape, TypeOK
<1>2. PICK where \in {"asking", "done", "refused", "idle"} : pc' = [pc EXCEPT ![c] = where]
  BY DEF ActStep, LockRow, VerifyOtp, SubmitConsent, FinishJob, End, Goto
<1>3. pc'[c] = where /\ \A d \in Actors \ {c} : pc'[d] = pc[d]
  BY <1>2 DEF Shape, Actors
<1>4. UNCHANGED <<target, view>> \/ (Forget(c) /\ where # "asking")
  <2>1. \/ UNCHANGED <<target, view>>
        \/ Forget(c) /\ \E how \in {"done", "refused", "idle"} : pc' = [pc EXCEPT ![c] = how]
    BY DEF ActStep, LockRow, VerifyOtp, SubmitConsent, FinishJob, End, Goto
  <2> QED BY <1>3, <2>1 DEF Shape, Actors
<1>5. /\ where = "asking" => target'[c] = r
      /\ \A d \in (Acts \cup Jobs) \ {c} : target'[d] = target[d] /\ view'[d] = view[d]
  BY <1>4 DEF Forget, TypeOK
<1>6. \A q \in OtpCalls \ {r} : holder'[q] = holder[q]
  <2>1. holder' = holder \/ \E h : holder' = [holder EXCEPT ![r] = h]
    BY DEF ActStep, LockRow, VerifyOtp, SubmitConsent, FinishJob, End
  <2> QED BY <2>1 DEF Shape
<1>7. /\ \A q \in OtpCalls \ {r} : row'[q] = row[q]
      /\ row[r].status # "none" => row'[r].status # "none"
  <2>1. \/ row' = row
        \/ \E s \in Delivered \cup {row[r].status, "Pending OTP", "Approved", "Rejected", "Failed"} :
              \/ row' = [row EXCEPT ![r].status = s]
              \/ row' = [row EXCEPT ![r].status = s, ![r].otp = "verified"]
              \/ row' = [row EXCEPT ![r].status = s, ![r].registered = TRUE]
    BY DEF ActStep, LockRow, VerifyOtp, SubmitConsent, FinishJob
  <2>2. "none" \notin Delivered
    BY ConsentAssumption
  <2>3. ASSUME NEW new \in Row, row' = [row EXCEPT ![r] = new], row[r].status # "none" => new.status # "none"
        PROVE  (\A q \in OtpCalls \ {r} : row'[q] = row[q]) /\ (row[r].status # "none" => row'[r].status # "none")
    BY <1>1, <2>3 DEF TypeOK
  <2>4. ASSUME NEW s \in Delivered \cup {row[r].status, "Pending OTP", "Approved", "Rejected", "Failed"}
        PROVE  /\ s \in {"none", "Pending OTP", "Approved", "Rejected", "Revoked", "Failed"}
               /\ s = "none" => row[r].status = "none"
    BY <1>1, <2>2, <2>4, ConsentAssumption DEF Row
  <2>5. ASSUME NEW s \in {"none", "Pending OTP", "Approved", "Rejected", "Revoked", "Failed"}
        PROVE  /\ [row[r] EXCEPT !.status = s] \in Row /\ [row[r] EXCEPT !.status = s].status = s
               /\ [row[r] EXCEPT !.status = s, !.otp = "verified"] \in Row
               /\ [row[r] EXCEPT !.status = s, !.otp = "verified"].status = s
               /\ [row[r] EXCEPT !.status = s, !.registered = TRUE] \in Row
               /\ [row[r] EXCEPT !.status = s, !.registered = TRUE].status = s
    BY <1>1 DEF Row
  <2>6. ASSUME NEW s \in Delivered \cup {row[r].status, "Pending OTP", "Approved", "Rejected", "Failed"},
               \/ row' = [row EXCEPT ![r].status = s]
               \/ row' = [row EXCEPT ![r].status = s, ![r].otp = "verified"]
               \/ row' = [row EXCEPT ![r].status = s, ![r].registered = TRUE]
        PROVE  \E new \in Row : row' = [row EXCEPT ![r] = new] /\ (row[r].status # "none" => new.status # "none")
    <3>1. \/ row' = [row EXCEPT ![r] = [row[r] EXCEPT !.status = s]]
          \/ row' = [row EXCEPT ![r] = [row[r] EXCEPT !.status = s, !.otp = "verified"]]
          \/ row' = [row EXCEPT ![r] = [row[r] EXCEPT !.status = s, !.registered = TRUE]]
      BY <1>1, <2>6 DEF TypeOK
    <3>2. s \in {"none", "Pending OTP", "Approved", "Rejected", "Revoked", "Failed"}
          /\ (row[r].status # "none" => s # "none")
      BY <2>4
    <3>3. ASSUME NEW new \in Row, row' = [row EXCEPT ![r] = new], new.status = s
          PROVE  \E n \in Row : row' = [row EXCEPT ![r] = n] /\ (row[r].status # "none" => n.status # "none")
      BY <3>2, <3>3
    <3>4. /\ [row[r] EXCEPT !.status = s] \in Row /\ [row[r] EXCEPT !.status = s].status = s
          /\ [row[r] EXCEPT !.status = s, !.otp = "verified"] \in Row
          /\ [row[r] EXCEPT !.status = s, !.otp = "verified"].status = s
          /\ [row[r] EXCEPT !.status = s, !.registered = TRUE] \in Row
          /\ [row[r] EXCEPT !.status = s, !.registered = TRUE].status = s
      BY <2>5, <3>2
    <3>5. CASE row' = [row EXCEPT ![r] = [row[r] EXCEPT !.status = s]]
      BY <3>3, <3>4, <3>5
    <3>6. CASE row' = [row EXCEPT ![r] = [row[r] EXCEPT !.status = s, !.otp = "verified"]]
      BY <3>3, <3>4, <3>6
    <3>7. CASE row' = [row EXCEPT ![r] = [row[r] EXCEPT !.status = s, !.registered = TRUE]]
      BY <3>3, <3>4, <3>7
    <3> QED BY <3>1, <3>5, <3>6, <3>7
  <2>7. row' = row \/ \E new \in Row : row' = [row EXCEPT ![r] = new] /\ (row[r].status # "none" => new.status # "none")
    BY <2>1, <2>6
  <2> QED BY <2>3, <2>7
<1>8. due' \subseteq due \cup {r}
  BY DEF ActStep, LockRow, VerifyOtp, SubmitConsent, FinishJob
<1> QED BY <1>1, <1>3, <1>5, <1>6, <1>7, <1>8

LEMMA WrittenStep == Typed /\ Written /\ [Next]_vars => Written'
<1> SUFFICES ASSUME Typed, Written, [Next]_vars PROVE Written'
  OBVIOUS
<1> USE DEF Typed
<1>1. ASSUME NEW c \in OtpCalls, OtpStep(c) \/ Die(c) PROVE Written'
  <2>1. c \notin Acts \cup Jobs
    BY ConsentAssumption
  <2>2. \A r \in OtpCalls : OnRecord(r) => OnRecord(r)'
    BY <1>1, OtpRows DEF OnRecord
  <2>0. /\ \A r \in OtpCalls \ {c} : pc'[r] = pc[r] /\ row'[r] = row[r]
        /\ pc[c] \in Early
        /\ pc'[c] \in Early => row'[c] = row[c]
    BY <1>1, OtpRows DEF Actors
  <2>3. \A r \in OtpCalls : pc'[r] \in Early => ~OnRecord(r)'
    <3>1. \A r \in OtpCalls : pc[r] \in Early => row[r].status = "none"
      BY DEF Written, OnRecord
    <3>2. \A r \in OtpCalls : pc'[r] \in Early => row'[r].status = "none"
      <4> SUFFICES ASSUME NEW r \in OtpCalls, pc'[r] \in Early PROVE row'[r].status = "none"
        OBVIOUS
      <4>1. CASE r = c
        BY <2>0, <3>1, <4>1
      <4>2. CASE r # c
        BY <2>0, <3>1, <4>2
      <4> QED BY <4>1, <4>2
    <3> QED BY <3>2 DEF OnRecord
  <2>4. \A d \in Acts \cup Jobs : pc'[d] = pc[d] /\ target'[d] = target[d]
    BY <1>1, <2>1, OtpRows DEF Actors
  <2>5. \A r \in OtpCalls : row'[r].registered => OnRecord(r)'
    BY <1>1, OtpRows DEF OnRecord, Written
  <2>6. due' = due /\ due \subseteq OtpCalls
    BY <1>1, OtpRows DEF TypeOK
  <2> QED BY <2>2, <2>3, <2>4, <2>5, <2>6 DEF Written, Shape
<1>2. ASSUME NEW c \in Acts \cup Jobs,
             \/ c \in Acts /\ ActStep(c)
             \/ c \in Jobs /\ FinishJob(c)
      PROVE  Written'
  <2>1. c \notin OtpCalls
    BY ConsentAssumption
  <2>2. OnRecord(target[c]) /\ target[c] \in OtpCalls
    BY <1>2, WorkRows DEF Written
  <2>3. \A r \in OtpCalls : /\ OnRecord(r) => OnRecord(r)'
                            /\ r # target[c] => row'[r] = row[r]
    BY <1>2, WorkRows DEF OnRecord
  <2>4. \A r \in OtpCalls : pc'[r] \in Early => ~OnRecord(r)'
    <3>1. \A r \in OtpCalls : pc'[r] = pc[r]
      BY <1>2, <2>1, WorkRows DEF Actors
    <3> QED BY <2>2, <2>3, <3>1 DEF Written, OnRecord
  <2>5. \A r \in OtpCalls : row'[r].registered => OnRecord(r)'
    BY <2>2, <2>3 DEF Written, OnRecord
  <2>6. \A r \in due' : OnRecord(r)'
    BY <1>2, <2>2, <2>3, WorkRows DEF Written, TypeOK
  <2>7. \A d \in Acts \cup Jobs : pc'[d] \in {"begun", "asking", "running"} => OnRecord(target[d])'
    <3>1. \A d \in (Acts \cup Jobs) \ {c} : pc'[d] = pc[d] /\ target'[d] = target[d]
      BY <1>2, WorkRows DEF Actors
    <3>2. pc'[c] \in {"begun", "asking", "running"} => target'[c] = target[c]
      BY <1>2, WorkRows
    <3> QED BY <2>2, <2>3, <3>1, <3>2 DEF Written, Shape, OnRecord
  <2> QED BY <2>4, <2>5, <2>6, <2>7 DEF Written
<1>3. ASSUME NEW c \in Acts \cup Jobs, NEW r \in OtpCalls,
             \/ c \in Acts /\ Begin(c, r)
             \/ c \in Jobs /\ StartJob(c, r)
      PROVE  Written'
  <2>1. c \notin OtpCalls /\ OnRecord(r)
    BY <1>3, ConsentAssumption DEF Begin, StartJob, Written, OnRecord, OnTable
  <2>2. /\ UNCHANGED row /\ due' \subseteq due
        /\ \E where : pc' = [pc EXCEPT ![c] = where]
        /\ target' = [target EXCEPT ![c] = r]
    BY <1>3 DEF Begin, StartJob, Goto
  <2>3. /\ \A d \in Actors \ {c} : pc'[d] = pc[d]
        /\ \A d \in (Acts \cup Jobs) \ {c} : target'[d] = target[d]
        /\ target'[c] = r
    BY <2>2 DEF Shape, TypeOK
  <2> QED BY <2>1, <2>2, <2>3 DEF Written, OnRecord, Actors
<1>4. CASE ExpireLock
  BY <1>4 DEF ExpireLock, Written, OnRecord
<1>5. CASE UNCHANGED vars
  BY <1>5 DEF vars, Written, OnRecord
<1> QED BY <1>1, <1>2, <1>3, <1>4, <1>5 DEF Next

(* Where locking reads fail on rows newer than the snapshot, an act that   *)
(* comes to ask has read what is on record, and nobody writes it meanwhile.*)
LEMMA HeldStep ==
    ASSUME SnapshotConflicts, Typed, Written, Held, [Next]_vars
    PROVE  Held'
<1> USE DEF Typed
(* What leaves an act that asks, and its request, alone.                   *)
<1>0. ASSUME \A c \in Acts : pc'[c] = "asking" =>
                 /\ pc[c] = "asking" /\ target'[c] = target[c] /\ view'[c] = view[c]
                 /\ holder'[target[c]] = holder[target[c]] /\ row'[target[c]] = row[target[c]]
      PROVE  Held'
  <2>1. ASSUME NEW c \in Acts, pc'[c] = "asking"
        PROVE  holder'[target'[c]] = c /\ row'[target'[c]] = view'[c] /\ Ready(c)'
    <3>1. /\ pc[c] = "asking" /\ target'[c] = target[c] /\ view'[c] = view[c]
          /\ holder'[target[c]] = holder[target[c]] /\ row'[target[c]] = row[target[c]]
      BY <1>0, <2>1
    <3>2. holder[target[c]] = c /\ row[target[c]] = view[c] /\ Ready(c)
      BY <3>1 DEF Held
    <3>3. Ready(c)'
      BY <3>1, <3>2 DEF Ready
    <3> QED BY <3>1, <3>2, <3>3
  <2> QED BY <2>1 DEF Held
<1>1. ASSUME NEW c \in OtpCalls, OtpStep(c) \/ Die(c) PROVE Held'
  <2>1. ASSUME NEW d \in Acts, pc'[d] = "asking"
        PROVE  /\ pc[d] = "asking" /\ UNCHANGED <<target, view, holder>>
               /\ row'[target[d]] = row[target[d]]
    <3>1. d # c /\ d \in Actors
      BY ConsentAssumption DEF Actors
    <3>2. pc[d] = "asking" /\ target[d] \in OtpCalls
      BY <1>1, <2>1, <3>1, OtpRows DEF Shape
    <3>3. target[d] # c
      BY <1>1, <3>2, OtpRows DEF Written
    <3> QED BY <1>1, <3>2, <3>3, OtpRows
  <2> QED BY <1>0, <2>1
<1>2. ASSUME NEW c \in Acts, VerifyOtp(c) \/ SubmitConsent(c) PROVE Held'
  <2>1. pc[c] = "asking" /\ holder[target[c]] = c /\ \E how \in {"done", "refused"} : pc' = [pc EXCEPT ![c] = how]
    BY <1>2 DEF VerifyOtp, SubmitConsent, Held, End, Goto
  <2>2. ASSUME NEW d \in Acts, pc'[d] = "asking"
        PROVE  /\ pc[d] = "asking" /\ target'[d] = target[d] /\ view'[d] = view[d]
               /\ holder'[target[d]] = holder[target[d]] /\ row'[target[d]] = row[target[d]]
    <3>1. d # c /\ pc[d] = "asking" /\ target[d] \in OtpCalls
      BY <2>1, <2>2 DEF Shape, Actors
    <3>2. target[d] # target[c]
      BY <2>1, <3>1 DEF Held
    <3> QED BY <1>2, <3>1, <3>2, WorkRows DEF ActStep
  <2> QED BY <1>0, <2>2
<1>3. ASSUME NEW j \in Jobs, FinishJob(j) PROVE Held'
  <2>1. ASSUME NEW d \in Acts, pc'[d] = "asking"
        PROVE  /\ pc[d] = "asking" /\ target'[d] = target[d] /\ view'[d] = view[d]
               /\ holder'[target[d]] = holder[target[d]] /\ row'[target[d]] = row[target[d]]
    <3>1. d # j /\ d \in Actors
      BY ConsentAssumption DEF Actors
    <3>2. pc[d] = "asking" /\ target[d] \in OtpCalls
      BY <1>3, <2>1, <3>1, WorkRows DEF Shape
    <3>3. target[d] # target[j]
      BY <1>3, <3>2, ConsentAssumption DEF Held, FinishJob
    <3> QED BY <1>3, <3>1, <3>2, <3>3, WorkRows
  <2> QED BY <1>0, <2>1
<1>4. ASSUME NEW c \in Acts, LockRow(c) PROVE Held'
  <2>1. /\ pc[c] = "begun" /\ target[c] \in OtpCalls /\ holder[target[c]] = None /\ UNCHANGED row
    BY <1>4 DEF LockRow, Shape
  <2>2. ASSUME NEW d \in Acts, d # c, pc'[d] = "asking"
        PROVE  /\ pc[d] = "asking" /\ target'[d] = target[d] /\ view'[d] = view[d]
               /\ holder'[target[d]] = holder[target[d]] /\ row'[target[d]] = row[target[d]]
    <3>1. pc[d] = "asking" /\ target[d] \in OtpCalls
      BY <1>4, <2>2, WorkRows DEF Shape, Actors, ActStep
    <3>2. target[d] # target[c]
      BY <2>1, <3>1, ConsentAssumption DEF Held
    <3> QED BY <1>4, <2>1, <2>2, <3>1, <3>2, WorkRows DEF ActStep
  <2>3. ASSUME pc'[c] = "asking"
        PROVE  /\ UNCHANGED <<target, view, row>>
               /\ holder'[target[c]] = c /\ row[target[c]] = view[c] /\ Ready(c)
    <3>1. /\ row[target[c]] = view[c] /\ Ready(c) /\ holder' = [holder EXCEPT ![target[c]] = c]
          /\ UNCHANGED <<target, view, row>>
      BY <1>4, <2>3 DEF LockRow, Goto, Shape, Actors
    <3> QED BY <2>1, <3>1 DEF Shape
  <2>4. ASSUME NEW d \in Acts, pc'[d] = "asking"
        PROVE  holder'[target'[d]] = d /\ row'[target'[d]] = view'[d] /\ Ready(d)'
    <3>1. CASE d = c
      <4>1. UNCHANGED <<target, view, row>> /\ holder'[target[c]] = c /\ row[target[c]] = view[c] /\ Ready(c)
        BY <2>3, <2>4, <3>1
      <4>2. Ready(c)'
        BY <4>1 DEF Ready
      <4> QED BY <3>1, <4>1, <4>2
    <3>2. CASE d # c
      <4>1. /\ pc[d] = "asking" /\ target'[d] = target[d] /\ view'[d] = view[d]
            /\ holder'[target[d]] = holder[target[d]] /\ row'[target[d]] = row[target[d]]
        BY <2>2, <2>4, <3>2
      <4>2. holder[target[d]] = d /\ row[target[d]] = view[d] /\ Ready(d)
        BY <4>1 DEF Held
      <4>3. Ready(d)'
        BY <4>1, <4>2 DEF Ready
      <4> QED BY <4>1, <4>2, <4>3
    <3> QED BY <3>1, <3>2
  <2> QED BY <2>4 DEF Held
<1>5. ASSUME NEW c \in Acts \cup Jobs, NEW r \in OtpCalls,
             \/ c \in Acts /\ Begin(c, r)
             \/ c \in Jobs /\ StartJob(c, r)
      PROVE  Held'
  <2>1. /\ UNCHANGED <<row, holder>>
        /\ pc' = [pc EXCEPT ![c] = "begun"] \/ pc' = [pc EXCEPT ![c] = "running"]
        /\ target' = [target EXCEPT ![c] = r] /\ view' = [view EXCEPT ![c] = row[r]]
    BY <1>5 DEF Begin, StartJob, Goto
  <2>2. ASSUME NEW d \in Acts, pc'[d] = "asking"
        PROVE  pc[d] = "asking" /\ target'[d] = target[d] /\ view'[d] = view[d]
    BY <2>1, <2>2 DEF Shape, TypeOK, Actors
  <2> QED BY <1>0, <2>1, <2>2
<1>6. CASE ExpireLock
  BY <1>6, <1>0 DEF ExpireLock
<1>7. CASE UNCHANGED vars
  BY <1>7, <1>0 DEF vars
<1> QED BY <1>1, <1>2, <1>3, <1>4, <1>5, <1>6, <1>7 DEF Next, ActStep

AskInv == Typed /\ Written /\ Held

LEMMA AskInvInvariant == ASSUME SnapshotConflicts PROVE Spec => []AskInv
<1>1. Init => AskInv
  <2>1. Init => Written /\ Held
    <3> SUFFICES ASSUME Init PROVE Written /\ Held
      OBVIOUS
    <3>1. \A c \in Acts \cup Jobs : pc[c] \in {"start", "idle"}
      BY DEF Init
    <3>2. \A r \in OtpCalls : row[r].status = "none" /\ ~row[r].registered
      BY DEF Init, NoRow
    <3>3. Written
      BY <3>1, <3>2 DEF Init, Written, OnRecord
    <3>4. Held
      BY <3>1 DEF Held
    <3> QED BY <3>3, <3>4
  <2> QED BY <2>1, InitTyped DEF AskInv
<1>2. AskInv /\ [Next]_vars => AskInv'
  BY TypedStep, WrittenStep, HeldStep DEF AskInv
<1> QED BY <1>1, <1>2, PTL DEF Spec

(* For any number of overlapping verify_otp and submit_consent calls, where*)
(* locking reads fail on rows newer than the snapshot: the registry is     *)
(* asked by one call at a time about one request, and only while that      *)
(* request, as it is on record, awaits what is asked for.                  *)
THEOREM AskedWhileAwaited == ASSUME SnapshotConflicts PROVE Spec => []AskedOnRecord
<1>1. AskInv => AskedOnRecord
  <2> SUFFICES ASSUME AskInv, NEW c \in Acts, pc[c] = "asking"
               PROVE  /\ row[target[c]].status = "Pending OTP"
                      /\ KindOf[c] = "submit" => row[target[c]].otp = "verified"
                      /\ \A d \in Acts \ {c} : pc[d] = "asking" => target[d] # target[c]
    BY DEF AskedOnRecord
  <2>1. row[target[c]] = view[c] /\ Ready(c)
    BY DEF AskInv, Held
  <2>2. \A d \in Acts : pc[d] = "asking" => holder[target[d]] = d
    BY DEF AskInv, Held
  <2> QED BY <2>1, <2>2 DEF Ready
<1> QED BY <1>1, AskInvInvariant, PTL

(* On the same databases no call that overlaps an approval undoes it: only *)
(* a data job that ends takes a request out of Approved.                   *)
THEOREM ApprovalStays == ASSUME SnapshotConflicts PROVE Spec => ApprovalKept
<1> DEFINE Kept == \A r \in OtpCalls :
                      row[r].status = "Approved" /\ row'[r].status # "Approved"
                      => \E j \in Jobs : target[j] = r /\ pc[j] = "running" /\ pc'[j] = "idle"
<1>1. ASSUME AskInv, [Next]_vars, NEW r \in OtpCalls,
             row[r].status = "Approved", row'[r].status # "Approved"
      PROVE  \E j \in Jobs : target[j] = r /\ pc[j] = "running" /\ pc'[j] = "idle"
  <2> USE DEF AskInv, Typed
  <2>1. ASSUME NEW c \in OtpCalls, OtpStep(c) \/ Die(c) PROVE FALSE
    BY <1>1, <2>1, OtpRows DEF Written, OnRecord
  <2>2. ASSUME NEW c \in Acts, VerifyOtp(c) \/ SubmitConsent(c) PROVE FALSE
    <3>1. pc[c] = "asking" /\ row[target[c]].status = "Pending OTP"
      <4>1. pc[c] = "asking"
        BY <2>2 DEF VerifyOtp, SubmitConsent
      <4>2. row[target[c]] = view[c] /\ Ready(c)
        BY <1>1, <4>1 DEF Held
      <4> QED BY <4>1, <4>2 DEF Ready
    <3>2. target[c] # r
      BY <1>1, <3>1
    <3> QED BY <1>1, <2>2, <3>2, WorkRows DEF ActStep
  <2>3. ASSUME NEW j \in Jobs, FinishJob(j)
        PROVE  target[j] = r /\ pc[j] = "running" /\ pc'[j] = "idle"
    <3>1. pc[j] = "running" /\ pc' = [pc EXCEPT ![j] = "idle"]
      BY <2>3 DEF FinishJob, Goto
    <3>2. \A q \in OtpCalls \ {target[j]} : row'[q] = row[q]
      BY <1>1, <2>3, WorkRows
    <3> QED BY <1>1, <3>1, <3>2 DEF Shape, Actors
  <2>4. \/ \E c \in OtpCalls : OtpStep(c) \/ Die(c)
        \/ \E c \in Acts : VerifyOtp(c) \/ SubmitConsent(c)
        \/ \E j \in Jobs : FinishJob(j)
    BY <1>1 DEF Next, ActStep, LockRow, Begin, StartJob, ExpireLock, vars
  <2> QED BY <2>1, <2>2, <2>3, <2>4
<1>2. AskInv /\ [Next]_vars => [Kept]_vars
  BY <1>1
<1> QED BY <1>2, AskInvInvariant, PTL DEF Spec, ApprovalKept
=============================================================================
