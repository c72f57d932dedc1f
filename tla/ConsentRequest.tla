--------------------------- MODULE ConsentRequest ---------------------------
(***************************************************************************)
(* The calls around consent requests, several at once: request_otp with an *)
(* idempotency key kept in Redis, verify_otp and submit_consent under a    *)
(* row lock held while the OpenG2P registry is asked, and the data jobs    *)
(* that write what the registry delivers.                                  *)
(*                                                                         *)
(* The database (external) is the one of LeadIntake.  A request is named   *)
(* by the request_otp call that opened it.                                 *)
(***************************************************************************)
CONSTANTS OtpCalls,           \* request_otp calls, all with one key
          Acts,               \* verify_otp and submit_consent calls
          KindOf,             \* which of the two
          Jobs,               \* queue workers
          Delivered,          \* states a delivery may carry
          CommitOnRefusal,    \* as in LeadLoan
          SnapshotConflicts,  \* as in LeadIntake
          None

ASSUME ConsentAssumption ==
    /\ KindOf \in [Acts -> {"verify", "submit"}]
    /\ Delivered \subseteq {"Approved", "Rejected", "Revoked"}
    /\ CommitOnRefusal \in BOOLEAN /\ SnapshotConflicts \in BOOLEAN
    /\ OtpCalls \cap Acts = {} /\ OtpCalls \cap Jobs = {} /\ Acts \cap Jobs = {}
    /\ None \notin OtpCalls \cup Acts \cup Delivered

VARIABLES pc,      \* where each call and job stands
          lock,    \* the key's lock in Redis: the call that set it
          answer,  \* the key's cached answer: a request
          row,     \* the requests
          target,  \* the request a call or job is about
          view,    \* what its snapshot shows of it
          holder,  \* the call that holds the row's lock
          due      \* requests a data job was queued for

vars == <<pc, lock, answer, row, target, view, holder, due>>

(* registered says that the row carries the registry's consent id, by      *)
(* which deliveries find it.                                               *)
Row == [ status     : {"none", "Pending OTP", "Approved", "Rejected", "Revoked", "Failed"},
         otp        : {"none", "sent", "verified"},
         registered : BOOLEAN ]

NoRow   == [status |-> "none", otp |-> "none", registered |-> FALSE]
OnTable == {r \in OtpCalls : row[r].status # "none"}

Init ==
    /\ pc = [c \in OtpCalls \cup Acts \cup Jobs |-> IF c \in Jobs THEN "idle" ELSE "start"]
    /\ lock = None /\ answer = None
    /\ row = [r \in OtpCalls |-> NoRow]
    /\ target = [c \in Acts \cup Jobs |-> None]
    /\ view = [c \in Acts \cup Jobs |-> NoRow]
    /\ holder = [r \in OtpCalls |-> None]
    /\ due = {}

Goto(c, where) == pc' = [pc EXCEPT ![c] = where]

(* A transaction that is over has neither subject nor snapshot.            *)
Forget(c) == /\ target' = [target EXCEPT ![c] = None]
             /\ view' = [view EXCEPT ![c] = NoRow]

(***************************************************************************)
(* request_otp.                                                            *)
(***************************************************************************)
(* The lock is read, then written: two calls can both find it free.        *)
ProbeLock(c) ==
    /\ pc[c] = "start"
    /\ Goto(c, IF lock = None THEN "free" ELSE "refused")
    /\ UNCHANGED <<lock, answer, row, target, view, holder, due>>

TakeLock(c) ==
    /\ pc[c] = "free"
    /\ Goto(c, "locked")
    /\ lock' = c
    /\ UNCHANGED <<answer, row, target, view, holder, due>>

Recall(c) ==
    /\ pc[c] = "locked"
    /\ \/ answer # None /\ lock' = None /\ Goto(c, "done")
       \/ answer = None /\ UNCHANGED lock /\ Goto(c, "opening")
    /\ UNCHANGED <<answer, row, target, view, holder, due>>

(* The registry sends an OTP and the answer is cached before the request's *)
(* transaction commits; or it fails, before the row is written or after,   *)
(* and then the refusal commits the row.                                   *)
AskForOtp(c) ==
    /\ pc[c] = "opening"
    /\ \/ answer' = c /\ Goto(c, "answered")
       \/ UNCHANGED answer /\ \E where \in {"unanswered", "refused"} : Goto(c, where)
    /\ lock' = None
    /\ UNCHANGED <<row, target, view, holder, due>>

CommitRequest(c) ==
    /\ \/ /\ pc[c] = "answered"
          /\ row' = [row EXCEPT ![c] = [NoRow EXCEPT !.status = "Pending OTP", !.otp = "sent"]]
          /\ Goto(c, "done")
       \/ /\ pc[c] = "unanswered"
          /\ row' = IF CommitOnRefusal
                    THEN [row EXCEPT ![c] = [NoRow EXCEPT !.status = "Pending OTP"]] ELSE row
          /\ Goto(c, "refused")
    /\ UNCHANGED <<lock, answer, target, view, holder, due>>

(* A worker dies; what it wrote is lost, what it told Redis is not.        *)
Die(c) ==
    /\ pc[c] \in {"free", "locked", "opening", "answered", "unanswered"}
    /\ Goto(c, "dead")
    /\ UNCHANGED <<lock, answer, row, target, view, holder, due>>

NeverExpireLock == lock # None /\ UNCHANGED vars  \* mutant: a lock without a TTL

(* Ten seconds after it was set, its holder dead or not.                   *)
ExpireLock ==
    /\ lock # None
    /\ lock' = None
    /\ UNCHANGED <<pc, answer, row, target, view, holder, due>>

(***************************************************************************)
(* verify_otp and submit_consent.                                          *)
(***************************************************************************)
(* has_permission loads the request: the first read of the transaction.    *)
Begin(c, r) ==
    /\ pc[c] = "start"
    /\ r \in OnTable
    /\ target' = [target EXCEPT ![c] = r]
    /\ view' = [view EXCEPT ![c] = row[r]]
    /\ Goto(c, "begun")
    /\ UNCHANGED <<lock, answer, row, holder, due>>

Ready(c) ==
    /\ view[c].status = "Pending OTP" /\ view[c].otp # "none"
    /\ KindOf[c] = "submit" => view[c].otp = "verified"

ReadStatus(c) ==  \* mutant: the status is read without for_update
    /\ pc[c] = "begun"
    /\ Goto(c, IF Ready(c) THEN "asking" ELSE "refused")
    /\ UNCHANGED <<lock, answer, row, target, view, holder, due>>

(* The locking read of the status waits for the row and fails when it is   *)
(* newer than the snapshot.  submit_consent replays an approval it reads;  *)
(* otherwise the document, a plain read, decides.                          *)
LockRow(c) ==
    LET r == target[c] IN
    /\ pc[c] = "begun"
    /\ holder[r] = None
    /\ \/ /\ SnapshotConflicts /\ row[r] # view[c]
          /\ Goto(c, "refused") /\ Forget(c) /\ UNCHANGED holder
       \/ /\ SnapshotConflicts => row[r] = view[c]
          /\ \/ /\ KindOf[c] = "submit" /\ row[r].status = "Approved"
                /\ Goto(c, "done") /\ Forget(c) /\ UNCHANGED holder
             \/ /\ KindOf[c] = "submit" => row[r].status # "Approved"
                /\ \/ /\ Ready(c)
                      /\ Goto(c, "asking") /\ holder' = [holder EXCEPT ![r] = c]
                      /\ UNCHANGED <<target, view>>
                   \/ ~Ready(c) /\ Goto(c, "refused") /\ Forget(c) /\ UNCHANGED holder
    /\ UNCHANGED <<lock, answer, row, due>>

EndKeepsLock(c, how) ==  \* mutant: the row stays locked
    Goto(c, how) /\ UNCHANGED <<holder, target, view>>

(* The end of the call's transaction, and of its lock.                     *)
End(c, how) ==
    /\ Goto(c, how) /\ Forget(c)
    /\ holder' = [holder EXCEPT ![target[c]] = None]

(* The registry's word on the OTP; a verified one is written together with *)
(* the status the request had.                                             *)
VerifyOtp(c) ==
    /\ pc[c] = "asking" /\ KindOf[c] = "verify"
    /\ \/ /\ row' = [row EXCEPT ![target[c]].status = "Pending OTP", ![target[c]].otp = "verified"]
          /\ End(c, "done")
       \/ UNCHANGED row /\ End(c, "refused")
    /\ UNCHANGED <<lock, answer, due>>

(* The registry approves, with or without the farmer's data; declines; or  *)
(* a later step fails and the savepoint takes the approval back, but not   *)
(* the job queued for after the commit.                                    *)
SubmitConsent(c) ==
    LET r == target[c] IN
    /\ pc[c] = "asking" /\ KindOf[c] = "submit"
    /\ \/ /\ row' = [row EXCEPT ![r].status = "Approved", ![r].registered = TRUE]
          /\ due' \in {due, due \cup {r}}
          /\ End(c, "done")
       \/ /\ row' = [row EXCEPT ![r].status = "Rejected"]
          /\ UNCHANGED due
          /\ End(c, "refused")
       \/ /\ UNCHANGED row
          /\ due' \in IF CommitOnRefusal THEN {due, due \cup {r}} ELSE {due}
          /\ End(c, "refused")
    /\ UNCHANGED <<lock, answer>>

(***************************************************************************)
(* process_consent_data: queued by submit_consent or by a delivery, which  *)
(* the registry may repeat.                                                *)
(***************************************************************************)
StartJob(j, r) ==
    /\ pc[j] = "idle"
    /\ r \in due \/ row[r].registered
    /\ due' = due \ {r}
    /\ target' = [target EXCEPT ![j] = r]
    /\ view' = [view EXCEPT ![j] = row[r]]
    /\ Goto(j, "running")
    /\ UNCHANGED <<lock, answer, row, holder>>

(* The job waits for the row, writes the state it was given, if any, and   *)
(* the profile; any error, a row newer than its snapshot included, rolls   *)
(* it back and stamps the request Failed.                                  *)
FinishJob(j) ==
    LET r == target[j] IN
    /\ pc[j] = "running"
    /\ holder[r] = None
    /\ \/ /\ SnapshotConflicts => row[r] = view[j]
          /\ \E status \in Delivered \cup {row[r].status} : row' = [row EXCEPT ![r].status = status]
       \/ row' = [row EXCEPT ![r].status = "Failed"]
    /\ Goto(j, "idle") /\ Forget(j)
    /\ UNCHANGED <<lock, answer, holder, due>>

OtpStep(c) == ProbeLock(c) \/ TakeLock(c) \/ Recall(c) \/ AskForOtp(c) \/ CommitRequest(c)
ActStep(c) == LockRow(c) \/ VerifyOtp(c) \/ SubmitConsent(c)

Next ==
    \/ \E c \in OtpCalls : OtpStep(c) \/ Die(c)
    \/ ExpireLock
    \/ \E c \in Acts : ActStep(c) \/ \E r \in OtpCalls : Begin(c, r)
    \/ \E j \in Jobs : FinishJob(j) \/ \E r \in OtpCalls : StartJob(j, r)

(* A Redis key with a TTL expires.                                         *)
Spec == Init /\ [][Next]_vars /\ WF_vars(ExpireLock)

(***************************************************************************)
(* Properties.                                                             *)
(***************************************************************************)
(* Calls, keys and rows; a row's lock is held by a call that asks about it.*)
TypeOK ==
    /\ \A c \in OtpCalls : pc[c] \in {"start", "free", "locked", "opening", "answered",
                                      "unanswered", "done", "refused", "dead"}
    /\ \A c \in Acts : pc[c] \in {"start", "begun", "asking", "done", "refused"}
    /\ \A j \in Jobs : pc[j] \in {"idle", "running"}
    /\ {lock, answer} \subseteq OtpCalls \cup {None}
    /\ row \in [OtpCalls -> Row]
    /\ target \in [Acts \cup Jobs -> OtpCalls \cup {None}]
    /\ view \in [Acts \cup Jobs -> Row]
    /\ due \subseteq OtpCalls
    /\ \A r \in OtpCalls : holder[r] # None => pc[holder[r]] = "asking" /\ target[holder[r]] = r

(* "Pessimistic lock to prevent race conditions": the registry is asked by *)
(* one call at a time about one request, and only while the request, as it *)
(* is on record and not as the call remembers it, awaits what is asked for.*)
AskedOnRecord ==
    \A c \in Acts :
        pc[c] = "asking" =>
            /\ row[target[c]].status = "Pending OTP"
            /\ KindOf[c] = "submit" => row[target[c]].otp = "verified"
            /\ \A d \in Acts \ {c} : pc[d] = "asking" => target[d] # target[c]

(* No verify_otp or submit_consent that overlaps an approval undoes it:    *)
(* only what the registry delivers moves a request out of Approved.        *)
ApprovalKept ==
    [][\A r \in OtpCalls :
         row[r].status = "Approved" /\ row'[r].status # "Approved"
         => \E j \in Jobs : target[j] = r /\ pc[j] = "running" /\ pc'[j] = "idle"]_vars

(* A call that died leaves its idempotency key usable.                     *)
KeyFreed == lock # None ~> lock = None
=============================================================================
