--------------------------- MODULE ApplicationFile ---------------------------
(***************************************************************************)
(* The applications that ApplicationIntake creates, and the file kept on   *)
(* each: documents, wizard step, officer and amount, changed by farmers    *)
(* and staff in requests that overlap, and the submission after which the  *)
(* bank reviews it.                                                        *)
(*                                                                         *)
(* Documents are rows of their own: writing one leaves the application as  *)
(* it is.  The database is the one of ApplicationIntake.                   *)
(***************************************************************************)
EXTENDS ApplicationIntake, Naturals

CONSTANTS FileCallers,   \* calls under way at a time
          Farmers,       \* those of them made by the farmer
          Documents,     \* documents are numbered as they come
          Officers, Amounts, None,
          MaxStep        \* pages of the wizard

ASSUME FileAssumption ==
    /\ Farmers \subseteq FileCallers
    /\ Documents \subseteq Nat
    /\ None \notin Officers
    /\ Leads \cap {"unused", "deleted"} = {}
    /\ Amounts \subseteq Nat /\ 0 \in Amounts
    /\ MaxStep \in Nat \ {0}

VARIABLES form,   \* A2C Loan Application, by its lead
          paper,  \* File: where each document is attached
          trail,  \* the audit events of each document
          job     \* what each call has read

fileVars == <<form, paper, trail, job>>

Form  == [status : {"Active", "In Transition"}, step : 1..MaxStep,
          amount : Amounts, officer : Officers \cup {None}]
Saves == {"step", "officer", "amount"}
Papers == {"upload", "delete"}
Kinds == Saves \cup Papers \cup {"submit"}
Paper == {"unused", "deleted"} \cup Leads
Job   == {None} \cup [kind : Kinds, app : Leads, docs : SUBSET Documents,
                      row : Form \cup {None}, stale : BOOLEAN]

FileInit ==
    /\ Init
    /\ form  = [l \in Leads |-> [status |-> "Active", step |-> 1, amount |-> 0, officer |-> None]]
    /\ paper = [d \in Documents |-> "unused"]
    /\ trail = [d \in Documents |-> [uploaded |-> 0, deleted |-> 0]]
    /\ job   = [c \in FileCallers |-> None]

(* The calls that create applications read nothing that is written here,   *)
(* so the bound that they have all ended leaves no outcome out.            *)
Raised(l) ==
    /\ \A r \in Requests : pc[r] \in {"done", "refused"}
    /\ \E r \in Requests : LeadOf[r] = l /\ row[r] = "committed"

Unused        == {d \in Documents : paper[d] = "unused"}
AttachedTo(l) == {d \in Documents : paper[d] = l}

(* The guards each call passes; only those that save keep what they load.  *)
DraftRequired(c, kind, l) ==
    /\ kind \in {"submit", "amount"} => form[l].status = "Active"
    /\ kind \in Papers /\ c \in Farmers => form[l].status = "Active"

Begin(c, kind, l, docs) ==
    /\ job[c] = None
    /\ Raised(l)
    /\ kind = "amount" => c \in Farmers
    /\ IF kind = "delete" THEN \E d \in AttachedTo(l) : docs = {d} ELSE docs = {}
    /\ DraftRequired(c, kind, l)
    /\ job' = [job EXCEPT ![c] =
                [kind |-> kind, app |-> l, docs |-> docs, stale |-> FALSE,
                 row |-> IF kind \in Saves THEN form[l] ELSE None]]
    /\ UNCHANGED <<vars, form, paper, trail>>

(* Call c ends having written the application or not; others that loaded   *)
(* it hold an old copy if it has.                                          *)
Close(c, wrote) ==
    job' = [b \in FileCallers |->
               IF b = c THEN None
               ELSE IF wrote /\ job[b] # None /\ job[b].kind \notin Papers
                       /\ job[b].app = job[c].app
                    THEN [job[b] EXCEPT !.stale = TRUE] ELSE job[b]]

Under(c, kind) == job[c] # None /\ job[c].kind = kind

(* A file of the wrong type stops the request; those before it are kept,   *)
(* and no event tells of them.                                             *)
UploadSupportingDocuments(c) ==
    /\ Under(c, "upload")
    /\ \E kept \in SUBSET Unused, complete \in BOOLEAN :
          /\ \A d \in kept, e \in Unused \ kept : d < e
          /\ complete => kept # {}
          /\ paper' = [d \in Documents |-> IF d \in kept THEN job[c].app ELSE paper[d]]
          /\ trail' = [d \in Documents |-> IF d \in kept /\ complete
                                           THEN [trail[d] EXCEPT !.uploaded = 1] ELSE trail[d]]
    /\ Close(c, FALSE)
    /\ UNCHANGED <<vars, form>>

DeleteTwice(c) ==  \* mutant: the second call deletes the document once more
    /\ Under(c, "delete")
    /\ \E d \in job[c].docs :
          /\ paper' = [paper EXCEPT ![d] = "deleted"]
          /\ trail' = [trail EXCEPT ![d].deleted = @ + 1]
    /\ Close(c, FALSE)
    /\ UNCHANGED <<vars, form>>

(* Of two calls that delete one document the second meets a row changed    *)
(* since its snapshot; an older database would let it note a deletion.     *)
DeleteSupportingDocument(c) ==
    /\ Under(c, "delete")
    /\ \E d \in job[c].docs :
          /\ SnapshotConflicts => paper[d] = job[c].app
          /\ paper' = [paper EXCEPT ![d] = "deleted"]
          /\ trail' = [trail EXCEPT ![d].deleted = @ + 1]
    /\ Close(c, FALSE)
    /\ UNCHANGED <<vars, form>>

SaveLatest(c, new) ==  \* mutant: nobody asks whether the row was written since
    /\ form' = [form EXCEPT ![job[c].app] = new]
    /\ Close(c, TRUE)
    /\ UNCHANGED <<vars, paper, trail>>

(* A save writes every field of the row that was loaded, if nobody has     *)
(* written it since.                                                       *)
Save(c, new) ==
    /\ ~job[c].stale
    /\ form' = [form EXCEPT ![job[c].app] = new]
    /\ Close(c, TRUE)
    /\ UNCHANGED <<vars, paper, trail>>

(* The wizard is not moved ahead by more than a step.                      *)
UpdateLoanStep(c) ==
    /\ Under(c, "step")
    /\ \E step \in 1..MaxStep :
          step <= form[job[c].app].step + 1 /\ Save(c, [job[c].row EXCEPT !.step = step])

AssignLoanOfficer(c) ==
    /\ Under(c, "officer")
    /\ \E officer \in Officers : Save(c, [job[c].row EXCEPT !.officer = officer])

UpdateApplication(c) ==
    /\ Under(c, "amount")
    /\ \E amount \in Amounts : Save(c, [job[c].row EXCEPT !.amount = amount])

(* The stage is written first, without comparing timestamps; the workflow  *)
(* then loads the application again.  A refusal keeps the stage, and with  *)
(* it the new timestamp.                                                   *)
SubmitApplication(c) ==
    /\ Under(c, "submit")
    /\ SnapshotConflicts => ~job[c].stale
    /\ \/ /\ form[job[c].app].status = "Active"
          /\ form' = [form EXCEPT ![job[c].app].status = "In Transition"]
       \/ UNCHANGED form
    /\ Close(c, TRUE)
    /\ UNCHANGED <<vars, paper, trail>>

(* A request that is refused, or lost with its worker.                     *)
Refuse(c) ==
    /\ job[c] # None
    /\ Close(c, FALSE)
    /\ UNCHANGED <<vars, form, paper, trail>>

FileStep(c) ==
    \/ \E kind \in Kinds, l \in Leads, docs \in SUBSET Documents : Begin(c, kind, l, docs)
    \/ UploadSupportingDocuments(c) \/ DeleteSupportingDocument(c)
    \/ UpdateLoanStep(c) \/ AssignLoanOfficer(c) \/ UpdateApplication(c)
    \/ SubmitApplication(c) \/ Refuse(c)

FileNext ==
    \/ Next /\ UNCHANGED fileVars
    \/ \E c \in FileCallers : FileStep(c)

FileSpec == FileInit /\ [][FileNext]_<<vars, fileVars>> /\ Fairness

(***************************************************************************)
(* Properties.                                                             *)
(***************************************************************************)
(* A document that is gone left one notice, whoever deleted it beside      *)
(* whom; one that is announced came.                                       *)
OnRecord ==
    \A d \in Documents :
        /\ trail[d].deleted = IF paper[d] = "deleted" THEN 1 ELSE 0
        /\ trail[d].uploaded = 1 => paper[d] # "unused"

(* What the farmer asked for stands under review: once submitted, an       *)
(* application keeps its amount and is no draft again, whatever copy of it *)
(* a call holds that loaded it before the submission.                      *)
SubmittedTermsStand ==
    [][\A l \in Leads :
          form[l].status # "Active" => /\ form'[l].status = form[l].status
                                       /\ form'[l].amount = form[l].amount]_<<vars, fileVars>>
=============================================================================
