------------------------------ MODULE LeadLoan ------------------------------
(***************************************************************************)
(* The credit case: a Development Agent works a lead, the farmer consents  *)
(* to data sharing, an application is raised and submitted, a bank decides *)
(* it, and the decision moves the lead.                                    *)
(*                                                                         *)
(* One action is one request (or one queue job) and one transaction: it    *)
(* runs the handler to its end, every nested save and every best-effort    *)
(* side step included.  The variables are the tables the handlers share.   *)
(* Interleavings inside a request are the subject of other modules.        *)
(***************************************************************************)
EXTENDS Workflow

CONSTANTS
    Leads, Apps, Consents, Profiles, Visits,   \* row names of the tables
    Farmers,          \* users with the farmer role
    Phones,           \* phone numbers of leads
    Stages,           \* the bank's pipeline, identified by stage_id
    StageArchetype,   \* the archetype_state of each stage
    InitialStage,     \* what get_initial_pipeline_stage answers, or None
    DeliveredStatus,  \* consent states a registry delivery may carry
    CommitOnRefusal,  \* how Frappe ends a request whose error was swallowed
    None

ASSUME StagesAssumption ==
    /\ StageArchetype \in [Stages -> ArchetypeStates]
    /\ Stages \cap ArchetypeStates = {}
    /\ InitialStage \in Stages \cup {None}
    /\ InitialStage # None => StageArchetype[InitialStage] = "In Transition"

ASSUME NoneAssumption ==
    None \notin Leads \cup Apps \cup Consents \cup Profiles \cup Farmers
                \cup Stages \cup ArchetypeStates

ASSUME DeliveredAssumption == DeliveredStatus \subseteq {"Approved", "Rejected", "Revoked"}

ASSUME FlagAssumption == CommitOnRefusal \in BOOLEAN

VARIABLES lead, app, consent, profile, visit

vars == <<lead, app, consent, profile, visit>>

(***************************************************************************)
(* Rows.                                                                   *)
(***************************************************************************)
(* "Revoked" stands for any word of the registry's own: the job stores what *)
(* it is sent.                                                             *)
ConsentStates == {"Pending OTP", "Approved", "Rejected", "Failed", "Revoked"}
VisitStates   == {"Scheduled", "Completed", "Cancelled", "Missed"}
StageInputs   == Stages \cup ArchetypeStates

(* credit says that the lead has a credit information row.  stripped is    *)
(* the model's: an administrator has deleted the last credit row or the    *)
(* last completed visit of the lead since it was last verified.            *)
LeadRow == [ status   : LeadStates \cup {Absent},
             phone    : Phones \cup {None},
             credit   : BOOLEAN,
             stripped : BOOLEAN,
             profile  : Profiles \cup {None},
             consent  : Consents \cup {None} ]

AppRow == [ status  : ArchetypeStates \cup {Absent},
            stage   : StageInputs \cup {None},
            lead    : Leads \cup {None},
            profile : Profiles \cup {None},
            consent : Consents \cup {None} ]

(* owner is None when the agent raised the request for a lead; otp is      *)
(* "none" until the registry sent one; deliverable says that a data job    *)
(* for it can be in the queue.                                             *)
ConsentRow == [ status      : ConsentStates \cup {Absent},
                otp         : {"none", "sent", "verified"},
                lead        : Leads \cup {None},
                owner       : Farmers \cup {None},
                deliverable : BOOLEAN ]

ProfileRow == [ exists  : BOOLEAN,
                user    : Farmers \cup {None},
                consent : Consents \cup {None} ]

VisitRow == [ status : VisitStates \cup {Absent}, lead : Leads \cup {None} ]

NoLead    == [status |-> Absent, phone |-> None, credit |-> FALSE, stripped |-> FALSE,
              profile |-> None, consent |-> None]
NoApp     == [status |-> Absent, stage |-> None, lead |-> None,
              profile |-> None, consent |-> None]
NoConsent == [status |-> Absent, otp |-> "none", lead |-> None,
              owner |-> None, deliverable |-> FALSE]
NoVisit   == [status |-> Absent, lead |-> None]
NoProfile == [exists |-> FALSE, user |-> None, consent |-> None]

Init ==
    /\ lead    = [l \in Leads |-> NoLead]
    /\ app     = [a \in Apps |-> NoApp]
    /\ consent = [c \in Consents |-> NoConsent]
    /\ profile = [p \in Profiles |-> NoProfile]
    /\ visit   = [v \in Visits |-> NoVisit]

LeadExists(l)  == lead[l].status # Absent
AppExists(a)   == app[a].status # Absent
Approved(c)    == consent[c].status = "Approved"

PhoneTakenActiveOnly(l, ph) ==  \* mutant: forgets the Verified leads
    \E m \in Leads \ {l} : lead[m].phone = ph /\ lead[m].status = "Active"

(* _enforce_phone_uniqueness runs in before_save of every lead save, the   *)
(* ones inside a workflow transition included: another lead in the open    *)
(* funnel holds the phone.                                                 *)
PhoneTaken(l, ph) ==
    \E m \in Leads \ {l} : lead[m].phone = ph /\ lead[m].status \in {"Active", "Verified"}

(***************************************************************************)
(* Leads.                                                                  *)
(***************************************************************************)
(* create_lead: refused when any lead, whatever its state, has the phone.  *)
CreateLead(l, ph) ==
    /\ ~LeadExists(l)
    /\ \A m \in Leads : lead[m].phone # ph
    /\ lead' = [lead EXCEPT ![l] = [NoLead EXCEPT !.status = "Active", !.phone = ph]]
    /\ UNCHANGED <<app, consent, profile, visit>>

(* lead_inbound: the telco webhook opens a lead unless one is in the open  *)
(* funnel; an existing one only gains a call note.                         *)
LeadInbound(l, ph) ==
    /\ ~LeadExists(l)
    /\ ~PhoneTaken(l, ph)
    /\ lead' = [lead EXCEPT ![l] = [NoLead EXCEPT !.status = "Active", !.phone = ph]]
    /\ UNCHANGED <<app, consent, profile, visit>>

AddLeadCreditInfo(l) ==
    /\ LeadExists(l)
    /\ lead' = [lead EXCEPT ![l].credit = TRUE]
    /\ UNCHANGED <<app, consent, profile, visit>>

ScheduleVisit(v, l) ==
    /\ visit[v].status = Absent
    /\ LeadExists(l)
    /\ visit' = [visit EXCEPT ![v] = [status |-> "Scheduled", lead |-> l]]
    /\ UNCHANGED <<lead, app, consent, profile>>

ReopenVisitScheduleStatus(v, status) ==  \* mutant: a Completed visit may be reopened
    /\ visit[v].status # Absent
    /\ visit[v].status = "Missed" => status = "Missed"
    /\ visit' = [visit EXCEPT ![v].status = status]
    /\ UNCHANGED <<lead, app, consent, profile>>

(* validate_status_transition: a Missed or Completed visit is settled.     *)
UpdateVisitScheduleStatus(v, status) ==
    /\ visit[v].status # Absent
    /\ visit[v].status \in {"Missed", "Completed"} => status = visit[v].status
    /\ visit' = [visit EXCEPT ![v].status = status]
    /\ UNCHANGED <<lead, app, consent, profile>>

CompletedVisit(l, v) == visit[v].lead = l /\ visit[v].status = "Completed"

(* _enforce_verification_prerequisites.                                    *)
VerificationPrerequisites(l) ==
    /\ lead[l].credit
    /\ \E c \in Consents : consent[c].lead = l /\ Approved(c)
    /\ \E v \in Visits : CompletedVisit(l, v)

(* Administrators hold the delete permission on visits and on credit       *)
(* information, and nothing refuses the deletion of a row that a lead was  *)
(* verified on.                                                            *)
DeleteVisit(v) ==
    LET l == visit[v].lead IN
    /\ visit[v].status # Absent
    /\ visit' = [visit EXCEPT ![v] = NoVisit]
    /\ lead' = IF CompletedVisit(l, v) /\ \A w \in Visits \ {v} : ~CompletedVisit(l, w)
               THEN [lead EXCEPT ![l].stripped = TRUE]
               ELSE lead
    /\ UNCHANGED <<app, consent, profile>>

(* The lead's last credit row; an earlier one changes nothing here.        *)
DeleteCreditInfo(l) ==
    /\ lead[l].credit
    /\ lead' = [lead EXCEPT ![l].credit = FALSE, ![l].stripped = TRUE]
    /\ UNCHANGED <<app, consent, profile, visit>>

(* update_lead_status: the caller needs write on A2C Lead (DocPerm), the   *)
(* workflow a row for the caller's role, the lead's save a free phone.     *)
UpdateLeadStatus(l, role, target) ==
    /\ LeadExists(l)
    /\ role \in {DevAgent, Admin}
    /\ TransitionAllowed(LeadWorkflow, lead[l].status, target, role)
    /\ target = "Verified" => VerificationPrerequisites(l)
    /\ ~PhoneTaken(l, lead[l].phone)
    /\ lead' = [lead EXCEPT ![l].status = target,
                            ![l].stripped = @ /\ target # "Verified"]
    /\ UNCHANGED <<app, consent, profile, visit>>

(* on_trash of a lead takes its consent requests, credit information and   *)
(* visits with it and clears the profile's pointer; Frappe's link check    *)
(* refuses when an application points at the lead or at such a consent.    *)
LeadConsents(l) ==
    {c \in Consents : consent[c].status # Absent /\ consent[c].lead = l}
    \cup ({lead[l].consent} \ {None})

DeleteLeadKeepsProfile(l) ==  \* mutant: the profile keeps its pointer
    /\ LeadExists(l)
    /\ \A a \in Apps : app[a].lead # l /\ app[a].consent \notin LeadConsents(l)
    /\ lead' = [lead EXCEPT ![l] = NoLead]
    /\ consent' = [c \in Consents |-> IF c \in LeadConsents(l) THEN NoConsent ELSE consent[c]]
    /\ visit' = [v \in Visits |-> IF visit[v].lead = l THEN NoVisit ELSE visit[v]]
    /\ UNCHANGED <<app, profile>>

DeleteLead(l) ==
    /\ LeadExists(l)
    /\ \A a \in Apps : app[a].lead # l /\ app[a].consent \notin LeadConsents(l)
    /\ lead' = [lead EXCEPT ![l] = NoLead]
    /\ consent' = [c \in Consents |-> IF c \in LeadConsents(l) THEN NoConsent ELSE consent[c]]
    /\ profile' = [p \in Profiles |-> IF profile[p].consent \in LeadConsents(l)
                                      THEN [profile[p] EXCEPT !.consent = None]
                                      ELSE profile[p]]
    /\ visit' = [v \in Visits |-> IF visit[v].lead = l THEN NoVisit ELSE visit[v]]
    /\ UNCHANGED app

(***************************************************************************)
(* Consent.  Each handler here is one step; the races inside them are not  *)
(* this module's subject.                                                  *)
(***************************************************************************)
(* request_otp for a lead: the request is inserted and becomes the lead's  *)
(* current consent before the registry is asked for an OTP.  When that     *)
(* call fails the error is swallowed and both writes stay.                 *)
RequestOtpForLead(c, l, answered) ==
    /\ consent[c].status = Absent
    /\ LeadExists(l) /\ lead[l].status # "Rejected"
    /\ answered \/ CommitOnRefusal
    /\ consent' = [consent EXCEPT ![c] = [NoConsent EXCEPT !.status = "Pending OTP", !.lead = l,
                                          !.otp = IF answered THEN "sent" ELSE "none"]]
    /\ lead' = [lead EXCEPT ![l].consent = c]
    /\ UNCHANGED <<app, profile, visit>>

(* request_otp by a farmer: the consent of the farmer's profile, if there  *)
(* is one, is replaced by the new request.                                 *)
RequestOtpForFarmer(c, f, answered) ==
    /\ consent[c].status = Absent
    /\ answered \/ CommitOnRefusal
    /\ consent' = [consent EXCEPT ![c] = [NoConsent EXCEPT !.status = "Pending OTP", !.owner = f,
                                          !.otp = IF answered THEN "sent" ELSE "none"]]
    /\ profile' = [p \in Profiles |-> IF profile[p].user = f
                                      THEN [profile[p] EXCEPT !.consent = c]
                                      ELSE profile[p]]
    /\ UNCHANGED <<lead, app, visit>>

VerifyOtp(c) ==
    /\ consent[c].status = "Pending OTP" /\ consent[c].otp # "none"
    /\ consent' = [consent EXCEPT ![c].otp = "verified"]
    /\ UNCHANGED <<lead, app, profile, visit>>

(* submit_consent: the registry approves; or it declines and the request   *)
(* is stamped Rejected after the rollback to the savepoint; or a step after *)
(* the approval fails, the savepoint takes the approval back, and the data *)
(* job already queued "after commit" stays queued.                         *)
SubmitConsent(c, outcome) ==
    /\ consent[c].status = "Pending OTP" /\ consent[c].otp = "verified"
    /\ \/ /\ outcome = "approved"
          /\ consent' = [consent EXCEPT ![c].status = "Approved", ![c].deliverable = TRUE]
       \/ /\ outcome = "declined"
          /\ consent' = [consent EXCEPT ![c].status = "Rejected"]
       \/ /\ outcome = "failed" /\ CommitOnRefusal
          /\ consent' = [consent EXCEPT ![c].deliverable = TRUE]
    /\ UNCHANGED <<lead, app, profile, visit>>

(* process_consent_data: the job writes whatever state the delivery        *)
(* carries, if it carries one (None), and upserts the farmer profile, keyed by the farmer's account   *)
(* or else by the lead.  An unbound profile built for a lead may be bound  *)
(* to the farmer whose phone matches and who has none yet (bind).          *)
UpsertProfile(c) ==
    {p \in Profiles :
        IF consent[c].owner # None
        THEN IF \E q \in Profiles : profile[q].user = consent[c].owner
             THEN profile[p].user = consent[c].owner
             ELSE ~profile[p].exists
        ELSE IF consent[c].lead # None /\ lead[consent[c].lead].profile # None
             THEN p = lead[consent[c].lead].profile
             ELSE ~profile[p].exists}

BoundUser(c, p, bind) ==
    IF profile[p].user # None THEN profile[p].user
    ELSE IF consent[c].owner # None THEN consent[c].owner ELSE bind

ProcessConsentData(c, status, p, bind) ==
    /\ consent[c].deliverable
    /\ p \in UpsertProfile(c)
    /\ bind # None => \A q \in Profiles : profile[q].user # bind
    /\ consent' = [consent EXCEPT ![c].status = IF status = None THEN @ ELSE status]
    /\ profile' = [profile EXCEPT ![p] = [exists |-> TRUE, consent |-> c,
                                          user |-> BoundUser(c, p, bind)]]
    /\ lead' = IF consent[c].lead = None THEN lead
               ELSE [lead EXCEPT ![consent[c].lead].profile = p]
    /\ UNCHANGED <<app, visit>>

(* Any error in the job rolls it back and stamps the request Failed,       *)
(* whatever state it was in.                                               *)
ProcessConsentDataFails(c) ==
    /\ consent[c].deliverable
    /\ consent' = [consent EXCEPT ![c].status = "Failed"]
    /\ UNCHANGED <<lead, app, profile, visit>>

(* Administrators may delete a consent request, and agents a farmer        *)
(* profile as well.  Frappe's link check refuses while a lead, a profile   *)
(* or an application points at the consent, or a lead or an application at *)
(* the profile.                                                            *)
DeleteConsent(c) ==
    /\ consent[c].status # Absent
    /\ \A l \in Leads : lead[l].consent # c
    /\ \A p \in Profiles : profile[p].consent # c
    /\ \A a \in Apps : app[a].consent # c
    /\ consent' = [consent EXCEPT ![c] = NoConsent]
    /\ UNCHANGED <<lead, app, profile, visit>>

DeleteProfile(p) ==
    /\ profile[p].exists
    /\ \A l \in Leads : lead[l].profile # p
    /\ \A a \in Apps : app[a].profile # p
    /\ profile' = [profile EXCEPT ![p] = NoProfile]
    /\ UNCHANGED <<lead, app, consent, visit>>

(***************************************************************************)
(* Applications.                                                           *)
(***************************************************************************)
(* create_loan_application: the agent raises one for a Verified or         *)
(* Processed lead; every field the profile shares, consent_id included, is *)
(* copied from it.                                                         *)
CreateLoanApplication(a, l) ==
    /\ ~AppExists(a)
    /\ lead[l].status \in {"Verified", "Processed"}
    /\ \A b \in Apps : app[b].lead # l
    /\ lead[l].profile # None
    /\ lead[l].credit
    /\ app' = [app EXCEPT ![a] = [NoApp EXCEPT !.status = "Active", !.lead = l,
                                  !.profile = lead[l].profile,
                                  !.consent = profile[lead[l].profile].consent]]
    /\ UNCHANGED <<lead, consent, profile, visit>>

(* create_application: the farmer's own, with the consent the farmer names *)
(* (approved and the farmer's) or the profile's, in whatever state that is.*)
CreateApplication(a, p, named) ==
    /\ ~AppExists(a)
    /\ profile[p].user # None
    /\ named # None => consent[named].owner = profile[p].user /\ Approved(named)
    /\ app' = [app EXCEPT ![a] = [NoApp EXCEPT !.status = "Active", !.profile = p,
                                  !.consent = IF named # None THEN named
                                              ELSE profile[p].consent]]
    /\ UNCHANGED <<lead, consent, profile, visit>>

(* bank_scope_doc: a bank sees an application once it left Active, an      *)
(* agent sees those raised from a lead, a farmer those of the own profile. *)
Visible(a, role) ==
    /\ AppExists(a)
    /\ role = DevAgent => app[a].lead # None
    /\ role = Farmer => profile[app[a].profile].user # None
    /\ role \in BankRoles => app[a].status # "Active"

(* _enforce_submission_prerequisites: the first consent found in this      *)
(* order decides; only the last two searches look past it.                 *)
ConsentOfProfile(a) == profile[app[a].profile].consent
UserOfProfile(a)    == profile[app[a].profile].user

AnyLinkedConsent(a) ==  \* mutant: a linked consent is not looked at
    app[a].consent # None \/ ConsentOfProfile(a) # None

SubmissionPrerequisites(a) ==
    CASE app[a].consent # None -> Approved(app[a].consent)
      [] app[a].consent = None /\ ConsentOfProfile(a) # None -> Approved(ConsentOfProfile(a))
      [] OTHER ->
           \E c \in Consents :
               /\ Approved(c)
               /\ \/ UserOfProfile(a) # None /\ consent[c].owner = UserOfProfile(a)
                  \/ app[a].lead # None /\ (c = lead[app[a].lead].consent
                                            \/ consent[c].lead = app[a].lead)

(* apply_status_transition on an application: the transition is allowed    *)
(* for the caller and a submission has its prerequisites.  The consent the *)
(* prerequisites find is set on the document in memory only, and           *)
(* apply_workflow reloads it from the database before it saves, so         *)
(* consent_id is left as it was.                                           *)
LoanTransition(a, role, target) ==
    /\ TransitionAllowed(LoanWorkflow, app[a].status, target, role)
    /\ target = "In Transition" => SubmissionPrerequisites(a)

(* sync_lead_with_loan: a decided loan moves a lead that can follow.  The  *)
(* move saves the lead, so a phone reused by a newer open lead makes it    *)
(* fail; the failure is logged and the lead stays.                         *)
LeadFollows(a, target) ==
    LET l == app[a].lead IN
    /\ target \in TerminalArchetypes
    /\ l # None
    /\ lead[l].status \in LeadSyncable
    /\ ~PhoneTaken(l, lead[l].phone)

SyncLead(a, target) ==
    lead' = IF LeadFollows(a, target)
            THEN [lead EXCEPT ![app[a].lead].status = LeadSyncTarget(target)]
            ELSE lead

EntryStageKept(a) ==  \* mutant: a stage already set is kept
    IF app[a].stage = None THEN InitialStage ELSE app[a].stage

(* submit_application: the bank's entry stage is written first, then the   *)
(* transition is tried; a refusal leaves the stage behind.                 *)
EntryStage(a) == IF InitialStage = None THEN app[a].stage ELSE InitialStage

SubmitApplication(a, role) ==
    /\ role \in {Farmer, DevAgent}
    /\ Visible(a, role)
    /\ app[a].status = "Active"
    /\ \/ /\ LoanTransition(a, role, "In Transition")
          /\ app' = [app EXCEPT ![a].stage = EntryStage(a), ![a].status = "In Transition"]
       \/ /\ ~LoanTransition(a, role, "In Transition")
          /\ CommitOnRefusal
          /\ app' = [app EXCEPT ![a].stage = EntryStage(a)]
    /\ UNCHANGED <<lead, consent, profile, visit>>

(* resolve_bank_stage: an archetype names itself, a stage its archetype.   *)
ArchetypeOf(input) == IF input \in ArchetypeStates THEN input ELSE StageArchetype[input]

(* update_loan_status: the stage is written to the row first.  Then the    *)
(* archetype is the current one and only the stage moves, or the           *)
(* transition is applied and a terminal one takes the lead along, or it is *)
(* refused and the written stage is what remains.                          *)
UpdateLoanStatus(a, role, input) ==
    LET target == ArchetypeOf(input) IN
    /\ role \in {Admin, DevAgent} \cup BankRoles
    /\ Visible(a, role)
    /\ \/ /\ app[a].status = target
          /\ app' = [app EXCEPT ![a].stage = input]
          /\ UNCHANGED lead
       \/ /\ app[a].status # target
          /\ LoanTransition(a, role, target)
          /\ app' = [app EXCEPT ![a].stage = input, ![a].status = target]
          /\ SyncLead(a, target)
       \/ /\ app[a].status # target
          /\ ~LoanTransition(a, role, target)
          /\ CommitOnRefusal
          /\ app' = [app EXCEPT ![a].stage = input]
          /\ UNCHANGED lead
    /\ UNCHANGED <<consent, profile, visit>>

(* An administrator deletes an application; Frappe refuses a submitted one.*)
DeleteApplication(a) ==
    /\ AppExists(a)
    /\ DocStatus(app[a].status) = 0
    /\ app' = [app EXCEPT ![a] = NoApp]
    /\ UNCHANGED <<lead, consent, profile, visit>>

(***************************************************************************)
(* The specification.  Every step is a request somebody may or may not     *)
(* make, so no fairness is assumed.                                        *)
(***************************************************************************)
LeadNext ==
    \/ \E l \in Leads, ph \in Phones : CreateLead(l, ph) \/ LeadInbound(l, ph)
    \/ \E l \in Leads : AddLeadCreditInfo(l) \/ DeleteCreditInfo(l) \/ DeleteLead(l)
    \/ \E v \in Visits : DeleteVisit(v)
    \/ \E v \in Visits, l \in Leads : ScheduleVisit(v, l)
    \/ \E v \in Visits, s \in VisitStates : UpdateVisitScheduleStatus(v, s)
    \/ \E l \in Leads, role \in Roles, s \in LeadStates : UpdateLeadStatus(l, role, s)

ConsentNext ==
    \/ \E c \in Consents, l \in Leads, ok \in BOOLEAN : RequestOtpForLead(c, l, ok)
    \/ \E c \in Consents, f \in Farmers, ok \in BOOLEAN : RequestOtpForFarmer(c, f, ok)
    \/ \E c \in Consents : VerifyOtp(c) \/ ProcessConsentDataFails(c) \/ DeleteConsent(c)
    \/ \E p \in Profiles : DeleteProfile(p)
    \/ \E c \in Consents, outcome \in {"approved", "declined", "failed"} : SubmitConsent(c, outcome)
    \/ \E c \in Consents, s \in DeliveredStatus \cup {None}, p \in Profiles, f \in Farmers \cup {None} :
           ProcessConsentData(c, s, p, f)

AppNext ==
    \/ \E a \in Apps, l \in Leads : CreateLoanApplication(a, l)
    \/ \E a \in Apps, p \in Profiles, c \in Consents \cup {None} : CreateApplication(a, p, c)
    \/ \E a \in Apps, role \in Roles : SubmitApplication(a, role)
    \/ \E a \in Apps, role \in Roles, i \in StageInputs : UpdateLoanStatus(a, role, i)
    \/ \E a \in Apps : DeleteApplication(a)

Next == LeadNext \/ ConsentNext \/ AppNext

Spec == Init /\ [][Next]_vars

(***************************************************************************)
(* Properties.                                                             *)
(***************************************************************************)
(* Every row is one the tables can hold.                                   *)
TypeOK ==
    /\ lead \in [Leads -> LeadRow]
    /\ app \in [Apps -> AppRow]
    /\ consent \in [Consents -> ConsentRow]
    /\ profile \in [Profiles -> ProfileRow]
    /\ visit \in [Visits -> VisitRow]

OpenFunnel(l) == lead[l].status \in {"Active", "Verified"}

(* At most one lead in the open funnel has a given phone number, although  *)
(* create_lead, the telco webhook and the return of a Dormant lead reach   *)
(* the funnel by different checks (a2c_lead.py, _enforce_phone_uniqueness).*)
PhoneUnique ==
    \A l, m \in Leads :
        l # m /\ OpenFunnel(l) /\ OpenFunnel(m) => lead[l].phone # lead[m].phone

Evidence(l) ==
    /\ lead[l].credit
    /\ \E v \in Visits : CompletedVisit(l, v)

(* The credit information and the completed visit a lead was verified on   *)
(* are still there for as long as the lead counts as worked and for as     *)
(* long as an application rests on it, unless an administrator deleted the *)
(* last row of either kind since: no status of a visit, no deletion of     *)
(* another lead and no other request takes them away, and no lead is       *)
(* verified without them (a2c_lead.py, a2c_visit_schedule.py).             *)
LeadEvidence ==
    \A l \in Leads :
        \/ lead[l].status \in {"Verified", "Processed", "Granted"}
        \/ \E a \in Apps : AppExists(a) /\ app[a].lead = l
        => Evidence(l) \/ lead[l].stripped

(* A lead is Granted only on the strength of a completed application of    *)
(* its own, and that application outlives the grant (sync_lead_with_loan). *)
GrantedHasCompletedLoan ==
    \A l \in Leads :
        lead[l].status = "Granted" =>
            \E a \in Apps : app[a].lead = l /\ app[a].status = "Completed"

(* The applicant of application a owns consent c: the farmer raised it, or *)
(* it was raised for the lead whose profile the application carries.       *)
ApplicantOwns(a, c) ==
    LET p == app[a].profile IN
    /\ consent[c].status # Absent
    /\ \/ consent[c].owner # None /\ consent[c].owner = profile[p].user
       \/ consent[c].lead # None /\ lead[consent[c].lead].profile = p

(* The consent an application links exists and is the applicant's: no      *)
(* deletion of a lead, rebinding of a profile or newer request leaves an   *)
(* application on nobody's or somebody else's consent.                     *)
ConsentIsApplicants ==
    \A a \in Apps :
        AppExists(a) /\ app[a].consent # None => ApplicantOwns(a, app[a].consent)

(* An application leaves Active only while its applicant has an approved   *)
(* consent (_enforce_submission_prerequisites and its search order).       *)
SubmittedUnderConsent ==
    [][\A a \in Apps :
         app[a].status = "Active" /\ app'[a].status = "In Transition"
         => \E c \in Consents : Approved(c) /\ ApplicantOwns(a, c)]_vars

(* A status change that goes through leaves the stage that belongs to the  *)
(* new state, whatever a refused one wrote before it: submit_application   *)
(* and update_loan_status both write the stage ahead of the transition.    *)
(* The bank has an entry stage.                                            *)
StageFollowsStatus ==
    [][\A a \in Apps :
         /\ InitialStage # None
         /\ app'[a].status \notin {app[a].status, Absent, "Active"}
         => ArchetypeOf(app'[a].stage) = app'[a].status]_vars

(***************************************************************************)
(* The contract this machine keeps.                                        *)
(***************************************************************************)
LoanStatus(status) ==
    CASE status = Absent          -> "none"
      [] status = "Active"        -> "draft"
      [] status = "In Transition" -> "submitted"
      [] status = "Completed"     -> "completed"
      [] OTHER                    -> "refused"

CaseStatus(status) ==
    CASE status = Absent    -> "none"
      [] status = "Granted" -> "granted"
      [] OTHER              -> "open"

Contract == INSTANCE LoanContract WITH
    Loans  <- Apps,
    Cases  <- Leads,
    NoCase <- None,
    loan   <- [a \in Apps |-> LoanStatus(app[a].status)],
    raised <- [a \in Apps |-> app[a].lead],
    case   <- [l \in Leads |-> CaseStatus(lead[l].status)]

(* Every request, with all its side steps, is a step of the contract or    *)
(* leaves it alone: one loan per lead, decisions final, a lead granted     *)
(* exactly when its own application completes and never taken back.        *)
KeepsContract == Contract!Spec
=============================================================================
