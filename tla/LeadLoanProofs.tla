--------------------------- MODULE LeadLoanProofs ---------------------------
(***************************************************************************)
(* Machine-checked proofs about LeadLoan, for every set of leads,          *)
(* applications, consents, profiles, visits, phones and stages, and for    *)
(* both values of CommitOnRefusal.                                         *)
(***************************************************************************)
EXTENDS LeadLoan, TLAPS

(* A status change writes the lead's status and nothing another request    *)
(* put there.                                                              *)
LEMMA StatusUpdates ==
    ASSUME TypeOK, NEW l \in Leads, NEW role \in Roles, NEW s \in LeadStates,
           UpdateLeadStatus(l, role, s)
    PROVE  /\ lead' \in [Leads -> LeadRow]
           /\ lead'[l].status = s /\ lead'[l].phone = lead[l].phone
           /\ lead'[l].credit = lead[l].credit
           /\ lead'[l].stripped = (lead[l].stripped /\ s # "Verified")
           /\ lead'[l].profile = lead[l].profile /\ lead'[l].consent = lead[l].consent
           /\ \A m \in Leads \ {l} : lead'[m] = lead[m]
           /\ UNCHANGED <<app, consent, profile, visit>>
<1> DEFINE row == [lead[l] EXCEPT !.status = s, !.stripped = @ /\ s # "Verified"]
<1>1. lead[l] \in LeadRow /\ lead \in [Leads -> LeadRow]
  BY DEF TypeOK
<1>2. /\ row.status = s /\ row.phone = lead[l].phone /\ row.credit = lead[l].credit
      /\ row.stripped = (lead[l].stripped /\ s # "Verified")
      /\ row.profile = lead[l].profile /\ row.consent = lead[l].consent /\ row \in LeadRow
  BY <1>1 DEF LeadRow
<1>3. lead' = [lead EXCEPT ![l] = row] /\ UNCHANGED <<app, consent, profile, visit>>
  BY DEF UpdateLeadStatus
<1> HIDE DEF row
<1> QED BY <1>1, <1>2, <1>3

(* An administrator's deletion of a visit or of a lead's last credit row.  *)
RowDeleted == (\E v \in Visits : DeleteVisit(v)) \/ (\E l \in Leads : DeleteCreditInfo(l))

(* The evidence is there, or an administrator's deletion is on record.     *)
Backed(l) == Evidence(l) \/ lead[l].stripped

(* Nothing of a lead but its credit flag and the deletion mark moves.      *)
RowsStand ==
    /\ lead' \in [Leads -> LeadRow] /\ visit' \in [Visits -> VisitRow]
    /\ \A l \in Leads : /\ lead'[l].status = lead[l].status
                          /\ lead'[l].phone = lead[l].phone
                          /\ lead'[l].profile = lead[l].profile
                          /\ lead'[l].consent = lead[l].consent
    /\ UNCHANGED <<app, consent, profile>>

(* A deletion moves no lead and no link, and what it takes is on record.   *)
LEMMA RowDeletions ==
    ASSUME TypeOK, RowDeleted
    PROVE  RowsStand /\ \A l \in Leads : Backed(l) => Backed(l)'
<1> USE DEF TypeOK
<1>1. CASE \E l \in Leads : DeleteCreditInfo(l)
  <2>1. PICK l \in Leads : DeleteCreditInfo(l)
    BY <1>1
  <2> DEFINE row == [lead[l] EXCEPT !.credit = FALSE, !.stripped = TRUE]
  <2>2. /\ row \in LeadRow /\ row.status = lead[l].status /\ row.phone = lead[l].phone
        /\ row.stripped /\ row.profile = lead[l].profile /\ row.consent = lead[l].consent
    BY DEF LeadRow
  <2>3. lead' = [lead EXCEPT ![l] = row] /\ UNCHANGED <<app, consent, profile, visit>>
    BY <2>1 DEF DeleteCreditInfo
  <2> HIDE DEF row
  <2>4. lead'[l] = row /\ \A m \in Leads \ {l} : lead'[m] = lead[m]
    BY <2>3
  <2>5. RowsStand
    BY <2>2, <2>3, <2>4 DEF RowsStand
  <2>6. \A m \in Leads \ {l} : Backed(m) => Backed(m)'
    BY <2>3, <2>4 DEF Backed, Evidence, CompletedVisit
  <2>7. Backed(l)'
    BY <2>2, <2>4 DEF Backed
  <2> QED BY <2>5, <2>6, <2>7
<1>2. CASE \E v \in Visits : DeleteVisit(v)
  <2>1. PICK v \in Visits : DeleteVisit(v)
    BY <1>2
  <2> DEFINE l == visit[v].lead
  <2>2. /\ visit' = [visit EXCEPT ![v] = NoVisit] /\ NoVisit \in VisitRow
        /\ visit'[v] = NoVisit /\ NoVisit.status = Absent
        /\ \A w \in Visits \ {v} : visit'[w] = visit[w]
        /\ UNCHANGED <<app, consent, profile>>
    BY <2>1 DEF DeleteVisit, NoVisit, VisitRow
  <2>3. CASE /\ CompletedVisit(l, v) /\ l \in Leads
             /\ \A w \in Visits \ {v} : ~CompletedVisit(l, w)
    <3> DEFINE row == [lead[l] EXCEPT !.stripped = TRUE]
    <3>1. /\ row \in LeadRow /\ row.status = lead[l].status /\ row.phone = lead[l].phone
          /\ row.stripped /\ row.profile = lead[l].profile /\ row.consent = lead[l].consent
      BY <2>3 DEF LeadRow
    <3>2. lead' = [lead EXCEPT ![l] = row]
      BY <2>1, <2>3 DEF DeleteVisit
    <3> HIDE DEF row
    <3>3. lead'[l] = row /\ \A m \in Leads \ {l} : lead'[m] = lead[m]
      BY <2>3, <3>2
    <3>4. RowsStand
      BY <2>2, <2>3, <3>1, <3>2, <3>3 DEF RowsStand
    <3>5. ASSUME NEW m \in Leads \ {l}, Evidence(m) PROVE Evidence(m)'
      <4>1. PICK w \in Visits : CompletedVisit(m, w)
        BY <3>5 DEF Evidence
      <4>2. w # v
        BY <2>3, <4>1 DEF CompletedVisit
      <4>3. CompletedVisit(m, w)'
        BY <2>2, <4>1, <4>2 DEF CompletedVisit
      <4> QED BY <3>3, <3>5, <4>3 DEF Evidence
    <3>6. \A m \in Leads : Backed(m) => Backed(m)'
      BY <3>1, <3>3, <3>5 DEF Backed
    <3> QED BY <3>4, <3>6
  <2>4. CASE ~(/\ CompletedVisit(l, v) /\ l \in Leads
               /\ \A w \in Visits \ {v} : ~CompletedVisit(l, w))
    <3>1. lead' = lead
      <4>1. l \notin Leads => [lead EXCEPT ![l].stripped = TRUE] = lead
        OBVIOUS
      <4> QED BY <2>1, <2>4, <4>1 DEF DeleteVisit
    <3>2. RowsStand
      BY <2>2, <3>1 DEF RowsStand
    <3>3. ASSUME NEW m \in Leads, Evidence(m) PROVE Evidence(m)'
      <4>1. PICK w \in Visits : CompletedVisit(m, w)
        BY <3>3 DEF Evidence
      <4>2. \E u \in Visits \ {v} : CompletedVisit(m, u)
        BY <2>4, <4>1 DEF CompletedVisit
      <4>3. \E u \in Visits : CompletedVisit(m, u)'
        BY <2>2, <4>2 DEF CompletedVisit
      <4> QED BY <3>1, <3>3, <4>3 DEF Evidence
    <3>4. \A m \in Leads : Backed(m) => Backed(m)'
      BY <3>1, <3>3 DEF Backed
    <3> QED BY <3>2, <3>4
  <2> QED BY <2>3, <2>4
<1> QED BY <1>1, <1>2 DEF RowDeleted

(* Every row stays one its table can hold, whichever request runs.         *)
THEOREM TypeCorrect == Spec => []TypeOK
<1>1. Init => TypeOK
  BY DEF Init, TypeOK, LeadRow, AppRow, ConsentRow, ProfileRow, VisitRow,
         NoLead, NoApp, NoConsent, NoProfile, NoVisit
<1>2. TypeOK /\ [Next]_vars => TypeOK'
  <2> SUFFICES ASSUME TypeOK, [Next]_vars PROVE TypeOK'
    OBVIOUS
  <2> USE DEF TypeOK
  <2>1. CASE LeadNext
    <3> USE DEF LeadRow
    <3>1. ASSUME NEW l \in Leads, NEW ph \in Phones, CreateLead(l, ph) \/ LeadInbound(l, ph)
          PROVE TypeOK'
      <4>1. NoLead.status = Absent /\ [NoLead EXCEPT !.status = "Active", !.phone = ph] \in LeadRow
        BY DEF NoLead, LeadStates
      <4>2. lead' \in [Leads -> LeadRow] /\ UNCHANGED <<app, consent, profile, visit>>
        BY <3>1, <4>1 DEF CreateLead, LeadInbound
      <4> QED BY <4>2
    <3>2. ASSUME NEW l \in Leads, AddLeadCreditInfo(l)
          PROVE TypeOK'
      BY <3>2 DEF AddLeadCreditInfo
    <3>3. ASSUME NEW l \in Leads, DeleteLead(l)
          PROVE TypeOK'
      BY <3>3 DEF DeleteLead, NoLead, NoConsent, NoVisit, ConsentRow, ProfileRow, VisitRow
    <3>4. ASSUME NEW v \in Visits, NEW l \in Leads, ScheduleVisit(v, l)
          PROVE TypeOK'
      BY <3>4 DEF ScheduleVisit, VisitRow, VisitStates
    <3>5. ASSUME NEW v \in Visits, NEW s \in VisitStates, UpdateVisitScheduleStatus(v, s)
          PROVE TypeOK'
      BY <3>5 DEF UpdateVisitScheduleStatus, VisitRow
    <3>6. ASSUME NEW l \in Leads, NEW role \in Roles, NEW s \in LeadStates,
                 UpdateLeadStatus(l, role, s)
          PROVE TypeOK'
      BY <3>6, StatusUpdates
    <3>7. ASSUME RowDeleted PROVE TypeOK'
      BY <3>7, RowDeletions DEF RowsStand
    <3> QED BY <2>1, <3>1, <3>2, <3>3, <3>4, <3>5, <3>6, <3>7 DEF LeadNext, RowDeleted
  <2>2. CASE ConsentNext
    <3> USE DEF ConsentRow, ConsentStates
    <3>1. ASSUME NEW c \in Consents, NEW l \in Leads, NEW ok \in BOOLEAN,
                 RequestOtpForLead(c, l, ok)
          PROVE TypeOK'
      <4>1. lead' \in [Leads -> LeadRow]
        <5>1. lead' = [lead EXCEPT ![l].consent = c]
          BY <3>1 DEF RequestOtpForLead
        <5> HIDE DEF ConsentRow
        <5> QED BY <5>1 DEF LeadRow
      <4>2. consent' \in [Consents -> ConsentRow]
        <5>1. [NoConsent EXCEPT !.status = "Pending OTP", !.lead = l,
                                !.otp = IF ok THEN "sent" ELSE "none"] \in ConsentRow
          BY DEF NoConsent
        <5> QED BY <3>1, <5>1 DEF RequestOtpForLead
      <4> QED BY <3>1, <4>1, <4>2 DEF RequestOtpForLead
    <3>2. ASSUME NEW c \in Consents, NEW f \in Farmers, NEW ok \in BOOLEAN,
                 RequestOtpForFarmer(c, f, ok)
          PROVE TypeOK'
      BY <3>2 DEF RequestOtpForFarmer, NoConsent, ProfileRow
    <3>3. ASSUME NEW c \in Consents, VerifyOtp(c) \/ ProcessConsentDataFails(c)
          PROVE TypeOK'
      <4>1. CASE VerifyOtp(c)
        BY <4>1 DEF VerifyOtp
      <4>2. CASE ProcessConsentDataFails(c)
        BY <4>2 DEF ProcessConsentDataFails
      <4> QED BY <3>3, <4>1, <4>2
    <3>4. ASSUME NEW c \in Consents, NEW o \in {"approved", "declined", "failed"},
                 SubmitConsent(c, o)
          PROVE TypeOK'
      <4> DEFINE Set(field) == consent' = field
      <4>1. CASE Set([consent EXCEPT ![c].status = "Approved", ![c].deliverable = TRUE])
        <5>1. [consent[c] EXCEPT !.status = "Approved", !.deliverable = TRUE] \in ConsentRow
          OBVIOUS
        <5>2. consent' = [consent EXCEPT ![c] = [consent[c] EXCEPT !.status = "Approved",
                                                                   !.deliverable = TRUE]]
          BY <4>1
        <5> HIDE DEF ConsentRow
        <5> QED BY <3>4, <5>1, <5>2 DEF SubmitConsent
      <4>2. CASE Set([consent EXCEPT ![c].status = "Rejected"])
        BY <3>4, <4>2 DEF SubmitConsent
      <4>3. CASE Set([consent EXCEPT ![c].deliverable = TRUE])
        BY <3>4, <4>3 DEF SubmitConsent
      <4> QED BY <3>4, <4>1, <4>2, <4>3 DEF SubmitConsent
    <3>5. ASSUME NEW c \in Consents, NEW s \in DeliveredStatus \cup {None},
                 NEW p \in Profiles, NEW f \in Farmers \cup {None},
                 ProcessConsentData(c, s, p, f)
          PROVE TypeOK'
      <4>1. consent' \in [Consents -> ConsentRow]
        <5>1. CASE s = None
          BY <3>5, <5>1 DEF ProcessConsentData
        <5>2. CASE s # None
          <6>1. consent' = [consent EXCEPT ![c].status = s]
            BY <3>5, <5>2 DEF ProcessConsentData
          <6>2. s \in ConsentStates
            BY <5>2, DeliveredAssumption
          <6> QED BY <6>1, <6>2
        <5> QED BY <5>1, <5>2
      <4>2. profile' \in [Profiles -> ProfileRow]
        <5>1. BoundUser(c, p, f) \in Farmers \cup {None}
          BY DEF BoundUser, ProfileRow
        <5> QED BY <3>5, <5>1 DEF ProcessConsentData, ProfileRow
      <4>3. lead' \in [Leads -> LeadRow]
        <5>1. CASE consent[c].lead = None
          BY <3>5, <5>1 DEF ProcessConsentData
        <5>2. CASE consent[c].lead # None
          <6>1. lead' = [lead EXCEPT ![consent[c].lead].profile = p] /\ consent[c].lead \in Leads
            BY <3>5, <5>2 DEF ProcessConsentData
          <6> HIDE DEF ConsentRow
          <6> QED BY <6>1 DEF LeadRow
        <5> QED BY <5>1, <5>2
      <4> QED BY <3>5, <4>1, <4>2, <4>3 DEF ProcessConsentData
    <3>6. ASSUME NEW c \in Consents, DeleteConsent(c) PROVE TypeOK'
      BY <3>6 DEF DeleteConsent, NoConsent
    <3>7. ASSUME NEW p \in Profiles, DeleteProfile(p) PROVE TypeOK'
      BY <3>7 DEF DeleteProfile, NoProfile, ProfileRow
    <3> QED BY <2>2, <3>1, <3>2, <3>3, <3>4, <3>5, <3>6, <3>7 DEF ConsentNext
  <2>3. CASE AppNext
    <3> USE DEF AppRow, ArchetypeStates
    <3>1. ASSUME NEW a \in Apps, NEW l \in Leads, CreateLoanApplication(a, l)
          PROVE TypeOK'
      BY <3>1 DEF CreateLoanApplication, NoApp, LeadRow, ProfileRow
    <3>2. ASSUME NEW a \in Apps, NEW p \in Profiles, NEW c \in Consents \cup {None},
                 CreateApplication(a, p, c)
          PROVE TypeOK'
      BY <3>2 DEF CreateApplication, NoApp, ProfileRow
    <3>3. ASSUME NEW a \in Apps, NEW role \in Roles, SubmitApplication(a, role)
          PROVE TypeOK'
      <4>1. EntryStage(a) \in StageInputs \cup {None}
        BY StagesAssumption DEF EntryStage, StageInputs
      <4>2. CASE app' = [app EXCEPT ![a].stage = EntryStage(a), ![a].status = "In Transition"]
        <5>1. [app[a] EXCEPT !.stage = EntryStage(a), !.status = "In Transition"] \in AppRow
          BY <4>1
        <5>2. app' = [app EXCEPT ![a] = [app[a] EXCEPT !.stage = EntryStage(a),
                                                       !.status = "In Transition"]]
          BY <4>2
        <5> HIDE DEF AppRow
        <5> QED BY <3>3, <5>1, <5>2 DEF SubmitApplication
      <4>3. CASE app' = [app EXCEPT ![a].stage = EntryStage(a)]
        BY <3>3, <4>1, <4>3 DEF SubmitApplication
      <4> QED BY <3>3, <4>2, <4>3 DEF SubmitApplication
    <3>4. ASSUME NEW a \in Apps, NEW role \in Roles, NEW i \in StageInputs,
                 UpdateLoanStatus(a, role, i)
          PROVE TypeOK'
      <4> DEFINE target == ArchetypeOf(i)
      <4>1. target \in ArchetypeStates
        BY StagesAssumption DEF ArchetypeOf, StageInputs
      <4>2. app' \in [Apps -> AppRow]
        <5>1. CASE app' = [app EXCEPT ![a].stage = i]
          BY <5>1
        <5>2. CASE app' = [app EXCEPT ![a].stage = i, ![a].status = target]
          <6>1. [app[a] EXCEPT !.stage = i, !.status = target] \in AppRow
            BY <4>1
          <6>2. app' = [app EXCEPT ![a] = [app[a] EXCEPT !.stage = i, !.status = target]]
            BY <5>2
          <6> HIDE DEF AppRow, target
          <6> QED BY <6>1, <6>2
        <5> QED BY <3>4, <5>1, <5>2 DEF UpdateLoanStatus
      <4>3. lead' \in [Leads -> LeadRow]
        <5>1. CASE lead' = lead
          BY <5>1
        <5>2. CASE SyncLead(a, target)
          <6>1. LeadSyncTarget(target) \in LeadStates
            BY DEF LeadSyncTarget, LeadStates
          <6>2. CASE LeadFollows(a, target)
            <7>1. app[a].lead \in Leads
              BY <6>2 DEF LeadFollows
            <7>2. lead' = [lead EXCEPT ![app[a].lead].status = LeadSyncTarget(target)]
              BY <5>2, <6>2 DEF SyncLead
            <7> HIDE DEF target, AppRow
            <7> QED BY <6>1, <7>1, <7>2 DEF LeadRow
          <6>3. CASE ~LeadFollows(a, target)
            BY <5>2, <6>3 DEF SyncLead
          <6> QED BY <6>2, <6>3
        <5> QED BY <3>4, <5>1, <5>2 DEF UpdateLoanStatus
      <4> QED BY <3>4, <4>2, <4>3 DEF UpdateLoanStatus
    <3>5. ASSUME NEW a \in Apps, DeleteApplication(a)
          PROVE TypeOK'
      BY <3>5 DEF DeleteApplication, NoApp
    <3> QED BY <2>3, <3>1, <3>2, <3>3, <3>4, <3>5 DEF AppNext
  <2>4. CASE UNCHANGED vars
    BY <2>4 DEF vars
  <2> QED BY <2>1, <2>2, <2>3, <2>4 DEF Next
<1> QED BY <1>1, <1>2, PTL DEF Spec

(***************************************************************************)
(* What each family of steps leaves alone.                                 *)
(***************************************************************************)
(* No consent handler touches what the lead invariants read.               *)
LEMMA ConsentStepsKeepLeads ==
    ASSUME TypeOK, ConsentNext
    PROVE  /\ \A l \in Leads : /\ lead'[l].status = lead[l].status
                               /\ lead'[l].phone = lead[l].phone
                               /\ lead'[l].credit = lead[l].credit
                               /\ lead'[l].stripped = lead[l].stripped
           /\ UNCHANGED <<app, visit>>
<1> USE DEF TypeOK, LeadRow
<1>1. ASSUME NEW c \in Consents, NEW l \in Leads, NEW ok \in BOOLEAN,
             RequestOtpForLead(c, l, ok)
      PROVE  lead' = [lead EXCEPT ![l].consent = c] /\ UNCHANGED <<app, visit>>
  BY <1>1 DEF RequestOtpForLead
<1>2. ASSUME NEW c \in Consents, NEW s \in DeliveredStatus \cup {None},
             NEW p \in Profiles, NEW f \in Farmers \cup {None},
             ProcessConsentData(c, s, p, f)
      PROVE  /\ \/ lead' = lead
                \/ \E l \in Leads : lead' = [lead EXCEPT ![l].profile = p]
             /\ UNCHANGED <<app, visit>>
  <2>1. consent[c].lead \in Leads \cup {None}
    BY DEF ConsentRow
  <2> QED BY <1>2, <2>1 DEF ProcessConsentData
<1>3. ASSUME NEW c \in Consents, NEW f \in Farmers, NEW ok \in BOOLEAN,
             RequestOtpForFarmer(c, f, ok)
      PROVE  UNCHANGED <<lead, app, visit>>
  BY <1>3 DEF RequestOtpForFarmer
<1>4. ASSUME NEW c \in Consents, VerifyOtp(c) \/ ProcessConsentDataFails(c)
      PROVE  UNCHANGED <<lead, app, visit>>
  BY <1>4 DEF VerifyOtp, ProcessConsentDataFails
<1>5. ASSUME NEW c \in Consents, NEW o \in {"approved", "declined", "failed"},
             SubmitConsent(c, o)
      PROVE  UNCHANGED <<lead, app, visit>>
  BY <1>5 DEF SubmitConsent
<1> DEFINE Kept == /\ \A l \in Leads : /\ lead'[l].status = lead[l].status
                                        /\ lead'[l].phone = lead[l].phone
                                        /\ lead'[l].credit = lead[l].credit
                                        /\ lead'[l].stripped = lead[l].stripped
                   /\ UNCHANGED <<app, visit>>
<1>6. ASSUME NEW c \in Consents, NEW l \in Leads, NEW ok \in BOOLEAN,
             RequestOtpForLead(c, l, ok)
      PROVE  Kept
  BY <1>1, <1>6
<1>7. ASSUME NEW c \in Consents, NEW s \in DeliveredStatus \cup {None},
             NEW p \in Profiles, NEW f \in Farmers \cup {None},
             ProcessConsentData(c, s, p, f)
      PROVE  Kept
  <2>1. CASE lead' = lead
    BY <1>2, <1>7, <2>1
  <2>2. CASE \E l \in Leads : lead' = [lead EXCEPT ![l].profile = p]
    <3>1. PICK l \in Leads : lead' = [lead EXCEPT ![l].profile = p]
      BY <2>2
    <3>2. \A m \in Leads : /\ lead'[m].status = lead[m].status
                            /\ lead'[m].phone = lead[m].phone
                            /\ lead'[m].credit = lead[m].credit
                            /\ lead'[m].stripped = lead[m].stripped
      BY <3>1
    <3> QED BY <1>2, <1>7, <3>2
  <2> QED BY <1>2, <1>7, <2>1, <2>2
<1>8. UNCHANGED <<lead, app, visit>> => Kept
  OBVIOUS
<1>9. ASSUME NEW c \in Consents, DeleteConsent(c) PROVE UNCHANGED <<lead, app, visit>>
  BY <1>9 DEF DeleteConsent
<1>10. ASSUME NEW p \in Profiles, DeleteProfile(p) PROVE UNCHANGED <<lead, app, visit>>
  BY <1>10 DEF DeleteProfile
<1> QED BY <1>3, <1>4, <1>5, <1>6, <1>7, <1>8, <1>9, <1>10 DEF ConsentNext

(* How a step on applications changes leads: not at all, or the lead of a  *)
(* loan just decided moves out of the funnel.                              *)
LEMMA AppStepsAndLeads ==
    ASSUME TypeOK, AppNext
    PROVE  /\ UNCHANGED visit
           /\ \/ UNCHANGED lead
              \/ \E a \in Apps, target \in TerminalArchetypes :
                    /\ app[a].lead \in Leads
                    /\ lead[app[a].lead].status \in LeadSyncable
                    /\ lead' = [lead EXCEPT ![app[a].lead].status = LeadSyncTarget(target)]
                    /\ app' = [app EXCEPT ![a] = app'[a]]
                    /\ app'[a].status = target
                    /\ app'[a].lead = app[a].lead
<1> USE DEF TypeOK
<1>1. ASSUME NEW a \in Apps, NEW role \in Roles, NEW i \in StageInputs,
             UpdateLoanStatus(a, role, i), ~UNCHANGED lead
      PROVE  LET target == ArchetypeOf(i) IN
             /\ target \in TerminalArchetypes
             /\ app[a].lead \in Leads
             /\ lead[app[a].lead].status \in LeadSyncable
             /\ lead' = [lead EXCEPT ![app[a].lead].status = LeadSyncTarget(target)]
             /\ app' = [app EXCEPT ![a] = app'[a]]
             /\ app'[a].status = target
             /\ app'[a].lead = app[a].lead
  <2> DEFINE target == ArchetypeOf(i)
  <2>1. /\ app' = [app EXCEPT ![a].stage = i, ![a].status = target]
        /\ SyncLead(a, target)
    BY <1>1 DEF UpdateLoanStatus
  <2>2. LeadFollows(a, target)
        /\ lead' = [lead EXCEPT ![app[a].lead].status = LeadSyncTarget(target)]
    BY <1>1, <2>1 DEF SyncLead
  <2>3. app[a] \in AppRow
    OBVIOUS
  <2>4. app' = [app EXCEPT ![a] = [app[a] EXCEPT !.stage = i, !.status = target]]
    BY <2>1
  <2>5. app'[a] = [app[a] EXCEPT !.stage = i, !.status = target]
    BY <2>4
  <2>6. app'[a].status = target /\ app'[a].lead = app[a].lead
    BY <2>3, <2>5 DEF AppRow
  <2> QED BY <2>2, <2>3, <2>4, <2>5, <2>6 DEF LeadFollows, AppRow
<1>2. ASSUME NEW a \in Apps, NEW role \in Roles, NEW i \in StageInputs,
             UpdateLoanStatus(a, role, i)
      PROVE  UNCHANGED visit
  BY <1>2 DEF UpdateLoanStatus
<1> QED BY <1>1, <1>2
        DEF AppNext, CreateLoanApplication, CreateApplication, SubmitApplication,
            DeleteApplication

(***************************************************************************)
(* One lead per phone in the open funnel.                                  *)
(***************************************************************************)
(* The funnel stays free of duplicates when it gains at most one lead, and *)
(* no other lead in it has that lead's phone.                              *)
LEMMA FunnelGrowsByOne ==
    ASSUME PhoneUnique, NEW k \in Leads,
           \A l \in Leads \ {k} : OpenFunnel(l)' => OpenFunnel(l) /\ lead'[l].phone = lead[l].phone,
           OpenFunnel(k)' => ~PhoneTaken(k, lead'[k].phone)
    PROVE  PhoneUnique'
BY DEF PhoneUnique, OpenFunnel, PhoneTaken

(* The funnel stays free of duplicates when it gains no lead.              *)
LEMMA FunnelShrinks ==
    ASSUME PhoneUnique,
           \A l \in Leads : OpenFunnel(l)' => OpenFunnel(l) /\ lead'[l].phone = lead[l].phone
    PROVE  PhoneUnique'
BY DEF PhoneUnique, OpenFunnel

(* Every save of a lead checks the phone it brings into the funnel.        *)
LEMMA PhoneUniqueStep == TypeOK /\ PhoneUnique /\ [Next]_vars => PhoneUnique'
<1> SUFFICES ASSUME TypeOK, PhoneUnique, [Next]_vars PROVE PhoneUnique'
  OBVIOUS
<1>1. CASE LeadNext
  <2> USE DEF TypeOK, LeadRow
  <2>1. ASSUME NEW k \in Leads, NEW ph \in Phones, CreateLead(k, ph) \/ LeadInbound(k, ph)
        PROVE  PhoneUnique'
    <3>1. lead' = [lead EXCEPT ![k] = [NoLead EXCEPT !.status = "Active", !.phone = ph]]
      BY <2>1 DEF CreateLead, LeadInbound
    <3>2. lead'[k].phone = ph /\ \A l \in Leads \ {k} : lead'[l] = lead[l]
      BY <3>1 DEF NoLead
    <3>3. ~PhoneTaken(k, ph)
      BY <2>1 DEF CreateLead, LeadInbound, PhoneTaken
    <3> QED BY <3>2, <3>3, FunnelGrowsByOne DEF OpenFunnel
  <2>2. ASSUME NEW k \in Leads, NEW role \in Roles, NEW s \in LeadStates,
               UpdateLeadStatus(k, role, s)
        PROVE  PhoneUnique'
    <3>1. ~PhoneTaken(k, lead[k].phone)
      BY <2>2 DEF UpdateLeadStatus
    <3>2. lead'[k].phone = lead[k].phone /\ \A l \in Leads \ {k} : lead'[l] = lead[l]
      BY <2>2, StatusUpdates
    <3> QED BY <3>1, <3>2, FunnelGrowsByOne DEF OpenFunnel
  <2>3. ASSUME NEW k \in Leads, DeleteLead(k)
        PROVE  PhoneUnique'
    <3>1. lead' = [lead EXCEPT ![k] = NoLead]
      BY <2>3 DEF DeleteLead
    <3>2. lead'[k].status = Absent /\ \A l \in Leads \ {k} : lead'[l] = lead[l]
      BY <3>1 DEF NoLead
    <3> QED BY <3>2, FunnelShrinks DEF OpenFunnel, Absent
  <2>4. ASSUME NEW k \in Leads, AddLeadCreditInfo(k)
        PROVE  PhoneUnique'
    <3>1. lead' = [lead EXCEPT ![k].credit = TRUE]
      BY <2>4 DEF AddLeadCreditInfo
    <3>2. \A l \in Leads : lead'[l].status = lead[l].status /\ lead'[l].phone = lead[l].phone
      BY <3>1
    <3> QED BY <3>2, FunnelShrinks DEF OpenFunnel
  <2>5. ASSUME UNCHANGED lead PROVE PhoneUnique'
    BY <2>5 DEF PhoneUnique, OpenFunnel
  <2>6. ASSUME RowDeleted PROVE PhoneUnique'
    BY <2>6, RowDeletions, FunnelShrinks DEF RowsStand, OpenFunnel
  <2> QED BY <1>1, <2>1, <2>2, <2>3, <2>4, <2>5, <2>6
          DEF LeadNext, RowDeleted, ScheduleVisit, UpdateVisitScheduleStatus
<1>2. CASE ConsentNext
  BY <1>2, ConsentStepsKeepLeads, FunnelShrinks DEF OpenFunnel
<1>3. CASE AppNext
  <2>1. CASE UNCHANGED lead
    BY <2>1 DEF PhoneUnique, OpenFunnel
  <2>2. CASE ~UNCHANGED lead
    <3>1. PICK a \in Apps, target \in TerminalArchetypes :
             app[a].lead \in Leads
             /\ lead' = [lead EXCEPT ![app[a].lead].status = LeadSyncTarget(target)]
      BY <1>3, <2>2, AppStepsAndLeads
    <3>2. \A l \in Leads : /\ lead'[l].phone = lead[l].phone
                            /\ lead'[l].status \in {lead[l].status, LeadSyncTarget(target)}
      BY <3>1 DEF TypeOK, LeadRow
    <3>3. LeadSyncTarget(target) \notin {"Active", "Verified"}
      BY DEF LeadSyncTarget
    <3> QED BY <3>2, <3>3, FunnelShrinks DEF OpenFunnel
  <2> QED BY <2>1, <2>2
<1>4. CASE UNCHANGED vars
  BY <1>4 DEF vars, PhoneUnique, OpenFunnel
<1> QED BY <1>1, <1>2, <1>3, <1>4 DEF Next

(* At most one lead in the open funnel per phone, in every deployment.     *)
THEOREM OneLeadPerPhone == Spec => []PhoneUnique
<1>1. Init => PhoneUnique
  BY DEF Init, PhoneUnique, OpenFunnel, NoLead, Absent
<1> QED BY <1>1, PhoneUniqueStep, TypeCorrect, PTL DEF Spec


(***************************************************************************)
(* The evidence behind a worked lead.                                      *)
(***************************************************************************)
ReliesOnEvidence(l) ==
    \/ lead[l].status \in {"Verified", "Processed", "Granted"}
    \/ \E a \in Apps : AppExists(a) /\ app[a].lead = l

(* LeadEvidence is not inductive alone: a lead must not come into being    *)
(* under an application that already names it.                             *)
AppsHaveLeads ==
    \A a \in Apps : AppExists(a) /\ app[a].lead # None => LeadExists(app[a].lead)

EvidenceInv == LeadEvidence /\ AppsHaveLeads

(* A step keeps the invariant when every lead that relies on evidence      *)
(* after it has it, or relied on it before and lost none, and when leads   *)
(* with applications stay.                                                 *)
LEMMA EvidenceKept ==
    ASSUME LeadEvidence,
           \A l \in Leads : ReliesOnEvidence(l)' =>
               \/ Backed(l)'
               \/ ReliesOnEvidence(l) /\ (Backed(l) => Backed(l)')
    PROVE  LeadEvidence'
BY DEF LeadEvidence, ReliesOnEvidence, Backed

(* Evidence goes only with the lead or by an administrator's deletion,     *)
(* which leaves its mark; Completed visits are settled.                    *)
LEMMA EvidenceStep == TypeOK /\ EvidenceInv /\ [Next]_vars => EvidenceInv'
<1> SUFFICES ASSUME TypeOK, EvidenceInv, [Next]_vars PROVE EvidenceInv'
  OBVIOUS
<1> USE DEF EvidenceInv
<1>1. CASE LeadNext
  <2> USE DEF TypeOK, LeadRow
  <2>1. ASSUME NEW k \in Leads, NEW ph \in Phones, CreateLead(k, ph) \/ LeadInbound(k, ph)
        PROVE  EvidenceInv'
    <3>1. /\ lead' = [lead EXCEPT ![k] = [NoLead EXCEPT !.status = "Active", !.phone = ph]]
          /\ lead[k].status = Absent
          /\ UNCHANGED <<app, visit>>
      BY <2>1 DEF CreateLead, LeadInbound, LeadExists
    <3>2. lead'[k].status = "Active" /\ \A l \in Leads \ {k} : lead'[l] = lead[l]
      BY <3>1 DEF NoLead
    <3>3. ~ReliesOnEvidence(k)'
      BY <3>1, <3>2, NoneAssumption DEF ReliesOnEvidence, AppsHaveLeads, LeadExists, AppExists
    <3>4. \A l \in Leads \ {k} : /\ ReliesOnEvidence(l)' => ReliesOnEvidence(l)
                                 /\ Backed(l) => Backed(l)'
      BY <3>1, <3>2 DEF ReliesOnEvidence, Backed, Evidence, CompletedVisit, AppExists
    <3>5. LeadEvidence'
      BY <3>3, <3>4, EvidenceKept
    <3>6. AppsHaveLeads'
      BY <3>1, <3>2 DEF AppsHaveLeads, LeadExists, AppExists, AppRow, Absent
    <3> QED BY <3>5, <3>6
  <2>2. ASSUME NEW k \in Leads, NEW role \in Roles, NEW s \in LeadStates,
               UpdateLeadStatus(k, role, s)
        PROVE  EvidenceInv'
    <3>1. /\ LeadExists(k)
          /\ TransitionAllowed(LeadWorkflow, lead[k].status, s, role)
          /\ s = "Verified" => VerificationPrerequisites(k)
          /\ UNCHANGED <<app, visit>>
      BY <2>2 DEF UpdateLeadStatus
    <3>2. /\ lead'[k].status = s /\ lead'[k].credit = lead[k].credit
          /\ lead'[k].stripped = (lead[k].stripped /\ s # "Verified")
          /\ \A l \in Leads \ {k} : lead'[l] = lead[l]
      BY <2>2, StatusUpdates
    <3>5. s = "Verified" => Evidence(k)
      BY <3>1 DEF VerificationPrerequisites, Evidence
    <3>3. \A l \in Leads : Backed(l) => Backed(l)'
      <4>1. \A l \in Leads : Evidence(l) => Evidence(l)'
        BY <3>1, <3>2 DEF Evidence, CompletedVisit
      <4> QED BY <3>2, <3>5, <4>1 DEF Backed
    <3>4. s \in {"Processed", "Granted"} => lead[k].status \in {"Verified", "Processed"}
      BY <3>1 DEF TransitionAllowed, LeadWorkflow, BankRoles, DevAgent, BankAgent, BankAdmin
    <3>6. ReliesOnEvidence(k)' => Backed(k) \/ ReliesOnEvidence(k)
      BY <3>1, <3>2, <3>4, <3>5 DEF ReliesOnEvidence, AppExists, Backed
    <3>7. \A l \in Leads \ {k} : ReliesOnEvidence(l)' => ReliesOnEvidence(l)
      BY <3>1, <3>2 DEF ReliesOnEvidence, AppExists
    <3>8. LeadEvidence'
      BY <3>3, <3>6, <3>7, EvidenceKept
    <3>9. AppsHaveLeads'
      BY <3>1, <3>2 DEF AppsHaveLeads, LeadExists, AppExists, AppRow, Absent, LeadStates
    <3> QED BY <3>8, <3>9
  <2>3. ASSUME NEW k \in Leads, DeleteLead(k)
        PROVE  EvidenceInv'
    <3>1. /\ lead' = [lead EXCEPT ![k] = NoLead]
          /\ \A a \in Apps : app[a].lead # k
          /\ visit' = [v \in Visits |-> IF visit[v].lead = k THEN NoVisit ELSE visit[v]]
          /\ UNCHANGED app
      BY <2>3 DEF DeleteLead
    <3>2. lead'[k].status = Absent /\ \A l \in Leads \ {k} : lead'[l] = lead[l]
      BY <3>1 DEF NoLead
    <3>3. ~ReliesOnEvidence(k)'
      BY <3>1, <3>2 DEF ReliesOnEvidence, Absent
    <3>4. \A l \in Leads \ {k} : /\ ReliesOnEvidence(l)' => ReliesOnEvidence(l)
                                 /\ Backed(l) => Backed(l)'
      BY <3>1, <3>2 DEF ReliesOnEvidence, Backed, Evidence, CompletedVisit, AppExists
    <3>5. LeadEvidence'
      BY <3>3, <3>4, EvidenceKept
    <3>6. AppsHaveLeads'
      BY <3>1, <3>2 DEF AppsHaveLeads, LeadExists, AppExists, AppRow
    <3> QED BY <3>5, <3>6
  <2>4. ASSUME NEW k \in Leads, AddLeadCreditInfo(k)
        PROVE  EvidenceInv'
    <3>1. lead' = [lead EXCEPT ![k].credit = TRUE] /\ UNCHANGED <<app, visit>>
      BY <2>4 DEF AddLeadCreditInfo
    <3>2. \A l \in Leads : /\ lead'[l].status = lead[l].status
                           /\ lead[l].credit => lead'[l].credit
      BY <3>1
    <3>3. LeadEvidence'
      BY <3>1, <3>2, EvidenceKept DEF ReliesOnEvidence, Backed, Evidence, CompletedVisit, AppExists
    <3>4. AppsHaveLeads'
      BY <3>1, <3>2 DEF AppsHaveLeads, LeadExists, AppExists, AppRow
    <3> QED BY <3>3, <3>4
  <2>5. ASSUME NEW v \in Visits, NEW l \in Leads, ScheduleVisit(v, l)
        PROVE  EvidenceInv'
    <3>1. /\ visit[v].status = Absent
          /\ visit' = [visit EXCEPT ![v] = [status |-> "Scheduled", lead |-> l]]
          /\ UNCHANGED <<lead, app>>
      BY <2>5 DEF ScheduleVisit
    <3>2. \A k \in Leads : Backed(k) => Backed(k)'
      BY <3>1 DEF Backed, Evidence, CompletedVisit, Absent
    <3> QED BY <3>1, <3>2, EvidenceKept
            DEF ReliesOnEvidence, AppExists, AppsHaveLeads, LeadExists
  <2>6. ASSUME NEW v \in Visits, NEW s \in VisitStates, UpdateVisitScheduleStatus(v, s)
        PROVE  EvidenceInv'
    <3>1. /\ visit[v].status = "Completed" => s = "Completed"
          /\ visit' = [visit EXCEPT ![v].status = s]
          /\ UNCHANGED <<lead, app>>
      BY <2>6 DEF UpdateVisitScheduleStatus
    <3>2. \A u \in Visits : /\ visit'[u].lead = visit[u].lead
                            /\ visit[u].status = "Completed" => visit'[u].status = "Completed"
      BY <3>1 DEF VisitRow
    <3>3. \A k \in Leads : Backed(k) => Backed(k)'
      BY <3>1, <3>2 DEF Backed, Evidence, CompletedVisit
    <3> QED BY <3>1, <3>3, EvidenceKept
            DEF ReliesOnEvidence, AppExists, AppsHaveLeads, LeadExists
  <2>7. ASSUME RowDeleted PROVE EvidenceInv'
    <3>1. AppsHaveLeads'
      BY <2>7, RowDeletions DEF RowsStand, AppsHaveLeads, LeadExists, AppExists, AppRow
    <3>2. \A l \in Leads : (ReliesOnEvidence(l)' => ReliesOnEvidence(l)) /\ (Backed(l) => Backed(l)')
      BY <2>7, RowDeletions DEF RowsStand, ReliesOnEvidence, AppExists
    <3> QED BY <3>1, <3>2, EvidenceKept
  <2> QED BY <1>1, <2>1, <2>2, <2>3, <2>4, <2>5, <2>6, <2>7 DEF LeadNext, RowDeleted
<1>2. CASE ConsentNext
  <2>1. \A l \in Leads : /\ lead'[l].status = lead[l].status
                         /\ ReliesOnEvidence(l)' => ReliesOnEvidence(l)
                         /\ Backed(l) => Backed(l)'
    BY <1>2, ConsentStepsKeepLeads DEF ReliesOnEvidence, Backed, Evidence, CompletedVisit, AppExists
  <2>2. AppsHaveLeads'
    BY <1>2, <2>1, ConsentStepsKeepLeads DEF AppsHaveLeads, LeadExists, AppExists, TypeOK, AppRow
  <2> QED BY <2>1, <2>2, EvidenceKept
<1>3. CASE AppNext
  <2>1. \A l \in Leads : /\ Backed(l) => Backed(l)'
                         /\ LeadExists(l) => LeadExists(l)'
                         /\ lead'[l].status \in {"Verified", "Processed", "Granted"}
                            => lead[l].status \in {"Verified", "Processed", "Granted"}
    <3>1. CASE UNCHANGED lead
      BY <1>3, <3>1, AppStepsAndLeads DEF Backed, Evidence, CompletedVisit, LeadExists
    <3>2. CASE ~UNCHANGED lead
      <4>1. PICK a \in Apps, target \in TerminalArchetypes :
               /\ app[a].lead \in Leads
               /\ lead[app[a].lead].status \in LeadSyncable
               /\ lead' = [lead EXCEPT ![app[a].lead].status = LeadSyncTarget(target)]
        BY <1>3, <3>2, AppStepsAndLeads
      <4>2. LeadSyncTarget(target) \in {"Granted", "Rejected"}
        BY DEF LeadSyncTarget
      <4> QED BY <1>3, <4>1, <4>2, AppStepsAndLeads
              DEF Backed, Evidence, CompletedVisit, LeadExists, LeadSyncable, TypeOK, LeadRow, Absent
    <3> QED BY <3>1, <3>2
  <2>2. ASSUME NEW b \in Apps, AppExists(b)', app'[b].lead # None
        PROVE  /\ app'[b].lead \in Leads
               /\ LeadExists(app'[b].lead)
               /\ Backed(app'[b].lead)
    <3> USE DEF TypeOK
    <3>1. ASSUME AppExists(b), app'[b].lead = app[b].lead
          PROVE  app'[b].lead \in Leads /\ LeadExists(app'[b].lead) /\ Backed(app'[b].lead)
      BY <2>2, <3>1 DEF AppsHaveLeads, LeadEvidence, Backed, AppRow
    <3>2. ASSUME NEW a \in Apps, NEW l \in Leads, CreateLoanApplication(a, l)
          PROVE  app'[b].lead \in Leads /\ LeadExists(app'[b].lead) /\ Backed(app'[b].lead)
      <4>1. /\ app' = [app EXCEPT ![a] = [NoApp EXCEPT !.status = "Active", !.lead = l,
                                  !.profile = lead[l].profile,
                                  !.consent = profile[lead[l].profile].consent]]
            /\ lead[l].status \in {"Verified", "Processed"}
        BY <3>2 DEF CreateLoanApplication
      <4>2. CASE b = a
        BY <4>1, <4>2 DEF NoApp, LeadEvidence, Backed, LeadExists, Absent
      <4>3. CASE b # a
        BY <2>2, <3>1, <4>1, <4>3 DEF AppExists
      <4> QED BY <4>2, <4>3
    <3>3. ASSUME NEW a \in Apps, NEW p \in Profiles, NEW c \in Consents \cup {None},
                 CreateApplication(a, p, c)
          PROVE  b # a /\ app'[b] = app[b]
      <4>1. app' = [app EXCEPT ![a] = [NoApp EXCEPT !.status = "Active", !.profile = p,
                                  !.consent = IF c # None THEN c ELSE profile[p].consent]]
        BY <3>3 DEF CreateApplication
      <4>2. app'[a].lead = None
        BY <4>1 DEF NoApp
      <4> QED BY <2>2, <4>1, <4>2
    <3>4. ASSUME NEW a \in Apps, NEW role \in Roles, SubmitApplication(a, role)
          PROVE  AppExists(b) /\ app'[b].lead = app[b].lead
      <4>1. /\ AppExists(a)
            /\ \/ app' = [app EXCEPT ![a].stage = EntryStage(a), ![a].status = "In Transition"]
               \/ app' = [app EXCEPT ![a].stage = EntryStage(a)]
        BY <3>4 DEF SubmitApplication, Visible
      <4>2. app'[a].lead = app[a].lead /\ \A d \in Apps \ {a} : app'[d] = app[d]
        BY <4>1 DEF AppRow
      <4> QED BY <2>2, <4>1, <4>2 DEF AppExists
    <3>5. ASSUME NEW a \in Apps, NEW role \in Roles, NEW i \in StageInputs,
                 UpdateLoanStatus(a, role, i)
          PROVE  AppExists(b) /\ app'[b].lead = app[b].lead
      <4>1. /\ AppExists(a)
            /\ \/ app' = [app EXCEPT ![a].stage = i]
               \/ app' = [app EXCEPT ![a].stage = i, ![a].status = ArchetypeOf(i)]
        BY <3>5 DEF UpdateLoanStatus, Visible
      <4>2. app'[a].lead = app[a].lead /\ \A d \in Apps \ {a} : app'[d] = app[d]
        BY <4>1 DEF AppRow
      <4> QED BY <2>2, <4>1, <4>2 DEF AppExists
    <3>6. ASSUME NEW a \in Apps, DeleteApplication(a)
          PROVE  b # a /\ app'[b] = app[b]
      BY <2>2, <3>6 DEF DeleteApplication, NoApp, AppExists
    <3> QED BY <1>3, <2>2, <3>1, <3>2, <3>3, <3>4, <3>5, <3>6 DEF AppNext, AppExists
  <2>3. LeadEvidence'
    <3>1. ASSUME NEW l \in Leads, ReliesOnEvidence(l)' PROVE Backed(l)
      <4>1. CASE lead'[l].status \in {"Verified", "Processed", "Granted"}
        BY <2>1, <4>1 DEF LeadEvidence, Backed
      <4>2. CASE \E a \in Apps : AppExists(a)' /\ app'[a].lead = l
        BY <2>2, <4>2, NoneAssumption
      <4> QED BY <3>1, <4>1, <4>2 DEF ReliesOnEvidence, AppExists
    <3> QED BY <2>1, <3>1, EvidenceKept
  <2>4. AppsHaveLeads'
    BY <2>1, <2>2 DEF AppsHaveLeads, AppExists, LeadExists
  <2> QED BY <2>3, <2>4
<1>4. CASE UNCHANGED vars
  BY <1>4 DEF vars, LeadEvidence, AppsHaveLeads, Backed, Evidence, CompletedVisit, AppExists, LeadExists
<1> QED BY <1>1, <1>2, <1>3, <1>4 DEF Next

(* What a lead was verified on is there while the lead, or an application  *)
(* raised for it, rests on it, unless an administrator deleted the last    *)
(* row of the kind since: no rescheduling, no deletion of another record   *)
(* and no other request takes it away.                                     *)
THEOREM EvidenceStays == Spec => []LeadEvidence
<1>1. Init => EvidenceInv
  BY DEF Init, EvidenceInv, LeadEvidence, AppsHaveLeads, AppExists, NoLead, NoApp, Absent
<1>2. EvidenceInv => LeadEvidence
  BY DEF EvidenceInv
<1> QED BY <1>1, <1>2, EvidenceStep, TypeCorrect, PTL DEF Spec


(***************************************************************************)
(* Grants.                                                                 *)
(***************************************************************************)
(* What a step on applications does to one application: nothing, or it     *)
(* comes into being, goes, or keeps its lead and takes a workflow edge.    *)
AppMoves(a) ==
    \/ app'[a] = app[a]
    \/ app[a].status = Absent /\ app'[a].status = "Active"
    \/ app[a].status \in {"Active", "In Transition"} /\ app'[a] = NoApp
    \/ /\ app[a].status # Absent
       /\ app'[a].lead = app[a].lead
       /\ \/ app'[a].status = app[a].status
          \/ app[a].status = "Active" /\ app'[a].status = "In Transition"
          \/ /\ app[a].status = "In Transition"
             /\ app'[a].status \in {"Completed", "Rejected"}

(* A document that is not submitted is a draft or is with the bank.        *)
LEMMA DeletableStates ==
    \A state \in ArchetypeStates : DocStatus(state) = 0 => state \in {"Active", "In Transition"}
<1> SUFFICES ASSUME NEW state \in ArchetypeStates, DocStatus(state) = 0
             PROVE  state \in {"Active", "In Transition"}
  OBVIOUS
<1>1. state \notin {"Completed", "Rejected"}
  BY SMT DEF DocStatus
<1>2. state # "Cancelled"
  BY SMT DEF DocStatus
<1> QED BY <1>1, <1>2 DEF ArchetypeStates

(* Every request on applications moves each of them along one edge or not. *)
LEMMA AppStep ==
    ASSUME TypeOK, AppNext
    PROVE  \A a \in Apps : AppMoves(a)
<1> USE DEF TypeOK
<1>0. ASSUME NEW b \in Apps, \A a \in Apps \ {b} : app'[a] = app[a], AppMoves(b)
      PROVE  \A a \in Apps : AppMoves(a)
  <2>1. \A a \in Apps \ {b} : AppMoves(a)
    BY <1>0 DEF AppMoves
  <2> QED BY <1>0, <2>1
<1>1. ASSUME NEW b \in Apps, NEW l \in Leads, CreateLoanApplication(b, l)
      PROVE  \A a \in Apps : AppMoves(a)
  <2>1. /\ app[b].status = Absent
        /\ app' = [app EXCEPT ![b] = [NoApp EXCEPT !.status = "Active", !.lead = l,
                              !.profile = lead[l].profile,
                              !.consent = profile[lead[l].profile].consent]]
    BY <1>1 DEF CreateLoanApplication, AppExists
  <2>2. app'[b].status = "Active" /\ \A a \in Apps \ {b} : app'[a] = app[a]
    BY <2>1 DEF NoApp
  <2> QED BY <1>0, <2>1, <2>2 DEF AppMoves
<1>2. ASSUME NEW b \in Apps, NEW p \in Profiles, NEW c \in Consents \cup {None},
             CreateApplication(b, p, c)
      PROVE  \A a \in Apps : AppMoves(a)
  <2>1. /\ app[b].status = Absent
        /\ app' = [app EXCEPT ![b] = [NoApp EXCEPT !.status = "Active", !.profile = p,
                              !.consent = IF c # None THEN c ELSE profile[p].consent]]
    BY <1>2 DEF CreateApplication, AppExists
  <2>2. app'[b].status = "Active" /\ \A a \in Apps \ {b} : app'[a] = app[a]
    BY <2>1 DEF NoApp
  <2> QED BY <1>0, <2>1, <2>2 DEF AppMoves
<1>3. ASSUME NEW b \in Apps, NEW role \in Roles, SubmitApplication(b, role)
      PROVE  \A a \in Apps : AppMoves(a)
  <2>1. /\ app[b].status = "Active"
        /\ \/ app' = [app EXCEPT ![b].stage = EntryStage(b), ![b].status = "In Transition"]
           \/ app' = [app EXCEPT ![b].stage = EntryStage(b)]
    BY <1>3 DEF SubmitApplication
  <2>2. /\ app'[b].status \in {"Active", "In Transition"}
        /\ app'[b].lead = app[b].lead
        /\ \A a \in Apps \ {b} : app'[a] = app[a]
    BY <2>1 DEF AppRow
  <2> QED BY <1>0, <2>1, <2>2 DEF AppMoves, Absent
<1>4. ASSUME NEW b \in Apps, NEW role \in Roles, NEW i \in StageInputs,
             UpdateLoanStatus(b, role, i)
      PROVE  \A a \in Apps : AppMoves(a)
  <2>1. app[b].status # Absent
    BY <1>4 DEF UpdateLoanStatus, Visible, AppExists
  <2>2. CASE app' = [app EXCEPT ![b].stage = i]
    <3>1. /\ app'[b].status = app[b].status /\ app'[b].lead = app[b].lead
          /\ \A a \in Apps \ {b} : app'[a] = app[a]
      BY <2>2 DEF AppRow
    <3> QED BY <1>0, <2>1, <3>1 DEF AppMoves
  <2>3. CASE /\ TransitionAllowed(LoanWorkflow, app[b].status, ArchetypeOf(i), role)
             /\ app' = [app EXCEPT ![b].stage = i, ![b].status = ArchetypeOf(i)]
    <3>1. \/ app[b].status = "Active" /\ ArchetypeOf(i) = "In Transition"
          \/ app[b].status = "In Transition" /\ ArchetypeOf(i) \in {"Completed", "Rejected"}
      BY <2>3 DEF TransitionAllowed, LoanWorkflow
    <3>2. /\ app'[b].status = ArchetypeOf(i)
          /\ app'[b].lead = app[b].lead
          /\ \A a \in Apps \ {b} : app'[a] = app[a]
      BY <2>3 DEF AppRow
    <3> QED BY <1>0, <2>1, <3>1, <3>2 DEF AppMoves
  <2> QED BY <1>4, <2>2, <2>3 DEF UpdateLoanStatus, LoanTransition
<1>5. ASSUME NEW b \in Apps, DeleteApplication(b)
      PROVE  \A a \in Apps : AppMoves(a)
  <2>1. app[b].status \in ArchetypeStates /\ DocStatus(app[b].status) = 0
    BY <1>5 DEF DeleteApplication, AppExists, AppRow
  <2>2. app[b].status \in {"Active", "In Transition"}
    BY <2>1, DeletableStates
  <2>3. app'[b] = NoApp /\ \A a \in Apps \ {b} : app'[a] = app[a]
    BY <1>5 DEF DeleteApplication
  <2> QED BY <1>0, <2>2, <2>3 DEF AppMoves
<1> QED BY <1>1, <1>2, <1>3, <1>4, <1>5 DEF AppNext

(* A step keeps the invariant when the leads it grants have a completed    *)
(* loan after it and no completed loan is lost.                            *)
LEMMA GrantsKept ==
    ASSUME GrantedHasCompletedLoan,
           \A a \in Apps : app[a].status = "Completed" =>
               app'[a].status = "Completed" /\ app'[a].lead = app[a].lead,
           \A l \in Leads : lead'[l].status = "Granted" =>
               \/ lead[l].status = "Granted"
               \/ \E a \in Apps : app'[a].lead = l /\ app'[a].status = "Completed"
    PROVE  GrantedHasCompletedLoan'
BY DEF GrantedHasCompletedLoan

(* Only sync_lead_with_loan grants a lead, and a completed loan is for good.*)
LEMMA GrantedStep ==
    TypeOK /\ GrantedHasCompletedLoan /\ [Next]_vars => GrantedHasCompletedLoan'
<1> SUFFICES ASSUME TypeOK, GrantedHasCompletedLoan, [Next]_vars
             PROVE  GrantedHasCompletedLoan'
  OBVIOUS
<1>1. CASE LeadNext
  <2> USE DEF TypeOK, LeadRow
  <2>1. ASSUME NEW k \in Leads, NEW ph \in Phones, CreateLead(k, ph) \/ LeadInbound(k, ph)
        PROVE  GrantedHasCompletedLoan'
    <3>1. lead' = [lead EXCEPT ![k] = [NoLead EXCEPT !.status = "Active", !.phone = ph]]
          /\ UNCHANGED app
      BY <2>1 DEF CreateLead, LeadInbound
    <3> QED BY <3>1, GrantsKept DEF NoLead
  <2>2. ASSUME NEW k \in Leads, NEW role \in Roles, NEW s \in LeadStates,
               UpdateLeadStatus(k, role, s)
        PROVE  GrantedHasCompletedLoan'
    <3>1. /\ lead'[k].status = s /\ (\A l \in Leads \ {k} : lead'[l] = lead[l]) /\ UNCHANGED app
      BY <2>2, StatusUpdates
    <3>0. <<lead[k].status, s, role>> \in LeadWorkflow /\ role \in {DevAgent, Admin}
      BY <2>2 DEF UpdateLeadStatus, TransitionAllowed
    <3>2. s # "Granted"
      BY <3>0 DEF LeadWorkflow, BankRoles, DevAgent, Admin, BankAgent, BankAdmin
    <3> QED BY <3>1, <3>2, GrantsKept
  <2>3. ASSUME NEW k \in Leads, DeleteLead(k)
        PROVE  GrantedHasCompletedLoan'
    <3>1. lead' = [lead EXCEPT ![k] = NoLead] /\ UNCHANGED app
      BY <2>3 DEF DeleteLead
    <3> QED BY <3>1, GrantsKept DEF NoLead, Absent
  <2>4. ASSUME NEW k \in Leads, AddLeadCreditInfo(k)
        PROVE  GrantedHasCompletedLoan'
    <3>1. lead' = [lead EXCEPT ![k].credit = TRUE] /\ UNCHANGED app
      BY <2>4 DEF AddLeadCreditInfo
    <3> QED BY <3>1, GrantsKept
  <2>5. ASSUME UNCHANGED <<lead, app>> PROVE GrantedHasCompletedLoan'
    BY <2>5 DEF GrantedHasCompletedLoan
  <2>6. ASSUME RowDeleted PROVE GrantedHasCompletedLoan'
    BY <2>6, RowDeletions, GrantsKept DEF RowsStand
  <2> QED BY <1>1, <2>1, <2>2, <2>3, <2>4, <2>5, <2>6
          DEF LeadNext, RowDeleted, ScheduleVisit, UpdateVisitScheduleStatus
<1>2. CASE ConsentNext
  BY <1>2, ConsentStepsKeepLeads, GrantsKept
<1>3. CASE AppNext
  <2>1. \A a \in Apps : app[a].status = "Completed" =>
            app'[a].status = "Completed" /\ app'[a].lead = app[a].lead
    BY <1>3, AppStep DEF AppMoves, Absent
  <2>2. CASE UNCHANGED lead
    BY <2>1, <2>2, GrantsKept
  <2>3. CASE ~UNCHANGED lead
    <3>1. PICK a \in Apps, target \in TerminalArchetypes :
             /\ app[a].lead \in Leads
             /\ lead' = [lead EXCEPT ![app[a].lead].status = LeadSyncTarget(target)]
             /\ app'[a].status = target
             /\ app'[a].lead = app[a].lead
      BY <1>3, <2>3, AppStepsAndLeads
    <3>2. LeadSyncTarget(target) = "Granted" => target = "Completed"
      BY DEF LeadSyncTarget, SuccessfulArchetypes
    <3> QED BY <2>1, <3>1, <3>2, GrantsKept DEF TypeOK, LeadRow
  <2> QED BY <2>2, <2>3
<1>4. CASE UNCHANGED vars
  BY <1>4 DEF vars, GrantedHasCompletedLoan
<1> QED BY <1>1, <1>2, <1>3, <1>4 DEF Next

(* A granted lead always has a completed application of its own.           *)
THEOREM GrantsRestOnLoans == Spec => []GrantedHasCompletedLoan
<1>1. Init => GrantedHasCompletedLoan
  BY DEF Init, GrantedHasCompletedLoan, NoLead, Absent
<1> QED BY <1>1, GrantedStep, TypeCorrect, PTL DEF Spec


(***************************************************************************)
(* The contract.                                                           *)
(***************************************************************************)
(* The contract's variables, read off the tables.                          *)
LoanMap   == [a \in Apps |-> LoanStatus(app[a].status)]
RaisedMap == [a \in Apps |-> app[a].lead]
CaseMap   == [l \in Leads |-> CaseStatus(lead[l].status)]

ContractStep == [Contract!Next]_(Contract!vars)

(* A step that moves no status across the contract's distinctions stutters.*)
LEMMA ContractStutters ==
    ASSUME \A l \in Leads : CaseStatus(lead'[l].status) = CaseStatus(lead[l].status),
           \A a \in Apps : /\ LoanStatus(app'[a].status) = LoanStatus(app[a].status)
                           /\ app'[a].lead = app[a].lead
    PROVE  ContractStep
<1>1. /\ LoanMap' = LoanMap /\ RaisedMap' = RaisedMap /\ CaseMap' = CaseMap
  BY DEF LoanMap, RaisedMap, CaseMap
<1> QED BY <1>1 DEF ContractStep, Contract!vars, LoanMap, RaisedMap, CaseMap

(* Steps on leads open a case, forget one no loan was raised for, or       *)
(* stutter: no request moves a lead into or out of Granted.                *)
LEMMA LeadStepsKeepContract ==
    ASSUME TypeOK, GrantedHasCompletedLoan, LeadNext
    PROVE  ContractStep
<1> USE DEF TypeOK
<1>1. ASSUME NEW k \in Leads, NEW ph \in Phones, CreateLead(k, ph) \/ LeadInbound(k, ph)
      PROVE  ContractStep
  <2>1. /\ lead[k].status = Absent
        /\ lead' = [lead EXCEPT ![k] = [NoLead EXCEPT !.status = "Active", !.phone = ph]]
        /\ UNCHANGED app
    BY <1>1 DEF CreateLead, LeadInbound, LeadExists
  <2>2. lead'[k].status = "Active" /\ \A l \in Leads \ {k} : lead'[l] = lead[l]
    BY <2>1 DEF NoLead
  <2>3. CaseMap[k] = "none" /\ CaseMap' = [CaseMap EXCEPT ![k] = "open"]
    BY <2>1, <2>2 DEF CaseMap, CaseStatus, Absent
  <2>4. LoanMap' = LoanMap /\ RaisedMap' = RaisedMap
    BY <2>1 DEF LoanMap, RaisedMap
  <2>5. Contract!Open(k)
    BY <2>3, <2>4 DEF Contract!Open, CaseMap, LoanMap, RaisedMap
  <2> QED BY <2>5 DEF ContractStep, Contract!Next
<1>2. ASSUME NEW k \in Leads, DeleteLead(k)
      PROVE  ContractStep
  <2>1. /\ lead[k].status # Absent
        /\ \A a \in Apps : app[a].lead # k
        /\ lead' = [lead EXCEPT ![k] = NoLead]
        /\ UNCHANGED app
    BY <1>2 DEF DeleteLead, LeadExists
  <2>2. lead[k].status # "Granted"
    BY <2>1 DEF GrantedHasCompletedLoan
  <2>3. lead'[k].status = Absent /\ \A l \in Leads \ {k} : lead'[l] = lead[l]
    BY <2>1 DEF NoLead
  <2>4. CaseMap[k] = "open" /\ CaseMap' = [CaseMap EXCEPT ![k] = "none"]
    BY <2>1, <2>2, <2>3 DEF CaseMap, CaseStatus, Absent
  <2>5. /\ LoanMap' = LoanMap /\ RaisedMap' = RaisedMap
        /\ \A a \in Apps : RaisedMap[a] # k
    BY <2>1 DEF LoanMap, RaisedMap
  <2>6. Contract!Forget(k)
    BY <2>4, <2>5 DEF Contract!Forget, CaseMap, LoanMap, RaisedMap
  <2> QED BY <2>6 DEF ContractStep, Contract!Next
<1>3. ASSUME NEW k \in Leads, NEW role \in Roles, NEW s \in LeadStates,
             UpdateLeadStatus(k, role, s)
      PROVE  ContractStep
  <2>1. /\ lead[k].status # Absent
        /\ <<lead[k].status, s, role>> \in LeadWorkflow /\ role \in {DevAgent, Admin}
    BY <1>3 DEF UpdateLeadStatus, TransitionAllowed, LeadExists
  <2>2. s # "Granted" /\ lead[k].status # "Granted"
    BY <2>1 DEF LeadWorkflow, BankRoles, DevAgent, Admin, BankAgent, BankAdmin
  <2>3. s # Absent
    BY DEF LeadStates, Absent
  <2>4. lead'[k].status = s /\ (\A l \in Leads \ {k} : lead'[l] = lead[l]) /\ UNCHANGED app
    BY <1>3, StatusUpdates
  <2>5. CaseStatus(s) = CaseStatus(lead[k].status)
    BY <2>1, <2>2, <2>3 DEF CaseStatus
  <2> QED BY <2>4, <2>5, ContractStutters
<1>4. ASSUME NEW k \in Leads, AddLeadCreditInfo(k)
      PROVE  ContractStep
  <2>1. lead' = [lead EXCEPT ![k].credit = TRUE] /\ UNCHANGED app
    BY <1>4 DEF AddLeadCreditInfo
  <2>2. \A l \in Leads : lead'[l].status = lead[l].status
    BY <2>1 DEF LeadRow
  <2> QED BY <2>1, <2>2, ContractStutters
<1>5. ASSUME UNCHANGED <<lead, app>> PROVE ContractStep
  BY <1>5, ContractStutters
<1>6. ASSUME RowDeleted PROVE ContractStep
  BY <1>6, RowDeletions, ContractStutters DEF RowsStand
<1> QED BY <1>1, <1>2, <1>3, <1>4, <1>5, <1>6
        DEF LeadNext, RowDeleted, ScheduleVisit, UpdateVisitScheduleStatus

(* Steps on applications raise, submit, withdraw or decide one loan.       *)
LEMMA AppStepsKeepContract ==
    ASSUME TypeOK, AppNext
    PROVE  ContractStep
<1> USE DEF TypeOK
<1>1. ASSUME NEW a \in Apps, NEW l \in Leads, CreateLoanApplication(a, l)
      PROVE  ContractStep
  <2>1. /\ app[a].status = Absent
        /\ lead[l].status \in {"Verified", "Processed"}
        /\ \A b \in Apps : app[b].lead # l
        /\ app' = [app EXCEPT ![a] = [NoApp EXCEPT !.status = "Active", !.lead = l,
                              !.profile = lead[l].profile,
                              !.consent = profile[lead[l].profile].consent]]
        /\ UNCHANGED lead
    BY <1>1 DEF CreateLoanApplication, AppExists
  <2>2. /\ app'[a].status = "Active" /\ app'[a].lead = l
        /\ \A b \in Apps \ {a} : app'[b] = app[b]
    BY <2>1 DEF NoApp
  <2>3. /\ LoanMap[a] = "none" /\ LoanMap' = [LoanMap EXCEPT ![a] = "draft"]
        /\ RaisedMap' = [RaisedMap EXCEPT ![a] = l] /\ CaseMap' = CaseMap
        /\ CaseMap[l] = "open" /\ \A b \in Apps : RaisedMap[b] # l
    BY <2>1, <2>2 DEF LoanMap, RaisedMap, CaseMap, LoanStatus, CaseStatus, Absent
  <2>4. Contract!Raise(a, l)
    BY <2>3 DEF Contract!Raise, CaseMap, LoanMap, RaisedMap
  <2> QED BY <2>4 DEF ContractStep, Contract!Next
<1>2. ASSUME NEW a \in Apps, NEW p \in Profiles, NEW c \in Consents \cup {None},
             CreateApplication(a, p, c)
      PROVE  ContractStep
  <2>1. /\ app[a].status = Absent
        /\ app' = [app EXCEPT ![a] = [NoApp EXCEPT !.status = "Active", !.profile = p,
                              !.consent = IF c # None THEN c ELSE profile[p].consent]]
        /\ UNCHANGED lead
    BY <1>2 DEF CreateApplication, AppExists
  <2>2. /\ app'[a].status = "Active" /\ app'[a].lead = None
        /\ \A b \in Apps \ {a} : app'[b] = app[b]
    BY <2>1 DEF NoApp
  <2>3. /\ LoanMap[a] = "none" /\ LoanMap' = [LoanMap EXCEPT ![a] = "draft"]
        /\ RaisedMap' = [RaisedMap EXCEPT ![a] = None] /\ CaseMap' = CaseMap
    BY <2>1, <2>2 DEF LoanMap, RaisedMap, CaseMap, LoanStatus, Absent
  <2>4. Contract!Raise(a, None)
    BY <2>3 DEF Contract!Raise, CaseMap, LoanMap, RaisedMap
  <2> QED BY <2>4 DEF ContractStep, Contract!Next
<1>3. ASSUME NEW a \in Apps, app[a].status = "Active", app'[a].status = "In Transition",
             app'[a].lead = app[a].lead, UNCHANGED lead,
             \A b \in Apps \ {a} : app'[b] = app[b]
      PROVE  ContractStep
  <2>1. /\ LoanMap[a] = "draft" /\ LoanMap' = [LoanMap EXCEPT ![a] = "submitted"]
        /\ RaisedMap' = RaisedMap /\ CaseMap' = CaseMap
    BY <1>3 DEF LoanMap, RaisedMap, CaseMap, LoanStatus, Absent
  <2>2. Contract!Submit(a)
    BY <2>1 DEF Contract!Submit, CaseMap, LoanMap, RaisedMap
  <2> QED BY <2>2 DEF ContractStep, Contract!Next
<1>4. ASSUME NEW a \in Apps, NEW role \in Roles, SubmitApplication(a, role)
      PROVE  ContractStep
  <2>1. /\ app[a].status = "Active"
        /\ UNCHANGED lead
        /\ \/ app' = [app EXCEPT ![a].stage = EntryStage(a), ![a].status = "In Transition"]
           \/ app' = [app EXCEPT ![a].stage = EntryStage(a)]
    BY <1>4 DEF SubmitApplication
  <2>2. /\ app'[a].status \in {"Active", "In Transition"}
        /\ app'[a].lead = app[a].lead
        /\ \A b \in Apps \ {a} : app'[b] = app[b]
    BY <2>1 DEF AppRow
  <2>3. CASE app'[a].status = "In Transition"
    BY <1>3, <2>1, <2>2, <2>3
  <2>4. CASE app'[a].status = "Active"
    BY <2>1, <2>2, <2>4, ContractStutters
  <2> QED BY <2>2, <2>3, <2>4
<1>5. ASSUME NEW a \in Apps, NEW role \in Roles, NEW i \in StageInputs,
             UpdateLoanStatus(a, role, i)
      PROVE  ContractStep
  <2> DEFINE target == ArchetypeOf(i)
  <2>1. CASE app' = [app EXCEPT ![a].stage = i] /\ UNCHANGED lead
    <3>1. \A b \in Apps : app'[b].status = app[b].status /\ app'[b].lead = app[b].lead
      BY <2>1 DEF AppRow
    <3> QED BY <2>1, <3>1, ContractStutters
  <2>2. CASE /\ TransitionAllowed(LoanWorkflow, app[a].status, target, role)
             /\ app' = [app EXCEPT ![a].stage = i, ![a].status = target]
             /\ SyncLead(a, target)
    <3>1. /\ app'[a].status = target /\ app'[a].lead = app[a].lead
          /\ \A b \in Apps \ {a} : app'[b] = app[b]
      BY <2>2 DEF AppRow
    <3>2. RaisedMap' = RaisedMap
      BY <3>1 DEF RaisedMap
    <3>3. CASE app[a].status = "Active" /\ target = "In Transition"
      <4>1. UNCHANGED lead
        BY <2>2, <3>3 DEF SyncLead, LeadFollows, TerminalArchetypes
      <4> QED BY <1>3, <3>1, <3>3, <4>1
    <3>4. CASE app[a].status = "In Transition" /\ target = "Rejected"
      <4>1. /\ LoanMap[a] = "submitted" /\ LoanMap' = [LoanMap EXCEPT ![a] = "refused"]
        BY <3>1, <3>4 DEF LoanMap, LoanStatus, Absent
      <4>2. \A l \in Leads : \/ lead'[l].status = lead[l].status
                             \/ lead'[l].status = "Rejected" /\ lead[l].status \in LeadSyncable
        BY <2>2, <3>4
           DEF SyncLead, LeadFollows, LeadSyncTarget, SuccessfulArchetypes, LeadRow, AppRow
      <4>3. CaseMap' = CaseMap
        BY <4>2 DEF CaseMap, CaseStatus, LeadSyncable, Absent
      <4>4. Contract!Refuse(a)
        BY <3>2, <4>1, <4>3 DEF Contract!Refuse, CaseMap, LoanMap, RaisedMap
      <4> QED BY <4>4 DEF ContractStep, Contract!Next
    <3>5. CASE app[a].status = "In Transition" /\ target = "Completed"
      <4>1. /\ LoanMap[a] = "submitted" /\ LoanMap' = [LoanMap EXCEPT ![a] = "completed"]
        BY <3>1, <3>5 DEF LoanMap, LoanStatus, Absent
      <4>2. CASE LeadFollows(a, target)
        <5>1. /\ app[a].lead \in Leads /\ app[a].lead # None
              /\ lead' = [lead EXCEPT ![app[a].lead].status = LeadSyncTarget(target)]
          BY <2>2, <4>2 DEF SyncLead, LeadFollows, AppRow
        <5>2. LeadSyncTarget(target) = "Granted"
          BY <3>5 DEF LeadSyncTarget, SuccessfulArchetypes
        <5>3. \A l \in Leads : lead'[l].status = IF l = app[a].lead THEN "Granted"
                                                 ELSE lead[l].status
          BY <5>1, <5>2 DEF LeadRow
        <5>4. /\ CaseMap' = [CaseMap EXCEPT ![RaisedMap[a]] = "granted"]
              /\ RaisedMap[a] # None
          <6>1. CaseStatus("Granted") = "granted"
            BY DEF CaseStatus, Absent
          <6>2. \A l \in Leads : CaseMap'[l] = IF l = app[a].lead THEN "granted"
                                                ELSE CaseMap[l]
            BY <5>3, <6>1 DEF CaseMap
          <6>3. RaisedMap[a] = app[a].lead
            BY DEF RaisedMap
          <6>4. CaseMap' \in [Leads -> {"none", "open", "granted"}]
                /\ CaseMap \in [Leads -> {"none", "open", "granted"}]
            BY DEF CaseMap, CaseStatus
          <6>5. CaseMap' = [CaseMap EXCEPT ![app[a].lead] = "granted"]
            <7> HIDE DEF CaseMap
            <7> QED BY <5>1, <6>2, <6>4
          <6> QED BY <5>1, <6>3, <6>5
        <5>5. Contract!Complete(a)
          BY <3>2, <4>1, <5>4 DEF Contract!Complete, CaseMap, LoanMap, RaisedMap
        <5> QED BY <5>5 DEF ContractStep, Contract!Next
      <4>3. CASE ~LeadFollows(a, target)
        <5>1. CaseMap' = CaseMap
          BY <2>2, <4>3 DEF SyncLead, CaseMap
        <5>2. Contract!Complete(a)
          BY <3>2, <4>1, <5>1 DEF Contract!Complete, CaseMap, LoanMap, RaisedMap
        <5> QED BY <5>2 DEF ContractStep, Contract!Next
      <4> QED BY <4>2, <4>3
    <3>6. \/ app[a].status = "Active" /\ target = "In Transition"
          \/ app[a].status = "In Transition" /\ target \in {"Completed", "Rejected"}
      BY <2>2 DEF TransitionAllowed, LoanWorkflow
    <3> QED BY <3>3, <3>4, <3>5, <3>6
  <2> QED BY <1>5, <2>1, <2>2 DEF UpdateLoanStatus, LoanTransition
<1>6. ASSUME NEW a \in Apps, DeleteApplication(a)
      PROVE  ContractStep
  <2>1. app[a].status \in ArchetypeStates /\ DocStatus(app[a].status) = 0
    BY <1>6 DEF DeleteApplication, AppExists, AppRow
  <2>2. app[a].status \in {"Active", "In Transition"}
    BY <2>1, DeletableStates
  <2>3. app' = [app EXCEPT ![a] = NoApp] /\ UNCHANGED lead
    BY <1>6 DEF DeleteApplication
  <2>4. /\ LoanMap[a] \in {"draft", "submitted"} /\ LoanMap' = [LoanMap EXCEPT ![a] = "none"]
        /\ RaisedMap' = [RaisedMap EXCEPT ![a] = None] /\ CaseMap' = CaseMap
    BY <2>2, <2>3 DEF LoanMap, RaisedMap, CaseMap, LoanStatus, NoApp, Absent
  <2>5. Contract!Withdraw(a)
    BY <2>4 DEF Contract!Withdraw, CaseMap, LoanMap, RaisedMap
  <2> QED BY <2>5 DEF ContractStep, Contract!Next
<1> QED BY <1>1, <1>2, <1>4, <1>5, <1>6 DEF AppNext

(* Every request keeps the contract: one loan per lead, final decisions,   *)
(* and leads granted only with their own completed loan, for good.         *)
THEOREM ContractKept == Spec => KeepsContract
<1>1. Init => Contract!Init
  <2>1. NoApp.status = Absent /\ NoApp.lead = None /\ NoLead.status = Absent
    BY DEF NoApp, NoLead
  <2>2. LoanStatus(Absent) = "none" /\ CaseStatus(Absent) = "none"
    BY DEF LoanStatus, CaseStatus, Absent
  <2> QED BY <2>1, <2>2 DEF Init, Contract!Init
<1>2. TypeOK /\ GrantedHasCompletedLoan /\ [Next]_vars => ContractStep
  <2> SUFFICES ASSUME TypeOK, GrantedHasCompletedLoan, [Next]_vars PROVE ContractStep
    OBVIOUS
  <2>1. CASE ConsentNext
    BY <2>1, ConsentStepsKeepLeads, ContractStutters
  <2>2. CASE UNCHANGED vars
    BY <2>2, ContractStutters DEF vars
  <2> QED BY <2>1, <2>2, LeadStepsKeepContract, AppStepsKeepContract DEF Next
<1>3. Spec => []TypeOK /\ []GrantedHasCompletedLoan
  BY TypeCorrect, GrantsRestOnLoans
<1> QED BY <1>1, <1>2, <1>3, PTL DEF Spec, KeepsContract, Contract!Spec, ContractStep


(***************************************************************************)
(* The stage that goes with a status.                                      *)
(***************************************************************************)
(* The stage conjunct of StageFollowsStatus, for one application.          *)
StageFits(a) ==
    /\ InitialStage # None
    /\ app'[a].status \notin {app[a].status, Absent, "Active"}
    => ArchetypeOf(app'[a].stage) = app'[a].status

(* The entry stage of a bank belongs to the state a submission leads to.   *)
LEMMA EntryStageFits ==
    ASSUME NEW a, InitialStage # None
    PROVE  ArchetypeOf(EntryStage(a)) = "In Transition"
<1>1. EntryStage(a) = InitialStage /\ InitialStage \in Stages
  BY StagesAssumption DEF EntryStage
<1>2. InitialStage \notin ArchetypeStates
  BY <1>1, StagesAssumption
<1> QED BY <1>1, <1>2, StagesAssumption DEF ArchetypeOf

(* A request that changes one application's status has written its stage.  *)
LEMMA StageStep ==
    ASSUME TypeOK, AppNext
    PROVE  \A a \in Apps : StageFits(a)
<1> USE DEF TypeOK
<1>0. ASSUME NEW b \in Apps, \A a \in Apps \ {b} : app'[a] = app[a], StageFits(b)
      PROVE  \A a \in Apps : StageFits(a)
  <2>1. \A a \in Apps \ {b} : StageFits(a)
    BY <1>0 DEF StageFits
  <2> QED BY <1>0, <2>1
<1>1. ASSUME NEW b \in Apps,
             \/ \E l \in Leads : CreateLoanApplication(b, l)
             \/ \E p \in Profiles, c \in Consents \cup {None} : CreateApplication(b, p, c)
             \/ DeleteApplication(b)
      PROVE  \A a \in Apps : StageFits(a)
  <2>1. CASE \E l \in Leads : CreateLoanApplication(b, l)
    <3>1. PICK l \in Leads : app' = [app EXCEPT ![b] = [NoApp EXCEPT !.status = "Active",
              !.lead = l, !.profile = lead[l].profile,
              !.consent = profile[lead[l].profile].consent]]
      BY <2>1 DEF CreateLoanApplication
    <3>2. app'[b].status = "Active" /\ \A a \in Apps \ {b} : app'[a] = app[a]
      BY <3>1 DEF NoApp
    <3> QED BY <1>0, <3>2 DEF StageFits
  <2>2. CASE \E p \in Profiles, c \in Consents \cup {None} : CreateApplication(b, p, c)
    <3>1. PICK p \in Profiles, c \in Consents \cup {None} :
              app' = [app EXCEPT ![b] = [NoApp EXCEPT !.status = "Active", !.profile = p,
                  !.consent = IF c # None THEN c ELSE profile[p].consent]]
      BY <2>2 DEF CreateApplication
    <3>2. app'[b].status = "Active" /\ \A a \in Apps \ {b} : app'[a] = app[a]
      BY <3>1 DEF NoApp
    <3> QED BY <1>0, <3>2 DEF StageFits
  <2>3. CASE DeleteApplication(b)
    <3>1. app'[b].status = Absent /\ \A a \in Apps \ {b} : app'[a] = app[a]
      BY <2>3 DEF DeleteApplication, NoApp
    <3> QED BY <1>0, <3>1 DEF StageFits
  <2> QED BY <1>1, <2>1, <2>2, <2>3
<1>2. ASSUME NEW b \in Apps, NEW role \in Roles, SubmitApplication(b, role)
      PROVE  \A a \in Apps : StageFits(a)
  <2>1. /\ app[b].status = "Active"
        /\ \/ app' = [app EXCEPT ![b].stage = EntryStage(b), ![b].status = "In Transition"]
           \/ app' = [app EXCEPT ![b].stage = EntryStage(b)]
    BY <1>2 DEF SubmitApplication
  <2>2. /\ app'[b].status = "In Transition" => app'[b].stage = EntryStage(b)
        /\ app'[b].status \in {"Active", "In Transition"}
        /\ \A a \in Apps \ {b} : app'[a] = app[a]
    BY <2>1 DEF AppRow
  <2> QED BY <1>0, <2>2, EntryStageFits DEF StageFits
<1>3. ASSUME NEW b \in Apps, NEW role \in Roles, NEW i \in StageInputs,
             UpdateLoanStatus(b, role, i)
      PROVE  \A a \in Apps : StageFits(a)
  <2>1. \/ app' = [app EXCEPT ![b].stage = i]
        \/ app' = [app EXCEPT ![b].stage = i, ![b].status = ArchetypeOf(i)]
    BY <1>3 DEF UpdateLoanStatus
  <2>2. /\ app'[b].stage = i
        /\ app'[b].status \in {app[b].status, ArchetypeOf(i)}
        /\ \A a \in Apps \ {b} : app'[a] = app[a]
    BY <2>1 DEF AppRow
  <2> QED BY <1>0, <2>2 DEF StageFits
<1> QED BY <1>1, <1>2, <1>3 DEF AppNext

(* Whatever a refused request wrote before, the stage an application takes *)
(* with a new status is one of that status.                                *)
THEOREM StageWithStatus == Spec => StageFollowsStatus
<1>1. TypeOK /\ [Next]_vars => [\A a \in Apps : StageFits(a)]_vars
  <2> SUFFICES ASSUME TypeOK, Next PROVE \A a \in Apps : StageFits(a)
    BY DEF vars
  <2>1. CASE UNCHANGED app
    BY <2>1 DEF StageFits
  <2>2. CASE AppNext
    BY <2>2, StageStep
  <2> QED BY <2>1, <2>2
          DEF Next, LeadNext, ConsentNext, CreateLead, LeadInbound, AddLeadCreditInfo,
              DeleteLead, ScheduleVisit, UpdateVisitScheduleStatus, UpdateLeadStatus,
              DeleteVisit, DeleteCreditInfo,
              RequestOtpForLead, RequestOtpForFarmer, VerifyOtp, SubmitConsent,
              ProcessConsentData, ProcessConsentDataFails, DeleteConsent, DeleteProfile
<1> QED BY <1>1, TypeCorrect, PTL DEF Spec, StageFollowsStatus, StageFits

(***************************************************************************)
(* Whose consent an application rests on.                                  *)
(***************************************************************************)
(* Profile p is of the farmer who raised consent c, or of its lead.        *)
Owned(p, c) ==
    /\ consent[c].status # Absent
    /\ \/ consent[c].owner # None /\ consent[c].owner = profile[p].user
       \/ consent[c].lead # None /\ lead[consent[c].lead].profile = p

(* A consent is a farmer's or that of a lead on record, never both.        *)
ConsentOrigin(c) ==
    /\ consent[c].status = Absent => consent[c].lead = None /\ consent[c].owner = None
    /\ consent[c].status # Absent => (consent[c].lead = None <=> consent[c].owner # None)
    /\ consent[c].lead # None => lead[consent[c].lead].status # Absent

(* Only what is on record has a data job or a user.                        *)
OnRecord ==
    /\ \A c \in Consents : consent[c].deliverable => consent[c].status # Absent
    /\ \A p \in Profiles : ~profile[p].exists => profile[p].user = None

(* The current consent of a lead was raised for it, and that of a profile  *)
(* is its own.                                                             *)
LeadLink(l)    == lead[l].consent # None => consent[lead[l].consent].lead = l
ProfileLink(p) == profile[p].consent # None => Owned(p, profile[p].consent)

(* An application carries a profile, that of its lead if it has one, and a *)
(* consent of that profile.                                                *)
AppLink(a) ==
    /\ app[a].status # Absent => app[a].profile \in Profiles
    /\ app[a].lead # None => /\ app[a].profile \in Profiles
                             /\ lead[app[a].lead].status # Absent
                             /\ lead[app[a].lead].profile = app[a].profile
    /\ app[a].status # Absent /\ app[a].consent # None => Owned(app[a].profile, app[a].consent)

Links ==
    /\ \A c \in Consents : ConsentOrigin(c)
    /\ \A l \in Leads : LeadLink(l)
    /\ \A p \in Profiles : ProfileLink(p)
    /\ \A a \in Apps : AppLink(a)

(* A step leaves consent c with the one who raised it.                     *)
Survives(c) ==
    /\ consent'[c].status # Absent
    /\ consent'[c].owner = consent[c].owner
    /\ consent'[c].lead = consent[c].lead

(* A profile once bound, or once built for a lead, stays so.               *)
StaysBound(p) == profile[p].user # None => profile'[p].user = profile[p].user
StaysBuilt(l) ==
    lead[l].status # Absent =>
        /\ lead'[l].status # Absent
        /\ lead[l].profile # None => lead'[l].profile = lead[l].profile

LEMMA OwnedStays ==
    ASSUME TypeOK, NEW p \in Profiles, NEW c \in Consents, Owned(p, c), ConsentOrigin(c),
           Survives(c), StaysBound(p), \A l \in Leads : l = consent[c].lead => StaysBuilt(l)
    PROVE  Owned(p, c)'
<1>1. p # None
  BY NoneAssumption
<1>2. CASE consent[c].owner # None /\ consent[c].owner = profile[p].user
  BY <1>2 DEF Owned, Survives, StaysBound
<1>3. CASE consent[c].lead # None /\ lead[consent[c].lead].profile = p
  <2>1. consent[c].lead \in Leads
    BY <1>3 DEF TypeOK, ConsentRow
  <2>2. lead'[consent[c].lead].profile = p
    BY <1>1, <1>3, <2>1 DEF ConsentOrigin, StaysBuilt
  <2> QED BY <1>3, <2>2 DEF Owned, Survives
<1> QED BY <1>2, <1>3 DEF Owned

(* When every consent on record survives, so do the links of the rows that *)
(* a step leaves as they are.                                              *)
LEMMA LinksStay ==
    ASSUME TypeOK, Links,
           \A c \in Consents : consent[c].status # Absent => Survives(c),
           \A p \in Profiles : StaysBound(p),
           \A l \in Leads : StaysBuilt(l)
    PROVE  /\ \A p \in Profiles, c \in Consents : Owned(p, c) => Owned(p, c)'
           /\ \A c \in Consents : consent'[c] = consent[c] \/ consent[c].status # Absent => ConsentOrigin(c)'
           /\ \A l \in Leads : lead'[l].consent \in {None, lead[l].consent} => LeadLink(l)'
           /\ \A p \in Profiles : profile'[p].consent \in {None, profile[p].consent} => ProfileLink(p)'
           /\ \A a \in Apps :
                  /\ app'[a].lead = app[a].lead /\ app'[a].profile = app[a].profile
                  /\ app'[a].consent = app[a].consent
                  /\ app[a].status # Absent \/ app'[a] = app[a]
                  => AppLink(a)'
<1>1. ASSUME NEW p \in Profiles, NEW c \in Consents, Owned(p, c) PROVE Owned(p, c)'
  <2>1. consent[c].status # Absent
    BY <1>1 DEF Owned
  <2> QED BY <1>1, <2>1, OwnedStays DEF Links
<1>2. ASSUME NEW c \in Consents, consent'[c] = consent[c] \/ consent[c].status # Absent
      PROVE  ConsentOrigin(c)'
  <2>1. consent'[c].lead = consent[c].lead /\ consent'[c].owner = consent[c].owner
    BY <1>2 DEF Survives
  <2>2. consent'[c].status = Absent <=> consent[c].status = Absent
    BY <1>2 DEF Survives
  <2>3. ConsentOrigin(c) /\ consent[c].lead \in Leads \cup {None}
    BY DEF Links, TypeOK, ConsentRow
  <2>4. consent[c].lead # None => lead'[consent[c].lead].status # Absent
    BY <2>3 DEF ConsentOrigin, StaysBuilt
  <2> QED BY <2>1, <2>2, <2>3, <2>4 DEF ConsentOrigin
<1>3. ASSUME NEW l \in Leads, lead'[l].consent \in {None, lead[l].consent} PROVE LeadLink(l)'
  <2> SUFFICES ASSUME lead'[l].consent # None PROVE consent'[lead'[l].consent].lead = l
    BY DEF LeadLink
  <2>1. lead'[l].consent = lead[l].consent /\ lead[l].consent \in Consents
    BY <1>3 DEF TypeOK, LeadRow
  <2>2. consent[lead[l].consent].lead = l
    BY <2>1 DEF Links, LeadLink
  <2>3. l # None
    BY NoneAssumption
  <2>4. Survives(lead[l].consent)
    BY <2>1, <2>2, <2>3 DEF Links, ConsentOrigin
  <2> QED BY <2>1, <2>2, <2>4 DEF Survives
<1>4. ASSUME NEW p \in Profiles, profile'[p].consent \in {None, profile[p].consent}
      PROVE  ProfileLink(p)'
  <2> SUFFICES ASSUME NEW c \in Consents, c = profile'[p].consent PROVE Owned(p, c)'
    BY <1>4 DEF ProfileLink, Owned, TypeOK, ProfileRow
  <2>1. profile[p].consent = c /\ c # None
    BY <1>4, NoneAssumption
  <2>2. Owned(p, c)
    BY <2>1 DEF Links, ProfileLink
  <2> QED BY <1>1, <2>2
<1>5. ASSUME NEW a \in Apps, app'[a].lead = app[a].lead, app'[a].profile = app[a].profile,
             app'[a].consent = app[a].consent, app[a].status # Absent \/ app'[a] = app[a]
      PROVE  AppLink(a)'
  <2>1. AppLink(a) /\ app[a].lead \in Leads \cup {None} /\ app[a].consent \in Consents \cup {None}
    BY DEF Links, TypeOK, AppRow
  <2>2. app'[a].status # Absent => app[a].status # Absent
    BY <1>5
  <2>3. app[a].lead # None => /\ lead'[app[a].lead].status # Absent
                              /\ lead'[app[a].lead].profile = app[a].profile
    <3>1. None \notin Profiles
      BY NoneAssumption
    <3> QED BY <2>1, <3>1 DEF AppLink, StaysBuilt
  <2>4. ASSUME NEW p, p = app[a].profile, NEW c, c = app[a].consent, app[a].status # Absent, c # None
        PROVE  Owned(p, c)'
    <3>1. p \in Profiles /\ c \in Consents /\ Owned(p, c)
      BY <2>1, <2>4 DEF AppLink
    <3> QED BY <1>1, <3>1
  <2>5. (app[a].status # Absent /\ app[a].consent # None => Owned(app[a].profile, app[a].consent))'
    <3>1. CASE app'[a].status = Absent \/ app'[a].consent = None
      BY <3>1
    <3>2. CASE app'[a].status # Absent /\ app'[a].consent # None
      BY <1>5, <2>2, <2>4, <3>2
    <3> QED BY <3>1, <3>2
  <2> QED BY <1>5, <2>1, <2>2, <2>3, <2>5 DEF AppLink
<1> QED BY <1>1, <1>2, <1>3, <1>4, <1>5

(* What the requests about leads and applications leave of a lead.         *)
LeadsStand ==
    \A l \in Leads : /\ lead'[l].consent \in {None, lead[l].consent}
                     /\ StaysBuilt(l)

LEMMA StandingLinks ==
    ASSUME TypeOK, Links, OnRecord, LeadsStand, UNCHANGED <<consent, profile>>
    PROVE  /\ OnRecord'
           /\ \A c \in Consents : ConsentOrigin(c)'
           /\ \A l \in Leads : LeadLink(l)'
           /\ \A p \in Profiles : ProfileLink(p)'
           /\ \A p \in Profiles, c \in Consents : Owned(p, c) => Owned(p, c)'
           /\ \A a \in Apps :
                  /\ app'[a].lead = app[a].lead /\ app'[a].profile = app[a].profile
                  /\ app'[a].consent = app[a].consent
                  /\ app[a].status # Absent \/ app'[a] = app[a]
                  => AppLink(a)'
<1>1. \A c \in Consents : consent[c].status # Absent => Survives(c)
  BY DEF Survives
<1>2. \A p \in Profiles : StaysBound(p) /\ profile'[p].consent = profile[p].consent
  BY DEF StaysBound
<1>3. \A l \in Leads : StaysBuilt(l) /\ lead'[l].consent \in {None, lead[l].consent}
  BY DEF LeadsStand
<1>4. OnRecord'
  BY DEF OnRecord
<1> QED BY <1>1, <1>2, <1>3, <1>4, LinksStay

(* No lead request short of a deletion moves a consent or a profile.       *)
LEMMA LeadStepsStand ==
    ASSUME TypeOK, LeadNext
    PROVE  \/ LeadsStand /\ UNCHANGED <<app, consent, profile>>
           \/ \E l \in Leads : DeleteLead(l)
<1> USE DEF TypeOK, LeadRow
<1>1. Absent \notin LeadStates
  BY DEF Absent, LeadStates
<1>2. ASSUME NEW l \in Leads, NEW row \in LeadRow, lead' = [lead EXCEPT ![l] = row],
             row.consent \in {None, lead[l].consent},
             lead[l].status # Absent => row.status # Absent /\ row.profile = lead[l].profile
      PROVE  LeadsStand
  BY <1>2 DEF LeadsStand, StaysBuilt
<1>3. ASSUME NEW l \in Leads, NEW ph \in Phones, CreateLead(l, ph) \/ LeadInbound(l, ph)
      PROVE  LeadsStand /\ UNCHANGED <<app, consent, profile>>
  <2> DEFINE row == [NoLead EXCEPT !.status = "Active", !.phone = ph]
  <2>1. row \in LeadRow /\ row.consent = None
    BY DEF NoLead, LeadStates
  <2>2. /\ lead[l].status = Absent /\ lead' = [lead EXCEPT ![l] = row]
        /\ UNCHANGED <<app, consent, profile>>
    BY <1>3 DEF CreateLead, LeadInbound, LeadExists
  <2> HIDE DEF row
  <2> QED BY <1>2, <2>1, <2>2
<1>4. ASSUME NEW l \in Leads, AddLeadCreditInfo(l)
      PROVE  LeadsStand /\ UNCHANGED <<app, consent, profile>>
  <2>1. lead' = [lead EXCEPT ![l].credit = TRUE] /\ UNCHANGED <<app, consent, profile>>
    BY <1>4 DEF AddLeadCreditInfo
  <2> QED BY <2>1 DEF LeadsStand, StaysBuilt
<1>5. ASSUME NEW v \in Visits, NEW l \in Leads, ScheduleVisit(v, l)
      PROVE  LeadsStand /\ UNCHANGED <<app, consent, profile>>
  BY <1>5 DEF ScheduleVisit, LeadsStand, StaysBuilt
<1>6. ASSUME NEW v \in Visits, NEW s \in VisitStates, UpdateVisitScheduleStatus(v, s)
      PROVE  LeadsStand /\ UNCHANGED <<app, consent, profile>>
  BY <1>6 DEF UpdateVisitScheduleStatus, LeadsStand, StaysBuilt
<1>7. ASSUME NEW l \in Leads, NEW role \in Roles, NEW s \in LeadStates, UpdateLeadStatus(l, role, s)
      PROVE  LeadsStand /\ UNCHANGED <<app, consent, profile>>
  <2>1. /\ lead'[l].status = s /\ lead'[l].profile = lead[l].profile
        /\ lead'[l].consent = lead[l].consent /\ \A m \in Leads \ {l} : lead'[m] = lead[m]
        /\ UNCHANGED <<app, consent, profile>>
    BY <1>7, StatusUpdates
  <2> QED BY <1>1, <2>1 DEF LeadsStand, StaysBuilt
<1>8. ASSUME RowDeleted PROVE LeadsStand /\ UNCHANGED <<app, consent, profile>>
  BY <1>8, RowDeletions DEF RowsStand, LeadsStand, StaysBuilt
<1> QED BY <1>3, <1>4, <1>5, <1>6, <1>7, <1>8 DEF LeadNext, RowDeleted

(* A deletion takes the consents of the lead and of no other row with it.  *)
LEMMA DeletionLinks ==
    ASSUME TypeOK, Links, OnRecord, NEW l \in Leads, DeleteLead(l)
    PROVE  Links' /\ OnRecord'
<1> DEFINE D == LeadConsents(l)
<1>1. /\ \A c \in D : consent'[c] = NoConsent
      /\ \A c \in Consents \ D : consent'[c] = consent[c]
  BY DEF DeleteLead, LeadConsents, TypeOK, LeadRow
<1>2. /\ \A m \in Leads \ {l} : lead'[m] = lead[m]
      /\ lead'[l].consent = None
  BY DEF DeleteLead, TypeOK, NoLead
<1>3. /\ \A p \in Profiles : profile'[p].user = profile[p].user
      /\ \A p \in Profiles : profile'[p].exists = profile[p].exists
      /\ \A p \in Profiles : profile'[p].consent =
             IF profile[p].consent \in D THEN None ELSE profile[p].consent
  BY DEF DeleteLead, TypeOK, ProfileRow
<1>4. app' = app /\ \A a \in Apps : app[a].lead # l /\ app[a].consent \notin D
  BY DEF DeleteLead
<1>5. ASSUME NEW c \in Consents, consent[c].lead = l PROVE c \in D
  <2>1. consent[c].status # Absent
    BY <1>5, NoneAssumption DEF Links, ConsentOrigin
  <2> QED BY <1>5, <2>1 DEF LeadConsents
<1>6. ASSUME NEW c \in D PROVE c \in Consents /\ consent[c].lead = l
  <2>1. CASE c = lead[l].consent
    BY <1>6, <2>1 DEF Links, LeadLink, LeadConsents, TypeOK, LeadRow
  <2> QED BY <1>6, <2>1 DEF LeadConsents
<1> HIDE DEF D
<1>7. ASSUME NEW p \in Profiles, NEW c \in Consents \ D, Owned(p, c) PROVE Owned(p, c)'
  <2>1. consent[c].lead # l /\ ConsentOrigin(c)
    BY <1>5 DEF Links
  <2>2. Survives(c)
    BY <1>1, <1>7 DEF Survives, Owned
  <2>3. \A m \in Leads : m = consent[c].lead => StaysBuilt(m)
    BY <1>2, <2>1 DEF StaysBuilt
  <2> QED BY <1>3, <1>7, <2>1, <2>2, <2>3, OwnedStays DEF StaysBound
<1>8. ASSUME NEW c \in Consents PROVE ConsentOrigin(c)'
  <2>1. CASE c \in D
    BY <1>1, <2>1 DEF ConsentOrigin, NoConsent
  <2>2. CASE c \notin D
    <3>1. ConsentOrigin(c) /\ consent'[c] = consent[c] /\ consent[c].lead # l
      BY <1>1, <1>5, <2>2 DEF Links
    <3>2. consent[c].lead \in Leads \cup {None}
      BY DEF TypeOK, ConsentRow
    <3> QED BY <1>2, <3>1, <3>2 DEF ConsentOrigin
  <2> QED BY <2>1, <2>2
<1>9. ASSUME NEW m \in Leads PROVE LeadLink(m)'
  <2> SUFFICES ASSUME NEW c \in Consents, c = lead'[m].consent PROVE consent'[c].lead = m
    <3>1. lead'[m].consent \in Consents \cup {None}
      BY <1>2 DEF TypeOK, LeadRow
    <3> QED BY <3>1 DEF LeadLink
  <2>1. m # l /\ lead[m].consent = c /\ c # None
    BY <1>2, NoneAssumption
  <2>2. consent[c].lead = m
    BY <2>1 DEF Links, LeadLink
  <2> QED BY <1>1, <1>6, <2>1, <2>2
<1>10. ASSUME NEW p \in Profiles PROVE ProfileLink(p)'
  <2> SUFFICES ASSUME NEW c \in Consents, c = profile'[p].consent PROVE Owned(p, c)'
    <3>1. profile'[p].consent \in Consents \cup {None}
      BY <1>3 DEF TypeOK, ProfileRow
    <3> QED BY <3>1 DEF ProfileLink, Owned
  <2>1. profile[p].consent = c /\ c \notin D /\ c # None
    BY <1>3, NoneAssumption
  <2>2. Owned(p, c)
    BY <2>1 DEF Links, ProfileLink
  <2> QED BY <1>7, <2>1, <2>2
<1>11. ASSUME NEW a \in Apps PROVE AppLink(a)'
  <2>1. AppLink(a) /\ app'[a] = app[a] /\ app[a].lead # l /\ app[a].consent \notin D
    BY <1>4 DEF Links
  <2>2. app[a].lead \in Leads \cup {None} /\ app[a].consent \in Consents \cup {None}
    BY DEF TypeOK, AppRow
  <2>3. app[a].lead # None => lead'[app[a].lead] = lead[app[a].lead]
    BY <1>2, <2>1, <2>2
  <2>4. ASSUME NEW p, p = app[a].profile, NEW c, c = app[a].consent, app[a].status # Absent, c # None
        PROVE  Owned(p, c)'
    <3>1. p \in Profiles /\ c \in Consents \ D /\ Owned(p, c)
      BY <2>1, <2>2, <2>4 DEF AppLink
    <3> QED BY <1>7, <3>1
  <2>5. (app[a].status # Absent /\ app[a].consent # None => Owned(app[a].profile, app[a].consent))'
    <3>1. CASE app'[a].status = Absent \/ app'[a].consent = None
      BY <3>1
    <3>2. CASE app'[a].status # Absent /\ app'[a].consent # None
      BY <2>1, <2>4, <3>2
    <3> QED BY <3>1, <3>2
  <2> QED BY <2>1, <2>3, <2>5 DEF AppLink
<1>12. OnRecord'
  <2>1. \A c \in Consents : consent'[c].deliverable => consent'[c].status # Absent
    <3>1. ~NoConsent.deliverable
      BY DEF NoConsent
    <3> QED BY <1>1, <3>1 DEF OnRecord
  <2>2. \A p \in Profiles : ~profile'[p].exists => profile'[p].user = None
    BY <1>3 DEF OnRecord
  <2> QED BY <2>1, <2>2 DEF OnRecord
<1> QED BY <1>8, <1>9, <1>10, <1>11, <1>12 DEF Links

(* Every consent on record outlives the handlers of consents, and what     *)
(* they link anew belongs together.                                        *)
LEMMA ConsentLinks ==
    ASSUME TypeOK, Links, OnRecord, ConsentNext
    PROVE  Links' /\ OnRecord'
<1> USE DEF TypeOK
<1>0. /\ None \notin Farmers /\ None \notin Leads /\ None \notin Consents /\ None \notin Profiles
      /\ \A c \in Consents : ConsentOrigin(c)
  BY NoneAssumption DEF Links
<1>1. ASSUME NEW c \in Consents, NEW l \in Leads, NEW ok \in BOOLEAN, RequestOtpForLead(c, l, ok)
      PROVE  Links' /\ OnRecord'
  <2> DEFINE row == [NoConsent EXCEPT !.status = "Pending OTP", !.lead = l,
                                      !.otp = IF ok THEN "sent" ELSE "none"]
  <2>1. /\ consent[c].status = Absent /\ lead[l].status # Absent
        /\ consent' = [consent EXCEPT ![c] = row]
        /\ lead' = [lead EXCEPT ![l].consent = c] /\ UNCHANGED <<app, profile>>
    BY <1>1 DEF RequestOtpForLead, LeadExists
  <2>2. row.status = "Pending OTP" /\ row.lead = l /\ row.owner = None /\ ~row.deliverable
    BY DEF NoConsent
  <2> HIDE DEF row
  <2>3. consent'[c] = row /\ \A d \in Consents \ {c} : consent'[d] = consent[d]
    BY <2>1
  <2>4. /\ \A m \in Leads : lead'[m].status = lead[m].status /\ lead'[m].profile = lead[m].profile
        /\ \A m \in Leads \ {l} : lead'[m].consent = lead[m].consent
        /\ lead'[l].consent = c
    BY <2>1 DEF LeadRow
  <2>5. \A d \in Consents : consent[d].status # Absent => Survives(d)
    BY <2>1, <2>3 DEF Survives
  <2>6. /\ \A p \in Profiles : StaysBound(p) /\ profile'[p].consent = profile[p].consent
        /\ \A m \in Leads : StaysBuilt(m)
    BY <2>1, <2>4 DEF StaysBound, StaysBuilt
  <2>7. ConsentOrigin(c)' /\ LeadLink(l)'
    BY <1>0, <2>1, <2>2, <2>3, <2>4 DEF ConsentOrigin, LeadLink, Absent
  <2>8. OnRecord'
    BY <2>1, <2>2, <2>3 DEF OnRecord
  <2> QED BY <2>1, <2>3, <2>4, <2>5, <2>6, <2>7, <2>8, LinksStay DEF Links
<1>2. ASSUME NEW c \in Consents, NEW f \in Farmers, NEW ok \in BOOLEAN, RequestOtpForFarmer(c, f, ok)
      PROVE  Links' /\ OnRecord'
  <2> DEFINE row == [NoConsent EXCEPT !.status = "Pending OTP", !.owner = f,
                                      !.otp = IF ok THEN "sent" ELSE "none"]
  <2>1. /\ consent[c].status = Absent /\ consent' = [consent EXCEPT ![c] = row]
        /\ profile' = [p \in Profiles |-> IF profile[p].user = f
                                          THEN [profile[p] EXCEPT !.consent = c] ELSE profile[p]]
        /\ UNCHANGED <<lead, app>>
    BY <1>2 DEF RequestOtpForFarmer
  <2>2. row.status = "Pending OTP" /\ row.lead = None /\ row.owner = f /\ ~row.deliverable
    BY DEF NoConsent
  <2> HIDE DEF row
  <2>3. consent'[c] = row /\ \A d \in Consents \ {c} : consent'[d] = consent[d]
    BY <2>1
  <2>4. /\ \A p \in Profiles : profile'[p].user = profile[p].user /\ profile'[p].exists = profile[p].exists
        /\ \A p \in Profiles : profile'[p].consent =
               IF profile[p].user = f THEN c ELSE profile[p].consent
    BY <2>1 DEF ProfileRow
  <2>5. \A d \in Consents : consent[d].status # Absent => Survives(d)
    BY <2>1, <2>3 DEF Survives
  <2>6. /\ \A p \in Profiles : StaysBound(p)
        /\ \A m \in Leads : StaysBuilt(m) /\ lead'[m].consent = lead[m].consent
    BY <2>1, <2>4 DEF StaysBound, StaysBuilt
  <2>7. ConsentOrigin(c)'
    BY <1>0, <2>2, <2>3 DEF ConsentOrigin, Absent
  <2>8. ASSUME NEW p \in Profiles, profile[p].user = f PROVE ProfileLink(p)'
    BY <1>0, <2>2, <2>3, <2>4, <2>8 DEF ProfileLink, Owned, Absent
  <2>9. OnRecord'
    <3>1. \A d \in Consents : consent'[d].deliverable => consent'[d].status # Absent
      BY <2>2, <2>3 DEF OnRecord
    <3>2. \A p \in Profiles : ~profile'[p].exists => profile'[p].user = None
      BY <2>4 DEF OnRecord
    <3> QED BY <3>1, <3>2 DEF OnRecord
  <2> QED BY <2>1, <2>3, <2>4, <2>5, <2>6, <2>7, <2>8, <2>9, LinksStay DEF Links
<1>3. ASSUME NEW c \in Consents, UNCHANGED <<lead, app, profile>>, consent[c].status # Absent, Survives(c),
             \A d \in Consents \ {c} : consent'[d] = consent[d]
      PROVE  Links' /\ OnRecord'
  <2>1. \A d \in Consents : consent[d].status # Absent => Survives(d)
    BY <1>3 DEF Survives
  <2>2. /\ \A p \in Profiles : StaysBound(p) /\ profile'[p].consent = profile[p].consent
        /\ \A m \in Leads : StaysBuilt(m) /\ lead'[m].consent = lead[m].consent
    BY <1>3 DEF StaysBound, StaysBuilt
  <2>3. OnRecord'
    BY <1>3 DEF OnRecord, Survives
  <2> QED BY <1>3, <2>1, <2>2, <2>3, LinksStay DEF Links
<1>4. ASSUME NEW c \in Consents, VerifyOtp(c) \/ ProcessConsentDataFails(c) PROVE Links' /\ OnRecord'
  <2>1. consent[c].status # Absent /\ UNCHANGED <<lead, app, profile>>
    <3>1. CASE VerifyOtp(c)
      BY <3>1 DEF VerifyOtp, Absent
    <3>2. CASE ProcessConsentDataFails(c)
      BY <3>2 DEF ProcessConsentDataFails, OnRecord
    <3> QED BY <1>4, <3>1, <3>2
  <2>2. Survives(c) /\ \A d \in Consents \ {c} : consent'[d] = consent[d]
    BY <1>4, <2>1 DEF VerifyOtp, ProcessConsentDataFails, Survives, ConsentRow, Absent
  <2> QED BY <1>3, <2>1, <2>2
<1>5. ASSUME NEW c \in Consents, NEW o \in {"approved", "declined", "failed"}, SubmitConsent(c, o)
      PROVE  Links' /\ OnRecord'
  <2>1. consent[c].status = "Pending OTP" /\ UNCHANGED <<lead, app, profile>>
    BY <1>5 DEF SubmitConsent
  <2>2. /\ \/ consent' = [consent EXCEPT ![c] = [consent[c] EXCEPT !.status = "Approved", !.deliverable = TRUE]]
           \/ consent' = [consent EXCEPT ![c].status = "Rejected"]
           \/ consent' = [consent EXCEPT ![c].deliverable = TRUE]
    BY <1>5 DEF SubmitConsent
  <2>3. Survives(c) /\ \A d \in Consents \ {c} : consent'[d] = consent[d]
    BY <2>1, <2>2 DEF Survives, ConsentRow, Absent
  <2> QED BY <1>3, <2>1, <2>3 DEF Absent
<1>6. ASSUME NEW c \in Consents, NEW s \in DeliveredStatus \cup {None}, NEW p \in Profiles,
             NEW f \in Farmers \cup {None}, ProcessConsentData(c, s, p, f)
      PROVE  Links' /\ OnRecord'
  <2> DEFINE owner == consent[c].owner
             l     == consent[c].lead
             row   == [exists |-> TRUE, consent |-> c, user |-> BoundUser(c, p, f)]
  <2>1. /\ consent[c].deliverable /\ p \in UpsertProfile(c)
        /\ consent' = [consent EXCEPT ![c].status = IF s = None THEN @ ELSE s]
        /\ profile' = [profile EXCEPT ![p] = row]
        /\ lead' = IF l = None THEN lead ELSE [lead EXCEPT ![l].profile = p]
        /\ UNCHANGED app
    BY <1>6 DEF ProcessConsentData
  <2>2. consent[c].status # Absent /\ (l = None <=> owner # None) /\ l \in Leads \cup {None}
    BY <1>0, <2>1 DEF OnRecord, ConsentOrigin, ConsentRow
  <2>3. /\ profile'[p] = row /\ row.exists /\ row.consent = c /\ row.user = BoundUser(c, p, f)
        /\ \A q \in Profiles \ {p} : profile'[q] = profile[q]
    BY <2>1
  <2>4. /\ \A m \in Leads : lead'[m].status = lead[m].status /\ lead'[m].consent = lead[m].consent
        /\ \A m \in Leads : lead'[m].profile = IF m = l THEN p ELSE lead[m].profile
    BY <1>0, <2>1, <2>2 DEF LeadRow
  <2>5. \A d \in Consents : consent[d].status # Absent => Survives(d)
    <3>1. s \in {"Approved", "Rejected", "Revoked", None}
      BY DeliveredAssumption
    <3>2. \A d \in Consents \ {c} : consent'[d] = consent[d]
      BY <2>1
    <3>3. Survives(c)
      <4>1. /\ consent'[c].owner = consent[c].owner /\ consent'[c].lead = consent[c].lead
            /\ consent'[c].status = IF s = None THEN consent[c].status ELSE s
        BY <2>1 DEF ConsentRow
      <4> QED BY <2>2, <3>1, <4>1 DEF Survives, Absent
    <3> QED BY <3>2, <3>3 DEF Survives
  <2>6. \A q \in Profiles : StaysBound(q)
    BY <2>3 DEF StaysBound, BoundUser
  <2>7. \A m \in Leads : StaysBuilt(m)
    <3>1. l # None /\ lead[l].profile # None => p = lead[l].profile
      BY <2>1, <2>2 DEF UpsertProfile
    <3> QED BY <1>0, <2>4, <3>1 DEF StaysBuilt
  <2>8. ProfileLink(p)'
    <3>1. Survives(c)
      BY <2>2, <2>5
    <3>2. CASE owner # None
      <4>1. profile[p].user \in {owner, None}
        BY <2>1, <3>2 DEF UpsertProfile, OnRecord
      <4>2. BoundUser(c, p, f) = owner
        BY <3>2, <4>1 DEF BoundUser
      <4> QED BY <2>3, <3>1, <3>2, <4>2 DEF ProfileLink, Owned, Survives
    <3>3. CASE owner = None
      <4>1. l \in Leads /\ l # None /\ lead'[l].profile = p
        BY <2>2, <2>4, <3>3
      <4> QED BY <2>3, <3>1, <4>1 DEF ProfileLink, Owned, Survives
    <3> QED BY <3>2, <3>3
  <2>9. OnRecord'
    <3>1. \A d \in Consents : consent'[d].deliverable => consent'[d].status # Absent
      <4>1. \A d \in Consents \ {c} : consent'[d] = consent[d]
        BY <2>1
      <4> QED BY <2>2, <2>5, <4>1 DEF OnRecord, Survives
    <3>2. \A q \in Profiles : ~profile'[q].exists => profile'[q].user = None
      BY <2>3 DEF OnRecord
    <3> QED BY <3>1, <3>2 DEF OnRecord
  <2>10. \A d \in Consents : ConsentOrigin(d)'
    <3>1. \A d \in Consents : consent'[d] = consent[d] \/ consent[d].status # Absent
      BY <2>1, <2>2
    <3> QED BY <2>5, <2>6, <2>7, <3>1, LinksStay
  <2> QED BY <2>1, <2>3, <2>4, <2>5, <2>6, <2>7, <2>8, <2>9, <2>10, LinksStay DEF Links
<1>7. ASSUME NEW c \in Consents, DeleteConsent(c) PROVE Links' /\ OnRecord'
  <2>1. /\ consent'[c] = NoConsent /\ \A d \in Consents \ {c} : consent'[d] = consent[d]
        /\ \A l \in Leads : lead[l].consent # c
        /\ \A p \in Profiles : profile[p].consent # c
        /\ \A a \in Apps : app[a].consent # c
        /\ UNCHANGED <<lead, app, profile>>
    BY <1>7 DEF DeleteConsent
  <2>2. \A p \in Profiles, d \in Consents \ {c} : Owned(p, d) => Owned(p, d)'
    BY <2>1 DEF Owned
  <2>3. \A d \in Consents : ConsentOrigin(d)'
    BY <1>0, <2>1 DEF ConsentOrigin, NoConsent
  <2>4. \A l \in Leads : LeadLink(l)'
    BY <2>1 DEF Links, LeadLink, LeadRow
  <2>5. \A p \in Profiles : ProfileLink(p)'
    BY <2>1, <2>2 DEF Links, ProfileLink, ProfileRow
  <2>6. \A a \in Apps : AppLink(a)'
    BY <2>1, <2>2 DEF Links, AppLink, AppRow
  <2>7. OnRecord'
    BY <2>1 DEF OnRecord, NoConsent
  <2> QED BY <2>3, <2>4, <2>5, <2>6, <2>7 DEF Links
<1>8. ASSUME NEW p \in Profiles, DeleteProfile(p) PROVE Links' /\ OnRecord'
  <2>1. /\ profile'[p] = NoProfile /\ \A q \in Profiles \ {p} : profile'[q] = profile[q]
        /\ \A a \in Apps : app[a].profile # p
        /\ UNCHANGED <<lead, app, consent>>
    BY <1>8 DEF DeleteProfile
  <2>2. \A q \in Profiles \ {p}, d \in Consents : Owned(q, d) => Owned(q, d)'
    BY <2>1 DEF Owned
  <2>3. \A d \in Consents : ConsentOrigin(d)'
    BY <1>0, <2>1 DEF ConsentOrigin
  <2>4. \A l \in Leads : LeadLink(l)'
    BY <2>1 DEF Links, LeadLink
  <2>5. \A q \in Profiles : ProfileLink(q)'
    BY <2>1, <2>2 DEF Links, ProfileLink, ProfileRow, NoProfile
  <2>6. \A a \in Apps : AppLink(a)'
    BY <2>1, <2>2 DEF Links, AppLink, AppRow
  <2>7. OnRecord'
    BY <2>1 DEF OnRecord, NoProfile
  <2> QED BY <2>3, <2>4, <2>5, <2>6, <2>7 DEF Links
<1> QED BY <1>1, <1>2, <1>4, <1>5, <1>6, <1>7, <1>8 DEF ConsentNext

(* A new application takes its profile and consent together.               *)
LEMMA AppLinks ==
    ASSUME TypeOK, Links, OnRecord, AppNext
    PROVE  Links' /\ OnRecord'
<1> USE DEF TypeOK
<1>0. /\ None \notin Leads /\ None \notin Consents /\ None \notin Profiles
      /\ \A p \in Profiles : ProfileLink(p)
  BY NoneAssumption DEF Links
<1>1. LeadsStand
  <2>1. CASE UNCHANGED lead
    BY <2>1 DEF LeadsStand, StaysBuilt
  <2>2. CASE \E a \in Apps, target \in TerminalArchetypes :
                 /\ app[a].lead \in Leads
                 /\ lead' = [lead EXCEPT ![app[a].lead].status = LeadSyncTarget(target)]
    <3>1. PICK a \in Apps, target \in TerminalArchetypes :
              /\ app[a].lead \in Leads
              /\ lead' = [lead EXCEPT ![app[a].lead].status = LeadSyncTarget(target)]
      BY <2>2
    <3>2. LeadSyncTarget(target) # Absent
      BY DEF LeadSyncTarget, Absent
    <3> QED BY <3>1, <3>2 DEF LeadsStand, StaysBuilt, LeadRow
  <2> QED BY <2>1, <2>2, AppStepsAndLeads
<1>2. UNCHANGED <<consent, profile>>
  BY DEF AppNext, CreateLoanApplication, CreateApplication, SubmitApplication, UpdateLoanStatus,
         DeleteApplication
<1>3. ASSUME NEW a \in Apps, \A b \in Apps \ {a} : app'[b] = app[b], AppLink(a)'
      PROVE  Links' /\ OnRecord'
  BY <1>1, <1>2, <1>3, StandingLinks DEF Links
<1>4. ASSUME NEW a \in Apps, NEW l \in Leads, CreateLoanApplication(a, l) PROVE Links' /\ OnRecord'
  <2> DEFINE p   == lead[l].profile
             row == [NoApp EXCEPT !.status = "Active", !.lead = l, !.profile = p,
                                  !.consent = profile[p].consent]
  <2>1. /\ app' = [app EXCEPT ![a] = row] /\ UNCHANGED <<lead, consent, profile>>
        /\ lead[l].status \in {"Verified", "Processed"} /\ p # None
    BY <1>4 DEF CreateLoanApplication
  <2>2. p \in Profiles /\ ProfileLink(p)
    BY <1>0, <2>1 DEF LeadRow
  <2>3. row.status = "Active" /\ row.lead = l /\ row.profile = p /\ row.consent = profile[p].consent
    BY DEF NoApp
  <2>4. app'[a] = row /\ \A b \in Apps \ {a} : app'[b] = app[b]
    BY <2>1
  <2>5. lead'[l].status # Absent /\ lead'[l].profile = p
    BY <2>1 DEF Absent
  <2> HIDE DEF row, p
  <2>6. AppLink(a)'
    BY <2>1, <2>2, <2>3, <2>4, <2>5 DEF AppLink, ProfileLink, Owned
  <2> QED BY <1>3, <2>4, <2>6
<1>5. ASSUME NEW a \in Apps, NEW p \in Profiles, NEW c \in Consents \cup {None}, CreateApplication(a, p, c)
      PROVE  Links' /\ OnRecord'
  <2> DEFINE row == [NoApp EXCEPT !.status = "Active", !.profile = p,
                                  !.consent = IF c # None THEN c ELSE profile[p].consent]
  <2>1. /\ app' = [app EXCEPT ![a] = row] /\ UNCHANGED <<lead, consent, profile>>
        /\ profile[p].user # None
        /\ c # None => consent[c].owner = profile[p].user /\ consent[c].status = "Approved"
    BY <1>5 DEF CreateApplication, Approved
  <2>2. /\ row.status = "Active" /\ row.lead = None /\ row.profile = p
        /\ row.consent = IF c # None THEN c ELSE profile[p].consent
    BY DEF NoApp
  <2>3. app'[a] = row /\ \A b \in Apps \ {a} : app'[b] = app[b]
    BY <2>1
  <2> HIDE DEF row
  <2>4. AppLink(a)'
    <3>1. CASE c # None
      BY <2>1, <2>2, <2>3, <3>1 DEF AppLink, Owned, Absent
    <3>2. CASE c = None
      BY <1>0, <2>1, <2>2, <2>3, <3>2 DEF AppLink, ProfileLink, Owned
    <3> QED BY <3>1, <3>2
  <2> QED BY <1>3, <2>3, <2>4
<1>6. ASSUME NEW a \in Apps, app[a].status # Absent, app'[a].lead = app[a].lead,
             app'[a].profile = app[a].profile, app'[a].consent = app[a].consent,
             \A b \in Apps \ {a} : app'[b] = app[b]
      PROVE  Links' /\ OnRecord'
  BY <1>1, <1>2, <1>6, StandingLinks DEF Links
<1>7. ASSUME NEW a \in Apps, NEW role \in Roles, SubmitApplication(a, role) PROVE Links' /\ OnRecord'
  <2>1. /\ app[a].status = "Active"
        /\ \/ app' = [app EXCEPT ![a].stage = EntryStage(a), ![a].status = "In Transition"]
           \/ app' = [app EXCEPT ![a].stage = EntryStage(a)]
    BY <1>7 DEF SubmitApplication
  <2>2. /\ app'[a].lead = app[a].lead /\ app'[a].profile = app[a].profile
        /\ app'[a].consent = app[a].consent /\ \A b \in Apps \ {a} : app'[b] = app[b]
    BY <2>1 DEF AppRow
  <2> QED BY <1>6, <2>1, <2>2 DEF Absent
<1>8. ASSUME NEW a \in Apps, NEW role \in Roles, NEW i \in StageInputs, UpdateLoanStatus(a, role, i)
      PROVE  Links' /\ OnRecord'
  <2>1. /\ app[a].status # Absent
        /\ \/ app' = [app EXCEPT ![a].stage = i]
           \/ app' = [app EXCEPT ![a].stage = i, ![a].status = ArchetypeOf(i)]
    BY <1>8 DEF UpdateLoanStatus, Visible, AppExists
  <2>2. /\ app'[a].lead = app[a].lead /\ app'[a].profile = app[a].profile
        /\ app'[a].consent = app[a].consent /\ \A b \in Apps \ {a} : app'[b] = app[b]
    BY <2>1 DEF AppRow
  <2> QED BY <1>6, <2>1, <2>2
<1>9. ASSUME NEW a \in Apps, DeleteApplication(a) PROVE Links' /\ OnRecord'
  <2>1. app'[a] = NoApp /\ \A b \in Apps \ {a} : app'[b] = app[b]
    BY <1>9 DEF DeleteApplication
  <2>2. AppLink(a)'
    BY <2>1 DEF AppLink, NoApp
  <2> QED BY <1>3, <2>1, <2>2
<1> QED BY <1>4, <1>5, <1>7, <1>8, <1>9 DEF AppNext

LEMMA LinksStep == TypeOK /\ Links /\ OnRecord /\ [Next]_vars => Links' /\ OnRecord'
<1> SUFFICES ASSUME TypeOK, Links, OnRecord, [Next]_vars PROVE Links' /\ OnRecord'
  OBVIOUS
<1>1. ASSUME LeadsStand, UNCHANGED <<app, consent, profile>> PROVE Links' /\ OnRecord'
  BY <1>1, StandingLinks DEF Links
<1>2. CASE LeadNext
  BY <1>1, <1>2, LeadStepsStand, DeletionLinks
<1>3. CASE UNCHANGED vars
  BY <1>1, <1>3 DEF vars, LeadsStand, StaysBuilt
<1> QED BY <1>2, <1>3, ConsentLinks, AppLinks DEF Next

LEMMA LinksAlways == Spec => [](TypeOK /\ Links)
<1>1. Init => Links /\ OnRecord
  <2> SUFFICES ASSUME Init PROVE Links /\ OnRecord
    OBVIOUS
  <2>1. /\ \A l \in Leads : lead[l].consent = None
        /\ \A p \in Profiles : profile[p].consent = None /\ profile[p].user = None
        /\ \A a \in Apps : app[a].status = Absent /\ app[a].lead = None
    BY DEF Init, NoLead, NoProfile, NoApp
  <2>2. \A c \in Consents : /\ consent[c].status = Absent /\ consent[c].lead = None
                            /\ consent[c].owner = None
    BY DEF Init, NoConsent
  <2>3. \A c \in Consents : ~consent[c].deliverable
    BY DEF Init, NoConsent
  <2>4. Links
    BY <2>1, <2>2 DEF Links, ConsentOrigin, LeadLink, ProfileLink, AppLink
  <2> QED BY <2>1, <2>3, <2>4 DEF OnRecord
<1> QED BY <1>1, LinksStep, TypeCorrect, PTL DEF Spec

(* Through every deletion of a lead, rebinding of a profile and new        *)
(* request for consent, an application stays on its applicant's consent.   *)
THEOREM ConsentsAreApplicants == Spec => []ConsentIsApplicants
<1>1. TypeOK /\ Links => ConsentIsApplicants
  BY DEF Links, AppLink, Owned, ConsentIsApplicants, ApplicantOwns, AppExists
<1> QED BY <1>1, LinksAlways, PTL

(* What the prerequisites of a submission find is the applicant's.         *)
LEMMA FoundIsOwned ==
    ASSUME TypeOK, Links, NEW a \in Apps, app[a].status # Absent, SubmissionPrerequisites(a)
    PROVE  \E c \in Consents : Approved(c) /\ ApplicantOwns(a, c)
<1> DEFINE p == app[a].profile
<1>1. /\ AppLink(a) /\ p \in Profiles /\ ProfileLink(p)
      /\ app[a].consent \in Consents \cup {None} /\ profile[p].consent \in Consents \cup {None}
      /\ app[a].lead \in Leads \cup {None}
  BY DEF Links, AppLink, TypeOK, AppRow, ProfileRow
<1>2. \A c : ApplicantOwns(a, c) <=> Owned(p, c)
  BY DEF ApplicantOwns, Owned
<1>3. \A c : Approved(c) => consent[c].status # Absent
  BY DEF Approved, Absent
<1> HIDE DEF p
<1>4. CASE app[a].consent # None
  BY <1>1, <1>2, <1>4 DEF SubmissionPrerequisites, AppLink, p
<1>5. CASE app[a].consent = None /\ profile[p].consent # None
  BY <1>1, <1>2, <1>5 DEF SubmissionPrerequisites, ProfileLink, ConsentOfProfile, p
<1>6. CASE app[a].consent = None /\ profile[p].consent = None
  <2>1. PICK c \in Consents :
            /\ Approved(c)
            /\ \/ profile[p].user # None /\ consent[c].owner = profile[p].user
               \/ app[a].lead # None /\ (c = lead[app[a].lead].consent \/ consent[c].lead = app[a].lead)
    BY <1>6 DEF SubmissionPrerequisites, ConsentOfProfile, UserOfProfile, p
  <2>2. CASE profile[p].user # None /\ consent[c].owner = profile[p].user
    BY <1>2, <1>3, <2>1, <2>2 DEF Owned
  <2>3. CASE app[a].lead # None /\ (c = lead[app[a].lead].consent \/ consent[c].lead = app[a].lead)
    <3>1. consent[c].lead = app[a].lead
      BY <1>1, <2>3, NoneAssumption DEF Links, LeadLink
    <3>2. lead[app[a].lead].profile = p
      BY <1>1, <2>3 DEF AppLink, p
    <3> QED BY <1>2, <1>3, <2>1, <2>3, <3>1, <3>2 DEF Owned
  <2> QED BY <2>1, <2>2, <2>3
<1> QED BY <1>4, <1>5, <1>6

(* Whichever of the five searches finds it, an application is submitted    *)
(* on an approved consent of its own applicant.                            *)
THEOREM SubmissionsAreConsented == Spec => SubmittedUnderConsent
<1> DEFINE Consented == \A a \in Apps : app[a].status = "Active" /\ app'[a].status = "In Transition"
                            => \E c \in Consents : Approved(c) /\ ApplicantOwns(a, c)
<1>1. TypeOK /\ Links /\ [Next]_vars => [Consented]_vars
  <2> SUFFICES ASSUME TypeOK, Links, Next, NEW a \in Apps,
                      app[a].status = "Active", app'[a].status = "In Transition"
               PROVE  \E c \in Consents : Approved(c) /\ ApplicantOwns(a, c)
    OBVIOUS
  <2>1. ASSUME app' = app PROVE FALSE
    BY <2>1
  <2>2. AppNext
    BY <2>1 DEF Next, LeadNext, ConsentNext, CreateLead, LeadInbound, AddLeadCreditInfo,
                DeleteLead, ScheduleVisit, UpdateVisitScheduleStatus, UpdateLeadStatus,
                DeleteVisit, DeleteCreditInfo,
                RequestOtpForLead, RequestOtpForFarmer, VerifyOtp, SubmitConsent,
                ProcessConsentData, ProcessConsentDataFails, DeleteConsent, DeleteProfile
  <2>3. SubmissionPrerequisites(a)
    <3>1. ASSUME NEW b \in Apps, NEW l \in Leads, CreateLoanApplication(b, l) PROVE FALSE
      BY <3>1 DEF CreateLoanApplication, AppExists, NoApp, TypeOK, Absent
    <3>2. ASSUME NEW b \in Apps, NEW p \in Profiles, NEW c \in Consents \cup {None},
                 CreateApplication(b, p, c)
          PROVE  FALSE
      BY <3>2 DEF CreateApplication, AppExists, NoApp, TypeOK, Absent
    <3>3. ASSUME NEW b \in Apps, DeleteApplication(b) PROVE FALSE
      BY <3>3 DEF DeleteApplication, NoApp, TypeOK, Absent
    <3>4. ASSUME NEW b \in Apps, NEW role \in Roles, SubmitApplication(b, role)
          PROVE  SubmissionPrerequisites(a)
      <4>1. CASE LoanTransition(b, role, "In Transition")
        <5>1. \A d \in Apps \ {b} : app'[d] = app[d]
          BY <3>4 DEF SubmitApplication, TypeOK
        <5> QED BY <4>1, <5>1 DEF LoanTransition
      <4>2. CASE app' = [app EXCEPT ![b].stage = EntryStage(b)]
        BY <4>2 DEF TypeOK, AppRow
      <4> QED BY <3>4, <4>1, <4>2 DEF SubmitApplication
    <3>5. ASSUME NEW b \in Apps, NEW role \in Roles, NEW i \in StageInputs, UpdateLoanStatus(b, role, i)
          PROVE  SubmissionPrerequisites(a)
      <4> DEFINE target == ArchetypeOf(i)
      <4>1. CASE /\ LoanTransition(b, role, target)
                 /\ app' = [app EXCEPT ![b].stage = i, ![b].status = target]
        <5>1. /\ app'[b].status = target /\ \A d \in Apps \ {b} : app'[d] = app[d]
          BY <4>1 DEF TypeOK, AppRow
        <5>2. a = b /\ target = "In Transition"
          BY <5>1
        <5> QED BY <4>1, <5>2 DEF LoanTransition
      <4>2. CASE app' = [app EXCEPT ![b].stage = i]
        BY <4>2 DEF TypeOK, AppRow
      <4> QED BY <3>5, <4>1, <4>2 DEF UpdateLoanStatus
    <3> QED BY <2>2, <3>1, <3>2, <3>3, <3>4, <3>5 DEF AppNext
  <2> QED BY <2>3, FoundIsOwned DEF Absent
<1> QED BY <1>1, LinksAlways, PTL DEF Spec, SubmittedUnderConsent
=============================================================================
