------------------------------ MODULE LeadDesk ------------------------------
(***************************************************************************)
(* The desk where Development Agents work leads: one of them pages through *)
(* a list while others assign leads, open consents, note credit, correct   *)
(* profiles, and leads come and go.                                        *)
(*                                                                         *)
(* A lead carries copies of what lives elsewhere: its latest consent       *)
(* request and the amount of its credit information.  They are written by  *)
(* set_value without touching `modified`, beside saves that write every    *)
(* field of the row they loaded.  The database (external) is the one of    *)
(* LeadIntake: a request that writes a row newer than its snapshot is      *)
(* rolled back.                                                            *)
(*                                                                         *)
(* Statuses are those of LeadLoan and left out here; a lead enters and     *)
(* leaves a list by its assignee.                                          *)
(***************************************************************************)
EXTENDS Naturals, FiniteSets, SequencesExt

CONSTANTS MaxLeads,    \* leads are numbered as they are created
          Agents,      \* calls under way at a time
          Reader,      \* who reads the list
          Assignees,   \* whom leads are assigned to
          None,
          Amounts,     \* the amounts credit information may give
          Views,       \* the lists the reader may ask for
          PageLength,
          MaxAsked,    \* bound on the consents opened for a lead
          MaxCredits,  \* bound on the credit rows a lead has at a time
          SnapshotConflicts

ASSUME DeskAssumption ==
    /\ MaxLeads \in Nat /\ MaxAsked \in Nat /\ MaxCredits \in Nat
    /\ PageLength \in Nat \ {0}
    /\ Amounts \subseteq Nat \ {0}
    /\ None \notin Agents \cup Assignees
    /\ SnapshotConflicts \in BOOLEAN

VARIABLES lead,    \* A2C Lead
          asked,   \* A2C Consent Request: how many each lead has, the last the newest
          credit,  \* A2C Credit Information: the amounts each lead has, oldest first
          noted,   \* the amount last copied to each lead, whatever it reads now
          trail,   \* A2C Lead Audit Event: whom the newest "Assigned" names
          task,    \* what each agent's request has loaded and not yet written
          list     \* the list the reader is paging through

vars == <<lead, asked, credit, noted, trail, task, list>>

Leads == 1..MaxLeads
Tabs  == {"all", "my", "unassigned"}
View  == [tab : Tabs, by : {"creation", "loan_amount"}, desc : BOOLEAN]

ASSUME ViewsAssumption == Views \subseteq View

Row  == [there : {"not yet", "yes", "deleted"}, to : Assignees \cup {None},
         consent : 0..MaxAsked, amount : Amounts \cup {0}]

Blank == [there |-> "not yet", to |-> None, consent |-> 0, amount |-> 0]

(* How a row has changed since a request read it.                          *)
Newness == {"as read", "copy written", "saved"}
Kinds == {"assign", "profile", "otp", "credit", "trash"}
Task == {None} \cup [kind : Kinds, lead : Leads, row : Row, since : Newness]

(* A list is read from `start`; owed are the leads that were there at the  *)
(* first page, calm tells that none left the list or moved in it.          *)
Closed == [open |-> FALSE]
List == {Closed} \cup [open : {TRUE}, view : Views, start : Nat, got : SUBSET Leads,
                       owed : SUBSET Leads, calm : BOOLEAN, more : BOOLEAN]

Init ==
    /\ lead   = [l \in Leads |-> Blank]
    /\ asked  = [l \in Leads |-> 0]
    /\ credit = [l \in Leads |-> <<>>]
    /\ noted  = [l \in Leads |-> 0]
    /\ trail  = [l \in Leads |-> None]
    /\ task   = [a \in Agents |-> None]
    /\ list   = Closed

(***************************************************************************)
(* get_leads.                                                              *)
(***************************************************************************)
There(rows) == {l \in DOMAIN rows : rows[l].there = "yes"}

FilteredEver(rows, view) ==  \* mutant: leads deleted since are listed
    {l \in DOMAIN rows : rows[l].there # "not yet" /\ view.tab = "all"}

Filtered(rows, view) ==
    {l \in There(rows) :
        \/ view.tab = "all"
        \/ view.tab = "my" /\ rows[l].to = Reader
        \/ view.tab = "unassigned" /\ rows[l].to = None}

SortKey(rows, view, l) == IF view.by = "creation" THEN l ELSE rows[l].amount

BeforeByKey(rows, view, l, m) ==  \* mutant: no `name asc`, rows of one amount in any order
    LET k == SortKey(rows, view, l)
        j == SortKey(rows, view, m)
    IN IF view.desc THEN k >= j ELSE k <= j

(* order_by: the key in the direction asked for, ties by name.             *)
Before(rows, view, l, m) ==
    LET k == SortKey(rows, view, l)
        j == SortKey(rows, view, m)
    IN (IF view.desc THEN k > j ELSE k < j) \/ (k = j /\ l <= m)

Orders(rows, view) ==
    {q \in SetToSeqs(Filtered(rows, view)) :
        \A i, j \in DOMAIN q : i < j => Before(rows, view, q[i], q[j])}

HasNext(start, total) == start + PageLength < total

(* One page, and whether there is another: both of one snapshot.           *)
ReadPage(view, start, got, owed, calm) ==
    \E q \in Orders(lead, view) :
        list' = [open |-> TRUE, view |-> view, start |-> start + PageLength,
                 got  |-> got \cup Range(SubSeq(q, start + 1,
                             IF HasNext(start, Len(q)) THEN start + PageLength ELSE Len(q))),
                 owed |-> owed, calm |-> calm, more |-> HasNext(start, Len(q))]

GetLeads ==
    /\ \/ ~list.open /\ \E view \in Views : ReadPage(view, 0, {}, Filtered(lead, view), TRUE)
       \/ list.open /\ list.more /\ ReadPage(list.view, list.start, list.got, list.owed, list.calm)
    /\ UNCHANGED <<lead, asked, credit, noted, trail, task>>

(* What a write does to a list not yet read to its end.                    *)
Disturb(rows) ==
    list' = IF ~list.open \/ ~list.more THEN list ELSE
            LET before == Filtered(lead, list.view)
                now    == Filtered(rows, list.view)
            IN [list EXCEPT !.owed = @ \cap now,
                            !.calm = @ /\ before \subseteq now
                                       /\ \A l \in before : SortKey(rows, list.view, l)
                                                          = SortKey(lead, list.view, l)]

(***************************************************************************)
(* Requests.  Each reads the lead first; the two that will save it keep    *)
(* the row they loaded.                                                    *)
(***************************************************************************)
Open(a, kind, l) ==
    /\ task[a] = None
    /\ l \in There(lead)
    /\ task' = [task EXCEPT ![a] = 
                [kind  |-> kind, lead |-> l, since |-> "as read",
                 row   |-> IF kind \in {"assign", "profile"} THEN lead[l] ELSE Blank]]
    /\ UNCHANGED <<lead, asked, credit, noted, trail, list>>

(* a's request ends; the others that read l see it written.                *)
Close(a, l, how) ==
    task' = [b \in Agents |->
                IF b = a THEN None
                ELSE IF task[b] # None /\ task[b].lead = l /\ task[b].since # "saved"
                     THEN [task[b] EXCEPT !.since = how] ELSE task[b]]

Put(l, row) == LET rows == [lead EXCEPT ![l] = row] IN lead' = rows /\ Disturb(rows)

UntouchedStamp(a) == task[a].since # "saved"  \* mutant: only the timestamp is compared

(* The save compares `modified`, and locks a row newer than its snapshot.  *)
Untouched(a) ==
    IF SnapshotConflicts THEN task[a].since = "as read" ELSE task[a].since # "saved"

(* set_value on the lead compares nothing.                                 *)
Writable(a) ==
    lead[task[a].lead].there = "yes" /\ (SnapshotConflicts => task[a].since = "as read")

AssignLead(a, to) ==
    /\ task[a] # None /\ task[a].kind = "assign"
    /\ Untouched(a)
    /\ LET l == task[a].lead IN
       /\ Put(l, [task[a].row EXCEPT !.to = to])
       /\ trail' = [trail EXCEPT ![l] = to]
       /\ Close(a, l, "saved")
    /\ UNCHANGED <<asked, credit, noted>>

(* The lead holds none of the four fields, and is saved all the same.      *)
UpdateBasicProfile(a) ==
    /\ task[a] # None /\ task[a].kind = "profile"
    /\ Untouched(a)
    /\ Put(task[a].lead, task[a].row)
    /\ Close(a, task[a].lead, "saved")
    /\ UNCHANGED <<asked, credit, noted, trail>>

(* The request is opened and the lead pointed at it; whether the registry  *)
(* then sends an OTP or not, both are committed.                           *)
RequestOtp(a) ==
    /\ task[a] # None /\ task[a].kind = "otp"
    /\ Writable(a)
    /\ LET l == task[a].lead IN
       /\ asked[l] < MaxAsked
       /\ asked' = [asked EXCEPT ![l] = @ + 1]
       /\ Put(l, [lead[l] EXCEPT !.consent = asked[l] + 1])
       /\ Close(a, l, "copy written")
    /\ UNCHANGED <<credit, noted, trail>>

(* sync_lead_loan_amount swallows every error of its write.                *)
SyncLeadLoanAmount(a, l, value) ==
    /\ Put(l, [lead[l] EXCEPT !.amount = value])
    /\ noted' = [noted EXCEPT ![l] = value]
    /\ Close(a, l, "copy written")

(* It runs twice, after_insert and on_update: where the database rolls the *)
(* request back at the first write of the copy, the second goes through    *)
(* and the row is gone.                                                    *)
AddLeadCreditInfo(a, amount) ==
    /\ task[a] # None /\ task[a].kind = "credit"
    /\ LET l == task[a].lead IN
       /\ lead[l].there = "yes" /\ Len(credit[l]) < MaxCredits
       /\ credit' = IF Writable(a) THEN [credit EXCEPT ![l] = Append(@, amount)] ELSE credit
       /\ SyncLeadLoanAmount(a, l, amount)
    /\ UNCHANGED <<asked, trail>>

(* An administrator deletes one of the rows: on_trash clears the copy, or, *)
(* where the database rolls that back, only the row goes.                  *)
DeleteCreditInfo(a, i) ==
    /\ task[a] # None /\ task[a].kind = "trash"
    /\ LET l == task[a].lead IN
       /\ i \in DOMAIN credit[l]
       /\ credit' = [credit EXCEPT ![l] = RemoveAt(@, i)]
       /\ \/ Writable(a) /\ SyncLeadLoanAmount(a, l, 0)
          \/ /\ ~Writable(a)
             /\ task' = [task EXCEPT ![a] = None]
             /\ UNCHANGED <<lead, noted, list>>
    /\ UNCHANGED <<asked, trail>>

(* A request refused, or lost.                                             *)
Refuse(a) ==
    /\ task[a] # None
    /\ task' = [task EXCEPT ![a] = None]
    /\ UNCHANGED <<lead, asked, credit, noted, trail, list>>

(* create_lead assigns the lead to its creator, without an "Assigned"      *)
(* event; a lead that comes in by the webhook is nobody's.                 *)
CreateLead(l, to) ==
    /\ lead[l].there = "not yet"
    /\ \A m \in Leads : m < l => lead[m].there # "not yet"
    /\ Put(l, [lead[l] EXCEPT !.there = "yes", !.to = to])
    /\ UNCHANGED <<asked, credit, noted, trail, task>>

(* on_trash takes the lead's consents, credit and events with it.          *)
DeleteLead(l) ==
    /\ lead[l].there = "yes"
    /\ Put(l, [Blank EXCEPT !.there = "deleted"])
    /\ asked' = [asked EXCEPT ![l] = 0]
    /\ credit' = [credit EXCEPT ![l] = <<>>]
    /\ noted' = [noted EXCEPT ![l] = 0]
    /\ trail' = [trail EXCEPT ![l] = None]
    /\ task' = [b \in Agents |-> IF task[b] # None /\ task[b].lead = l
                                 THEN [task[b] EXCEPT !.since = "saved"] ELSE task[b]]

Next ==
    \/ GetLeads
    \/ \E a \in Agents :
           \/ \E kind \in Kinds, l \in Leads : Open(a, kind, l)
           \/ \E to \in Assignees : AssignLead(a, to)
           \/ UpdateBasicProfile(a) \/ RequestOtp(a) \/ Refuse(a)
           \/ \E amount \in Amounts : AddLeadCreditInfo(a, amount)
           \/ \E i \in 1..MaxCredits : DeleteCreditInfo(a, i)
    \/ \E l \in Leads : DeleteLead(l) \/ \E to \in Assignees \cup {None} : CreateLead(l, to)

Spec == Init /\ [][Next]_vars

(***************************************************************************)
(* Properties.                                                             *)
(***************************************************************************)
(* Tables, requests and the list; a list gives only leads of its view that *)
(* have existed.                                                           *)
TypeOK ==
    /\ lead \in [Leads -> Row]
    /\ asked \in [Leads -> 0..MaxAsked]
    /\ credit \in [Leads -> Seq(Amounts)]
    /\ noted \in [Leads -> Amounts \cup {0}]
    /\ trail \in [Leads -> Assignees \cup {None}]
    /\ task \in [Agents -> Task]
    /\ list.open \in BOOLEAN
    /\ list.open => /\ list.view \in Views /\ list.start \in Nat
                    /\ list.calm \in BOOLEAN /\ list.more \in BOOLEAN
                    /\ list.more => list.owed \subseteq There(lead)
                    /\ \A l \in list.got : lead[l].there # "not yet"

(* "without a deterministic second key ... paging can repeat one lead and  *)
(* skip another": a reader who follows has_next to the last page has been  *)
(* given every lead that was in the list from the first page on, whatever  *)
(* was created, assigned into it or edited meanwhile, as long as no listed *)
(* lead left it or changed the amount it is sorted by.                     *)
PagesComplete ==
    list.open /\ ~list.more /\ list.calm => list.owed \subseteq list.got

(* "The lead caches its latest consent attempt", is sorted by an amount    *)
(* copied to it, and is assigned in the timeline: beside requests that     *)
(* save the whole row they loaded, and although a copy is written without  *)
(* a timestamp, the lead points at the newest consent, reads the amount    *)
(* last copied, and is whose the timeline last said, once it said so.      *)
CopiesAgree ==
    \A l \in There(lead) :
        /\ lead[l].consent = asked[l]
        /\ lead[l].amount = noted[l]
        /\ trail[l] # None => lead[l].to = trail[l]
=============================================================================
