--------------------------- MODULE LeadDeskProofs ---------------------------
(***************************************************************************)
(* The desk, for any number of leads, agents, assignees and lists, and any *)
(* length of page.                                                         *)
(***************************************************************************)
EXTENDS LeadDesk, FiniteSetTheorems, SequenceTheorems, TLAPS

Saves   == {"assign", "profile"}
Request == [kind : Kinds, lead : Leads, row : Row, since : Newness]
Paging  == [open : {TRUE}, view : Views, start : Nat, got : SUBSET Leads,
            owed : SUBSET Leads, calm : BOOLEAN, more : BOOLEAN]

(* A request that will save a lead loaded one that was there.              *)
Loaded == \A a \in Agents : task[a] # None /\ task[a].kind \in Saves => task[a].row.there = "yes"

Reading == list \in {Closed} \cup Paging

Shaped == TypeOK /\ Loaded /\ Reading

(***************************************************************************)
(* Requests: what the end of one makes of the others.                      *)
(***************************************************************************)
LEMMA RowsTyped ==
    /\ Blank \in Row
    /\ \A old \in Row :
           /\ \A there \in {"not yet", "yes", "deleted"} : [old EXCEPT !.there = there] \in Row
           /\ \A to \in Assignees \cup {None} : [old EXCEPT !.to = to] \in Row
           /\ \A consent \in 0..MaxAsked : [old EXCEPT !.consent = consent] \in Row
           /\ \A amount \in Amounts \cup {0} : [old EXCEPT !.amount = amount] \in Row
<1>1. Blank \in Row
  BY DeskAssumption DEF Blank, Row
<1>2. \A old \in Row :
          /\ \A there \in {"not yet", "yes", "deleted"} : [old EXCEPT !.there = there] \in Row
          /\ \A to \in Assignees \cup {None} : [old EXCEPT !.to = to] \in Row
          /\ \A consent \in 0..MaxAsked : [old EXCEPT !.consent = consent] \in Row
          /\ \A amount \in Amounts \cup {0} : [old EXCEPT !.amount = amount] \in Row
  BY DEF Row
<1> QED BY <1>1, <1>2

LEMMA TasksTyped ==
    /\ Task = {None} \cup Request
    /\ \A t \in Request, how \in Newness : [t EXCEPT !.since = how] \in Request
BY DEF Task, Request

(* A request that goes on is the one it was, as read only if it was so and *)
(* is about another lead than the one written.                             *)
Goes(b, l) ==
    /\ task[b] # None /\ task'[b] \in Request /\ task[b] \in Request
    /\ task'[b].kind = task[b].kind /\ task'[b].lead = task[b].lead /\ task'[b].row = task[b].row
    /\ task'[b].since = "as read" => task[b].since = "as read" /\ task[b].lead # l

LEMMA Closing ==
    ASSUME Shaped, NEW a \in Agents, NEW l \in Leads, NEW how \in {"copy written", "saved"}, Close(a, l, how)
    PROVE  /\ task' \in [Agents -> Task]
           /\ \A b \in Agents : task'[b] # None => Goes(b, l)
<1>1. ASSUME NEW b \in Agents
      PROVE  task'[b] \in Task /\ (task'[b] # None => Goes(b, l))
  <2>1. task[b] \in {None} \cup Request
    BY TasksTyped DEF Shaped, TypeOK
  <2>2. task'[b] = IF b = a THEN None
                   ELSE IF task[b] # None /\ task[b].lead = l /\ task[b].since # "saved"
                        THEN [task[b] EXCEPT !.since = how] ELSE task[b]
    BY DEF Close
  <2>3. CASE b # a /\ task[b] # None /\ task[b].lead = l /\ task[b].since # "saved"
    <3>1. task[b] \in Request /\ task'[b] = [task[b] EXCEPT !.since = how]
      BY <2>1, <2>2, <2>3
    <3>2. task'[b] \in Request
      BY <3>1, TasksTyped DEF Newness
    <3>3. /\ task'[b].kind = task[b].kind /\ task'[b].lead = task[b].lead /\ task'[b].row = task[b].row
          /\ task'[b].since = how
      BY <3>1 DEF Request
    <3> QED BY <2>3, <3>1, <3>2, <3>3, TasksTyped DEF Goes
  <2>4. CASE b = a
    BY <2>2, <2>4, TasksTyped
  <2>5. CASE b # a /\ ~(task[b] # None /\ task[b].lead = l /\ task[b].since # "saved")
    <3>1. task'[b] = task[b]
      BY <2>2, <2>5
    <3>2. task[b] # None /\ task[b].since = "as read" => task[b].lead # l
      BY <2>5
    <3> QED BY <2>1, <3>1, <3>2, TasksTyped DEF Goes
  <2> QED BY <2>3, <2>4, <2>5
<1>2. task' = [b \in Agents |-> task'[b]]
  BY DEF Close
<1> QED BY <1>1, <1>2

LEMMA Trashing ==
    ASSUME Shaped, NEW l \in Leads, DeleteLead(l)
    PROVE  /\ task' \in [Agents -> Task]
           /\ \A b \in Agents : task'[b] # None => Goes(b, l)
<1>1. ASSUME NEW b \in Agents
      PROVE  task'[b] \in Task /\ (task'[b] # None => Goes(b, l))
  <2>1. task[b] \in {None} \cup Request
    BY TasksTyped DEF Shaped, TypeOK
  <2>2. task'[b] = IF task[b] # None /\ task[b].lead = l
                   THEN [task[b] EXCEPT !.since = "saved"] ELSE task[b]
    BY DEF DeleteLead
  <2>3. CASE task[b] # None /\ task[b].lead = l
    <3>1. task[b] \in Request /\ task'[b] = [task[b] EXCEPT !.since = "saved"]
      BY <2>1, <2>2, <2>3
    <3>2. task'[b] \in Request
      BY <3>1, TasksTyped DEF Newness
    <3>3. /\ task'[b].kind = task[b].kind /\ task'[b].lead = task[b].lead /\ task'[b].row = task[b].row
          /\ task'[b].since = "saved"
      BY <3>1 DEF Request
    <3> QED BY <2>3, <3>1, <3>2, <3>3, TasksTyped DEF Goes
  <2>4. CASE ~(task[b] # None /\ task[b].lead = l)
    <3>1. task'[b] = task[b]
      BY <2>2, <2>4
    <3>2. task[b] # None => task[b].lead # l
      BY <2>4
    <3> QED BY <2>1, <3>1, <3>2, TasksTyped DEF Goes
  <2> QED BY <2>3, <2>4
<1>2. task' = [b \in Agents |-> task'[b]]
  BY DEF DeleteLead
<1> QED BY <1>1, <1>2

(***************************************************************************)
(* The list: what a write does to one that is being read.                  *)
(***************************************************************************)
LEMMA FilteredLeads ==
    ASSUME NEW rows \in [Leads -> Row], NEW view
    PROVE  /\ Filtered(rows, view) \subseteq There(rows) /\ There(rows) \subseteq Leads
           /\ IsFiniteSet(Filtered(rows, view)) /\ Cardinality(Filtered(rows, view)) \in Nat
<1>1. Filtered(rows, view) \subseteq There(rows) /\ There(rows) \subseteq Leads
  BY DEF Filtered, There
<1>2. IsFiniteSet(Leads)
  BY DeskAssumption, FS_Interval DEF Leads
<1>3. IsFiniteSet(Filtered(rows, view))
  BY <1>1, <1>2, FS_Subset
<1> QED BY <1>1, <1>3, FS_CardinalityType

LEMMA OpenList == ASSUME Reading, list.open PROVE list \in Paging
<1>1. Closed.open = FALSE
  BY DEF Closed
<1> QED BY <1>1 DEF Reading

LEMMA Disturbing ==
    ASSUME Reading, NEW rows, Disturb(rows)
    PROVE  \/ (~list.open \/ ~list.more) /\ list' = list
           \/ /\ list \in Paging /\ list.more /\ list' \in Paging /\ list'.more
              /\ list'.view = list.view /\ list'.start = list.start /\ list'.got = list.got
              /\ list'.owed = list.owed \cap Filtered(rows, list.view)
              /\ list'.calm => /\ list.calm
                               /\ Filtered(lead, list.view) \subseteq Filtered(rows, list.view)
                               /\ \A m \in Filtered(lead, list.view) :
                                      SortKey(rows, list.view, m) = SortKey(lead, list.view, m)
<1>1. CASE ~list.open \/ ~list.more
  BY <1>1 DEF Disturb
<1>2. CASE ~(~list.open \/ ~list.more)
  <2> DEFINE still == /\ list.calm
                      /\ Filtered(lead, list.view) \subseteq Filtered(rows, list.view)
                      /\ \A m \in Filtered(lead, list.view) :
                             SortKey(rows, list.view, m) = SortKey(lead, list.view, m)
             owes == list.owed \cap Filtered(rows, list.view)
  <2>1. list \in Paging /\ list.more
    BY <1>2 DEF Reading, Closed
  <2>2. list' = [list EXCEPT !.owed = owes, !.calm = still]
    BY <1>2 DEF Disturb
  <2>3. still \in BOOLEAN /\ owes \in SUBSET Leads
    BY <2>1 DEF Paging
  <2>4. still => /\ list.calm
                 /\ Filtered(lead, list.view) \subseteq Filtered(rows, list.view)
                 /\ \A m \in Filtered(lead, list.view) :
                        SortKey(rows, list.view, m) = SortKey(lead, list.view, m)
    OBVIOUS
  <2> HIDE DEF still, owes
  <2>5. /\ list' \in Paging /\ list'.more = list.more /\ list'.view = list.view
        /\ list'.start = list.start /\ list'.got = list.got /\ list'.owed = owes /\ list'.calm = still
    BY <2>1, <2>2, <2>3 DEF Paging
  <2> QED BY <2>1, <2>4, <2>5 DEF owes
<1> QED BY <1>1, <1>2

(***************************************************************************)
(* Pages: an order of the list gives each lead the place that the leads    *)
(* ahead of it count.                                                      *)
(***************************************************************************)
Ahead(rows, view, l) == {m \in Filtered(rows, view) : m # l /\ Before(rows, view, m, l)}

LEMMA TotalOrder ==
    ASSUME NEW rows \in [Leads -> Row], NEW view, NEW l \in Leads, NEW m \in Leads,
           Before(rows, view, l, m), Before(rows, view, m, l)
    PROVE  l = m
<1>1. \A n \in Leads : n \in Nat /\ SortKey(rows, view, n) \in Nat
  <2>1. \A n \in Leads : rows[n].amount \in Nat
    <3>1. \A old \in Row : old.amount \in Amounts \cup {0}
      BY DEF Row
    <3>2. Amounts \cup {0} \subseteq Nat
      BY DeskAssumption
    <3> QED BY <3>1, <3>2
  <2> QED BY <2>1, DeskAssumption DEF SortKey, Leads
<1> DEFINE k == SortKey(rows, view, l)
           j == SortKey(rows, view, m)
<1>2. /\ (IF view.desc THEN k > j ELSE k < j) \/ (k = j /\ l <= m)
      /\ (IF view.desc THEN j > k ELSE j < k) \/ (j = k /\ m <= l)
  BY DEF Before
<1>3. k \in Nat /\ j \in Nat /\ l \in Nat /\ m \in Nat
  BY <1>1
<1> HIDE DEF k, j
<1> QED BY <1>2, <1>3

LEMMA Ranked ==
    ASSUME NEW rows \in [Leads -> Row], NEW view, NEW q \in Orders(rows, view)
    PROVE  /\ Len(q) \in Nat /\ q \in [1..Len(q) -> Filtered(rows, view)]
           /\ \A l \in Filtered(rows, view) :
                  \E i \in 1..Len(q) : q[i] = l /\ Cardinality(Ahead(rows, view, l)) = i - 1
<1> DEFINE F == Filtered(rows, view)
           n == Cardinality(F)
<1>1. F \subseteq Leads /\ IsFiniteSet(F) /\ n \in Nat
  BY FilteredLeads
<1>2. /\ q \in [1..n -> F]
      /\ \A i, j \in 1..n : i # j => q[i] # q[j]
      /\ \A i, j \in 1..n : i < j => Before(rows, view, q[i], q[j])
  BY DEF Orders, SetToSeqs
<1>3. Len(q) = n
  BY <1>1, <1>2
(* As many places as leads: every lead has one.                            *)
<1>4. \A l \in F : \E i \in 1..n : q[i] = l
  <2>1. q \in Injection(1..n, F)
    BY <1>2 DEF Injection, IsInjective
  <2>2. Cardinality(1..n) = n
    BY <1>1, FS_Interval
  <2>3. q \in Surjection(1..n, F)
    BY <1>1, <2>1, <2>2, FS_Injection
  <2> QED BY <2>3 DEF Surjection
<1>5. ASSUME NEW i \in 1..n PROVE Cardinality(Ahead(rows, view, q[i])) = i - 1
  <2> DEFINE A == Ahead(rows, view, q[i])
             f == [j \in 1..(i - 1) |-> q[j]]
  <2>1. \A j \in 1..(i - 1) : j \in 1..n /\ j < i /\ j # i
    BY <1>1
  <2>2. \A j \in 1..(i - 1) : q[j] \in A
    BY <1>2, <2>1 DEF Ahead
  <2>3. ASSUME NEW m \in A PROVE \E j \in 1..(i - 1) : q[j] = m
    <3>1. m \in F /\ m # q[i] /\ Before(rows, view, m, q[i])
      BY DEF Ahead
    <3>2. PICK j \in 1..n : q[j] = m
      BY <1>4, <3>1
    <3>3. ~(i < j)
      BY <1>1, <1>2, <3>1, <3>2, TotalOrder
    <3> QED BY <1>1, <3>1, <3>2, <3>3
  <2>4. f \in Bijection(1..(i - 1), A)
    <3>1. f \in [1..(i - 1) -> A]
      BY <2>2
    <3>2. f \in Injection(1..(i - 1), A)
      BY <1>2, <2>1, <3>1 DEF Injection, IsInjective
    <3>3. f \in Surjection(1..(i - 1), A)
      BY <2>3, <3>1 DEF Surjection
    <3> QED BY <3>2, <3>3 DEF Bijection
  <2>5. ExistsBijection(1..(i - 1), A)
    BY <2>4 DEF ExistsBijection
  <2>6. i - 1 \in Nat
    BY <1>1
  <2> HIDE DEF A
  <2>7. Cardinality(A) = i - 1
    BY <2>5, <2>6, FS_CountingElements
  <2> QED BY <2>7 DEF A
<1> QED BY <1>1, <1>2, <1>3, <1>4, <1>5

(* What a page read leaves: a lead with as many others ahead of it as were *)
(* read before is on the page, or has as many ahead as are read by now.    *)
PageLeft(view, start, got, owed, calm) ==
    /\ list' \in Paging /\ list'.view = view /\ list'.start = start + PageLength
    /\ list'.owed = owed /\ list'.calm = calm
    /\ \A m \in got : m \in list'.got
    /\ \A m \in list'.got : m \in got \/ m \in Filtered(lead, view)
    /\ \A l \in Filtered(lead, view) :
           Cardinality(Ahead(lead, view, l)) >= start /\ l \notin list'.got
           => list'.more /\ Cardinality(Ahead(lead, view, l)) >= start + PageLength

LEMMA PageRead ==
    ASSUME lead \in [Leads -> Row], NEW view \in Views, NEW start \in Nat,
           NEW got \in SUBSET Leads, NEW owed \in SUBSET Leads, NEW calm, calm \in BOOLEAN,
           ReadPage(view, start, got, owed, calm)
    PROVE  PageLeft(view, start, got, owed, calm)
<1> DEFINE F == Filtered(lead, view)
<1>1. PICK q \in Orders(lead, view) :
          list' = [open |-> TRUE, view |-> view, start |-> start + PageLength,
                   got  |-> got \cup Range(SubSeq(q, start + 1,
                             IF HasNext(start, Len(q)) THEN start + PageLength ELSE Len(q))),
                   owed |-> owed, calm |-> calm, more |-> HasNext(start, Len(q))]
  BY DEF ReadPage
<1> DEFINE n == Len(q)
           last == IF HasNext(start, n) THEN start + PageLength ELSE n
           page == SubSeq(q, start + 1, last)
<1>2. n \in Nat /\ q \in [1..n -> F]
  BY Ranked
<1>3. /\ HasNext(start, n) \in BOOLEAN /\ (HasNext(start, n) <=> start + PageLength < n)
      /\ last \in Nat /\ last <= n /\ PageLength \in Nat \ {0}
  BY <1>2, DeskAssumption DEF HasNext
<1>4. /\ page \in Seq(F)
      /\ \A i \in 1..(last - start) : page[i] = q[start + i]
      /\ Len(page) = IF start + 1 <= last THEN last - start ELSE 0
  <2>1. \A i \in (start + 1)..last : q[i] \in F
    BY <1>2, <1>3
  <2>2. /\ page \in Seq(F)
        /\ Len(page) = IF start + 1 <= last THEN last - (start + 1) + 1 ELSE 0
        /\ \A i \in 1..(last - (start + 1) + 1) : page[i] = q[start + 1 + i - 1]
    BY <1>3, <2>1, SubSeqProperties
  <2> HIDE DEF page, last
  <2> QED BY <1>2, <1>3, <2>2
<1>5. Range(page) \subseteq F
  <2>1. page \in [1..Len(page) -> F]
    <3>1. page \in Seq(F)
      BY <1>4
    <3> HIDE DEF page
    <3> QED BY <3>1, LenProperties
  <2> HIDE DEF page
  <2> QED BY <2>1 DEF Range
<1>6. ASSUME NEW i \in Nat, start + 1 <= i, i <= last PROVE q[i] \in Range(page)
  <2>1. i - start \in 1..Len(page) /\ i - start \in 1..(last - start)
    BY <1>3, <1>4, <1>6
  <2>2. page[i - start] = q[i]
    BY <1>3, <1>4, <1>6, <2>1
  <2>3. DOMAIN page = 1..Len(page)
    BY <1>4, LenProperties
  <2> QED BY <2>1, <2>2, <2>3 DEF Range
<1>7. F \subseteq Leads
  BY FilteredLeads
<1>8. list' = [open |-> TRUE, view |-> view, start |-> start + PageLength, got |-> got \cup Range(page),
               owed |-> owed, calm |-> calm, more |-> HasNext(start, n)]
  BY <1>1
<1> HIDE DEF page, last, n
<1>9. /\ list' \in Paging /\ list'.view = view /\ list'.start = start + PageLength
      /\ list'.owed = owed /\ list'.calm = calm /\ list'.got = got \cup Range(page)
      /\ list'.more = HasNext(start, n)
  <2>1. got \cup Range(page) \in SUBSET Leads /\ start + PageLength \in Nat
    BY <1>3, <1>5, <1>7
  <2> QED BY <1>3, <1>8, <2>1 DEF Paging
<1>10. ASSUME NEW l \in F, Cardinality(Ahead(lead, view, l)) >= start, l \notin list'.got
       PROVE  list'.more /\ Cardinality(Ahead(lead, view, l)) >= start + PageLength
  <2>1. PICK i \in 1..n : q[i] = l /\ Cardinality(Ahead(lead, view, l)) = i - 1
    BY Ranked DEF n
  <2>2. i \in Nat /\ start + 1 <= i /\ i <= n
    BY <1>2, <1>10, <2>1 DEF n
  <2>3. ~(i <= last)
    BY <1>6, <1>9, <1>10, <2>1, <2>2
  <2>4. HasNext(start, n) /\ last = start + PageLength
    BY <2>2, <2>3 DEF last
  <2> QED BY <1>3, <1>9, <2>1, <2>2, <2>3, <2>4
<1> QED BY <1>5, <1>9, <1>10 DEF PageLeft

(***************************************************************************)
(* Types.                                                                  *)
(***************************************************************************)
(* A write of a lead that is not taken back out of existence.              *)
LEMMA Putting ==
    ASSUME Shaped, NEW l \in Leads, NEW row \in Row, row.there # "not yet", Put(l, row)
    PROVE  /\ lead' \in [Leads -> Row] /\ lead'[l] = row /\ \A m \in Leads \ {l} : lead'[m] = lead[m]
           /\ Disturb(lead') /\ Reading'
           /\ list'.open \in BOOLEAN
           /\ list'.open => /\ list'.view \in Views /\ list'.start \in Nat
                            /\ list'.calm \in BOOLEAN /\ list'.more \in BOOLEAN
                            /\ list'.more => list'.owed \subseteq There(lead')
                            /\ \A m \in list'.got : lead'[m].there # "not yet"
<1>1. lead \in [Leads -> Row] /\ lead' = [lead EXCEPT ![l] = row] /\ Disturb(lead')
  BY DEF Put, Shaped, TypeOK
<1>2. lead' \in [Leads -> Row] /\ lead'[l] = row /\ \A m \in Leads \ {l} : lead'[m] = lead[m]
  BY <1>1
<1>3. \A m \in Leads : lead[m].there # "not yet" => lead'[m].there # "not yet"
  BY <1>2
<1>4. CASE (~list.open \/ ~list.more) /\ list' = list
  <2>1. list.open => \A m \in list.got : m \in Leads /\ lead[m].there # "not yet"
    <3> SUFFICES ASSUME list.open PROVE \A m \in list.got : m \in Leads /\ lead[m].there # "not yet"
      OBVIOUS
    <3>1. list \in Paging
      BY OpenList DEF Shaped
    <3>2. list.got \subseteq Leads
      BY <3>1 DEF Paging
    <3>3. \A m \in list.got : lead[m].there # "not yet"
      BY DEF Shaped, TypeOK
    <3> QED BY <3>2, <3>3
  <2> QED BY <1>1, <1>2, <1>3, <1>4, <2>1 DEF Shaped, TypeOK, Reading
<1>5. CASE /\ list \in Paging /\ list' \in Paging /\ list'.got = list.got
           /\ list'.owed = list.owed \cap Filtered(lead', list.view)
  <2>1. list'.owed \subseteq There(lead')
    BY <1>2, <1>5, FilteredLeads
  <2>2. \A m \in list.got : m \in Leads /\ lead[m].there # "not yet"
    BY <1>5 DEF Shaped, TypeOK, Paging
  <2>3. \A m \in list'.got : lead'[m].there # "not yet"
    BY <1>3, <1>5, <2>2
  <2>4. Reading'
    BY <1>5 DEF Reading
  <2>5. /\ list'.open = TRUE /\ list'.view \in Views /\ list'.start \in Nat
        /\ list'.calm \in BOOLEAN /\ list'.more \in BOOLEAN
    BY <1>5 DEF Paging
  <2> QED BY <1>1, <1>2, <2>1, <2>3, <2>4, <2>5
<1>6. Reading
  BY DEF Shaped
<1> QED BY <1>1, <1>4, <1>5, <1>6, Disturbing

LEMMA WriteShaped ==
    ASSUME Shaped, NEW l \in Leads, NEW row \in Row, row.there # "not yet", Put(l, row),
           task' \in [Agents -> Task], \A b \in Agents : task'[b] # None => Goes(b, l) \/ task'[b] = task[b],
           asked' \in [Leads -> 0..MaxAsked], credit' \in [Leads -> Seq(Amounts)],
           noted' \in [Leads -> Amounts \cup {0}],
           trail' \in [Leads -> Assignees \cup {None}]
    PROVE  Shaped'
<1>1. TypeOK' /\ Reading'
  BY Putting DEF TypeOK
<1>2. Loaded'
  <2> SUFFICES ASSUME NEW b \in Agents, task'[b] # None, task'[b].kind \in Saves
               PROVE  task'[b].row.there = "yes"
    BY DEF Loaded
  <2>1. task[b] # None /\ task[b].kind \in Saves => task[b].row.there = "yes"
    BY DEF Shaped, Loaded
  <2>2. CASE Goes(b, l)
    BY <2>1, <2>2 DEF Goes
  <2>3. CASE task'[b] = task[b]
    BY <2>1, <2>3
  <2> QED BY <2>2, <2>3
<1> QED BY <1>1, <1>2 DEF Shaped

LEMMA ShapedInit == Init => Shaped
<1> SUFFICES ASSUME Init PROVE Shaped
  OBVIOUS
<1>1. lead \in [Leads -> Row]
  BY RowsTyped DEF Init
<1>2. \A a \in Agents : task[a] = None
  BY DEF Init
<1>3. task \in [Agents -> Task]
  BY DEF Init, Task
<1>4. list.open = FALSE /\ Reading
  BY DEF Init, Closed, Reading
<1>5. asked \in [Leads -> 0..MaxAsked] /\ credit \in [Leads -> Seq(Amounts)]
      /\ noted \in [Leads -> Amounts \cup {0}]
      /\ trail \in [Leads -> Assignees \cup {None}]
  BY DeskAssumption DEF Init
<1>6. TypeOK
  BY <1>1, <1>3, <1>4, <1>5 DEF TypeOK
<1>7. Loaded
  BY <1>2 DEF Loaded
<1> QED BY <1>4, <1>6, <1>7 DEF Shaped

(* The rows that requests put.                                             *)
LEMMA Saved ==
    ASSUME Shaped, NEW a \in Agents, task[a] # None
    PROVE  /\ task[a] \in Request /\ task[a].lead \in Leads /\ task[a].row \in Row /\ lead[task[a].lead] \in Row
           /\ task[a].kind \in Saves => task[a].row.there # "not yet"
<1>1. task[a] \in Request
  BY TasksTyped DEF Shaped, TypeOK
<1>2. task[a].lead \in Leads /\ task[a].row \in Row
  BY <1>1 DEF Request
<1>3. lead[task[a].lead] \in Row
  BY <1>2 DEF Shaped, TypeOK
<1>4. task[a].kind \in Saves => task[a].row.there # "not yet"
  BY DEF Shaped, Loaded
<1> QED BY <1>1, <1>2, <1>3, <1>4

LEMMA RowRemoved ==
    ASSUME NEW s \in Seq(Amounts), NEW i \in DOMAIN s
    PROVE  RemoveAt(s, i) \in Seq(Amounts)
<1>1. Len(s) \in Nat /\ i \in 1..Len(s) /\ \A j \in 1..Len(s) : s[j] \in Amounts
  BY LenProperties, ElementOfSeq
<1>2. SubSeq(s, 1, i - 1) \in Seq(Amounts)
  BY <1>1, SubSeqProperties
<1>3. SubSeq(s, i + 1, Len(s)) \in Seq(Amounts)
  BY <1>1, SubSeqProperties
<1> QED BY <1>2, <1>3, ConcatProperties DEF RemoveAt

LEMMA ShapedStep == Shaped /\ [Next]_vars => Shaped'
<1> SUFFICES ASSUME Shaped, [Next]_vars PROVE Shaped'
  OBVIOUS
<1>0. /\ asked \in [Leads -> 0..MaxAsked] /\ credit \in [Leads -> Seq(Amounts)]
      /\ noted \in [Leads -> Amounts \cup {0}]
      /\ trail \in [Leads -> Assignees \cup {None}] /\ lead \in [Leads -> Row]
  BY DEF Shaped, TypeOK
<1>1. CASE GetLeads
  <2>1. UNCHANGED <<lead, asked, credit, noted, trail, task>>
    BY <1>1 DEF GetLeads
  <2>2. ASSUME NEW view \in Views, NEW start \in Nat, NEW got \in SUBSET Leads, NEW owed \in SUBSET Leads,
               NEW calm, calm \in BOOLEAN, ReadPage(view, start, got, owed, calm),
               owed \subseteq There(lead), \A m \in got : lead[m].there # "not yet"
        PROVE  Shaped'
    <3>0. lead \in [Leads -> Row] /\ ReadPage(view, start, got, owed, calm)
      BY <1>0, <2>2
    <3>1. /\ list' \in Paging /\ list'.owed = owed
          /\ \A m \in list'.got : m \in got \/ m \in Filtered(lead, view)
      <4>1. PageLeft(view, start, got, owed, calm)
        BY <2>2, <3>0, PageRead
      <4> QED BY <4>1 DEF PageLeft
    <3>2. \A m \in list'.got : lead[m].there # "not yet"
      BY <1>0, <2>2, <3>1, FilteredLeads DEF There
    <3>3. /\ list'.open = TRUE /\ list'.view \in Views /\ list'.start \in Nat
          /\ list'.calm \in BOOLEAN /\ list'.more \in BOOLEAN /\ Reading'
      BY <3>1 DEF Paging, Reading
    <3>4. TypeOK'
      BY <2>1, <2>2, <3>1, <3>2, <3>3 DEF Shaped, TypeOK, There
    <3>5. Loaded'
      BY <2>1 DEF Shaped, Loaded
    <3> QED BY <3>3, <3>4, <3>5 DEF Shaped
  <2>3. ASSUME NEW view \in Views, ReadPage(view, 0, {}, Filtered(lead, view), TRUE) PROVE Shaped'
    <3>1. /\ Filtered(lead, view) \subseteq There(lead) /\ Filtered(lead, view) \in SUBSET Leads
          /\ {} \in SUBSET Leads /\ 0 \in Nat /\ TRUE \in BOOLEAN
      BY <1>0, FilteredLeads
    <3>2. \A m \in {} : lead[m].there # "not yet"
      OBVIOUS
    <3> QED BY <2>2, <2>3, <3>1, <3>2
  <2>4. ASSUME list.open, ReadPage(list.view, list.start, list.got, list.owed, list.calm), list.more PROVE Shaped'
    <3>1. list \in Paging
      BY <2>4, OpenList DEF Shaped
    <3>2. /\ list.view \in Views /\ list.start \in Nat /\ list.got \in SUBSET Leads
          /\ list.owed \in SUBSET Leads /\ list.calm \in BOOLEAN
      BY <3>1 DEF Paging
    <3>3. list.owed \subseteq There(lead) /\ \A m \in list.got : lead[m].there # "not yet"
      BY <2>4 DEF Shaped, TypeOK
    <3> QED BY <2>2, <2>4, <3>2, <3>3
  <2> QED BY <1>1, <2>3, <2>4 DEF GetLeads
<1>2. ASSUME NEW a \in Agents, NEW kind \in Kinds, NEW l \in Leads, Open(a, kind, l) PROVE Shaped'
  <2> DEFINE t == [kind |-> kind, lead |-> l, since |-> "as read",
                   row |-> IF kind \in {"assign", "profile"} THEN lead[l] ELSE Blank]
  <2>1. /\ lead[l] \in Row /\ lead[l].there = "yes"
        /\ task' = [task EXCEPT ![a] = t] /\ UNCHANGED <<lead, asked, credit, noted, trail, list>>
    BY <1>0, <1>2 DEF Open, There
  <2>2. t \in Request /\ (t.kind \in Saves => t.row.there = "yes")
    <3>1. (IF kind \in {"assign", "profile"} THEN lead[l] ELSE Blank) \in Row
      BY <2>1, RowsTyped
    <3> QED BY <2>1, <3>1 DEF Request, Newness, Saves
  <2> HIDE DEF t
  <2>3. task' \in [Agents -> Task]
    BY <2>1, <2>2, TasksTyped DEF Shaped, TypeOK
  <2>4. Loaded'
    BY <2>1, <2>2 DEF Shaped, Loaded, TypeOK
  <2> QED BY <2>1, <2>3, <2>4 DEF Shaped, TypeOK, Reading, There
<1>3. ASSUME NEW a \in Agents, NEW to \in Assignees, AssignLead(a, to) PROVE Shaped'
  <2> DEFINE l == task[a].lead
             row == [task[a].row EXCEPT !.to = to]
  <2>1. /\ task[a] # None /\ task[a].kind \in Saves /\ Put(l, row) /\ Close(a, l, "saved")
        /\ trail' = [trail EXCEPT ![l] = to] /\ UNCHANGED <<asked, credit, noted>>
    BY <1>3 DEF AssignLead, Saves
  <2>2. l \in Leads /\ row \in Row /\ row.there # "not yet"
    <3>1. l \in Leads /\ task[a].row \in Row /\ task[a].row.there # "not yet"
      BY <2>1, Saved
    <3>2. row.there = task[a].row.there
      BY <3>1 DEF Row
    <3>3. row \in Row
      BY <3>1, RowsTyped
    <3> QED BY <3>1, <3>2, <3>3
  <2>3. trail' \in [Leads -> Assignees \cup {None}]
    BY <1>0, <2>1
  <2> HIDE DEF row, l
  <2> QED BY <1>0, <2>1, <2>2, <2>3, Closing, WriteShaped
<1>4. ASSUME NEW a \in Agents, UpdateBasicProfile(a) PROVE Shaped'
  <2>1. /\ task[a] # None /\ task[a].kind \in Saves /\ Put(task[a].lead, task[a].row)
        /\ Close(a, task[a].lead, "saved") /\ UNCHANGED <<asked, credit, noted, trail>>
    BY <1>4 DEF UpdateBasicProfile, Saves
  <2> QED BY <1>0, <2>1, Saved, Closing, WriteShaped
<1>5. ASSUME NEW a \in Agents, RequestOtp(a) PROVE Shaped'
  <2> DEFINE l == task[a].lead
             row == [lead[l] EXCEPT !.consent = asked[l] + 1]
  <2>1. /\ task[a] # None /\ lead[l].there = "yes" /\ Put(l, row) /\ Close(a, l, "copy written")
        /\ asked[l] < MaxAsked /\ asked' = [asked EXCEPT ![l] = asked[l] + 1] /\ UNCHANGED <<credit, noted, trail>>
    BY <1>5 DEF RequestOtp, Writable
  <2>2. l \in Leads /\ lead[l] \in Row
    BY <2>1, Saved
  <2>3. asked[l] + 1 \in 0..MaxAsked
    <3>1. asked[l] \in 0..MaxAsked /\ asked[l] < MaxAsked
      BY <1>0, <2>1, <2>2
    <3> QED BY <3>1, DeskAssumption
  <2>4. row \in Row /\ row.there # "not yet"
    BY <2>1, <2>2, <2>3, RowsTyped DEF Row
  <2>5. asked' \in [Leads -> 0..MaxAsked]
    BY <1>0, <2>1, <2>3
  <2> HIDE DEF row, l
  <2> QED BY <1>0, <2>1, <2>2, <2>4, <2>5, Closing, WriteShaped
<1>6. ASSUME NEW a \in Agents, Refuse(a) \/ (task' = [task EXCEPT ![a] = None] /\ UNCHANGED <<lead, asked, credit, noted, trail, list>>)
      PROVE  Shaped'
  <2>1. task' = [task EXCEPT ![a] = None] /\ UNCHANGED <<lead, asked, credit, noted, trail, list>>
    BY <1>6 DEF Refuse
  <2>2. task' \in [Agents -> Task]
    BY <2>1, TasksTyped DEF Shaped, TypeOK
  <2>3. Loaded'
    BY <2>1 DEF Shaped, Loaded, TypeOK
  <2> QED BY <2>1, <2>2, <2>3 DEF Shaped, TypeOK, Reading, There
<1>7. ASSUME NEW a \in Agents, NEW value \in Amounts \cup {0}, task[a] # None, lead[task[a].lead].there = "yes",
             SyncLeadLoanAmount(a, task[a].lead, value), credit' \in [Leads -> Seq(Amounts)],
             UNCHANGED <<asked, trail>>
      PROVE  Shaped'
  <2> DEFINE l == task[a].lead
             row == [lead[l] EXCEPT !.amount = value]
  <2>1. Put(l, row) /\ Close(a, l, "copy written") /\ noted' = [noted EXCEPT ![l] = value]
    BY <1>7 DEF SyncLeadLoanAmount
  <2>2. l \in Leads /\ lead[l] \in Row
    BY <1>7, Saved
  <2>3. row \in Row /\ row.there # "not yet"
    BY <1>7, <2>2, RowsTyped DEF Row
  <2>4. noted' \in [Leads -> Amounts \cup {0}]
    BY <1>0, <2>1
  <2> HIDE DEF row, l
  <2> QED BY <1>0, <1>7, <2>1, <2>2, <2>3, <2>4, Closing, WriteShaped
<1>11. ASSUME NEW a \in Agents, NEW amount \in Amounts, AddLeadCreditInfo(a, amount) PROVE Shaped'
  <2>1. task[a] # None /\ lead[task[a].lead].there = "yes" /\ SyncLeadLoanAmount(a, task[a].lead, amount)
    BY <1>11 DEF AddLeadCreditInfo
  <2>2. credit' \in [Leads -> Seq(Amounts)]
    <3> DEFINE l == task[a].lead
               more == Append(credit[l], amount)
    <3>1. l \in Leads
      BY <2>1, Saved
    <3>2. credit[l] \in Seq(Amounts)
      BY <1>0, <3>1
    <3>3. more \in Seq(Amounts)
      BY <3>2
    <3>4. credit' = [credit EXCEPT ![l] = more] \/ credit' = credit
      BY <1>11 DEF AddLeadCreditInfo
    <3> HIDE DEF l, more
    <3> QED BY <1>0, <3>1, <3>3, <3>4
  <2> QED BY <1>7, <1>11, <2>1, <2>2 DEF AddLeadCreditInfo
<1>12. ASSUME NEW a \in Agents, NEW i \in 1..MaxCredits, DeleteCreditInfo(a, i) PROVE Shaped'
  <2> DEFINE l == task[a].lead
  <2>1. task[a] # None /\ l \in Leads /\ UNCHANGED <<asked, trail>>
    BY <1>12, Saved DEF DeleteCreditInfo
  <2>2. credit' \in [Leads -> Seq(Amounts)]
    <3>1. credit' = [credit EXCEPT ![l] = RemoveAt(credit[l], i)] /\ i \in DOMAIN credit[l] /\ credit[l] \in Seq(Amounts)
      BY <1>0, <1>12, <2>1 DEF DeleteCreditInfo
    <3>2. RemoveAt(credit[l], i) \in Seq(Amounts)
      BY <3>1, RowRemoved
    <3> QED BY <1>0, <2>1, <3>1, <3>2
  <2>3. CASE Writable(a)
    BY <1>7, <1>12, <2>1, <2>2, <2>3 DEF DeleteCreditInfo, Writable
  <2>4. CASE ~Writable(a)
    <3>1. task' = [task EXCEPT ![a] = None] /\ UNCHANGED <<lead, noted, list>>
      BY <1>12, <2>4 DEF DeleteCreditInfo
    <3>2. task' \in [Agents -> Task]
      BY <3>1, TasksTyped DEF Shaped, TypeOK
    <3>3. Loaded'
      BY <3>1 DEF Shaped, Loaded, TypeOK
    <3> QED BY <2>1, <2>2, <3>1, <3>2, <3>3 DEF Shaped, TypeOK, Reading, There
  <2> QED BY <2>3, <2>4
<1>8. ASSUME NEW l \in Leads, NEW to \in Assignees \cup {None}, CreateLead(l, to) PROVE Shaped'
  <2> DEFINE row == [lead[l] EXCEPT !.there = "yes", !.to = to]
  <2>1. Put(l, row) /\ UNCHANGED <<asked, credit, noted, trail, task>>
    BY <1>8 DEF CreateLead
  <2>2. row \in Row /\ row.there # "not yet"
    <3>1. lead[l] \in Row
      BY <1>0
    <3> QED BY <3>1, RowsTyped DEF Row
  <2>3. task' \in [Agents -> Task]
    BY <2>1 DEF Shaped, TypeOK
  <2> HIDE DEF row
  <2> QED BY <1>0, <2>1, <2>2, <2>3, WriteShaped
<1>9. ASSUME NEW l \in Leads, DeleteLead(l) PROVE Shaped'
  <2> DEFINE row == [Blank EXCEPT !.there = "deleted"]
  <2>1. /\ Put(l, row) /\ asked' = [asked EXCEPT ![l] = 0] /\ credit' = [credit EXCEPT ![l] = <<>>]
        /\ noted' = [noted EXCEPT ![l] = 0] /\ trail' = [trail EXCEPT ![l] = None]
    BY <1>9 DEF DeleteLead
  <2>2. row \in Row /\ row.there # "not yet"
    BY RowsTyped DEF Row
  <2>3. /\ asked' \in [Leads -> 0..MaxAsked] /\ credit' \in [Leads -> Seq(Amounts)]
        /\ noted' \in [Leads -> Amounts \cup {0}] /\ trail' \in [Leads -> Assignees \cup {None}]
    BY <1>0, <2>1, DeskAssumption
  <2> HIDE DEF row
  <2> QED BY <1>9, <2>1, <2>2, <2>3, Trashing, WriteShaped
<1>10. CASE UNCHANGED vars
  BY <1>10 DEF vars, Shaped, TypeOK, Loaded, Reading, There
<1> QED BY <1>1, <1>2, <1>3, <1>4, <1>5, <1>6, <1>8, <1>9, <1>10, <1>11, <1>12 DEF Next

(* For any number of leads, requests and pages: the tables are well typed, *)
(* and a list gives and owes only leads that have existed.                 *)
THEOREM DeskTyped == Spec => []TypeOK
<1>1. Shaped => TypeOK
  BY DEF Shaped
<1> QED BY <1>1, ShapedInit, ShapedStep, PTL DEF Spec

(***************************************************************************)
(* Pages miss nothing.                                                     *)
(***************************************************************************)
(* While a list is being read, what is owed is in it; and while it is calm *)
(* a lead owed and not given yet has ahead of it as many as were read.     *)
Behind == \A l \in list.owed \ list.got : Cardinality(Ahead(lead, list.view, l)) >= list.start

Listing ==
    list.open /\ list.more =>
        /\ list.owed \subseteq Filtered(lead, list.view)
        /\ list.calm => Behind

(* The three kinds of step, for the list.                                  *)
LEMMA ListSteps ==
    ASSUME [Next]_vars
    PROVE  GetLeads \/ UNCHANGED <<lead, list>> \/ Disturb(lead')
<1>1. ASSUME NEW l, NEW row, Put(l, row) PROVE Disturb(lead')
  BY <1>1 DEF Put
<1>2. ASSUME NEW a \in Agents, Refuse(a) \/ \E kind \in Kinds, l \in Leads : Open(a, kind, l)
      PROVE  UNCHANGED <<lead, list>>
  BY <1>2 DEF Open, Refuse
<1>3. ASSUME NEW a \in Agents, NEW to \in Assignees, AssignLead(a, to) PROVE Disturb(lead')
  BY <1>1, <1>3 DEF AssignLead
<1>4. ASSUME NEW a \in Agents, UpdateBasicProfile(a) \/ RequestOtp(a) PROVE Disturb(lead')
  BY <1>1, <1>4 DEF UpdateBasicProfile, RequestOtp
<1>5. ASSUME NEW a \in Agents, NEW amount \in Amounts, AddLeadCreditInfo(a, amount)
      PROVE  Disturb(lead')
  BY <1>1, <1>5 DEF AddLeadCreditInfo, SyncLeadLoanAmount
<1>8. ASSUME NEW a \in Agents, NEW i \in 1..MaxCredits, DeleteCreditInfo(a, i)
      PROVE  UNCHANGED <<lead, list>> \/ Disturb(lead')
  BY <1>1, <1>8 DEF DeleteCreditInfo, SyncLeadLoanAmount
<1>6. ASSUME NEW l \in Leads, DeleteLead(l) \/ \E to \in Assignees \cup {None} : CreateLead(l, to)
      PROVE  Disturb(lead')
  BY <1>1, <1>6 DEF CreateLead, DeleteLead
<1>7. CASE UNCHANGED vars
  BY <1>7 DEF vars
<1> QED BY <1>2, <1>3, <1>4, <1>5, <1>6, <1>7, <1>8 DEF Next

(* A write that leaves the list calm puts no lead behind another and takes *)
(* none away.                                                              *)
LEMMA StaysAhead ==
    ASSUME NEW old \in [Leads -> Row], NEW new \in [Leads -> Row], NEW view, NEW l \in Filtered(old, view),
           Filtered(old, view) \subseteq Filtered(new, view),
           \A m \in Filtered(old, view) : SortKey(new, view, m) = SortKey(old, view, m)
    PROVE  Cardinality(Ahead(old, view, l)) <= Cardinality(Ahead(new, view, l))
<1>1. Ahead(old, view, l) \subseteq Ahead(new, view, l)
  BY DEF Ahead, Before
<1>2. IsFiniteSet(Ahead(new, view, l))
  <2>1. Ahead(new, view, l) \in SUBSET Filtered(new, view)
    BY DEF Ahead
  <2> QED BY <2>1, FilteredLeads, FS_Subset
<1> QED BY <1>1, <1>2, FS_Subset

LEMMA AheadCounted ==
    ASSUME NEW rows \in [Leads -> Row], NEW view, NEW l
    PROVE  Cardinality(Ahead(rows, view, l)) \in Nat
<1>1. Ahead(rows, view, l) \in SUBSET Filtered(rows, view)
  BY DEF Ahead
<1> QED BY <1>1, FilteredLeads, FS_Subset, FS_CardinalityType

LEMMA ListingStep == Shaped /\ Listing /\ PagesComplete /\ [Next]_vars => (Listing /\ PagesComplete)'
<1> SUFFICES ASSUME Shaped, Listing, PagesComplete, [Next]_vars PROVE (Listing /\ PagesComplete)'
  OBVIOUS
<1>0. lead \in [Leads -> Row] /\ lead' \in [Leads -> Row] /\ Reading
  BY ShapedStep DEF Shaped, TypeOK
<1>1. CASE GetLeads
  <2>1. lead' = lead
    BY <1>1 DEF GetLeads
  <2>2. ASSUME NEW view \in Views, NEW start \in Nat, NEW got \in SUBSET Leads, NEW owed \in SUBSET Leads,
               NEW calm, calm \in BOOLEAN, ReadPage(view, start, got, owed, calm),
               owed \subseteq Filtered(lead, view),
               calm => \A l \in owed \ got : Cardinality(Ahead(lead, view, l)) >= start
        PROVE  (Listing /\ PagesComplete)'
    <3>1. PageLeft(view, start, got, owed, calm)
      BY <1>0, <2>2, PageRead
    <3>2. /\ list'.view = view /\ list'.owed = owed /\ list'.calm = calm /\ list'.start = start + PageLength
          /\ \A m \in got : m \in list'.got
      BY <3>1 DEF PageLeft
    <3>3. ASSUME calm, NEW l \in owed, l \notin list'.got
          PROVE  list'.more /\ Cardinality(Ahead(lead, view, l)) >= start + PageLength
      <4>1. l \in Filtered(lead, view) /\ l \notin got
        BY <2>2, <3>2, <3>3
      <4>2. Cardinality(Ahead(lead, view, l)) >= start
        BY <2>2, <3>3, <4>1
      <4> QED BY <3>1, <3>3, <4>1, <4>2 DEF PageLeft
    <3>4. Listing'
      <4>1. list'.owed \subseteq Filtered(lead', list'.view)
        BY <2>1, <2>2, <3>2
      <4>2. ASSUME list'.calm PROVE Behind'
        BY <2>1, <3>2, <3>3, <4>2 DEF Behind
      <4> QED BY <4>1, <4>2 DEF Listing
    <3>5. PagesComplete'
      BY <3>2, <3>3 DEF PagesComplete
    <3> QED BY <3>4, <3>5
  <2>3. ASSUME NEW view \in Views, ReadPage(view, 0, {}, Filtered(lead, view), TRUE)
        PROVE  (Listing /\ PagesComplete)'
    <3>1. Filtered(lead, view) \in SUBSET Leads /\ {} \in SUBSET Leads /\ 0 \in Nat /\ TRUE \in BOOLEAN
      BY <1>0, FilteredLeads
    <3>2. \A l : Cardinality(Ahead(lead, view, l)) >= 0
      BY <1>0, AheadCounted
    <3> QED BY <2>2, <2>3, <3>1, <3>2
  <2>4. ASSUME list.open, list.more, ReadPage(list.view, list.start, list.got, list.owed, list.calm)
        PROVE  (Listing /\ PagesComplete)'
    <3>1. list \in Paging
      BY <1>0, <2>4, OpenList
    <3>2. /\ list.view \in Views /\ list.start \in Nat /\ list.got \in SUBSET Leads
          /\ list.owed \in SUBSET Leads /\ list.calm \in BOOLEAN
      BY <3>1 DEF Paging
    <3>3. list.owed \subseteq Filtered(lead, list.view) /\ (list.calm => Behind)
      <4>1. list.open /\ list.more /\ Listing
        BY <2>4
      <4> QED BY <4>1, Zenon DEF Listing
    <3>4. list.calm => \A l \in list.owed \ list.got : Cardinality(Ahead(lead, list.view, l)) >= list.start
      BY <3>3 DEF Behind
    <3> QED BY <2>2, <2>4, <3>2, <3>3, <3>4
  <2> QED BY <1>1, <2>3, <2>4 DEF GetLeads
<1>2. CASE UNCHANGED <<lead, list>>
  BY <1>2 DEF Listing, Behind, PagesComplete
<1>3. CASE Disturb(lead')
  <2>1. CASE (~list.open \/ ~list.more) /\ list' = list
    BY <2>1 DEF Listing, PagesComplete
  <2>2. CASE /\ list \in Paging /\ list.more /\ list' \in Paging /\ list'.more
             /\ list'.view = list.view /\ list'.start = list.start /\ list'.got = list.got
             /\ list'.owed = list.owed \cap Filtered(lead', list.view)
             /\ list'.calm => /\ list.calm
                              /\ Filtered(lead, list.view) \subseteq Filtered(lead', list.view)
                              /\ \A m \in Filtered(lead, list.view) :
                                     SortKey(lead', list.view, m) = SortKey(lead, list.view, m)
    <3>1. list.open /\ list.start \in Nat
      BY <2>2 DEF Paging
    <3>2. list.owed \subseteq Filtered(lead, list.view) /\ (list.calm => Behind)
      <4>1. list.open /\ list.more /\ Listing
        BY <2>2, <3>1
      <4> QED BY <4>1, Zenon DEF Listing
    <3>3. ASSUME list'.calm, NEW l \in list.owed \ list.got
          PROVE  Cardinality(Ahead(lead', list.view, l)) >= list.start
      <4>1. Cardinality(Ahead(lead, list.view, l)) >= list.start
        BY <2>2, <3>2, <3>3 DEF Behind
      <4>2. /\ l \in Filtered(lead, list.view) /\ Filtered(lead, list.view) \subseteq Filtered(lead', list.view)
            /\ \A m \in Filtered(lead, list.view) : SortKey(lead', list.view, m) = SortKey(lead, list.view, m)
        BY <2>2, <3>2, <3>3
      <4>3. Cardinality(Ahead(lead, list.view, l)) <= Cardinality(Ahead(lead', list.view, l))
        BY <1>0, <4>2, StaysAhead
      <4>4. Cardinality(Ahead(lead, list.view, l)) \in Nat /\ Cardinality(Ahead(lead', list.view, l)) \in Nat
        BY <1>0, AheadCounted
      <4> QED BY <3>1, <4>1, <4>3, <4>4
    <3>4. list'.calm => Behind'
      BY <2>2, <3>3 DEF Behind
    <3>5. Listing'
      BY <2>2, <3>4 DEF Listing
    <3>6. PagesComplete'
      BY <2>2 DEF PagesComplete
    <3> QED BY <3>5, <3>6
  <2> QED BY <1>0, <1>3, <2>1, <2>2, Disturbing
<1> QED BY <1>1, <1>2, <1>3, ListSteps

(* For any list and any length of page: who follows it to its last page is *)
(* given every lead that was in it from the first page on, as long as none *)
(* left it or moved in it, whatever was created or assigned into it.       *)
THEOREM NoLeadSkipped == Spec => []PagesComplete
<1>1. Init => Listing /\ PagesComplete
  <2>1. Init => ~list.open
    BY DEF Init, Closed
  <2> QED BY <2>1 DEF Listing, PagesComplete
<1> QED BY <1>1, ShapedInit, ShapedStep, ListingStep, PTL DEF Spec

(***************************************************************************)
(* Copies.                                                                 *)
(***************************************************************************)
(* A request that reads a lead as it is on record has the row it will save *)
(* from there, and a lead that was never created has nothing to its name.  *)
Fresh ==
    \A a \in Agents :
        task[a] # None /\ task[a].since = "as read" =>
            /\ lead[task[a].lead].there = "yes"
            /\ task[a].kind \in Saves => task[a].row = lead[task[a].lead]

Unborn ==
    \A l \in Leads :
        lead[l].there = "not yet" =>
            lead[l] = Blank /\ asked[l] = 0 /\ noted[l] = 0 /\ trail[l] = None

Agrees(l) ==
    /\ lead[l].consent = asked[l]
    /\ lead[l].amount = noted[l]
    /\ trail[l] # None => lead[l].to = trail[l]

(* Who is as read after a write of l was so before, about another lead.    *)
StillFresh(l) ==
    \A b \in Agents :
        task'[b] # None /\ task'[b].since = "as read" =>
            /\ task[b] # None /\ task[b].since = "as read" /\ task[b].lead \in Leads \ {l}
            /\ task'[b].kind = task[b].kind /\ task'[b].lead = task[b].lead /\ task'[b].row = task[b].row

Copies == Fresh /\ Unborn /\ CopiesAgree

LEMMA WriteAgrees ==
    ASSUME Shaped, Copies, NEW l \in Leads, NEW row \in Row, row.there # "not yet", Put(l, row), StillFresh(l),
           \A m \in Leads \ {l} : asked'[m] = asked[m] /\ noted'[m] = noted[m] /\ trail'[m] = trail[m],
           row.there = "yes" => /\ row.consent = asked'[l] /\ row.amount = noted'[l]
                                /\ trail'[l] # None => row.to = trail'[l]
    PROVE  Copies'
<1>1. lead' \in [Leads -> Row] /\ lead'[l] = row /\ \A m \in Leads \ {l} : lead'[m] = lead[m]
  BY Putting
<1>2. Fresh'
  <2> SUFFICES ASSUME NEW b \in Agents, task'[b] # None, task'[b].since = "as read"
               PROVE  /\ lead'[task'[b].lead].there = "yes"
                      /\ task'[b].kind \in Saves => task'[b].row = lead'[task'[b].lead]
    BY DEF Fresh
  <2>1. /\ task[b] # None /\ task[b].since = "as read" /\ task[b].lead \in Leads \ {l}
        /\ task'[b].kind = task[b].kind /\ task'[b].lead = task[b].lead /\ task'[b].row = task[b].row
    BY DEF StillFresh
  <2>2. /\ lead[task[b].lead].there = "yes"
        /\ task[b].kind \in Saves => task[b].row = lead[task[b].lead]
    BY <2>1 DEF Copies, Fresh
  <2> QED BY <1>1, <2>1, <2>2
<1>3. Unborn'
  <2> SUFFICES ASSUME NEW m \in Leads, lead'[m].there = "not yet"
               PROVE  lead'[m] = Blank /\ asked'[m] = 0 /\ noted'[m] = 0 /\ trail'[m] = None
    BY DEF Unborn
  <2>1. m # l
    BY <1>1
  <2> QED BY <1>1, <2>1 DEF Copies, Unborn
<1>4. CopiesAgree'
  <2> SUFFICES ASSUME NEW m \in Leads, lead'[m].there = "yes" PROVE Agrees(m)'
    BY <1>1 DEF CopiesAgree, There, Agrees
  <2>1. CASE m = l
    BY <1>1, <2>1 DEF Agrees
  <2>2. CASE m # l
    <3>1. m \in There(lead)
      BY <1>1, <2>2 DEF There, Shaped, TypeOK
    <3> QED BY <1>1, <2>2, <3>1 DEF Copies, CopiesAgree, Agrees
  <2> QED BY <2>1, <2>2
<1> QED BY <1>2, <1>3, <1>4 DEF Copies

LEMMA GoesFresh ==
    ASSUME NEW l \in Leads, \A b \in Agents : task'[b] # None => Goes(b, l)
    PROVE  StillFresh(l)
<1>1. \A t \in Request : t.lead \in Leads
  BY DEF Request
<1> QED BY <1>1 DEF StillFresh, Goes

LEMMA CopiesStep == ASSUME SnapshotConflicts, Shaped, Copies, [Next]_vars PROVE Copies'
<1>0. /\ asked \in [Leads -> 0..MaxAsked] /\ credit \in [Leads -> Seq(Amounts)]
      /\ noted \in [Leads -> Amounts \cup {0}]
      /\ trail \in [Leads -> Assignees \cup {None}] /\ lead \in [Leads -> Row]
  BY DEF Shaped, TypeOK
<1>1. ASSUME UNCHANGED <<lead, asked, noted, trail>>,
             \A b \in Agents : task'[b] # None /\ task'[b].since = "as read" =>
                 \/ task'[b] = task[b]
                 \/ /\ lead[task'[b].lead].there = "yes"
                    /\ task'[b].kind \in Saves => task'[b].row = lead[task'[b].lead]
      PROVE  Copies'
  <2>1. Fresh'
    BY <1>1 DEF Copies, Fresh
  <2> QED BY <1>1, <2>1 DEF Copies, Unborn, CopiesAgree, There
(* What a request that is as read knows.                                   *)
<1>2. ASSUME NEW a \in Agents, task[a] # None, task[a].since = "as read"
      PROVE  /\ task[a].lead \in Leads /\ lead[task[a].lead] \in Row /\ lead[task[a].lead].there = "yes"
             /\ task[a].kind \in Saves => task[a].row = lead[task[a].lead]
             /\ Agrees(task[a].lead)
  <2>1. task[a].lead \in Leads /\ lead[task[a].lead] \in Row
    BY <1>2, Saved
  <2>2. /\ lead[task[a].lead].there = "yes"
        /\ task[a].kind \in Saves => task[a].row = lead[task[a].lead]
    BY <1>2 DEF Copies, Fresh
  <2>3. task[a].lead \in There(lead)
    BY <1>0, <2>1, <2>2 DEF There
  <2> QED BY <2>1, <2>2, <2>3 DEF Copies, CopiesAgree, Agrees
<1>3. CASE GetLeads \/ UNCHANGED vars
  BY <1>1, <1>3 DEF GetLeads, vars
<1>4. ASSUME NEW a \in Agents, NEW kind \in Kinds, NEW l \in Leads, Open(a, kind, l) PROVE Copies'
  <2> DEFINE t == [kind |-> kind, lead |-> l, since |-> "as read",
                   row |-> IF kind \in {"assign", "profile"} THEN lead[l] ELSE Blank]
  <2>1. /\ lead[l].there = "yes" /\ task' = [task EXCEPT ![a] = t] /\ UNCHANGED <<lead, asked, credit, noted, trail>>
    BY <1>4 DEF Open, There
  <2>2. t.lead = l /\ (t.kind \in Saves => t.row = lead[l])
    BY DEF Saves
  <2> HIDE DEF t
  <2>3. \A b \in Agents : task'[b] = IF b = a THEN t ELSE task[b]
    BY <2>1 DEF Shaped, TypeOK
  <2> QED BY <1>1, <2>1, <2>2, <2>3
<1>5. ASSUME NEW a \in Agents, task' = [task EXCEPT ![a] = None], UNCHANGED <<lead, asked, noted, trail>>
      PROVE  Copies'
  <2>1. \A b \in Agents : task'[b] # None => task'[b] = task[b]
    BY <1>5 DEF Shaped, TypeOK
  <2> QED BY <1>1, <1>5, <2>1
<1>6. ASSUME NEW a \in Agents, NEW to \in Assignees, AssignLead(a, to) PROVE Copies'
  <2> DEFINE l == task[a].lead
             row == [lead[l] EXCEPT !.to = to]
  <2>1. /\ task[a] # None /\ task[a].kind \in Saves /\ task[a].since = "as read"
        /\ Put(l, [task[a].row EXCEPT !.to = to]) /\ Close(a, l, "saved")
        /\ trail' = [trail EXCEPT ![l] = to] /\ UNCHANGED <<asked, credit, noted>>
    BY <1>6 DEF AssignLead, Saves, Untouched
  <2>2. l \in Leads /\ lead[l] \in Row /\ lead[l].there = "yes" /\ task[a].row = lead[l] /\ Agrees(l)
    BY <1>2, <2>1
  <2>3. /\ row \in Row /\ row.there = "yes" /\ row.to = to
        /\ row.consent = lead[l].consent /\ row.amount = lead[l].amount
    BY <2>2, RowsTyped DEF Row
  <2>4. Put(l, row)
    BY <2>1, <2>2
  <2>5. /\ trail'[l] = to /\ \A m \in Leads \ {l} : trail'[m] = trail[m]
    BY <1>0, <2>1, <2>2
  <2>6. StillFresh(l)
    BY <2>1, <2>2, Closing, GoesFresh
  <2>7. row.consent = asked'[l] /\ row.amount = noted'[l] /\ (trail'[l] # None => row.to = trail'[l])
    BY <2>1, <2>2, <2>3, <2>5 DEF Agrees
  <2> HIDE DEF row, l
  <2> QED BY <2>1, <2>2, <2>3, <2>4, <2>5, <2>6, <2>7, WriteAgrees
<1>7. ASSUME NEW a \in Agents, UpdateBasicProfile(a) PROVE Copies'
  <2> DEFINE l == task[a].lead
  <2>1. /\ task[a] # None /\ task[a].kind \in Saves /\ task[a].since = "as read"
        /\ Put(l, task[a].row) /\ Close(a, l, "saved") /\ UNCHANGED <<asked, credit, noted, trail>>
    BY <1>7 DEF UpdateBasicProfile, Saves, Untouched
  <2>2. l \in Leads /\ lead[l] \in Row /\ lead[l].there = "yes" /\ task[a].row = lead[l] /\ Agrees(l)
    BY <1>2, <2>1
  <2>3. StillFresh(l)
    BY <2>1, <2>2, Closing, GoesFresh
  <2>4. Put(l, lead[l]) /\ lead[l].there # "not yet"
    BY <2>1, <2>2
  <2>5. lead[l].consent = asked'[l] /\ lead[l].amount = noted'[l] /\ (trail'[l] # None => lead[l].to = trail'[l])
    BY <2>1, <2>2 DEF Agrees
  <2> HIDE DEF l
  <2> QED BY <2>1, <2>2, <2>3, <2>4, <2>5, WriteAgrees
<1>8. ASSUME NEW a \in Agents, RequestOtp(a) PROVE Copies'
  <2> DEFINE l == task[a].lead
             row == [lead[l] EXCEPT !.consent = asked[l] + 1]
  <2>1. /\ task[a] # None /\ task[a].since = "as read" /\ Put(l, row) /\ Close(a, l, "copy written")
        /\ asked' = [asked EXCEPT ![l] = asked[l] + 1] /\ asked[l] < MaxAsked /\ UNCHANGED <<credit, noted, trail>>
    BY <1>8 DEF RequestOtp, Writable
  <2>2. l \in Leads /\ lead[l] \in Row /\ lead[l].there = "yes" /\ Agrees(l)
    BY <1>2, <2>1
  <2>3. /\ row.there = "yes" /\ row.to = lead[l].to
        /\ row.consent = asked[l] + 1 /\ row.amount = lead[l].amount
    BY <2>2 DEF Row
  <2>4. row \in Row
    <3>1. asked[l] \in 0..MaxAsked /\ asked[l] < MaxAsked
      BY <1>0, <2>1, <2>2
    <3>2. asked[l] + 1 \in 0..MaxAsked
      BY <3>1, DeskAssumption
    <3> QED BY <2>2, <3>2, RowsTyped
  <2>5. asked'[l] = asked[l] + 1 /\ \A m \in Leads \ {l} : asked'[m] = asked[m]
    BY <1>0, <2>1, <2>2
  <2>6. StillFresh(l)
    BY <2>1, <2>2, Closing, GoesFresh
  <2>7. row.consent = asked'[l] /\ row.amount = noted'[l] /\ (trail'[l] # None => row.to = trail'[l])
    BY <2>1, <2>2, <2>3, <2>5 DEF Agrees
  <2> HIDE DEF row, l
  <2> QED BY <2>1, <2>2, <2>3, <2>4, <2>5, <2>6, <2>7, WriteAgrees
(* The copy may be written by a request that is no longer as read.         *)
<1>9. ASSUME NEW a \in Agents, NEW value, task[a] # None, lead[task[a].lead].there = "yes", value \in Amounts \cup {0},
             SyncLeadLoanAmount(a, task[a].lead, value), UNCHANGED <<asked, trail>>
      PROVE  Copies'
  <2> DEFINE l == task[a].lead
             row == [lead[l] EXCEPT !.amount = value]
  <2>1. Put(l, row) /\ Close(a, l, "copy written") /\ noted' = [noted EXCEPT ![l] = value]
    BY <1>9 DEF SyncLeadLoanAmount
  <2>2. l \in Leads /\ lead[l] \in Row
    BY <1>9, Saved
  <2>3. Agrees(l)
    BY <1>0, <1>9, <2>2 DEF Copies, CopiesAgree, Agrees, There
  <2>4. /\ row \in Row /\ row.there = "yes" /\ row.to = lead[l].to
        /\ row.consent = lead[l].consent /\ row.amount = value
    BY <1>9, <2>2, RowsTyped DEF Row
  <2>5. noted'[l] = value /\ \A m \in Leads \ {l} : noted'[m] = noted[m]
    BY <1>0, <2>1, <2>2
  <2>6. StillFresh(l)
    BY <2>1, <2>2, Closing, GoesFresh
  <2>7. row.consent = asked'[l] /\ row.amount = noted'[l] /\ (trail'[l] # None => row.to = trail'[l])
    BY <1>9, <2>3, <2>4, <2>5 DEF Agrees
  <2>8. \A m \in Leads \ {l} : asked'[m] = asked[m] /\ trail'[m] = trail[m]
    BY <1>9
  <2> HIDE DEF row, l
  <2> QED BY <2>1, <2>2, <2>4, <2>5, <2>6, <2>7, <2>8, WriteAgrees
<1>13. ASSUME NEW a \in Agents, NEW amount \in Amounts, AddLeadCreditInfo(a, amount) PROVE Copies'
  BY <1>9, <1>13 DEF AddLeadCreditInfo
<1>14. ASSUME NEW a \in Agents, NEW i \in 1..MaxCredits, DeleteCreditInfo(a, i) PROVE Copies'
  <2>1. CASE Writable(a)
    BY <1>9, <1>14, <2>1 DEF DeleteCreditInfo, Writable
  <2>2. CASE ~Writable(a)
    BY <1>5, <1>14, <2>2 DEF DeleteCreditInfo
  <2> QED BY <2>1, <2>2
<1>10. ASSUME NEW l \in Leads, NEW to \in Assignees \cup {None}, CreateLead(l, to) PROVE Copies'
  <2> DEFINE row == [lead[l] EXCEPT !.there = "yes", !.to = to]
  <2>1. lead[l].there = "not yet" /\ Put(l, row) /\ UNCHANGED <<asked, credit, noted, trail, task>>
    BY <1>10 DEF CreateLead
  <2>2. lead[l] = Blank /\ asked[l] = 0 /\ noted[l] = 0 /\ trail[l] = None
    BY <2>1 DEF Copies, Unborn
  <2>3. row \in Row /\ row.there = "yes" /\ row.consent = 0 /\ row.amount = 0
    <3>1. Blank \in Row
      BY <1>0, <2>2
    <3>2. lead[l].consent = 0 /\ lead[l].amount = 0
      <4>1. Blank.consent = 0 /\ Blank.amount = 0
        BY DEF Blank
      <4> QED BY <2>2, <4>1
    <3>3. row \in Row
      BY <2>2, <3>1, RowsTyped
    <3>4. row.there = "yes" /\ row.consent = lead[l].consent /\ row.amount = lead[l].amount
      BY <1>0 DEF Row
    <3> QED BY <3>2, <3>3, <3>4
  <2>4. StillFresh(l)
    BY <1>2, <2>1 DEF StillFresh
  <2> HIDE DEF row
  <2> QED BY <2>1, <2>2, <2>3, <2>4, WriteAgrees
<1>11. ASSUME NEW l \in Leads, DeleteLead(l) PROVE Copies'
  <2> DEFINE row == [Blank EXCEPT !.there = "deleted"]
  <2>1. /\ Put(l, row) /\ asked' = [asked EXCEPT ![l] = 0] /\ credit' = [credit EXCEPT ![l] = <<>>]
        /\ noted' = [noted EXCEPT ![l] = 0] /\ trail' = [trail EXCEPT ![l] = None]
    BY <1>11 DEF DeleteLead
  <2>2. row \in Row /\ row.there = "deleted"
    BY RowsTyped DEF Blank
  <2>3. \A m \in Leads \ {l} : asked'[m] = asked[m] /\ noted'[m] = noted[m] /\ trail'[m] = trail[m]
    BY <1>0, <2>1
  <2>4. StillFresh(l)
    BY <1>11, Trashing, GoesFresh
  <2> HIDE DEF row
  <2> QED BY <2>1, <2>2, <2>3, <2>4, WriteAgrees
<1>12. ASSUME NEW a \in Agents, Refuse(a) PROVE Copies'
  BY <1>5, <1>12 DEF Refuse
<1> QED BY <1>3, <1>4, <1>6, <1>7, <1>8, <1>10, <1>11, <1>12, <1>13, <1>14 DEF Next

(* For any number of overlapping requests, where the database rolls back a *)
(* write of a row newer than the request's snapshot: a lead's consent,     *)
(* amount and assignee are those of the documents they are copied from.    *)
THEOREM CopiesFollow == ASSUME SnapshotConflicts PROVE Spec => []CopiesAgree
<1>1. Init => Copies
  <2> SUFFICES ASSUME Init PROVE Copies
    OBVIOUS
  <2>1. \A l \in Leads : /\ lead[l] = Blank /\ lead[l].there = "not yet"
                         /\ asked[l] = 0 /\ noted[l] = 0 /\ trail[l] = None
    BY DEF Init, Blank
  <2>2. There(lead) = {} /\ \A a \in Agents : task[a] = None
    BY <2>1 DEF Init, There
  <2> QED BY <2>1, <2>2 DEF Copies, Fresh, Unborn, CopiesAgree
<1>2. Copies => CopiesAgree
  BY DEF Copies
<1>3. Shaped /\ Copies /\ [Next]_vars => (Shaped /\ Copies)'
  BY ShapedStep, CopiesStep
<1> QED BY <1>1, <1>2, <1>3, ShapedInit, PTL DEF Spec
=============================================================================
