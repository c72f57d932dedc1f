--------------------------- MODULE StatsCounters ---------------------------
(***************************************************************************)
(* The dashboard counters of one bank (a2c_marketplace/stats_cache.py) and *)
(* the two ways they are obtained: counted from the tables, and moved by   *)
(* the document hooks.  No state here; DashboardStats runs them.           *)
(*                                                                         *)
(* A row of the tables is [status, stage, farmer]; a product has a status  *)
(* only, an application may lack a stage or a farmer profile (None).       *)
(***************************************************************************)
EXTENDS Integers, FiniteSets, Applications, Workflow

CONSTANTS Products, Farmers, Stages, StageArchetype

Keys   == Products \cup Apps
Gone   == [status |-> Absent, stage |-> None, farmer |-> None]
ProductStates == {"Active", "Pending Approval", "Rejected", "Archived"}

Row == {row \in [ status : ProductStates \cup ArchetypeStates \cup {Absent},
                  stage  : Stages \cup ArchetypeStates \cup {None},
                  farmer : Farmers \cup {None} ] : row.status = Absent => row = Gone}

(* _SCALAR_COUNTERS: three totals, one counter per product status, and the *)
(* pending applications; then the buckets of the map counter stage_counts. *)
TotalOf(of) == <<"total", of>>
PendingApplications == <<"pending", "applications">>

Scalars  == {TotalOf("products"), TotalOf("applications"), TotalOf("applicants"), PendingApplications}
            \cup ({"product"} \X ProductStates)
Buckets  == {"stage"} \X (Stages \cup ArchetypeStates)
Counters == Scalars \cup Buckets

(* `Active` is the farmer's own pre-submission state.                      *)
Counted(row)   == row.status \notin {"Active", Absent}
Pending(row)   == row.status = "In Transition"
StageName(row) == IF row.stage # None THEN row.stage ELSE row.status
Bucket(row)    == <<"stage", StageName(row)>>

(***************************************************************************)
(* _compute_from_db.                                                       *)
(***************************************************************************)
Compute(T) ==
    LET products == {p \in Products : T[p].status # Absent}
        counted  == {a \in Apps : Counted(T[a])}
    IN [c \in Counters |->
            CASE c = TotalOf("products")      -> Cardinality(products)
              [] c[1] = "product"           -> Cardinality({p \in products : T[p].status = c[2]})
              [] c = TotalOf("applications")  -> Cardinality(counted)
              [] c = PendingApplications    -> Cardinality({a \in counted : Pending(T[a])})
              [] c = TotalOf("applicants")    -> Cardinality({T[a].farmer : a \in counted} \ {None})
              [] c[1] = "stage"             -> Cardinality({a \in counted : Bucket(T[a]) = c})]

(***************************************************************************)
(* The hooks.  Each answers by how much every counter moves; T is the      *)
(* table as the request sees it, its own write included.                   *)
(***************************************************************************)
Moved(steps) ==   \* steps is a set of <<counter, 1>> and <<counter, -1>>
    LET One(step) == IF step \in steps THEN 1 ELSE 0
    IN [c \in Counters |-> One(<<c, 1>>) - One(<<c, -1>>)]

Still == [c \in Counters |-> 0]

OnProductChange(before, after) ==
    Moved({<<<<"product", before.status>>, -1>>, <<<<"product", after.status>>, 1>>}
          \cup IF before.status = Absent THEN {<<TotalOf("products"), 1>>}
               ELSE IF after.status = Absent THEN {<<TotalOf("products"), -1>>} ELSE {})

(* _apply_applicant_delta: the farmer's other counted applications already *)
(* represent the farmer.                                                   *)
Represented(T, a, farmer) ==
    \E b \in Apps \ {a} : T[b].farmer = farmer /\ Counted(T[b])

Applicant(T, a, row, amount) ==
    IF row.farmer = None \/ Represented(T, a, row.farmer)
    THEN {} ELSE {<<TotalOf("applicants"), amount>>}

TotalsOnly(T, a, before, after) ==  \* mutant: only the totals follow a submission
    IF Counted(before) = Counted(after) THEN {}
    ELSE LET n == IF Counted(after) THEN 1 ELSE -1
         IN {<<TotalOf("applications"), n>>}

Countability(T, a, before, after) ==
    IF Counted(before) = Counted(after) THEN {}
    ELSE LET n == IF Counted(after) THEN 1 ELSE -1
         IN {<<TotalOf("applications"), n>>} \cup Applicant(T, a, after, n)

PendingFlip(before, after) ==
    IF Pending(before) = Pending(after) THEN {}
    ELSE {<<PendingApplications, IF Pending(after) THEN 1 ELSE -1>>}

StageMove(before, after) ==
    IF Counted(before) = Counted(after) /\ StageName(before) = StageName(after) THEN {}
    ELSE (IF Counted(before) THEN {<<Bucket(before), -1>>} ELSE {})
         \cup (IF Counted(after) THEN {<<Bucket(after), 1>>} ELSE {})

(* on_application_change, for an insert (before is Gone), an update and a  *)
(* deletion (after is Gone; the applicant is the deleted row's).           *)
OnApplicationChange(T, a, before, after) ==
    Moved(IF after = Gone
          THEN IF Counted(before)
               THEN {<<TotalOf("applications"), -1>>, <<Bucket(before), -1>>}
                    \cup Applicant(T, a, before, -1) \cup PendingFlip(before, after)
               ELSE {}
          ELSE Countability(T, a, before, after) \cup PendingFlip(before, after)
               \cup StageMove(before, after))

(* on_stage_moved, for a stage written to a submitted document.            *)
OnStageMoved(before, after) ==
    IF StageName(before) = StageName(after) THEN Still
    ELSE Moved({<<Bucket(before), -1>>, <<Bucket(after), 1>>})

(* _incr and _incr_stage: a bucket that would not be positive is dropped.  *)
Apply(cached, move) ==
    [c \in Counters |->
        IF c \in Buckets /\ cached[c] + move[c] < 0 THEN 0 ELSE cached[c] + move[c]]
=============================================================================
