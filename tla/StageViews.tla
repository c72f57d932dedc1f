----------------------------- MODULE StageViews -----------------------------
(***************************************************************************)
(* What the dashboards of a bank show of its pipeline: the status filter   *)
(* reads the stages, the rows are named through the cached stage map, and  *)
(* the tiles of the summary count the labels the applications copied.      *)
(* Three sources, one name.                                                *)
(*                                                                         *)
(* The caller is scoped to the bank of StagePipeline; the filters a list   *)
(* takes beside the status are left out, and so is the order of the stages.*)
(***************************************************************************)
EXTENDS StagePipeline

(* get_visible_stages: each name once, whatever number of stages bears it. *)
VisibleLabels == {stage[s] : s \in Existing}

OneStageEach(labels) ==  \* mutant: a name stands for one stage
    {CHOOSE s \in Existing : stage[s] = label : label \in labels}

(* resolve_status_filter: every stage that bears one of the names.         *)
StatusFilter(labels) == {s \in Existing : stage[s] \in labels}

Listed(label) == {a \in Apps : app[a].stage \in StatusFilter({label})}

(* The caller's map: the cached one, else read on the spot.                *)
CurrentMap == IF map = None THEN StageMap ELSE map

(* Rows In Transition by name alone, or without a label, are named after   *)
(* the entry stage, which is any one of the pipeline or none.              *)
EntryLabels == {None} \cup VisibleLabels
Unnamed(label) == label \in {None, "In Transition"}

(* status_payload: the map's label, else the application's copy.           *)
StatusOf(a, labels, entry) ==
    LET s == app[a].stage IN
    IF s # None /\ labels[s] # None THEN labels[s]
    ELSE IF Unnamed(app[a].label) THEN IF entry = None THEN "Submitted" ELSE entry
    ELSE app[a].label

(* build_status_payloads: one map for all the rows of a bank.              *)
Payloads(rows, entry) ==
    LET labels == CurrentMap IN [a \in rows |-> StatusOf(a, labels, entry)]

CountedAs(a, entry) == IF Unnamed(app[a].label) THEN entry ELSE app[a].label

(* get_loan_summary: a tile per visible stage, zero where no row has it.   *)
Summary(entry) ==
    [label \in VisibleLabels |-> Cardinality({a \in Apps : CountedAs(a, entry) = label})]

(* Rows the tile of a label counts and the status filter cannot list.      *)
Strays(label, entry) == {a \in Apps : app[a].stage = None /\ CountedAs(a, entry) = label}

(* One name, one set of applications: once the pipeline is left alone,     *)
(* every application the list returns for a stage's name is shown under    *)
(* that name, and the stage's tile counts those applications and, beside   *)
(* them, only those without a stage: the ones the entry stage lends its    *)
(* name to, and the ones set to an archetype of the stage's name, such as  *)
(* Rejected.  So it stays when a half refused edit leaves two stages of    *)
(* one name; an application moved beside an edit of its stage may be       *)
(* counted under the name the stage had.                                   *)
ViewsAgree ==
    <>[](\A label \in VisibleLabels, entry \in EntryLabels :
             LET rows == Listed(label) IN
             /\ \A a \in rows : Payloads(rows, entry)[a] = label
             /\ raced = {} => Summary(entry)[label] = Cardinality(rows)
                                   + Cardinality(Strays(label, entry)))
=============================================================================
