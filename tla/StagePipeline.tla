--------------------------- MODULE StagePipeline ---------------------------
(***************************************************************************)
(* A bank edits its pipeline of loan stages while applications move        *)
(* through it.  An application keeps a copy of its stage's label; what a   *)
(* farmer is shown comes from a cached map of the pipeline, dropped by     *)
(* every save inside the saving transaction and kept an hour at most.      *)
(*                                                                         *)
(* A stage is its label here: archetype, sequence and external code decide *)
(* nothing below.  One edit of the pipeline is under way at a time.  Apps  *)
(* are the applications of the bank that left Active.                      *)
(***************************************************************************)
EXTENDS Naturals, FiniteSets, Applications, Database, Workflow

CONSTANTS StageIds,           \* ids the bank's stages have or may get
          Labels,
          Bare,               \* archetypes a loan's status is set to by name
          Movers, Readers,    \* web workers, as they move or show applications
          CommitOnRefusal,    \* as in LeadLoan
          MaxEdits            \* bound on the edits of a behaviour

ASSUME PipelineAssumption ==
    /\ {None, "unused", "deleted"} \cap (Labels \cup StageIds) = {}
    /\ CommitOnRefusal \in BOOLEAN /\ MaxEdits \in Nat

(* A bank may name a stage like an archetype, as the seeded "Rejected" is, *)
(* but not like the two that the views take for something else.            *)
ASSUME BareAssumption ==
    /\ Bare \subseteq ArchetypeStates
    /\ Bare \cap (StageIds \cup {None, "unused", "deleted"}) = {}
    /\ Labels \cap {"Active", "In Transition"} = {}

VARIABLES stage,  \* the label of each stage, or why there is none
          app,    \* where each application is: stage_id and stage_label
          edit,   \* the edit that has written and not committed
          move,   \* what each worker has resolved and not written
          map,    \* the cached stage map, None when there is none
          found,  \* the map a reader has read and not cached
          raced,  \* applications last moved beside an edit of their new stage
          edits

pipelineVars == <<stage, app, edit, move, map, found, raced, edits>>

(* Ids carry a hash and are never given out again.                         *)
Stage == Labels \cup {"unused", "deleted"}
Place == [stage : StageIds \cup {None}, label : Labels \cup Bare \cup {None}]

Existing == {s \in StageIds : stage[s] \in Labels}
Distinct(f) == \A s, t \in DOMAIN f : s # t => f[s] # f[t]

(* A bank's pipeline as it was seeded; the applications are older than it, *)
(* In Transition and on none of its stages.                                *)
PipelineInit ==
    /\ \E D \in SUBSET StageIds : \E seed \in [D -> Labels] :
           /\ Distinct(seed)
           /\ stage = [s \in StageIds |-> IF s \in D THEN seed[s] ELSE "unused"]
    /\ app = [a \in Apps |-> [stage |-> None, label |-> None]]
    /\ edit = None
    /\ move = [w \in Movers |-> None]
    /\ map = None
    /\ found = [r \in Readers |-> None]
    /\ raced = {}
    /\ edits = 0

(***************************************************************************)
(* Edits.  on_update and on_trash drop the cached map as they run.         *)
(***************************************************************************)
Edit(after, relabelled) ==
    /\ edit = None /\ edits < MaxEdits
    /\ edit' = [stage |-> after, relabelled |-> relabelled]
    /\ edits' = edits + 1
    /\ map' = None
    /\ UNCHANGED <<stage, app, move, found, raced>>

AddStage(s, label) ==
    /\ stage[s] = "unused"
    /\ \A t \in Existing : stage[t] # label
    /\ Edit([stage EXCEPT ![s] = label], {})

On(s) == {a \in Apps : app[a].stage = s}

RelabelNobody(want) == {}  \* mutant: applications keep the label they copied

(* Applications on a stage the payload renames.                            *)
Relabelled(want) ==
    UNION {On(s) : s \in {t \in DOMAIN want \cap Existing : want[t] # stage[t]}}

(* sync_stages: want gives stages that exist their label and new ones      *)
(* theirs; the others are deleted in an order of the database's choosing   *)
(* until on_trash finds applications on one and refuses.  The refusal is   *)
(* swallowed and what came before it is committed.                         *)
SyncStages(want) ==
    LET omitted == Existing \ DOMAIN want
        used    == {s \in omitted : On(s) # {}}
    IN
    /\ \A s \in DOMAIN want : stage[s] # "deleted"
    /\ used # {} => CommitOnRefusal
    /\ \E gone \in SUBSET (omitted \ used) :
           /\ used = {} => gone = omitted
           /\ Edit([s \in StageIds |-> IF s \in DOMAIN want THEN want[s]
                                       ELSE IF s \in gone THEN "deleted" ELSE stage[s]],
                   Relabelled(want))

CommitEdit ==
    /\ edit # None
    /\ stage' = edit.stage
    /\ app' = [a \in Apps |-> IF a \in edit.relabelled
                              THEN [app[a] EXCEPT !.label = edit.stage[app[a].stage]]
                              ELSE app[a]]
    /\ raced' = raced \ edit.relabelled
    /\ edit' = None
    /\ UNCHANGED <<move, map, found, edits>>

LoseEdit ==
    /\ edit # None
    /\ edit' = None
    /\ UNCHANGED <<stage, app, move, map, found, raced, edits>>

(***************************************************************************)
(* Moves: submit_application and update_loan_status look the stage up,     *)
(* then write its id and label to the application.  The name of an         *)
(* archetype is looked for first, whatever stage bears it: it becomes the  *)
(* label of a row without a stage.  An application submitted to a pipeline *)
(* without an entry stage stays as it is.                                  *)
(***************************************************************************)
Resolved(s) == IF s \in Bare THEN [stage |-> None, label |-> s]
                             ELSE [stage |-> s, label |-> stage[s]]

Resolve(w, a, s) ==
    /\ move[w] = None
    /\ s \in Existing \cup Bare
    /\ move' = [move EXCEPT ![w] = [app |-> a, to |-> Resolved(s), was |-> app[a]]]
    /\ UNCHANGED <<stage, app, edit, map, found, raced, edits>>

(* The label of m's stage, or the one an edit under way gives it, differs  *)
(* from the one looked up.                                                 *)
Races(m) ==
    /\ m.to.stage # None
    /\ \/ stage[m.to.stage] # m.to.label
       \/ edit # None /\ edit.stage[m.to.stage] # m.to.label

(* The write waits for an edit that relabels the application, and fails on *)
(* a row newer than the worker's snapshot.                                 *)
WriteMove(w) ==
    LET m == move[w] IN
    /\ m # None
    /\ edit # None => m.app \notin edit.relabelled
    /\ move' = [move EXCEPT ![w] = None]
    /\ \/ /\ SnapshotConflicts => app[m.app] = m.was
          /\ app' = [app EXCEPT ![m.app] = m.to]
          /\ raced' = IF Races(m) THEN raced \cup {m.app} ELSE raced \ {m.app}
       \/ /\ SnapshotConflicts /\ app[m.app] # m.was
          /\ UNCHANGED <<app, raced>>
    /\ UNCHANGED <<stage, edit, map, found, edits>>

(***************************************************************************)
(* get_stage_map by readers that find no cached map: read, then cache.     *)
(***************************************************************************)
MapOfEverything == [s \in StageIds |-> stage[s]]  \* mutant: deleted stages are kept

StageMap == [s \in StageIds |-> IF s \in Existing THEN stage[s] ELSE None]

ReadMap(r) ==
    /\ map = None /\ found[r] = None
    /\ found' = [found EXCEPT ![r] = StageMap]
    /\ UNCHANGED <<stage, app, edit, move, map, raced, edits>>

CacheMap(r) ==
    /\ found[r] # None
    /\ map' = found[r]
    /\ found' = [found EXCEPT ![r] = None]
    /\ UNCHANGED <<stage, app, edit, move, raced, edits>>

(* _STAGE_MAP_CACHE_TTL, or an eviction.                                   *)
Expire ==
    /\ map # None
    /\ map' = None
    /\ UNCHANGED <<stage, app, edit, move, found, raced, edits>>

PipelineNext ==
    \/ \E s \in StageIds, label \in Labels : AddStage(s, label)
    \/ \E D \in SUBSET StageIds : \E want \in [D -> Labels] :
           D # {} /\ Distinct(want) /\ SyncStages(want)
    \/ CommitEdit \/ LoseEdit
    \/ \E w \in Movers, a \in Apps, s \in StageIds \cup Bare : Resolve(w, a, s)
    \/ \E w \in Movers : WriteMove(w)
    \/ \E r \in Readers : ReadMap(r) \/ CacheMap(r)
    \/ Expire

(* Requests end, and a cached map expires.                                 *)
PipelineFairness ==
    /\ WF_pipelineVars(CommitEdit \/ LoseEdit)
    /\ \A r \in Readers : WF_pipelineVars(CacheMap(r))
    /\ WF_pipelineVars(Expire)

PipelineSpec == PipelineInit /\ [][PipelineNext]_pipelineVars /\ PipelineFairness

(***************************************************************************)
(* Properties.                                                             *)
(***************************************************************************)
(* Tables, requests under way and the cached map, which names no stage     *)
(* that has been deleted.                                                  *)
PipelineTypeOK ==
    /\ stage \in [StageIds -> Stage]
    /\ app \in [Apps -> Place]
    /\ edit = None \/ edit \in [stage : [StageIds -> Stage], relabelled : SUBSET Apps]
    /\ move \in [Movers -> {None} \cup [app : Apps, to : Place, was : Place]]
    /\ map \in {None} \cup [StageIds -> Labels \cup {None}]
    /\ found \in [Readers -> {None} \cup [StageIds -> Labels \cup {None}]]
    /\ raced \subseteq Apps /\ edits \in 0..MaxEdits

(* "Keep denormalized stage_label on existing loans in sync": whatever is  *)
(* added, renamed, swapped, deleted or half refused, an application is on  *)
(* a stage that exists and carries its label, unless the request that put  *)
(* it there ran beside an edit of that very stage.                         *)
OnlyRacesDrift ==
    \A a \in Apps \ raced :
        app[a].stage # None => stage[app[a].stage] = app[a].label
=============================================================================
