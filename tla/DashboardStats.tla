--------------------------- MODULE DashboardStats ---------------------------
(***************************************************************************)
(* The cached dashboard counters of a bank against the tables they count.  *)
(* A request writes a row, its hook moves the counters in Redis at once,   *)
(* and the transaction commits, or is lost, later.  A reader that finds    *)
(* the cache cold, and the hourly job, count from the committed tables and *)
(* then store what they counted.                                           *)
(*                                                                         *)
(* Each hook and each store is one step here, although a hook gets and sets*)
(* one counter after the other: of two hooks that overlap, either may lose *)
(* what it adds to any of them.                                            *)
(***************************************************************************)
EXTENDS StatsCounters

CONSTANTS Writers,     \* web workers
          Fillers,     \* "scheduler" and any number of readers
          Paths,       \* the kinds of request that are made
          Overlap,     \* requests and jobs run at once and may be lost
          MaxWrites,   \* bound on the requests of a behaviour
          Beginnings   \* the tables it may begin with

ASSUME StatsAssumption ==
    /\ Products \cap Apps = {} /\ IsFiniteSet(Products) /\ IsFiniteSet(Apps)
    /\ None \notin Farmers \cup Stages \cup ArchetypeStates /\ None \notin [key : Keys, row : Row]
    /\ StageArchetype \in [Stages -> ArchetypeStates]
    /\ "scheduler" \in Fillers
    /\ Paths \subseteq {"save", "workflow"}
    /\ Overlap \in BOOLEAN /\ MaxWrites \in Nat
    /\ Beginnings \subseteq [Keys -> Row]

VARIABLES table,   \* the committed rows
          txn,     \* what each worker has written and not committed
          cache,   \* the counters in Redis; None when a key is missing
          fill,    \* what a filler has counted and not stored
          writes

vars == <<table, txn, cache, fill, writes>>

Init ==
    /\ table \in Beginnings
    /\ txn = [w \in Writers |-> None]
    /\ cache = None
    /\ fill = [f \in Fillers |-> None]
    /\ writes = 0

Busy == \/ \E w \in Writers : txn[w] # None
        \/ \E f \in Fillers : fill[f] # None

(* What is left of a hook's move where another hook may be under way: every*)
(* order of the two is a behaviour, so that the later one loses is enough. *)
Surviving(w, move) ==
    LET moved  == {c \in Counters : move[c] # 0}
        others == \E v \in Writers \ {w} : txn[v] # None
    IN {[c \in Counters |-> IF c \in lost THEN 0 ELSE move[c]] :
            lost \in IF others THEN SUBSET moved ELSE {{}}}

(* A request writes row k and its hooks move the warm counters.            *)
Write(w, k, new, move) ==
    /\ writes < MaxWrites
    /\ writes' = writes + 1
    /\ txn[w] = None
    /\ \A v \in Writers : txn[v] # None => txn[v].key # k
    /\ ~Overlap => ~Busy
    /\ txn' = [txn EXCEPT ![w] = [key |-> k, row |-> new]]
    /\ \E m \in Surviving(w, move) : cache' = IF cache = None THEN None ELSE Apply(cache, m)
    /\ UNCHANGED <<table, fill>>

(***************************************************************************)
(* Products: every change is a save of the document.                       *)
(***************************************************************************)
ProductWrite(w, p, status) ==
    LET new == [Gone EXCEPT !.status = status] IN
    Write(w, p, new, OnProductChange(table[p], new))

CreateDraft(w, p) ==  \* mutant: a state of its own for an unfinished product
    /\ table[p] = Gone
    /\ ProductWrite(w, p, "Draft")

(* create_product: a Bank Admin's product is Active at once.               *)
CreateProduct(w, p) ==
    /\ table[p] = Gone
    /\ \E status \in {"Active", "Pending Approval"} : ProductWrite(w, p, status)

SetProductStatus(w, p, status) ==
    /\ table[p] # Gone /\ table[p].status # status
    /\ ProductWrite(w, p, status)

DeleteProduct(w, p) ==
    /\ table[p] # Gone
    /\ Write(w, p, Gone, OnProductChange(table[p], Gone))

(***************************************************************************)
(* Applications.                                                           *)
(***************************************************************************)
ApplicationWrite(w, a, new) ==
    Write(w, a, new, OnApplicationChange([table EXCEPT ![a] = new], a, table[a], new))

CreateApplication(w, a, farmer) ==
    /\ table[a] = Gone
    /\ ApplicationWrite(w, a, [status |-> "Active", stage |-> None, farmer |-> farmer])

(* A save that carries its own change, as an administrator's edit does; it *)
(* cannot submit the document.                                             *)
SaveApplication(w, a, status, stage) ==
    /\ "save" \in Paths
    /\ table[a] # Gone /\ DocStatus(table[a].status) = 0 /\ DocStatus(status) = 0
    /\ LET new == [table[a] EXCEPT !.status = status, !.stage = stage]
       IN new # table[a] /\ ApplicationWrite(w, a, new)

DeleteApplication(w, a) ==
    /\ table[a] # Gone /\ DocStatus(table[a].status) = 0
    /\ ApplicationWrite(w, a, Gone)

(* update_loan_status and submit_application.  The stage is written with   *)
(* db_set.  The workflow then saves a document that differs from its row   *)
(* in workflow_state only, so the hook finds nothing to move, and status   *)
(* follows with db_set, which fires no hook.  A refused transition leaves  *)
(* the written stage.  A move inside one archetype saves the unchanged     *)
(* document again, or, when the document is submitted, moves the stage     *)
(* counters by hand.                                                       *)
ArchetypeOf(input) == IF input \in ArchetypeStates THEN input ELSE StageArchetype[input]

UpdateLoanStatus(w, a, input) ==
    LET target == ArchetypeOf(input)
        staged == [table[a] EXCEPT !.stage = input]
        moves  == \E role \in Roles :
                      TransitionAllowed(LoanWorkflow, table[a].status, target, role)
    IN
    /\ "workflow" \in Paths /\ table[a] # Gone
    /\ \/ /\ table[a].status = target
          /\ Write(w, a, staged, IF DocStatus(target) = 0 THEN Still
                                 ELSE OnStageMoved(table[a], staged))
       \/ /\ table[a].status # target /\ moves
          /\ Write(w, a, [staged EXCEPT !.status = target], Still)
       \/ /\ table[a].status # target /\ ~moves
          /\ Write(w, a, staged, Still)

(***************************************************************************)
(* The end of a request, the fillers, the cache.                           *)
(***************************************************************************)
Commit(w) ==
    /\ txn[w] # None
    /\ table' = [table EXCEPT ![txn[w].key] = txn[w].row]
    /\ txn' = [txn EXCEPT ![w] = None]
    /\ UNCHANGED <<cache, fill, writes>>

(* A dead worker or an explicit rollback: the table forgets, Redis does not.*)
Lose(w) ==
    /\ Overlap
    /\ txn[w] # None
    /\ txn' = [txn EXCEPT ![w] = None]
    /\ UNCHANGED <<table, cache, fill, writes>>

CountWhenCold(f) ==  \* mutant: the hourly job is satisfied with a warm cache
    /\ fill[f] = None /\ cache = None
    /\ ~Overlap => ~Busy
    /\ fill' = [fill EXCEPT ![f] = Compute(table)]
    /\ UNCHANGED <<table, txn, cache, writes>>

(* compute_and_set, first half: the job always, a reader when the cache is *)
(* cold.                                                                   *)
Count(f) ==
    /\ fill[f] = None
    /\ ~Overlap => ~Busy
    /\ f = "scheduler" \/ cache = None
    /\ fill' = [fill EXCEPT ![f] = Compute(table)]
    /\ UNCHANGED <<table, txn, cache, writes>>

Store(f) ==
    /\ fill[f] # None
    /\ cache' = fill[f]
    /\ fill' = [fill EXCEPT ![f] = None]
    /\ UNCHANGED <<table, txn, writes>>

Evict ==
    /\ cache # None
    /\ cache' = None
    /\ UNCHANGED <<table, txn, fill, writes>>

Request(w) ==
    \/ \E p \in Products : CreateProduct(w, p) \/ DeleteProduct(w, p)
    \/ \E p \in Products, s \in ProductStates : SetProductStatus(w, p, s)
    \/ \E a \in Apps, f \in Farmers \cup {None} : CreateApplication(w, a, f)
    \/ \E a \in Apps, s \in ArchetypeStates, i \in Stages \cup {None} : SaveApplication(w, a, s, i)
    \/ \E a \in Apps, i \in Stages \cup ArchetypeStates : UpdateLoanStatus(w, a, i)
    \/ \E a \in Apps : DeleteApplication(w, a)

Next ==
    \/ \E w \in Writers : Request(w) \/ Commit(w) \/ Lose(w)
    \/ \E f \in Fillers : Count(f) \/ Store(f)
    \/ Evict

(* A worker ends its request; the scheduler's job recurs and ends, and so  *)
(* does a reader's.                                                        *)
Fairness ==
    /\ \A w \in Writers : WF_vars(Commit(w) \/ Lose(w))
    /\ \A f \in Fillers : WF_vars(Store(f))
    /\ WF_vars(Count("scheduler"))

Spec == Init /\ [][Next]_vars /\ Fairness

(***************************************************************************)
(* Properties.                                                             *)
(***************************************************************************)
(* Rows, pending writes and counters; no count is of less than nothing.    *)
TypeOK ==
    /\ table \in [Keys -> Row]
    /\ txn \in [Writers -> {None} \cup [key : Keys, row : Row]]
    /\ cache \in {None} \cup [Counters -> Int]
    /\ fill \in [Fillers -> {None} \cup [Counters -> Nat]]
    /\ writes \in 0..MaxWrites

Exact == cache = None \/ cache = Compute(table)

(* "The incremental hooks must agree with a cold recompute", however the   *)
(* tables came to be as they are: with nothing under way, warm counters    *)
(* are what counting gives.                                                *)
HooksAgree == ~Busy => Exact

(* The table as it will be once the requests under way commit.             *)
Ahead == [k \in Keys |-> IF \E w \in Writers : txn[w] # None /\ txn[w].key = k
                         THEN (CHOOSE t \in {txn[w] : w \in Writers} : t # None /\ t.key = k).row
                         ELSE table[k]]

RightAhead == cache = None \/ cache = Compute(Ahead)

(* Requests whose document is saved with its change in it, so that hooks   *)
(* see it; and a decided application, which can no longer be saved, moved  *)
(* to another stage of its outcome, for which the counters are moved by    *)
(* hand (on_stage_moved).                                                  *)
Saves(w) ==
    \/ \E p \in Products :
          \/ CreateProduct(w, p) \/ DeleteProduct(w, p)
          \/ \E s \in ProductStates : SetProductStatus(w, p, s)
    \/ \E a \in Apps :
          \/ DeleteApplication(w, a)
          \/ \E f \in Farmers \cup {None} : CreateApplication(w, a, f)
          \/ \E s \in ArchetypeStates, i \in Stages \cup {None} : SaveApplication(w, a, s, i)

DecidedMove ==
    /\ writes' # writes
    /\ \E a \in Apps : /\ Ahead[a].status \in TerminalArchetypes
                       /\ Ahead'[a].status = Ahead[a].status
                       /\ Ahead'[a].stage # Ahead[a].stage
                       /\ ArchetypeOf(Ahead'[a].stage) = Ahead[a].status

(* "The incremental hooks must agree with a cold recompute", request by    *)
(* request: one that finds the counters right leaves them right for when   *)
(* it commits, be it several changes in one save, the last or first        *)
(* application of a farmer, or a move after the decision.                  *)
SavesAgree ==
    [][RightAhead /\ ~Busy /\ (DecidedMove \/ \E w \in Writers : Saves(w))
       => RightAhead']_vars

(* Whatever requests raced, were lost or were overtaken by a reader's      *)
(* store, once they stop the hourly job leaves the dashboard right.        *)
CountersConverge == <>[]Exact
=============================================================================
