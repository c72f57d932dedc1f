--------------------------- MODULE DashboardRollup ---------------------------
(***************************************************************************)
(* The dashboard refresh (dashboard_rollup.refresh), run by the scheduler  *)
(* every 15 minutes and by other workers, while applications and consents  *)
(* move, workers die, the Redis lock expires and midnight passes.          *)
(*                                                                         *)
(* The database (external) gives a refresh one snapshot for all its reads; *)
(* its delete and its insert are one transaction, which waits for another  *)
(* that wrote the same rows and, with SnapshotConflicts, fails when one has*)
(* committed since the snapshot.                                           *)
(***************************************************************************)
EXTENDS DashboardCharts, Database

CONSTANTS Workers,
          InitFacts,                    \* what the tables hold at the start
          MaxMoves, MaxDays, MaxDeaths  \* bounds of the instance

ASSUME RollupAssumption == InitFacts \subseteq Facts

VARIABLES facts,   \* the tables
          moves,   \* changes of the tables so far: the time
          today,
          lock,    \* the worker that set the Redis lock
          pc,      \* where each worker's refresh stands
          view,    \* what it read, and for which day
          snap,    \* the snapshot table: for each day, the facts its rows were
                   \* folded from (the rows are Snapshot of them) and their time
          asOf,    \* a2c_dashboard_as_of
          deaths

rollupVars == <<facts, moves, today, lock, pc, view, snap, asOf, deaths>>
refreshVars == <<today, lock, pc, view, snap, asOf, deaths>>

Days   == 1..MaxDays
NoView == [facts |-> None, day |-> 1, time |-> 0, overtaken |-> FALSE]
NoRows == [facts |-> None, time |-> 0]

RollupInit ==
    /\ facts \in InitFacts /\ moves = 0 /\ today = 1 /\ lock = None
    /\ pc = [w \in Workers |-> "idle"] /\ view = [w \in Workers |-> NoView]
    /\ snap = [d \in Days |-> NoRows] /\ asOf = 0
    /\ deaths = 0

(***************************************************************************)
(* What happens to the tables meanwhile (LeadLoan, ConsentRequest).        *)
(***************************************************************************)
MoveApplication(a) ==
    LET app == facts.app[a]
        Becomes(new) == facts' = [facts EXCEPT !.app[a] = new] IN
    /\ \/ app.status = "Active" /\ Becomes([app EXCEPT !.status = "In Transition"])
       \/ app.status = "In Transition" /\ Becomes([app EXCEPT !.entry = ~app.entry])
       \/ app.status = "In Transition" /\ Becomes([app EXCEPT !.status = "Completed"])
       \/ /\ app.status \in {"In Transition", "Rejected"}
          /\ \E reason \in Reasons : Becomes([app EXCEPT !.status = "Rejected", !.reason = reason])

MoveConsent(c) ==
    LET consent == facts.consent[c] IN
    \E new \in Consent :
       /\ new # consent
       /\ \/ consent.status = "Pending OTP" /\ new.status \in {"Approved", "Rejected", "Failed"} /\ ~new.delivered
          \/ consent.status \in {"Approved", "Failed"} /\ new.status \in {"Approved", "Revoked"} /\ new.delivered
          \/ consent.status \in {"Approved", "Failed"} /\ new = [consent EXCEPT !.status = "Failed"]
       /\ facts' = [facts EXCEPT !.consent[c] = new]

Move ==
    /\ moves < MaxMoves /\ moves' = moves + 1
    /\ (\E a \in Apps : MoveApplication(a)) \/ (\E c \in Consents : MoveConsent(c))
    /\ UNCHANGED refreshVars

Midnight ==
    /\ today < MaxDays /\ today' = today + 1
    /\ UNCHANGED <<facts, moves, lock, pc, view, snap, asOf, deaths>>

(***************************************************************************)
(* refresh.                                                                *)
(***************************************************************************)
Goto(w, where) == pc' = [pc EXCEPT ![w] = where]

(* The lock is taken at once or not at all, and today is set down.         *)
Begin(w) ==
    /\ pc[w] = "idle" /\ lock = None
    /\ lock' = w
    /\ view' = [view EXCEPT ![w] = [NoView EXCEPT !.day = today]]
    /\ Goto(w, "begun")
    /\ UNCHANGED <<facts, moves, today, snap, asOf, deaths>>

Read(w) ==
    /\ pc[w] = "begun"
    /\ view' = [view EXCEPT ![w].facts = facts, ![w].time = moves, ![w].overtaken = FALSE]
    /\ Goto(w, "read")
    /\ UNCHANGED <<facts, moves, today, lock, snap, asOf, deaths>>

WriteInANewTransaction(w) ==  \* mutant: a commit between the reads and the delete
    /\ pc[w] = "read"
    /\ \A v \in Workers : pc[v] \notin {"wrote", "released"}
    /\ Goto(w, "wrote")
    /\ UNCHANGED <<facts, moves, today, lock, view, snap, asOf, deaths>>

(* The day's rows are deleted and inserted, as_of is set; nothing is       *)
(* committed yet.                                                          *)
WriteRows(w) ==
    /\ pc[w] = "read"
    /\ \A v \in Workers : pc[v] \notin {"wrote", "released"}
    /\ Goto(w, IF SnapshotConflicts /\ view[w].overtaken THEN "failed" ELSE "wrote")
    /\ UNCHANGED <<facts, moves, today, lock, view, snap, asOf, deaths>>

(* The lock is given up before the job's transaction commits; one that     *)
(* expired meanwhile is left alone.                                        *)
Release(w) ==
    /\ pc[w] \in {"wrote", "failed"}
    /\ lock' = IF lock = w THEN None ELSE lock
    /\ \/ pc[w] = "wrote" /\ Goto(w, "released") /\ UNCHANGED view
       \/ pc[w] = "failed" /\ Goto(w, "idle") /\ view' = [view EXCEPT ![w] = NoView]
    /\ UNCHANGED <<facts, moves, today, snap, asOf, deaths>>

(* Whoever read before is overtaken.                                       *)
CommitRows(w) ==
    LET v == view[w] IN
    /\ pc[w] = "released"
    /\ snap' = [snap EXCEPT ![v.day] = [facts |-> v.facts, time |-> v.time]]
    /\ asOf' = v.time
    /\ view' = [u \in Workers |-> IF u = w THEN NoView
                                  ELSE [view[u] EXCEPT !.overtaken = (pc[u] = "read")]]
    /\ Goto(w, "idle")
    /\ UNCHANGED <<facts, moves, today, lock, deaths>>

(* The worker dies: nothing it wrote stays but the lock.                   *)
Die(w) ==
    /\ pc[w] # "idle" /\ deaths < MaxDeaths
    /\ deaths' = deaths + 1
    /\ Goto(w, "idle") /\ view' = [view EXCEPT ![w] = NoView]
    /\ UNCHANGED <<facts, moves, today, lock, snap, asOf>>

NeverExpireLock == lock # None /\ UNCHANGED rollupVars  \* mutant: a lock without a timeout

ExpireLock ==
    /\ lock # None /\ lock' = None
    /\ UNCHANGED <<facts, moves, today, pc, view, snap, asOf, deaths>>

RollupNext ==
    \/ Move \/ Midnight \/ ExpireLock
    \/ \E w \in Workers : Begin(w) \/ Read(w) \/ WriteRows(w) \/ Release(w) \/ CommitRows(w) \/ Die(w)

(* The scheduler starts a refresh every 15 minutes, a worker that lives    *)
(* goes on, and a Redis lock with a timeout expires.                       *)
RollupFairness ==
    /\ WF_rollupVars(\E w \in Workers : Begin(w))
    /\ \A w \in Workers : WF_rollupVars(Read(w) \/ WriteRows(w) \/ Release(w) \/ CommitRows(w))
    /\ WF_rollupVars(ExpireLock)

RollupSpec == RollupInit /\ [][RollupNext]_rollupVars /\ RollupFairness

(***************************************************************************)
(* Properties.                                                             *)
(***************************************************************************)
(* The applications, farmers and consents of a selection, in the tables.   *)
SelectedApps(f, scope) ==
    {a \in Apps : /\ f.app[a].status # "Active"
                  /\ scope.provider \in {"", BankOf[a]} /\ InPlaces(Geo(a), scope)}

AppsWith(f, scope, status) == {a \in SelectedApps(f, scope) : f.app[a].status = status}

SelectedFarmers(f, scope) ==
    {p \in Profiles : /\ InPlaces(PlaceOf[p], scope)
                      /\ \/ scope.provider = ""
                         \/ \E a \in Apps : /\ ApplicantOf[a] = p /\ BankOf[a] = scope.provider
                                            /\ f.app[a].status # "Active"}

SelectedConsents(scope) ==
    {c \in Consents : /\ InPlaces(ConsentPlace(c), scope)
                      /\ \/ scope.provider = ""
                         \/ \E a \in Apps : ConsentOf[a] = c /\ BankOf[a] = scope.provider}

ConsentsIn(f, scope, statuses) == {c \in SelectedConsents(scope) : f.consent[c].status \in statuses}

(* What the bars of a chart add up to.                                     *)
SumOf(chart) == Total({[row |-> d, total |-> chart[d]] : d \in DOMAIN chart})

KpisExact(f, s, scope) ==
    LET kpis == Kpis(s, scope) IN
    /\ kpis.applications = Cardinality(SelectedApps(f, scope))
    /\ kpis.approved = Cardinality(AppsWith(f, scope, "Completed"))
    /\ kpis.declined = Cardinality(AppsWith(f, scope, "Rejected"))
    /\ kpis.pending + kpis.in_progress = Cardinality(AppsWith(f, scope, "In Transition"))
    /\ kpis.farmers = Cardinality(SelectedFarmers(f, scope))
    /\ kpis.consents = Cardinality(SelectedConsents(scope))
    /\ kpis.consented = Cardinality(ConsentsIn(f, scope, {"Approved"}))
    /\ kpis.shares = Cardinality(ConsentsIn(f, scope, {"Approved", "Failed"}))
    /\ kpis.failed = Cardinality(ConsentsIn(f, scope, {"Failed"}))

(* A share is drawn once for each field it carried.                        *)
SumsExact(f, s, scope) ==
    LET kpis == Kpis(s, scope) IN
    /\ \A chart \in {ApplicationStatus(s, scope), LoanProducts(s, scope), LoanTrend(s, scope)} :
          SumOf(chart) = Cardinality(SelectedApps(f, scope))
    /\ SumOf(ConsentStatus(s, scope)) = Cardinality(SelectedConsents(scope))
    /\ SumOf(DeclineReasons(s, scope)) = Cardinality(AppsWith(f, scope, "Rejected"))
    /\ SumOf(LoansByPlace(s, scope)) <= kpis.approved
    /\ SumOf(DataShares(s, scope)) >= kpis.shares /\ SumOf(DataShareFaults(s, scope)) >= kpis.failed

PlacesExact(f, s, scope) ==
    \A p \in Places : LocationFigures(s, scope, p).applications
                      = Cardinality({a \in SelectedApps(f, scope) : Geo(a) = p})

(* A failed share that no bank used is nobody's fault.                     *)
ProvidersExact(f, s, scope) ==
    scope.provider = "" =>
       /\ \A b \in Banks : ProviderFigures(s, scope, b).applications
                           = Cardinality({a \in SelectedApps(f, scope) : BankOf[a] = b})
       /\ SumOf([b \in Banks |-> ProviderFigures(s, scope, b).faults])
          = Cardinality({c \in ConsentsIn(f, scope, {"Failed"}) : BanksOf(c) # {}})

(* "Any filter combination stays exact": what the charts show of a day, for*)
(* every provider and every selection of places, is what counting in the   *)
(* tables the rows were folded from would have given, distinct counts of   *)
(* farmers, consents and shares included.                                  *)
AllExact(f) ==
    LET s == Snapshot(f) IN
    \A scope \in Scopes : /\ KpisExact(f, s, scope) /\ SumsExact(f, s, scope)
                          /\ PlacesExact(f, s, scope) /\ ProvidersExact(f, s, scope)

(* A chart reads the rows of the latest day that has any: what the         *)
(* dashboards show while no refresh is under way.                          *)
Latest == {d \in Days : snap[d] # NoRows /\ \A e \in Days : snap[e] # NoRows => e <= d}
Shown  == IF lock = None /\ \A w \in Workers : pc[w] = "idle" THEN {snap[d].facts : d \in Latest} ELSE {}

ChartsExact == \A f \in Shown : AllExact(f)

(* "Published only once enough applications share it": a reason that a     *)
(* chart spells out was given to MinReason declined applications of that   *)
(* very selection.                                                         *)
ReasonsShared ==
    \A f \in Shown :
       LET s == Snapshot(f) IN
       \A scope \in Scopes : \A reason \in DOMAIN DeclineReasons(s, scope) \ {"", "Other"} :
          MinReason <= Cardinality({a \in AppsWith(f, scope, "Rejected") : f.app[a].reason = reason})

(* Two refreshes that overlap, the lock of the first having expired, never *)
(* take the figures or as_of back to an earlier time.                      *)
NeverBack == [][asOf' >= asOf /\ \A d \in Days : snap'[d].time >= snap[d].time]_rollupVars

(* The dashboards catch up: when the tables and the day stand still, the   *)
(* rows they read come to be today's, folded from the tables as they are,  *)
(* workers that died with the lock notwithstanding.                        *)
CatchesUp == <>[](Latest = {today} /\ snap[today].facts = facts)
=============================================================================
