--------------------------- MODULE DashboardCharts ---------------------------
(***************************************************************************)
(* The public dashboards' figures: the rows a refresh folds the tables     *)
(* into (dashboard_rollup.py), and the charts built from those rows alone  *)
(* (api/v1/dashboard.py).                                                  *)
(*                                                                         *)
(* A row is a record with a family and the dimensions of that family; one  *)
(* row stands for a group of equal dimensions, and total says how many.    *)
(* An amount is the number of applications it is summed over.              *)
(***************************************************************************)
EXTENDS Naturals, FiniteSets, FiniteSetsExt, Applications

CONSTANTS Consents, Profiles, Banks, Places, Reasons,
          BankOf, ApplicantOf, ConsentOf, ProductOf, MonthOf,  \* of an application
          OwnPlaceOf,     \* the place on the application, or ""
          PlaceOf,        \* a profile's place, or ""
          OwnerOf,        \* the profile whose consent_id a consent is, or None
          FieldsOf,       \* the registry fields a consent asks for
          First,          \* applications in the order they were created
          MinReason       \* _MIN_REASON_APPLICATIONS

ASSUME ChartsAssumption ==
    /\ IsFiniteSet(Apps) /\ IsFiniteSet(Consents) /\ IsFiniteSet(Profiles) /\ IsFiniteSet(Banks)
    /\ \A c \in Consents : IsFiniteSet(FieldsOf[c])
    /\ BankOf \in [Apps -> Banks] /\ ApplicantOf \in [Apps -> Profiles]
    /\ ConsentOf \in [Apps -> Consents \cup {None}]
    /\ OwnPlaceOf \in [Apps -> Places \cup {""}] /\ PlaceOf \in [Profiles -> Places \cup {""}]
    /\ OwnerOf \in [Consents -> Profiles \cup {None}]
    /\ First \in [Apps -> Nat] /\ MinReason \in Nat \ {0}
    /\ "" \notin Places \cup Banks

(* What the tables say of an application and of a consent.  entry: it is in*)
(* no stage or in its bank's entry stage; reason: the last one its bank    *)
(* gave with a rejection, or "".                                           *)
App     == [status : {"Active", "In Transition", "Completed", "Rejected", "Cancelled"},
            entry : BOOLEAN, reason : Reasons \cup {""}]
Consent == [status : {"Pending OTP", "Approved", "Rejected", "Revoked", "Failed"},
            delivered : BOOLEAN]
Facts   == [app : [Apps -> App], consent : [Consents -> Consent]]

(***************************************************************************)
(* The refresh.                                                            *)
(***************************************************************************)
Outcome(app) ==
    CASE app.status = "Completed" -> "APPROVED"
      [] app.status = "Rejected"  -> "DECLINED"
      [] app.status = "Cancelled" -> "CANCELLED"
      [] OTHER -> IF app.entry THEN "PENDING" ELSE "IN_PROGRESS"

ConsentOutcome(consent) ==
    CASE consent.status = "Approved" -> "APPROVED"
      [] consent.status \in {"Rejected", "Failed"} -> "DECLINED"
      [] OTHER -> "PENDING"

ShareOutcome(consent) ==
    IF consent.status = "Failed" THEN "FAILED" ELSE IF consent.delivered THEN "DELIVERED" ELSE "PENDING"

Geo(a) == IF OwnPlaceOf[a] # "" THEN OwnPlaceOf[a] ELSE PlaceOf[ApplicantOf[a]]

Submitted(f) == {a \in Apps : f.app[a].status # "Active"}

(* GROUP BY: one row for each distinct row of the members, with their count*)
Grouped(rowOf) ==
    { [row |-> rowOf[n], total |-> Cardinality({m \in DOMAIN rowOf : rowOf[m] = rowOf[n]})] :
        n \in DOMAIN rowOf }

ApplicationRows(f) ==
    Grouped([a \in Submitted(f) |->
                [bank |-> BankOf[a], place |-> Geo(a), outcome |-> Outcome(f.app[a]),
                 product |-> ProductOf[a], month |-> MonthOf[a]]])

FarmersPerApplication(f) ==  \* mutant: without distinct()
    LET members == ({""} \X Profiles \X {None}) \cup {<<BankOf[a], ApplicantOf[a], a>> : a \in Submitted(f)}
    IN Grouped([m \in members |-> [bank |-> m[1], place |-> PlaceOf[m[2]]]])

(* Every profile under the empty bank, and once under each bank it applied *)
(* to.                                                                     *)
FarmerRows(f) ==
    LET members == ({""} \X Profiles) \cup {<<BankOf[a], ApplicantOf[a]>> : a \in Submitted(f)}
    IN Grouped([m \in members |-> [bank |-> m[1], place |-> PlaceOf[m[2]]]])

(* _consent_facts: the banks whose applications use the consent, private   *)
(* ones included; the first is that of the oldest application.             *)
BanksOf(c)   == {BankOf[a] : a \in {b \in Apps : ConsentOf[b] = c}}
FirstBank(c) == IF BanksOf(c) = {} THEN ""
                ELSE BankOf[CHOOSE a \in Apps : /\ ConsentOf[a] = c
                                                /\ \A b \in Apps : ConsentOf[b] = c => First[a] <= First[b]]
ConsentPlace(c) == IF OwnerOf[c] = None THEN "" ELSE PlaceOf[OwnerOf[c]]

(* Under the empty bank, and under each bank that used it.                 *)
Uses(consents) == {use \in (Banks \cup {""}) \X consents : use[1] = "" \/ use[1] \in BanksOf(use[2])}

ConsentRows(f) ==
    Grouped([m \in Uses(Consents) |->
                [bank |-> m[1], place |-> ConsentPlace(m[2]), outcome |-> ConsentOutcome(f.consent[m[2]])]])

Shared(f) == {c \in Consents : f.consent[c].status \in {"Approved", "Failed"}}

ShareRows(f) ==
    Grouped([m \in Uses(Shared(f)) |->
                [bank |-> m[1], place |-> ConsentPlace(m[2]), first |-> FirstBank(m[2]),
                 outcome |-> ShareOutcome(f.consent[m[2]])]])

(* A row for each field the share carried, or for "Unspecified".           *)
DatasetRows(f) ==
    LET Fields(c) == IF FieldsOf[c] = {} THEN {"Unspecified"} ELSE FieldsOf[c]
        members == UNION {{<<m[1], m[2], d>> : d \in Fields(m[2])} : m \in Uses(Shared(f))}
    IN Grouped([m \in members |->
                   [bank |-> m[1], place |-> ConsentPlace(m[2]), first |-> FirstBank(m[2]),
                    outcome |-> ShareOutcome(f.consent[m[2]]), dataset |-> m[3]]])

DeclineRows(f) ==
    Grouped([a \in {b \in Apps : f.app[b].status = "Rejected"} |->
                [bank |-> BankOf[a], place |-> Geo(a), reason |-> f.app[a].reason]])

(***************************************************************************)
(* The charts, over the rows one refresh wrote.                            *)
(***************************************************************************)
Snapshot(f) == [application |-> ApplicationRows(f), farmer |-> FarmerRows(f), consent |-> ConsentRows(f),
                share |-> ShareRows(f), dataset |-> DatasetRows(f), decline |-> DeclineRows(f)]

DistinctFamilies == {"farmer", "consent", "share", "dataset"}

(* A selection: one provider or "" for all, some places or none for all.   *)
Scopes == [provider : Banks \cup {""}, places : SUBSET Places]

InPlaces(place, scope) == scope.places = {} \/ place \in scope.places

(* _rows                                                                   *)
Rows(snapshot, family, scope) ==
    {r \in snapshot[family] :
        /\ IF family \in DistinctFamilies THEN r.row.bank = scope.provider
           ELSE scope.provider # "" => r.row.bank = scope.provider
        /\ InPlaces(r.row.place, scope)}

Total(rows) == MapThenSumSet(LAMBDA r : r.total, rows)
OfOutcome(rows, outcome) == {r \in rows : r.row.outcome = outcome}

Kpis(s, scope) ==
    [ applications |-> Total(Rows(s, "application", scope)),
      approved     |-> Total(OfOutcome(Rows(s, "application", scope), "APPROVED")),
      pending      |-> Total(OfOutcome(Rows(s, "application", scope), "PENDING")),
      in_progress  |-> Total(OfOutcome(Rows(s, "application", scope), "IN_PROGRESS")),
      declined     |-> Total(OfOutcome(Rows(s, "application", scope), "DECLINED")),
      consents     |-> Total(Rows(s, "consent", scope)),
      consented    |-> Total(OfOutcome(Rows(s, "consent", scope), "APPROVED")),
      shares       |-> Total(Rows(s, "share", scope)),
      failed       |-> Total(OfOutcome(Rows(s, "share", scope), "FAILED")),
      farmers      |-> Total(Rows(s, "farmer", scope)) ]

PublishRow(s, scope, reason) ==  \* mutant: the threshold is held against the unfiltered count
    LET sharing == Total({r \in s.decline : r.row.reason = reason})
    IN IF reason = "" \/ sharing >= MinReason THEN reason ELSE "Other"

(* chart_decline_reasons: what each published reason counts.  A reason that*)
(* too few applications of the selection share is counted under "Other".   *)
Published(s, scope, reason) ==
    LET sharing == Total({r \in Rows(s, "decline", scope) : r.row.reason = reason})
    IN IF reason = "" \/ sharing >= MinReason THEN reason ELSE "Other"

DeclineReasons(s, scope) ==
    LET rows == Rows(s, "decline", scope)
        shown == {Published(s, scope, r.row.reason) : r \in rows}
    IN [ p \in shown |-> Total({r \in rows : Published(s, scope, r.row.reason) = p}) ]

(* chart_providers: a bank's figures, its faults being the failed shares of*)
(* which it was the first bank.                                            *)
ProviderFigures(s, scope, bank) ==
    LET own == [scope EXCEPT !.provider = bank] IN
    [ applications |-> Total(Rows(s, "application", own)),
      approved     |-> Total(OfOutcome(Rows(s, "application", own), "APPROVED")),
      consents     |-> Total(Rows(s, "consent", own)),
      faults       |-> Total({r \in OfOutcome(Rows(s, "share", scope), "FAILED") : r.row.first = bank}) ]

(* chart_location_summary, for one place.                                  *)
LocationFigures(s, scope, place) ==
    LET here(rows) == Total({r \in rows : r.row.place = place}) IN
    [ farmers      |-> here(Rows(s, "farmer", scope)),
      applications |-> here(Rows(s, "application", scope)),
      approved     |-> here(OfOutcome(Rows(s, "application", scope), "APPROVED")) ]

(* chart_application_status, chart_loan_products, chart_loan_trend: the    *)
(* applications by one dimension; By takes any number.                     *)
By(rows, dims) ==
    LET Group(r) == [d \in dims |-> r.row[d]]
    IN [ g \in {Group(r) : r \in rows} |-> Total({r \in rows : Group(r) = g}) ]

ApplicationStatus(s, scope) == By(Rows(s, "application", scope), {"outcome"})
LoanProducts(s, scope)      == By(Rows(s, "application", scope), {"product"})
LoanTrend(s, scope)         == By(Rows(s, "application", scope), {"month"})
ConsentStatus(s, scope)     == By(Rows(s, "consent", scope), {"outcome"})
DataShares(s, scope)        == By(Rows(s, "dataset", scope), {"dataset"})
DataShareFaults(s, scope)   == By(OfOutcome(Rows(s, "dataset", scope), "FAILED"), {"first", "dataset"})

(* _by_place: places with farmers and no loan are there too, with none.    *)
LoansByPlace(s, scope) ==
    LET approved == OfOutcome(Rows(s, "application", scope), "APPROVED")
        places   == {r.row.place : r \in Rows(s, "farmer", scope) \cup Rows(s, "application", scope)} \ {""}
    IN [ p \in places |-> Total({r \in approved : r.row.place = p}) ]

(* The dropdowns offer every choice, whatever is selected.                 *)
All == [provider |-> "", places |-> {}]
FilterProviders(s) == [ b \in Banks |-> Total(Rows(s, "application", [All EXCEPT !.provider = b])) ]
FilterLocations(s) == {r.row.place : r \in Rows(s, "farmer", All)} \ {""}
=============================================================================
