# Verification of the OpenAgriNet Access-to-Credit marketplace

TLA+ models of `oan_a2c`, a Frappe app in which farmers ask banks for credit,
the TLC runs that check them, and proofs of the central invariants with TLAPS.
Everything is translated from the Python and JSON under `src/oan_a2c`; the
database, the Frappe framework and Redis are modelled from how that code uses
them, and the definitions that do so are marked external in `PROJECT.json`.

1. [The system](#1-the-system)
2. [Modules](#2-modules)
3. [What the environment is assumed to do](#3-what-the-environment-is-assumed-to-do)
4. [Runs](#4-runs)
5. [Fairness](#5-fairness)
6. [Proofs](#6-proofs)
7. [Where code and documentation disagree](#7-where-code-and-documentation-disagree)
8. [Observations](#8-observations)
9. [What is not modelled](#9-what-is-not-modelled)
10. [Plan](#10-plan)

## 1. The system

A telco gateway or a Development Agent opens a **lead** for a farmer. The agent
collects credit information and a field visit, which *verifies* the lead, and
asks the farmer's **consent** to fetch their registry data: an OTP goes to the
farmer, is verified, and the registry then delivers data that a queue job turns
into a **farmer profile**. The agent, or the farmer alone, raises a **loan
application** for a bank's product; submission makes it visible to the bank,
which moves it through its own **stages** to a decision. The decision moves the
lead. Banks onboard themselves, invite their people and publish products, and
dashboards count all of this.

| Component | State | Operations | Correct when |
|---|---|---|---|
| Lead funnel (`api/v1/leads.py`, `doctype/a2c_lead`, `a2c_visit_schedule`) | leads, visits, credit information | create, inbound webhook, credit information, schedule and update visits, workflow moves, delete a lead, a visit or a credit row | one open lead per phone; a verified lead keeps the evidence it was verified on unless an administrator deletes it |
| Lead desk (`leads.py`, `a2c_lead.py`, `a2c_credit_information.py`, `api/utils.py` paging) | assignees, copies of the newest consent and amount | list and page, assign, open a consent, note and delete credit, save the profile | no lead is skipped by the paging; no save takes back what another request copied to the lead |
| Lead intake (`leads.py:404`, `webhooks.py`) | index locks, snapshots | `create_lead`, `lead_inbound`, concurrently | two agents never open a lead each for one phone or reference; an accepted delivery is on record; nobody waits for ever |
| Consent (`api/v1/consent/`, `webhook_consent_data.py`) | consent requests, idempotency keys in Redis, queued data jobs, profiles | `request_otp`, `verify_otp`, `submit_consent`, data job | the consent an application links is the applicant's; no overlapping call undoes an approval; a key does not stay blocked |
| Registry client (`api/v1/consent/openg2p_client.py`) | portal session, sessions per transaction, remembered answers, failure count and breaker, all in Redis | authenticate, request with retries and renewal, count failures | the breaker opens only for calls that exhausted their retries; a request is carried out a bounded number of times and every call ends |
| Loan application (`loan_applications.py`, `farmer/applications.py`, `doctype/a2c_loan_application`) | applications, their documents | create (agent, farmer), submit, status update, delete, upload and delete documents, wizard step, officer, amount | submitted only under an approved consent; one per lead; decisions final; stage and status agree; the amount submitted stands and no deletion goes untold |
| Workflow glue (`api/utils.py`, `fixtures/workflow.json`) | none of its own | resolve and apply a transition, mirror the status, move the lead after its loan | a lead is granted exactly when its own loan completes |
| Dashboard counters (`stats_cache.py`, `hooks.py`) | counters in Redis | document hooks, cold refill, hourly reconciliation | hooks agree with a recount; drift does not last |
| Dashboard rollup (`dashboard_rollup.py`, `api/v1/dashboard.py`) | a snapshot table per day, `as_of`, a Redis lock | refresh, charts | every chart is what counting in the tables would give; rare reasons stay unpublished; figures never go back and catch up |
| Stage pipeline (`stages.py`, `seller/loan_stages.py`) | stages, labels copied to applications, a cached map | add, synchronise, resolve, filter, display, summarise | a copied label is the label of a stage that exists; filter, rows and tiles agree on it |
| Onboarding and products (`seller/onboarding.py`, `seller/loan_products.py`, `a2c_participating_bank.py`, `a2c_loan_product.py`) | banks, users, memberships, products | register, contacts, KYC, admit, suspend, invite, manage people, draft, edit, review | what is on sale was reviewed; only admitted banks have products |
| Tenancy and catalogue (`permissions.py`, `farmer/catalog.py`, `roles.py`) | none of their own | scopes of lists, checks of single rows, catalogue, saved products, facets | a list shows exactly what the caller may open |
| Router, authentication, patches, API description | none | dispatch, one-off jobs | see section 9 |

How they interact: requests share tables and nothing else; document hooks run
inside the saving transaction (`hooks.py` `doc_events`); the loan's transition
calls the lead's (`sync_lead_with_loan`); consent writes the lead's and the
profile's pointers and queues jobs; hooks write Redis at once, ahead of the
commit; the counters and the stage map are caches filled by readers; the
rollup reads every table and writes its own, and the charts read nothing else;
all workers share one registry session through Redis.

What is hard in it: requests that swallow their exceptions and therefore
*commit* what they wrote before failing; nested best-effort transitions;
`db_set` writes that bypass hooks; check-then-write without a unique index;
caches filled from before a commit; a registry called while a row is locked;
deliveries that come twice, late or out of order. `PROJECT.json` lists each
such hazard with its line and the properties that guard it.

## 2. Modules

| Module | Models | Grain |
|---|---|---|
| `Applications`, `Database` | the constants that modules share: applications and the absent value; whether the database refuses to write over what it has not seen | constants |
| `LoanContract` | what the marketplace promises about loans and cases, abstractly | one step per promise |
| `Workflow` | roles, `workflow.json`, transition resolution, lead targets | pure |
| `LeadLoan` | lead funnel, consent, applications and their coupling; implements `LoanContract` | one request or job = one action = one transaction, with every nested save |
| `ApplicationIntake` | `create_loan_application` called concurrently | snapshot, lock, check, insert, commit |
| `ApplicationFile` | documents, step, officer, amount and submission of the applications `ApplicationIntake` creates | load and check; write |
| `LeadIntake` | `create_lead` and `lead_inbound` concurrently with staff | snapshot, two locks, check, insert or save, commit |
| `LeadDesk` | paging through leads beside assignment, consents, credit, profiles, creation and deletion | load; save. A page is one step |
| `ConsentRequest` | idempotency key, row lock around registry calls, data jobs, dying workers | each Redis and database access that matters |
| `RemoteCall` | what a caller of the registry may rely on, abstractly | begin, be carried out, end |
| `RegistryClient` | `OpenG2PConsentClient`: shared session, renewal, retries, breaker; implements `RemoteCall` | each Redis access and each request |
| `StatsCounters` | the counters, the recount and the deltas of each hook | pure |
| `DashboardStats` | hooks, commits, losses, refills and the hourly job around `StatsCounters` | write + hook, commit or loss, count, store |
| `DashboardCharts` | the rows of a refresh and the charts over them | pure |
| `DashboardRollup` | refreshes under an expiring lock, dying workers, midnight, around `DashboardCharts` | lock, read, write, release, commit |
| `StagePipeline` | pipeline edits, moves of applications, the cached map | write, commit or loss; resolve, write; read, cache, expire |
| `StageViews` | status filter, rows and summary tiles over `StagePipeline` | pure |
| `Marketplace` | banks, people, roles and products | check and write apart where the handler separates them |
| `Catalog` | scopes, single-row checks, product lists, saved products and facets over `Marketplace` | pure |
| `*Proofs` | theorems about the module they are named for; `DashboardProofs` about `DashboardStats`, `DashboardRollup` and `StagePipeline` together, which count the same applications | |
| `MC*` | constants of the TLC runs | |

`map` in `PROJECT.json` gives the source lines of each definition. Names follow
the code (`SubmitApplication` is `submit_application`). The main abstractions:

- **LeadLoan.** A row is a record with a `status`, `Absent` when it does not
  exist. Names, comments and notifications are left out; amounts, documents and
  assignment are in `ApplicationFile` and `LeadDesk`. "Revoked" stands for any
  state of the registry's own that a delivery may carry, since the job stores
  what it is sent. `stripped`, a ghost, marks a lead whose last credit row or
  last completed visit an administrator deleted since it was last verified. A
  stage is its id and its archetype. `SubmitApplication` and `UpdateLoanStatus`
  write the stage first and then try the transition, as the code does; when it
  is refused the written stage remains if `CommitOnRefusal`. `SyncLead` is the chain Processed, then
  Granted or Rejected, each of which may fail alone.
- **Intakes.** A request is named once and writes at most one row, which carries
  its name. A request has the snapshot of its first read, holds gap or row
  locks, and ends done or refused; the end of the request releases its locks.
- **ConsentRequest.** All `request_otp` calls use one key. The registry's answer
  is a nondeterministic choice. A data job copies what it reads at its start.
- **ApplicationFile.** Work on a file begins when the calls that create
  applications have ended; those read nothing that is written here, so the bound
  leaves no outcome out. A call keeps the row it loaded, and whether another
  wrote it since.
- **LeadDesk.** The reader's list is one list read page by page, each page one
  snapshot. `owed` and `calm` are ghosts: the leads in the list since its first
  page, and whether one of them left it or moved in it. `noted`, a ghost too, is
  the amount that the hook of a credit row last wrote to the lead. The hook runs
  twice on an insert (`hooks.py:196-200`) and swallows the error of the first.
- **RegistryClient.** The registry ends sessions when it likes, carries a request
  out or not, and its answer may be lost either way. `handled`, a ghost, counts
  what it carried out for a request. The failure count is read and written
  apart. Frappe answers a repeated `get_value` within one request from that
  request's own copy, so a call that saw the breaker closed may go on seeing it so.
- **StatsCounters / DashboardStats.** One bank. A hook takes the row before and
  after, as `on_application_change` does; of two hooks that overlap either may
  lose what it adds (`Surviving`), since `_incr` gets and sets. `Paths` chooses
  how an application is changed: `"save"` (one document save) or `"workflow"`
  (`update_loan_status`: `db_set`, `apply_workflow`, `db_set`).
- **DashboardCharts / DashboardRollup.** A row stands for a group of equal
  dimensions and says how many; an amount is the number of applications it sums.
  `snap` keeps for each day the facts its rows were folded from, and the rows
  are computed from them when a chart is read.
- **StagePipeline / StageViews.** A stage is its label; one administrator edits at
  a time. `raced` is a ghost: the applications last moved by a request that
  overlapped an edit of the very stage it moved them to. `Bare` holds the
  archetypes that a status is set to by name, which gives a label and no stage.
- **Marketplace.** A product is its bank, its state and a content; `seen` is a
  ghost, the content of each product when a reviewer last saved it as Active.
  `update_product` and `set_product_status` are three steps: the permission
  checks, which read the caller's roles (`OpenProduct`), the load, the save.
  A save drops what other requests have loaded of that product, since Frappe's
  timestamp check refuses them.
- **Catalog.** A caller is a set of roles and banks; every user of `Marketplace`
  is also looked at as a farmer and as a Development Agent. Filters on what a
  product says only narrow a list: a set of names stands for all of them.

Definitions named in a comment `mutant:` are plausible bugs; nothing uses them.
Each is put in the place of the definition it alters to see that a property
fails (`mutants` in `PROJECT.json`), so no property holds vacuously.

## 3. What the environment is assumed to do

- **Swallowed errors commit** (`CommitOnRefusal = TRUE`). `handle_api_errors`
  turns an exception into an answer, so Frappe sees a request that succeeded and
  commits POST, PUT and PATCH. The code itself relies on this where it rolls
  back by hand (`onboarding.py:313`, `:761`) or opens a savepoint
  (`consent.py:603`). The proofs hold for both values.
- **The database** is MariaDB 11.8 (`.github/workflows/ci.yml:30`) at
  REPEATABLE READ: plain reads see the snapshot of the first read; locking reads
  see the present, lock rows exclusively and gaps shared, and, since 11.6
  (`innodb_snapshot_isolation`), fail on a row newer than the snapshot
  (`SnapshotConflicts = TRUE`); an insert waits for the gap locks of others, and
  of a ring of waiters one is failed. With `SnapshotConflicts = FALSE`, as on
  older servers, see section 8.
- **Frappe**: a save refuses a row changed since it was loaded; `db_set` fires no
  `doc_events`; `apply_workflow` reloads the document
  (`loan_applications.py:1143`); a submitted document can be neither saved nor
  deleted; a request commits at its end.
- **Redis** keys are read and written atomically, and expire.
- Only the roles of `roles.py` act; Frappe's superuser is left out.

## 4. Runs

| Run | Configuration | Shows |
|---|---|---|
| `case` | 2 leads with one phone, 2 applications, 1 consent, profile and visit, no farmer user | `TypeOK`, `PhoneUnique`, `LeadEvidence`, `GrantedHasCompletedLoan`; every step implements `LoanContract` (`KeepsContract`); `StageFollowsStatus` |
| `farmer` | 1 lead, 1 application, 2 consents, 2 profiles, 1 farmer user | `ConsentIsApplicants`, `SubmittedUnderConsent` |
| `calls` | 3 calls for one lead, then 2 at a time, one the farmer's, on the file; 2 documents | `OneApplicationPerLead`, `EveryCallEnds`, `SubmittedTermsStand`, `OnRecord` |
| `intake` | 2 `create_lead` and 2 deliveries over one phone and reference | `OneAgentLead`, `DeliveryOnRecord`, `EveryRequestEnds` |
| `desk` | 2 leads, 2 calls, 2 views, pages of one, 1 assignee, 1 credit row a lead | `PagesComplete`, `CopiesAgree` |
| `consent` | 2 `request_otp` with one key, 2 `verify_otp`, 2 `submit_consent`, 1 job worker | `AskedOnRecord`, `ApprovalKept`, `KeyFreed` |
| `outage` | 1 search, 1 OTP request, 1 submission; 2 tries, 1 renewal, 2 sessions, threshold 1 | `BreakerEarned`; every step implements `RemoteCall` (`KeepsPromise`) |
| `counters` | 1 product, 2 applications, 2 workers, scheduler and a reader, 2 writes from 3 beginnings, losses | `SavesAgree`, `CountersConverge` |
| `workflow` | 2 applications moved by `update_loan_status`, one request at a time | *violated*: `HooksAgree` |
| `refresh` | 4 applications, 2 consents, 2 profiles, 2 banks, 2 places, 2 workers, 1 change, 2 days, 1 death, from 2 beginnings | `ChartsExact`, `ReasonsShared`, `NeverBack`, `CatchesUp` |
| `edits` | 2 stage ids, 3 labels, one the name of an archetype, 2 archetypes by name, 1 application, 1 worker, 1 reader, 2 edits | `OnlyRacesDrift`, `ViewsAgree` |
| `market` | operator, Bank Admin, newcomer; 1 bank, 1 product, 2 contents, alike up to a permutation | `LiveContentReviewed`, `OnlyAdmittedBanksSell`, `ListedIsOpened` |

A type invariant (`TypeOK`, `PipelineTypeOK` in `edits`) is checked once per component. Why the bounds suffice:

- `case` needs two leads for a phone to clash and for an application to move the
  wrong lead, two applications for a lead to have a refused and a completed one;
  the other tables enter its properties one row at a time.
- `farmer` needs a second consent to replace the first and a second profile to
  be bound instead. Deliveries there carry approvals only; a delivery that
  refuses can only take an approval away, which the properties do not mind.
- `calls`, `intake`: three callers for one row reach every shape of waiting,
  chain and ring, and the fourth does not clash with all of them. Two calls on
  a file are each other's overlap; a third would only repeat one of them.
- `desk`: two leads of one amount suffice for a tie to be broken differently on
  two pages, and pages of one put them on different pages. One assignee beside
  nobody lets a lead enter and leave the reader's view; one credit row at a time
  can be noted, deleted and noted again, and two calls can race to do so.
- `consent`: each call twice, so that each can overlap a second of its kind.
- `outage`: each kind of call once; a second try, a second session and one
  renewal are the first that differ from none.
- `counters`: two transactions in any order with a refill astride, which is what
  each race needs; the beginnings are a decided application beside a draft and
  two applications of one farmer, so that "the farmer still has a counted
  application" is decided both ways.
- `refresh`: the tables are chosen so that every distinct count differs from a
  plain one (a consent used at two banks, a farmer with two applications at one)
  and a reason is rare in one place and not in another; one change is enough
  for a reader to be overtaken, two days for midnight to pass under a refresh.
- `edits`: three labels for two ids allow a rename, a swap and a re-use of a
  name; the second edit meets what the first left behind. A stage called
  "Rejected" and the archetype of that name meet in one tile.
- `market`: one user per role; the newcomer can become agent or admin, the admin
  can be demoted, and any two can overlap on the product.

The proofs of section 6 lift these bounds for every safety property of every
passing run.

`MaxWrites`, `MaxEdits`, `MaxMoves`, `MaxDays`, `MaxDeaths`, `MaxAsked`, `MaxCredits` and
`MaxLogins` bound a behaviour; without them the liveness properties would also
be about systems that are never left alone. Deadlock is not checked where the
calls of a run are finite (`calls`, `intake`, `consent`, `outage`), nor in
`market`, where an operator who founded a bank can suspend it and lock himself
and everybody else out.

## 5. Fairness

- `LeadLoan`, `LeadDesk`, `Marketplace`: none. Each step is a request somebody may not make.
- `ApplicationIntake`, `LeadIntake`: a worker runs an accepted request to its
  end (`WF` on each request's steps; waiting for a lock disables the step).
  `ApplicationFile` adds nothing to it.
- `DashboardStats`: a request under way ends, committed or lost; a count is
  stored; the scheduler's hourly job recurs (`hooks.py` `scheduler_events`).
- `StagePipeline`: an edit under way ends; a reader stores the map it read; the
  map expires (`_STAGE_MAP_CACHE_TTL`, `stages.py:22`).
- `ConsentRequest`: the key's lock expires (`consent.py:317`), nothing else.
- `RegistryClient`: each call goes on, as every wait of it has a timeout
  (`openg2p_client.py`, `timeout=` of each request).
- `DashboardRollup`: the scheduler starts a refresh whenever none holds the lock
  (`hooks.py`, every 15 minutes), a worker that lives goes on, and the lock
  expires (`dashboard_rollup.py`, the timeout of its lock). Workers may die.

No strong fairness is used.

## 6. Proofs

`LeadLoanProofs` proves, for any numbers of leads, applications, consents,
profiles, visits, farmers, phones and stages, either value of
`CommitOnRefusal`, and any states deliveries may carry:

| Theorem | States | Argument |
|---|---|---|
| `TypeCorrect` | `Spec => []TypeOK` | one step per action |
| `OneLeadPerPhone` | `Spec => []PhoneUnique` | inductive with `TypeOK`: every handler that can bring a lead into the funnel runs `PhoneTaken` for it, the rest only take leads out (`FunnelGrowsByOne`, `FunnelShrinks`) |
| `EvidenceStays` | `Spec => []LeadEvidence` | unless `stripped`, evidence goes only with its lead, and each verification finds it anew. Not inductive alone: a lead could come into being, without evidence, under an application that already names it. `EvidenceInv` adds `AppsHaveLeads`: the lead an application names exists |
| `GrantsRestOnLoans` | `Spec => []GrantedHasCompletedLoan` | a completed application is submitted (`DocStatus` 1), so none can be deleted or moved (`AppStep`); only the step that completes an application grants its lead (`AppStepsAndLeads`) |
| `StageWithStatus` | `Spec => StageFollowsStatus` | a transition that is applied is the one named by the stage just written |
| `ConsentsAreApplicants` | `Spec => []ConsentIsApplicants` | not inductive alone: whose a consent is goes through leads and profiles that requests delete, bind and replace. `Links` says so row by row: a consent was raised for a lead or by a user (`ConsentOrigin`), and the consents that leads, profiles and applications carry are of their own (`LeadLink`, `ProfileLink`, `AppLink`); `OnRecord` that only consents on record are delivered |
| `SubmissionsAreConsented` | `Spec => SubmittedUnderConsent` | from `Links`: each of the five places in which a submission looks for a consent holds the applicant's only (`FoundIsOwned`) |
| `ContractKept` | `Spec => KeepsContract` | refinement: `loan`, `raised` and `case` are read off the statuses; each request, side steps included, maps to one contract step or none, using `GrantsRestOnLoans` for leads that are deleted or moved |

They assume `StagesAssumption`, `NoneAssumption`, `DeliveredAssumption` and
`FlagAssumption` of `LeadLoan`, which TLC evaluates in `case`, and which say
that names of different kinds differ, that every stage has an archetype, and
that the entry stage is an in-transition one (as
`get_initial_pipeline_stage` selects it).

In the tables below *given* `SnapshotConflicts` marks what is true only of a
database that fails a locking read, or a write, of a row newer than the
snapshot, as MariaDB 11.8 does (section 3). Without it TLC finds each of these
properties violated on the instance of its run.

`ApplicationIntakeProofs`, for any number of calls, leads, documents, officers
and amounts:

| Theorem | States | Argument |
|---|---|---|
| `CallsTyped` | `Spec => []TypeOK` | with `LockInv`, which ties locks and rows to where a call stands |
| `OneApplication` | `Spec => []OneApplicationPerLead`, given `SnapshotConflicts` | `GapInv`: a call that holds the gap of a lead has no rival with a row, since an insert waits for that gap; a call whose locking read met a row has it in its snapshot, so its check refuses |
| `SubmittedStands` | `FileSpec => SubmittedTermsStand` | `FileInv`: the row a call has loaded is the one on record unless it is marked stale, and it passed the check of its kind (`Loaded`). Then a write that would overturn a submission is one of a stale row, and is refused |
| `DocumentsOnRecord` | `FileSpec => []OnRecord`, given `SnapshotConflicts` | of two deletions of one document the second meets a row newer than its snapshot |

`LeadIntakeProofs`, for any number of requests, phones and references:

| Theorem | States | Argument |
|---|---|---|
| `IntakeTyped` | `Spec => []TypeOK` | one step per action |
| `DeliveriesStayOnRecord` | `Spec => []DeliveryOnRecord` | with `Placed`: a lead is blank until its request inserts it with its note, and a delivery is matched with a lead of the funnel. What others do to a lead (`Touch`) adds notes and takes none away |
| `OneLeadPerKey` | `Spec => []OneAgentLead`, given `SnapshotConflicts` | `Fenced`: a gap that a request holds is empty of other leads, and `create_lead` comes to its insert holding every gap it needs; `Apart`: leads of agents share no key, references as they were created with |

`ConsentRequestProofs`, for any number of calls and queue workers, whatever
deliveries carry and either value of `CommitOnRefusal`:

| Theorem | States | Argument |
|---|---|---|
| `ConsentTyped` | `Spec => []TypeOK` | with `Shape`: where calls and jobs can stand, and that one at work has a request |
| `AskedWhileAwaited` | `Spec => []AskedOnRecord`, given `SnapshotConflicts` | `Held`: who asks the registry holds the lock of the row, and the row is as it read it; `Written`: work is done only on requests on record, so no `request_otp` writes under it |
| `ApprovalStays` | `Spec => ApprovalKept`, given `SnapshotConflicts` | from `Held`: a call that writes writes over a row that was not Approved |

`LeadDeskProofs`, for any number of leads and requests, any list and any length
of page:

| Theorem | States | Argument |
|---|---|---|
| `DeskTyped` | `Spec => []TypeOK` | with `Shaped`: what requests have loaded and what an open list is |
| `NoLeadSkipped` | `Spec => []PagesComplete` | `Behind`: as long as the list is calm, a lead owed and not yet given has at least as many leads ahead of it as were read. The sort key ends in the name and so is a total order (`TotalOrder`, `Ranked`), from which a page is the leads with that many ahead (`PageRead`); a lead created or assigned into the list can only push others back (`StaysAhead`) |
| `CopiesFollow` | `Spec => []CopiesAgree`, given `SnapshotConflicts` | `Fresh`: a request that counts as having read the present has the lead's row, so a save of the whole row leaves the copies as they are; `Unborn`: a lead not yet created has nothing to its name |

`DashboardProofs` is about what the dashboards show: the public charts and their
refresh, a bank's counters, and the stage labels its applications carry. The
charts and counters count rows, and `Total` and the counters' sums are folds or
cardinalities over whole tables; what makes them provable is at its head.

| Lemma | States | Argument |
|---|---|---|
| `OneMoved` | two finite sets that differ at most in `x` differ in size by whether `x` is in each | so one row that changes moves each counter by that row's share |
| `FoldExists`, `TotalIsFold` | the fold by which the module adds up rows is there for every finite set of rows | the smallest set without one would have one: a least counterexample (`Least`, from the order of the naturals) stands in for an induction |
| `TotalOfParts` | rows whose counts are the sizes of disjoint sets of members add up to the size of their union | a least counterexample again, one row taken away |
| `Parted` | the bars of a chart that splits a selection add up to the total of the selection | each member is in the part of one bar |

For any tables, numbers of applications, consents, profiles, banks, places,
workers and days:

| Theorem | States | Argument |
|---|---|---|
| `RowsKeepFigures` | for all facts, every selection and every chart, the figure made from the rows is the one counted from the tables | each of the rollup's families stands for its members (applications, rejections, shares, uses, fields asked for, profiles); a filter on the dimensions of rows is one on members (`PassedRow`), so `TotalOfParts` applies, chart by chart: KPIs, sums, places, providers |
| `FiguresExact` | `RollupSpec => []ChartsExact` | `RowsRead`: the rows on show were computed from facts that the tables did hold; then `RowsKeepFigures` |
| `ReasonsAreShared` | `RollupSpec => []ReasonsShared` | `RowsRead`; a reason that is spelt out has `MinReason` members in the selection itself |
| `NeverGoesBack` | `RollupSpec => NeverBack`, given `SnapshotConflicts` | `TimesOrdered`: a worker that may still commit read no earlier than the last commit, and one at a time has written rows. A worker that wrote after being overtaken would break it, and is what the database refuses |

For any tables, products, applications, stages, writers and fillers:

| Theorem | States | Argument |
|---|---|---|
| `CountersTyped` | `Spec => []TypeOK` | one step per action; a delta that loses to another hook's leaves an integer, and a recount gives no negative one |
| `SavesKeepCounters` | `Spec => SavesAgree` | each hook moves each counter as the recount does (`ProductHook`, `ApplicationHook`, `StageHook`), by `OneMoved` for the row saved. Applicants are not a sum over rows: in `ApplicationHook` the set of farmers differs at most in this one, and the hook asks whether he has another counted application. It holds of an application whose farmer stays while it is counted, as every save of the code leaves it |

For any pipeline, applications, movers and readers, and both values of
`CommitOnRefusal` and `SnapshotConflicts`:

| Theorem | States | Argument |
|---|---|---|
| `PipelineTyped` | `PipelineSpec => []PipelineTypeOK` | with the two below |
| `LabelsFollow` | `PipelineSpec => []OnlyRacesDrift` | `Labelled`: an application on a stage has a label; `EditCovers`: the edit under way relabels applications of stages it keeps, and leaves the rest the label their stage will have. Not inductive without the second: the commit of an edit writes both tables at once |

`MarketplaceProofs`, for any numbers of banks, users, products and contents, any
initial staff and either value of `CommitOnRefusal`:

| Theorem | States | Argument |
|---|---|---|
| `MarketTyped` | `Spec => []TypeOK` | with `PeopleInv`: accounts and roles go together, and a registration or invitation under way is by or for somebody who keeps theirs |
| `LiveReviewed` | `Spec => []LiveContentReviewed` | with `DeskFresh`: what a request has loaded is what is on record, or its save fails; then only the save of one who was a reviewer at the permission checks or at the save leaves a product live (`SavesAreGood`) |
| `OnlyAdmittedSell` | `Spec => []OnlyAdmittedBanksSell` | `AdmittedInv`: the bank of a product is a bank, and admitted; no request takes a bank back to review (`AdmissionStays`) |
| `ListedOpened` | `Spec => []ListedIsOpened`, for any caller, whatever roles and banks it has | `ScopeIsCheck`: the query condition and the document check select the same products, by the three kinds of caller; `ListsAreScopes`; and `LiveReviewed` for the content that others' products show |

`RegistryClientProofs`, for any number of calls, tries, renewals and sessions
and any threshold:

| Theorem | States | Argument |
|---|---|---|
| `BreakerIsEarned` | `Spec => []BreakerEarned` | `Covered`: the failure count, the counts that calls have read and not yet written back, and the threshold of an open breaker are all at most the number of calls already counted. Not inductive without the noted counts: a call may write back a count that was read long before, over others' or over a success |
| `PromiseKept` | `Spec => Promise!Init /\ [][Promise!Next]_(Promise!vars)`, all of `KeepsPromise` but that calls end | refinement: `phase` is read off where a call stands, `effects` is what the registry has carried out, `memo` is the cache. `SentOften` ties the two: a request was carried out at most once for each time it was sent without an answer, and not before the farmer was asked for |

Besides `SnapshotConflicts` where it is given, the proofs use only the named
assumptions of the modules (`IntakeAssumption`, `ConsentAssumption`,
`ChartsAssumption`, ...): that names of different kinds differ, that bounds are
numbers and flags Boolean, and that finite things are finite. TLC evaluates each of them in a run. Three were
too weak and were made to say what was meant: three sets without a common member
were taken for disjoint in `RegistryClient`; `ConsentRequest` did not say that a
call is not a job; `ApplicationFile` did not keep leads apart from the two
states of a document that is nowhere.

Only model-checked is *liveness*: `EveryCallEnds`, `EveryRequestEnds`,
`KeyFreed`, `CountersConverge`, `CatchesUp`, `ViewsAgree`, and that the calls of
`RemoteCall` end. Fairness and ENABLED are out of the prover's reach.
`HooksAgree` is false of the code (section 7).

## 7. Where code and documentation disagree

- **`update_loan_status` does not move the counters** (`workflow`). All its
  changes reach the row by `db_set`, so the hook sees no difference; comments at
  `loan_applications.py:1126` and `:1158` say the save fires it, and
  `test_stats_cache.py:332` that hooks and recount agree. The hourly job mends it.

The modules take the steps behind the following as well; no run is about them, and
no property claims what these docs say.

- **Documents change under review.** "After submission the bank reviews
  those files, so they must not change under it" (`loan_applications.py:130`).
  The check reads the status as an upload or a deletion begins; a submission that
  commits before the files are written has them changed after it.
- **Clients are shown archetypes.** "Never contains an archetype name"
  (`stages.py:99`). `update_loan_status` "accepts an archetype status
  ('Completed')" (`loan_applications.py:1103`), which `resolve_bank_stage` turns
  into a label without a stage; `status_payload` shows that label, and the
  summary counts it as a tile.
- **An edit of a live product is its own review.** "Changing any of
  these on an already-approved product forces it back to Pending Approval for
  re-review" (`a2c_loan_product.py:52-53`). A Bank Admin's or operator's edit
  leaves the product Active (`:85`), anybody else's is refused, so no edit of an
  Active product sends it back. `LiveContentReviewed` counts such an edit as
  reviewed by its editor, and says that nobody else's content goes live.
- **A lead's amount need not mirror its credit row.** "Leads are
  effectively 1:1 with Credit Information, so the lead simply mirrors its credit
  row; on trash we clear it" (`a2c_credit_information.py:67-68`). A lead may have
  several rows; when one is deleted, the copy reads 0, and the list is sorted by
  0 where it shows the newest row's amount.

## 8. Observations

Seen while modelling, and not the subject of a run:

- *Applications.* A submitted application need not link its consent: the
  prerequisites set `consent_id` in memory and `apply_workflow` reloads the
  document (`a2c_loan_application.py:30`). A refused `update_loan_status` leaves
  the stage it wrote (`loan_applications.py:1146`) on a decided application,
  though "Cannot update if current status is terminal" (`:1100`). When a newer
  open lead has the phone of a Processed one, the Processed lead cannot be saved
  and does not follow its loan. With `SnapshotConflicts = FALSE`,
  `OneApplicationPerLead` fails: the plain read after the lock looks at a
  snapshot from before it. An upload cut short by a file of the wrong type keeps
  the files before it, without an event.
- *Leads.* `lead_inbound` takes no lock, so two first deliveries open two leads.
  A redelivery that names a Processed, Granted or Rejected lead is refused,
  against `webhooks.py:36-38`. An administrator may delete the visit or the
  credit row a lead was verified on; nothing takes the verification back.
  `assign_lead` accepts any enabled user. A lead is assigned to its creator
  without an "Assigned" event. `sync_lead_loan_amount` swallows every error and
  runs twice on an insert, so where the database refuses the first copy and
  rolls back the row, the second is written all the same: the lead's amount, the
  answer and the "Credit Info Added" event tell of a row that is not there.
  Other lists (the farmer's applications, visits, assignable users) sort
  without the name as a last key, which `get_leads` has.
- *Consent.* `request_otp` reads its lock and then sets it, so two overlapping
  calls with one key open two requests, and it caches its answer before the
  commit, so a worker that dies leaves an answer that names no request; it holds
  the lead's row while it waits for the registry. The data job queued "after
  commit" survives the rollback to a savepoint (`consent.py:528`). Overlapping
  data jobs can stamp Failed on an approved consent, and an older Rejected
  delivery can follow an approval. The rate limiter reads and writes apart, and
  its window begins anew with each admitted call. With
  `SnapshotConflicts = FALSE` a `verify_otp` can write a request back to Pending
  OTP. A profile's `consent_id` goes before the lead's newest consent.
- *Registry client.* `submit_consent` is sent up to three times though it is not
  idempotent. A call whose transaction's session has expired falls back to the
  shared session of the portal.
- *Stages.* `sync_stages` writes as it goes: a refusal keeps the earlier writes,
  two stages of one label possibly among them, as two overlapping `add_stage`
  can leave. It may change the archetype of a stage in use, and the counters do
  not see its renames. A status update that overlaps an edit leaves a stale label
  or a stage that is gone. Rows In Transition without a stage are counted in
  the entry stage's tile, and rows set to an archetype by name in the tile of
  that name, a stage's if one is called so ("Rejected" is, as seeded); the filter
  goes by stage and lists neither.
- *Onboarding.* `register_bank` and `invite_team_member` check and write apart,
  so one user can come to belong to two banks (`roles.py:38`: exactly one). An
  invitation under way at a suspension adds an enabled member to the suspended
  bank; a reinstatement enables members disabled one by one. `on_update` refuses
  an incomplete bank after its row was written (`a2c_participating_bank.py:41`),
  so a refused activation (`onboarding.py:683`) leaves the bank Active.
- *Catalogue and taxonomy.* Active products of a suspended bank stay in the
  catalogue. `set_product_categories` and its siblings compare and write without
  a lock, so two overlapping calls can leave a category twice.
- *Dashboards.* The newest rejection gives an application's reason, but one
  without a reason does not replace an older one. Drafts' banks count among those
  that used a consent, and revoked consents are shown as pending.

## 9. What is not modelled

- `openapi/generate_openapi_spec.py`, the gateway's configuration, patches, seeds
  and fixtures other than the workflows: run offline, no state of the program.
- `router.py` and `auth.py`: dispatch and token handling, most of it another
  app's; who calls is a choice of the models.
- Reads without a state a property meets: lead summary, metadata, call log,
  timeline, comments, visit and user pickers, exports, formatting, masking of
  personal data, notifications and logging.
- Writes of product categories, tags and attributes and the lookup tables behind
  them, the range and term a product lends an application, profiles and logos of
  banks, password resets, the lead naming counter: data no modelled guard reads.
- The rate limiter, the chart cache and the provider rows of the rollup.
- Two administrators editing one pipeline at once: possible, and left out for size.
- Stages called "Active" or "In Transition", which the views take for statuses.
- What the Desk's generic forms let a role write besides the handlers, deletions
  of products and banks by it included. The deletions that meet a property of
  `LeadLoan` or `LeadDesk` (leads, visits, credit rows, consents, profiles,
  applications) are modelled.

## 10. Plan

Done, in this order: `LeadLoan` with its contract and proofs; the two intakes;
counters; pipeline; consent calls; marketplace; then the registry client with
its promise, the rollup, the pipeline's views, the catalogue, the lead desk and
the application's file; then the proofs of section 6, the dashboards' last. Worth doing next:

1. `Taxonomy`: categories, tags and attributes of a product, replaced as sets
   and by get-or-create.
2. A second bank in `LeadLoan`, for isolation.
3. Two administrators on one pipeline, for the lost edits that
   `StagePipeline` leaves out.
