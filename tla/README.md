# AeroComply: a verification project

AeroComply is a multi-tenant maintenance, inventory and regulatory-compliance
platform: a FastAPI / SQLAlchemy / PostgreSQL backend (`src/backend/app`), a
Next.js frontend (`src/frontend`) and an S3-compatible object store for evidence
files.  There is no task queue and no scheduler: everything that happens is an
HTTP request run by one worker thread with one database session.

This directory models both sides of it in TLA+.  In the backend's modules the
state is a set of committed rows, the processes are concurrent requests, the
actions are the statements and commits of the service functions.  In the
frontend's the state is that of one React component, the processes are its
requests under way, the actions are what the user does and what arrives.  TLC
checks small instances; TLAPS proves every safety property those checks claim, for
every instance.

1. How the code runs, and how it is modelled
2. Inventory of the system
3. The modules
4. The runs
5. The proofs
6. Where code and documentation disagree
7. What is not modelled, and the plan

## 1. How the code runs, and how it is modelled

* `db/session.py` gives every request one `Session` (`autocommit=False`,
  `autoflush=False`), closed, hence rolled back, in a `finally`.  PostgreSQL runs
  at READ COMMITTED.  A service reads rows in one statement, decides in Python,
  writes in a later one and commits.  Between the read and the write anything
  may be committed by others, unless the read took a row lock.
* Several services commit more than once per request, or call services that
  commit; a request that dies between two commits leaves the first one behind.
* An object that the session has loaded is not re-read by a later `SELECT`
  unless a commit has expired it, and an `UPDATE` writes the columns whose value
  differs from the loaded one.  Both matter: they decide which stale value is
  written over which fresh one.
* Each module therefore has a set of requests or sessions; each has a phase and
  what it has loaded, performs one operation and ends.  A `Crash` (or `Abort`)
  ends it at any phase: uncommitted work and locks vanish, committed work stays.
* A step of a model is what the database makes atomic: one statement that reads,
  or everything between the last read that matters and the commit.  Where a
  module joins several statements into one step, its comments and section 3 say
  so.

Left out everywhere: wording, logging, timestamps nothing compares, descriptive
columns, audit rows (they commit with the change they report) and the permission
table in front of every handler (a refusal changes nothing).

## 2. Inventory of the system

| part | state | operations | hard behaviours | what makes it correct |
|---|---|---|---|---|
| **Parts inventory** (`inventory_transaction_service`, `part_service`, `part_requirement_service`) | a `parts` row with four quantities and a serviceability; an append-only ledger; requirement rows with a status | receive, reserve, release, consume, adjust, quarantine, release from quarantine; PATCH of a part; create, update, fulfil requirements | row lock per movement, re-derivation of statuses and allocation of receipts after the commit that released it | the ledger explains the row, quantities stay covered, statuses follow the stock, settled requirements stay settled |
| **Evidence files** (`evidence_file_service`, `evidence_reconciliation_service`, `storage/*`, `api/v1/evidence`) | rows with a lifecycle, objects in a bucket | upload, download, delete, reconcile and repair | two stores without a common transaction; time-outs with late effects; scans of a moving system | no deletion is claimed that did not happen; stored rows have their object; repairs stay within the lifecycle |
| **Purchasing and receiving** (`procurement_service`, `purchase_order_service`, `receiving_service`) | requests, orders, lines with received quantities, what was booked to stock | request lifecycle, create an order from requests, order lifecycle, receive | several commits per operation, absolute writes of received quantities, calls into the inventory | lines agree with the ledger, nothing received twice or beyond the order, a request on one order line |
| **Work-order release** (`work_order_service`, `release_readiness_service`, `evidence_service`, `inspection_service`, `finding_service`) | the order, its tasks, evidence, inspections, findings with dispositions | create and move each of them, close the order | the gate in front of CLOSED is six SELECTs, then an UPDATE | a closed order had nothing open, nobody inspects their own work |
| **Entitlements and approvals** (`approval_service`, `tenant_entitlement_admin_service`) | approval requests, feature overrides, usage limits | file, approve, reject, cancel; create, update, remove overrides and limits | a conditional UPDATE as a claim, the mutation committed with it, no unique constraint on overrides | one decision per request, executed with it, by somebody else than its author |
| **Bulk import** (`import_service`, `aircraft_service`, `asset_service`, `flight_service`) | import jobs with a verdict per row; assets, aircraft, flights | validate, configure, commit | claim, then one or two transactions per row, per-row rollback, reconfiguration of stale jobs | every row once, counts and outcome true and final, the preview tells what happens |
| Plan ceilings (`limit_enforcement_service`) | none (counts rows) | check before create | count, then insert, without a lock | ceilings hold |
| Installation (`installation_service`) | installation history, `Battery.asset_id`, `Component.asset_id` | install, remove | check, then insert; partial unique index | history and pointer tell the same story |
| Deletion, restoration (`deletion_service`, `restoration_service`, `core/lifecycle_policy`) | `deleted_at` of assets, work orders, organizations | soft delete, restore, permanent delete | stale loads, no lock | permanent deletion only of what is deleted and empty |
| AOG events (`aog_service`) | events, blockers | declare, recover, cancel, add and resolve blockers | check of the blockers races with adding one | RECOVERED means no open blocker |
| Subscriptions and plans (`subscription_service`, `plan_service`, `product_catalog_service`) | periods per organization; plans with features and limits | create, update, cancel, schedule | overlap check, then insert | at most one subscription in force |
| Provisioning (`provisioning_service`) | organization, administrator, subscription | provision, invite | one transaction with a compensation, then a code by e-mail | all or nothing |
| Accounts (`auth_service`, `tenant_service`) | users, roles, verification codes with attempts | issue and consume codes, invite, activate, reset | read-modify-write of attempts; consumption commits with the caller | a code works once, within its attempts and its time |
| Entitlement resolution (`entitlement_service`) | none | resolve | expiry, precedence of overrides | a pure function with a reference definition |
| Applicability (`applicability/*`) | none | three-valued evaluation | unknown inputs | Kleene's tables |
| Maintenance (`maintenance_service`), compliance (`compliance/*`, `assessment/*`) | requirements, intervals, obligations | record, recompute, read | due arithmetic; recomputation from committed rows | due dates follow utilization |
| Deferred items, missions, technicians | small lifecycles | create, move | stale transitions | legal transitions only |
| Master data (vendors, warehouses, facilities, drones) | rows | CRUD | unique constraints | constraint errors are reported |
| Fleet intelligence, control center, assistant (`intelligence/*`, `lisa/*`, `ai/*`) | none | read | none | out of scope |
| **Frontend screens** (`src/frontend/app`, `src/frontend/components`, `lib/apiClient.ts`) | per component: what it has loaded, spinner, error, busy states, open dialog | load, change the filter or page, refresh, open and close a dialog, send a change | loads overlap and are answered in any order; a change and the reload after it; an answer after the dialog was closed or the component left; timers | rows belong to the filter above them, what was saved is shown, nothing is sent twice, no answer reaches another's dialog, no page waits for ever |
| Frontend session, demo mode (`lib/auth/SessionContext.tsx`, `lib/demo/*`) | tokens in the browser; fixed data | restore, log in, log out | a late failure of the restoration | a login is not undone |

How they interact: receiving calls `receive_part` of the inventory once per line
(each call commits) and the inventory's allocation after it; release readiness
reads the rows of five services; approvals call the entitlement services, whose
commit also commits the claim; the import calls the asset, aircraft and flight
services row by row; ceilings come from the entitlements.  All of it goes
through committed rows: there are no callbacks and no messages, except the
requests to the object store.  A screen calls the backend over HTTP and has no
other channel: no push, no polling, no cache shared between screens.  Two screens
meet only in the backend, so a screen is modelled alone, with a backend that
serves its requests.

## 3. The modules

| component | module | abstract specification | instance for TLC | proofs |
|---|---|---|---|---|
| Parts inventory | `PartInventory` | `StockLedger` | `MCPartInventory` | `PartInventoryProofs` |
| Evidence files | `EvidenceFiles` | | `MCEvidenceFiles` | `EvidenceFilesProofs` |
| Purchasing, receiving | `Purchasing` | | `MCPurchasing` | `PurchasingProofs`, `PurchasingSerialProofs` |
| Work-order release | `WorkOrderRelease` | | `MCWorkOrderRelease` | `WorkOrderReleaseProofs` |
| Entitlements, approvals | `EntitlementApprovals` | `ApprovalDecision` | `MCEntitlementApprovals` | `EntitlementApprovalsProofs` |
| Bulk import | `ImportJobs` | | `MCImportJobs` | `ImportJobsProofs` |
| Frontend screens | `ScreenForms` (vocabulary), `PlatformScreens`, `TenantScreens`, `ComplianceScreens`, `AssetScreens`, `MaintenanceScreens`, `OperationsScreens`, `AccountScreens` (one description per screen), `ScreenProtocol` (how they run) | | `MCScreens` | `ScreenProtocolProofs` |

`PROJECT.json` maps every definition to the lines it stands for.  Operators named
in a `\* Mutant:` comment are deliberate mistakes that the properties must catch;
no specification uses them.

**PartInventory.**  One `parts` row, the column sums of its ledger rows, and the
requirement rows of one work order.  `_apply_transaction` is `LockPart` (SELECT
.. FOR UPDATE and the computation of the new row), `ApplyMovement` (coverage
checks passed, row and ledger in one commit) or `RejectMovement`, then
`RefreshPart`, the reads of the re-derivation (`ReadNeeds`) and its commit.
Receipts from purchasing go on with the allocation to open requirements.  A
quarantine release has its second commit.  PATCH of a part and of a requirement
load, then write the columns that differ (`WriteChanged`).  `StockLedger` is the
promise of it: a row that changes atomically and a ledger that records each
change.  Simplifications: fulfil's UPDATE, refresh, part read and commit are one
step; a deadlock abort is a `Crash`; quantities are unbounded integers.

**EvidenceFiles.**  Rows, bucket, put attempts the client has given up on and the
audit events of deletions.  Upload per file: `PENDING` row committed, bounded
attempts to put, `STORED` or `FAILED` committed.  Delete: load and check, remove
from the bucket, commit `DELETED` through a second SELECT that returns the same,
stale object.  Reconciliation: all rows first, then one HEAD per object in any
order, then the repairs.  Listing and downloading leave no state.  A late DELETE
attempt is taken at once, as a nondeterministic outcome of the failing call.

**Purchasing.**  Status of requests and orders, lines, received and booked
quantities.  A session tracks which of its objects are loaded, dirty or expired,
because a commit in the middle (`receive_part`) expires the others.  The
reads of the linked requests in the creation of an order are one step; the order
is inserted by the first commit, that of `mark_ordered`.  What the inventory does
with a receipt is `PartInventory`'s.

**WorkOrderRelease.**  One order and the statuses of its rows.  Each mutation loads
its row (and what it must know of others), then commits; closing is one SELECT
per category of `release_readiness_service` (`Judge`), then the UPDATE.  Material
and compliance, decided by other services, are switches of the environment
(`outside`).  Creations are one step; dispositions are checked at the write.

**EntitlementApprovals.**  Requests, override rows, limit rows of one tenant and
key; ids are never used again.  Approving is check, claim (UPDATE .. WHERE
status = 'PENDING'), lookup, read, one commit of claim and mutation together.
The row lock of the claim follows from the phase.  `now` moves up to `Horizon`,
so overrides expire.  `Abort` is a crash or a refusal, hence a rollback.
`ApprovalDecision` is the promise: one atomic decision with its effect.

**ImportJobs.**  Jobs with a verdict per row, assets per registration, aircraft
rows and how often each row has been imported.  Creating a job is one step
(validation reads, then one insert of a new row).  Configuring is a read of the
job with the validation, and a later write; the status is not in that UPDATE,
because it does not differ from what was loaded.  A commit is the conditional
UPDATE, the reading of the rows, and per row the ceiling, the inserts under
unique constraints, the flight; `RowRaises` is any other exception a row's
service may raise.  Registrations are canonical and the other columns are reduced
to the defect validation finds.  `record_flight` is one step, and the asset reads
of a validation are one snapshot; manual creations are a set of pending inserts
whose checks have passed.  The DRONE domain stores nothing (section 6).

**ScreenForms and the seven catalogs.**  The screens are written alike: `useEffect`
loads, `setLoading`, `setError`, a handler that sets a busy flag, sends, reloads
and resets the flag.  They differ in what decides whether that is right: whether
the effect has a `cancelled` flag, whether the handler reloads and waits for it,
whether a button is disabled while busy and by which flag, whether a dialog can
be closed meanwhile, what a spinner or an error covers, where a failure is told.
A description states just these, translated line by line; a comment `\* n-m
symbol` before a definition names the lines it stands for.  `Screen` then takes
the component apart by feed: two feeds of a component do not read each other, so
each is checked with the acts of the component, in so far as they concern it.

**ScreenProtocol.**  One screen at work, its description in the variable `screen`.
`loads` and `calls` are the requests under way; a request is sent, takes effect at
the backend (`ServeLoad` takes the rows, `ServeCall` makes a new version of one),
and is answered or fails, a change also after its effect.  `Issue` is the start of
a load with what the cleanup of the effect cancels; `Submit`, `AnswerCall` and
`FailCall` are the handler up to its `await`, its `then` and its `catch`, each with
its `finally`; `Remains` says whether the handler goes on to wait for its reload or
leaves a timer (`CloseLater`).  `Forgotten` and `Orphaned` are the children that a
spinner unmounts.  Simplifications: a row is its version; a filter, a page and a
tab are one `input`; a change always succeeds or fails as a whole; a user does not
change the row of a page, which is another mount; gestures are ignored while
a modal dialog covers the page; a screen has its access token as long as it is
mounted.  (`tenant/users`, `tenant/invitations` and `tenant/facilities` return, busy
already, when the token is missing: lines 118, 96 and 122.  The token is dropped
only by `clearSession`, together with the user, and `AuthGuard.tsx:40-42`, around
every page of `(app)`, then unmounts the page, busy state and all.)  `apiRequest`
repeats a request on a network failure only for logins, which save nothing, and is
one request here.

The lines named for a display are those that decide what covers the content, with
the content itself where the panel encloses it, and the controls that change the
input where the feed is loaded again for them; those named for an offer are the
button or the dialog.  On the screen of purchase orders (`PurchaseOrders`) the
requests and the orders are two feeds, and each offer needs the content of its own
only: it is described once per feed.

## 4. The runs

Instances are small sets of model values; each `MC` module adds a `scenario`
fixed in the initial state, so that one run asks several related questions and a
property may be claimed for the histories in which the code keeps it.  A name that
ends in `Serially` says: as long as operations do not overlap.  Those are not
weaker by neglect: section 6 lists what happens with overlap.

| run | instance | distinct states | shows |
|---|---|---|---|
| `inventory` | three requests, two requirement slots, quantities up to 3, all movements | 863 000 | `LedgerAccountsForPart`, `StaysCovered` and `ImplementsStockLedger` under any interleaving, PATCHes and crashes; `FulfilmentBounded`: receipts never over-fulfil; one request at a time, PATCHes, overrides and crashes included, `SettledIsFinalSerially` and `NoStatusLeftStale` (no status is stale unless a re-derivation is owed); `NoReceiptLost` for receipts of which none dies |
| `screens_and_inventory_live` | every screen of the catalogs, with two of its acts at a time, two rows, two inputs, two loads and two calls under way, two moves of the user; beside it two requests of the inventory, no symmetry | 232 000 | `ShownAnswersInput`, `SavedIsShown`, `OneAtATime`, `DialogWaits` and, under fairness, `WaitsEnd`; for the inventory `InventoryInv`, the invariant of the proofs, and `EveryRequestEnds` under fairness |
| `inventory_settled` | two requests | | violated: `SettledIsFinal` |
| `evidence` | two files, two DELETEs, one reconciliation | 117 000 | rows, bucket and audit events agree (`EvidenceFilesInv`, `DeletionIsReal`, `StoredObjectsKept`, `RepairsAuthorized`, `LifecycleRespected`); `DeletedIsGone` without late puts, `DeletedOnceSerially` |
| `evidence_twice` | | | violated: `DeletedOnce` |
| `purchasing` | two requests, two orders, two lines, three sessions, three rounds | 197 000 | a line never claims more than was booked (`PurchasingInv`); serially, wherever operations die or are refused, `StockMatchesLines`, `NoOverReceiptSerially`, `DeliveredWhileReceivable`, `RequestBoughtOnce`; undisturbed (no operation stops half-way either) `StatusMatchesLines` |
| `purchasing_overreceipt` | | | violated: `NoOverReceipt` |
| `release` | two tasks, one evidence, two inspections, one finding, two sessions, two users | 2 180 000 | `ReleaseInv` with overlap and crashes; serially `ClosedTasksComplete`, `ClosedWhenReady`, `IndependentInspector` |
| `release_resubmitted` | | | violated: `RejectedIsResubmitted` |
| `approvals` | one request, two rows, two users, two sessions, two ceilings | 617 000 | `ApprovalsInv` and `ImplementsDecision` with overlap and rollbacks; serially `OneOverrideSerially`, `ApprovedIsGranted` |
| `approvals_effect` | | | violated: `ApprovedTakesEffect` |
| `imports` | two jobs (a flight file of three rows, an aircraft file of two), two registrations, two requests, a ceiling of one | 1 610 000 | `ImportsInv` and `FinishedIsFinal` with overlap and crashes; `PreviewIsKept` with a single request on the jobs and assets coming and going; `CeilingKeptSerially` |

Why the bounds are enough: every race the code can lose is between two operations
on one row, so two or three sessions on one or two rows show it; a third session
in `inventory` and `purchasing` lets a race meet the recomputation that follows
it.  Quantities go just beyond the ordered, required or stocked amount.  Three
rounds in `purchasing` take a request from APPROVED to a delivery in two parts.  In
`imports` the flight file has a registration twice and an unreadable date, the
aircraft file a duplicate, and the ceiling is reached by the first asset.  What is
unbounded in the code (ids, ledger length, versions of a row) is either not in the
state or recycled by the scenario.

`screens_and_inventory_live` holds two systems that share no state: a behaviour
runs one of them, the inventory on the `Blank` screen and the protocol on all
others, and leaves the other where it started.  In it 61 different shapes of a
feed and its acts make about 145 instances.  What an act can do to another, or to
a load, needs two acts at most; two slots of each kind let an answer be overtaken;
two rows let a dialog be opened for another.  A third request is covered by the
theorems, which hold for any number of rows, inputs, slots, acts and moves.  The
four screen properties are implications: each says of which screens it is claimed
(`DisplayGuarded`, `Serialized`, `Gated`, `Persistent`), and the premise is a
property of the code of the screen, never of what happens.  Six shapes ignore
overtaken answers and two never have two loads under way; section 6 lists the
others.

Symmetry is used over sessions, users, rows and files where no constant tells
them apart, and in no run with liveness.  `CHECK_DEADLOCK FALSE` stands where a
finite supply of requests, jobs or sessions simply ends.

**Fairness.**  `EveryRequestEnds` needs weak fairness of every step of a request
that has arrived.  A worker thread runs its handler to the end, and
PostgreSQL gives a released row lock to somebody who waits.  Nothing is fair about
the arrival of requests, crashes or choices of users.  `WaitsEnd` needs weak
fairness of each request of a screen: the backend answers, or the browser gives up
and the promise rejects; a timer fires.  Which of them is left open, and the user
owes nothing.

Every property of a passing run has a mutant: one definition replaced by the
mistake a maintainer could make there (a lock not taken, a claim without its
condition, a status written that was not checked, an off-by-one), which must
violate it.

## 5. The proofs

All theorems hold for every set of requests, rows, users, files and quantities, and
every length of a history.  They assume the `ASSUME`s of the modules, which TLC
evaluates in every run: types of constants, that a null value is none of the others,
that tables do not share rows (`ReleaseAssumption`, `RowsAssumption`), that
registrations, a column of bounded width, are finitely many (`ImportsAssumption`).
`MCInventoryAssumption` names the scenarios.

| theorem | statement |
|---|---|
| `InventoryInvariant`, `LedgerAccounts`, `CoveredRows` | type correctness, exclusive row locks; the ledger sums explain the row up to the PATCHes; covered rows stay covered |
| `RowLockImplementsStockLedger` | `PartInventory` implements `StockLedger` |
| `ReceiptsNeverOverfulfil` | under any interleaving a receipt allocates no more than it brought, and nothing beyond what is required |
| `ReceiptsReachRequirements` | * what one receipt after the other has brought is exactly what the slots, summed up, have been given, until all are covered |
| `SerialStatusesFresh`, `SettledIsFinalOneAtATime` | * at rest statuses follow the stock, unless a PATCH, an override or a death has left a re-derivation owed; settled requirements stay settled |
| `EvidenceFilesInvariant`, `DeletionsAreReal`, `StoredObjectsAreKept`, `LifecycleIsRespected` | rows, objects and events agree; statuses move along the lifecycle only |
| `RepairsAreAuthorized` | a repair decided on an old scan finds its row as it must be |
| `DeletedFilesAreGone`, `DeletedOnceOneAtATime` | * no object behind a DELETED row, without late puts; one deletion per file, without overlapping DELETEs |
| `PurchasingInvariant` | no line claims more than was booked for it |
| `SerialStockMatchesLines`, `SerialNoOverReceipt`, `SerialDeliveredWhileReceivable` | * lines agree with the ledger, nothing beyond the order, deliveries to receivable orders only |
| `SerialRequestBoughtOnce` | * a request is on one line of the confirmed orders, whatever died or was refused before |
| `SmoothStatusMatchesLines` | * undisturbed, an order's status says what its lines say |
| `ReleaseInvariant` | what a close has seen of the tasks stays true until its commit |
| `SerialClosedWhenReady`, `SerialClosedTasksComplete`, `SerialIndependentInspector` | * an order closes only when nothing blocks, its tasks are done and proven, nobody inspects their own work |
| `ApprovalsInvariant` | exclusive claims; nobody decides on their own request; a mutation runs once for an approved request and never for another |
| `ApprovalsImplementDecision` | `EntitlementApprovals` implements `ApprovalDecision` |
| `OneOverrideOneAtATime`, `ApprovedIsGrantedOneAtATime` | * one override row; an approval leaves the row that was asked for |
| `ImportsInvariant`, `OutcomeIsFinal` | exclusive claims; a row arrives once at most; counts and outcomes are those of the rows; no step rewrites a finished outcome |
| `OnlyPreviewedRowsArrive`, `CeilingKeptOneAtATime` | * what the preview shows is what arrives; the ceiling holds |
| `ScreenTypeCorrect` | the state of every screen keeps its types |
| `AnswersItsInput` | no rows under another filter, on a screen that cancels overtaken loads |
| `ShowsWhatWasSaved` | a screen at rest shows what it has reported as saved, if it cancels overtaken loads or never has two |
| `SendsOneAtATime` | one busy state, at most one change unanswered |
| `DialogStays` | an answer finds its dialog open for its row, if nothing but an answer closes it |

A theorem marked * is about the `MCSpec` of an `MC` module, that is the specification
with the scenarios in which the code keeps the property; the sizes of the
instance are parameters there too.  The others are about the specification itself.

How they go, and why the invariants are what they are:

* *Inventory.*  `LedgerAccountsForPart` is not inductive: a movement writes a row
  computed earlier.  `InventoryInv` adds that what a lock holder has loaded is
  what the row still holds, and that at most one request holds the lock.
  Serially (`SerialInv`) every status is fresh except while a re-derivation is owed or
  a request is on its way to one, and what a request has read is still so; a
  re-derivation writes every open status, which is why it settles what is owed.  For the receipts
  (`ReceiptsInv`) the totals of the columns matter, sums over any number of slots.
  What `SumOver` computes is proved by induction, without the library's
  induction theorems: `UpTo` takes the set of numbers for which a statement fails,
  and its least element, which `WFMin` provides, contradicts `SumRecursion`.
  `SumShares`, `SumExactShares` and `SumOrder` then say what passing a rest from slot
  to slot does to a sum.
* *Evidence.*  A file that is `DELETED` has an audit event, which was written after
  its removal.  The invariant ties each phase of an upload, a delete and a repair
  to what it knows of row and bucket, with stale rows allowed.  `GoneInv` adds,
  for histories without late puts, that the object a DELETE has removed stays removed
  until its commit; `OnceInv` that of two DELETEs one at most is past its check, and
  the row it checked is STORED still.
* *Purchasing.*  `PurchasingInv` is not inductive because a receipt writes absolute
  quantities computed from what it loaded.  `PurchasingIndInv` adds that what a
  session is going to write is at most what it will have booked, whichever of its
  objects are stale, and that bookings only grow.  Serially what the one session
  has loaded is what is committed.  That a request is bought once (`BuyingInv`) needs
  its status: a request on a line of a confirmed order is past APPROVED and stays
  so, and a creation that reaches its last commit has taken each of its requests
  from APPROVED, one commit at a time, so that no request is on two of its lines.
  Undisturbed, the status of an order corresponds to its lines at every phase.
* *Release.*  No row is ever deleted and a completed task stays completed; so what
  the SELECT on the tasks saw remains true however long ago.  The other
  categories have no such property: what they saw stays true only serially, which
  `SerialInv` says of every check and every category judged (`Checked`, `Judged`),
  together with what a closed order has for good (`ClosedDone`).
* *Approvals.*  A claim holds its row's lock to the commit, so the claimed request
  is PENDING for everybody else; with that, one lemma per write and one for "one
  session moves" give the invariant, and the refinement maps every commit of a
  decision to the abstract step.  Serially the row a session has looked up is the
  only one there is, and it is as the session loaded it.
* *Imports.*  Every step changes one job, its rows and one session.  `Parts` cuts
  `ImportsInv` into a predicate for each, and the lemma `Moves` puts them together
  again; the counts follow from adding one element to a finite set.  For the
  preview (`PreviewInv`) the verdicts a session holds are those of the job for as long as
  it is the only one; for the ceiling (`CeilingInv`) whoever is about to insert, the loop of a
  commit or a creation by hand, still finds the number of active assets below it.
* *Screens.*  None of the four properties is inductive.  `ScreenInv` adds: a busy
  state is held exactly for the one call that will free it (`LocksOK`), and a load
  that a handler awaits belongs to a call that waits (`Awaited`); no load and no
  display has a version the backend does not have, and what was confirmed it has
  (`VersionsOK`); on a cancelling screen the only load whose answer will be shown
  is for the present input and, once served, has what was confirmed before it was
  issued (`NewestOK`); on a serialized screen there is one load or one call, never
  two (`SerialOK`).  Each part has a lemma of its own, with one step per action.

TLC checked the new inductive invariants on the instances of section 4 before they
were proved.  The attempts taught something about the models: a PATCH of
a requirement may store any status at all, a PATCH of the part any quantity, and a
crash may come before the re-derivation, so the history `owed` says when freshness
cannot be claimed; and the finiteness of the registrations is needed to count
assets.  `owed` and `confirmed` only record what has happened: no step of the
system reads them.

Only model-checked: liveness (`EveryRequestEnds`, `WaitsEnd`), since the prover handles
neither fairness with quantified actions nor `ENABLED`.  Every other property of a
passing run has a theorem.  Operators that take a predicate, as the library's
induction theorems do, cannot be instantiated by the provers; induction goes through
sets and `WFMin` instead, and the folds of the community modules are avoided where
something is proved about them.

## 6. Where code and documentation disagree

Each of the first five is a run that TLC shows violated, against the quoted line.

1. *A settled requirement is reopened* (`inventory_settled`).
   `part_requirement_service.py:14-15`: settled statuses are "never touched by
   fulfillment allocation or status re-derivation once reached".  A re-derivation
   that read the row earlier overwrites FULFILLED.
2. *A file is deleted twice* (`evidence_twice`).  `evidence_file_service.py:39-42`
   promises a conflict; the second SELECT returns the stale object.
3. *More is received than ordered* (`purchasing_overreceipt`), by two receipts of
   one line, against `test_over_receipt_rejected`.
4. *Rejected evidence is accepted without resubmission* (`release_resubmitted`),
   against the docstring of `evidence_service`.
5. *An approval without effect* (`approvals_effect`): an enabled override that has
   expired is not touched by the approval, against `approval_service.py:38-39`.

Others, met while modelling, that the models contain and no violation run reports:

* Inventory: "Any part-quantity change can flip an open requirement's
  SHORT/AVAILABLE status -- re-derive it immediately rather than leaving it stale"
  (`inventory_transaction_service.py:100-101`).  Three things leave it stale until
  the next re-derivation: two movements that overlap; with no overlap, a PATCH of
  the part's quantities (`part_service.py:79-97` re-derives nothing) or of the
  status itself; and a request that dies between the movement's commit and the
  re-derivation, which is a commit of its own.  The second of two concurrent
  receipts may allocate nothing.
* Evidence: a `FAILED` row may have an object, put late, that no repair removes.
* Purchasing: a cancelled order that is being received ends as received; a request
  gets on two orders that are created at once.  A creation that dies after its first
  commit leaves an order whose later requests are APPROVED still, to be bought
  again; so does, without any failure, an order that names a request twice
  (`purchase_order_service.py:74-87` checks each mention alone): the second
  `mark_ordered` finds it ORDERED and raises a conflict, and the client is told that
  an order failed which is there, in DRAFT, with the request on two lines.
* Release: a transition writes over CLOSED or CANCELLED; a task created while the
  order closes stays open on a closed order; `add_disposition` reopens a finding
  closed meanwhile; an inspector may upload evidence after the check of their
  independence; any initial status is accepted by `create_work_order`; a CANCELLED
  task blocks the order for good; findings, inspections and evidence can be
  created on closed orders.
* Approvals: two creations at once leave two overrides, after which every lookup
  fails; approving an older, smaller limit lowers a raised ceiling; a limit value
  is stored beside `is_unlimited`.
* Imports: of two flights of one new registration the second always fails
  (`CREATE_ASSET` finds the asset of the first; `test_m5_data_import_pipeline.py:213`
  and the preview call both valid).  Reconfiguring validates the stored rows, not
  "original data" (`import_service.py:717`): an unreadable date has become the
  time of the upload and a cycle count of 0 has become 1, so INVALID rows become
  importable, and the pilot of a row is lost.  A crash leaves IMPORTING for ever.
  A late reconfiguration replaces the verdicts of a finished job.  No drone can be
  imported: the validator reads `Asset.is_deleted`, which does not exist
  (`import_service.py:365`), and the commit omits the required `facility_id`.
* Ceilings are exceeded by concurrent creations, and by restoring.
* Screens without a `cancelled` flag show the answer that arrives last, whatever
  it answers: the lists of work orders, platform approvals, deleted records and
  platform entitlements and the details of a flight when the filter or the row
  changes, all others when a reload overlaps an earlier load.
  `EvidenceFilesPanel.tsx:104-107` says of its reload that "re-fetching keeps this
  component from ever drifting from server state": an upload and a deletion at
  once can leave it without the later change.
* Busy states: a purchase order's is overwritten by an action on another order, so
  a receipt under way can be sent again (`purchase-orders/page.tsx:480,489`); the
  card of `MaintenanceSection` forgets its own when the list reloads; findings of a
  drone are closed and disposed of, users activated and invitations resent with no
  busy state at all.
* Dialogs: Escape and the backdrop close a `ConfirmDialog` that is busy
  (`ConfirmDialog.tsx:42,76`), and the late answer closes or reports into the next
  one.  The timer that closes the invitation form
  (`organizations/[organizationId]/page.tsx:359,412`) also closes one reopened
  meanwhile.
* `assets/[id]/page.tsx:520-525` reports the failure of a refresh as a failure of
  the change that has been saved before it; the late answer to a
  profile photo puts back the profile it was read with, over one saved meanwhile
  (`profile/page.tsx:222-224`).

## 7. What is not modelled, and the plan

`PROJECT.json` lists every component with the reason.  In short: fleet
intelligence and the assistant keep no state; master data is CRUD whose correctness
is its unique constraints; e-mail and audit are output.  Of the frontend, demo mode
(fixed data, no requests), the contents of forms and their validation, layout, and
the tabs inside the profile and the settings are left out, and the session context
is not modelled yet.  No property is stated about the serviceability of a
quarantined part (`inventory_transaction_service.py:270`), to which the code gives
no meaning relative to the quantities, nor about what a reconfiguration reads
(`import_service.py:725`, section 6).  Check-then-act races of components that are
not modelled: AOG recovery against a new blocker (`aog_service.py:229`), overlapping
subscriptions (`subscription_service.py:169`), two provisionings of one name
(`provisioning_service.py:194`).

Next, in this order:

1. **Installations** (`BatteryInstallations`): history, pointer and cycle counts
   under the partial unique index.  Invariant: at most one open installation per
   battery; the pointer agrees with it where no attach went past the history.
2. **Deletion and restoration**: assets, work orders and organizations, permanent
   deletion against a concurrent restore, reusing the assets of `ImportJobs`.
3. **AOG events and subscriptions**: two small check-then-act lifecycles.
4. **Verification codes, provisioning, users**: attempts, expiry and cool-down with
   a bounded clock; the compensation of a provisioning.
5. **Pure algorithms** against reference definitions: Kleene evaluation,
   entitlement resolution, due computation.
6. **Session of the browser**: restoration against a login and a logout.
7. **Composition** of `Purchasing` with `PartInventory`: a receipt as a movement,
   against one abstract specification of goods received.

The runs of 1 to 5 share one instance module with `imports`, selected by scenario,
since each is small.  Theorems to add: serial histories as refinements of abstract
specifications for purchasing (goods received) and release (an order that closes
atomically), which the invariants of the proofs already prepare; the guarantees of
the catalogs, that a screen of a given shape satisfies the premise of its property;
at most one open installation per battery; exclusive claims of codes; the
refinement of the composition.
