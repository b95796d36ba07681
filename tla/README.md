# Baskety: a verification project

Baskety is a household pantry manager: a Go backend on PostgreSQL, a web client and a
mobile client over a shared TypeScript core.  This directory holds TLA+ modules of the
parts whose behaviour is more than a query, the TLC configurations that check them on
small instances, and proofs that TLAPS checks for every instance.  Paths are relative to
the root of the repository; `receipt/` and the like are below
`src/baskety/internal/`.

## 1. The system

| Component | State it keeps | Operations | What makes it correct |
|---|---|---|---|
| Job queue, `receipt/jobqueue.go`, wired in `cmd/baskety/main.go` | a buffered channel (64), two worker goroutines, the handlers by job type | Enqueue, the workers' loop, Shutdown | a job is handled at most once and not before it was accepted; an orderly shutdown loses none; everybody gets to the end |
| Receipt scan, `receipt/service.go`, `receipt/worker.go` | `receipt_scans` (a status), `receipt_scan_items` (a status, corrections, a link), `purchase_transactions` | UploadScan, the pipeline job, UpdateScanItem, CommitScan | nothing is bought unreviewed, or twice; the review sees a finished receipt; a failed scan buys nothing |
| Purchase enrichment, `catalog/worker.go` | `stores`, `catalog_entries`, the references of a transaction, batches | one job per committed transaction | a purchase is stocked once, on a live item, after it was linked; no needless duplicates |
| Catalog, `catalog/service.go` | the same tables | CreateStore, CreateCatalogEntry, listings | enrichment copes with what users insert |
| Inventory, `inventory/service.go` | inventories, items (soft-deleted), batches (emptied or not) | create, update, delete; AddBatch, PatchBatch, MarkBatchEmptied | one live item per name and category; stock is the sum of the active batches |
| Grocery, `grocery/service.go` | lists (active, completed, archived), list items | life cycle of a list, item status, order, AutoGenerate | a generated list covers what is short; the life cycle goes forward |
| Provider settings, `settings/` | LLM and OCR provider rows with a default each | create, update, delete, look-up of the default | at most one default per household |
| Households, sessions, share links, `household/`, `auth/`, `share/` | memberships, sessions, tokens | register, login, logout; membership; links | who is in, who is out, until when |
| Adapters, `adapters/` | none | one outgoing call each | answers are read as what they are; prices are reconciled |
| Client queries, `src/packages/core/src/queries` | the query cache | queries, optimistic mutations, invalidation, polling | the cache returns to what the server holds |
| Schema and `pg_cron`, `src/baskety/db/migrations` | keys, one unique index, three purges | daily and weekly statements | the purges take nothing that is still in use |

How they meet.  Request goroutines call the services; the services call the repositories,
one statement at a time.  *No database transaction spans two statements* except in the
updates of provider settings, and PostgreSQL runs at READ COMMITTED, so whatever a
service read may be stale when it writes.  UploadScan and CommitScan hand work to the job
queue; two workers run the jobs, which read and write the same tables as the requests.
The queue is in memory: it shares the life of the process, which a supervisor restarts
(`src/docker-compose.yml:41`).  The client polls a scan until its status leaves the
processing ones.

What is hard here: two requests, or a request and a job, interleaved between statements;
a job lost with the process; a sequence of statements that stops in the middle because
the database or the client went away; a channel that is full, closed, or both waited on
and closed; a provider that never answers.  The list with lines is `hazards` in
`PROJECT.json`.

## 2. The modules

| Module | What it is |
|---|---|
| `JobDelivery` | abstract specification: the life of an Enqueue call and of the job it offers |
| `JobQueue` | the queue in its process; implements `JobDelivery` |
| `ReceiptScan` | one scan, from upload to commit; its pipeline job goes through `JobDelivery` as well |
| `Enrichment` | the enrichment jobs of committed purchases and the users who edit meanwhile |
| `Numeric` | what a quantity becomes in a `numeric(10,3)` column |
| `InventorySQL`, `Inventory` | the statements on inventories, items and batches; the requests that run them |
| `Stock` | abstract specification: what the inventory promises those who read it; `Inventory` implements it, `Grocery` builds on it |
| `GrocerySQL`, `Grocery` | the same for grocery lists, with AutoGenerate over a `Stock` |
| `AccountSQL`, `Accounts` | users, sessions, households, members, share links; the two middlewares |
| `SettingsSQL`, `Settings` | settings and providers, behind the middlewares: extends `Accounts` and composes with it |
| `JobQueueProofs`, `ReceiptScanProofs`, `EnrichmentProofs`, `InventoryProofs`, `GroceryProofs`, `SettingsProofs` | theorems about the modules they extend |
| `AccountsProofs` | the lemmas about `Accounts` that `SettingsProofs` builds on |
| `StockProofs` | that `Inventory` implements `Stock`; extends `InventoryProofs` |
| `MCJobQueue`, `MCReceiptScan`, `MCEnrichment`, `MCInventory`, `MCGrocery`, `MCSettings` | the sets TLC instantiates them with |

Definitions headed `\* mutant:` are deliberate faults, one or two for each checked
property.  No specification refers to them.  They document what a property is sensitive
to: put in the place of the definition that follows, TLC finds the property violated.

### JobQueue

`buffer` and `closed` are the channel `q.jobs`, `worker` is what each goroutine of
`worker()` does, `call` is the state of each Enqueue call and `proc` follows `runServe`
from serving, through `srv.Shutdown` and the deferred `jobQueue.Shutdown`, to the exit.
`Accept`, `Refuse` and `Panic` are the outcomes of the `select`: a send into a free slot, a
context that is done (either may be taken when both are ready), a send on a closed
channel.  `Dispatch`, `Skip`, `Finish` and `Return` are the body of the range loop.
`Drained` and `Abandon` are the two ways `srv.Shutdown` ends.  `Crash` empties everything
the process held; `Restart` is the supervisor.  `started`, `ended` and `lost` are history.

### ReceiptScan

One scan is enough: scans share no row.  `worker` is the place of the pipeline job, named
for its next statement; each action of `Work` is one statement or one outgoing call, with
its error path (`Fail` for `fail()`, `stranded` when the first status update or the one in
`fail()` reports an error).  `commit` and `edit` are the CommitScan and UpdateScanItem
requests, again one action per statement.  A client that disconnects is a statement that
fails; the process dying ends job and requests and leaves the rows.  A statement that
reports an error may have been executed and only its answer lost: `SetStatus` for the
job's writes of the status, and likewise for the rows of line items and of purchases.
`unheard` remembers the one such loss that matters later: `SetLLMResult` opened the
review, and the job goes on to `fail()`.  A line item's unit is NULL, one a client typed
(`Units`), or one forced by a link, written as the inventory item it came from; the link
column itself is read by `Enrichment` only.  Prices, quantities, names and the image are
not modelled here. `approved`, `reopened`, `unheard`, `enqueued` and the fields `chosen`
and `late` are history.

### Enrichment

One household.  A job goes through the statements of `Work`; `rows` holds the stores and
catalog entries with who inserted them, `items` the inventory items, with
`idx_inventory_items_unique_name_category` as `Unique`.  A name stands for what
`strings.EqualFold` compares.  `plain` says that an item has no category, which is what a
job inserts and what makes the difference for the index.  What the jobs read of the scan
item is arbitrary, since it may be edited until they read it.  Users' handlers are one
step each: between the scope check of such a handler and its write only the row's own
deletion could matter, and an update of a deleted row shows nowhere in the model.  A name
of blanks, which would get a catalog entry and no item, is left out.

### The HTTP API: Inventory, Grocery, Accounts and Settings

Four modules are built alike, the way the packages are.  `*SQL` has one operator per
statement of `gen/sqlc`, with the keys, cascades and indexes of the migrations that decide
what it does.  The module itself has the repository (what a statement did becomes an
outcome: a row, `not_found`, a refused key), then the handlers (`HandleX`: the context's
household, the input, the first checks), the service (`AssertX`, the scope checks, one
query each; `ServeX`, the statement and the answer) and what goes on around them.  A
request is a record in `calls` whose `stage` is the next query; no transaction holds two of
them together, so every other request, `pg_cron`, the clock (`Age`, `Expire`) and the end of
the process (`Crash`) come between.  `DatabaseFails` is a statement that was not executed,
and `Settle` lets a statement that *was* executed answer with an error all the same, when
the connection broke.  Ids are random and never used again, so that a table is a function
from ids to a row, `None` (not yet) or `Gone`.  A request is sent once; a client's retry is
another request.

* `Numeric`: a service checks a quantity as the `float64` it came as, the database then
  rounds it to thousandths.  Requests carry quarters of a thousandth, rows thousandths, and
  `AsNumeric` is what happens in between: half a thousandth is rounded up, less is stored as
  0.000, though `service.go` has just found it positive.
* `Inventory`: a name stands for `lower(name)` and `lower(category)`; units, notes and dates
  of expiry are left out.  Batches hold `Stored` quantities, `AsNumeric` of what was sent.  The
  household of a request is whatever the middlewares put into its context.  `late` (the
  item was deleted before the request came) and `everHeld` (the items that ever had a
  batch) are history.
* `Stock` is what `grocery/service.go` can see through `ListItems` and
  `GetEffectiveQuantity`: each item's status, target and quantity on hand.
* `Grocery`: one inventory, whose items change as `Stock` allows (`StockChanges`), and
  which may be deleted with everything in it.  AutoGenerate is seven statements and a
  loop: the inventory service's own scope checks, the snapshot of the items, the list, and
  per item two checks, a quantity and an entry.  `runs` keeps its local variables and the
  history the property needs: `wrote`, the rows inserted, and `seen`, the levels each item
  had while the run was under way, to which `Watch` adds after every change of the stock.
  `sort_order` is an `int32` (`AsInt32`), with half its range as a constant.  A client's
  quantity goes through `AsNumeric`, and an insert of more than the column holds (`Most`)
  fails; AutoGenerate's is a difference of stored quantities, on which `round3` is exact.
* `Accounts`: `Middleware` and `ScopeMiddleware` stand in front of every operation, those
  of `Accounts` itself and those a module that extends it puts into `ScopedOps`.  Register,
  Login, Logout, the household routes with CreateHousehold's two statements, and the share
  links.  Passwords and tokens are right or wrong.  Nothing in the program writes a
  member's `expires_at` or `revoked_at`, nor a link's `revoked_at`: they stay NULL.
  `removed` is history: for each member RemoveMember took out, the requests that were past
  ScopeMiddleware for him at that moment (`Served`) and so go on without him being one.
* `Settings`: `tx` is the transaction that makes a provider the default: the rows its first
  statement saw, the rows it holds locks on, what it will write.  Under READ COMMITTED a
  statement on a row somebody else has locked waits (`Locked`), and what the transaction
  wrote shows at its commit.  System settings have no route and are left out.

Ids in a path that are no UUID are refused by the first lines of each handler and left
out, but for `X-Household-ID` and the item id of a grocery entry, which are refused later.

## 3. What is checked

| Run | Instance | Distinct states | Shows |
|---|---|---|---|
| `JobQueue` | 3 calls (one of an unregistered type), 2 workers, 1 slot, 1 restart | 59,616 | `AtMostOnce`, `ShutdownDrains`, `DrainedCloseIsSafe`, `DeliverySpec` (refinement), `AcceptedIsSettled`, `ShutdownReturns` |
| `ReceiptScan` | 2 line items, 1 inventory item, 2 commits, 2 edits | 1,080,884 | `ReviewGate`, `ReviewSeesWholeReceipt`, `FailedBuysNothing`, `FailedIsFinal`, `LateCommitBuysNothing`, `AnsweredIsComplete`, `EnrichmentFollowsCommit`, `CommitUndoneOnce`, `JobDeliveredOnce` (refinement), `UploadSettles` |
| `Enrichment` | 2 jobs on 2 workers, 1 store, 1 product, 1 user's item, 1 change by users | 960,553 | `StockedOnce`, `StockFollowsLink`, `DeletedStaysEmpty` |
| `EnrichmentRace` | 3 jobs on 2 workers, 1 product, no store, 1 user's item, 1 change | 2,431,830 | `DuplicatesBounded`, `OneItemPerName`, `RefusedWasRaced` |
| `Inventory` | 2 requests, 2 households, 2 inventories, 2 items, 2 batches, 2 names, amounts -1, 1/4 and 2 thousandths | 359,504 | `Integrity`, `ScopeHolds`, `CreateLeftovers`, `EmptiedStaysEmptied`, `StockSpec` (refinement) |
| `Grocery` | 2 requests, 2 lists, 3 entries, 2 items, 1 change of the stock, quantities 0, 1/4 and one that does not fit, `int32` that wraps at 4 | 2,229,410 | `NoDangling`, `GeneratedFromStock`, `ListLifecycle` |
| `Settings` | 2 requests, 3 users, 2 sessions, 2 households, 1 link, 4 LLM and 3 OCR providers | 213,574 | `Admission`, `OwnerLeftovers`, `OneDefault`, `NothingIsLost` |

All but `EnrichmentRace` check their module's `TypeOK` too, which for
the last three says that no request can put a row into a table that its columns, keys and
checks do not allow.

Why these bounds.  A one-slot channel is full after one job, so that with three calls one
can be running, one buffered and one blocked, which are all the situations a job can be in
with respect to another.  Two commits are needed for one to overtake the other, and two
items for one to stop in the middle of its loop; a second edit is needed to withdraw what
the first approved.  Typed units matter to one claim only, and are in `ReceiptLinkedUnit`.
Two jobs race; a third one comes after the race and finds two rows.  The invariants proved
in section 5 hold without bounds.

Each hazard of the API needs two requests and a statement of one between two of the
other, and every operation can meet every other one.  Tables have a row to work on and
room for what two requests can insert; a household and an inventory that are not the
caller's are there to be refused.  `Grocery` has one item that is short and another that
may appear, go or change between the statements of AutoGenerate.  `Settings` starts with a
default and another provider of each kind, so that two requests can each make one the
default while the third row is inserted.

Bounds in guards: `MaxRestarts`, `MaxEdits`, and `MaxChanges` of `Grocery` (the changes of
the stock).  `Most` is no bound but the column's.  Deadlock is not checked: in each module
the requests are finite and everything may come to rest. `EnrichmentRace` uses symmetry
over the jobs, `Grocery` and `Settings` over the two requests; no liveness property is
checked in them.

### Fairness

* `JobQueue`: a worker that can receive does, and the deferred calls of `runServe` run.
  That handlers return (`HandlersReturn`) is *not* assumed; it is the antecedent of the two
  liveness properties, because `adapters/llm/adapter.go:230` calls a provider with no
  timeout and a job's context is never done.
* `ReceiptScan`: the pipeline's database statements return.  That the providers do
  (`ProvidersAnswer`) is the antecedent of `UploadSettles` for the same reason.
* The API modules state no liveness: a request is a fixed number of statements, and
  nothing waits but a transaction of `Settings` for another, which PostgreSQL resolves.
* Nothing is assumed of users, of clients, of crashes or of restarts.

## 4. What the code does not do

Five runs expect a violation.  Each checks one thing the repository says and TLC finds a
behaviour of the code that contradicts it.

| Run | Claim | What happens |
|---|---|---|
| `ReceiptReopened` | the state machine of `docs/ARCHITECTURE.md:102-104` ends in `committed` | `SetLLMResult` opens the review, a reviewer commits, the worker's next statement (`receipt/worker.go:109`) writes `pending_review` over `committed`; or the answer of `SetLLMResult` is lost, a reviewer commits, and `fail()` (`:58`) writes `failed` over it.  TLC prints one of the two, which take equally many steps |
| `ReceiptBoughtTwice` | "Creates a `purchase_transactions` row per accepted/corrected item" | two commits both pass the status check (`receipt/service.go:182`), or the first fails in the middle and is retried; both insert |
| `ReceiptLinkedUnit` | the linked item's unit "is authoritative" (`receipt/service.go:156-158`) | an edit that does not repeat the link keeps it and replaces the unit |
| `EnrichmentLostStock` | "receipts of brand-new products still populate inventory" (`catalog/worker.go:105-108`) | two jobs miss the same product; the unique index refuses the second insert, the job ends and is not retried |
| `SettingsOwnerless` | "A household must always have at least one `household_members` row where `role = owner`" (`docs/superpowers/specs/2026-06-07-db-schema-design.md:77`) | CreateHousehold's first insert is executed and the second is not (`household/service.go:37`); or RemoveMember takes the last owner (`:85`) |

The properties that do hold are stated so that they say how far this goes:
`CommitUndoneOnce` has only the last statement of the pipeline take a scan out of
`committed`, so once: to `pending_review`, or to `failed` when the answer of `SetLLMResult`
was lost.  Short of such a loss a failed scan has bought nothing (`FailedBuysNothing`) and
stays failed; with it, a commit under way may still mark it (`FailedIsFinal`).
`LateCommitBuysNothing` holds as long as the scan was not reopened; `DuplicatesBounded`
bounds the duplicates of find-then-insert by the number of workers; `RefusedWasRaced` says
that only a race costs a purchase its stock.  That it takes two workers to race is proved,
for any jobs and items, in section 5 (`OneWorkerStocks`).  `OwnerLeftovers` has the two ways
above as the only ones in which a household's creator does not own it.

Three more places contradict a document or an error message, and no property is about them:

* PatchBatch to quantity 0 leaves `emptied_at` NULL (`inventory/service.go:264`), so the
  empty batch stays among the active ones and is never purged;
  `docs/superpowers/specs/2026-06-07-db-schema-design.md:120` says "When it reaches 0,
  `emptied_at` is stamped".  What an item has on hand is the same with either, so `Stock`
  does not show it.
* CompleteList completes an archived list again (`grocery/service.go:151`), though line 149
  of the same document has the life cycle active, completed, archived.  The list never
  becomes active again (`ListLifecycle`).
* AddBatch refuses a quantity that is not positive ("quantity must be positive",
  `inventory/service.go:215`), and AddItem of a list replaces it by 1
  (`grocery/service.go:209`); a positive quantity below half a thousandth passes both and is
  stored as 0.000.  An entry AutoGenerate writes is never empty (`GeneratedFromStock`).

Where the repository says nothing, the models show what does happen, within a property
that bounds it.  An item may be left behind by a creation that failed in the middle
(`CreateLeftovers`).  An update may land on an item deleted since its check, but does not
bring it back (`StockSpec`).  A negative `initial_quantity` is stored, as nothing looks at
it (`CreateLeftovers`).  A `sort_order` beyond 32 bits wraps around (`AsInt32`).  A
generated list may fit no single moment of the stock; each entry fits some moment
(`GeneratedFromStock`).  CreateLLMProvider may add a second default, and two requests each
making another provider the default leave one among those both saw (`OneDefault`).  A
removed member's request that was already let through is served (`Admission`).

## 5. What is proved

Every safety property of section 3, invariant or action property, and every refinement is a
theorem, for every set of jobs, workers, items, lists, users, providers and requests and
every capacity, under the assumptions named in the modules.

| Assumption | What it says |
|---|---|
| `QueueAssumption`, `ReceiptAssumption`, `EnrichmentAssumption` | capacities and numbers of workers are positive, bounds are natural numbers, the kinds of items and jobs are told apart |
| `InventoryAssumption` | amounts are integers; there are finitely many, and finitely many ids a batch can get, so that what an item has on hand has bounds |
| `GroceryAssumption` | quantities and levels are integers; a quantity of one fits its column; an inventory has no more items than half the range of `sort_order`'s `int32`, so that AutoGenerate's counter does not wrap |
| `AccountsAssumption`, `SettingsAssumption` | operations behind ScopeMiddleware are none of those in front of it; ids of households are numbered in the order of their creation, which the default of ScopeMiddleware looks at; the two kinds of providers share no id |
| `AcctsAssumption`, `StartsAssumption`, `BodiesAssumption` | the tables a behaviour starts from satisfy their columns and foreign keys, whoever created a household owns it, and a completed list has a date; the bodies of requests have the fields of the handlers |

They say, too, that the values for NULL, "no row yet" and "deleted" are none of the others,
where a module has them.  Each is evaluated by TLC in the runs of its module.

`JobQueueProofs`.  `AtMostOnce` is not inductive: nothing in it keeps a job from being in
the channel and with a worker at once.  `QInv` says where an accepted job is: at one place
of the channel and not started (`BufferedOnce`), or with one worker and started once
(`RunningOnce`), or settled in one way (`SettledAccepted`), and nowhere else
(`Conserved`); a worker that left a live process saw the channel closed and empty
(`GoneDrained`); once requests have returned no call is left (`DrainedIdle`).
`QueueInvariant` proves it; type correctness, at-most-once, the draining shutdown and the
safe close follow.  `QueueImplementsDelivery` proves that each step is a step of
`JobDelivery`, or a stutter, under the mapping `PhaseOf`.

`ReceiptScanProofs`.  `ScanInv` ties the four actors together by the place the pipeline
job has reached: what the status may be there (`JobPlace`), that a commit gets past its
check only when the pipeline is past its last write to a row (`OpenPlace`), that what a
commit bought is what it chose minus what it has still to do (`CommitPlace`), that rows
with an approving status were approved (`ApprovedRows`), that an answered commit left the
scan `committed`, or `failed`, unless it was reopened (`MarkedPlace`).  The job writes to
no row once `SetLLMResult` was executed, heard of or not (`Reviewed`); it comes to
`fail()` with the review open only when it was not heard of (`JobPlace`).  From it follow
type correctness, `ReviewGate`, `ReviewSeesWholeReceipt`, `FailedBuysNothing`,
`LateCommitBuysNothing`, `AnsweredIsComplete`, `EnrichmentFollowsCommit`, and that the
pipeline job refines `JobDelivery`.  `FailedIsFinal` and `CommitUndoneOnce` are about the
writers of the status, and `StatusWriters` names them: the upload, one of the job's
statements, or a commit.

`InventoryProofs`.  `ScopeHolds` says nothing of a request between its checks, so it is not
inductive.  `IInv` adds what each request has with it at each stage (`Carried`), what the
checks it passed found (`Scoped`), and why a request that came too late gets no further
(`LateStopped`).  Those facts are about tables that other requests write, so the argument
goes through one relation, `Stable`: rows neither come back nor change owner, a deleted
item stays deleted, an emptied batch stays as it is.  Each statement is shown once to be
`Sound`: it keeps types, foreign keys and the unique index, and is `Stable`; and each
request's knowledge is shown once to survive `Stable` (`CallStable`).  Type correctness,
`Integrity`, `ScopeHolds`, `CreateLeftovers` and `EmptiedStaysEmptied` follow, for any
number of requests and any database the keys allow to start from.

`StockProofs`.  `StockSpec` is a refinement: each statement is a step of `Stock`, or one
that does not show there.  An item's status and target are columns of its row; what it has
on hand is a fold over the set of its active batches, which is where induction comes in.
The induction theorems of the library take the property as a parameter and cannot be used,
but `SmallestSubset` can: among the subsets of a finite set where a claim fails there is
one that contains no other.  In this way the recursion behind the fold is shown to have a
solution (`TotalsExist`) and only one (`SameTotals`); hence the sum is 0 over no batches,
depends on nothing but the batches summed up (`SameQuantity`), and is one of the `Levels`
(`TotalInLevels`).  Two lemmas cover the statements on batches: nothing active changes
(`NothingMoves`: an emptied batch that ages or is purged), or what changes belongs to one
item whose row the foreign key guarantees (`OneRestocked`).  The deletion of an inventory
is the one step that takes several items, and `Lose` takes exactly the inventory's.

`EnrichmentProofs`.  None of the properties is inductive, since each is about what a job did
*since* it looked, while other jobs and users went on.  `Job(t)` says what a job may rely on
at its next statement: that it looked up the right rows or none (`LookedUp`), what it has
stocked and will stock (`Stocked`), and, while `edits = 0`, what no user has disturbed
(`Undisturbed`).  What the others cannot take away from it is `Grows`: rows stay, deleted
items stay deleted, and no item that is there changes while no user has changed one.  Each
statement keeps its own job's knowledge and is `Grows`; one lemma (`JobStable`) carries
every other job over it. `DuplicatesBounded` needs another idea.  `Racers` are the jobs that
inserted a row of a name or are about to: before there is a row they all run at once, so
they are no more than there are workers, and once there is one nobody joins them
(`NoLateRacer`).  `EnrichmentOneItemPerName` and `EnrichmentRefusedWasRaced` follow from
`Indexed`, the unique index, and `Undisturbed`. `OneWorkerStocks`, the complement of
`NewProductsStocked`, has no run of its own.  It rests on `Alone`: a job about to insert its
item still finds none of that name, as the only job that runs is itself (`OneRuns`) and
nobody else inserts items unless a user edits.

`AccountsProofs` and `SettingsProofs`.  One invariant for both, as the middlewares stand
in front of every request.  For each stage it says what the request carries, what its
token was worth when it came (`Admission` is about then, not now).  `Stable` is what no
step takes back: a revoked, expired or purged session is never valid again, a member keeps
his role or is in `removed` with the requests let in for him (`Served`), a household keeps
its creator. `MembersOnly` follows in two steps: a step lets a request in only for a
member (`Entitled`), and a request once let in stays covered when its user is removed
(`AdmissionKept`).  The household ScopeMiddleware picks by default is the newest one, a
`Max`; that it is a member's needs `MaxIsMember`, again by the smallest counterexample.
For the transactions, `TxOf` says that what a transaction's first statement saw and does
not hold is gone for good, and that what it holds is the household's; `KeepsLocked` says
that nobody else deletes a row it holds.  `OneDefault` and `NothingIsLost` are action
properties: `Cleared` and `Saved` are what they say of one step, proved with the
invariant, step by step. All statements but the two transactions' go through
`NoTransaction`.

`GroceryProofs`.  `GeneratedFromStock` looks at runs that are over.  `RunInv` follows a
run while it works: each item it read is ahead of it, in its hand, asked for by an entry,
or was seen with enough (`Covered`); each entry is the target minus a level seen, one for
each item, numbered without gaps (`Written`); and there are as many places left as items
(`Counted`). A run knows of the stock only the levels it may have seen, so that one lemma
(`Watching`) carries all runs over every change of the stock, whatever `Stock` allows.
Since `Inventory` implements `Stock`, that is every change the inventory's API can make.
The tables are shown to keep their foreign keys under each statement once, together with
what `ListLifecycle` says of one step (`Lives`).

Only model-checked: the liveness properties `AcceptedIsSettled`, `ShutdownReturns` and
`UploadSettles`, which need fairness and `ENABLED` and are beyond the prover.  The five
claims of section 4 are refuted, not proved: TLC's counterexamples are what there is to
say.

## 6. The plan

Done: all modules of section 2, and a theorem for each safety property and refinement.
What is left:

1. Statements about what the modules *together* promise, for instance a bound on what a
   generated list orders in terms of the inventory's own batches rather than of a `Stock`.
2. Shorter proofs: `AccountsProofs` and `StockProofs` each have `SmallestSubset`, and the
   lemmas on a table of rows are stated once for each table.

Not modelled:

* The clients' query caches: optimistic mutations, rollback and refetch rest on the
  scheduling of TanStack Query, of which the repository holds only the calls.  The polling
  of a scan is in `ReceiptScan`.
* Prices: `reconcilePrices` (`adapters/llm/adapter.go:154`) multiplies, divides and rounds
  IEEE doubles, and the review page does so in JavaScript; TLC has integers.
* System settings (no route reads or writes them), list pinning and list expiry (no route
  sets them), inventory permissions and `background_jobs` (never written).
* HTTP decoding and encoding, configuration, static files, the look of the screens, the
  stores of the client, file storage and what the outgoing calls exchange.
