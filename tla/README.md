# TLA+ models of backend-erp

`backend-erp` is a multi-tenant ERP for manufacturers: NestJS services over
PostgreSQL (one schema per tenant, READ COMMITTED transactions through Kysely),
Redis with BullMQ, and a Go worker, kept elsewhere, that calculates material
requirements. Every request handler is an async function that runs a few SQL
statements; what makes the system hard is that the handlers of many users run
interleaved, statement by statement, over shared rows.

This directory models the parts where the interleaving matters, checks them
with TLC and proves with TLAPS, for every number of requests, every safety property that the
runs check.

    tlc -workers 2 -config GeneralLedger_safety.cfg MCGeneralLedger
    tlapm GeneralLedgerProofs.tla       # and the other modules named ...Proofs, and Sums

`PROJECT.json` lists every run with its module, the source lines of every
definition, the findings and the hazards.

## 1. Inventory

Paths are below `src/src/`.

### Accounting (`modules/accounting/services`)

| part | state | operations | interacts with |
|---|---|---|---|
| journal entries (`journal-entry`) | `journal_entries` with lines, `general_ledger`, `account_balances` | create, post, reverse, autoPost | periods (row lock), document numbers, called by receipts, deliveries, invoices, payments and work orders inside their transactions |
| periods (`fiscal-period`) | `fiscal_years`, `accounting_periods` | create year, close year, create period, change period status, find the period of a date | journals of the period |
| payable (`ap`), receivable (`ar`) | transactions, payments, allocations | create, pay, update received | invoices, journals |
| bank (`bank`) | bank transactions, reconciliations per account and period | create, complete | periods |
| accounts, reports | `accounts` | master data, read-only queries | |

Hard: a period closed while a journal is on its way into it; one journal posted
twice; the retry of a business document whose journal exists; running balances
kept by reading the previous row; a reversal that runs create and post inside
its own transaction; period locks taken in two modes.
Correct when: journals, ledger and balances agree and balance; a closed period
never changes; a business reference has one journal; requests end.

### Inventory (`modules/inventory/services`, `database/stock-lock.ts`)

| part | state | operations | interacts with |
|---|---|---|---|
| movements (`inventory-movement`) | movements with items; stock is their sum | create, confirm, cancel | receipts, deliveries, work orders and opnames insert confirmed movements |
| stock keys (`stock-lock`) | advisory locks per variant, warehouse, batch | lock in sorted order, read stock on hand | everything that takes stock |
| `stock_summary`, `available_stock` | materialized views | REFRESH at the end of stock transactions | opname, stock queries, availability checks |
| opname (`stock-opname`) | opnames with counted items | create, complete, cancel | movements, view |
| warehouses, queries | master data | | |

Hard: concurrent issues of the last piece; lock order over several keys; a
document confirmed twice; cancel against confirm; a REFRESH that waits for
another one; opnames that start together or post two movements.
Correct when: stock is never negative; a document posts once; final statuses
stay; the view shows the sum; an opname moves stock by what was counted.

### Purchasing (`modules/purchase-order/services`, `ap` of accounting)

| part | state | operations | interacts with |
|---|---|---|---|
| orders (`purchase-order`) | `purchase_orders` with items: quantity, quantity received | create, update, confirm, cancel, update received quantities | receipts |
| receipts (`goods-receipt`) | `goods_receipts` with items | create, confirm | the order (row lock), movements, view, journals |
| invoices (`vendor-invoice`) | `vendor_invoices` with their receipts | create, cancel | receipts, payables |
| payables (`ap`) | `ap_transactions`, `ap_payments`, allocations | create with the invoice, pay | invoices, journals, periods |
| purchase requests, RFQs (`purchase-request`, `rfq`) | status chains, quotes with items | create, submit, approve, reject; send, answer, select | orders |

Hard: pending quantities checked when the draft is created, not when it is
confirmed; an order updated while it is confirmed and received; a receipt invoiced
twice; parallel payments of several payables; an invoice cancelled while it is being
paid. Correct when: received quantities are what receipts brought, the status of an
order follows from them, paid amounts are the allocations and at most the invoice,
cancelled orders and invoices have nothing received or paid.

### Sales (`modules/sales-order/services`)

| part | state | operations | interacts with |
|---|---|---|---|
| quotations (`sales-quotation`) | a status chain | create, send, accept, reject, cancel | orders name an accepted one |
| orders (`sales-order`) | `sales_orders` with items: quantity, quantity delivered | create, confirm, cancel, update delivered quantities | `available_stock`, demands of the MRP |
| deliveries (`delivery-order`) | `delivery_orders` with items | create, confirm, cancel | the order (row lock), stock keys, movements, both views, journals |
| invoices, receipts (`customer-invoice`) | `customer_invoices` with their deliveries, `payment_receipts`, allocations, `ar_transactions` | create, pay | deliveries, orders, receivables, journals |

Hard: an order cancelled while it is delivered or invoiced; deliveries of one order
confirmed in parallel; a delivery confirmed while an invoice is made; parallel
receipts; two views refreshed in opposite orders; a reservation that counts against
its own delivery.
Correct when: delivered quantities are what confirmed deliveries list, final orders
stay final, a delivery is invoiced once, receipts and invoices agree.

### Production (`modules/production/services`)

| part | state | operations | interacts with |
|---|---|---|---|
| MRP runs (`mrp-run`) | `mrp_runs`, BullMQ jobs | trigger, cancel | queue, worker |
| reconciliation (`mrp-reconciliation`) | the same | every minute: pending, failed, exhausted, stuck runs | queue, all tenants |
| demands, planned orders | `mrp_demands`, `planned_orders` | create, cancel, approve | sales orders; work and purchase orders |
| work orders (`work-order`) | orders, materials, operations, results | create, confirm, start, consume, record result, cancel | stock, journals, BOM |

Hard: a planned order approved twice or while it is cancelled; a work order
cancelled while it is supplied; several quantities written by one result. Of the runs:
nothing about a run is one transaction, PostgreSQL and Redis are written
one after the other; the process or the worker dies in between; passes overlap
and work on rows they read earlier. Correct when: a planned order leads to one order; quantities, stock and journals of
work orders agree; one run is active; planned
orders exist for completed runs only; a run follows its transitions and
ends.

### Bills of material (`modules/bom/services`)

Headers (one per variant), versions with a status, a tree of items, operations,
by-products. Everything but the activation of a version is one statement after a
check. Hard: versions activated together; items edited while a version is activated;
children added below an item that is being deleted. Correct when: one version is active,
the explosion of a version is its tree.

### Quality control (`modules/quality-control/services`)

Parameters, checklists, inspections with results and defects. Hard: an inspection
completed twice, or cancelled while it is completed. Correct when: a concluded inspection
rests, with answers to all that was required.

### What tenants share

| part | state | operations | interacts with |
|---|---|---|---|
| connections (`database/database.service`, `common/interceptors/tenant.interceptor`) | a pool of clients, each with a `search_path`; a cache of salts | take and release a client for a request, look the salt up, cron passes over all tenants | every handler |
| migrations (`database/migration.service`), administrator (`database/bootstrap-admin.service`) | `migration_history` of each schema | apply the files of all schemas at start-up, find the role, insert the administrator | the pool |
| transactions (`database/transaction`), document numbers (`common/document-number.service`) | a counter row per type, locked until COMMIT | run a callback in one transaction, generate | every handler |

Hard: a client kept, or returned with a tenant's `search_path`; clients held by those
who wait for a second one; crashes between a migration and its record; two instances
that start together. Correct when: a statement means its own tenant's tables, no client
is lost, the history is true, every call and every start ends.

Authentication (tokens in PostgreSQL and Redis), hash ids, product master data,
warehouses, reports: see "Not modelled".

## 2. The modules

| module | models | used by |
|---|---|---|
| `Transactions` | requests, connections, locks, `executeInTransaction`, the deadlock detector | all modules of this table down to `Paperwork` |
| `Sales` | sales orders, deliveries, invoices, receipts, receivables, both views, demands | `MCSales`, `SalesProofs` |
| `BillOfMaterials` | headers, versions, items, operations, by-products, the explosion | `Production` |
| `Production` | planned orders, work orders, their stock and journals | `MCProduction`, `ProductionProofs` |
| `FiscalCalendar` | fiscal years, periods, bank transactions and reconciliations | `Paperwork` |
| `Sourcing` | purchase requests, RFQs with quotes, quotations | `Paperwork` |
| `Quality` | parameters, checklists, inspections | `Paperwork` |
| `Paperwork` | the three above over the same connections | `MCPaperwork`, `StandaloneProofs` |
| `GeneralLedger` | journals, ledger, balances, period status | `MCGeneralLedger`, `GeneralLedgerProofs` |
| `Books` | what the ledger promises, without statements, locks or requests | instantiated by `GeneralLedger` |
| `StockLedger` | movements, stock keys, documents that post stock, opname, `stock_summary` | `MCStockLedger`, `StockLedgerProofs` |
| `Purchasing` | purchase orders, goods receipts, vendor invoices, payables, payments | `MCPurchasing`, `PurchasingProofs` |
| `MrpRuns` | runs, reconciliation, queue, worker | `MCMrpRuns`, `MrpRunsProofs` |
| `TenantConnections` | pool, requests, cron passes, `search_path` | `MCPlatform`, `StandaloneProofs` |
| `Migrations` | the start of instances of the backend | `MCPlatform`, `StandaloneProofs` |

| proofs | of |
|---|---|
| `Sums` | lemmas about sums over finite sets |
| `GeneralLedgerProofs` | the locks of `GeneralLedger` and its closed periods; posting, and that `GeneralLedger` implements `Books` |
| `StockLedgerProofs`, `PurchasingProofs`, `SalesProofs`, `MrpRunsProofs` | the module they are named after |
| `ProductionProofs` | `Production` with `BillOfMaterials` |
| `StandaloneProofs` | the components that share no table: `TenantConnections`, `Migrations`, and `Paperwork` with its three |

The MC modules hold instances: the contents of the constants, and initial states that a
few requests lead to.

### How a transaction is modelled

All modules but the last three share one picture of PostgreSQL. A *request* is
a process with a program counter `pc[r]`, which names the statement it runs next,
a record `tx[r]` with the local variables of the handler, and `locks[r]`. One
action is one statement that another transaction can influence: a locking read,
a unique check, a REFRESH, the COMMIT, and, where a handler reads outside its transaction,
each read. Statements in between that only touch rows
already locked belong to the same action. A lock is taken when no other request
holds a conflicting one (`Free`), and the row is read in the same action: in READ
COMMITTED a `SELECT ... FOR UPDATE` that waited returns the version that is
committed when the wait ends. Tables change when a transaction commits; `End` releases
its locks. `Fail` rolls back at any
statement: it stands for rejected arguments that are not modelled (a date outside
its period, a missing account, an unknown unit), lost connections, crashes, document
numbers, and the failing statements of a surrounding handler.

`Transactions` has this picture once, for the modules that extend it: `Begin`, `Continue`
and `End` move a request, `needs[r]` are the locks of its next statement, and `At` is
the wait for them. `GeneralLedger`, `StockLedger` and `Purchasing` have their own copy, as
they need more: lock modes and write sets that later statements of the same transaction
read (`GeneralLedger`), advisory keys and snapshots (`StockLedger`), several locks of one
statement taken one by one (`Purchasing`).

Where a property depends on it the model is finer: `NOW()` is the time of BEGIN
(`clock`, `began`), the default of `general_ledger.created_at`; a REFRESH takes its
snapshot in one action and the view's lock in the next; an UPDATE with a condition that
waited looks at the rows again (`RejectOthers`, `Obsolete`).

### GeneralLedger and Books

`journal`, `ledger`, `balance`, `periodStatus` are the tables. A line's amount is
positive for a debit and negative for a credit.

* `BeginCreate`, `CreateLockPeriod`, `InsertJournal`: `create()`. The counter row
  of the journal numbers serialises all inserts of a tenant until COMMIT, which is
  why the unique check sees committed rows only.
* `BeginPost`, `LockJournal`, `LockPeriod`, `LockAccounts`, `PostLine` (once per
  line), `MarkPosted`: `post()`. Lines come back in no particular order.
* `BeginAutoPost`, `ResolvePeriod`, `InsertDuplicate`, `Recover`: `autoPost()`, in its
  own transaction ("autoPost", where a duplicate reference is recovered from) or in
  that of a business handler ("businessPost", where the duplicate has aborted the
  transaction and the recovery query fails too).
* `BeginReverse`, `ReverseLockJournal`, `ReverseLockPeriod`, then the statements of
  create and post, then `ReverseLink`: `reverse()`. `DeadlockVictim` is PostgreSQL's
  deadlock detector, needed as two reversals may share-lock a period before both
  ask for it exclusively.
* `BeginUpdateStatus`, `LockStatus`, `CheckDrafts`: `updatePeriodStatus()`.

`Books` is the abstract specification: an entry is recorded in an open period, becomes
posted whole if it balances, has its rows in the ledger and in the totals in that very
step, and a period closes when it has no draft. `GeneralLedger` maps its tables to it
(`B`) and leaves out requests, locks, write sets, running balances and times; `KeepsBooks` says
that every statement is a step of `Books` or none.

### StockLedger

`movement`, `opname` and `summary` are the tables and the view. `Documents` are the
source documents that can be confirmed or consumed; of their handlers the module
has what concerns stock: the document lock, the stock keys and the check, the
inserted movement with its unique reference, the REFRESH. A delivery inserts its
movement before it locks its keys, a consumption after. Batches are part of a
variant here: a key is a variant and a warehouse.

### MrpRuns

Every UPDATE commits by itself, so every statement and every queue call is an
action on the shared state: `run` (rows), `job` (the BullMQ job whose id is derived
from the run), `planned` (runs with planned orders). A reconciliation pass holds the
rows its SELECT returned (`pass[p].rows`) and works on them one by one. The worker and
the queue are not part of this repository; their actions are the contract that
`docs/planning.md` 4.4 and 4.5 state and what the calls in these services rely on, and
they are marked external in the map. Time is two
facts per run: pending for more than 30 seconds, running for more than 5 minutes.
A run that is both too young and unclaimed is simply not selected.

### Purchasing

`order`, `item`, `receipt`, `invoice`, `payable` and `allocated` are the tables; an
order is created with its items before the behaviour starts (`Init`), as a draft nobody
else can know.

* `ConfirmOrder`, `CancelOrder`, `CancelInvoice` are single UPDATEs whose condition
  decides; the read before the UPDATE changes nothing and is left out.
* `BeginUpdate`, `LockItem`, `LockHeader`, `CommitUpdate`: `update()`, which reads the
  status before its transaction.
* `BeginReceipt`, `ValidateLine` (once per line), `InsertReceipt`: `create()` of a receipt,
  each check a read of its own; a line may name an item of another order, as in the code.
* `BeginConfirm`, `LockReceipt`, `LockOrder`, `Refresh`, `SumReceived`, `LockItem` (once per
  item), `CommitConfirm`: `confirm()` of a receipt with `updateReceivedQuantity()`.
* `BeginInvoice`, `CheckReceipts`, `CheckInvoiced`, `InsertInvoice`: `create()` of an invoice
  with its payable.
* `BeginPayment`, `LockPayable` (in the order of the ids), `LockInvoices`, `Allocate`,
  `CommitPayment`: `createPayment()`. `Allocate` is where the CHECKs of migration 014 refuse.

Abstracted: a piece has one price, the tax included; there is one supplier, one
warehouse and one variant per item; the reads before the transaction of
`createPayment()` are one; the movement, the journal and the document number are other
modules, here only a reason for `Fail`. The payable of an invoice has the invoice's id.

### Sales

The tables are named like those of `Purchasing`; `stock`, `summary` and `available` are the
stock by movements and the two views.

* `BeginStatus`, `ChangeStatus`, `RefreshAvailable`, `CommitStatus`: `confirm()` and `cancel()`
  of an order, which lock the row by a SELECT or an UPDATE, refresh the reservations and, on
  confirmation, insert the demands. A row that refers to the order waits for the SELECT FOR
  UPDATE and not for the UPDATE (`Referable`).
* `BeginDelivery`, `Validate` (once per line, against pending quantities and
  `available_stock`), `InsertDelivery`: `create()` of a delivery; `CancelDelivery` its cancel.
* `BeginConfirm`, `LockDelivery`, `LockOrder`, `CheckStock`, `RefreshSummary`, `RefreshReserved`,
  `SumDelivered`, `CommitConfirm`: `confirm()` with `updateDeliveredQuantity()`, which sums in one
  statement, and then writes the items and derives the status.
* `BeginInvoice`, `LockInvoiceOrder`, `LockDeliveries`, `CheckInvoiced`, `CommitInvoice`: an invoice
  over deliveries, its receivable, and the order that may become invoiced.
* `BeginReceipt`, `LockInvoices`, `CommitReceipt`: a receipt, checked before and again inside
  its transaction, with the CHECK of migration 014.
* `Arrive` is a goods receipt as sales see it, `CancelDemand` a user of the MRP.

### BillOfMaterials and Production

`version`, `item`, `extra` (operations and by-products) are the rows of bills; `referenced`
are those that work orders name, which foreign keys keep. `CreateHeader` and `DeleteExtra` are
one statement; the other operations read, and write one statement later: `BeginVersion` and
`InsertVersion`, `BeginAddItem` and `InsertItem`, `BeginItem` and `UpdateItem` or `DeleteChildren`
and `DeleteItem` (two transactions of their own), `BeginAddExtra` and `InsertExtra`.
`activateVersion()` is `BeginActivate`, `CountItems`, `Obsolete`, `Activate`, with the partial unique
index `IndexAllows`. `Reached` and `Explode` are `explodeBom()`.

`Production` adds `planned`, `bought`, `workOrder`, `material`, `process`, and what movements and
results sum up to. `BeginApprove`, `LockPlanned` (once per planned order), `CommitApproval`:
`approve()` and `bulkApprove()`; `CancelPlanned`; `BeginCreate`, `InsertOrder`; `BeginChange`, then
`UpdateOrder`, `CancelOrder` or `StartProduction`, which act on what was read;
`LockConfirm`, `CommitConfirm` with the explosion; `LockConsume`, `CheckStock`, `CommitConsume`;
`LockResult`, `CommitResult`; `StartOperation`, `CompleteOperation`.

### FiscalCalendar, Sourcing, Quality

Three components over one set of connections (`Paperwork`). They have no table in common,
so a behaviour is for one `desk` at a time.

* `FiscalCalendar`: `CreateYear`; `BeginPeriod`, `YearOfPeriod`, `PeriodNumber`, `PeriodRange`,
  `InsertPeriod`: `createPeriod()`, three reads under the lock of the year; `BeginCloseYear`,
  `CloseYear`, `LockOpenPeriods`, `WriteYear`; `BeginPeriodStatus`, `LockPeriod`, `WritePeriod`; the bank:
  `CreateBanked`, `BeginRecon`, `InsertRecon`, `BeginReconcile`, `LockRecon`, `MarkBanked`, `CommitRecon`.
* `Sourcing`: a status change of a request, an RFQ or a quotation is a read and an UPDATE
  without a condition (`ReadPaper`, `WritePaper`, `RequestSteps`, `RfqSteps`, `QuotationSteps`).
  `BeginQuote`, `FindQuote`, `WriteQuote`, `DeleteLines`, `InsertLines`: an answer of a supplier, first or
  repeated; `answers` are the answers whose lines a quote has. The row of the quote is written, and so locked,
  before the lines that the DELETE sees are replaced by those of the INSERT. `BeginSelect`, `RejectOthers`,
  `SelectOne`, `CloseRfq`: the selection. `BeginOrder`, `InsertOrder`: the order of a quotation.
* `Quality`: `BeginComplete`, `LockInspection`, `CheckRequired`, `CommitInspection` with the
  comparison of values with their limits; `BeginCancel`, `CancelInspection`; parameters and
  checklists.

### TenantConnections and Migrations

`client` is the state and the `search_path` of each connection of the pool, `caller` what each
request, public query or cron pass is doing and which clients it holds. `Serve` is the pool,
in the order of `pending`; `ConnectTimeout` its timer. A request does `SetPath`, `Salt`, perhaps
`TenantFound` and `SaltFound` with a second client while it holds its first, then
`HandlerStatement`s, `HandlerEnds`, and `Reset`; `ResetFails` closes the connection. A pass goes from
`NextTenant` to `NextTenant`.

`Migrations` starts instances of the backend: `Check`, `Execute`, `Record`, `Commit` for each file of
the public schema and then of each tenant, `Exit` (an error) and `Crash` at any step, and `Bootstrap`. The
administrator is taken to be configured, so that `Bootstrap` looks for the one role.
`Releases` are the databases a start may find: an empty one, or one that earlier releases, or starts that were
cut short, have brought to some files of each schema, always the first ones of it; a tenant's schema
supposes the first public file of all, which creates the table of tenants. So an upgrade may bring new public
files to a database that has tenants, as `public/007` does beside `tenant/013`, or new files to tenants alone, or
to a tenant that has none yet.

## 3. What the runs show

Bounds. `MaxRequests` is the number of requests in a behaviour, the requests before its
initial state included; `FreshRequests`, `RecentRequests` are those that follow it. `MaxRuns`,
`MaxFaults`, `MaxCalls`, `MaxCrashes` are the numbers of runs, faults, calls and crashes. Two
connections suffice for every pairwise race; the further requests exist so that a race can
have a history and a sequel. Where a history is needed the runs start from it: each such
state (`Settled`, `Working`, `Started...`) is one that the requests named in its comment lead to,
one after the other. Runs with liveness
properties use no symmetry. Behaviours may end (a bounded number of requests, nobody
has to send one), so deadlock is not an error in these runs; requests that hang are
found by the liveness properties instead. Ids are bounded sets: an insert that finds no free
id is one that did not happen.

The retry limit of the code is 3. `mrp_safety` uses 1, which reaches
every branch (a retry that is allowed, one that is not) with fewer rounds. It has three scopes:
two passes that overlap, a fault and one run; one pass with two runs and no fault; and two clients with two runs, without
a pass and a fault.
`platform` has two scopes as well, the start of instances and the pool of one that runs.

### Properties that hold

The invariants that hold of all tables of a module contain its type invariant.

| run | instance | properties |
|---|---|---|
| `gl_safety` | two connections, two requests after two posted sales and a draft; two periods; an entry that balances, one a cent off, one with both sides on an account | `KeepsBooks`: the statements implement `Books`, so a posting is whole, ledger and balances are the posted entries, and a reference has one entry, under concurrent posts and failures between any two statements. `AutoPostDelivers`: a repeated autoPost ends with the one posted journal. `NoDraftInClosedPeriod`, `ClosedPeriodFrozen`, and `BooksInv`, the inductive invariant of the proofs. `RequestsEnd`: every request ends, two reversals that deadlock included. |
| `stock` | two connections, four requests, two variants, two warehouses, three movements and three documents | `NonNegativeStock`; `FinalStaysFinal`: a final status stays, and a document posts once; `OpnameAdjustsDifference`; `ViewAgreesWithHelper`: the two SQL formulations of stock. `RequestsEnd`: sorted key locks do not deadlock, with the document, source and view locks around them. |
| `mrp_safety` | two clients, two passes, a worker, two runs, one fault of any kind | `OneActiveRun`: two triggers at once, a trigger against the retry of an older run, passes against each other; `PlannedIffCompleted` against cancels and the writer, `OnlyTransitions`, and `OnlyRunEnds`: a run that is alone ends, whatever the fault was. |
| `purchasing` | two connections, two orders with three items; four requests from two drafts; three from a confirmed order with two draft receipts; three from an order with two receipts and their invoices | `ReceivedIsSumOfReceipts`: two receipts of one order that are confirmed in parallel leave the sums in its items, although the sum and its writes are several statements. The row of the order and the exclusive lock of the REFRESH before the sum each keep them apart, so the mutant drops both. `StatusFollowsReceipts`: a receipt leaves the status the quantities say, with an update of the items in parallel. `FinalOrders`: cancel against receipt. `PaymentsAddUp`: parallel payments, cancelled invoices, and the cent each allocation may exceed the outstanding amount by. `RequestsEnd`. |
| `sales` | two connections, two orders with three items over two variants; three requests from the drafts, or after two deliveries, an invoice and two more deliveries in draft | `DeliveriesAddUp`: delivered quantities and stock against the confirmed deliveries, two deliveries of one order confirmed in parallel. Here too the lock of the order and those of the views each suffice, and the mutant drops both. `InvoicesCoverDeliveries`: a delivery is on one invoice, and an order is invoiced only with all that was delivered. `ClosedOrdersRest`: cancel against delivery and invoice. `ReceiptsAddUp`. `RequestsEnd`, with the deadlock of the two views. |
| `production` | two connections, one variant made of the other, three versions, three planned orders, five work orders; three requests from draft versions, or from an active one and work in progress | `OneActiveVersion`, `TreesStayWhole` under parallel edits; `ApprovalsMatchOrders`: a planned order leads to one order; `ProductionAddsUp`: stock, quantities and journals; `CancelledOrdersRest`: cancel against consumption and result. |
| `paperwork` | two connections; four requests of one desk, from nothing or from its started state | `CalendarWhole`: periods apart, inside their year, closed with it; `ReconciledByBalance`; `QuotesCarryOneAnswer`: two answers of a supplier at once, each deleting the lines it sees and inserting its own; `ConcludedInspectionsRest`. |
| `platform` | two clients, two callers, two tenants, four calls; two instances, a public schema of two files and a tenant's of three, two crashes, any database of `Releases` | `StatementsInOwnSchema`, `ClientsReturnClean`, `CallsEnd`: failures and timeouts at every step of a request. `HistoryIsTrue`: a file is recorded exactly when it was executed. `FilesInOrder`: it takes effect after the files before it, a tenant's after all public ones, in every upgrade. `EveryInstanceStarts`, again and again, unless the seed ran twice. |

Each property has a mutant in `PROJECT.json`: a definition changed as a plausible
bug would change it, under which the run fails. They stand next to the
definitions they replace.

### Findings

Runs whose property, stated by the repository's documents or comments, the code
violates.

| run | what happens |
|---|---|
| `gl_running` | `post()` takes as previous balance the row with the greatest `created_at`, which is the start of the inserting transaction. A transaction that began earlier may insert later; the next posting then ignores it. The totals stay right, the running and closing balances do not. Two lines of one journal on one account have equal `created_at`, so the same query may also return the older of them (`LastRows`); the run uses an entry without such lines. |
| `purchasing_double_invoice` | Two invoices of one receipt: the check for another invoice precedes the transaction, locks nothing and has no constraint behind it. |
| `sales_reservation` | A confirmed order reserves its pieces in `available_stock`; the delivery of that order is then checked against what is left, and refused. The comment beside the check wants a warning. |
| `production_result` | Consumption and result of a work order are movements with one source reference, of which migration 014 admits one: a work order that consumed materials accepts no result. |

Known and without a run of its own; the models have these behaviours, and the properties
above are stated so that they hold with them.

Accounting: a reversal fails at its last statement, which stores the number of a journal
in the BIGINT column `reversal_of` (`journal-entry.service.ts:478`). Two periods may share a
day; fiscal years may overlap. Completing a reconciliation marks all unreconciled transactions
of the account, whatever their period.

Stock: the REFRESH that waits for its view has its snapshot already, and overwrites newer
contents (`inventory-movement.service.ts:472`). Two opnames of one warehouse can start
together. An opname with surplus and shortage inserts two movements with one
reference, and cannot be completed (`stock-opname.service.ts:423`).

Purchasing and sales: two receipts, each within the pending quantity when it is created,
receive more than was ordered, and deliveries have the mirror image
(`delivery-order.service.ts:487`). A cancelled
invoice leaves its payable open (`vendor-invoice.service.ts:318`). Two selections of quotes that
meet leave two selected quotes. Requests, RFQs and quotations are read and then written
without a condition, so a late reject or cancel overwrites an acceptance. A draft quotation may be
accepted (`sales-quotation.service.ts:282`), although the comment above says "sent → accepted" (`:276`) and
`docs/project_analysis.md:360` and `:804` give draft → sent → accepted; `QuotationSteps` has the step of the code. An order is "invoiced" once everything delivered so far is invoiced,
a first partial delivery included; a delivered order whose deliveries are invoiced in part goes
back to "partial", and can be cancelled. Receipts do not reach the receivables:
`ArService.updateReceived` has no caller. The demands of a cancelled order stay.

Production: a failed run with retries left cannot become pending while another run is
active; the error ends the pass before it comes to the stuck runs
(`mrp-reconciliation.service.ts:79`) and the tenants after this one. The retry count is computed
from a row read earlier (`:125`). A work order may be updated after its confirmation or
cancelled after its completion by a request that read it earlier. The filter of phantoms
(`work-order.service.ts:361`) drops only those of the first level, and the explosion does not
multiply the amount of an item by that of its parent. A consumption that names a material on
two lines records the last one only. Completed without consumption, a work order is valued at
the cost price of its product. An obsolete version can be activated again by a request that read it as
a draft. `deleteItem()` is two statements without a transaction.

Quality: a checklist may name parameters that were deactivated meanwhile.

Platform: the migrations leave a tenant's `search_path` on a pooled client. Two instances
that start together over an empty database may both execute the seed
(`006_seed_admin.sql:3`); there are two roles then, and the bootstrap fails on every
instance from then on.

### Fairness

`GeneralLedger`, `StockLedger`, `Purchasing`, `Sales`: weak fairness of the statements of each request. A
handler is an async function whose awaits resolve, a waiter is served when the lock
is free, PostgreSQL finds deadlocks, and the number of requests is bounded, so nobody is overtaken for ever. No
request has to arrive and none has to fail.
`MrpRuns`: the cron starts a pass every minute and a pass runs on; workers take jobs;
the queue notices expired job locks; time passes. Clients owe nothing: a trigger may
stop after its insert for ever, which is the crash the reconciliation is for.
Faults are finite by `MaxFaults`; without that bound nothing could be guaranteed.
`TenantConnections`: a caller goes on, by a step that succeeds, fails or times out; new calls owe
nothing. `Migrations`: an instance goes on, and one that is down is started again by whoever
supervises it; crashes are finite by `MaxCrashes`.
`Production` and `Paperwork` state no fairness, as they have no liveness property.

## 4. What is proved

All theorems are of the specification, `Spec => ...`, for every value of the constants
that their assumptions admit; the bound on the number of requests is one of these constants. Each
proof follows one plan: an invariant that every statement keeps (one lemma per action,
one step per conjunct that the action can disturb), from which the properties follow. The
properties are not inductive: what keeps them is in the locks and in the local
variables of handlers, and not in the tables. So each invariant says what every transaction
in progress may rely on.

| module | theorems |
|---|---|
| `GeneralLedgerProofs` | `Invariance` (`IInv`), `TypeCorrect`, `ClosedPeriodsHaveNoDraft`, `ClosedPeriodsFrozen`; `BooksInvariance` (`BooksInv`), `AutoPostAnswers`, `LedgerKeepsBooks`: the refinement |
| `StockLedgerProofs` | `Invariance` (`IInv`), `StockNeverNegative`, `OpnamesAdjusted`, `ViewAgrees`, `FinalRowsStay` |
| `PurchasingProofs` | `Invariance` (`IInv`), `ReceivedAddsUp`, `PaymentsStayWhole`, `OrdersFollowReceipts`, `OrdersEndOnce` |
| `SalesProofs` | `Invariance` (`IInv`), `DeliveriesRight`, `InvoicesRight`, `ReceiptsRight`, `ClosedForGood` |
| `MrpRunsProofs` | `Invariance` (`IInv`), `AtMostOneRunActive`, `PlannedExactlyWhenCompleted`, `StatusesMoveAsDocumented` |
| `ProductionProofs` | `Invariance` (`IInv`), `OneActive`, `WholeBills`, `ApprovedOnce`, `StockFollowsProduction`, `CancelledForGood` |
| `StandaloneProofs` | `StatementsStayInSchema`, `ClientsComeBackClean`, `HistoryStaysTrue`, `FilesGoInOrder`; `PaperworkInvariance` (`IInv` of `Paperwork`), `WholeCalendar`, `ReconciledOnce`, `OneAnswer`, `ConcludedForGood` |

### Sums

`Sums` states what the folds of the community modules do for a sum: empty, of one element,
of a union, with a summand changed, monotone. A sum is defined by recursion over a set; the
lemmas are inductions over finite sets, done with well-founded relations
(`MinimalSubset`: among the subsets that violate a claim there is a smallest), as an induction
rule that takes a predicate cannot be used here. The summand is a function for
the same reason, and each proof module first rewrites the sums of its specification in this form.

### Closed periods (`GeneralLedgerProofs`)

Assumed: NULL is no period and no reference; the tolerance and the bound are
natural numbers; entries are non-empty lists of lines. `IInv` has, for every transaction:

* `PeriodHeld`: from the statement that locks the period to the COMMIT, the
  transaction holds the period's exclusive lock and the period is still open (or,
  for a status change, still in a status it may leave);
* `LocksExclusive`: no two transactions hold one period lock or the counter row, so
  nobody else can commit a status change meanwhile;
* `WriteSet`, `JournalKept`: everything it has written belongs to the locked period,
  and a journal row it writes is its own new one, or one that has that period already;
* `CloseChecked`: a status change that is about to commit has seen no draft, and none
  appeared since, because inserting one needs the same lock;
* `Arguments`: the arguments the statements use are set.

The tables change in `Commit` only (`TablesChangeAtCommit`), so both properties reduce
to one action: a commit writes into the period its transaction holds, and that period is
open. `LocalStep` says that a step of one transaction that leaves the tables alone keeps
what the others rely on; it carries most of the cases.

### The books (`GeneralLedgerProofs`)

`BooksInv` is `IInv` with what makes a COMMIT one operation of `Books`:

* `LedgerExact`: ledger rows are of posted entries, and the balances are their sums, account by
  account and period by period;
* `JournalHeld` with `JournalLocksExclusive`: the entry being written is new and its inserter holds the
  counter row, or it is a draft whose row lock is held; so no two transactions write one entry
  (`WritersApart`), and no other entry gets its reference;
* `LinesPosted`: the ledger rows of a transaction are rows of its entry, the balance increments are the sums
  of these rows, and at the COMMIT of a posted entry every line has its row and the
  lines balance;
* `Answer`: what an `autoPost()` answers with carries its reference.

`LedgerKeepsBooks` then maps: the initial tables are empty books (`InitRefines`), the COMMIT of a status
change is `Close` (`CommitCloses`), any other COMMIT is `Record` or `Post` (`CommitEnters`,
`CommitRecords`), and no other step is seen. That a reversal never commits is part of the
argument, as it is of the code.

### Stock (`StockLedgerProofs`)

Assumed (`StockConstants`, `ExistingMovements`): variants and warehouses are numbers, variants finitely
many; payloads are lists of items with a positive quantity; references of documents are not those
of opnames; the movements the tenant starts with leave no negative stock, none is of an opname and no two have one
source. `IInv`:

* `Checked`: from the check of a key on, the request holds the key's advisory lock and the stock
  of the key covers what it takes; only a request that holds the key can take from it;
* `RowsHeld`: the draft or the opname it works on is still as it was read;
* `SourceHeld`: the source reference it has inserted is free in the table until its COMMIT;
* `CompletedOnly`: an opname that is not completed has no movement.

`StockNeverNegative` needs the sums over movements and over the items of each. `ViewAgrees` is about the
two queries alone: it holds of any set of movements in which a transfer has two sides.

### Purchasing (`PurchasingProofs`)

Assumed (`PurchasingConstants`): ordered quantities, quantities of lines and payments are positive. `IInv`:

* `ConfirmKnows`: a confirmation holds the receipt, still a draft, and the order, still confirmed or
  partial; the sums it has computed are still those of the completed receipts and this one;
* `PayKnows`: a payment holds its payables and invoices, none of them cancelled, and what it is about
  to write is the committed amount plus its own, within the amount and the tolerance;
* `NothingReceived`: an order that is draft, confirmed or cancelled has nothing received;
* `LocksExclusive`.

### Sales (`SalesProofs`)

Assumed (`SalesConstants`): the items of orders are finitely many; ordered quantities, quantities of lines, payments
and arrivals are positive. Orders, requests, deliveries, lines and invoices may be any number. `IInv` has what
each handler knows at each of its statements (`Knows`):

* `StatusKnows`: a confirmation or a cancel holds the order from its first statement on, and the order is still in a
  status that allows the change;
* `ConfirmKnows`: a delivery that is confirmed is locked and still a draft; from the next lock on its order is still
  confirmed or partial; from the check on, the stock still covers it and the keys of what it moves are held; the
  sums it has computed are still those of the confirmed deliveries and this one, as nobody else confirms a delivery of an
  order that is held;
* `InvoiceKnows`: the order is held and open, the deliveries are held and still confirmed, and after the check none of
  them is on an invoice;
* `ReceiptKnows`: the invoices of a receipt exist;
* `LocksExclusive`, and of the tables: invoices name confirmed deliveries (`InvoicedAreConfirmed`), and what does
  not exist has no allocation (`AllocatedToIssued`).

The argument is split at `Respects`: what a step leaves to those who hold given locks. `KnowsKept` shows once that a
request that is respected goes on knowing what it knew; each COMMIT then has to show that it respects the
locks of all others, and that the rows agree after it. `RequestStep` puts these together. Receipts
need no lock for `ReceiptsAddUp`: `CommitReceipt` sums the allocations again, and the CHECK of migration 014
refuses what is too much.

### MRP runs (`MrpRunsProofs`)

Assumed: the bounds are natural numbers. There are no transactions to rely on: `IInv` says that a
client, a pass or a worker that is under way has the id of a row, that rows a pass holds for a retry were below the
limit when it read them, and with it that at most one run is active and that
planned orders exist exactly for completed runs. The conditions of the UPDATEs do the rest.

### Bills of material and production (`ProductionProofs`)

Assumed (`BomConstants`, `ProductionConstants`): ids are positive numbers, finitely many of versions, items and
work orders, as the sums and the next version number range over them; NULL is no number; the quantities of clients,
planned orders and lines are positive; what is on hand and cost prices are not negative. Requests, variants, headers and planned
orders may be any number. `IInv`:

* `BillKnows`: no handler of bills locks what it has read. What it still knows is what no other can undo: a header and
  a version stay, an id that was given stays given, and while a parent has not been deleted, the row to be inserted
  fits below it (`RowFits`);
* `ParentsFirst`, `IdsInOrder`: an item is stored below a parent of its version with a smaller id, one level deeper;
* `OrderKnows`: from the lock of a planned order on, it can still be approved; the other handlers of orders know that the
  order exists, and no more;
* `ConfirmKnows`, `ConsumeKnows`, `ResultKnows`: from the lock of the work order on it is draft, or open; from the check of
  the stock on, the locks of its variants are held and the stock still covers all lines together;
* `NothingBeforeConfirm`, `OrdersExist`, `LocksExclusive`.

`WholeBills` is not about a step but about the recursion of the explosion. By `ParentsFirst` the items of the
version satisfy its equation (`BelongsClimbs`), and no other set does (`ClimbUnique`): the least id on which
two solutions differ would have a parent on which they differ. So `Reached` finds them all and nothing else
(`ReachedItems`).
`OneActive` rests on the partial unique index alone: the UPDATE that makes others obsolete may have missed one.
`StockFollowsProduction` needs sums over work orders, over lines and over the materials of an order; that a completed order
has a journal unless it costs nothing is `CostFacts`.

### Calendar, papers, quality control (`StandaloneProofs`)

Assumed (`CalendarConstants`, `SourcingConstants`, `QualityConstants`): ids are positive numbers, dates and
numbers of periods natural ones; the first day of a year precedes its last; purchase requests, RFQs and quotations have
ids of their own; NULL is no account; the required parameters of a checklist are among its parameters. Any number of
years, periods, accounts, papers, suppliers, inspections and requests. The `IInv` of `Paperwork`:

* `PeriodKnows`, `CloseKnows`: who creates a period of a year or closes the year holds its row from the first
  statement on. So the year is still open, the periods seen are still all there are, none of which overlaps the new
  one, and no open period is left when the year is written. A period may be closed meanwhile, but not opened;
* `BankKnows`: a reconciliation that marks transactions has a difference of at most a cent, and those it has marked are
  of its account;
* `PaperKnows`, `AnswerKnows`, `SelectKnows`: these handlers write what they decided on a stale read, and know
  little: a status to be written is the end of a step, and a quote that was found stays. From its UPDATE or INSERT on an answer
  holds the row of its quote, so that the lines it has deleted, or seen none of, are still all there are;
* `CompleteKnows`: a completion holds the inspection, still a draft; the answers have everything the checklist
  requires, and the required items of a checklist do not change (`QualityRespected`).

The three components have no table in common. `CalendarSame`, `SourcingSame` and `QualitySame` say so once, and a step at one desk
then concerns the tables of that desk alone. `ConcludedForGood` follows from what the writers know: a concluded
inspection is no draft.

### Connections and migrations (`StandaloneProofs`)

The theorems are of `PoolSpec` and of `MigrationSpec`; the run `platform` has a behaviour of one
or the other. Assumed (`ConnectionsConstants`, `MigrationsConstants`): the tenant whose `search_path` the migrations
left is a tenant, the path of a new session is none, NULL is no client; the seed file can be executed again, every
schema has a file, the public schema is no tenant's. Any number of clients, callers, tenants, instances and files.

`PoolInv` says that the step of a caller decides what it holds and in which state:

* `HoldsByStep`: which steps have the tenant's client and which the second one;
* `PathByStep`: from SET to the release the tenant's client has the tenant's `search_path`; before SET, and for a
  second client, it is clean (`Clean`: the default or what the migrations left);
* no two callers hold one client, a client is out exactly when somebody holds it, and is clean when it is not;
* the queue has each caller that waits, once.

`PoolStep` is the one lemma about the others: who takes only clients of the pool and gives back
only its own, clean, disturbs nobody. The lemmas on queues (`QueueAppend`, `QueueRemove`) and `WaitingCount` are
about sequences without repetition.

`MigrationInv` is `HistoryIsTrue` with two facts about each instance: every file it has passed was executed
(`HasExecuted`), and one that has executed a file and not committed it is alone with that file, which nobody has
executed before if it cannot be executed again (`Alone`). The second is where two instances that start together
could go wrong: what keeps them apart is PostgreSQL's lock on the objects a file creates. `FilesGoInOrder` is of each
COMMIT: by `HasExecuted`, whatever comes before the file was executed, by this instance or by another. It cannot be an
invariant of the tables, as an upgrade begins with files of tenants and without the new public ones.

### Only model-checked

The liveness properties: `RequestsEnd` of the ledger, stock, purchasing and sales, `OnlyRunEnds`, `CallsEnd` and
`EveryInstanceStarts`. Fairness and ENABLED are beyond the prover, so that requests end is
shown for the instances of the runs alone. The properties of the four runs that end in a violation are false. Everything else that a run
checks is a theorem.

## 5. Plan

Modelled and checked so far: every component of section 1 but those of section 6.

Proved so far: every safety property of the runs.

Models that could follow: a lock order over the handlers of all components, and the
lines of the journals that documents post.

## 6. Not modelled

* Chart of accounts, tax codes, overhead rates, bank accounts, product master data, units,
  warehouses, defect types, suppliers and customers: single-row operations guarded by unique
  constraints, with nothing to interleave but the constraint.
* Reports, ageing, dashboards, stock queries: read-only.
* Creation of purchase orders, sales orders, requests, RFQs and quotations: one transaction that inserts rows nobody
  else knows; it is the initial state. Updates of descriptive columns.
* Demands entered by hand: one insert.
* `ArService.updateReceived`, `VendorInvoiceService.updatePaidAmount`,
  `PurchaseRequestService.close`, `withTenantTransaction`: nothing calls them.
* Authentication: issue, refresh and revocation of tokens, with their own store in Redis; only the use of the
  pool by the cleanup is modelled.
* Hash ids, controllers, DTOs, filters: encoding, validation and routing without shared state.
* Lines of business journals, prices, taxes, units, batches, locations: data that the properties do
  not tell apart. The amounts and the rounding of prices are a piece's one `Price`.
* The worker that calculates an MRP run, and BullMQ, PostgreSQL, `pg`: not in this repository; modelled as
  their callers use them.
