# ApnaERP in TLA+

ApnaERP is an enterprise-resource-planning server: FastAPI endpoints and Celery
tasks over PostgreSQL, with one service class per part of the business. This
directory models the parts whose correctness is a matter of the order in which
things happen, checks them with TLC on small instances, and proves with TLAPS, for
every instance, what matters most of seven of them: the stock engine, the general
ledger with the documents that post to it, leave, approvals, purchasing, sales, and
attendance with pay and the rows it refers to.

Paths below are relative to `src/`; services without a directory are in
`app/services/`.

## How the program runs

All the models share these facts of the code:

- A request has a database session of its own (`app/db/session.py`, `get_db`,
  with `autoflush=False` and `expire_on_commit=False`). If it ends without
  `commit`, the session is closed and the transaction rolled back. Several API
  and worker processes run the same code against one database, and every process
  runs many requests as asyncio tasks.
- PostgreSQL runs at READ COMMITTED: each statement sees what was committed
  before it started. `SELECT ... FOR UPDATE` and `UPDATE` wait for a row lock.
- The ORM writes, at flush, the columns whose value differs from the value it
  loaded, by primary key, as absolute values and without a version check.
  A row a session already holds is not refreshed when it is selected again,
  not even with a lock.
- Most services read, decide in Python and commit, with no row lock. The stock
  engine, reservations, receiving, the processing of purchase returns and the
  conversion of leads lock a row.
- `StockMovementService._lock` and `SupplierService._contact_lock` are asyncio
  locks in the memory of one process: they keep apart the tasks of one process
  and nothing else.
- Some helpers (audit log, batch repository, `BaseRepository.create` and
  `update`) commit the session they are given, and thereby the caller's work so
  far and its row locks.

A model therefore has *handlers* (mostly the constant `Tasks`), each with a
program counter and what it has read, over variables for the tables. A step ends
where another session could observe or change something between two statements.

## Inventory

| Component | State | Operations | What makes it correct | Model |
|---|---|---|---|---|
| Stock movement engine (`stock_engine_services.py`, `app/repositories/stock_engine_repos.py`) | balance row per product, warehouse, location; append-only ledger; batch quantity; serial whereabouts; asyncio lock; row locks | one movement; several movements of a document in a transaction; transfer with rows locked in sorted order (recalculation of a balance: next row) | ledger is a chain that ends at the balance; no stock oversold; documents are all or nothing; every request ends | `StockEngine`, `StockAccount` |
| Warehouse documents, reservations, counts (`warehouse_operations_services.py`, `inventory_advanced_services.py`) | documents with a status and lines; reservations; batch numbers; balances; what was moved and is held | create, change, approve, cancel, post, dispatch, complete, apply, settle, open; reserve, release, consume, expire; recalculate a balance, audit all | stock moved as the status says; balances are what the ledger adds up to; reserved is what reservations hold; a count settles the stock | `WarehouseDocuments` |
| Inventory reports (`inventory_report_services.py`, `app/repositories/inventory_report_repos.py`) | none of their own | fourteen reports and dashboards | each figure is one the ledger had; no row is left out | `InventoryReports` |
| Leave requests and balances (`leave_request.py`, `leave_balance.py`) | request status and days; balance columns with a derived remainder | create, update, submit, approve, reject, cancel; grant, adjust, set, delete, restore | days deducted are days approved; never overdrawn; active requests do not overlap | `LeaveRequests` |
| Approval engine (`approval_engine.py`, `approval_workflow.py`) | request, its current step, its history; steps of a workflow | start, approve, reject, cancel; redefine the steps | every step signed by its role before completion; a pending request has a step | `ApprovalEngine` |
| General ledger (`finance_services.py`, `app/repositories/finance_repos.py`) | journals and lines; type and balance of each account; period locks | create, update, post, reverse, cancel, delete, entry; delete an account, change its type; lock, unlock, close | balances are what was posted; debits equal credits; one reversal; what is posted is final | `JournalLedger` |
| Finance operations and posting queue (`finance_ops_services.py`, `app/tasks/finance_tasks.py`) | invoices, bills, vouchers, assets; running balances; bank transactions and statement lines; queue items | create, post, acquire, transact, import, match, enqueue, process | each document posts one journal; the bank balance is what was booked | `FinanceDocuments` |
| Purchase orders, receiving, returns (`purchase_order_services.py`, `purchase_return_services.py`) | order status; lines with received and returned counters; returns; stock booked | ten order operations, receive, five return operations | goods in never exceed goods ordered; counters agree with stock; no goods are dropped | `PurchaseOrders` |
| Sourcing (`supplier_services.py`, `rfq_services.py`, `supplier_quotation_services.py`) | suppliers and contacts; requests, invitations, quotations; orders made from them or entered | status, deletion, contacts, invite, quote, approve, reject, award, order, enter | a quotation turned into one order; deleted suppliers supply nothing; one primary contact | `Sourcing` |
| Sales (`quotation_services.py`, `sales_order_services.py`, `delivery_services.py`, `sales_return_services.py`) | quotations, orders with delivered counters, deliveries, returns, stock | thirteen operations on orders and quotations, deliver, cancel, return; the warehouse posts and changes | delivered is counted and never exceeds ordered; goods move once; one order per quotation | `SalesDelivery` |
| CRM (`crm_services.py`) | leads, customers, opportunities; the row lock of a lead | create, update, delete, convert | a lead is converted once | `LeadConversion` |
| Payroll (`payroll_engine.py`, `payroll_run.py`, `payroll_finalization_services.py`) | period, records, runs, payslips, closing, adjustment | generate, approve, lock, run, publish, close, reopen, adjust | approved as seen; locked is frozen | `PayrollPeriod` |
| Attendance, shifts, pay (`attendance.py`, `attendance_engine.py`, `shift_assignment.py`, `employee_compensation.py`) | shift assignments; one row per day; compensations | assign, change, end, delete; check in and out, correct, lock; offer, revise, activate, cancel, redate, delete, restore | no two shifts on a day; a lock survives; one active pay | `Workforce` |
| Hierarchies (`department.py`, `position.py`, `employee.py`, categories and locations of `inventory_services.py`) | five trees; headcounts | create, move, delete, restore, hire, transfer, dismiss | no tree goes round; headcounts match | `MasterData` |
| Reference data (`inventory_services.py`; leave types, holidays, shifts, HR configuration, documents, salary structures, statutory rules; set-up of `finance_services.py`; suppliers', customers', batches', roles' rows) | rows with codes, bounds, flags, links; two keys in Redis | create, change, delete, restore, activate, review, close, lock | bounds stay in order; one in force; accounts a tree; links kept; Redis current | `SetupRows` with `Catalogue`, `PeopleSetup`, `FinanceSetup`, `TradeSetup` |
| Reports and dashboards (`reporting_services.py`, `procurement_report_services.py` and repositories) | cached answers, snapshots | some forty reports, dashboards, three tasks | figures of a report agree; nothing older than its time to live | `ReportRows`, `DomainReports`, `ProcurementReports`, `Dashboards` |

`PROJECT.json` lists every part, those without a model included, with the reason.

How the components meet: receiving, returns, warehouse documents and deliveries
call the stock engine once per line with `commit=False` and commit once at the
end (or not, where a helper commits); submitting a business document may start an
approval; vouchers, invoices and payroll write journals, directly or through a
queue a Celery task drains; quotations become orders, leads customers; everything
refers to reference data by foreign keys, some of which cascade or are set to
null; reports read all of it. Nothing but the database, Redis and the asyncio
locks is shared between requests.

Hard to test are: two requests between each other's read and write; a row created
between an empty `FOR UPDATE` and the fallback read; a process lost between two
commits of one operation; a helper that commits half a document; a failure that is
swallowed, or raised after half was committed; a balance overwritten beside its
locks; workflows redefined under pending requests; a report whose
statements see different states; a cache that outlives its rows; and long legal
sequences. `PROJECT.json` lists these hazards at their lines with the properties
that cover them.

## The models

Every module but the stock engine's has a constant `Scenarios`: a set of records
that say which operations are asked for, how many handlers may overlap
(`width`), and the limits of rows, inputs and lost handlers. `Init` picks one.
A property guarded by `OneAtATime` concerns scenarios of width 1.
Each state machine states a `TypeOK` (`RowsTypeOK` for reference data).

### StockEngine, StockAccount

`StockEngine` follows `process_movement` and its callers statement by statement.

| In the model | In the code |
|---|---|
| `bal`, `ledger`, `track` | committed rows of `stock_balances`, `stock_ledger`, and of batches and serials |
| `work`, `pend`, `view`, `seen` | what a session has flushed, appended, loaded (batches, serials), and the balance object it holds |
| `mutex`, `holder` | `StockMovementService._lock` of each process; row locks |
| `Begin` | a document loads its items and, with them, their batches |
| `Replay`, `Enter` | idempotency lookup after the asyncio lock is acquired; the movement goes on |
| `Reject`, `Track` | master data refused; batch and serial checks, which read without locks |
| `SelectForUpdate`, `SelectNothing`, `PlainRead`, `PlainReadNothing`, `InsertRow` | `get_or_create_for_update`, its unlocked fallback and its insert |
| `RefuseNegative`, `UniqueViolation`, `FlushLine` | policy check, constraint errors, the flush of balance, entry and tracking rows |
| `Commit`, `Rollback`, `DeadlockAbort`, `Crash` | the end of the transaction; PostgreSQL's deadlock detector; the loss of a process |

A task waits by having no enabled step; `Waits` states which transactions its
statement waits for, and only a cycle of such waits is broken by PostgreSQL. The
asyncio lock is not part of that graph, which is what `stock_engine_hang` is
about. The lock is held from `Enter` to the commit for a single movement, and
only until the flush for a line of a document (`commit=False`).

`StockAccount` is the promise without processes, locks or transactions: accounts with
an append-only log, a request booked in one step, refused, or told of the entry its
idempotency key has already booked. `ImplementsStockAccount` instantiates it
with the committed ledger as the log; a commit is the booking step. It includes
that a key books once and a document is all or nothing.

Left out: quantities are whole numbers and products, warehouses and locations are
collapsed to a key; costs and reserved quantities do not affect the movement. The
recalculation of a balance is not a movement and not in this module: what it shows
of the engine holds between recalculations, which `WarehouseDocuments` has.

### WarehouseDocuments

One product at a few places. `doc` and `resv` are the committed documents and
reservations, `stock` the available and reserved columns of each balance row,
`batches` the batch numbers on record, `start` and `moved` ghosts of what the ledger
had of a place at the start and has of each document. A handler checks a status
(`Permitted`), then works through a script (`Script`) of moves, partial commits
and a last write, and holds the row locks of the movements until the next commit.
`Reserve`, `Settle` (release, cancel, consume), `ConsumeForIssue` and the task
`Expire` are `StockReservationService` and the clean-up. A line of an issue may name a
reservation, which is consumed, and a line of a receipt a batch, which is looked up
(`FindBatch`) and created (`RecordBatch`); both commit the lines before. A movement is
one step here: `StockEngine` shows how it comes about.

`recalculate_balance_projection` takes no lock and books nothing: `AddUpLedger` sums the
ledger (`DerivedBalance`), `LoadBalance` selects the row, `OverwriteBalance` writes the
sum and a reserved quantity of zero where they differ from what was loaded. A user asks
for a row (`BeginRecalculation`); the audit task goes through all it loaded at first
(`BeginAudit`). Where the scenario puts the places `together` in one
warehouse, one of them (`SomePlace`) is the row without a location. Left out:
inspection figures, references, prices, the damaged and in-transit columns.

### SalesDelivery

`quote`, `order`, `doc` (deliveries and returns) and the stock of a product. Orders,
deliveries and returns are committed header first; a delivery or return then
drafts, approves and posts a goods issue or receipt in three commits. When these goods are
refused (`GoodsRefused`) a return swallows the exception and is completed
(`SwallowFailure`), while a delivery fails (`FailDelivery`): the handler of its exception
uses a `logger` that `delivery_services.py` does not define, the NameError ends the
request, and the delivery stays Draft with its counters committed. The warehouse may change
the lines of the draft left behind (`WarehouseEdits`; `named` is the quantity it names) and
post it (`WarehousePosts`), each in one step, an approval of its own being part of the
posting. The lock on a quotation ends with the commit of
the order's header. Left out: cancelling or deleting the goods left behind, credit check,
submission to the approval engine, texts of item status, prices.

### LeadConversion

Leads, customers and opportunities with the row lock of a lead. `MakeCustomer` and
`MakeOpportunity` commit, and with that give up the lock; `Mark` writes the
lead as it was loaded. One contact stands for e-mail and telephone.

### PurchaseOrders, Sourcing

`PurchaseOrders`: one order, its lines, the returns raised against it, and the stock booked for each line,
in and out. Line ids are never used again, so that a replaced line (amend, update) keeps
what was booked on it. `lock` is the row lock of `get_for_update`. `seen` is
what a session loaded: `receive_goods` loads after the lock, `process_return`
before it. A receipt books line by line (`BookLine`); a line whose batch is new
commits what came before (`BookLineOfNewBatch`). Prices, totals, revision numbers,
audit rows and the approval request of a submission are left out. Reading the
several rows of an order is one step.

`Sourcing`: suppliers, invitations, quotations and orders, one
handler at a time. An order is made from a quotation (`OrderQuotation`) or entered
(`EnterOrder`) with any origin the request names, which nothing checks; the ghost
`converted` tells them apart, which the stored row does not. Contacts under `_contact_lock`, which adding and updating take
(`OpenContact`, `SaveContact`) and removing does not. "Live" stands for every
status of an order but received and cancelled.

### JournalLedger, FinanceDocuments

`JournalLedger`: a journal's lines are line sets: the net debit of each account, with a
number that keeps apart two equal sets written by two updates. Creating and reversing take two
commits (`Header`, then `CommitCreate` or `CommitReverse`), and a handler
can be lost between them. An update deletes the lines its `DELETE` statement
sees and adds its own. `balance` is moved from the value the handler loaded.
Trial balance, balance sheet and profit are the queries of the repository. `kind` is the
type of each account, which `update_account` changes at any time (`CommitRetype`); a
handler moves a balance by the type it loaded (`kinds`), and `turned` is a ghost: the
accounts whose type changed sides while they had a balance. Types are spelled as the
schema lists them, and equity stands for a liability.
Opening balances are zero; account deactivation is left out.

`FinanceDocuments`: invoices, bills, vouchers and assets post a journal, which commits
(`PostJournal`); what their handler changes afterwards is saved only if
something else commits, so for vouchers nothing is (`PostJournalOnly`). `bank`,
`txn` and `line` are one account, its transactions and the lines of statements
of any account. The queue worker goes item by item (`BeginProcess`,
`PassItem`, `DraftJournal`, `PostDraft`, `RefuseDraft`, `EndProcess`) with a commit for each journal.

### Workforce, PayrollPeriod, MasterData

`Workforce` is one employee over two days with a day and a night shift: the
assignments (`BeginAssign`, `InsertAssignment`, `BeginMove`, `BeginEnd`, ...), the
shift of a day (`Resolve`: an assignment, the employee's own shift, the rule of
the HR configuration), the row of a day with its computed figures, the lock of
payroll, row by row (`LockRow`), and compensations. Shifts are constants here, and the
time zone is stripped as in the code. There is no cache: the `ttl` passed to
`RedisManager.set` is not a parameter of it, and the error is swallowed.

`PayrollPeriod` is one period: what each employee is `due` changes, records are
generated, approved and locked, runs of several types move on, payslips are
written one commit each, a closing and an adjustment pass. An update of an adjustment
that names a status ends in a NameError (`Enum` is not imported) and changes nothing;
approving and rejecting set it. The salary arithmetic is one value.

`MasterData`: departments, positions, employees, categories and locations as trees
of rows that are created, moved, deleted and restored, and the headcount of a
position, which a hire or transfer changes in up to three commits (`Join`,
`Leave`, `Finish`) with refusals and lost handlers in between (`Slip`).
A walk up a tree is one step.

### LeaveRequests, ApprovalEngine

`LeaveRequests`: one employee. A balance row has credit columns, `availed`, `encashed` and the stored
`remaining` that every write derives again; it may be created with days availed or
encashed already (`OpenRow`; `brought` is a ghost of the former). A handler reads the request,
then the overlapping requests, then the balance, and commits; `Flush` writes
the columns it changed. Leave spans are abstract: `Days` gives the half days of a
span and `Clash` the pairs that share a date. Balances
are granted, adjusted, set, deleted and restored between and during reviews.
Notice and gender rules decide only whether a request is accepted
and are left to the choice of inputs.

`ApprovalEngine`: one workflow, whose steps may be replaced at any time (`Redefine`), and requests
for approval of documents. A decision reads the request, the step, the next step,
and commits the columns it assigns with its history rows. Steps are numbers with
a role. Deactivating or deleting a workflow only stops new requests and is left out.

### SetupRows, Catalogue, PeopleSetup, FinanceSetup, TradeSetup

Reference data is many tables with one way of working: a request reads committed
rows, checks them, and commits (`Put`, `Commit`), and the constraints of the
tables are checked again. `SetupRows` has that once: a row keeps a code (for all
its unique names), a lower and an upper bound, a flag, whether it is gone, and
the ids it `uses`; foreign keys cascade, restrict or are set to null as the
tables say. The four modules translate each service: what a new row may be, which
fields an update merges before it compares the bounds, what deletion counts, what
is deactivated or generated with it, and where a commit falls in between (an
activation, a new fiscal year, the parts of a product). Redis keeps the category
tree and the documents of an employee. A request changes one field or both
bounds. Whether orders, posted lines or approval levels use a row, which other
modules model, is chosen freely.

### InventoryReports, ReportRows, DomainReports, ProcurementReports, Dashboards

`InventoryReports`: movements, reservations, recalculations and a report that is a sequence of
statements, each a step that prints *claims*, so much stock over a set of
places, at the state committed then. `Reserve` sets the reserved quantity of a row from the larger
of the row's own and what is reserved in its whole warehouse (`ActiveAround`), so with several
rows a row may count the reservations of the others.

`ReportRows` has the rows the other reports read, which change at will within what
the domains allow (`Consistent`), and counts, values and breakdowns;
`DomainReports` and `ProcurementReports` are the reports as sequences of
statements with their filters; `Dashboards` asks for them (`Ask`, `Read`,
`Answer`), keeps dashboards in the memory of the process or in Redis with
their time to live, and commits snapshots. Pages, limits, names, ordering and
trends of indicators are left out; a request is answered within a minute of the clock.

## Runs

`MC*.tla` give the constants. Sides that share no state are checked in one
run beside each other. `LedgerAndDocuments`, `PurchasingAndSourcing`, `SalesAndLeads`,
`ApprovalsAndReports` and `WorkforceAndPayroll` put them together: a step is a step of one side with the other
unchanged. The initial states of the run ask for one side at a time (`OneInit`).

| Run | Question | Instance |
|---|---|---|
| `stock_engine_mixed` | Do three processes that run movements, documents and transfers both ways keep ledger and balance, never oversell, implement `StockAccount`, and answer everything? | 3 tasks in 3 processes, 2 keys with 2 and 1 units, 5 requests, 1 crash |
| `stock_engine_tracked` | Does the lock of one process keep batches, serials and rows without a location right for single movements, and the constraint rows with a location for documents too? | 3 tasks in 1 process, 3 keys, 1 batch, 1 serial, 9 requests, 1 crash |
| `stock_engine_hang` (violation) | Can a transfer and a movement of one process wait for each other for ever? | 3 tasks, no crash |
| `leave` | Are days, dates and decisions right under reviews and corrections one at a time, with balances deleted and restored, and what holds with two reviews at once? | 2 requests, 2 kinds, spans of 3, 2 and 1 half days |
| `approval` | Is every step signed by its role? Do the figures of a report agree, and is no dashboard or snapshot too old? | 2 requests over a redefined workflow; 3 steps with two deciders; 24 wishes for reports with 1 or 2 rows per table |
| `ledger` | Do balances, totals and frozen periods hold one handler at a time with lost handlers, and trial balance and single reversal with two? Does each invoice, asset and queue item post once, and does the bank agree? | 3 journals, 2 accounts of 4 types, 1 period; up to 3 documents, 2 transactions, 2 statement lines, 2 items |
| `purchasing` | Do receipts, returns and order changes keep counters, stock and status consistent? Is a quotation ordered once, and is there one primary contact? | 2 lines of quantity 2, 2 returns; 2 suppliers, requests, quotations and orders, 3 contacts |
| `warehouse` | Has every document moved what its status says, is a balance what the ledger adds up to, is reserved what reservations hold, does a count settle? Does each figure of a report follow the ledger, and is nothing left out? | 2 documents of 2 lines, 3 reservations, 2 places, 1 batch number; 2 products, 2 warehouses, 1 location, 2 commits during a report |
| `sales` | Are deliveries counted, goods moved and quotations and leads converted once? | 2 quotations and orders, 3 deliveries or returns, 2 lines; 2 leads, customers and opportunities |
| `workforce` | Do shifts stay apart, locks hold, one pay stay active; do hierarchies not go round and headcounts match; is payroll frozen as it was approved? | 2 shifts, 2 days, 2 assignments, 3 compensations; trees of 2 and 3; 2 employees and 2 runs |
| `setup` | Do the rows of reference data agree, is Redis current, are accounts a tree, and are links kept? | 31 scenarios of 1 to 7 rows, 1 lost handler, one scenario with two at once |
| `setup_profile` (violation) | Does an employee have one active statutory profile? | 2 profiles |

Why these bounds are enough to be interesting: two handlers suffice for a lost update,
a double decision or a stale guard; three tasks are needed in the stock engine
for a cycle with an onlooker, a row created by one and used unlocked by another
while a third waits. Two keys give opposite transfers. Stock of 2 and 1 lets an
issue of 2 and an issue of 1 compete. Two requests that clash in dates and a balance
that one of them uses up give refusals on both guards. Journal totals lie on
both sides of the threshold. An order line of 2 can be received at once, in two parts,
or too much. Three rows make a circle that two parents do not show at once. A report
with a commit between any two of its statements has every pair of
states its statements can see. One lost handler reaches each gap between two
commits. Two levels and null give bounds that
meet, cross, stay apart or are open.
Named bounds: `MaxCrashes`, `MaxAmount`, `MaxPay`, `MaxDays`, `Levels`, `Deltas`, `MaxSigned`,
`MaxBatches`, `MaxLine`, `MaxBooked`, and in the scenarios `crashes`, `losses`, `slips`,
`changes`, `commits`, `minutes`, `docs`, `posts`. Interchangeable ids are
symmetric in runs without liveness.

`OneAtATime` stands where a property is false with two handlers, because the
code locks nothing there: the guard states what the code does keep. The scenarios of
width 2 check what survives overlap. Other guards name what breaks
a property in the code and are explained under *Disagreements*:
`Serialized`, `TrackedAlone`, `NoCorrections`, `AvailedUncorrected`, `NoGap`, `NoCancelUnseen`, `NotRedefined`, `WholeDocuments`, `UpdatesAlone`, `repeats`, `CommittedInParts`, `Recalculated`,
`Astray`, `Alone`, `turned`, `Due`, `early`, "expire", `together`, "restore", "loosen", "close", "code".

Deadlock is not checked (`CHECK_DEADLOCK FALSE`) in `stock_engine_hang`, where the hang is
the subject, and in `ledger`, `purchasing`, `warehouse`, `sales`, `workforce`, `setup` and
`setup_profile`, where rows run out and documents end: the system may stop. `StockEngine`
ends in `Terminated` when all requests are answered, `approval` in `Rest`.

Fairness is stated for `StockEngine` only (`FairSpec`): weak fairness of each task's
step. The event loop runs each ready task, PostgreSQL answers every statement that
need not wait and breaks cycles of row locks after its deadlock timeout; a released
asyncio lock or row lock goes to somebody. A crash is never obliged. The other models
have no liveness: users are not obliged to act, and their tasks repeat nothing
that failed.

## Disagreements with the documentation, and other results

Two are runs with a counterexample (`findings` in `PROJECT.json`): the hang, and two
active statutory profiles. The following were met while modelling, and have no
run of their own; where a property is guarded, this is why.

Stock and warehouse
- The first row of a key is used without a lock (`docs/inventory/stock-ledger-and-balances.md:56`).
  Two processes, or two documents of one process, whose lines give up the asyncio lock
  before the commit, can issue one serial number twice, lose a batch movement, or
  create two rows for a key without location.
- Two requests book one document twice. Cancelling a dispatched transfer leaves
  its quantity out of both warehouses. An issue with reserved lines, a receipt whose line
  creates a batch (`BaseRepository.create` commits), an adjustment, opening stock and a
  count commit in parts, so that a later line that is refused leaves a Draft with stock
  moved, which an update may then change. The clean-up leaves the quantity of an expired
  reservation reserved.
- Recalculating a balance (`POST /recalculate` and two tasks,
  `stock_engine_services.py:702`, `app/repositories/stock_engine_repos.py:293`) sets
  reserved, damaged and in-transit quantities to 0 under active reservations; for a row
  without location it sums the entries of all locations of the warehouse
  (`app/repositories/stock_engine_repos.py:177` asks for a location only when one is
  given). It takes no lock, so a movement in between is lost from the balance, and writes no
  ledger entry, so where it changes a balance the chain of the ledger no longer ends there.
  Each of these breaks what `StockEngine` states; the guards are `Recalculated`, `OneAtATime` and `Astray`.
- A reservation compares the row's reserved quantity with the reservations of the
  whole warehouse and stores the larger, plus its own
  (`inventory_advanced_services.py:403`): with several locations a row keeps more
  reserved than its reservations hold.
- `update_batch` sets the quantity of a batch past the ledger; a batch number is
  looked up within the product but unique over all; `delete_location` deletes the
  balance rows of the location by cascade while ledger rows lose their location.
- Deleting a brand, warehouse or location clears the links of products and
  configurations unasked; archived products still get new configurations
  (`docs/adr/ADR-0023-inventory-foundation.md:32`, `:35`). `delete_unit` uses a name never imported.
- Low stock means a sum in the report and any single row in the dashboard.

Purchasing and sourcing
- A receipt naming a line twice receives more than ordered; two returns at once
  return the same goods; a new batch commits the lines before it though
  `docs/procurement/logistics-and-receiving.md` says the entire receipt rolls back; a
  cancellation that overlaps a receipt leaves goods on a cancelled order; an update
  of a draft that another user approves, and receives in full, before the update
  commits leaves a fully received order with new lines nobody delivered.
- `create_order` stores any origin (`purchase_order_services.py:144`): a quotation may have
  several live orders, or one though it was never approved. `SourcedOnce` speaks of the
  orders it was turned into.
- No constraint stops duplicate invitations (`docs/procurement/sourcing-and-requisitions.md:93`),
  after which `scalar_one_or_none` raises. Two requests make two orders of one
  quotation (`docs/procurement/commercial-purchasing.md:85`); several quotations of a request
  may be approved. Two processes give two primary contacts
  (`docs/procurement/procurement-foundation.md:44`, `docs/adr/ADR-0033-procurement-foundation.md`).

Sales and CRM
- A delivery whose goods issue fails ends in a NameError (`delivery_services.py:119` uses
  an undefined `logger`), with the delivered quantities already committed; it counts, stays
  Draft, and its draft goods issue may be changed (`update_issue`) before the warehouse posts it, so
  that other goods leave than were delivered. A return is completed though its goods receipt
  failed (`sales_return_services.py:126`). A cancelled delivery gives nothing back;
  closing and reopening approves an order; two requests convert a
  quotation twice.
- The lock of a lead is released by the commits inside `convert_lead`
  (`docs/crm/crm-foundation.md` §4.1); a retry makes a second opportunity; an update
  may set CONVERTED, or overwrite it.

Finance
- `update_account` changes the type of an account with postings
  (`finance_services.py:316`) and leaves its balance: when the type changes sides, the balance
  no longer has the sign of what was posted, and the trial balance of balances and the
  balance sheet stop agreeing.
- Overlapping postings of one account lose one; an update can rewrite the lines of a
  journal posted meanwhile; a draft raised over the threshold posts without approval; a
  handler lost after the header of a reversal leaves an empty posted journal. The
  ledger query leaves reversed journals out while the balance keeps them
  (`docs/adr/ADR-0029-finance-core.md:19`).
- Vouchers: the status is never saved and `post_receipt_voucher` loses its sub-ledger entry
  (`docs/adr/ADR-0030-finance-operations.md:26`). Statement lines of any account are matched. Payroll items of
  the queue carry no amount and are always skipped; two workers post an item twice.
  `approve_budget`, `generate_schedule`, `post_depreciation` and the closing of
  periods in the operations service are never committed.
- Fiscal years are not compared; a handler lost half way leaves a year without
  periods; a circle of accounts closes through a deleted account; the days of a tax rate are
  compared nowhere.

People and payroll
- Leave: a balance may be created with days availed that no request accounts for
  (`leave_balance.py:122`). A correction of a balance that overlaps another change leaves the old remainder
  beside the new columns; two overlapping approvals lose a deduction (`docs/adr/ADR-0014-leave-request-workflow.md:28`),
  two submissions double-book; deleting the balance, cancelling and restoring loses the days,
  and so does a leave type that allows a negative balance when the balance is made or
  restored after the approval.
- Approval: a workflow with steps 1 and 3 is approved after step 1
  (`docs/adr/ADR-0015-approval-engine.md:21`); two overlapping decisions both commit; two
  submissions make two active requests of a document.
- Shifts: `end_assignment` may extend, and an update may take the end away, without
  a check. Nothing is cached, although ADR-0006, 0007, 0011 and 0012 say so.
- Compensation: restoring checks nothing and can give two active ones.
- Headcounts are committed before later checks refuse; delete, re-parent and
  restore closes a circle.
- HR configurations: handing an active one to another organisation is unchecked
  (`docs/adr/ADR-0007-hr-configuration.md:16`); `deactivate_all` commits on its own.
- Payroll: closing, then generating recalculates a locked period (`docs/adr/ADR-0019-payroll-engine.md:23`);
  overlapping generation erases a lock; a locked run's payslips change through another
  run type (`docs/adr/ADR-0020-payroll-runs-payslips.md:29`); adjustments never enter payroll,
  and updating the status of one raises a NameError (`payroll_finalization_services.py:131`).
  Approval takes the records as they are stored, whatever somebody saw before.

Reference data, access, reports
- Two concurrent updates of one bound each may cross. A reader that overlaps a
  change may store the tree it read before. A role is committed before its
  permissions.
- The report of goods received counts all receipts, and apart those Received and those
  Draft (`app/repositories/reporting_repos.py:769`): receipts that are Approved or Posted
  are in the total and in neither part.
- Imports write batches with any quantity, serial numbers and suppliers directly
  (`inventory_import_export_services.py:74`, `procurement_import_export_services.py:188`).
- Scheduled reports run at every task, due or not (`docs/adr/ADR-0031-reporting-bi.md:36`). The endpoint
  for inventory by product always raises. Dashboards count deleted rows. A snapshot is
  taken from the cached summary, up to 300 s old. Payroll totals count a payslip
  once per run of its period.

## Proofs

The proof modules extend the component they are about. Each starts with the invariant
it needs, then has one lemma per action or group of actions, and the theorems close
with PTL. The constants are arbitrary within the assumption the component's module
names: sets of tasks, rows, dates, keys or requests of any size unless it is said
otherwise, and any scenarios.

Five of them end with a section on what runs beside the component, which
`LedgerAndDocuments`, `PurchasingAndSourcing`, `SalesAndLeads`, `ApprovalsAndReports` and
`WorkforceAndPayroll` instantiate: `ASSUME Payroll!PayrollAssumption PROVE Payroll!Spec => ...`. The `MC` modules
assume the same formulas of their constants, so TLC evaluates them on every run. `BothSides`
of `SalesDeliveryProofs` shows how such theorems come together: a behaviour of the
composition is one of either side.

| Module | Theorems | Assumptions beyond types |
|---|---|---|
| `StockEngineProofs` | `TypeCorrect`, `BalanceCorrect`, `NotOversold`, `OneRow`, `TrackingAgrees`, `AccountsImplemented` | `StockAssumption`: keys are ordered by an injective rank (the string order `transfer` sorts by), a request has a line, a single movement one. `TrackAssumption`: batches and serial numbers are different things. `AccountsImplemented`: every key has its row |
| `JournalLedgerProofs` | `TypeCorrect`, `BooksCorrect`, `ReversalOnce`, `PostedForGood` | `LedgerAssumption`: finitely many handlers, journals and accounts |
| &nbsp;&nbsp;`FinanceDocuments` | `BankBalanceCorrect`, `NothingPostedTwice` | `FinanceAssumption`: finitely many handlers and queue items; an amount is possible |
| `LeaveRequestsProofs` | `TypeCorrect`, `RemainingCorrect`, `DatesApart`, `ApprovalsDeducted` | `LeaveAssumption`: dates clash symmetrically and with themselves; finitely many handlers and columns of a balance |
| `PurchaseOrdersProofs` | `TypeCorrect`, `CountersCorrect`, `NothingLost` | `PurchaseAssumption`: finitely many handlers, lines and returns; a line orders, and a document names, at least one; a document has one or two lines |
| &nbsp;&nbsp;`Sourcing` | `SourcedOnlyOnce`, `PrimaryContactIsOne` | `SourcingAssumption`: no row has the id `Missing` |
| `ApprovalEngineProofs` | `TypeCorrect`, `StepsSigned` | `ApprovalAssumption`: types only |
| &nbsp;&nbsp;`Dashboards` | `RecentDashboards` | none |
| `SalesDeliveryProofs` | `TypeCorrect`, `DeliveredCorrect`, `MovedOnce`, `OneConversion` | `SalesAssumption`: finitely many handlers, quotations, orders and documents, none of them the id `Missing` |
| &nbsp;&nbsp;`LeadConversion` | `ConvertedOnlyOnce` | `LeadAssumption`: no row and no handler has the id `Missing` |
| `WorkforceProofs` | `TypeCorrect`, `ShiftsApart`, `OneActive`, `LockHolds` | `WorkforceAssumption`: finitely many handlers |
| &nbsp;&nbsp;`PayrollPeriod` | `ApprovedPayAsSeen`, `LockedPeriodIsFrozen` | `PayrollAssumption`: a salary is possible |
| &nbsp;&nbsp;`MasterData` | `HeadcountMatchesHolders`, `NoRowAboveItself` | `MasterDataAssumption`: finitely many rows, each in one table |

`Sums` has the lemmas about sums over finite sets that five of them need: a
term taken out or put in, two functions added or negated, rows and columns of a table
exchanged, a telescope. `MapThenSumSet` folds a set in the order `CHOOSE` picks; an
argument about a smallest subset on which a claim fails replaces induction.

### Stock engine

`LedgerMatchesBalance` speaks of committed data only and is not inductive: a commit
appends what a session prepared long before. The inductive invariant `IInv` adds

- `PrelockOver`: a transfer has locked all its rows before its first movement;
- `OnlyRow`: a key with a row never gets a second one;
- `UnlockedElsewhere`: the fallback read and the insert concern keys without row;
- `WritersHold`: whoever has uncommitted changes to a row holds its lock;
- `SeenIsCurrent`: the object about to be written is that locked row at its latest value;
- `PendingChained`: uncommitted entries continue the committed ledger and end at the
  uncommitted balance.

The asyncio lock plays no part in this: the row lock is what protects a balance, across
processes too.

- `NotOversold`. `EntriesFit`: each entry, committed or not, changes the quantity by what
  it says and was not written below zero unless the policy allows it. On a chain the sum of
  what was booked is the last quantity less the first (`SumTelescope`).
- `AccountsImplemented`. `LinesWritten`: the uncommitted entries of a task are those of
  the lines it has flushed, in order, account by account. `KeysFresh`: an idempotency key
  it has written is in no other entry. So a commit is the atomic `Book`, a replay a
  `Recall`, every other ending a `Refuse`, and everything before it a stutter.
- `OneRow` needs the asyncio lock for keys without a location. `RowInv`: a task writes rows
  it can see or has made (`RowsMade`, `SeenMade`); a single movement has written nothing
  until it holds the lock of its process, and holds it to the end (`NothingWritten`,
  `MovementHolds`); a guarded key has one creator at a time, and no row while it has
  one (`OneCreator`).
- `TrackingAgrees`. `TrackInv`: what a movement that is alone with a record loaded when it
  checked it is still what is committed (`Viewed`), because no other movement is
  between its check and its commit; a commit adds one entry to the record and changes
  it by that entry (`Tallies`).

### General ledger

Debits equal credits and a journal has one reversal however many handlers
overlap: `AllBalanced` and `OneReversal`, with what a handler has checked (`Known`).
The rest of `BooksAgree`, and `PostedIsFinal`, hold one handler at a time: `Orderly` says
that it is alone, that what it has read, types of accounts included, is current (`Ready`), that rows have one
of the shapes of their status (`Shaped`), and that the balance of an account that is not
`turned` is the sum over the posted journals (`Books`). It stays so under `CommitRetype`
because an account that changes sides without being turned has a balance of 0, on either
side. The trial balances follow by exchanging the two sums.

What posts to the ledger is in `FinanceInv`, one handler at a time with any number lost:

- `Counted`: what has become of a document, its journals and its ledger entry, and what
  the handler that works on it has still to do, so that a document left half posted
  by a lost handler has its extra journal paid for by that loss;
- `Totalled`: each running balance of a party is the sum of its entries up to that one,
  and a party with entries has a last one (`EntrySum` brings the sum of
  `MapThenSumSet` under the lemmas of `Sums`);
- `Carries`, `BankInv`, `MatchInv`: what a handler has read of the document, the ledger,
  the bank, transactions and statement lines is current when it writes;
- `QueueInv`: what the worker has before it is still pending and is there once
  (`Waiting`), and an item it has handled in an open transaction (`Handled`) may have been
  posted already, an item that is pending otherwise only by a worker that was lost.

### Leave

`RowsSound` and `AllPrepared`: a balance row, and one a handler is about to write, has the
remainder its columns say, not below zero unless the type of leave allows it. With
overlapping handlers this needs `NoCorrections`: then all versions of a row differ in the
availed days at most. `DatesApart` follows from `Alone` and `Filled`.

`ApprovalsDeducted`. `Counted`: the availed days of a balance, live or deleted, are those it was
created with and the days approved of its kind (`CountedOf`), no approval is without a balance, and a handler about
to commit holds the stored row with just its own request deducted or given back (`Deducting`).
Proving it showed two conditions that the run's constants had met silently and
`DeductedOnce` now states: a kind that allows a negative balance can be approved without a
balance, which a later grant or restoration does not count, and a correction may set the
availed days themselves.

### Approvals

`Progress`: a request stands at a step all of whose predecessors were signed by a holder of
their role, and so does what a handler has read, however old it is, since a
history only grows. Needs `NotRedefined` and `NoGap`, steps numbered without gaps.

`BoardInv`: an answer that is kept was read in a minute that has come, and what a request is
about to answer was read in this minute, or is kept for less than its lifetime (`Printed`).
A task commits KPIs, which are never kept, and the procurement summary.

### Purchase orders

`CountersMatchStock` speaks of committed rows, so `IInv` adds what open transactions
hold. `Receiving`: the counters a receipt has seen, with the lines it has booked but those
still uncommitted, are covered by the committed movements (`Before` is what the document's
first lines say), and while no new batch gives its lock away the lines it has seen are the
stored ones and have room for the document. `Returning`: a return counts on counters
that are covered. `Knows`: a line a handler inserts is in nobody else's hands,
so `Covered` holds for lines that are replaced too. All of this holds with any overlap.

`Orderly` is the part for one handler at a time: what a handler loaded is still so
(`Current`), what went out is what the processed returns say, and goods lie on live lines
of an order past approval (`Settled`). `Complete` needs the receipt's view to be
current, which the lock gives, and `Asked`. Proving it showed a condition that the
run's constants had met silently and `NothingDropped` now states as `UpdatesAlone`.

`SourceInv` is kept by every step of `Sourcing`. `PapersInv` is `SourcedOnce` itself, which
is inductive: an entered order is not one the quotation was turned into, and only makes
`create_from_quotation` refuse. `PeopleInv`: a handler between reading and writing the contacts of a supplier
holds the lock, and who is primary is among those it takes the mark from (`Holding`);
a contact that is removed meanwhile only leaves fewer.

### Sales and deliveries

`IInv` holds with any number of handlers. A counter is written from what a delivery
loaded, so the inequality of `DeliveredIsCounted` needs that what was loaded is
already covered by committed deliveries (`Loaded`, `Covered`), and stays so because
documents only gain lines. `Knows` says how far a handler's commits have come; `Carries`
that a document without lines has one creator, and that afterwards its handler has the
stored lines: so whoever posts, a document that names its goods (`Linked`) has
moved all that they name, since nobody changes them once they are approved (`Booked`,
`Grows`). `Agreed` says that they name what the lines of the document name: always, where the
warehouse changes no draft, and otherwise one handler at a time while its own handler is
at it (`Owned`) and once the document names them (`NamesLines`). The sums over documents (`DeliveredOn`, `On`, `Total`) are those of
`Sums`: a step changes the sum by its own document's share (`DeliveredStep`).

`Orderly` is for one handler at a time: what it loaded is the stored row (`Current`),
with the state its check asked for, such as an open order or goods not yet posted.
Counters are then exact and the status fits them (`Exact`), goods have moved when they
are posted and not before (`Moved`), and the order that completed the conversion of a
quotation is the only one (`Converted`). `Exact` needs that the lines of an order have
different numbers, and that nothing is delivered on a draft, whose lines may be replaced. A
return that is approved must have left Draft before its goods are made; otherwise a
second approval could make them again.

`LeadInv` has a part for each condition of `LeadConvertedOnce`. With any number of handlers,
`LockKept`: a conversion that creates nothing holds the lock on its lead, which is not
converted, until it marks it. `CustomersApart` is inductive as it stands. One handler at a time,
`OneLead`: the lead of whoever is at work is not converted yet, and each opportunity is
accounted for by a completed conversion, a lost handler or the one at work (`Raising`). The
lemmas say what a step does to its handler (`LeadDesk`), to a lead (`LeadRowStep`) and
to the locks (`LeadLock`).

### Attendance and pay

`Ready`: what a handler has loaded is current when it is alone (`Current`), and what
it is about to put in force shares no day with the assignments in force (`Clear`) and
leaves one active compensation (`Single`). `LockHolds` holds with any number of
handlers: whoever is about to write attendance loaded it unlocked (`Known`), and no handler
clears a lock it has not loaded.

`PayInv`. One request at a time, a handler has the period, the records and the runs as
they are (`PayCurrent`), so what it approves is what is stored. The first part of
`LockedIsFrozen` holds with overlapping requests too, from what each has loaded (`PayKnown`).

`MasterInv`. `Counts`: when the handler at work has counted (`HeadAfter`) and the employee
has moved (`HeldAfter`), headcount and holders of a position differ by one at
most for each handler that stopped between two commits. `JobKnown` says which commits the
handler still owes.

`Rooted` is what keeps the hierarchies: no set of rows has each of them live and hanging under
another one of the set (`Loop`), and a row hangs under its like, which is or was there
(`Hangs`), so that a row which is made anew has nothing below it. It is inductive
because `Circular` follows the walk from the new parent: if the change closed a loop, the walk
would stay in the loop (`TrailStays`) and neither meet the row that moves nor end. That a walk
ends within as many steps as there are rows is the pigeonhole principle (`TrailEnds`), and
what a walk visits comes from the recursive function by smallest counterexample
(`WalkExists`, `TrailShift`). All of this is for scenarios without restoration:
`restore_department` and its siblings may close a circle.

### Model-checked only

Liveness (`EveryRequestAnswered`), which is beyond the prover, as is `ENABLED`.
`CacheIsCurrent`, `RowsAgree` and `AccountsInTree` are about four services at once, which only `MCSetup`
puts together, with limits on their numbers. `MovedAsStatus`, `FiguresFollowTheLedger`,
`NothingLeftOut` and `ReportsAgree` have no proof yet.

## Plan

What is left to prove, most important first: `MovedAsStatus` of `WarehouseDocuments`,
then the figures of the reports, and `RowsAgree`.

## Not modelled

- Login, tokens and permission checks: every operation may be called at any time.
- Audit log, notifications, templates, files, integrations, webhooks: output, or calls
  outside, that no modelled state depends on; where writing the audit log
  commits a transaction early, the commit is in the model.
- Search, export, sales analytics, saved and scheduled reports: reading.
- Imports of inventory and procurement data: they insert batches, serial numbers and
  suppliers past the services that are modelled, so what is shown of batches and
  serials holds for databases without imported ones. The import of customers
  calls their service once per row.
- Pricing, discounts, taxes, salary and statutory arithmetic, valuation: pure functions of
  one document, without an order of events.
- Opportunity stages, activities, meetings, tasks and campaigns: changes of one
  row with no rule between rows. Ratings of suppliers: an average.
- Endpoints, schemas, migrations, the web client and deployment.
