# Formal models of open-accounting

TLA+ models of the parts of open-accounting whose correctness depends on the
order in which concurrent requests, database statements and failures happen:
payments and invoices, the period lock, the journal with its year-end
carry-forward, banking, documents generated on a schedule, fixed assets, and
stock with the orders that reserve it. TLC checks them on small instances,
TLAPS proves every safety property that the passing runs check, for every value of
the constants. `PROJECT.json` lists the components,
the runs, the source lines each definition stands for, and the hazards the
properties are aimed at.

To check a run: `tlc -config PeriodRaces.cfg MCPeriodClose`. To check the
proofs: `tlapm PeriodCloseProofs.tla`.

## 1. The system

A multi-tenant accounting server in Go: HTTP handlers (`cmd/api`) call services
(`internal/*`), which call GORM repositories over PostgreSQL, one schema per
tenant. Several servers and any number of requests run at once, and nothing is
kept in memory between requests: **all state is rows, and all concurrency is
between database statements**. A repository call outside a transaction is one
statement in READ COMMITTED; services that need more use gorm's `Transaction`,
which commits at the end and rolls back on any error. A request may stop
between any two statements (the client leaves, the server crashes).

| Component | State | Operations | Interacts with | Correct when |
| --- | --- | --- | --- | --- |
| payments | payments, payment_allocations | Create, Reverse, AllocateToInvoice | records the payment on invoices in the same transaction | allocations never exceed a payment; a payment is reversed once, in whole; numbers are unique |
| invoicing (lifecycle) | invoices: status, amount_paid | Create, Send, RecordPayment, Void, UpdateOverdueStatus | called by payments; UpdateOverdueStatus is a service operation that no code of this repository outside tests calls | no payment is lost; status, amount and allocations agree; void is final |
| tenant period close | tenants.settings (JSON), tenant_period_closes | ClosePeriod, ReopenPeriod, UpdateTenant | every handler of a dated write reads the lock date | the lock date moves by closes and reopens only and can always be taken back to where the tenant began |
| accounting journal | journal_entries and their lines | create, post, void; balances | handlers check the period lock first | posted entries balance; an entry is voided by one reversal; locked months do not change |
| accounting year end | the journal | carry-forward, its reversal, status | needs the year closed; blocks the reopen | the request posts one carry-forward per year, exact, until explicitly reversed |
| recurring invoices, journal templates, scheduler | recurring_invoices, journal_entry_templates: next date, end date, active, count | create, change, pause, delete; generate one, all that are due, or by a date | journal, invoicing, period lock, email | no day is passed over without a document for it, no date is generated twice, counts are those of the documents |
| banking | bank_transactions, bank_reconciliations, match rules | import, match, unmatch, auto-match, create a payment, reconcile | inserts payments itself, past the payment service; the handlers of evidence | a transaction is imported once, a match is not overwritten, a payment is not matched twice by the program, payments are ones the payment service could make, what is reconciled stays |
| assets | fixed_assets, depreciation_entries | create, import, change, delete, activate, depreciate, dispose | posts journal entries in transactions of their own | never below zero, depreciation backed by entries, a disposal stands |
| inventory, orders (stock) | products.current_stock, stock_levels, inventory_movements, order_stock_reservations | adjust, issue, transfer, reserve, release; order create, change, delete | the handlers of orders reserve and release; a posted issue writes the journal | levels add up, follow the movements, and cover what orders hold, up to what columns round |
| auth, api tokens, tenant users | sessions, tokens, memberships, invitations | login, refresh, revoke, accept | every handler | a refresh token is used once |
| orders (status), quotes | documents with a status | confirm, ship, convert | invoicing | lifecycle order |
| expenses, payroll, tax | documents with approval lifecycles | submit, approve, pay, file | journal, documents | lifecycle order |
| documents | files and their reviews | upload, review | journal posting and close require approval | evidence is approved when used |
| webhooks, email | deliveries, logs | send, retry | every handler | delivered at least once |
| reports, analytics, workspace, pdf | none | read | every table | agree with the tables |
| imports, cutover | none of their own | validate, import | every service | as the services |
| command line, frontend, mcp-server | none | call the HTTP API | handlers | - |

### What is hard here

- **Check, then act.** A service reads a row in one statement and decides, then
  writes in another: `Send`, `ClosePeriod`, `UpdateTenant`, the period lock
  check of every handler, the carry-forward. The good cases put the check into
  the write (`VoidInvoice`, `UpdateJournalEntryStatus`, `VoidJournalEntry`,
  `createReversal`) or lock the row first (`GetByIDForUpdate`, `applyPayment`).
- **Locks taken implicitly.** Inserting an allocation locks the invoice
  FOR KEY SHARE through its foreign key, before `applyPayment` asks for
  FOR UPDATE: two payments of one invoice deadlock, and one is rolled back.
- **Clamped amounts.** `calculatePaymentUpdate` cuts an amount at zero and at the
  total, so an invoice does not remember an overpayment that is reversed later.
- **Whole documents.** The lock date is one field of a settings document that
  three operations read and write whole.
- **Old events decide.** A reopen restores the lock date an old close event
  recorded, whatever happened since.
- **Several transactions for one operation.** A carry-forward is created in one
  and posted in another. A document is generated before its template moves to
  the next period. A depreciation posts to the journal, then records an entry,
  then writes the register. A movement, the product's total and the level of
  the warehouse are three writes. A crash in between is not repaired by anything.
- **Whole rows written from what was read.** Stock levels and the values of an
  asset are worked out from an earlier read; a change made meanwhile is lost.
- **Duplicate check, then insert.** A statement line is looked up and inserted in
  two statements, with no unique key behind them.
- **Generators without a lock.** Every server runs the scheduler, and nothing keeps two
  generators of one template apart. The jobs of this commit create nothing: they act as user
  "system" (`scheduler.go:235`, `scheduler.go:291`), and `created_by` is a UUID
  (`migrations/011:83`, `migrations/011:190`), so every INSERT of theirs is refused. Two requests do race.
- **Columns that round on their own.** Quantities are unvalidated decimals, movements keep six
  digits (`migrations/011:356`), totals and the three columns of a level three
  (`migrations/016:33`, `migrations/016:87`): one change rounds to several different numbers.
- **Links that clients choose.** Source type and id of a journal entry, by which the
  year-end request recognises its own entries, are taken from the body of any request to create one
  (`accounting/service.go:312`).
- **Dates that do not add up.** `AddDate` of a month from the 31st ends in the month after the next.

## 2. The modules

| Module | Models | Abstracts from |
| --- | --- | --- |
| `ReceivablesState` | the rows of payments and invoices, the rules that read or update one row, the invariants both modules below promise | currencies, contacts, methods, dates but "past due" |
| `Receivables` | the abstract specification: Create, Reverse and AllocateToInvoice each happen at once or not at all; Send (two statements), Void, the overdue update, the clock | statements, locks, failures |
| `PaymentTransactions` | the same operations as the code runs them: statements of concurrent transactions, row locks, numbers read without a lock, rollback, deadlock | savepoints; there are none |
| `PeriodClose` | ClosePeriod, ReopenPeriod and UpdateTenant, each a read and a later write, with failures between, of a tenant created with any lock date or none | settings other than the lock date |
| `Ledger` | the journal and the balances computed from it, one action per database transaction | line order, descriptions, the chart of accounts but P&L or not |
| `YearEnd` | `PeriodClose` and `Ledger` composed with the handlers: lock check, read, write as separate steps; entries with any source a client names; carry-forward and its reversal; the reopen check | evidence and inventory reviews, taken as approved |
| `Banking` | import, matching by clerks and by the program, payments made from bank transactions, reconciliation, composed with `Receivables`, whose operations go on meanwhile | match scores and rules (any candidate or none), documents of evidence, several accounts |
| `Generation` | templates, the generators (jobs of any number of servers, requests), days, weeks and months of any lengths, end dates, the period lock, crashes between document, schedule and count | what is in a document, mail |
| `Assets` | the register, its requests transaction by transaction, amounts in cents with rounding | categories, accounts, maintenance, the dates |
| `Stock` | levels, totals, movements, what orders hold, each column with its rounding; every request read by read and write by write | lots, costs, the status of orders |
| `MC...` | constants and symmetry for TLC | |
| `SumTheorems` | lemmas about sums over finite sets, used by the proofs below | |
| `PaymentTransactionsProofs` | theorems about `PaymentTransactions`: isolation, refinement, and what the payments promise | |
| `PeriodCloseProofs`, `YearEndProofs` | theorems about `PeriodClose` and `YearEnd` | |
| `BankingProofs`, `GenerationProofs`, `AssetsProofs`, `StockProofs` | theorems about the module they are named for | |

### How state and actions correspond

**Payments and invoices.** `pay[p]` is the payments row `p` with its
allocations summed per invoice; a row without a number is an id not used yet.
`inv[i]` is `status` and `amount_paid`. `pastDue` is what the clock has done to due
dates. In `PaymentTransactions`, `pay` and `inv` are what is committed and `tx[t]`
is what transaction `t` has done: the operation, how far it is, the row it will
write, and the invoice rows it has updated. No lock table is kept: who holds
which lock is a function of how far each transaction is (`HoldsPayment`,
`LocksInvoice`, `SharesInvoice`, `HoldsNumber`), and `WaitsFor` is PostgreSQL's
conflict table for those locks. The order in which a transaction visits invoices is
the request's for Create and free for Reverse, whose query has no ORDER BY.
Allocations of one payment to one invoice are one number: recording them one
after the other gives the same row as recording their sum, because the clamps
of equal sign compose. Send's single UPDATE waits for FOR UPDATE locks and not for
key shares. An invoice starts as a draft.

**Period close.** `lock` is `settings.period_lock_date` as the number of a day, 0 for
none. A month is named by its last day, an element of `MonthEnds`; days past `LastDate` are out
of the model. CreateTenant stores the settings of its request as they come
(`tenant/service.go:72`), so a tenant may begin with any lock date, one inside a month
included, and no event: `opening` remembers it. `closes` is the event
table in the order of commit; the code orders by `created_at`, which the
server sets just before the transaction, so two overlapping requests can swap
in it, which the model leaves out. `officer[o]` is a request between its read
and its write. `UpdateTenant` stands for every operation that
writes the settings document back (the late-payment interest rate too).

**Journal and year end.** An entry's lines are the sums per account of debit
minus credit, once in the line's currency (`raw`), once in the base currency
(`base`), because balances use the first and validation the second.
`link` is source type and source id: an entry that a request creates carries
whatever the client sent (`accounting/types.go:263`, `accounting/service.go:312`), so it may name a
year as its carry-forward or an entry as its reversal. `own` is a history: the program chose the
link itself. `created` is one too: how many period-close events came before the entry. Dates are
days and a year has `YearLength` of them: a carry-forward is dated the day after
its year, a generic reversal on the day `Now`. `call[h]` is what a handler has
read and is about to do; `FailCall` ends it anywhere, which stands for every
refusal, failed statement and crash. Create, post and void go through the
lock check of `cmd/api`; the year-end requests have none of their own, they
require the year closed. Imports, which also write the journal, are not modelled;
entries generated from templates are in `Generation`.

**Banking.** `bank[b]` is a row of bank_transactions: the statement line it came
from, its status, payment and reconciliation; `recon` is the status of each
reconciliation. Matching, unmatching and completing are single statements (or one
transaction) whose WHERE names the status, so each is one action on the rows.
What takes longer is a request of a clerk `c`: an import goes through its lines,
check and insert in turn; auto-matching reads the unmatched rows once, and lists
the candidates and matches for each of them; a payment is made in a
transaction after the row was read. `Fail` ends a request anywhere. Two lines are the same
transaction (`SameTransaction`) when they share an external id or date and
amount. A line may be of any amount, zero included (`banking/transaction_import.go:39`). The
payments are those of `Receivables`, instantiated as `R` on the same variables: `PaymentStep` is any of its steps, and `PaymentsAsPromised` says that what
banking inserts could have come from there. `made` (a payment and the row
it was made from), `skipped` and `by` are histories.

**Generation.** A date is the number of a day. `tmpl[t]` is the row of a recurring invoice
(`Invoicing`) or a journal template (`Journals`), `docs[t][d]` the number of documents generated
from `t` for day `d`. A document stands for the days from its date to the day before the next
date of the frequency it was made with. `CalculateNextDate` adds weeks in days, and months as
`AddDate` does: the same day of a later month, which runs over into the one after where that month
is too short. `Week` and `FirstDay` are the lengths of weeks and months: parameters, so that a short
calendar shows the overflow and the proofs hold of every calendar. `gen[g]` is a generator: a job of one server's scheduler, or a
request. It holds the templates that were due when it began, then one of them with the date
it has read, then the document is there (`created`), then the next date is written (`moved`);
a journal template is counted with its date, an invoice in a statement of its own. The
INSERT of a job (`Jobs`) is refused every time (`InsertRefused`), since a job has no user
whose id `created_by` could take; it goes on with the next template. The
lock date is read when the generator begins. `periods`, `named`, `halfway` and `uncounted` are
histories: which documents were made with which frequency, dates a user asked for, documents
whose template a failure kept from moving, and documents a failure kept from being counted.

**Assets.** `asset[a]` is the row, `recorded[a]` the sum of its depreciation entries,
`depreciation[a]` and `disposals[a]` what the journal has posted for it.
Creating a journal entry and posting it are one step, since a draft changes no balance.
A request reads the row (`read`), posts (`posted`), records the entry
(`entered`), and writes the row. `opening` is what an import brought, `halfway` what a
failure left posted and not written, `overlapped` marks an asset that two
requests were about at once.

**Stock.** `stock[p]` is `products.current_stock`, `level[<<p, w>>]` a row of stock_levels,
`moved` the sum of the movements, `held[o]` the rows of order_stock_reservations.
A quantity is any decimal. It is counted in quarters of a millionth, enough to tell apart
those that round differently: a movement keeps millionths, the total and each of the three columns
of a level keep thousandths, a half rounded away from zero (`Rounded`). So a reservation of
0.0005 adds 0.001 to what is reserved and takes nothing from what is available, and its release
takes nothing from what is reserved.
A request keeps the level it read and writes it back whole. An order's request goes
through its products one at a time: the level first, then the order's row, then the next
one; when the row cannot be written it releases again (`RollBackReservation`), which may fail too.
The handlers aggregate the lines of an order by product, so `needs` is one
quantity for each. Nothing that reserves or releases reads the status of the order, so it
is left out; orders may therefore be changed and deleted whenever they exist, which
includes every case the code allows. `behind`, `stockBehind`, `overlapped` and
`freed` are histories: what stopped requests moved and did not write, products
with two requests at once, products whose stock was released past the orders. `rounded` and
`stockRounded` count the writes of a fraction of a thousandth, each of which may round.

## 3. The runs

Passing runs:

| Run | Question | Bounds and why they are enough |
| --- | --- | --- |
| `PaymentsRaces` | over-allocation, double reversal, numbering, lost payments, status, void | 2 transactions are what a race needs; 3 payments leave an original, its reversal and a third one that competes for the invoice and the number; total 2 and amounts 1 and 2 give part, exact and over payment; Send, Void, the overdue update and the clock run beside them |
| `PaymentsAtomic` | the transactions implement `Receivables`; the inductive invariant; every transaction ends | 2 invoices, so that locks are taken in both orders; no symmetry, which is unsound for liveness, and no Send, which takes no part in a deadlock |
| `PeriodRaces` | reopening under races | 2 officers, 3 months (a month before, at and after), the last of two days, so that a tenant may be created with a lock date inside a month, 4 events |
| `YearCarryForward` | one exact carry-forward | 1 handler and 1 officer, whose steps interleave; a year of one day, open or locked from the beginning, and the day after it; 4 entries: a sale, carry-forward, reversal, second carry-forward, any sale of which a client may have linked to the year; 2 events: close and reopen; 4.2 million states |
| `YearVoid` | reversal and balance under races | 2 handlers, 1 officer, 4 entries; requests that balance, that do not, in a foreign currency, and linked by a client to the first entry as its reversal; 1 event, since a close is all that a carry-forward needs |
| `Banking` | one row per transaction, one payment per row, matches that stand, payments as the service would make them | 2 clerks; 2 lines that are one transaction, corrected to an amount of zero in the second, so that only the external id tells; 2 rows and 2 payments, so that two rows compete for a payment and two clerks for a row; 1 reconciliation. No invoices: allocation is the question of `PaymentsRaces`, and `Banking` does not read it but to filter candidates |
| `Generation` | no day skipped, none generated twice, counts, no template starved | a job that serves two journal templates, one request for the first of them and the invoice, another for the invoice, so that both the case of `Alone` and races occur, and the job comes to a template after the error of another; 2 templates at a time; a week of a day, a month of two days before one of a single day, and a clock that starts on the second day, so that `AddDate` runs over; 2 days of the clock, end dates at the first and none, 2 requests or changes by hand, 1 failure, a lock at the first day |
| `Assets` | register, entries and journal agree | 1 asset, since assets share nothing; 2 clerks; cost 5, so that straight line over 2 rounds up and its last month is cut, the double-declining rate, and a residual value; 5 requests: two depreciations, two disposals, one activation |
| `Stock` | levels, movements and reservations agree | 2 products (an order stops between them), 2 warehouses for transfers, 1 order of one or both products, 2 clerks, 3 requests: two that overlap after one that reserved; a quantity of 1.4995 thousandths, which every column rounds, its movement too, and an order for half a thousandth, which rounds up both where it is added and where it is taken away |

Every bound is a constant: `Payments`, `Numbers` and `Tx` are finite sets,
`MaxEvents` and `MaxEntries` bound the tables. A request that finds a table
full can still fail, and payments go on with the clock until all is done. The run
of `Receivables` alone, which has no failures, and the four runs of the other components
do not check for deadlock: their rows, periods, failures and requests run out.

`CarryForwardExact` is stated for a year that stayed locked since the
carry-forward was created, and checked where requests of one kind do not overlap and
`Now` is not locked. What overlap does is told below. `CarryForwardOnce`, `CarryForwardExact` and
`OneReversal` count the entries that the program itself linked to a year or an entry (`own`): what
a client links is posted beside them in the runs, and is not counted. `LockReopenable` excepts the
lock date a tenant was created with, which no event can reopen. `PaymentsAsPromised` excepts the
payment of zero that a line of zero becomes (`PaysNothing`).
The properties that need requests one at a time say so and name it: `ImportedOnce` is
checked with one importer and `AutoMatchesDistinct` with one auto-matcher, beside any
other request; `GeneratedOnce` speaks of templates that one request serves, beside any jobs;
`BooksAgree`, `MovementsAddUp` and `OrdersCovered` of an asset or product that no two requests
were about at once, with failures anywhere. `LevelAddsUp` and `MovementsAddUp` allow what columns
round: a thousandth for each write of a fraction, and half of one. The others hold under every interleaving.
`StatusMatchesPaid` says nothing of SENT and OVERDUE, which `Send` writes over
anything.

Runs that find a disagreement between the code and what the repository says
of it (each checks one property; the counterexample is the run's output):

| Run | What happens |
| --- | --- |
| `ReceivablesVoid` | Two payments of 2 are recorded on an invoice of 2: amount_paid stays 2. One is reversed: amount_paid is 0, though the other stands. The invoice can be voided: "cannot void invoice with payments" (`invoicing/repository_gorm.go:196`) does not apply |
| `YearReopen` | A carried year is opened by reopening one of its earlier months (`docs/CLI.md:1062`, `docs/API.md:395`) |
| `YearVoidBalance` | A voided entry is not counted, its reversal is: the balance is the negative of the voided entry (`accounting/service.go:765`) |

More follows from the same causes and has no run of its own.

- `SendsOnlyDrafts` (`Receivables`): Send reads a draft, the invoice is paid or voided,
  Send writes SENT, though it should "verify invoice exists and is in draft
  status" (`invoicing/service.go:182`). To see it, add a sender and the property to
  `ReceivablesVoid.cfg`.
- `ClosesAdvance` (`PeriodClose`): two closes read the same lock date, the later month
  commits first, the other one moves the lock back, in spite of "period already closed
  through" (`tenant/period_close.go:23`). Add it to the properties of `PeriodRaces.cfg`.
  The invariant `AuditTrail` fails there too. With one officer both hold, which is proved.
- "A carry-forward cannot be posted twice for the same fiscal year" (`docs/API.md:436`) holds of
  requests to carry forward that come one at a time. Two that race both find none and post
  one: give `YearCarryForward.cfg` a second handler and `CarryForwardOnce` fails. A client that links
  an entry of its own to the year posts a second one by itself: without `own`,
  `CarryForwardOnce` fails in the run as it is. So would `OneReversal` in `YearVoid.cfg`.
- The jobs create nothing, although recurring entries are said to be generated "by the
  tenant-wide background scheduler" (`docs/DEVELOPMENT_STATUS.md:40`,
  `docs/FEATURE_MAPPING_MERIT_SMARTACCOUNTS.md:44`): `InsertRefused` takes every job back before
  it has a document, and the proof of `GenTypes` shows on the way that no job ever holds one (`Held`).
- A statement line of zero becomes a payment of zero, past "payment amount must be positive"
  (`payments/service.go:69`): without `PaysNothing`, `PaymentsAsPromised` fails in `Banking.cfg`.
- The lock date that a tenant was created with can never be taken back: there is no close event to reopen by, and
  "period lock must be managed through close or reopen actions" (`tenant/service.go:150`). Without
  `opening`, `LockReopenable` fails in `PeriodRaces.cfg`.
- A settings update that overlaps a close writes the old lock date back, although
  `tenant/service.go:150` says "period lock must be managed through close or reopen actions". A
  close that commits between the lock check of a handler (`cmd/api/period_lock.go:23`) and
  its write leaves a new entry in a locked month (`docs/API.md:460`).
- The trial balance sums the amounts of lines in different currencies, while entries are
  validated in the base currency, so a valid entry may leave it unequal.

What the new components do outside the conditions of their properties, none of it against a
document of the repository:

- Two imports at once import a line twice; two auto-matching runs, or a clerk who names the
  payment, match one payment to two transactions. The evidence of a reconciliation is read before
  it is completed: what is matched in between is reconciled without.
- Two requests at once generate a date twice. A recurring invoice that still misses a date when its
  end date passes never gets it; `Due` ends with the end date. A monthly schedule that begins on the
  31st of January goes on from the 2nd or 3rd of March: no day is passed over, since the
  document of January stands for all days until then, but February has none of its own.
- Two disposals of one asset both post journal entries, and the one that is too late is refused
  only then. An activation that had found a draft revives an asset that was disposed of meanwhile. A declining
  balance over less than twelve months divides by zero (`assets/types.go:162`).
- Of two concurrent changes of one stock level one is lost. Deleting an order deletes what it
  holds and leaves the levels reserved (`migrations/033_order_stock_reservations.up.sql:15`); releasing a
  product without naming an order frees what an order holds.
- Each change by a fraction of a thousandth may leave a level with a thousandth more reserved and
  available than it has, and half of one away from its movements, and this adds up without a bound. A
  level whose available quantity has run ahead can be issued below zero: `quantity` alone
  has no lower bound in `StockTypeOK`. Half a thousandth that is released again and again
  never leaves the reserved column.

### Fairness

`PaymentsAtomic` assumes some for `TransactionsEnd`. A server goes on with a transaction it
has begun. Statements that wait for a lock need strong fairness, because the lock may be taken and
freed again and again: PostgreSQL queues the waiters of a row lock. The deadlock
detector, which runs after `deadlock_timeout`, needs weak fairness only, since
a deadlock persists until a victim is chosen. Requests, failures, Send, Void and the
clock have no fairness. Without the detector the property fails.

`Generation` assumes, for `NoTemplateStarves`, that each job fires again and again
(`WF(GenerateDue(j))` of `j \in Jobs`: the cron entry of `scheduler.go`) and that a job that runs goes
on (`WF(Work(j))`). That every INSERT of a job is refused is no failure in this sense: it is a step
of `Work`, as often as the job tries, and what the property says is that the error of one template
keeps no other from being tried (`recurring/service.go:427`). `MaxFailures` bounds the
servers that stop and the other statements that fail: a job that was stopped for ever before
it came to a template would never try it. Requests, the clock, users and the lock have no fairness.

## 4. What is proved

All for every finite set of payments, invoices and accounts, every set of transactions,
officers, handlers, dates and months, under the assumptions named in the modules
(`TotalAssumption`, `AmountsAssumption`, `NumbersAssumption`, `NoneAssumption`,
`FiniteAssumption`, `DatesAssumption`, `AccountsAssumption`, `YearAssumption`), and for the components added to them
for any statement lines, rows, templates, calendars, assets, plans, products, warehouses,
orders, quantities and clerks (`LinesAssumption`, `ClerksAssumption`, `BankNoneAssumption`,
`DatesAssumption`, `CalendarAssumption`, `EndsAssumption`, `KindsAssumption`, `ServesAssumption`, `BoundsAssumption`,
`CostAssumption`, `PlansAssumption`, `OpeningsAssumption`, `StockAssumption`; they are
what a validation of the code or the encoding of a missing value gives).

- `PaymentTransactionsProofs!TransactionsIsolated`: `Spec => []TxInv`. `TxInv` is inductive as it
  stands. It says that a payment is held by one transaction, an
  invoice locked by one with nobody sharing it, the updated invoice rows are
  still what the committed rows give (`UpdatesNotStale`), and the checks a
  transaction made still hold (`CreateOK`, `ReverseOK`, `AllocateOK`, `NewOK`). The
  difficult steps are the commit of one transaction, which must not disturb what
  another has checked, and the single statements, which wait for invoice locks.
- `TypesKept`: `Spec => []TxTypeOK`, from it: no amount becomes negative.
- `PaymentsAtomic`: `Spec => R!Spec`. Every Commit maps to one step of
  `Receivables` and every other statement to a stutter, under `TxInv`.
- `ReversalsMirror`, `StatusesAgree`, `VoidedStaysUnpaid`, `VoidIsFinal`,
  `NeverOverAllocated`, `PaidIsBacked`, `PaymentsKept`: the promises of the atomic operations,
  proved for the transactions. Since every step of the transactions is a step of `Receivables`
  (`StepMaps`, under `TxInv`), only its few actions need be looked at: `Moves`
  lists what one of them can do to an invoice (record an amount, send, void,
  mark overdue), and each property follows from that list. For the last two, `PaidStep`
  says by how much a step changes what an invoice was paid, and by how much the standing
  allocations: by the same amount (`Added`, `TakenOff`), but for the clamps, which
  `PaymentsKept` shows to do nothing while no more than the total was ever offered.
- `NumbersFollow`: `Spec => []NumbersDense`. The number is MAX + 1 of what was committed
  when a transaction read it, so `NumbersInv` adds that the number a transaction holds
  still follows one that is taken (`Follows`): either it is next, or the unique key refuses it.
- `PeriodCloseProofs!LockCanBeReopened`, `ReopeningOpens`, `PeriodTypes`. None of them is
  inductive alone: a stale settings write puts back any lock date that was
  read before. `PeriodInv` adds that every lock date a request carries can be
  reopened too or is the one the tenant was created with (`Reopenable`), and that every close
  event records a lock date before its month of which the same was true when it was
  written; events are never deleted and `opening` never changes, so it still is.
- `EventsAreTheAuditTrail`, `ClosesMoveOn` assume `OneOfficer`: no two requests overlap, though
  any of them may fail. `AuditInv` adds that the lock date a request has read is the one in
  force (`UpToDate`).
- `YearEndProofs!EntriesReversedOnce`: `YearSpec => []OneReversal`, although
  any number of requests may have read an entry as posted. `PairedReversals`
  strengthens the count to a bijection between the reversals that the program made and the voided
  entries, each with the lines of the other swapped, whatever entries clients link; `YearTypeInv` adds that a request which will
  write an entry names one that exists (entries are never deleted).
- `YearTypes`, `PostedBalance`. `YearTypeInv` holds the types of journal, lock and requests, with
  balances that are sums over entries; every entry balances on its own, drafts by their
  validation and reversals because they swap the lines of one that does, hence the posted ones do.
- `CarriedForwardOnce` assumes `OneAtATime` (one handler at a time, failures anywhere).
  `CarriedInv` counts drafts too: a carry-forward that was created and not posted is found
  by the check of the next request, and a request past that check has found none. Entries that
  clients link to the year can only make the check refuse.
- `CarriedForwardExactly` assumes `OneAtATime`, `OneOfficer` and `Now > LastDate`, the current
  date being one that cannot be locked. TLC refutes the property without any one of them
  (`YearCarryForward.cfg` with a second handler, a second officer, or `Now = 1`): an entry
  checked before the close is posted after the balances were read; a stale settings
  update opens the year, and no event tells; a void writes its reversal into the locked year.
  `ExactInv` says that the last close event tells the lock date
  (`LockFollows`), that a carry-forward of a year held since empties the accounts of that
  year as they are now (`RowsExact`), and that what the request under way is about to post or
  void lies after every year held (`CallExact`): the officer may close a year between
  a request's lock check and its write, but such a year was not held when the carry-forward
  was created.
- `BankingProofs!BankTypes`, `MatchesAreKept`, `NoPaymentIsLeftOver`, for any number of
  clerks. `BankInv` adds what a request under way has read: rows that are imported and payments
  that exist stay so. `RowMoves` lists what a step can do to one row; the three
  follow from that list. `OneImporterImportsOnce` assumes one importer: `Checked` says that
  the line it is about to insert is still no duplicate, which only another importer could
  undo. `AutoMatchesStayDistinct` assumes one auto-matcher: the payment it has picked is
  matched to no row unless a clerk names it; payments made from a row are new.
- `BankingPaysAsPromised`: `Spec => PaymentsAsPromised`, that is, `R!Spec`. Under `BankInv` the one
  step of banking that writes payments, `CommitCreate`, is `R!CreatePayment` of a request
  without allocations that names the statement line's type and amount; where the amount is zero,
  which no request may name, it is `PaysNothing`.
- `GenerationProofs!GenTypes`, `NoPeriodIsSkipped`, `OneGeneratorGeneratesOnce`. `NoPeriodSkipped`
  is not inductive: a slow generator may move a template back or forth. `CoverInv` adds that all days before the one
  any generator is at are covered, and documents are not taken back, so it does not matter who
  writes last. The document a generator has just made covers the rest, up to the next date it
  will write, whatever month that is in; that the next date is later than the document's
  (`NextIsLater`) is all that is used of the calendar. A template that a generator works on has a row
  (`Present`), so its schedule is not begun anew. `OnceInv` says that from the next date on there are
  only documents a request has in hand or a failure left; with one request, what it holds is
  the next date. Jobs do not count in it, because they never make one (`Held`).
- `DocumentsCounted`: for any number of generators, since the count is incremented by the statement
  itself. `TallyInv` adds that nobody works on a template that is not there yet.
- `AssetsProofs!AssetTypes`, `NeverBelowZero`, `RegisterBacked`, `DisposalsStand`. What a request
  has read may be out of date, so `AssetInv` says of a request only what it will write: within
  the cost, and covered by entries that are there; `RegisterBacked` adds the amounts that are
  posted and not recorded yet, as a sum over the requests that are there (`PostedInv`).
- `BooksInAgreement`: of an asset that never had two requests at once, `AloneInv` says that what
  the request has read still stands.
- `StockProofs!StockTypes`, `LevelsAddUp`. A level is written whole from one that was read,
  so `StockInv` says that what a request has read adds up and passed its check (`Sound`), which no other
  request can break. Rounding makes "adds up" an inequality: what a level promises beyond what it
  has (`Over`) is never below zero and at most a thousandth for each write of a fraction (`LevelKept`).
  Stored columns are whole thousandths, so what is added to two of them rounds alike
  (`StoredAlike`), and what is added to one and taken from the other rounds apart, in favour of
  both (`StoredApart`). That totals, reservations and available quantities are never negative is
  in the types; the quantity of a level may be.
- `MovementsFollow`, `OrdersStayCovered`. `ProductsInv` says of a product that never had two requests
  at once that there is one request `r`, or none, about it (`Alone`), that what `r` has read is still so
  (`Fresh`), and that levels, total and rows follow what was moved and held, up to what `r`
  has yet to write (`LevelsFollow`, `TotalFollows`, `RowsFollow`). Each step, a failure included,
  moves both sides by the same amount, but for what one write rounds, which `rounded` and
  `stockRounded` count (`TrailsMoves`, `CatchesUp`). An order's row and what the level has
  reserved round the same way, so `OrdersCovered` needs no allowance.

Sums are `SumFunctionOnSet` of the community modules, whose definition recurs over sets
through CHOOSE. `SumTheorems` shows from well-foundedness of inclusion that
the recursion has one value, and derives what the proofs cite: a sum of integers is an
integer, adding, removing or changing one summand changes it by that much, sums of equal,
opposite or added functions, and that a part of natural numbers is no more than the whole.
What is proved by induction is given there as a set of subsets, since no
prover here takes an operator as a parameter.

Model-checked only: `TransactionsEnd` and `NoTemplateStarves`, which are liveness under fairness, out of
the prover's reach; and the counterexamples of the runs that find a disagreement. That the
models are deadlock-free, where the runs check it, is not proved either.

## 5. Plan

1. Done: payments and invoices, period close, journal and year end; banking over
   the payments; generation and its jobs; assets; stock and what orders reserve.
   Each with its runs and the proofs above.
2. Next modules, in this order: refresh-token sessions; approval lifecycles of expenses
   and payroll; the status of orders and quotes, whose transitions are read in one
   statement and written unconditionally in another (`orders/repository.go:229`); journal
   numbering and the imports; delivery and retry of webhooks.
3. Theorems: the safety properties of the modules that exist are proved. Left are the weakest
   conditions under which those with a hypothesis hold, and the properties of the modules of 2.
4. Compositions: `Assets` and `Generation` over `Ledger` and `PeriodClose`, which both now take
   what they post for granted. In `Assets` this is a limit: an entry that an asset posted can be
   voided like any other by `VoidJournalEntry`, which the register does not learn.
5. Runs: one per question. Where a new component needs a run, one that asks the same
   question of a smaller system gives way; that is why the disagreements listed above
   under the tables have a definition and no run.

## 6. Not modelled

Payment and invoice imports, SEPA files, e-invoices, PDF, mail, reports, search
and the clients have no state of their own or only format data. Authorisation,
evidence review and inventory review are preconditions taken as met.
Sums are exact in the code (`decimal`); what a column rounds when it is written is modelled
where a property depends on it: depreciation in cents, and stock, whose columns keep fewer
digits than a request may name. Rounding in tax, payroll and costing is not modelled. Tenants are
independent, so each model is of one.

Of the components that are modelled, these parts are left out: match rules, scores and
import statistics of banking, which decide no more than which candidate is taken; the lines of templates and the mail
sent with a generated invoice; categories, account links and maintenance of assets; lots,
costs, categories and reports of inventory; `DeleteWarehouse` (`inventory/service.go:430`), which takes
the levels of the warehouse with it (`migrations/016_inventory.up.sql:86`); the void of an entry
that depreciation or disposal posted, so that `BooksAgree` says nothing of books corrected by hand.

Sessions, approvals, order status, journal numbers and webhooks are in the plan.

Most of the repository's lines hold no behaviour that a state machine could add
to: generated API documentation (`docs/docs.go`), the command line, which decodes
arguments and prints what the HTTP API returns (`cmd/oa`), validators of migration files
row by row (`internal/cutover`), request decoding and response encoding of handlers,
row scanning, tests' data, PDF layout. The models map to what decides and changes state, a small
part of the whole. `PROJECT.json` lists every part with the reason.
