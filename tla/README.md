# A verified model of the pocket-mint server

pocket-mint is a personal finance server: an Express application over one
PostgreSQL database, reached through Prisma. This directory holds TLA+ modules
that model what its services do to that database, TLC configurations that
explore them on small instances, and TLAPS proofs about them. Program paths
below are relative to `src/src/`.

## 1. The system

All state that outlives a request is in the database; a request handler keeps
local variables only. The services read with plain queries, decide, and then
either issue one write or open one `$transaction` (READ COMMITTED, no retry)
that holds only writes. Nothing locks a row between the read and the write, so
**every check is made on a snapshot that may be old when the write happens**.
That is the behaviour the models are about.

| Component | State | Operations | What must be true |
|---|---|---|---|
| Transaction service (`services/transaction.service.ts`) | `Transaction` rows, wallet balances | create (regular, bill), update, delete | the balance is the opening balance plus the effects of the stored rows; a row is reversed exactly as it was applied; transfers are funded, purchases within the limit |
| Balance effect (`domain/transactionBalance.ts`) | none | deltas of a row, their reversal, their application, the audit of a wallet | reversal undoes application |
| Installment plan (`domain/installment.ts`) | none | interest, grand total, monthly and final amount | the terms sum to the grand total |
| Installment payment (`services/installment-payment.service.ts`) | `Installment` progress | pay the next term | no double deduction, progress never regresses |
| Wallet service (`services/wallet.service.ts`) | `Wallet` rows | create, update, delete behind two gates | nothing dangles after a cascade, no half of a transfer disappears |
| Reminders (`services/recurringReminderEngine.service.ts`, `notification.service.ts`) | `RecurringReminderEvent` rows | daily refresh, list, read, confirm | one event per occurrence, at most one transaction per event |
| Recurring templates (`services/recurringTransaction.service.ts`) | `RecurringTransactionTemplate` rows | create, update, delete | amount mode, dates and reminder fields agree |
| Saving goals (`services/savingGoal.service.ts`) | `SavingGoal` rows | create, update, progress, archive | status follows the amounts, archived is final |
| Budgets (`services/budget.service.ts`, `budget-query.service.ts`) | `Budget` rows | create, amount, archive, restore, usage | one budget per category, active or archived |
| Categories (`services/category.service.ts`) | `Category` rows | default categories as upserts, list | whoever is told they are there has them all |
| Billing calendar (`domain/billingCycle.ts`) | none | clamp a day, add a month, first due date | due dates advance by one month |
| Queries and reporting (`*-query.service.ts`, `domain/reporting*.ts`, `utils/financial.ts`) | none | lists, sparkline, net worth, month bounds | agree with the ledger |
| Reconciliation (`domain/reconciliation.ts`, `repairPlan.ts`, `scripts/reconcile.ts`) | none | audit, repair plan | reports drift and only drift |
| User provisioning (`controllers/user.controller.ts`) | `User` rows | create or update on sign-in | one row per account |
| Database client (`lib/prismaFactory.ts`, `$transaction`) | connection pool, row locks in the database | acquire, increment, commit, roll back, end | a posting is seen whole or not at all |
| Process and HTTP (`server.ts`, `app.ts`, `middleware/`, `http/forwardError.ts`) | life of the process, requests in it, counters of the rate limit | boot, serve, authenticate, limit, answer, shut down | an answer is true of the database; a shutdown drops nobody and ends |
| Configuration, schema, generated client | none of their own | | |

How they interact: a route calls one controller, which calls one service
function. The services share nothing but tables. `payInstallment` and
`confirmReminder` write ordinary transaction rows through `applyBalanceDeltas`;
deleting a wallet cascades, in the schema, to its transactions and
installments and sets `toWalletId` to null on transfers into it; the daily
refresh reads templates and installments and writes reminder events.

Hard behaviours: two requests on one row, wallet or bill; a wallet deleted
under a request; a `$transaction` that fails half way; checks that hold when
made and not when used; rounding of the last term; sequences of updates that
reach a row create would have refused; two transfers in opposite directions
that lock each other's wallets; more transactions than connections; a signal or
a crash with requests in flight, a commit whose acknowledgment is lost, a read
that fails after the commit; side-by-side upserts of which one fails; an audit
that reads three tables while rows are posted; rows minutes after midnight at
the turn of a month. `PROJECT.json` lists them, each at its line, under
`hazards`.

## 2. The modules

| Module | Models | Reads like |
|---|---|---|
| `BalanceEffect` | `domain/transactionBalance.ts` | `EffectOn(e, w)`: what effect input `e` adds to wallet `w`; `ReverseOn`; `ChangeOn(c, w)`: what a request that turns one version of a row into another adds; `Targets` |
| `InstallmentPlan` | `domain/installment.ts` | the plan in whole cents, half-up rounding included |
| `Ledger` | transaction, wallet and payment services | the state machine; type invariant and the inductive parts |
| `LedgerRules` | | the business rules as properties of `Ledger` |
| `LedgerAudit` | `reconcileWalletBalances` | the balance audit and what it must find |
| `MCLedger` | | instances for TLC |
| `Sums` | the running sums of `reconcileWalletBalances`, `getSummary` and others | `Total(e, S)`: the sum of the function `e` over the finite set `S` |
| `LedgerProofs` | | theorems about `Ledger` |
| `SumProofs` | | lemmas about `Total` |
| `LedgerAuditProofs` | | theorems about the audit and the business rules |
| `BillingCalendar` | `domain/billingCycle.ts`, `subtractDays` of the engine | dates, their clamping and stepping |
| `Reminders` | template, reminder and notification services | the state machine of templates, events and confirmations |
| `DailyReminders` | the same engine, day by day over months | what the calendar arithmetic adds up to |
| `MCReminders`, `MCDailyReminders` | | instances for TLC |
| `RemindersProofs` | | theorems about `Reminders` |
| `SavingGoals` | `savingGoal.service.ts` | reads and writes of goals that interleave |
| `Budgets` | `user.controller.ts`, `category.service.ts`, `budget.service.ts` | provisioning and budgets, query by query |
| `AtomicPosting` | the promise of `applyBalanceDeltas` | the abstract specification: a posting in one step |
| `Posting` | `$transaction`, the pool, row locks | one increment after the other; implements `AtomicPosting` |
| `Server` | `server.ts`, `app.ts`, middleware, the frame of the handlers | composes with `Posting`; implements `AtomicPosting` too |
| `Reconcile` | `scripts/reconcile.ts`, `domain/reconciliation.ts`, `repairPlan.ts` | three queries beside a program that posts |
| `Reports` | query services, `reportingTime.ts`, `reportingEffect.ts`, `domain/budget.ts`, `financial.ts` | functions of the ledger, compared with plain definitions |
| `Plans` | the life of one bill, with `InstallmentPlan` and `BillingCalendar` | cents and days, from purchase to last term |
| `Services` | `routes/index.ts`: the program that has them all | composes the last eight: their steps interleaved |
| `MCServices` | | instances of `Services` for TLC, in one run |
| `ServicesProofs` | | theorems about `SavingGoals`, `Budgets` and `Services` |
| `ServerProofs` | | theorems about `Posting` and `Server` |
| `CalendarProofs` | | theorems about `DailyReminders` and `Plans`, with the lemmas on dates |
| `ReportsProofs` | | theorems about `Reports` and `Reconcile` |

### Ledger

State: `wallet`, `row` and `inst` are the three tables, functions from ids to
records with a life-cycle field `st` (`free`, `live`, `gone`); a deleted row
never comes back, because ids are unique. An installment is named by the
transaction row created with it. `req` holds the local variables of each
request: the endpoint, how far it got, the ids and body it was called with and
the row and installment it has read. `lapses` is a history variable: it records
which kinds of stale read a commit has acted on, and no action reads it.

Actions, one request `r` at a time but interleaved between any two steps:

| Endpoint | Steps |
|---|---|
| `createTransaction` | `CreateCheck` (all reads and checks), then `CreateRegular` or `CreateInstallment` |
| `updateTransaction` | `UpdateLoad` (the row), `UpdateCheck` (the wallets), `UpdateCommit` |
| `deleteTransaction` | `DeleteLoad`, `DeleteCommit` |
| `payInstallment` | `PayLoad` (the bill), `PayCheck` (the source), `PayCommit` |
| `createWallet` | `WalletCreate` |
| `updateWallet` | `WalletUpdateLoad`, `WalletUpdateCommit` |
| `deleteWallet` | `WalletDeleteGate1`, `WalletDeleteGate2`, `WalletDeleteCommit` |
| any | `Refuse` (a later check fails), `Rollback` (a write finds its row or reference gone) |

Why these are the steps:

- The reads of create are one step. They are separate queries, but what each
  checks either cannot change (ids are never reborn, categories are inserted
  and never changed or deleted) or is checked again by the foreign keys of the
  commit; a wallet read early and one read late give the same outcomes as
  reading both early.
- A `$transaction` is one step. Its statements are inserts, deletes and atomic
  increments that lock the rows they touch until the end, and it holds no read,
  so its effect is that of all its writes at the moment it commits, or nothing.
  For the balance increments of every commit, up to the four of an update, this
  is not assumed but proved: module `Posting` has these statements, their locks
  and the pool. For the writes of the rows themselves it is assumed.
- A request that is refused before its first step is complete has no effect and
  is left out; one refused later is `Refuse` or `Rollback`.

Abstractions: the wallet types are ASSET (cash, bank, e-wallet), CREDIT (card,
paylater) and LOAN, which is all the code tells apart; a category is its type;
amounts are whole cents; due dates count billing months after the first one;
names, notes, icons, dates and descriptions are left out, and so is the choice
of a default wallet, since a body may name any wallet. `pays` marks the rows
written by `payInstallment` (the code has that only in the description text)
so that properties can speak of payments. The user is fixed: every query of the
services is scoped to one user id.

### Reminders and DailyReminders

State of `Reminders`: the tables `tmpl`, `bill` (the few columns of an
installment that the engine reads), `event` (a function from the unique key
source, occurrence, offset), `tx` (the rows posted by confirmations) and
`balance` (what they add to each wallet since the start); `day` is today,
`req` the local variables of the requests, `stale` a history variable.

| Endpoint | Steps |
|---|---|
| `createRecurringTransaction`, `deleteRecurringTransaction` | `TemplateCreate`, `TemplateDelete` (with its events, by the schema's cascade) |
| `updateRecurringTransaction` | `TemplateUpdateLoad` (the row, all checks), `TemplateUpdate` |
| `refreshNotifications` | `RefreshLoad` (templates), for each due key `RefreshLook` and `RefreshInsert`, `RefreshBills`, `RefreshEnd`, or `RefreshFail` |
| `markNotificationRead`, `markAllNotificationsRead` | `MarkRead` |
| `confirmReminder` | `ConfirmLoad`, `Confirm` |
| any | `Rollback` |

An upsert is a look and then an insert, because an upsert with an empty update
need not be one statement of the database: two refreshes can both miss a key,
and the later insert then fails on the unique index (P2002). Where it is one
statement, the two steps simply follow each other. A template deleted under
the refresh fails the insert on its foreign key. Either error ends the whole
refresh, and the events made before it stay.

Bills, wallet deletions and the deletion of a posted row belong to services
modelled in `Ledger`; here each is one step, as it commits. `BillPaid` is bounded
to one term ahead of today.

`DailyReminders` takes one template and the cut-off and due day of one wallet,
together a `setting`, and a user who refreshes every day, as often as they
like, but for some of the days in `AwayDays`; `away` records the days passed
without a refresh. An ISO day such as `2028-02-29` is the
number 20280229, which compares as the string does; conversion to and from
timestamps is left out, because business days are parsed and formatted in one
fixed time zone.

### Saving goals, budgets and the account

`SavingGoals`: `goal` is the table, `goalReq` the local variables of each
request with the row it read. `GoalCreate` writes at once; `GoalLoad` is the
`findOwned` of update, progress and archive, `GoalWrite` their write. What a
write takes from the body, from the row as read and from the row as it is now
differs by field, and `UpdatedGoal` and `ProgressedGoal` keep the three apart:
an update writes back the target date *it read* and computes the status from
the amount *it read*. `misread` is a history variable: the goals whose last
write a fresh read would have made differently. A goal archived between read and
write of an update is active again afterwards (`savingGoal.service.ts:65`).

`Budgets`: `user` and `category` are what provisioning has stored, `budget` is
the table. A sync is `SyncLook`, `SyncCreate` and then, like the category
list, `EnsureLook` and `EnsureInsert` for each default category in any order,
`EnsureEnd`. A budget is created by `BudgetCreateLook` and `BudgetCreate` or
`BudgetExists` (P2002), changed by `BudgetChangeLook` and `BudgetChange`, and
answered by `BudgetRespond`. Two things a reader may not expect: of two
racing first sign-ins one is answered with a 500 although the comment above the
controller calls it idempotent (`user.controller.ts`; repeating it succeeds),
and after the first failed upsert the others go on beside the next request.

### Postings and the process

`Posting`: `stored` holds the committed balances, `tx` the transactions with
the increments they have done (`at`) and the uncommitted versions of the rows they changed
(`draft`), `pool` its size. Steps are `Acquire`, `Increment` (one turn of the
loop of `applyBalanceDeltas`, in the order of `balanceDeltas`, blocked while
another transaction holds the row), `CommitPosting`, `RollbackPosting`,
`GiveUp` (no connection in time) and `AbortAll` (the process ends). Row locks and
the choice of a deadlock victim are PostgreSQL's, modelled from how
`applyBalanceDeltas` relies on them.

What a transaction does to its row of the ledger is a member of `RowChanges`:
the row before and after, `NoEffect` where there is none. A creation and a
payment have only an after, a deletion only a before, and `updateTransaction` both: its
increments are those of the reversal and then those of the new effect, up to
four, often two of them on one wallet (`Increments`), each to the newest version
the transaction has of the wallet (`VersionFor`). A transfer may go to its own source,
as `payInstallment` lets it. Of a `$transaction` only these
increments are kept, not its statements on rows of the ledger and of bills:
the rows it inserts make no other request wait, and two requests that update or
delete one row are the subject of `Ledger`. So the cycles of locks that are
modelled are those of wallet rows.

`Server` adds `life`, the process from probe to exit, and `http`, how far each
request has come and what it was answered: `Arrive` (general limiter),
`Authenticate` (token, user row, limit on writes), `Handle`, `DatabaseStep`,
`TransactionSettled`, `Reread` (wallet handlers read the net worth after the
commit), `HangUp`; `Signal`, `Closed`, `Released` and `Crash` are the process.
After the signal no connection is accepted, but one that was busy then stays
open for some seconds and may bring another request (`KeptAlive`).
A status is kept as 2xx, 4xx or 5xx. Which token verifies and which request is
one too many is a free choice; so is the loss of an acknowledgment. Ids of
requests are the postings they make: the model asks what becomes of each one.

### The audit, the reports, the plans

`Reconcile` runs the three queries of the script in any order beside
`AtomicPosting`, which is all that a reader of committed data can see of the program
(`Posting` implements it): rows are added, updated and deleted meanwhile, and
each query sees the versions of its moment (`Version`). The wallets start with
a known `damage`, so that what the audit reports can be compared with what is
true.

`Reports` has the ledger's rows with instants (hours in UTC, `YYYYMMDDHH`) and
days of the reporting zone. `EnterRow` and `RemoveRow` change the table between the two
reads of the sparkline; all other views are functions of the table and of
`now`. Of its rows nothing is asked (`ReportRowsAssumption`) but a date that
exists and that an installment is an expense. In particular a transfer may have
no destination, as old ones do, and it may go to its own source:
createTransaction refuses that, but `payInstallment` does not compare the
source with the wallet of the bill, and updateWallet lets a card with an active
bill become a bank account. The zone has a constant offset, as Asia/Jakarta has; the search
for local midnight then ends with its first correction. The export's *date column* uses
the UTC day of a row (`transaction.controller.ts:160`), unlike its range; that
column is formatting and is not modelled.

`Plans` follows one bill from `Purchase` through `PayTerm` to the end, in
cents and calendar days. `Ledger` has the same steps amid other requests, with due
dates counted in months.

### One program

`Services` lets `SavingGoals`, `Budgets`, `Server` (with `Posting`), `Reconcile`
(with `AtomicPosting`), `Reports` and `Plans` take turns in any order: a turn
of one is a step of it that leaves the variables of the others alone. The
controllers call one service each, and these services write no row in common.
The audit and the server are composed over balances of their own: what an
audit makes of postings that are committed between its queries is the subject of `Reconcile`, which
takes them from `AtomicPosting`, and that the server's postings look like that
is `ServerImplementation` (section 4). `Ledger` and `Reminders`, where services do meet in
the same rows, wallets and bills, are compositions themselves and stay apart.

Operators whose comment begins with *Mutant* are faulty variants of the
operator after them, used to confirm that each property notices a plausible
mistake; no specification uses them.

## 3. What TLC checks

Bounds: `MaxTx` rows ever inserted, four requests in all, `MaxInFlight` at a
time, and small sets of bodies. Two requests in flight are the fewest that
race; every lapse needs exactly two. Four requests allow a purchase, two
payments and an edit, or a create, two updates and a delete. The bills include
one whose monthly amount is rounded up (3 over 2 terms), one with interest and
one of a single term. `CHECK_DEADLOCK FALSE` is set because an instance stops
when its four requests have been answered. Requests are interchangeable, so
they are a symmetry set.

| Run | Question | Result |
|---|---|---|
| `ledger_core` | create, update, delete of two rows, two requests in flight | `TypeOK`; `ExactReversal`: each step moves every balance by exactly the change of one row, unless it commits on a stale row or gate; `DriftOnlyFromLapse`: drift from the audit needs such a commit |
| `ledger_bills` | bills with ordinary rows, two requests in flight | `ScheduleAgrees`, `PaymentsMatchSchedule` (each payment is one step of the schedule, and a bill has no more payments stored than terms paid), `PaidNeverRegresses`, `NoIncomeOnDebt` |
| `ledger_wallets` | wallets opened, re-typed, deleted under purchases, transfers, payments | `ModelA`, `NoDangling`, `CarriedHolds` |
| `ledger_one_at_a_time` | all endpoints, one request at a time | `LedgerConsistent`, `TransferFunded`, `PurchaseWithinLimit`, `TransfersBlockDeletion` |
| `update_race` | two updates of one row | `LedgerConsistent` violated |
| `double_payment` | two payments of the last term | `NoDoubleDeduction` violated |
| `deletion_race` | a transfer between gate and deletion | `TransfersBlockDeletion` violated |
| `update_category` | an update of the type alone | `CategoryMatches` violated, with one request at a time |
| `reminders` | refreshes and confirmations in flight beside every deletion, over midnight | `ConfirmedOnce`, `NoOrphans`, `RefreshDelivers`, `CarriedHolds`, `BalancesPosted`, `EventsKeepMarks` |
| `templates` | updates of one template in flight beside refresh, confirmation and deletion | `TypeOK`, `TemplatesConsistent`, `PostedWhileLive`, `RequestsEnd` |
| `daily_reminders` | a refresh a day over 15 months, but for four days that may pass without one | `TypeOK`, `NothingMissed`, `NothingTwice`, `BillsMoveAtCutoff` |
| `services` | goals, budgets, server with postings of up to four increments, audit, reports, plans, one at a time with traffic | `ServicesTypeOK`, `StatusTruth`, `ChangesAsAsked`, `BudgetingSound`, `PostsAtomically`, `AnswersTruthful`, `NobodyDropped`, `ShutdownEnds`, `AuditSound`, `SparklineReplays`, `ViewsAgree`, `RunsOut` |

Bounds of the reminders: one template and one bill, three requests, each
served once, and two days on which something is due (30 January and 28
February 2028: the reminder days of the template's last-of-month occurrence, one
day ahead, the second one in a leap year). Three requests are two
confirmations and the refresh that made their reminder. `reminders` has one wallet
and room for two posted rows, one more than one reminder may post;
`templates` has a second wallet for updates to move to. `daily_reminders` walks
21 settings: templates that start on the last day of a month with every kind of offset,
open or with an end, through the February of a leap year and of a common
year, cut-offs on the 1st, 20th, 29th, 30th and 31st. The four days are
reminder days of some of them, two in one February, so that an occurrence is
lost before, after and between others that are told. `CHECK_DEADLOCK FALSE`: requests run out,
and the walk ends.

Bounds of `services`. The six components do not interact through state that
both write, so the initial state of `MCServices` picks the one with traffic: their state spaces
are added (about 220,000 states), not multiplied. That nothing is lost by this
is a theorem: `EachKeepsItsOwn` (section 4) says that each component keeps its
own specification when all take turns.

- Goals: one goal, three requests, amounts 0 to 2. A create, a read that
  is overtaken and the write that overtakes it are three; a status changes
  between 1 and 2.
- Budgets: two default categories, one of either type, two budgets, three
  requests: two racing creates and an archive, or two first sign-ins and a
  create beside them.
- Server: two requests through the process: an update that turns a transfer
  round, with two increments on each of two wallets, and a transfer that locks
  the two in the other order; one of them reads again after its commit. Pools of
  one and two connections. Two transactions and two wallets are the smallest
  cycle; a pool of one makes the other wait; either may come over the connection
  of the other while the server closes.
- Audit: an update, a deletion and a purchase, the last two of installments,
  each beside the queries or not at all; old rows of both kinds that the
  classification tells apart, no drift or drift of either wallet.
- Reports: up to two of eight rows at the turn of days and months, one of them a
  transfer of the wallet to itself and one without a destination, looked at
  early on 1 March of a leap year (and on its last day of February, and at New
  Year's midnight). Months asked for are the current one and those around it, and
  the first and last that -1, 1 and 13 are taken for.
- Plans: 1 cent to 10.00 over 1, 2, 12 or 13 terms, with and without interest,
  bought before and after the cut-off, due on the 28th, 30th or 31st. 66 and 78
  cents are the most that 12 and 13 terms can fail on.

The violated runs state what a comment or a test of the repository says; the
findings in `PROJECT.json` quote the line. Three findings come from a run that
passes, whose properties state what the code does instead: the sparkline never
takes off rows dated tomorrow or later (`FromTomorrowOn` in
`SparklineReplays`), it takes a transfer of a wallet to itself for money that
went out (`ToItself` there), and the credit of an overpaid card counts as a debt
(`overpaid` in `ViewsAgree`). Two further checks hold only for
requests one at a time (as theorems too, section 4), for the same reason: `PurchaseWithinLimit` (two
purchases that both read the remaining credit) and `TransferFunded`.

Fairness: the ledger runs state safety only. `templates` uses weak fairness of
`Serve(r)`, the steps of a request already taken up, for each request: the code
waits for nothing but the database, which answers or fails every query, and
no step of a request waits for another request. Users, the clock and the other
services have no fairness. `RequestsEnd` then says that every request is
answered; its substance is that each failure of a write or an insert is
answered too.

`services` uses `ServerFairness`: weak fairness of `RequestGoesOn(p)` for each
request and of `LifeGoesOn`. The event loop runs every handler whose promise
has settled; the database executes every statement that waits for no lock, and
when transactions wait for each other's rows it ends one of them (`Victim`).
No other rollback is promised, nor that a wait for a connection times out
before the pool ends; boots, arrivals, signals, clients that hang up and
crashes have no fairness. `ShutdownEnds` says that a shutdown that has begun
ends, and that every request that has arrived ends: neither the lock cycle of
two opposite transfers nor the queue for the pool can hold it up. Its other two parts say that
`CanGoOn` and `LifeCanGoOn`, the guards written out, are what the fairness
is about: where they hold the step is enabled. `NeverStuck` and
`EveryStepCounts` (section 4) are stated with the first of them. The
code sets no deadline of its own.

`StatusTruth` and `ChangesAsAsked` leave out a goal whose last write rested on
an overtaken read, as `misread` records; `AuditSound` leaves out the wallets on which
a change was committed between the queries (`TornBy`): there a sound ledger
may well be reported with drift. `AnswersTruthful` leaves a 500 open, because
the code does: the posting may be stored, and repeating the request makes
it twice.

`TemplatesConsistent` leaves out one case, recorded by `stale`: of two
concurrent updates one may move the start and the other the end, each checked
against the date it read, and the stored end may then precede the start.
`ConfirmedOnce` is per reminder, as the comment of `confirmReminder` promises. A template
whose offset is changed after its reminder was made gets a second reminder for
the same occurrence, which may be confirmed as well.

## 4. What is proved

Every safety property that a passing run checks is also a theorem of its
specification, some of them under a hypothesis stated in the theorem. What is
only model-checked is listed at the end of this section.

`LedgerProofs` and `LedgerAuditProofs` prove, for any set of wallets, any
number of rows and requests, any bodies and any opening balances:

| Theorem | Statement |
|---|---|
| `TypeCorrect` | `Spec => []TypeOK` |
| `Invariance` | `Spec => []Inv`, the inductive invariant |
| `ModelAHolds`, `NoDanglingHolds`, `ScheduleAgreesHolds`, `ReadsStayGood` | its parts `ModelA`, `NoDangling`, `ScheduleAgrees`, `CarriedHolds` |
| `ReversalIsExact` | `Spec => ExactReversal` |
| `OnlyLapsesDrift` | `Spec => []DriftOnlyFromLapse` |
| `PaidOnlyGrows`, `PaymentsFollowSchedule` | `Spec => PaidNeverRegresses`, `Spec => PaymentsMatchSchedule` |
| `OnlyOverwritesDeductTwice` | a payment that overwrites no other finds its bill unsettled, for any number of requests |
| `IncomeNeverOnDebt` | `NoDebtPatches => (Spec => []NoIncomeOnDebt)` |
| `ConsistentAlone` | `MaxInFlight = 1 => (Spec => []LedgerConsistent)` |
| `FundedAlone`, `WithinLimitAlone`, `DeletionBlockedAlone`, `NoDoubleDeductionAlone` | under `MaxInFlight = 1`, `TransferFunded`, `PurchaseWithinLimit`, `TransfersBlockDeletion`, `NoDoubleDeduction` |

Assumptions: `NoWalletAssumption` (the mark of an absent wallet is no wallet),
`LedgerAssumption` (constants have their types) and `OpeningAssumption` (a
wallet that exists at the start has its opening balance), all evaluated by TLC.

`Inv == TypeInv /\ ModelA /\ NoDangling /\ ScheduleAgrees /\ CarriedHolds` is
needed as a whole. `ModelA` alone is not inductive: a deletion removes the
installment because the row *it has read* says `isInstallment`, so one needs
that a row cannot change that field while a request carries it. `ScheduleAgrees`
is not inductive: a payment overwrites the progress fields with values computed
from the installment it has read, so that copy must itself be a consistent
schedule with the same terms. `CarriedHolds` says exactly this of every request
in flight, and that ids are never reused; it is the part of what requests carry
that cannot go stale. The proof has one lemma per committing action, and one
for the steps that only read. `ReversalIsExact` then needs, for each action,
that one row's effect changes and every other row's stays: deleting a wallet
is the delicate case, where rows on the wallet vanish (their effect elsewhere
is zero, unless a transfer slipped past the gate) and rows into it lose their
destination.

Sums are within reach, although induction over data is not. `Total` is a fold
over a finite set; `SumProofs` gets from finiteness that a non-empty family of
subsets of a finite set has a minimal member, so a claim that failed for some
subset would fail for a least one, and removing an element refutes that. The
lemmas are the usual ones: the sum of a set less one element, a change in one
summand, two disjoint parts, sums exchanged, sums by class. With
`TotalChange`, `ReversalIsExact` is the step of `OnlyLapsesDrift`: the balance
and the sum over all rows move by the effect of the same row.

`PaymentsMatchSchedule` bounds, by the terms paid, the rows that a bill's payments have left. That
bound, `PaymentsBacked`, is not inductive: the id of a new bill must not be
one that stored payments refer to already. `PaysKnown` says so: a row marked as a payment
names a bill whose purchase has been stored. Then a payment adds one row and one term
paid, and every other step can only take payments away, since an update of a
payment keeps its mark and nothing else sets it. The counting is that of the
library's theorems on finite sets. The code keeps no link from a
payment to its bill, so a payment that is deleted leaves its term paid: the inequality is
all there is. `OnlyOverwritesDeductTwice` is the other half of `double_payment`: two payments
of one term happen only if the later one worked from counters that the earlier one
had changed, whatever else is in flight.

`IncomeNeverOnDebt` needs that income goes to a wallet which is not a debt
wallet, is still so when the request commits, and stays so as long as the row
is there (`Vetted`, `IncomeVetted`). The code does not promise the last part:
updateWallet lets a wallet that has received income become a card. So the
theorem is stated for patches that name no debt type, `NoDebtPatches`
(`ledger_bills` has none at all).

The rules that the code checks before a commit, and that hold at the commit
only if nothing came in between, are proved for `MaxInFlight = 1`, the setting
of `ledger_one_at_a_time`. The invariant `AloneInv` says that at most one
request is in flight, that no commit has acted on a stale read, and that the
checks of the one in flight would still pass (`Fresh`). That two requests break three
of these rules is what `update_race`, `double_payment` and `deletion_race` show.

`RemindersProofs` proves, for any templates, bills, wallets, requests, bodies
and days:

| Theorem | Statement |
|---|---|
| `Invariance`, `TypeCorrect` | `Spec => []Inv`, `Spec => []TypeOK` |
| `TemplatesStayConsistent` | `Spec => []TemplatesConsistent` |
| `AtMostOneTransaction` | `Spec => []ConfirmedOnce` |
| `NoEventOrphaned`, `RefreshesDeliver`, `ReadsStayGood` | `Spec => []NoOrphans`, `Spec => []RefreshDelivers`, `Spec => []CarriedHolds` |
| `BalancesStayPosted` | `Spec => []BalancesPosted` |
| `PostsWhileLive`, `MarksStay` | the action properties `PostedWhileLive`, `EventsKeepMarks` |

from `RemindersAssumption`: ids of templates and bills differ, no transaction
has the id null, the templates at the start are consistent, and constants have
their types. Here `Inv` consists of `TypeOK`, `TemplatesConsistent`, `NoOrphans`,
`ConfirmedOnce`, `BalancesPosted`, the parts of `CarriedHolds` and, request by
request, `RefreshDelivers` (`RequestsHold`).
The types need the consistent templates, because the offset in the key of an
event comes from a template's row. `ConfirmedOnce` is not inductive: an insertion
makes an uncompleted event, so no row may have been posted from its key before.
`RowsKeepKeys`, a part of `CarriedHolds`, says why: the key of a posted row stays stored until its
source is gone, and an insertion needs a source that is not. `MarksStay` needs
`LinksHold`: an event refers only to a live row that was posted from it, so a
confirmation, which meets an event that is not completed, overwrites no
reference.

The components beside the ledger, likewise for every value of their constants:

| Theorem | Statement | Inductive invariant |
|---|---|---|
| `ServerProofs`: `LocksHold`, `Implementation` | `PostingSpec => []PostingInv`, `PostingSpec => PostsAtomically` | `PostingInv`: types, `DraftsCurrent` (a row has one holder, whose draft is the committed version plus its own increments so far), `NotBegun` |
| `ServerProofs`: `ServerTyped`, `Truthful`, `ShutsDownClean`, `ServerImplementation` | `[]ServerTypeOK`, `[]AnswersTruthful`, `[]NobodyDropped`, `PostsAtomically`, all from `ServerSpec` | `ServerInv`: `PostingInv`, `Phases` (where a request stands agrees with its transaction and its answer), `Quiet` (nobody in flight when the process does not serve) |
| `ServerProofs`: `NobodyWaitsForEverybody`, `NothingRetried` | `[]NeverStuck`, `EveryStepCounts`, from `ServerSpec` | with `ServerInv`: `OthersElsewhere` (nobody but a request of this process holds one of its connections) and `WithinOrder` (how far a transaction has come is within the length of its posting) |
| `ServicesProofs`: `GoalsTyped`, `StatusHolds`, `ChangesHold` | `[]GoalsTypeOK`, `[]StatusTruth`, `ChangesAsAsked`, from `GoalsSpec` | `GoalsInv`: types, `StatusTruth`, and `Loaded`: what each kind of request carries, and that it read a goal not yet archived |
| `ServicesProofs`: `EachKeepsItsOwn`, `ServicesTyped`, `PromisesTogether` | `ServicesSpec` implies the specification of each component, `[]ServicesTypeOK`, and all their safety properties at once | none of its own |
| `ServicesProofs`: `BudgetsTyped`, `BudgetsSound` | `[]BudgetsTypeOK`, `[]BudgetingSound`, from `BudgetsSpec` | `BudgetsInv`: types, what a request on its way has already stored (`Provisions`), at most one maker of the user's row, one budget per category |
| `CalendarProofs`: `DatesExist`, `EveryOccurrenceTold`, `OneReminderAMonth`, `DueMovesAtCutoff` | `[]TypeOK`, `[]NothingMissed`, `[]NothingTwice`, `BillsMoveAtCutoff`, from the specification of `DailyReminders` | `DailyInv`: today is a date, the days away have passed, every reminder told is that of some month of the template, told on its day, and all whose days have passed with a refresh are told |
| `CalendarProofs`: `PlansTyped`, `PaidInFull` | `[]PlansTypeOK`, `[]RunsOut`, from `PlansSpec` | `PlanInv`: the sum paid is `paid` times the monthly amount until the last term; the due date is `paid` months after the first, its day the first one's or the length of a month passed |
| `ReportsProofs`: `ReportsAreTyped`, `SparklineIsReplay`, `ViewsTellOneStory` | `[]ReportsTypeOK`, `[]SparklineReplays`, `[]ViewsAgree`, from `ReportsSpec` | `SparkInv`: the balance a sparkline has read is that of a table of rows, the one it remembers |
| `ReportsProofs`: `BooksKept`, `AuditsAreSound` | `[]ReconcileInv`, `[]AuditSound`, from `ReconcileSpec` | `ReconcileInv`: types; the committed balances, and those the audit has read, are the books plus the entries committed by then; an exit code needs all three queries |

`Implementation` is a refinement: `balanceOf` is `stored` and the fate of a
posting is read off its transaction. An increment maps to a stutter, a commit to
the abstract commit -- which needs `DraftsCurrent`, or a draft could
overwrite what another transaction committed meanwhile; and, for an update,
that its increments on a wallet, taken one after the other, come to `ChangeOn` --
and a crash to the
abandonment of all that was unfinished. `ServerImplementation` reuses it: every
step of `Server` is a step of `Posting` or leaves its state alone. Assumptions:
`PoolAssumption`, in `Posting` `RowsAssumption` (types alone: any row may become
any other, a transfer to its own source included),
`RequestsAssumption`, `GoalsAssumption`, `BudgetsAssumption`.

`NeverStuck` is the part of `ShutdownEnds` that does not need fairness: as long
as a request is in flight, one can go on. If none outside the database can,
every transaction waits. One that waits for a connection waits for a full pool, so that some
transaction is open; an open one waits for a row, whose holder is open and
waits too. So the open transactions form a set that is closed under *waits for
the holder of*, which is what the database detects, and `Victim` can end one of them. `EveryStepCounts`
is the measure that goes with it: no step of anyone sets a request back, and
each of its own takes at least one off at most twelve, the arrival included. Together they leave to
fairness only that whoever can go on is let go on.

`EachKeepsItsOwn` is the other refinement: a step of the composition is a step
of one component and a stutter of the rest, and the fairness of the server
is stated over its own actions, so that it carries over as it stands. With it every theorem
about a component is one about the whole program, which `PromisesTogether`
states.

The calendar rests on two facts about the numbers that stand for dates: a date
is determined by its month index and day, and dates are ordered as the pairs
of the two are. From these: stepping by months clamps to the length of the
month and never drifts; `nextMonthlyOccurrence` returns the least occurrence
that is not before today; no occurrence has its reminder day between two
consecutive days. Then a day with a refresh misses nothing, whatever days
passed without one, and the next such day makes up for nothing. `SettingsAssumption`
asks for start and first day to be dates; offset, cut-off and due day have the
ranges the validation gives them.

`PaidInFull` rests on the arithmetic of rounding up or down at half a cent: the
last term is the grand total less (n-1) rounded terms, and is positive unless
the total is at most n(n-1)/2 cents. `PurchasesAssumption` is what validation
lets through, in whole percents: rates up to 100, 1 to 120 months.

`ViewsTellOneStory` rests on one lemma: an instant lies between two local
midnights exactly when its local day lies between the two days, for any zone
1 to 23 hours ahead of UTC (`ZoneAssumption`). The sums of the views are then
over the same rows; the budgets add up to the summary by `TotalByClass`, and the
net worth to the income and expenses by `TotalExchange`, since a transfer takes
from one wallet what it gives another, or the same one; a transfer without a
destination counts with the expenses (`CashFlow`).
`SparklineIsReplay` splits the rows read into those of each day; what the walk
takes off for a row is its effect, but for a transfer of the wallet to itself, and
`ToItself` is the sum of these. `AuditsAreSound`
cancels the changes committed before the first query against those counted,
and what is left was committed between the queries (`TornBy`).
`BooksAssumption` gives the constants their types and asks that an installment
is bought or deleted with its row and never updated, which updateTransaction
refuses, that without a debt it has no monthly amount, which
computeInstallmentPlan makes true, and that the program neither stores nor
changes a transfer without a destination.

Only model-checked:

- `RequestsEnd` and `ShutdownEnds`: liveness is out of the prover's reach, as
  is `ENABLED`. Of the second, what is left to TLC is that the guards written out
  are those of the actions, and the step from `NeverStuck` and `EveryStepCounts` to
  the end of every request.
- That the rules hold for one request at a time and not for two is proved in
  the first half only; the second half is the counterexamples of the runs.
  `CategoryMatches` is false already for one request.

## 5. Not modelled, and the plan

- Configuration: it reads the environment once, and fails or is frozen. Its
  pool size is the constant `PoolSizes`, its zone `ZoneHours`.
- Schema and migrations: keys, foreign keys and cascades are modelled where a
  service meets them; migrations run outside the program.
- The generated client and the compiled copy.
- Of HTTP: reading bodies field by field, query strings, pages, formats of
  answers, logging and redaction, headers; which token verifies; the counts of
  the limiters, which are those of a package outside the repository.
- Amounts finer than a cent: the column and the balance increment round them
  separately.

Left for later: for any number of requests, what each rule of `LedgerRules`
still gives when the requests in flight are on different rows and wallets (now
stated for one request at a time); the composition of `Ledger` with `Posting`,
so that the atomic commits of the first are those of the second in one
specification, with the locks on the rows of the ledger and of bills that
`Posting` leaves out; deletions of wallets beside the audit; what two endpoints make of an amount with a fraction of a cent.
