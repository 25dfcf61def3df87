# Garten: TLA+ specifications

Garten is a kindergarten management backend: NestJS services over PostgreSQL
(Prisma and raw SQL), a pg-boss queue, a Telegram bot and a Flutter client.
This directory models the parts of the backend in which order, concurrency or
money can go wrong, checks them with TLC and proves the most important results
with TLAPS. Names of actions are the names of the service methods; `PROJECT.json`
maps every definition to its source lines.

How to run, in this directory:

    tlc -workers 2 -config MCLedger_bounds.cfg MCLedger.tla
    tlapm LedgerProofs.tla

## 1. The system

All components run in one process per server, several servers may run, and
every interaction is a call inside a request, a row in PostgreSQL, or a pg-boss
job. So the shared state is the database; what separates actors is transactions
(mostly READ COMMITTED), row locks (`SELECT ... FOR UPDATE`), unique indexes,
triggers, and, once, SERIALIZABLE.

| Component | State | Operations | Talks to |
|---|---|---|---|
| Child ledger (`payments`, `billing/charges`, `billing/recalculate-billing`) | `charge`, `payment`, `payment_allocation` rows of a child | create/cancel a payment, manual charge, adjustment, reversal, recalculation, opening balance | periods, billing runs, attendance |
| Accounting periods (`money/periods`) | open or closed | open, close, reopen | trigger `reject_closed_period` on charges |
| Billing runs (`billing/billing-runs`) | runs of a period with a preview, status, idempotency key | preview, discard, commit | charges, attendance, tariffs |
| Tariffs, discounts, holidays (`money/tariffs`, `money/discounts`, `admin`) | dated rows of a child or a branch | assign, end, grant, revoke, add, remove | billing runs |
| Charge calculation (`billing/calculate-charge`, `enrollment-windows`, `billable-days`, `billing-rules`) | versions of the billing rules | pure functions; save a version, dry run | billing runs, recalculation |
| Attendance and pickup (`attendance`, `pickup`) | the day's row of a child, corrections, pickup persons and permissions | check-in, check-out, absence, corrections, grants, revocations | recalculation, guardians, child status |
| Groups (`groups`, `children`) | dated assignments of children to groups, capacity | assign, transfer, withdraw, move branch, remove | children |
| Notifications (`notifications`, `jobs`) | notification rows, pg-boss jobs | enqueue, send, recover (cron), retry, announcements | Telegram |
| Announcements, messages, reminders (`notifications/announcements`, `notifications`, `debt-reminder`, the hooks of attendance, payments and billing) | announcements, request keys | publish, send, remind, tell | notifications; guardians, groups, debts |
| Telegram binding (`telegram`) | chat bindings, link tokens | invite, link, share a contact, /stop, /language, polling, webhook | notifications |
| Landing page (`landing`) | page, draft blocks, published versions | edit, publish, restore | public endpoint |
| Staff and roles (`users`, `roles`, `rbac`) | accounts, branches, roles, grants, overrides | create, (de)activate, assign, replace, override | permission cache |
| Permission cache (`rbac/permission-*`) | tenant's version, cache entries | resolve, cache, expire | every guarded request |
| Imports (`imports`) | uploaded file and its result | validate, commit with a savepoint per row | children, staff, ledger |
| Sign-in (`auth`) | sessions, reset codes, failed attempts | login, refresh, logout, change, forget, reset | users |
| Reports and exports (`reports`, `files`) | export rows, files | create, make, download | permissions, scope |
| Expenses, debts, audit, settings, tenant isolation, mobile app | see PROJECT.json | | |

What is hard here:

* **Concurrency.** Two clerks, a billing run and a tablet at the door write one
  child's rows at once. Most services read and check first, then lock, then
  write: each check before a lock may be stale when the write happens.
* **Snapshots.** The payment transaction is SERIALIZABLE, so the statement that
  *waits* for the child lock fixes what it reads afterwards.
* **Order.** Rows are backdated; money goes to the oldest debt; corrections are
  booked in a later period; events of a temporary transfer are counted by day.
* **Failure.** A process can stop between a row and its job, a Telegram answer
  can be lost, pg-boss runs jobs again, a two-statement edit can stop half way,
  a fan-out to a hundred guardians can stop at the fiftieth and be repeated.
* **Arithmetic.** A charge is rounded once, from parts divided by days that five
  kinds of edits change; a month may be split between tariffs.
* **Time.** Overrides and cache entries end without anyone writing.

What makes each component correct:

* ledger: nothing is over-allocated or overspent, oldest debt first, closed
  periods do not change, the two debt views agree, corrections are exact;
* billing runs: one committed run, charged as previewed, equal to the attendance
  that was recorded, replays honest, no deadlock;
* notifications: every row settled, nothing begun after it is, a message repeated
  only if its acceptance went unrecorded or after a manual retry;
* groups: one group a day, admission never beyond the capacity it read;
* landing: what visitors see is the last version, and a difference of the draft
  is reported;
* attendance: the day is consistent, every change noted, children handed only to
  people allowed to fetch them and let in only while active;
* staff: somebody can always administer the tenant;
* permission cache: an edit takes effect at once;
* charge calculation: the dry run, the billing run and the recalculation agree,
  and a divided month costs what a whole one does;
* mailings: everybody who belongs gets one row, nobody two;
* Telegram binding: a /stop is final, and every message is handled;
* sign-in: a token is used once, a new password ends the old sessions;
* imports: a file is imported once, row by row whole or not at all;
* exports: whoever downloads one may see its rows, and each is finished.

The full list of hazards, each at its line and with the properties that cover it
(or why none does), is in `PROJECT.json`.

## 2. Modules

| Module | Models | Extended or instantiated by |
|---|---|---|
| `Money` | sums and overlaps of amounts, as operators | `Ledger`, `AllocateLoop`, `MoneyTheorems` |
| `Ledger` | one child's charges, payments, allocations, periods | `MCLedger`, `LedgerProofs` |
| `AllocateLoop` | the nested loops of `allocateCredit`, iteration by iteration | `MCMoney`, `MoneyProofs` |
| `Charge` | the arithmetic of one charge, windows and billable days, as operators | `Bill` |
| `Bill` | one child's month: its rows, their edits, dry run, line, recomputation | `MCMoney`, `MoneyProofs` |
| `PeriodBilling` | abstract: a period is billed once, in one step | `BillingRun` (refinement) |
| `BillingRun` | previews, commits with locks, attendance and tariffs beside them | `MCBillingRun`, `BillingRunProofs` |
| `Notifications` | rows, jobs, workers, sweeps, announcements | `MCNotifications`, `NotificationsProofs` |
| `Mailings` | who gets a notification row | `MCDay`, `DayProofs` |
| `AttendanceDay` | one child's day, pickup permissions | `MCDay`, `DayProofs` |
| `GroupPlaces` | dated group assignments and admission | `MCDay`, `DayProofs`, `MCGroupPlaces` |
| `StaffRoles` | roles, overrides and the two safety rails | `MCStaff`, `StaffProofs` |
| `PermissionCache` | version, cache and resolution | `MCStaff`, `StaffProofs` |
| `Sessions` | login, refresh, password changes | `MCStaff`, `StaffProofs` |
| `Imports` | validation and commit of a spreadsheet | `MCStaff`, `StaffProofs` |
| `TelegramBot` | link tokens, contacts, polling and webhook | `MCOffice`, `OfficeProofs` |
| `Exports` | reports that are queued, made and downloaded | `MCOffice`, `OfficeProofs` |
| `Landing` | editing, publishing, restoring a page | `MCOffice`, `OfficeProofs`, `MCLanding` |
| `MoneyTheorems`, `LedgerProofs`, `MoneyProofs`, `BillingRunProofs`, `NotificationsProofs`, `DayProofs`, `StaffProofs`, `OfficeProofs` | theorems (section 4) | |

`MCMoney`, `MCDay`, `MCStaff` and `MCOffice` check modules that share no state in
one run each: a constant variable `which`, chosen initially, says which of them
is at work, and the others keep one initial state. In `MCDay` and `MCOffice` it is
chosen from the constant `Parts`, so that `day`, `places` and `history` are runs of
their own with the symmetry, and for `places` the deadlock check, that suit them. Nothing is lost by that (a
behaviour of the composition is a behaviour of one module), and nothing is
shown about their interaction: they have none but through rows both only read.
The theorems about such a module are about its own specification, under the
names the MC module gives its variables (`A!Spec`, `P!Spec`, `L!Spec`, ...).

The definitions marked `MUTANT` in the modules are seeded faults: each changes
the definition that follows it as a plausible bug would, and TLC finds the
property named in `PROJECT.json` violated with it. No behaviour uses them
otherwise.

### Ledger

*State.* `charges` and `payments` are the rows in insertion order (their index is
the id), `alloc` the sum of the `payment_allocation` rows of a payment and a
charge, `closed` the closed periods, `tx` the snapshot of each clerk's open
payment transaction.

*Actions.* `createManual`, `adjustment`, `reverse` (charges.service.ts),
`chargeTariff` (one line of a committing run), `recalculate` with its two
policies, `commitOpeningBalance` (imports), `cancel`, `close`, `reopen`. Each
holds the child lock for its whole transaction and reads after it, so it is one
step, including the trailing `allocateCredit`. A payment is two steps:
`BeginPayment` is the statement that waits for the lock and fixes the snapshot,
`CommitPayment`/`CommitManual` the rest; `AbortPayment` a rollback.

*Queries.* `Available`, `Remaining`, `Credit`, `Outstanding`, `Balance` are the
SQL of `allocate-credit.ts` and of the views `v_charge_outstanding` and
`v_child_balance` in their latest migration. `Applied` says what the loop gives:
lay the payments' money and the charges' debts end to end, oldest first; a
payment gives a charge the stretch they have in common (`Money!Common`).
`AllocateLoop` shows that the loops compute exactly that.

*Abstractions.* One child and one tariff kind. A serialization failure happens
when another payment of the child committed since the snapshot; PostgreSQL may
abort more often (`AbortPayment` covers it). Rows the database dates share the
instant `Now` and are in id order. With `Overlap = FALSE` no READ COMMITTED
write of the child commits while a payment waits for the lock; `Overlap = TRUE`
lifts that, and is what the code does. The policy `manual_only` writes no charge
and so is no step here (it is in `BillingRun`). Idempotency keys, receipts and
refund methods of a payment are not modelled. `nextOpenPeriod` creates a missing
period in the code; here the periods are those of `Periods`. Amounts are 1 or 2:
comparisons and differences of two amounts are what the properties see.

### BillingRun and PeriodBilling

*State.* tariff and attended days of each child, the charge of the period, who
waits for a manual correction, the period's status, runs with status, preview
and idempotency key, commit requests with the locks they hold and the lines they
have computed, the `endAssignment` requests under way, and, as history, the children
that got a tariff while a commit was locking the others (`late`).

*Actions.* `preview`, `discard`; a commit is `Start` (replay and checks),
`LockRun` (which lists the children), `LockChild` once per child in id order,
`ListAgain`, `ComputeLine` once per child, `Compare` (the fresh lines against the
preview, by signature), `InsertCharges` (the fresh lines, with the unique index and
the trigger, which locks a child that is not locked yet); `Fail` is a timeout or a
lost process at any point. `recordAttendance` stands for check-in, absence and
correction, each of which recalculates the charge in its transaction. The services
check the month of the date they are given and no other, so a tariff can change in
four ways: `assignToChild` from a day of this period on, `assignEarlier` from an
earlier month on, `CheckAssignment` and `EndAssignment` with a date of this period
(two statements, no lock), `EndElsewhere` with a date of another month.

*Abstractions.* A line is a tariff and a count of days: the calculation is a
function of them (`Charge`). It is of one kind of tariff, and what it charges is
told by the tariff's `Price`, so that two tariffs can pass for each other in the
signature. Discounts and holidays are variables of `Bill`, not
of this module, as is the registration fee that is charged once: a later run sees
the earlier charge because both lock the child. The check for an
existing preview and its creation are one step (a unique index would be the only
observer). Inserts and the commit are one step: the period row's share lock
makes `close` wait.

*Abstract specification.* `PeriodBilling` has neither runs, locks, comparison nor
keys: a request notes the tariff and days of one child after another, and `Bill`
charges what was noted, once, in one step, if the days noted still stand. `BillsOnce`
is its `Spec` under `billed <- Committed # {}` and `reading <-` the lines computed.

### Notifications

*State.* A row's status, attempts and channel, its jobs (a job and the worker
running it are one record), the guardian's binding, the announcement, callers
between the insert and `boss.send`, the calls of Telegram whose transaction is
over (`late`), and history variables: messages Telegram
accepted, acceptances nobody recorded, and how much of each bound is spent.

*Actions.* `InsertRow`/`SendJob`/`LoseCaller` (`enqueueDeduped`), `Begin` (lock
the row, decide, call Telegram), `Accept`, `Refuse`, `LoseAnswer` (what
`sendMessage` returns), `Record` (status, attempts, another run), `LoseWorker` (the
transaction takes its 60 seconds, or the process stops), `LateAccept`, `LateRefuse`,
`recover` (the cron sweep, row by row), `CheckRetry`/`UpdateRetry`, `Bind`,
`Unbind`, `PublishAt`, `remove`. pg-boss and Telegram are external: a job is run
by one worker at a time, again up to its limit, and `singletonKey` merges nothing
in a standard queue.

Nothing aborts the `fetch` when its transaction ends
(notification-worker.service.ts:66, telegram-client.service.ts:44). The call then goes
on without the lock: its message may still be accepted, its refusal still marks the
binding or sends another job, and its update of the row throws. The model lets the job
run again at once, where the code waits for the call's end or the job's expiry.

*Abstractions.* `TELEGRAM_ENABLED` is true; texts and languages are left out; the
binding is per row. Who gets a row is the subject of `Mailings`, how bindings
come about that of `TelegramBot`. The rate limiter only delays a call and is left
out; it spaces the calls of one server, so several servers may together exceed
the limit, which Telegram answers with a retry.

### GroupPlaces

`reassignChild` is `Check` (reads before the transaction), `Decide` (reads under
the locks of group and child) and `Transfer` (writes), with `Lose` between;
`Leave` (withdrawal), `MoveBranch`, `remove`, `update` (capacity, status) are the
others. `Peak` counts occupants by the code's event sweep; `PeakIsExact` compares
it with the true maximum per day. The exclusion constraint of the table is not a
guard of the model: `PeakIsExact` says as well that it is never needed. The child's
status is not a variable; staff slots and the creation of groups are not modelled.

### Landing

Editors change blocks and SEO fields. The server takes the stamp of a statement
before it executes it (`Stamp`, then the write), so a publication may be stamped
and committed in between; the page's `updatedAt` may even go backwards. The
`touch` of a changed block is a second statement with a stamp of its own:
`StopBeforeTouch` is a stop between the two.
`publish` is `ReadPage`, `ReadBlocks`, `StampPublishedAt`, `writeVersion`;
`restore` is `getVersion` and `writeVersion`; `CONCURRENT_PUBLISH` is the unique
index. A block's type, position and content are one value; restored rows reuse
names; the page row exists at the start. `behind` is a history variable that
says of the last write of the page what the stamps cannot: it published a draft
other than the present one, or was stamped before the publication it followed.

### AttendanceDay

One child and one day. Check-in and absence are a `Begin...` step (reads before
the lock) and a transaction under the child lock; corrections of the status and of
the arrival read nothing but the locked row and are one step each. Check-out and
the corrections of the departure and of the release take the lock and read the
permission (`Decide`), and write later (`WriteRelease`) or fail (`Rollback`):
persons, permissions and guardians change without the child's lock in between.
`ended` is a history variable: whose right ended while the lock was held.
`authorizedPickup` is the code's decision over
persons, temporary and ad-hoc permissions and guardian links, all of which are
granted and revoked meanwhile. Recalculation appears only as its possible
request for a manual correction. `late` and `early_departure` behave like `present`.

### Charge and Bill

*Charge* is the arithmetic: `divRound` and its four modes, the order of discounts,
attendance divided by a divisor, minimum and floor, the final unit, enrollment
windows from a history of status changes, billable days of a window. Operators
only, written with folds; the trace and the names of the code are left out.

Windows are sets of first and last days: each is clipped on its own, and what
is counted is a union of days or a sum over disjoint windows. Where the code sorts,
`ByDate` chooses one of the orders that are sorted; rows of one date may come in
any.

*Bill* puts rows under it. *State*: the child's dates and status, its status
history, tariff assignments, discounts, holidays, attended days, the versions of
the rules, the lines a committed run has charged, and whether a registration fee
stands charged in another month. *Actions*: `setStatus`
(backdated as well), `assignToChild`, `endAssignment`, granting and revoking a
discount, adding and removing a holiday, attendance, saving a version of the
rules, committing a run, charging or reversing the fee in another month (`feeElsewhere`).
*Functions of the state*: `simulateForChild` (the dry
run), `computeAllLines` (a line for each kind but a registration fee that stands charged),
`computeLine` (segment by segment, rounded once for the month), `Recomputed` (from the
snapshot stored with the charge).

*Abstractions.* The month is open and over, so every date from the day before it
to the day after it can be entered. A computation reads its rows in one step;
`BillingRun` has what may come between preview and commit. Amounts are whole
tiyin. The kindergarten has one branch.

### Mailings

*State.* Links of children and guardians, the members of the announcement's
audience, overdue children, the date, the announcement, the request keys,
the notification rows, and each request with what it has read and what is left.

*Actions.* `publish`, `send`, `runForTenant`, and the hooks `notifyGuardians`,
`notifyPayer`, `notifyChargesCreated` begin a fan-out; the reads
(`ReadChildren`, `ReadStaff`, `ReadAudience`, `ReadGuardians`) are statements of
their own, and `enqueueDeduped` inserts one row, or none when the unique index
has it. `Fail` is a statement that throws (only the reminders go on with the next
child), `Stop` the end of the process. `Relink`, `Move`, `Settle`, `Tomorrow`
change what they read. `isoWeekStamp` is the code's computation on days counted
from 2020. `kept` is a history variable: the recipients who have belonged, for
one and the same reason, ever since the request began.

*Abstractions.* Texts, languages and templates are left out, and so are messages
with an `entityId` of their own. The payment hook's links stand for the links
marked as payers. A failed read outside the per-child `try` ends the tenant's
reminders until the next morning (`Fail` before the rows); the hooks are not awaited, so a
stop loses them (`Stop`, after which nothing repeats them). An announcement reads children and
guardians by two statements, so somebody who belongs for one reason before and
another after may be missed: `NobodyMissed` is about one reason.

### TelegramBot

*State.* The updates chats have sent, those Telegram will not deliver again, the
process with its transport, offset and batch, what each handler is at, bindings,
link tokens. *Actions.* `Write` (a message), `CreateToken` after `ExpireOlder`,
`Lapse`, the handlers (`ReadToken`, `UseToken` of a READ COMMITTED transaction,
`bindByPhone`, `unbindByChatId`, `setLanguageByChatId` by two statements), `Throw`,
the polling loop (`getUpdates`, `Take`, `EndBatch`), `webhook`, `Crash` and
`onApplicationBootstrap`. The offset lives in memory and is acknowledged by the
next poll only. A batch is the set of its updates, handled in the order of their
ids, which is the order Telegram sends them in.

*Abstractions.* Replies are left out. `deleteWebhook` and `setWebhook` succeed.
In the code the client swallows their errors (telegram-client.service.ts:91-93,
108-113): a `setWebhook` that is refused is only logged, and when
`deleteWebhook` fails an earlier webhook stays registered, Telegram then refuses
every `getUpdates`, and the polling loop tries for good. /help only reads; staff
bindings go the way of guardian bindings.

### Sessions

*State.* The account (password, status, failed attempts, lock), session rows with
the session each was exchanged for, reset codes, and requests statement by
statement. *Actions.* `login` (read, compare, `RefuseLogin` or `AcceptLogin`,
`issueTokens`), `refresh` as `Consume` (the conditional update that only one request
wins) and `Rotate`, `logout`, `changePassword`, `setActive`, `updateUser`,
`forgotPassword`, `resetPassword`, expiry, unlocking, `Lose`. `stray` is a history
variable: the login or exchange was under way when all sessions were ended.

*Abstractions.* One account; hashes are perfect; access tokens are looked up
nowhere and left out. `failedAttempts` is written from a value read before the
comparison, so overlapping wrong passwords count once (auth.service.ts:88-95); two overlapping
`forgotPassword` leave two live codes (269): both are behaviours of the model
that no property excludes, because no text of the repository does.

### Imports

A commit is `Begin` (claims the job), `Lock`, then for each row `commitRow` (the
record) and its audit entry, or `FailRow`, which rolls back to the savepoint, and
`Complete`; `Lose` is a request that is cut off. `Elsewhere` removes codes and takes phones
meanwhile. A row is what its checks look at: whether it is well formed, a branch
or role by code, a phone. What a commit still has to do is a set of row numbers,
taken in order. The rows of the model are those whose creation writes an audit
entry; an opening balance is one charge without one (imports.service.ts:232), and is
modelled as a step of `Ledger` only. Numbers of rows in messages skip blank rows of the file
(imports.service.ts:83) and are not modelled.

### Exports

*State.* The requester's access (a scope per permission, branches, groups), the
export row with its file, the job, the workers. *Actions.* `create` and `send` (two
statements), `Fetch`, `process` (reads the status and the access), `RunReport`
(reads the rows), `Complete`, `Fail`, `Stop`, `Timeout` (a slow worker taken for dead),
`Retry`, `Expire`. `REPORT_REGISTRY`, `Queries` and `DOMAINS` are the code's tables, every
report's entry: what its route keeps, its registry entry reads, its queries filter
by, and its access check compares. `Covers` is the comparison of one key in
`assertExportAccess`. Days are left out, and with them what the scope `today` narrows;
`Uncompared` names the pairs of scopes where that matters.

### StaffRoles

A request is `Ask` (guard), `Begin...` (reads before the transaction) and its
transaction, which holds the tenant's row (explicitly or through the trigger
`bump_permissions_version`) and so is one step. `role:manage` and `user:manage`
are one permission "manage". `replaceRoles` takes one assignment. Scopes,
sensitivity, creation and deletion of roles are left out; so is the end of an
override (`PermissionCache` has it).

### PermissionCache

`ReadVersion` reads the tenant's `permissions_version` and the cache; `Hit`
answers, `Miss` starts the three queries of `resolve`, which see the
database at different moments (`ReadRoles` before `ReadGrants`, `ReadOverride` at any time), `Finish` caches
under the version read *before* them and answers. `Edit` changes roles, grants or
overrides and raises the version in the same transaction. `Evict` is the LRU
bound or another server with its own cache, `Found` the time to live, `Tick` the
clock, by which an override may end unedited. One permission; no scopes.

## 3. What is checked

Each run is exhaustive on its instance. Symmetry is declared only over
constants the module treats alike and only in runs without liveness properties.

| Run | Instance and why it is enough | Shows |
|---|---|---|
| `bounds` | 2 clerks, 3 charge rows, 2 payment rows, amounts 1-2, hand-picked allocations: a charge, its reversal and another charge; a payment and its cancellation, or two racing payments | `NoOverAllocation`, `NoOverSpend`: neither side exceeds its amount; `OutstandingIsDebt`: `v_charge_outstanding` and `v_child_balance` agree after every step that applies money |
| `periods` | 2 dates, 2 periods, 3 charges, 1 payment: a charge, its correction in the next period and one more row | `OldestFirst`, `ClosedPeriodFrozen`, `RecalculationExact` (a recalculation moves the debt by exactly the difference) |
| `overlap` | as `bounds` with `Overlap = TRUE`, one clerk | violation of `NoOverAllocation`, see section 5 |
| `money` | `AllocateLoop`: all tables of 3 payments and 3 charges up to 3, overspent ones included. `Bill`: a month of 3 days, 2 of them working days, a price and discounts that leave remainders (1005, 300, a third), 2 edits in any order, enrollment before or within the month, a monthly tariff and a registration fee charged elsewhere or not (from the beginning only under the confirmed rules, under the others by an edit), six sets of rules that between them take every option, and a seventh saved meanwhile | `GivesCommonStretch`: the loops give what `Money!Common` says; `WindowsAreEnrolledDays`: the windows are the days the history has the child enrolled; `SimulatedAsBilled`: the run's lines hold the amount of the dry run, and no line for a fee that stands charged; `SplitBillsTheMonth`: a month divided between tariffs costs what a whole one does, up to rounding; `RecomputedAlike`: edits after the commit do not reach a recalculation |
| `charged` | 1 child, 3 tariffs, two of one price, 2 counts of days, 2 runs, 1 request, 1 editor | `ChargedAsPreviewed`, `BilledAsAttended`; `BillsOnce` (refinement of `PeriodBilling`) |
| `once` | 2 children, so that lock orders matter, 2 runs, 2 requests, 2 keys; attendance does not change and no policy is `manual_only` (`charged` has both) | `CommitsNeverDeadlock`; `ReplayIsHonest`: one committed run, and an answer under a key is that run's |
| `delivery` | 1 row, 2 jobs, 2 callers, each kind of loss once, limits of 1 | `DeliveredOnce`, `NothingAfterSettled` (but by a call whose transaction was over), `EveryRowSettled` (liveness) |
| `places` | 2 children, 2 groups of capacity 1, 2 requests, 2 days: the smallest with a future transfer that overlaps a present place | `PeakIsExact` (the sweep's peak is the true one, and a child has one group a day), `AdmittedWithinRead` |
| `history` | 2 blocks, 2 contents, 1 editor, 2 publishers, 2 versions, 1 stop | `LiveIsLatest`, `DifferenceIsSeen` |
| `day` | The day: 1 person, 1 guardian, 2 staff, 2 instants, 2 permissions (the one created with the person, and one that raced with its revocation), 2 corrections. Mailings: 2 guardians, 2 children, 1 teacher, 2 requests, 1 key, 2 texts, 2 occasions, the last days of 2020 (week 53) and of 2022 and the days up to 6 later, 2 edits, 1 fault | `DayConsistent`, `HoldsWhenWritten` (arrivals and releases), `ChangesAreNoted`; `OneMessageEach`, `NobodyMissed` |
| `staff` | `StaffRoles`: 2 users, 1 editable role, 2 branches, 2 requests at once, 3 in all. `PermissionCache`: 2 requests, 1 edit, an override that ends inside or after the run, lifetime 2. `Sessions`: 3 session rows, 1 code, 2 requests at once, 5 in all, 2 failed attempts, 1 password change. `Imports`: 2 jobs of 2 rows each (two sound, one of them bad, one phone twice), 2 commits at once, 3 in all | `OwnerRemains`, `KeepsManaging`; `EntriesCurrent`, `EditsTakeEffect`; `SingleUse`, `PasswordEndsSessions`; `ImportedOnce` |
| `office` | `TelegramBot`: 1 guardian, chat, token and handler, 3 messages, 1 crash, 1 failing handler. `Exports`: 1 export of a finance report of two permissions or of the monthly attendance, 2 workers, 10 shapes of access, 2 changes of it, 1 fault | `StopIsFinal`; `UpdatesHandled` (liveness); `CoversRows`; `ExportsSettle` (liveness) |

A type invariant is checked in every run, as a conjunct of one of the properties
of its module (`NoOverSpend`, `ReplayIsHonest`, `PeakIsExact`,
`OneMessageEach`, `OwnerRemains`, and so on): TLC stops at either.

**Bounds.** Constants named `Max...`, `Slots`, `LastDay`, `Periods` and `NPayments`
cap counters; each is a guard of the action that would exceed it. Runs with such
a cap say `CHECK_DEADLOCK FALSE` because at the cap the model may stop (`bounds`,
`periods`, `overlap`, `history`, `money`, `day`, `staff`, `office`); the others are
checked for deadlock. Limits of three retries are one in `delivery`: the code
treats all runs before the last alike. `FirstDays` are 31 December 2020, a
Thursday of week 53, and 31 December 2022, a Saturday of week 52 whose week
has no day but 1 January in 2023: both sides of the ISO rule.

**Fairness.** `delivery` and `office` use it.
`Notifications!FairSpec`: weak fairness of each worker's fetching, of an answer
or an error of the Telegram call while its worker has the lock (the other end of it
is `LoseWorker`: the transaction ends after 60 seconds), of recording it,
of the sweep (cron, every minute) and of the hour of an announcement
(`startAfter`). No fairness on callers, bindings, losses or retries.
`TelegramBot!Fairness`: weak fairness of the bootstrap (a process manager starts
the process again), of the polling loop, of Telegram's delivery and of each
handler's next statement; none on people or failures.
`Exports!Fairness`: weak fairness of a worker's next step and of pg-boss's retry;
none on `send`, so an export whose job was never sent stays.
`MCOffice!MCFairness` is these two, each while its module is at work.

## 4. What is proved

TLAPS checks these for *every* value of the constants that meets the named
assumptions. `LedgerConstants`, `LoopConstants`, `CacheAssumption`,
`BillingConstants` and `NotificationConstants` are assumptions of their modules,
`BillAssumption` (that `Bill!BillConstants` holds) is one of `MCMoney`;
`MailingConstants`, `AttendanceConstants`, `PlaceConstants`, `SessionConstants`,
`RoleConstants`, `ImportConstants`, `ExportConstants` and `LandingConstants` are
hypotheses of the theorems and assumptions of the MC modules, so that TLC
evaluates each of them in the run that checks the same property. They say that
bounds are numbers, that sets that are counted are finite, and that the marks for
"nothing" are not values. `BillConstants` says as well that a set of rules is one that
`validateBillingRules` accepts, for all kinds of tariff there are, and that prices and
discounts are what their DTOs let through.

36 of the 39 properties of the runs are theorems. Few are inductive; what
strengthens them is, each time, a statement about the middle of an operation.

* `LedgerProofs`. Whatever runs at the same time: `TypeCorrect`,
  `ClosedMonthsStand` (no row is added to a closed month) and
  `RecalculationsAreExact` (the debt moves by the difference, both policies). With
  `Overlap = FALSE`, that is, unless another write of the child commits while a
  payment waits for the lock (which the run `overlap` shows to be needed):
  `NeverOverAllocated`, `NeverOverspent`, `OldestIsPaidFirst` and `DebtsAgree`. `NoOverAllocation` is not inductive: a
  payment commits what it computed from its snapshot. `IInv` adds
  `CurrentSnapshots` (an open snapshot that is not doomed to abort is the present
  ledger), `CancelsExisting` (a cancellation refers to a row that exists, so a new
  payment is not cancelled already) and `Sound` (the bounds). `OldestIsPaidFirst`
  and `DebtsAgree` need more than bounds, namely what one application gives
  exactly: `ShareExact` (a line of rows gives a stretch of the other side what the
  whole line has in common with it) for rows and columns, `TotalSwap` (sums by row and by column are the
  same), and `BooksBalance` (signed rows of charges and payments sum to those that
  stand).
* `MoneyTheorems` holds the arithmetic these share: finite sums, and stretches laid
  end to end.
* `MoneyProofs`. `LoopsComputeCommon`, `LoopTypeCorrect`: the nested loops give each
  payment and charge what `Money!Common` says, for any number of either, so the
  one-step `Applied` of `Ledger` stands for the loops. `LoopInv` is a closed form of
  the loop's two running amounts. `RecalculationRepeats`: a charge recomputes to its
  amount as long as its attendance stands, whatever was edited since, because
  clipping a window twice changes nothing (`ClipIsIdempotent`) and the snapshot has
  everything the amount is computed from (`Frozen`).
  `BillInvariance` is the invariant of a child's rows (`BillInv`): statuses are listed by
  date though they are entered backdated, no assignment ends before it begins, no
  percentage is more than the whole, the versions of the rules leave no gap. On it rest
  three theorems about what the rows are computed to, each for states with a committed
  run as well as without.
  `WindowsRightAlways`: the windows are the enrolled days, for any history. The loop over
  the changes and the loop that merges windows are folds; the fold of a list is
  unrolled to the line of its intermediate results (`ListFold`, by induction over the
  parts of the finite set 1..n), and each line has its own invariant: `EpisodesTo` (the
  episodes so far hold the days enrolled by the changes so far) and `MergedTo` (the
  windows so far are apart, and hold the days of what was merged). That sorted lists
  of a finite set exist is `SortExists`.
  `SimulationIsRight`: one segment without rounding, then the final rules once, is
  `calculateCharge` at once, whichever options the rules take.
  `SplittingIsFair`: each part is rounded from the same shared amount by the days it holds
  (`PartsAreShares`), the days of consecutive assignments add up (`SharesAddUp`), so the sum
  is within one tiyin a part of the whole's share; and what follows, discounts in
  either order, the floor and the final unit, never moves two amounts apart by more
  than that unit (`DiscountedStep`, `FinallyClose`). The four modes of `divRound` come down
  to three facts: it is monotone, exact on multiples, and off by less than one
  (`RoundOrder`, `RoundExact`, `RoundNear`).
* `BillingRunProofs`. `AnswersAreHonest`, `AttendanceIsBilled`,
  `RunsChargeTheirPreview`, `CommitsProceed`, and the refinement `BillingIsOneStep`:
  commits with lists, locks, comparison, keys and retries implement `PeriodBilling`,
  whatever becomes of attendance and tariffs meanwhile. The invariant is about the
  middle of a commit: who holds the lock of a run holds it alone and the run is a
  preview; while children are locked, those locked precede those to be locked, and
  every child with a tariff is among them or late. So the days of a computed line are
  those of its child until the charges are inserted, or the child is late. That locks
  are taken in the children's order makes a circle of waiting requests impossible:
  one that has locked all its children goes on, and if there is none, the one that
  waits for the last child does.
* `NotificationsProofs`. `NoMessageTwice`, `SettledIsSilent`. The key is the row's lock: a
  worker holds it from reading the row as queued to writing the outcome, so no two
  work on one row and none on a settled one; each accepted message is then unrecorded,
  retried by hand, or the one that settles the row. A call that has lost its
  transaction has no lock; its message counts as unrecorded.
* `DayProofs`.
  Mailings: `TypeCorrect`, `NobodyIsToldTwice`, `NobodyIsMissed`. `Stage` says of each request at work
  that the recipients whose reason has held since it began are among those it has
  read or will still read, and at its rows each is left or has a row. `StampNamesWeek`:
  two days have the same stamp exactly if they lie in the same calendar week, for
  every pair of days of the calendar.
  The day: `TheDayIsConsistent`, `ReleasedToTheEntitled`, `NothingIsErased`. A release
  names what it names fully also before the child leaves (`ReleaseOK`), and every
  permission, made or in the making, is for a person that was created. What a release
  will write is a right day, and whom it names may still fetch the child or has lost
  the right since (`Decided`, kept by `DecidedStays`).
  Places: `CountIsExact`, `NobodyBeyondCapacity`. `Holds` says what a transaction has
  found still holds until it commits: no later assignment of the child, and on every
  day of a request without force fewer children than the capacity it has read. Those
  who hold locks are for different children and groups, and every other step only
  frees places. A child then never has two places on a day, so rows that cover a day and
  children are equally many (`OnePlaceEach`), what the sweep has added up at an event
  is the number of children (`SumIsOccupancy`), and between events nobody comes or
  goes (`PeakCounts`).
* `StaffProofs`.
  The cache: `CacheTypeCorrect`, `CacheCurrent`, `EditsTakeEffectAlways`. A request whose version
  is still the tenant's has read what the rows still say.
  Sessions: `TokensAreUsedOnce` (`ConsumedOnce`: between the two statements of an exchange
  one request is there and nothing follows the token yet), `OldPasswordsEnd`
  (`PasswordInv`: every live session, and every call under way that will write one, is
  of the present password or a stray).
  Roles: `AnOwnerRemains`, `ManagingIsKept`. The rails count owners under the tenant's lock;
  the account a request looked at still exists (`TargetExists`).
  Imports: `RowsImportedOnce`. What a commit has written are the rows it has saved and the
  record of the one it is at (`CommitInv`), and one commit of a job is at its rows
  (`OneCommits`).
* `OfficeProofs`.
  Exports: `DownloadsAreCovered`. `RowInv` and `RunInv` follow the file from the worker to its row;
  `CoversIsEnough` is the comparison for every pair of accesses, and the tables of all
  reports are read once.
  The bot: `StoppingIsFinal`, `OneChatForALink`. The polling loop leaves no update out and goes back
  to none that is acknowledged (`LoopInv`), so after a /stop that was passed nothing
  older binds (`StopInv`), and a token that bound a chat is used (`TokenInv`).
  The page: `TheLastVersionIsLive`, `UnpublishedIsReported`. A publisher's version is at most
  the next one (`PageInv`); `DifferenceIsSeen` is inductive with that: a page whose
  last stamp is later than its publication's is dirty (`StampedIsDirty`).

Only model-checked, because out of the provers' reach: liveness (`EveryRowSettled`,
`UpdatesHandled`, `ExportsSettle`). The properties of section 5 that are violated are not
theorems, of course; `OneTimeLink` is one in polling mode.

## 5. Where the code does something else

`overlap` is the finding kept as a run. A payment that waits for the child lock
already has its snapshot. If a reversal (READ COMMITTED) holds the lock and
commits, the payment then allocates from a ledger that no longer exists, and the
charge the reversal's `allocateCredit` just paid is paid again. The row is only
locked, not updated, so PostgreSQL reports no serialization failure. The comment
`allocate-credit.ts:1` says the child lock is shared by every write.

The remaining configurations are not among the runs; each shows what one
statement of the repository says to be false of the model, or one more property.

| Configuration | Result |
|---|---|
| `MCLedger_reversed` | `ReversedNetsToZero` violated: `reverse` leaves the corrections of the charge that a recalculation booked in a later period (charges.service.ts:171, against the comment at 121) |
| `MCBillingRun_ended` | `BilledTariffStands` violated: `assignToChild` and `endAssignment` check the month of the date they are given, so the tariff of a billed month changes by a date in another one; `endAssignment` also updates in a later statement without the child lock (tariffs.service.ts:111 and 178, against 96 and the error at 185) |
| `MCNotifications_settled` | `EveryRowSettled` holds for two rows and a sweep of one row at a time |
| `MCNotifications_retried` | `SentStays` violated: `retry` updates by id alone, so the second of two retries puts a row back that was sent (notifications.service.ts:259, against 257) |
| `MCNotifications_attempts` | `ThreeAttempts` violated: `retryLimit` 3 is four attempts (notification-worker.service.ts:209, against 204 and the Telegram document's "Max 3 attempts") |
| `MCGroupPlaces_branch` | `BranchesAgree` violated: the branch is compared before the locks (groups.service.ts:161) |
| `MCGroupPlaces_shrunk` | `AdmittedWithinCapacity` violated: the capacity compared at 204 was read before the lock at 175 |
| `MCGroupPlaces_returned` | `AssignedForGood` violated: assigning a child to the group it leaves today succeeds and changes nothing (180) |
| `MCLanding_masked` | `EveryDifferenceIsSeen` violated: `publish` writes `updatedAt` over the stamp of an edit it did not read (landing.service.ts:299); so does an edit stamped before the publication and written after it (237, 473) |

These have no configuration of their own: each is checked as one more property of
the MC module, under the constants of its run but for those named.

| Property | Result |
|---|---|
| `BillingRun!BilledAsAttendedAlways` (`charged`) | violated: a child whose tariff is assigned after `commit` listed the children to lock is billed without the lock, for the attendance read before it changed (billing-runs.service.ts:358, 365) |
| `BillingRun!CommitsNeverDeadlock` without its exception `late` (`once`) | violated: two commits reach the insert with lines of late children, each the child that the other has locked |
| `StaffRoles!AlwaysKeepsManaging` (1 branch, `MaxRequests` 5) | violated: whether the actor holds the role is read before the transaction (roles.service.ts:185) |
| `StaffRoles!RolesOnBranches` (`Overlap` FALSE, `MaxRequests` 4, 2 users) | violated: a role for an explicit branch does not attach its holder (users.service.ts:343, against 154) |
| `PermissionCache!LapsesAtOnce` | violated: an override that ended stays in effect for the lifetime of a cache entry (permission-cache.service.ts:13) |
| `TelegramBot!OneTimeLink` without its condition `mode = "polling"` (2 handlers, 2 chats) | violated: the token is read and marked used by two statements of a READ COMMITTED transaction (telegram-binding.service.ts:74) |
| `TelegramBot!OneLiveToken` | violated: two overlapping invitations each expire the older tokens before the other inserts its own, against `05-telegram-spec.md:35` |
| `Bill!CappedAtFullTariff` | violated: attendance on a day that is no working day counts in a segment whose part of the divisor is smaller, against `03-billing-rules.md:68` |
| `Bill!EarlierDaysStand` | violated: the first change of a child without history moves the start of its window to the enrollment date, the first tariff or that change |
| `Notifications!SilentOnceSettled` (`delivery`) | violated: the call of a transaction that was rolled back after 60 seconds is not aborted, and may deliver after another job has settled the row (telegram-client.service.ts:44) |
| `AttendanceDay!HoldsWhenCommitted` (`day`) | violated: a person revoked, or a guardian unlinked, after the departure read the permission still takes the child (attendance.service.ts:434 and 442; pickup.service.ts:108 and guardians.service.ts:222 take no child lock) |
| `Sessions!OldSessionsEnd` | violated: a login that compared the old password, or an exchange under way, commits its session after the others were ended (auth.service.ts:246) |
| `Exports!CreatedExportsSettle` | violated: a stop between the export's row and its job leaves it processing (exports.service.ts:34) |
| `Exports!NarrowedIsRefused` | violated: the scope `today` is compared with `all` and `branch` only, so an export made under `today` passes under own groups, and the reverse (report-access.ts:54, against the message at 60) |
| `Exports!StaysSettled` | violated: of two overlapping workers the one that fails last overwrites the other's result (export-worker.service.ts:57) |

Seen while modelling, and part of the model as the code has it: the dry run gives an
amount for a registration fee that stands charged and that no run will charge again
(billing-runs.service.ts:72), which `SimulatedAsBilled` states; the dry run reads
discounts at the start of the assignment, the billing run at the start of the
month, so `SimulatedAsBilled` is about assignments in force when the month begins;
a flat tariff that begins or ends within the month is billed in full; a forced
full tariff is charged for a month without a working day; `endAssignment` accepts
a date beyond the beginning of the next assignment; `activeOn` inserts version 1
of the rules on first use; `create` of a charge checks for a closed period outside
its transaction and leaves it to the trigger; a redelivered /language toggles the
language back.

The runs state the nearest property that holds: `AdmittedWithinRead` is about the
capacity that was read, `NothingAfterSettled` excepts calls whose transaction was over,
`BilledAsAttended` and `CommitsNeverDeadlock` except children
whose tariff came late, `DifferenceIsSeen` excludes overlapping publications,
`CoversRows` leaves out the
pairs of scopes that are not compared, `KeepsManaging` is about requests on one's own account, `EditsTakeEffect` bounds
the age of an answer by an entry's lifetime, `PasswordEndsSessions` excepts what
was under way, `ExportsSettle` is about exports whose job was sent.

## 6. What is not modelled

* **Expenses and suppliers.** Rows with a cancellation, one update each; nothing
  reads them but reports.
* **Reports' rows, debts, the dashboard.** They read and format; the exports'
  queue, access and parameters are modelled.
* **Files and storage.** Input and output, but for the download of an export.
* **Audit log.** Append-only, in the transaction of the change, never read back;
  `Imports` has the one place where it can be missing.
* **Tenant isolation, scope filters.** Conjuncts of every query; every module is
  about one tenant, and `Exports` compares scopes where the code does.
* **Profiles of children and guardians**, merging guardians, documents, photos.
* **Row locks taken by foreign keys**, and so the deadlocks between them
  (payments.service.ts:323): the outcome is one aborted request.
* **Payments' idempotency keys, receipts and refund methods.**
* **Mobile client, configuration, health, lookups, deployment.**

Assumed of the database: rows selected without `ORDER BY` come in insertion
order where the code relies on it (`findMany` of tariffs and discounts). The
sweep's limit of 1000 rows, the rate limiter and the size of a batch of updates
are left out.

## 7. Plan

Order chosen by what a mistake costs: money first, then what is told to parents,
then places, then administration. Done: every module of section 2, and the proofs
of section 4.

Next, proofs: every safety property of the runs is proved. What is left are the
ledger's theorems under `Overlap = TRUE` with the charge that is exposed named
as the exception.

Next, models: payments' idempotency keys in `Ledger`; discounts and holidays as
editors beside a commit in `BillingRun`; the mobile client's refresh and offline
state.
