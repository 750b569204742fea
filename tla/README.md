# TLA+ verification of the hotel property-management system

This directory models the parts of the system whose correctness depends on the
order in which concurrent requests, workers and crashes happen. TLC checks the
models on small instances; TLAPS proves the main safety results for every value
of the constants. `PROJECT.json` maps every definition to the source lines it
was translated from and lists runs, mutants, findings, hazards and theorems.

Run `tlc -config MCAttempts_attempts.cfg MCAttempts` and so on for a run,
`tlapm JobQueueProofs.tla` for the proofs.

## 1. The system

The application is a Next.js server (any number of instances) over one
PostgreSQL database. Route handlers call services (`modules/*/*.service.ts`);
a service command is one READ COMMITTED transaction (`lib/db/transaction.ts`)
that takes row locks in a documented order (docs/ARCHITECTURE.md section 5):

    business date -> reservation room -> stay -> blocks, rate plans
    -> inventory cells -> block allocations -> sequences -> rooms
    -> housekeeping task -> folios -> payments

Everything that matters is in the database; processes keep only timers, open
streams and counters. Background work is a table of jobs polled by workers.

### Inventory

| part | state it keeps | operations | what is hard | what makes it correct |
|---|---|---|---|---|
| Job queue (`modules/jobs`, `lib/jobs/worker.ts`) | `background_jobs` rows: status, attempts, `locked_by`, `locked_until`, `run_after`, dedupe key | enqueue, claim, renew, assert lease, complete, fail, reclaim, cancel, give up | workers pause past their lease, crash, lose answers; several executions of one job at once | only the present holder writes; a job ends; it is compensated once |
| Night audit (`modules/night-audit`) | `night_audit_runs`, `business_dates`, the night's ledger lines, daily statistics | start, execute (Phases A-C), fail, recover, give up | retries and late workers of an old run; postings during the audit; lost acknowledgement of the commit | a date is closed once, with its statistics, by one run; the date is never left in audit |
| Business date (`modules/business-date`) | one current row per property | initialise, require open (FOR SHARE), roll | every posting in the system depends on it | lines land only on the open date |
| Inventory (`modules/availability`) | one cell per room type and night: physical, out of order, sold, blocked | reserve, release, reserve from block, recount, reconcile | bookings, blocks, releases, room changes on one cell | never oversold without an override; counters equal the recount |
| Reservations (`modules/reservations`) | reservation rooms, their nights, status, assigned room | book, change, cancel, no-show, reinstate, assign, extend | each command moves nights between cells and blocks | the life cycle, and what each state consumes |
| Groups (`modules/groups`) | groups, blocks, allocations per night | create, allocate, change status, release, pick up, cut off, cancel | pickup against release against house bookings | a block never gives out more than it holds |
| Front desk (`modules/front-desk`), rooms, housekeeping | stays, room assignments, the statuses of rooms, service blocks, cleaning tasks | check in and out, move, reverse, extend, out of order, clean, inspect, roll | four records change together; rows read before a lock is waited for | a guest is in exactly one occupied room; none in a room out of order; a room left is cleaned |
| Billing and payments (`modules/billing`) | folios, append-only lines, cached balance, payments, refunds | post, reverse, adjust, pay, void, refund, settle | charges and balances read before the folio is locked, repeated requests, partial refunds | the balance is the sum of the lines; nothing is posted, corrected or refunded twice |
| Idempotency (`modules/idempotency`) | keys with stored answers | claim, replay, take over | duplicate requests in flight, expiry | a command runs at most once in the life of its key |
| Worker process (`lib/jobs/worker.ts`) | map of active executions, wake-up flag, LISTEN connection | tick, claim, notify, poll, stop | callbacks while a tick awaits the database | no job is forgotten, stop stops claiming |
| Realtime (`lib/realtime`, `PropertyRealtime.tsx`) | LISTEN connection, event streams, the tab's queries | notify, subscribe, merge, refetch, reconnect | each of three connections drops at any time | a live screen shows what is committed |
| Reports, read replica, semaphore (`lib/db/read-replica.ts`, `lib/utils/concurrency.ts`) | slots, waiters, the health of the replica | run, wait, probe, fall back | timers against answers | slots are conserved, every report is answered |
| Row locks (`lib/db/transaction.ts` and every service) | who holds which row, who waits | the lock sequence of each command, retry | some 60 commands in any combination | commands keep one order |
| Users and roles (`modules/users`, `modules/access`) | users, role assignments, links | invite, grant, revoke, disable, enable | administrators acting on each other | nobody acts on lost authority, an administrator remains |
| Sign-in (`modules/identity`) | the account (status, hash, failures, lock), its sessions, its reset link | sign in, change and reset the password, invite, disable, enable, unlock | hashes are verified between transactions, of any number of requests | a session belongs to the present password of an active user; guesses are counted before they are verified |
| Session refresh (`refresh`, `baseApi.ts`, cookies) | current and previous token hash, last use; the jar the tabs share | deny, ask, rotate, race, reuse, answer | tabs refresh at once, answers overtake each other or are lost | tabs that refresh together stay signed in |
| Loyalty, guests, accounts, rates, setup, search, audit log, UI | rows edited under versions; read models | CRUD | little concurrency | see section 7 |

## 2. Plan

In the order of what the business cannot lose. Each module is written to be
proved about: constants with assumptions, one action per operation, invariants
as conjunctions, no RECURSIVE operator.

| step | modules | abstract specification | state |
|---|---|---|---|
| 1 | JobRows, JobQueue | FencedWork | checked, proved |
| 2 | NightAudit (reuses JobRows) | BusinessDay | checked, proved |
| 3 | Inventory | | checked, proved |
| 4 | FrontDesk, FrontDeskProofs | Lodging | checked, proved |
| 5 | Folio, with the idempotency keys | Account | checked, proved |
| 6 | JobWorker | | checked, safety proved |
| 7 | Realtime, Reports | | checked, safety proved |
| 8 | LockOrder | | checked, proved |
| 9 | Administration | Authority | checked, proved |
| 10 | SignIn, Refresh | | checked, safety proved |

Modules that share no state are composed for TLC by an MC module whose initial
state picks the part that works: `MCDatabase` (JobQueue, LockOrder, SignIn, Refresh),
`MCAttempts` (JobQueue, NightAudit), `MCServer` (JobWorker, Realtime, Reports),
`MCBackOffice` (NightAudit, Administration).

Left: an abstract specification of the inventory (a house that sells, holds and gives
back rooms, one command at a time) and its refinement; theorems that say where the
findings of section 6 cannot happen.

## 3. The modules

### JobRows: the rows and the statements

A row is a record of `status`, `attempts`, `owner` (`locked_by`), `lease` and
`due`. Time is abstracted to what SQL compares: `lease` is `live` until
`locked_until` passes, then `expired`; `due` says `run_after <= now()`. Every
UPDATE of `jobs.repository.ts` is an operator from the row it matches to the
row it leaves (`ClaimedRow`, `RenewedRow`, `FailedRow`, `ReclaimedRow`, ...),
every WHERE clause a predicate (`Claimable`, `Held`, `Reclaimable`, ...).
`LeaseCheck` is the table's CHECK constraint.

### JobQueue: the queue under concurrent workers

`exec[j][n]` is the execution of attempt n of job j (`JobWorker.execute`): its
worker, where it stands, and whether its AbortSignal is set. A worker may have
several executions, also of one job. `locker[j]` is the attempt whose open
transaction holds the row after `assertLease`; FOR UPDATE waits are guards on
it, SKIP LOCKED is a step that is not taken. Handlers are arbitrary: they open
fenced transactions, commit with or without `completeIn`, return, throw, throw
`JobFailure`. A lost acknowledgement is the commit followed by the path of an
error. `worked` and `undone` are history variables.

Left out: progress texts, results, error texts, ordering of claims (any due job
may be claimed), the loop that claims (module JobWorker), the queue's
statistics. Attempts are bounded by `MaxAttempts`, as in the code.

**FencedWork** is the contract: attempts hold the job one after another, only
the holder commits work, and nothing happens to a job that is over.
`ImplementsFencedWork` instantiates it with `phase` and `token` read off the row.

### NightAudit: runs, jobs, the date and the postings

The run, its job (with JobRows' statements), the executions, the current date,
the postings of clerks and a user who recovers a run. Transactions that wait for
their locks and commit are one step. Phase C, the long commit, is four steps
(date taken, lease asserted, work, commit), because leases expire and requests
arrive meanwhile; postings that hold the date FOR SHARE are two steps. The
application's clock, which `stopSubjectJob` compares leases with, may run ahead
of the database's (`ClockSkew`). Money is abstracted to who has lines on a date,
checks to their outcome.

Left out: the contents of the steps of Phase C (no-shows, cutoffs, charges),
which do not decide whether it commits; what they do to inventory, rooms and
folios is `Roll` in Inventory, FrontDesk and Folio. `LastDate` bounds the calendar; the last date is not closed.

**BusinessDay** is the contract: post on the open date, begin, abandon, close
with the statistics of exactly the lines of the date and open the next one.

### Inventory: cells, stays, blocks and rooms of one property

`res[i]` is a reservation room with its nights (type, arrival, departure), its
status, whether its type deducts inventory, its block; `blk[b]` a block with its
grid (`alloc`, `released`; `NoRow` is a row that does not exist); `room[r]` a room
with its out-of-order periods; `cell[c]` the cached counters of a room type and
a night. What a cell has left is counted from these, as the SQL does: `Physical`,
`OutOfOrder`, `Sold`, `Picked`, `Blocked`, `Spare`.

A command is two steps. In the first it has its locks, reads, checks and
writes: `tx[k]` holds the rows it wrote, the cells and blocks it locks and its
recount, seen by itself only (`After(tx[k])`). In the second it commits, or is
rolled back. `Lockable` says that nobody else holds what it locks. Between the
two steps other commands run, so a lock left out shows. The commands that read
before they lock (`changeGroupStatus`, `placeServiceBlock`, `releaseServiceBlock`)
have a step for the read. All locks are taken at once; the order in which they
are taken, and the deadlocks, are in LockOrder.

Left out: overbooking limits, sell limits and restrictions (a limit moves the
bound, not who may pass it), assigned rooms (in FrontDesk), prices, versions of reservations
(every command locks the reservation room first). The number of rooms a block
allocates is bounded by `MaxAlloc`, the calendar by `LastNight`. `Commands`,
`Edits` and `Overrides` choose what the clients do in a run. `Roll` is what the
night audit's commit does to inventory; no-shows and cutoffs are the commands a
user has, so they are not repeated in it.

### FrontDesk: guests, rooms, blocks and cleaning

`res[i]`, `stay[i]`, `asg` are the reservation room, the stay made of it and the
active rows of `room_assignments`; `room[r]` has the three statuses of a room;
`block[r][n]` its live service blocks in the order of their ids; `task[r]` today's
departure clean. All rooms are of one type; what a command does to inventory is
in module Inventory. Most commands are one step, taken when the rows they lock
are free. Check-in and move are two: their `SELECT ... FOR UPDATE` computes the
flags of the blocks before it waits for the lock, and these keep the old values
(`tx[k].seen`). Check-out is two: `queueCleaningInTx` reads the task without a lock and
writes it under its version; a version that moved aborts the command. A move and the
release of a block read their task the same way but are not split there, which only leaves out the
aborts. The property's type of a departure clean is taken to exist: without it
`queueCleaningInTx` queues nothing. `Roll` is what the night does to dates, blocks and tasks.

**Lodging** is the contract: one guest to a room, a move empties one room as it
fills the other, who has checked out does not come back.

### Folio: the account of one stay

A charge is one record: net and tax parts, what the ledger's correcting rows have
credited, whether it is reversed, its date, and the night or package it bills.
Every command holds its idempotency key and the date from its first step, which
reads what the code reads before it locks the folio (the charge and its
corrections, the nights that are unposted, the balance on the page); the second step locks,
decides, posts, and stores the key's answer. Between the two other commands run,
and it may be rolled back, which frees the key. Keys expire (`MaxLives` bounds
how often). The trigger that keeps the balance is in the operators that
append lines; `verifiedBalance`, which refuses a command when balance and ledger
differ, is the invariant `BalanceIsLedger` instead of a guard. Check-in, check-out,
reversal and the audit are there because they decide what may be posted.

`postNightsInTx` inserts no line for an amount of zero (`billing.service.ts:1104`), yet flags
the night (`billing.service.ts:1137`): a night may be complimentary, or its included packages may use up its
rate. `Complimentary` is the set of such nights and packages, `Rate`, which is not zero, what
all others cost; `NightOnce` therefore says that a night that costs something is flagged
exactly while it has its room charge. Which nights these are is fixed: the rates of a stay change only
before check-in; what its packages use up may change with their configuration between a reversal and the
next posting, which is left out. A desk that posts room charges names the last night (`through`), as the
request may. Check-out is one step, at the lock of the folio, though the code takes its locks
one after the other: it only settles what owes nothing, which it reads under that lock.

Left out: windows other than the first, the calculation of taxes (a charge
carries them), currencies, the no-show fee.

**Account** is the contract of one bill: what is charged, what is paid, when it
is settled, and that a command is executed at most once in each life of its key.

### JobWorker: the loop of a worker process

`tick` is where the loop awaits the database, `wake` the flag that coalesces what
arrives meanwhile, `active` the map from job to attempt, `running` the executions
that really go on. The map is keyed by job, so a worker that claims its own
expired job again overwrites the entry; the model keeps both. `listen` is the LISTEN
connection with its fallback to polling, `stopping` is set by `stop()`. What an execution
records at its end may fail with the database (`Record`): the job then stays held. The rows are
abstracted to due, held, expired, over; what an execution does to them is in
JobQueue. `told` and `late` are history: jobs the worker was woken for, claims after
stop.

### Realtime: from the trigger to the screen

One topic. A transaction sends its notifications to the LISTEN connection
(`conn`), which may be down, or dropped and not noticed until the next ping; the hub
emits to the event stream, which merges changes while it waits; the tab
schedules a refetch, reconciles when its stream becomes ready, sleeps while
hidden. `fetch` is the query under way: what it reads is what is committed when the
server reads, so an answer may be older than a notification that overtakes it.
`blind` records the one case the code lets through (section 6).

### Reports: slots and the replica

A heavy report takes a slot of `Semaphore.run`, or waits for one until its timer
fires; the release hands the slot to the first waiter. A read goes to the replica
if its health, which one probe at a time refreshes, allows it, under the client's
own deadline; it falls back to the primary. The replica may be up, behind, down, or
never answer.

### LockOrder: what each command locks, and in which order

A command is a sequence of phases read off its code: a kind of row, the rows, the
mode. Within a phase rows are locked in the order of their ids, as the code's `ORDER BY ...
FOR UPDATE` does. Inserting a row locks the rows it refers to FOR KEY SHARE. A deadlock
is a set of transactions that wait for each other; the database ends one of
them, which begins again up to `MAX_ATTEMPTS` times (the commit of an audit once).
`Orderly` are the commands that keep the order, `Inverted` the six that do not.
Left out: PostgreSQL's queue of waiters, the allocations of a cell (locked under
it), organization-level rows.

### Administration: who may change what a user may do

A request is three steps: the caller's access is read when it arrives; under the
lock of the organization the caller is read again and the command is checked;
it commits or is rolled back. Invited users set a password by a link, without
that lock. Roles, their permissions and the scopes of grants are constants.

**Authority** is the contract: whoever changes a user is active at that moment and
holds all that is won or lost; an active administrator remains.

### SignIn: the account of a user

`account` is the row of users, `opened` the sessions that are not revoked, `reset` the
unused reset link, `call[c]` a request: how far it is and the hash or link it has read.
Hashes and links are told apart only by identity: every password that is set has a new
hash, by its salt, so "the same hash" is "the password was not replaced". A session is
represented by the hash it was opened under; several under one hash are one element, which
`RevokeSession` may remove or not. What holds a row lock while it goes on (`RowHeld`,
`LinkHeld`, `AdminHeld`) is two steps, the lock with its checks and the commit. Between them and
while a hash is computed other requests run. The lock of the account is `running`, `over`, or
`old` once its end is a day ago; how long it lasts is left out. A user has one unused link at
most, because whoever issues one uses up the others first. The rules of who may administer whom are in
Administration. Status LOCKED is set by no code and left out, as are the expiry of sessions after 14 days and the
status of the organization, which only refuse.

### Refresh: the tabs of one browser

`session`, `age` and the place of a token in the rotation ("current", "previous", "older")
are the row of auth_sessions; `jar` and `life` the cookies; `tab[t]` a tab and its request: asked
with the token then in the jar, found or missed by the server, rotated, raced or refused,
answered. The transaction of `refresh` is three steps, `Find`, `Rotate` or `RotateFails`, and `Check`, because it
locks nothing before its conditional update. A rotation makes every copy of a token one older.
Time is counted in ticks: `since` is what passed after the handler read its clock, `wait` what
passed after the tab asked. `lost`, `late` and `overtaken` remember what `StaysSignedIn` excuses:
a new token lost on its way, an answer slower than `Patience`, a token replaced twice before its
request came. The last is the finding `tabs_race`.

## 4. The runs

| run | instance | shows |
|---|---|---|
| `attempts` | 1 job, 2 attempts, 2 workers; 1 audit run, 2 attempts, 2 workers; fairness | the fenced lock, give-up, the refinement of FencedWork, and that every queued job ends, under all interleavings of slow, crashed and stopped executions; a run ends or its job has used up its attempts |
| `database` | 2 jobs with one dedupe key, 1 attempt; 2 clients that run any of some 60 commands over 2 stays, rooms, cells, blocks and rate plans and 1 key; 1 account, 3 requests, 4 hashes, 3 links, threshold 2; 3 tabs, a grace period of 2 ticks | types; exclusion by dedupe key, including executions of a job already over; every deadlock has one of six named commands in it; sessions are current, attempts counted; tabs stay signed in |
| `audit_dates` | 2 runs, 1 clerk, 2 workers, 3 dates, 1 attempt; 3 users, 2 roles, 1 property, 2 requests | closed dates frozen, commit safe, only the chosen date, in audit exactly while a run is RUNNING, runs and jobs agree, refinement of BusinessDay and of Authority |
| `inv_sales` | 1 room, 2 stays, 2 nights, 2 clients | the last room is sold once, whatever is cancelled, reinstated, extended, added, out of order or returned |
| `inv_blocks` | 1 block (elastic or not), 1 room, 2 stays, 1 night, 2 clients, overrides, the group closed or cancelled | in a cell already oversold nothing is sold without an override; pickups are neutral and their block definite; counters agree |
| `inv_cancelled` | 1 block, 2 clients | violated: a cancelled group keeps a live block (finding) |
| `desk` | 2 guests, 2 rooms (one cleaned, one that may be out of order), 3 dates, 2 clerks, 1 block slot | the records of a stay agree, no one is kept in a room out of order, a room left is queued for cleaning, refinement of Lodging |
| `desk_service` | the same with 2 block slots | violated: the service status of a room disagrees with its blocks (finding) |
| `folio` | 2 clients, 2 keys with 2 lives, 4 charges, 1 payment, 3 dates, 2 nights (the second complimentary with its package), a charge of 2 with a tax of 1 | balance and ledger agree, nothing is reversed or credited twice, a night is billed once and flagged while it is, a divided credit is exact, refinement of Account |
| `folio_reversed` | the same with a reversal of the check-in | violated: a reversed check-in has postings (finding) |
| `tabs_race` | 3 tabs | violated: a tab that lost a race is refused (finding) |
| `server` | 2 jobs, 2 slots, 2 attempts, 1 error; 2 transactions, 2 messages on each wire; 4 reports, 3 of them heavy, 1 slot; fairness | no due job is forgotten or stays due, stop stops claiming, a live screen is fresh, slots are exact, reports are answered |

### Bounds

A conflict over a job needs a holder, a late former holder and someone taking
over: two attempts and two workers; the theorems hold for any number. Jobs
interact only through the dedupe key, so two suffice. A conflict over a date needs
an older and a newer run of it and one posting; a third date lets a late actor of
the first meet the second closed. A conflict over a cell needs two commands that
take its last room, or one that takes and one that gives back: two clients over
one or two rooms, a second night where a command moves nights. `inv_sales` has no blocks:
of blocks that are sold from, `SalesCovered` is only proved. Without overrides
a cell never gets short, so `inv_blocks` allows them and checks who may make it
shorter. In `inv_blocks` no room is added, so the constraint `RoomsExist` leaves out the
states that differ only in a room that does not exist instead of one out of use.
`CountersAgree` is checked where no room is added or edited: the recount after such
a change misses the cells whose first booking is not committed.

In `desk` two guests compete for a room and can move between two; one room has the
housekeeping, the other the blocks, so that each race is met without their product.
Three dates let a stay be cut short and extended. In `folio` a key needs two lives to be
taken over while its first request is on the way; four charges are a night and its package,
the night again after its reversal, and a charge; the second night is flagged without a line,
and a stay in which only some lines are free is left to the theorem; the tax makes a credit divide with a remainder. In `database` two
clients are the shortest circle; longer ones, and any number of rows, are what
the proof adds. On the account three requests are a sign-in under way, a change of the
password and an administrator; a threshold of 2 with 4 failures locks it twice; four hashes are one
for the account and one that each request knows. Two tabs race and a third overtakes them; the constraint
`WellBehaved` does not follow a session past what `StaysSignedIn` excuses. In `server` two due jobs and two slots let a notification arrive with
a slot free and one taken; three heavy reports over one slot give two waiters, so a
waiter's timer meets the hand-over to another. In `audit_dates` a third user
lets one of two administrators be demoted by the other while acting on the third.

Symmetry is used in safety runs only. CHECK_DEADLOCK is FALSE where the system rests:
all jobs over and the bounds used up, a worker stopped, an account settled. It is on
in `desk`, where a booking can always be made or cancelled.

### Fairness

Queue and audit (`FairSpec`): time passes (leases expire, jobs become due); some worker
process always runs and polls, as the poll timer and process supervision
provide; an execution takes its next step, because statement and transaction
timeouts end every wait; a handler does not open transactions for ever (strong
fairness of `HandlerEnds`). Nothing is assumed of users, heartbeats, crashes or
lost connections: crashes may happen any number of times, and cost an attempt.

Server: the worker's timer fires, its executions end, and the database answers all
but `MaxErrors` of its statements; the deadline of a replica read fires and the primary
answers, at the latest with its statement timeout. Nothing is assumed of the
replica, of LISTEN, or of notifications.

## 5. What is proved

Every safety property and every refinement that a passing run checks is also a theorem.

| module | proves about |
|---|---|
| `JobRowsProofs` | lemmas on the statements of JobRows |
| `JobQueueProofs` | JobQueue |
| `BackOfficeProofs` | NightAudit, Administration |
| `InventoryProofs`, `FrontDeskProofs`, `FolioProofs` | Inventory, FrontDesk, Folio |
| `DatabaseProofs` | LockOrder, SignIn, Refresh, and their types side by side with JobQueue (MCDatabase) |
| `ServerProofs` | JobWorker, Realtime, Reports, and the three side by side (MCServer) |

The type invariants of the audit, the inventory and the front desk are proved there and not
checked again by the runs. The theorems hold for any number of jobs, workers, attempts, runs, clerks, dates, room types, rooms,
reservations, blocks, clients, rows, charges, payments, keys, users, roles, requests, passwords, tabs, versions,
messages, reports and slots, and for any prices, taxes and complimentary nights, from the named assumptions on constants alone (`None` is
no worker and no row; `MaxAttempts`, `LastDate`, `LastNight`, `MaxVersion`, `MaxWire` and `Limit` positive; runs are no clerks;
rooms, reservations, blocks, charges, payments, jobs of a worker and reports finite in number; rows numbered up to some `MaxRow`; the founder's
role is administrative; the grace period is at least twice as long as an answer takes).

* Queue: `QueueInv` = types and row constraints, the fenced lock, give-up. Only
  together are they inductive: that a final failure is handed over once needs
  the constraint that a FAILED row has no owner; that a commit is the holder's
  needs the lock. `KeyExclusive` adds that at most one job of a key is active:
  an abandoned execution in a transaction holds its row, hence its job is
  running. The refinement step is proved action by action.
* Audit: `AuditInv` = types; `Calendar` (dates before today closed, today open
  or in audit, later ones absent); `OneRun` (in audit iff one run RUNNING, of
  that date); `Postings` (an open posting implies today's date, open);
  `Commits` (who is in Phase C holds date, run and lease, alone); `Ledger`
  (statistics of closed dates equal their lines, one completed run each);
  `JobsFollow` (run and job agree); `Chosen`. `ClosedFrozen`, `AuditHeld`,
  `JobAgrees`, `CommitSafe`, `ChosenDateOnly` and the refinement follow.

* Inventory: `IInv` = types; locks (`Lockable`: what transactions hold is
  disjoint); a transaction that only reads has written nothing (`Quiet`) and the
  room it read is still of that type (`RefOK`); a block allocates only its own
  nights (`GridOK`), a pickup is deducted and never waits (`PickupRow`); and every
  transaction that may commit is `Sound`. `Sound` is what makes the properties
  inductive, as they speak of a transaction's world when it commits, not when it
  checked: outside the cells it holds it changes no count (`Isolated`), inside them
  it leaves none short or takes no more than before (`Covered`), a pickup takes just
  what its block held (`Neutral`), and what it makes active or less than definite
  fits the blocks it holds (`PickupSafe`). The argument has three parts: counting
  lemmas on finite sets (what one stay, one block or one room does to `Spare`); one
  lemma per command (`BookSound`, ...), that it prepares a sound transaction; and
  `Stable`, that a sound transaction stays sound while others commit, because they
  are isolated and hold other cells. `RoomsKept` is an assumption of the three
  theorems on sales: `updateRoom` retires or retypes a room without a look at what
  is sold, so a run with these edits would violate them. `DefiniteBlocks` and
  `TypeCorrect` need no such assumption.
  `CountersAgree` follows from `CountersInv`, kept beside `IInv`: what a ready transaction
  has counted of its cells is what they will be, outside them no room's use changes
  (`Exact`), and a cell has the counters of its committed rows even while somebody holds
  it (`CellsExact`). What was counted before others committed stays true because they
  hold other cells and are isolated. Its assumption `RoomsFixed` leaves out the commands
  that add or edit rooms: they recount only the cells whose first row is committed.

* Worker: `WorkerInv` adds to the types that a job's attempts do not run out before
  it is over (`Attempts`), that what the worker was told is either served or
  remembered in `wake` or in the tick under way (`Remembered`), and that only the
  claim under way can be late (`LastClaim`). `NotForgotten` and `StopsClaiming` follow.
* Locks: `LockTypeOK` is inductive as it stands: what a transaction holds is a prefix of
  its plan. Every orderly plan ascends in `Place`, the rank of a row by kind and number; so
  whoever waits wants a row above all those it holds. In a circle, take the one who
  wants the highest row: the one it waits for holds that row and wants a higher
  one. The highest exists because rows are bounded.
* Administration: `AdminInv` says that one request at a time is between its checks and
  its commit (`OneChecked`), that all it was allowed for still holds (`Allowed`: only a
  link is used meanwhile, and it takes no permission and no administrator away), and that
  an administrator remains. The refinement maps each commit to the step of
  Authority its checks allow.

* Account: `AccountInv` = types; one request at a time has the row; what it has checked under
  the lock is still so (`Verified`); `SessionsCurrent`. The last is not inductive alone: a commit writes
  what its request read a step earlier. `AttemptsCounted` follows from `TriesFollow`: between two locks
  the attempts are at most the remainder of the failures by the threshold.
* Tabs: `RefreshInv` = types; and, while nothing went wrong, that a new token is nowhere but on
  its way to the jar (`TokensKnown`), so that two rotations never follow each other
  unseen, and that a tab with the previous token asked before it was replaced or while the
  answer was on its way (`InTime`), so it comes within two answers' time, which the grace period covers.

* Front desk: `DeskInv` = types; `Agree` (the records of one stay, with the day it began and
  what a checked-out stay leaves); `Doors` (rooms and who is in them); `OutOfOrderKept`; blocks
  that end after they start; and `Locked`: what a two-step command has read of its
  reservation, its stay and, until housekeeping touches it, its task is still so, and no two
  commands hold one reservation. Without `Locked` nothing is inductive, as a command
  writes what it decided a step earlier. An extension keeps out of a block only because the block
  does not end before it starts. `LeftRoomQueued` and the refinement of Lodging follow from what
  the four steps that move a guest do.

* Folio: `FolioInv` = types, `Corrected`, `NightOnce`, `BalanceIsLedger`; what a command
  has read before it locked is still so as far as it relies on it (`Pending`: a line
  keeps its parts and its base, a payment stays); no two commands have one key (`KeysHeld`)
  and a live key was used in this life (`KeysUsed`). `Pending` is what lets a correction
  be decided on an old page: only the credited parts may have moved, and those are read
  again under the lock. The balance is a sum over charges and payments. Sums are folds, and the
  induction theorems of the library cannot be instantiated here, so the laws needed (`SumTake`,
  `SumAdded`, ...) are proved by induction over the set of sizes for which they
  hold (`NatSteps`, `SubsetSteps`), which needs no operator parameter. `CreditSound` is
  arithmetic over the parts of a line: the rounded shares with the corrections of
  the loop add up to the amount.
* Live updates: `RealtimeInv` = types; `Ways` (the last commit comes last on every way, a closed
  stream carries nothing); `Heard` (what counts as heard was asked on the present
  connection); `Told`. The last is the argument: once the tab was told of the last commit it
  has a timer, a query under way or the data (`Own`); while the stream is up and no greeting is on its
  way, either `Own` or the news is on its way (`Noticed`), or `blind`. `Fresh` is the case where nothing
  is under way. That a shown tab is not dirty (`Shown`) is kept beside it.
* Reports: `SlotsExact` is kept with the types alone: who holds a slot is counted from
  the states of the reports, and a hand-over moves a slot without freeing it.

Only model-checked: liveness (`EndsEventually`, `AuditEnds`, `Served`, `Answered`), which is
out of the prover's reach, as its proofs need ENABLED and fairness.

## 6. Findings

Shown by a run:

* `inv_cancelled`: `changeGroupStatus` promises that the blocks of a cancelled group return
  what they held (`groups.service.ts:411`); a block written between its read and its
  update matches no row, and keeps it.
* `desk_service`: "A block covering the business date updates the room's service status"
  (`rooms.service.ts:213`); blocks are rolled in the order of their ids, so one that ends
  may be released after its successor was activated, and the room is in service.
* `tabs_race`: "Two tabs refreshing with the same token within this window is a race, not theft"
  (`identity.service.ts:71`); if a third tab rotates the next token between the two, the slower one's is
  two rotations old, no row knows it, and the answer clears the cookies of all tabs.
* `folio_reversed`: a check-in is reversed "only while the stay's folio has no postings
  at all" (`docs/PMS_WORKFLOWS.md:129`); the count takes no lock, and a charge posted
  before the commit stays.

Seen while modelling, without a run of their own:

* Jobs may run twice at once, against `scripts/ops/worker.ts:8`: a handler goes on after its
  lease expired and the next attempt starts. Its writes are fenced, so the state is
  safe; side effects outside the database are not.
* `onGiveUp` is called once, from memory (`night-audit.service.ts:656`): a crash there leaves the
  date in audit until a user recovers it.
* `placeServiceBlock` (`rooms.service.ts:241`) reads the type of a room before it locks it; a room
  retyped meanwhile is taken from another type's cells. `lockRooms` (`rooms.repository.ts:44`) computes the
  out-of-service flag before it waits, so a room out of service may be accepted.
* The recount after a room edit (`availability.service.ts:475`) misses a cell whose first booking is not committed.
* `stop()` takes its list of executions while a claim may be under way (`worker.ts:183`): the job it
  brings is neither aborted nor waited for. The map of executions is keyed by job (`worker.ts:190`): a
  worker that claims its own expired job again exceeds its concurrency.
* A tab that reconciles counts as fresh what it asked before its stream heard
  notifications (`blind`); a failed refetch stays; a stream dropped without a word stays
  "live". The ten-minute refetch mends all three.
* A probe of the replica begun before a read failed may mark it healthy again; several
  reads may fail on it once each before the health is known.
* A new refresh token whose answer is lost leaves the tab with the previous one; after the grace
  period its next refresh is taken for a copied token and revokes the session.
* "Explicit row locks on contention points, always taken in a fixed order to avoid deadlocks"
  (docs/ARCHITECTURE.md section 5) has six exceptions, the `Inverted` of LockOrder: `updateRoom`
  (room, then cells, `setup.service.ts:386`); `createRequest` with a block of the room (room by its
  foreign key, then cells, `maintenance.service.ts:184`); the cancellation of a group (block, cells,
  next block, `groups.service.ts:429`); a pickup, which locks the group last; `updateRatePlan` with a new
  parent (`rate-plans.service.ts:323`); and the audit's commit against room edits, which hold no
  business date. All are retried but the commit of an audit, which a room edit can fail.

## 7. Not modelled

* Of identity: the expiry of sessions, profile and picture, cryptography. The clocks that
  `password_changed_at` is compared with: the comparison is the second line of defence, and
  `SessionsCurrent` holds without it.
* Rate limiting: a refused request changes nothing that is modelled.
* Shutdown: a sequence of timers and hooks; what it does to others is `Stop` in JobWorker and
  `EndStream` in Realtime. `runDue`, the worker's loop for tests, has no concurrency.
* Offline snapshots: read-only copies in a browser.
* Loyalty: a points ledger under one row lock, simpler than Folio in every respect.
* Guests, accounts, reservations' notes, group contacts: rows edited under a version.
* Prices, packages, taxes, restrictions, overbooking limits: data that decide whether a command
  is refused or what it costs, not in which order things happen. Their arithmetic is pure.
* Outbox: rows appended with the command; there is no consumer in the repository.
* Audit log, retention, search, the content of reports: append-only writes, deletes of old
  rows, queries.
* HTTP layer, React pages, schema, seeds, scripts: no state that other parts decide on. A constraint a
  module relies on is named at the definition that uses it.
