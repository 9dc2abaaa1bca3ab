# Atlas Commerce in TLA+

TLA+ models of the Atlas Commerce back end (`services/`, `packages/shared`,
`db/`, `scripts/`, and how `docker-compose.yml` brings it up), the TLC runs that check them on small instances, and TLAPS proofs of
what matters most for every instance. File names below are relative to the
repository; modules are in this directory.

Contents: [1 the system](#1-the-system) · [2 modules](#2-modules) ·
[3 runs](#3-runs) · [4 fairness](#4-fairness) · [5 proofs](#5-proofs) ·
[6 findings](#6-findings) · [7 what is not modelled](#7-what-is-not-modelled) ·
[8 plan](#8-plan) · [9 running it](#9-running-it)

## 1 The system

Each service is one Node process over one PostgreSQL schema (READ COMMITTED)
and a Redis. Within a process requests interleave at every `await`; between
processes there are only HTTP calls with a timeout and, for some, retries. So
the actors are request handlers and timers, the shared state is rows and Redis
keys, and the steps are SQL statements, Redis commands and HTTP messages.

| component | state it keeps | operations | hard behaviour | correct means |
|---|---|---|---|---|
| inventory (`services/inventory`) | `stock_levels` (on_hand, reserved), reservations with lines and status, movements | create, commit, release a reservation; adjust stock; a timer that releases expired reservations | each operation is a transaction of many statements; row locks are taken in different orders; the timer overlaps itself and the clients | stock never negative; a reservation ends once and books exactly its lines; requests behave as if each were one step; transactions end; expired reservations are freed |
| idempotency guard (`packages/shared/src/idempotency.ts`) | a result key and a lock key in Redis | `run(key, fn)` | read, lock, run, store, compare, delete are separate commands, each of which can throw; crashes anywhere in between | one execution at a time; the lock is given back unless Redis fails on the lock itself; late callers replay; every call ends |
| payments (`services/payments`) | intents, attempts, charges at the PSP | create, capture, void an intent; post to the ledger | status is read before the PSP is asked and written after; posts are retried | one intent per key; final statuses; paid means charged; charged once and posted unless requests overlapped |
| settlement (`services/settlement`) | ledger entries, settlements and their lines | post an entry; draft a settlement of a period | posting is three statements; a run picks in one snapshot and locks in another | one entry per reference; no entry left out; none settled twice |
| orders (`services/orders`) | orders, shipments, a read cache of orders and of timelines | place (saga over catalog, inventory and payments), cancel, ship; read; a timer moves shipments | calls time out and are carried out later; compensation can fail half way; cancel holds a row lock across HTTP calls; a reader stores what a writer has just invalidated | confirmed is paid and sold; a failed order leaves nothing behind; one shipment; statuses final; what is read is current or excused |
| catalog (`services/catalog`) | products, categories, price rules, their caches | read and price a product; change products and rules | read-through caches against double invalidation; conversion rate from payments | no stale price without a reason, and none for ever; prices computed right |
| gateway (`services/gateway`) | api keys and a rate-limit counter per key in Redis | authenticate, limit, forward (repeated if a GET), readiness | an attempt that is given up may still be carried out; Redis forgets; restarts | a write reaches a service at most once; a refused request never; success is said of what was done; the limit per window |
| synthetic monitor (`services/synthetic-monitor`) | which scenarios are running, alerts | run scenarios by timer, each a list of stages of calls | a scenario longer than its interval; calls of a stage that go on after one threw; the process ends in the middle of a scenario | no scenario overlaps itself, every one ends; what it leaves behind is alerted, unless its process ended |
| migrations (`scripts/migrate.ts`, `db`) | `schema_migrations`, the schema, the seed | apply files in order, seed an empty database | death between two statements, two runners at once, edited files | each file once, whole and in order; the seed all or nothing |
| deployment (`docker-compose.yml`, the `index.ts` files) | processes, their requests and jobs | start in dependency order, health checks, shutdown on a signal | a start that fails, signals in the middle of requests, jobs and probes; callers that hang up | nothing starts on half a database; every start and shutdown completes |
| shared HTTP client, db, config, logging | none of their own | | timeouts, retries, `withTx` | seen through their callers |

Interactions: a client asks the gateway to place an order; orders prices its
items at the catalog (which asks payments for exchange rates), inserts the
order, reserves stock at inventory, creates and captures an intent at payments
(which charges at the PSP and posts the charge to settlement), commits the
reservation and confirms the order; any failure on the way starts the
compensation: release, void, mark failed. The monitor is a client of the
gateway whose alerts (`docs/contracts.md:240-250`) name the states that must not
occur; several of the properties below are those alerts. Before any of this, the
migrator has to end well, and the services and the gateway have to answer their
health checks.

`PROJECT.json` lists the hazards of this code one by one, each with its line
and the properties that would show it going wrong.

## 2 Modules

| module | models | composed with |
|---|---|---|
| `Allocation` | `normalizeReservationLines`, `planAllocations`: pure functions | used by `Inventory` |
| `Sorting` | external: `Array.prototype.sort`, with a comparator that decides between any two elements (those of `Allocation` and `Pricing` compare a unique id last) | used by `Allocation` and `Pricing` |
| `Pricing` | `selectWinningRule`, `applyPriceRule`, tiers, rounding, conversion: pure functions | |
| `Inventory` | the inventory service | instantiates the two specifications it implements |
| `ReservationLedger` | abstract: a reservation is created, then committed or released, once | |
| `StockPromise` | abstract: every request is one step on the stock | |
| `Idempotency` | the guard | |
| `Payments` | intents, captures, voids, PSP, ledger posts | the guard is left out, see below |
| `Settlement` | ledger posts and settlement runs | |
| `Orders` | one order with its remote reservation and intent | inventory and payments as the status of one row each |
| `Catalog` | read-through caches against changes | |
| `OrderReads` | the orders service's cached reads against the statements that change an order | the writers of `Orders`, reduced to what they commit |
| `RateLimit` | the fixed window of the rate limiter: pure functions over arrival times | |
| `Gateway` | a request through the gateway: key, limit, attempts, restarts | |
| `Monitor` | the scheduler and the scenarios of the synthetic monitor | extends `Gateway`: its calls are requests of it |
| `Migration` | `scripts/migrate.ts`, by several runners at once | |
| `Deployment` | start, readiness, background jobs and shutdown of all processes | extends `Migration`: services wait for its runner |
| `MCFunctions` | enumerates calls of the pure functions, with their properties | `Allocation`, `Pricing`, `RateLimit` |
| `MCParts` | one instance for the functions, `Deployment`, `Monitor` and `OrderReads` | all of these |
| other `MC*` | instances for TLC | |
| `AllocationProofs` | theorems about the functions of `Allocation`, and the facts about sums, recursions and sorting they rest on | used by `InventoryProofs` and `PartsProofs` |
| `PartsProofs` | theorems about the parts of `MCParts` that share no state: migrations and deployment, gateway and monitor, order reads, the functions | extends `MCFunctions`, `AllocationProofs`, `Deployment`, `Monitor`, `OrderReads` |
| other `*Proofs` | theorems | each extends its module |

### Granularity

A SQL statement or Redis command that reads or writes something another actor
can see is an action of its own. What nobody else can see before COMMIT (rows
just inserted, updates of a row that is already locked and not read by others)
is folded into the neighbouring visible statement. A statement that commits by
itself is one action. An HTTP call is a request, what the callee does, and an
answer, each a step; a caller may stop waiting at any moment.

### Inventory

`stock[r]` is the committed version of a row, `newest[r]` the version of the
transaction that holds `rowLock[r]`. A SELECT sees its own transaction's newest
version or else the committed one; an UPDATE waits for the lock and then works
on the newest version (READ COMMITTED). `tx[t]` is the transaction of handler
or tick `t`: `op`, the `step` it is at, quantities `todo` and `done` by row, and
`seen`, what `commitReserved` read. `BeginCreate/…Commit/…Release/…Adjust` are
the first statement with the early returns before it; `Statement(t)` the rest;
`FinishX` the COMMIT with the inserts that become visible. `CommitTx` and
`Rollback` are `withTx`. A transaction that waits in a cycle is rolled back by
PostgreSQL's deadlock detector (an action); a crash rolls back all of them.
`StartTick`, `TickRelease`, `TickSkips`, `TickThrows` are
`expireReservations`; `batch[k]` is what a tick has listed. Time is
`expiredUpTo`: reservations up to that number have passed `expires_at`.

Row order matters for deadlocks and is kept: reservations lock the rows of a
product by availability, commit and release by warehouse.

`overwritten` is a history variable: a `commitReserved` has stored values
computed from a row that had changed since (finding 1). Properties that this
breaks are stated for behaviours up to that moment.

### Idempotency

One caller per concurrent call of `run` with one key: `pc` is the command the
caller is about to send, `block` the part of the try statement it is in. Every
command may throw, those that write before or after Redis has done them
(`…Throws`): outside the try statement that ends the call at once
(`EndsWithError`), from `run` and `store` it leads to `catch`, and in `catch` and
`finally`, which each compare the token and delete the lock, it ends the block
(`BlockThrows`). So after an error there are two rounds, of which the second finds
nothing, somebody else's token, or the lock that the first one could not delete.
`failed` (history) is where Redis failed a caller on the lock. `Expire` is the TTL of either
key.

### Payments

`handler[h].step` names the next statement. `charges` is the PSP (a charge with
its provider reference), `attempts` the rows by `attempt_no`, whose number is
read in one statement and inserted in the next (a unique violation is
`RecordAttemptFails`). `posts` are ledger posts on their way, with the number of
the try; a post that timed out may still arrive (`PostUnheard`). The guard
around capture has a key that contains the time of the request
(`captureIntent.ts:21-23`), so it neither waits nor replays. The guard around
creation only removes interleavings, so leaving it out loses no behaviour.
`disturbed` (history) holds the intents two of whose requests overlapped, or one
of whose requests a crash cut short.

### Settlement

A post is find, insert on conflict do nothing, find again. A run is one
transaction: `Pick` evaluates the SELECT's condition in its snapshot, `Collect`
waits for the row locks and inserts the lines, `FinishRun` totals and commits.
`due` (history) is what a run saw in its period, `contended` the entries that
two runs were collecting at the same time.

### Orders

Orders do not interact, so the model has one. `handler[h].at` is the step of a
request, `net` the requests and answers on their way. Each call may be
answered, refused, or given up by the caller while its request is still carried
out later or never. `failedAt` (history) is the set of placement steps that
threw. `CreatePendingThrows` and `MarkThrows` are statements that throw before or
after their effect: what follows the UPDATE, reading the items back and
invalidating the read cache, can throw as well. `reservation`, `intent` and
`charged` are the callee's state; what a callee does is what `Inventory` and
`Payments` do with the one row: a commit of a released reservation is refused,
a capture is two steps (charge, then status) between which a void fits.

### Pricing

Amounts are integers of cents and products exact quotients. The code multiplies
doubles: for the tiers' multipliers both round alike, for a percentage an exact
half may come out a little above or below (1250 cents at 0.12 % is 1.5 cents
exactly, and 1 in the code), so `AfterRule` allows both neighbours there.

### Catalog

A value in the cache is its provenance: the version of the product, the
version of the set of active rules, whether the rate was found. So "stale" is
"another version than now". Invalidation is a sequence of DELs (25 chunks of 500 keys
in the code, two in the instance). `suspect` and `excused` (history) record why a
stored value may be stale. The keys are of currencies whose rate exists; KRW is
a divergence of its own (section 6).

### Order reads

`stored` is what the database has of the order and its shipment; the writers are
the statements that commit a change, in any order the conditions on the status
allow. `owed` counts writers between their commit and `invalidateOrderCache`,
`missed` those that threw or died there. A reader (`withCache` around
`findByIdOrThrow` or the timeline's two queries) goes from `Miss` to `Put`; `late` says that an
invalidation has overtaken it.

### Gateway and monitor

`call[s]` is one request: where it is, how many attempts were made, how many of
those have been carried out by the service, and how many were given up and may be
carried out later (`late`). A service is whatever answers: it carries the attempt
out and answers well or with an error, or rejects it. `Authenticate` and
`LimitRate` are the middlewares (a Redis error is a 500), `Forward` to `GiveUp`
`JsonProxyClient.forward` with `withRetry`. How often the limiter refuses depends
on all who share a key: in `Gateway` it is a choice, in `RateLimit` it is computed
from arrival times. The monitor's `stage[n]` is the stage a scenario is at;
`client[s]` who made the call in slot `s` and whether it is still awaited: when
one call of a `Promise.all` throws, the others go on unheard. `rules` is the one
thing in the services the scenarios' correctness depends on: the price rules the
mutation scenario creates and deletes. `RestartMonitor` is the end of the process, by
a signal or a crash, and Docker's new start: the scenario at work is forgotten, its
calls go on without anybody to hear them, and `interrupted` (history) counts the runs
of the mutation scenario that ended so before they alerted.

### Migration and deployment

A file is its position, its body a version. `runner[r]` is a process: `applied` is
what it has read of `schema_migrations` once, before its first file, and may be
out of date when it gets to a file. `RunBody`, `Insert`, `Commit` are the
transaction of a file; `effect` is the version whose statements are in effect,
`tracked` that whose checksum is in the table. `Die` is a death or an error before
a commit, `DieCommitted` one after it. In `Deployment` `proc[s]` is the phase of a
process, `request[s]` a request that needs the database and whether its caller is
still connected, `tick[s]` the background job's transaction, `probe` the gateway's
readiness check. Shutdown is the code's order: stop the job, close the server, end
the pool. `Close` waits for connections only: a handler whose caller has hung up
(`HangUp`, the timeout of `serviceClient`) goes on, and is cut off when the process
ends. `Exit` waits for the job's transaction, which has a client of the pool, and
catalog has a deadline besides. So a shutdown can cut a handler off
between two statements or calls, as a crash does, and the modules of the services
have that as their `Crash`.

## 3 Runs

| run | instance | shows |
|---|---|---|
| `functions_and_platform` | four independent subjects, one per behaviour: *functions* (3 warehouses, as in the seed, 2 products, up to 3 lines of up to 4; base prices up to 40, three rates, up to 3 rival rules; up to 5 arrivals in three seconds, a limit of 2), *deployment* (2 runners, 2 files, 2 tables, 2 runs, one fault; catalog and orders, a request), *traffic* (3 slots, 2 retries, 2 timers, two things that go wrong, among them the end of the monitor), *reads* (1 reader, 2 changes under way, one missed invalidation) | the greedy plan covers the line from the best warehouses or fails, normalizing keeps totals; prices are rounded by less than a cent and the winning rule does not depend on the order; the limiter's window; the database is whole, nothing starts too early, every start and shutdown completes; answers of the gateway are honest; scenarios end, keep to themselves and, unless their process ended, alert what they leave behind; reads are current or excused |
| `inventory` | 2 warehouses, 1 product, 2 clients, 1 tick, 2 reservations, 1 adjustment, 1 crash | type invariant, the stock invariants, the books, both refinements |
| `inventory_lost_update` | 1 warehouse, 2 clients | finding 1 |
| `inventory_liveness` | 2 warehouses of 1 and 3 units, 2 clients, 3 reservations, ticks of one reservation at a time, two mixes: large reservations around an adjustment, with 2 overlapping ticks; small ones that are committed, with 1 tick | transactions end; expired reservations are released, unless a lost update prevents it |
| `idempotency` | 3 callers, two faults, one crash and one expiry | exclusion, release of the lock, replay; every call ends |
| `payments` | 2 handlers, 2 intents, 2 keys, 3 charges, a PSP that may decline, a post that may fail once, 1 crash | statuses, ledger and charges agree; what goes wrong needs overlap or a crash |
| `payments_charged_twice` | 2 handlers, 1 intent | finding 2 |
| `settlement` | 3 posts, 1 reference or none, 2 runs, 2 days, 1 crash | one entry per reference, nothing left out, double collection only when contended |
| `settlement_collected_twice` | 2 runs, 1 entry | finding 3 |
| `orders` | 1 placement, 1 cancellation, 2 ship requests, 2 ticks, each kind of fault | confirmed is paid, failed is undone up to the listed causes, one shipment, everything ends |
| `orders_cancel` | 1 placement, 1 cancellation, no fault | finding 4 |
| `catalog` | 1 reader, 2 writers, a price in the product's currency and a converted one, 2 changes, 1 fault | stale prices have one of the named causes and do not stay |

**Why the bounds are enough.** The properties relate at most two transactions
and what a third event (tick, crash, expiry, adjustment) does between their
statements, and two reservations are what it takes for one to overwrite
another's row; a demand of up to three over rows of one and two units is served
by one row, by a split, and not at all. In `inventory_liveness`
an adjustment of three turns the order in which a plan takes the rows, so that two
large reservations lock them in opposite orders. In its second mix a commit that
overwrites a row leaves one of three reservations unreleasable, and that one keeps
a younger one, which could be released by itself, from its turn. Two faults of Redis are what it takes to fail both rounds of `catch` and
`finally`. One crash at every possible moment
covers a crash per property, since none counts crashes. In `payments` three
charges allow a second charge of one intent next to a first of the other. In
`orders` every call may be late, so a fault at every step meets every step of
the compensation. In `catalog` a reader that starts again and again replaces
several readers except for two that store the same key at once; versions make
the second equal to a later store of the first; the same holds for order reads. Two migration runners are enough for one to be behind the other at
every statement; a third meets the same locks. Deployment has one service that
waits for another, one with a job, one with a deadline, and the gateway, which is
each kind once. Three slots hold a stage of two calls and one call that an
earlier run left behind. The four subjects of the first run share no variable,
so exploring their sum loses nothing of any. The safety results of section 5 do
not rest on these bounds at all.

`CHECK_DEADLOCK FALSE` is set where the instance really ends: bounded requests
that have all been answered, final statuses, a function that has returned.

Symmetry is used in `payments` (handlers) and `settlement` (posts, runs) only,
which check no liveness. Every property has a mutant: a changed form of one
mapped definition (`…Unlocked`, `…Always`, "Mutated form" in the comments) under
which TLC finds the property violated; they are listed in `PROJECT.json` and are
used by no specification.

**Properties worth knowing**, beyond the alerts:

- `RequestsAreAtomic` (`StockPromise`): although a reservation is planned from one
  statement's view and taken in later ones, it is as if each request had
  happened at its COMMIT.
- `BooksAgree`: `reserved` is the total of the pending lines, `on_hand` the
  initial stock with all movements; `commitReserved` is the only thing that spoils it.
- `MoneyIsAccounted`: what is in the ledger, and every intent that counts as paid,
  goes back to an accepted charge with an attempt on record.
- `LeftoverRulesAreAlerted`: a price rule of the monitor that stays behind, however
  late the call that created it was carried out, belongs to a run that has alerted or
  that the end of the monitor cut short.
- `LockIsGivenBack`: a call that has returned and left the key locked got an error from
  Redis on the lock itself: its SET threw, both rounds of giving it back failed, or the
  only round after a stored result did.
- `UndisturbedIsSound`, `CollectedTwiceOnlyIfContended`, `FailedIsUndone`,
  `StaleIsExcused`, `ReadsAreExcused`: where the code does not keep what its documents say, these
  state how much of it holds and exactly what it takes to break it.

## 4 Fairness

Only what runs by itself is fair; a client owes no request, a remote service no
answer, and nothing has to fail.

- Inventory: strong fairness of each transaction's next statement. A statement
  waiting for a row lock is in PostgreSQL's lock queue, which is first come
  first served, so it is not overtaken for ever, although it is disabled again
  and again. Ticks come from `setInterval` and are started again, whatever the
  last one did; time passes. The second mix of `inventory_liveness` has commits compete with the job for
  a reservation, refused ones included: while a client holds it the job waits, and
  is not overtaken for ever. But a commit that overwrites the row (finding 1) can
  leave `reserved` below the pending lines. `releaseReserved` then refuses to release
  such a reservation, every time, and since a tick takes the oldest first and ends with
  the first error, the younger ones are not reached either. `ExpiredAreReleased` has
  just this exception, and needs both its halves: without it, or with the
  reservation's own lines alone, TLC finds it violated. Releases by clients, which do
  what the job does, are left to the run `inventory`. The fairness of the instance
  (`LiveFairness`) is that of `Inventory` for the tick that takes part in the mix.
- Idempotency: a started call goes on (weak), and the deadline of a waiting
  caller is reached though it wakes up and polls in between (strong).
- Orders: a handler goes on (its calls are answered or time out after 2 s), the
  tick fires, shipments age. Moving a shipment on is strongly fair: the tick
  lists anew each time and its statements do not fail for ever.
- Catalog: requests that have begun go on; Redis expires each key.
- Deployment: a runner's statement, an answer to an accepted request, a statement
  of a job, the next phase of a start or shutdown, and the health check, which
  Docker repeats. Signals, faults, requests and new ticks of a job are not fair.
- Traffic: the gateway's handlers and the services' answers (an attempt is answered
  or its 5 s are over), the client's hearing of them, and the next stage.

Both liveness properties of the last two are of the form `<>[]`: runs, timers and
signals come a bounded number of times in the instance, and after the last of
them everything has to come to rest. A slot of `Gateway` is given free when its
answer has been heard (`Leave`, `Forget`) and a late attempt may come to nothing
(`NeverMind`): these bound the model's memory and stand for nothing in the code.

## 5 Proofs

All are of the form `Spec => []P`, `Spec => [][A]_v` or a refinement, for all
values of the constants that satisfy the module's `ASSUME`: any number of
clients, rows, slots, retries, faults. Each rests on an inductive invariant
of its component (`PartsProofs` has one for each part), which is there because `P`
alone is not inductive; TLC has been used on it first.

- `InventoryProofs`
  - `TypeCorrect`: type correctness, one lemma per action and per helper
    (`WriteRow`, `Advance`, `Unlock`, `CommitTx`, `Rollback`).
  - `StockNeverNegative`: `StockNonNegative` is not inductive, because
    `commitReserved` stores absolute values computed earlier. The invariant
    `SeenCovers` remembers between the SELECT and the UPDATE that what was read
    covers what will be subtracted. The stored values are thus not negative,
    stale or not.
  - `MovementsAreRight`, `LedgerImplemented`: the service implements
    `ReservationLedger`. The invariant says of each transaction under way that
    it holds the lock of a pending reservation whose lines are what it has done
    and has to do (`Holds`), that a reservation being inserted is nobody
    else's (`Fresh`), and that unused numbers are absent.
  - `BooksAlwaysAgree`: between the statements of a transaction the totals agree
    only when what it has done so far is counted in, so the invariant relates the
    newest version of each row, not the committed one, to the reservations, the
    movements and the `done` of whoever holds the row's lock. The sums are
    `SumFunction`s over all reservations; `AllocationProofs` has what the proofs need of
    them (a sum of equal terms, of terms that differ in one place, of nonnegative
    ones). They are defined by recursion, and induction is replaced there by a
    smallest subset for which a fact fails, which cannot exist.
  - `RequestsActAtomically`: every COMMIT is the one step of `StockPromise` its
    request takes, and every other statement is a stutter.
  - `PromisesStayWithinStock`: an action property.
- `AllocationProofs`
  - `PlanningIsRight`: the loop of `planAllocations` is a fold over the sorted
    candidates. Its invariant (`InLoop`): the lines so far name the first candidates
    in order, each exhausted except for the last one once nothing remains, and
    add up to what has been taken. At the end nothing remains, and the plan is
    greedy, or every candidate is exhausted, and there is not enough. That it is
    the only greedy plan is a fact about `GreedyPlans` alone: of two plans one is
    nowhere above the other, since the comparator decides between any two
    warehouses (`UsedBeforeDecides`), and their totals are equal. `Inventory` takes
    its plans from `GreedyPlans`, so this ties it to the loop in the code.
  - `NormalizingIsRight`: the totals by product after each line (`DemandIs`), then
    the sorted ids.
- `IdempotencyProofs`
  - `MutualExclusion`, `LockNotLeaked`, `LateCallersReplay`, from: what has failed by
    the time a caller is in `catch` or `finally` (`Blocks`); why the lock's holder has
    it, which is its critical section, its death, a round still to come, or a
    failure of Redis on the lock (`HolderHasReason`); whoever is in the critical
    section has the lock while no TTL has passed (`ActiveHolds`), and an answer given
    is stored before it is given (`AnswersAreStored`).
- `SettlementProofs`
  - `PostedOnce`: each post inserts at most once, and a conflict leads to the
    winner's entry.
  - `NoneLeftOut`, `TwiceOnlyIfContended`: what a collecting run left aside is
    settled already; what two collecting runs share, or a collecting one with a
    committed one, is contended.
- `PaymentsProofs`
  - `MoneyStaysAccounted`: a capture's reference is its own and uncharged until
    the PSP has it, then charged to its intent and never again, and on record
    before the intent succeeds or the ledger hears of it (`Sound`). Charges are
    written once and attempts only appended (`Grows`), so what is accounted for
    stays so, whatever the other requests and the late posts do.
  - `UndisturbedStaysSound`: an intent that is not disturbed has at most one
    request at work, and where that request is says what has been charged, put on
    record and posted (`UndisturbedAreWatched`); as soon as a second request
    meets the first, or a crash cuts it short, nothing more is said of the intent.
  - `OneIntentForEachKey`; `FinalStatusIsFinal` (an action property: rows not
    inserted yet are absent, and an UPDATE matches open statuses only);
    `PaymentsTypeCorrect`.
- `OrdersProofs`
  - `ConfirmedStaysPaid`: while the placement goes forward there is at most one
    message, that of the call it waits for, since it leaves the try block when a
    call is given up; so its stage says what has been done (`StagesAreRight`), and
    a late capture finds an order that will not be confirmed. Once the order was
    confirmed, only releases and voids are on their way (`MessagesAreRight`), and
    inventory and payments refuse them. A cancellation that is at work has found
    the order confirmed (`HandlersAreRight`).
  - `FailuresAreUndone`, from `UndoInv`: before a step of the try block nothing of
    the later steps is done (`NothingIsAhead`); on the way back, whatever is still
    charged, sold, held or requested is told by the step that threw
    (`WhatRemainsIsExcused`), and so it is when the handler ends (`EndsAreRight`).
  - `AtMostOneShipment`; `StatusesNeverGoBack` (an action property: each UPDATE
    names the statuses it starts from, and a tick the one it has listed);
    `OrdersTypeCorrect`.
- `CatalogProofs`
  - `StalePricesAreExcused`: at any moment a stale value is excused or doomed: a
    writer that has made its change has still to delete its key in a chunk to come
    (`StaleIsWatched`). A reader that may store such a value is suspect from the
    moment a change overtakes it (`ReadersAreRight`), and a writer that has made
    its change and not ended has chunks left to delete (`WritersAreRight`).
    `CatalogTypeCorrect`.
- `PartsProofs`
  - `DatabaseStaysWhole`: what a runner has behind it is in the table (`Behind`),
    although it looked only once; a row inserted and not committed is of a file
    that no other transaction has (`OneHolder`) and the table has not (`Pending`).
    So files are applied once and in order, and the seed never comes before them.
    `MigrationTypeCorrect` needs in addition that edits count as faults.
  - `NothingEverStartsTooEarly`, `DeploymentTypeCorrect`:
    a process that is there has found the migrator's run at its end, and a run that
    ended well leaves a whole database that no later step takes back
    (`DeploymentInv`); `/ready` answers well only for a process that listens, along
    any chain of services that ask each other (`ReadyIsStarted`).
    `DeploymentKeepsDatabaseWhole` carries the result about the migrations over.
  - `AnswersStayHonest`: every attempt is with the service, carried out, left
    behind or over (`AttemptsAreCounted`), a write has one, and no attempt is made
    before the last step that may refuse. `GatewayTypeCorrect` bounds the attempts.
  - `LeftoverRulesStayAlerted`: rules that exist together with those that may still
    be created by a call on its way, awaited or not, are covered by the alerts, the runs
    that the end of the monitor cut short, and the rule of the run at work
    (`RulesAreCovered`). The proof needs of the
    gateway that a write can be carried out once at most, wherever its call is
    (`CarriedOnce`), and that "ok" is said of what was carried out only.
  - `CallsStayWithTheirRun`: the calls a scenario awaits are as many as its stage
    makes, in every schedule (`StageIsAwaited`); an orphan needs a stage of two
    calls, one of which threw (`AlertsAreCounted`).
  - `StaleReadsAreExcused`: a reader that holds an older order or shipment has an
    excuse, and the excuse ends only with an invalidation, which marks every reader
    at work (`ReadIsRight`); a timeline reads the shipment after the order, so a
    shipped order comes with its shipment.
  - `LimiterIsBounded`, from `DecisionsAreBounded`: a request is counted from the
    first one of its window (`WindowsAreRight`), windows do not overlap
    (`WindowsAreApart`), and of each the first `Limit` are allowed; a span as long as
    a window meets two windows at most, since a third would begin too late.
  - `PricesAreAlwaysRight`: each rounding is off by half a cent at most, and the
    discount of a tier makes less of what the rule was off, or rounds nothing
    (`RoundingsAddUpToLessThanACent`); and `selectWinningRule` chooses the one rule
    no other comes before, in whatever order they come (`WinnerIsRight`).
  - `AllocationIsAlwaysRight`: what `MCFunctions` asks of calls, from the two
    theorems of `AllocationProofs`. All three rest on `FunctionsInv`: what has been
    returned is what the function makes of its arguments.

**Folds and sorting without induction over data.** A function defined by a fold is
a `CHOOSE` of a function that satisfies a recursion; what it computes is proved in
three steps that need no operator parameter. The recursion has a solution
(`RecursionSolves`, `FoldSolves`, from `SubsetInduction`: a smallest subset for which
a fact fails cannot exist), so the chosen function satisfies it; the values it takes
are written down step by step (`DemandFolds`, `PlanFolds`, `CountersFollow`); and an
invariant is carried from step to step by `UpTo`, which states induction with a set.
`Sorted` is a chosen permutation; `OrderExists` shows that there is one whenever the
comparator is a strict total order.

Assumptions beyond ranges: requests are numbered (`IdsAreNumbered`, a sequence in
PostgreSQL), the migrator seeds (`docker-compose.yml:37`), and the requests at the
gateway are finitely many. Of the functions' arguments `FunctionsAssumption` says
what the schemas of the requests let through.

Only model-checked: all liveness (`TransactionsEnd`, `ExpiredAreReleased` and the
like), which needs fairness and `ENABLED`. A price is quoted in `MCFunctions` with one
rule at most and a choice made among rules of two priorities and two ages; for more
than that the theorems to cite are `QuoteIsRight` and `WinnerIsRight`.

## 6 Findings

Each of the four has a run whose counterexample is the shortest behaviour.

1. **A commit can lose another commit's decrement** (`inventory_lost_update`).
   `commitReserved` (`services/inventory/src/repositories/stockLevelsRepository.ts:61-86`)
   reads without a lock and writes absolute values; `docs/contracts.md:158` and
   `services/inventory/tests/stockLevelSql.test.ts:38-40` expect a relative, guarded UPDATE.
2. **An intent can be charged twice** (`payments_charged_twice`). The capture's
   idempotency key and the PSP reference are new in each request
   (`services/payments/src/domain/captureIntent.ts:21-33`), against
   `docs/contracts.md:176`.
3. **An entry can be in two settlements** (`settlement_collected_twice`), against the
   comment at `services/settlement/src/repositories/settlementsRepo.ts:36-37`.
4. **A confirmed order cannot be cancelled** (`orders_cancel`):
   `services/orders/src/domain/cancelOrder.ts:52` releases a reservation that
   placing the order committed, which inventory refuses.

Divergences seen while reading, without a run of their own:

- The monitor alerts on right prices. Its scenario asks for the
  platinum price under an override of 12345 cents and expects 12345
  (`services/synthetic-monitor/src/scenarios/priceRuleMutation.ts:10,30-34`); the code
  takes the tier's discount off overrides too and answers 11728
  (`services/catalog/src/domain/pricingEngine.ts:17-25`), as
  `services/catalog/tests/pricingEngine.test.ts:22` asks. So a healthy system has
  `stale_price` alerts, against `docs/contracts.md:251`. `PricingIsRight` and
  `PricesAreAlwaysRight` follow the code and its test.
- The guard runs `fn` twice for callers that read no result and get the lock
  after it was stored; `docs/contracts.md:49` promises one run. The properties
  of `Idempotency` are what does hold.
- The guard's lock stays until its TTL (a day in the services) when Redis fails in
  `SET NX`, which is outside the try statement
  (`packages/shared/src/idempotency.ts:49`), or when it fails to give it back (`:56-64`).
- A service that shuts down waits for connections, not for handlers
  (`services/orders/src/index.ts:33-36`, and the others alike): one whose caller has timed
  out is cut off.
- A capture whose ledger post failed is never posted later: the intent is
  `succeeded` and a repeated capture returns at once.
- A failed order may have been charged or have its stock sold, if capture or a
  later step failed (`FailedIsUndone` lists the cases), against
  `docs/architecture.md:40`.
- A process that dies while placing leaves the order `pending` or `reserved`,
  possibly charged; no job takes it up. Its reservation expires, if not committed.
- Creating a price rule does not invalidate prices
  (`services/catalog/src/domain/priceRuleService.ts:22`); they are stale for up to 60 s.
- `KRW` is looked up as `KWR` (`services/catalog/src/clients/payments.ts:33`), and
  every failing lookup means rate 0, so prices in KRW are 0 and are cached.

## 7 What is not modelled

- Read-only listings and lookups of all services: they change no state.
- Creating products and categories; an absent product whose absence is cached.
- Wording of errors, validation of bodies, logging, configuration.
- Gateway: the mapping of paths to services and of headers, the answers for an
  unknown path or method (they change nothing).
- Monitor: what its assertions look for in bodies (so `alerts` are those of failed
  calls, and the `stale_price` of section 6 is not among them), the statuses a scenario
  tolerates, its cycle counter and log; a run's alerts count once, so that an orphaned
  call whose answer still alerts adds nothing to the alert of the run that threw.
- Idempotency: that the Redis client sends a command again after it has reconnected.
- Deployment: the number of tries a health
  check has, a second signal, the size of the connection pools.
- Migrations: what the statements of a file do (they are repeatable), and the
  generator of `db/seed/seed.sql`, which is run by hand and changes a file of the
  repository.
- More than one process per service; PostgreSQL and Redis failing in themselves
  (a statement that throws and a key that expires are modelled).

## 8 Plan

Modelled first was what holds money and stock: inventory, then the guard,
payments, settlement, orders, catalog caches and prices; then what carries it:
gateway, monitor, migrations, deployment and the cached reads of orders. Every
safety property that a run checks, of the state machines and of the functions, is a
theorem. What is left: what TLC only checks as liveness has safety parts that could
be stated, such as that a transaction which waits is in a cycle or behind one that
does not wait.

## 9 Running it

    tlc -workers 2 -config MCInventory.cfg MCInventory.tla
    tlapm InventoryProofs.tla

`PROJECT.json` has the module and configuration of each run, the source lines of
every definition, the hazards and the theorems.
