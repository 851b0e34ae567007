# Verification of the order-processing API

TLA+ models of the API under `src/api/`, TLC runs on small instances, and
theorems checked by TLAPS. The API is a Go monolith over PostgreSQL and Redis;
its README promises correctness under concurrency: no overselling, no deadlock,
no double charge, no duplicate order. Those promises are what is modelled.

## 1. Inventory of the system

| Component | State | Operations | Interacts with |
|---|---|---|---|
| orders (`internal/order`) | tables `orders`, `order_items` | create, cancel, list, get | locks and changes `products.stock`; inserts the `payments` row; saves its response through idempotency |
| payments (`internal/payment`) | table `payments` | pay, get | locks the order and the payment, charges the provider, marks the order paid |
| products (`internal/product`) | table `products` | create, patch, delete, list, get | its rows are locked and changed by order transactions; `order_items` refers to them |
| idempotency (`internal/idempotency`, `platform/middleware/idempotency.go`) | table `idempotency_keys` | claim, look up, take over a stale claim, save the response | in front of create order only |
| users (`internal/user`) | table `users` | register, login, me | login records failures in the rate limiter and hands out tokens |
| login rate limiter (`platform/ratelimit`, `platform/middleware/auth.go`) | one Redis counter per address, with a TTL | allow, record failure, reset | in front of login; fails open |
| authentication (`platform/auth`) | none: a token is signed, not stored | issue and check a JWT | in front of every order request |
| database pool, start-up, shutdown (`platform/database`, `cmd/api`, `server`) | 10 connections; the phase `main` is in | ping with retries, serve, drain for 10 s, close the pool | every transaction holds a connection, every other statement needs one |
| health, metrics, tracing, logging, configuration, HTTP helpers | counters and spans | observation only | none that changes the modelled state |

What is hard in it, and to test:

* *Concurrent transactions.* Create, cancel, pay and the catalogue writes work
  on the same rows under READ COMMITTED. Safety rests on `SELECT ... FOR UPDATE`
  being issued before the decision it protects; progress rests on every
  transaction taking its locks in one order.
* *Failure in the middle.* A statement may fail, a client may go away (the
  request context is the context of every statement), a commit may be applied
  and its acknowledgement lost. A charge by the provider cannot be rolled back.
* *Retries and time.* A client repeats a create with its key; a claim is taken
  over after 30 s, by a clock that is not the one that stamped the row; the
  first handler may still be running.
* *A process that ends.* A drain that expires, a listener that fails or a crash
  leaves requests at every stage: claimed, charged, committed but not saved.
* *A bounded pool.* Transactions that wait for locks keep their connections.
* *Widths.* Quantities are Go `int`s that no validation bounds (the line tags
  are not reached: there is no `dive`), stored in 32 bits; totals are products
  of 64-bit integers that may wrap.

`PROJECT.json` lists every hazard at its line with the properties that cover it.

Correctness, per component: **orders**: stock conserved, checks still true when
acted upon, prices current, totals consistent, no deadlock, answers that agree
with the tables. **payments**: one successful charge per order, order and
payment agree, final states final. **products**: an ordered product stays, no
write slips into an open transaction. **idempotency**: one handler per key for
the length of the timeout, faithful replays, one order per key, no key blocked
for good. **rate limiter**: the limit is exceeded only by the logins in flight,
windows are fixed, every block ends. **users and authentication**: an account
belongs to the registration that was told so, one account per address, a token
only for the account's password and only until it expires. **process**: every
accepted request ends, a shutdown ends and loses neither a saved response nor
the record of a charge.

## 2. Modules

| Module | Contents |
|---|---|
| `OrderLedger` | what the order API promises: each order, cancel, settlement and catalogue write as one step on the tables |
| `Orders` | orders, payments and products as concurrent transactions; implements `OrderLedger` |
| `MCOrders` | its TLC instances: sets of requests, symmetry |
| `OrdersProofs` | inductive invariant of `Orders`; `TypeCorrectness`, `PaymentsAgree` |
| `OrdersSafety` | `LocksAscend`, `DeadlockFreedom`, `StatusIsFinal`, `OrderedProductsStay`, `NoDoubleCharge`, `LedgerAgrees`, `AnswersHold`, `PricesAreCurrent` |
| `SumTheorems` | lemmas about the community operator `SumFunctionOnSet`, by induction over finite sets |
| `OrdersStock` | `WorkInvariance`, `StockChecked`, `StockConserved`, `TotalsExact`, `LedgerRefinement` |
| `Idempotency` | the key table, retries, faults, time |
| `MCIdempotency` | its TLC instances |
| `IdempotencyProofs` | `TypeCorrectness`, `ExclusiveClaims`, `FaithfulReplays`, `ClosedKeys`, `NoDuplicateOrders`, `RetriesAgree` |
| `Server` | the process: `Orders` behind the middleware, the connection pool, start-up, shutdown, restart; implements `Idempotency` |
| `MCServer` | its TLC instance |
| `ServerProofs` | `Refinement`, `ServerClaims`, `ServerTypeCorrectness`, `LedgerSurvives`, `ResponsesSurvive`, `ServerBooks`, `ServerLedger`, `ServerConserves`, `ServerPromises`, `ServerDeadlockFreedom` |
| `Accounts` | registration, login and the life of a token |
| `MCAccounts` | its TLC instance |
| `AccountsProofs` | `TypeCorrectness`, `RegistrationSound`, `AddressUnique`, `TokenSound` |
| `RateLimiter` | the login rate limiter's counters in Redis, with expiry and faults |
| `RateLimiterProofs` | `TypeCorrectness`, `LimitHolds`, `TTLLostOnlyByRace`, `WindowsFixed` |

Definitions introduced by a comment `Mutant:` are variants with a plausible bug.
They are not part of any specification; each shows that a property can fail.

### Orders

A *request* is one HTTP call that passed authentication (and, for a create, the
idempotency middleware). It takes one SQL statement per step, and the variable
`pc` is the statement it is at. `products`, `orders` (with their items) and
`payments` are the committed rows. The three `...Lock` functions say which
transaction holds each row. What a transaction has changed of the stock is
private (`delta`) until its commit; orders, items and payments it inserts exist
for nobody else before the commit and are written there. An order and its
payment are named after the request that created them.

| Code | Actions |
|---|---|
| `OrderHandler.CreateOrder`, `OrderService.CreateOrder` | `RejectCart`, `BeginCreate` |
| `lockAndPrice`, `LockProductForUpdate` | `LockProduct`, `LockProductRefused`; `Least` is the head of `sortedProductIDs` |
| `CreateOrder`, `CreateOrderItem`, `DecreaseProductStock` | `InsertOrder`, `InsertItem`, `InsertItemRefused` |
| `CreatePayment`, commit | `CommitCreate` |
| `CancelOrder` | `BeginCancel`, `CancelRefused`, `CancelLockOrder`, `RestoreItem`, `RestoreRefused`, `CommitCancel` |
| `PaymentRepository.Pay`, `Charge` | `BeginPay`, `PayOrderNotFound`, `PayLockOrder`, `PaySettled`, `LockPayment`, `Charge`, `CommitPay` |
| `ProductHandler`, `ProductRepository` | `CatalogRefused`, `CreateProduct`, `UpdateProduct`, `DeleteProduct` |
| `WithinTx`, any error | `StatementFails`, `Rollback`, `Commit` |

Two statements that lock nothing new and decide nothing another transaction can
influence share a step (the insert of a line and the decrease of its locked
row, the last write and the commit). `Int32` is Go's conversion, for a column
whose largest value is `MaxStock`; `Int64` is what Go's 64-bit arithmetic leaves,
for a word whose largest value is `MaxAmount`. `View` is the stock a transaction sees:
the committed value plus its own changes.

A catalogue write is one statement that commits by itself. `CatalogRefused` is a
body the validator refuses (`ProductRejected`) or, with `Faults`, a statement that
fails; after a statement that was applied, `CatalogDone` may lose the
acknowledgement, so the client is told 500 for a row that is written, in the
middle of other requests' transactions.

The widths are part of the types: a stock is in `0 .. MaxStock` (INT), a price, a
subtotal, a total and an amount in `Amount`, which is `0 .. MaxAmount` (BIGINT with
a CHECK), a quantity asked for and the running total in `Word` (Go's int, negative
values included). `OrderTotals` asks that the stored total is the 64-bit sum of
the stored subtotals; and unless a product's units, a line's cost or the total
leave 64 bits, that the stored quantity of every line is the one asked for, so
that nobody is charged for other units than the order holds and the stock lost.

History variables: `supply` counts the units ever given to each product;
`charged` is the provider's ledger, which no rollback touches.

Left out: descriptions, timestamps, response bodies, and the reads (a single row
or a page), which change nothing. The name of a product is not modelled: a
create or a patch may be refused because of it (`ErrExistingProductName`) or
not. With the names the waits on their unique index are left out: a write holds
one row while it waits for a name and waits for no row afterwards, so order
transactions are not in its cycles; two patches that exchange names wait for
each other until PostgreSQL fails one. PostgreSQL's own behaviour (row locks, rollback, commit, constraint checks)
is external and modelled from how the code uses it. A lock wait is never timed
out: the code sets no `lock_timeout` or `statement_timeout`.

`OrderLedger` has the same three tables and none of the machinery: `Place`
requires that the products are live, at the prices on the lines, and that there
is enough of each, and takes all the units away at once; `Cancel` returns them
all; `Settle` records what the provider answered; `Administer` rewrites one
product, or deletes one that no order refers to. `ImplementsLedger` in `Orders`
says that the commits of the interleaved transactions are such steps and that
nothing else changes the tables.

### Idempotency

An *attempt* is one POST with a key, a user and a body hash. Each statement on
`idempotency_keys` commits by itself and is one step. `Claim` is the
`INSERT ... ON CONFLICT DO NOTHING`; `Lookup` the read and its four outcomes
(another user's key is a 500, another body a mismatch, a saved response a
replay); `TakeCutoff` is `time.Now().Add(-staleAfter)` and `Reclaim` the
`UPDATE` that uses it; `CreateOrder` is the whole transaction of `Orders`, which
commits, refuses, or commits without the client knowing; `SaveResponse` is the
`UPDATE` that ends the handler, which may fail without the client knowing;
`Lost` ends an attempt anywhere. `now` is the database's clock and `now + Skew`
the API's. `Tick` lets a handler run for at most `MaxRun` after its claim.
`claimedAt` is a history variable.

Left out: requests without a key or a token, which change nothing. Here the
order transaction is one step; `Server` runs it statement by statement.

### Server

A request is a create, whose variables are those of `Idempotency` (`stage` is its
`pc`, `claim` its `req`) and, between the claim and the save, those of `Orders`;
or a cancel or a payment, which have no middleware. `phase` is what `main` is
doing, `attempt` the ping loop's variable; `abrupt` is a history variable that
tells how earlier shutdowns ended.

| Code | Actions |
|---|---|
| `middleware.Idempotency`, `CheckAndClaim` | `ReceiveCreate` (its INSERT), `Check` (look up, cutoff, take over) |
| `OrderHandler.CreateOrder` | `Refuse`, `BeginTx`, `Execute` with `EndCreate`, `Save` |
| the routes of cancel and pay | `ReceiveOnOrder`, `Execute` |
| `pgxpool` | `Busy`, `Acquire`, `OwnConnection`; `PoolClosed` once `DB.Close` was called |
| `database.New`, `BuildApp` | `Ping`, `GiveUp`, `BuildFails` (any other step of the start-up) |
| `main` | `Signal`, `ShutdownReturns` (drained, or after ten seconds), `CloseReturns`, `ListenerFails`, `Exit` |
| the end of the process | `Die`: PostgreSQL rolls back, or the COMMIT was already under way |
| the next process | `Restart`, on the same tables, some time later |
| the clock | `TimePasses`, `Restart` |

A transaction keeps its connection from BEGIN to its end; any other statement
needs one for its own step. A statement that finds the pool exhausted waits; one
that finds it closed fails. The drain is untimed: `ShutdownReturns` may expire
as long as a request is at work. A SIGKILL is the abrupt end that
`ListenerFails` leads to. Time passes between two processes and while one runs, so
a claim is taken over by the process that made it as well as by the next one. How
long a handler runs after its claim is bounded by `MaxRun`, as in `Idempotency`;
in the run it is 0, so a takeover meets claims whose handlers have ended (refused,
failed, or dead with their process), and the handlers that outlive their claims
are left to the runs of `Idempotency`. `Refinement` is proved for every `MaxRun`.

Left out: catalogue writes (in `Orders`), login (in `Accounts`), exit codes, and
what starts the process again.

### Accounts

A *call* is one HTTP request. `Register` is the validator and the lookup of the
address (whose errors the code ignores); `CreateUser` the hashing and the INSERT
with the constraints of `users`; `Login` reads the row and `ComparePassword`
compares later and signs the token, whose times `NumericDate` cuts to whole
seconds; `Authenticate` presents a token of any age to the middleware `Auth`
(`Valid`). `Tick` is the API's clock. A client may keep a token for ever.

Assumptions: a hash stands for its password, so no two passwords agree in the 72
bytes that bcrypt compares, and a token cannot be forged. Left out: `me`, which
only repeats the token's user, and the limiter, which has its own module.

### RateLimiter

A *client* is a login the server works on; it starts again when it is answered,
so the number of clients is the number of logins at a time. Each Redis command
is one step: `Allow` is the `GET` of `LoginRateLimiter` (`AllowFails` when it
fails and the middleware lets the request pass); `Login` is `UserService.Login`
with the outcomes the limiter tells apart (wrong credentials, right ones, any
other error); `SetNX` and `Incr` are the two commands of `RecordFailure`, `Del`
the one of `Reset`. `CommandDone` and `CommandFails` run them: a command fails
before or after its effect, and is then sent again by the Redis client or given
up by the handler, which answers the login all the same. A counter is `count`
and `ttl`; `Tick` lets time pass and removes the counters that expire, so no
clock has to be bounded. `raced` is a history variable: the addresses whose
counter went away while a `RecordFailure` was between its two commands.

Left out: the users table and passwords, the text of the answers, and a
non-positive `LOGIN_RATE_WINDOW`. Redis is external.

## 3. Runs

Every passing run fires the actions it is about; each property has a mutant
that violates it.

| Run | Bounds | Shows |
|---|---|---|
| `orders_core` | 4 requests, 2 products with stock 2, 3 carts (opposite orders, a product twice, one that empties the shelf), a product that is added, a new price, a product that is deleted, every fault, those of the catalogue writes included | stock conserved; the check of `lockAndPrice` still true at the decrease; totals; order and payment agree; locks ascend; no wait cycle; final states final; the interleaved transactions implement `OrderLedger` |
| `orders_edge` | 3 requests, 2 users, 8 carts (empty, repeated, negative, wider than int32, wrapping in int64, unknown product), catalogue writes with a product that is created and deleted and bodies that are refused, no faults | the same at the edges of validation and of the widths (int32 counts modulo 8, int64 modulo 64); prices current at commit; ordered products stay; answers agree with the tables and are about the caller's order; one successful charge per order |
| `orders_double_charge` | 3 requests, faults | **violation**, see findings |
| `orders_refill` | 3 requests, stock at the end of its range | **violation**, see findings |
| `server` | 3 requests, 1 product with 1 unit, 1 key, pool of 2, `maxAttempts` 3 (two pings), one tick of the clock, at a restart or under a running process, no failing statements | the process implements `Idempotency`; every accepted request ends; a shutdown ends; no response and no charge is lost by an orderly shutdown |
| `accounts` | 4 calls, one address in 2 spellings, 4 passwords (one too short, one too long), expiry 3, second 2, clock up to 5, every fault | racing registrations keep what they were told; one account per address; tokens earned, accepted until the last second of the expiry, and not after it |
| `idempotency_faults` | 3 attempts, 1 key, 2 users, 2 bodies, timeout 2, skew 1, handlers up to 4, clock up to 5, every fault | claims more than timeout - skew apart; replays faithful; answered keys closed |
| `idempotency_live` | 4 attempts, handlers up to exactly the timeout, no faults, no symmetry | one order per key; replays agree; stale claims are freed |
| `idempotency_duplicate` | 2 attempts, faults | **violation**, see findings |
| `idempotency_slow` | 4 attempts, handlers slower than the timeout | **violation**, see findings |
| `rate_limiter` | 2 logins at a time, 2 addresses, limit 2, window 2, 2 failing commands | overshoot bounded; windows fixed; a TTL is lost only by the race; every other block ends |
| `rate_limiter_lockout` | 2 logins, no faults | **violation**, see findings |

Why the bounds are enough to be interesting: a lock cycle needs two
transactions and two products, a third and a fourth request are there to pay or
cancel what the first two created; stock 2 is less than two carts need; the
column widths (`MaxStock` = 3, `MaxAmount` = 31) are within reach of the carts, so
int32 and int64 wrap; two connections are fewer than three requests; one
restart is enough to retry what the first process left behind; the expiry of a token is not a whole number of
seconds; the clock of
`Idempotency` runs long enough for a second takeover; two logins pass a limit of
two together when one failure is left, and a window of two ticks lets a counter
age between two commands. `MaxFaults` bounds the failing Redis commands, without
which a limiter that fails open bounds nothing. Requests, attempts and calls are
interchangeable (the sets of inputs are closed under permutation), hence the
symmetry; the runs with liveness do not use it.

Fairness. `server` assumes one weak fairness: as long as some accepted request's
next step or a step of the shutdown is possible, one of them is taken. Go runs
the handlers, PostgreSQL hands a freed lock to a waiter, the pool hands out a
free connection, and `main` goes on. It does not say which request moves, which
is enough because every request takes finitely many steps. Pings, signals, the
arrival of requests and a failing listener are not fair: nothing forces them.
`idempotency_live` assumes weak fairness of each attempt; its clock is not fair. The runs
of the rate limiter assume that time passes and that the server executes the
logins it has accepted.

A system that has come to its end (all requests answered, or no further process)
stutters explicitly, so a deadlock reported by TLC would be a real one.

## 4. Findings

* **Double charge** (`orders_double_charge`). `Pay` charges the provider inside
  the database transaction. A failure between the charge and the commit rolls
  the record back, and a retry charges again. README: "Retrying a payment never
  double-charges". Without faults it holds, and is proved (`NoDoubleCharge`).
* **Cancel fails on stock** (`orders_refill`). Restoring stock may leave the
  INT range after a PATCH; the comment in `order_handler.go` says it cannot.
* **Duplicate order** (`idempotency_duplicate`). The response is saved after the
  order's commit, outside its transaction, so a committed order may have no saved
  response. In the run the acknowledgement of the COMMIT is lost: the handler
  answers 500 (`order_handler.go:101-103`) and never comes to `SaveResponse`
  (`:116`). A `SaveResponse` that fails, which is only logged, leaves the same row.
  The retry after 30 s takes the claim over and places a second order. README:
  "no duplicate orders on client retries".
* **Replays disagree** (`idempotency_slow`). `UpdateIdempotency` overwrites a
  saved response, so a handler slower than 30 s changes what retries are shown.
* **Lockout** (`rate_limiter_lockout`). A counter that expires, or is deleted by
  another login, between `SET NX` and `INCR` comes back without a TTL and blocks
  its address for good once it reaches the limit. The integration test says that
  a key must have a TTL because the address is locked out for ever otherwise.

## 5. Proofs

All for any sets of requests, users, products, keys and inputs, and any values
of the numeric constants that satisfy the named `ASSUME`s; TLC evaluates these
in every run.

**Orders.** `OrdersProofs!Inv` is the inductive invariant. `TypeOK` is not
inductive, because the range of a stock column is kept by locks and by private
changes, not by the types, and the width of a subtotal by the CHECKs the line
went through. `Inv` therefore says: a transaction's phase fixes its
kind of request, what it has still to write or restore is part of the cart or of
the order's lines, and its own order is not there before the commit (`TxInv`); a
transaction with a private change of a product holds its lock, what it sees is in
the column's range, a locked product is live, and a live one costs at least 1
(`StockInv`); which locks are
held at each statement (`LockInv`); what Pay has seen of the order is still what
the row says, since it holds the row (`PayInv`); the total and the lines written
so far satisfy the CHECK constraints (`LineInv`); and `PaymentAgreement` itself. One lemma
per action shows that it is kept. `OrdersSafety` derives from it the lock order,
the finality of statuses, that no group of transactions waits in a circle (among
the products awaited in such a group, a finite set, there is a greatest one, and
whoever holds it waits for a greater one or for no product), that ordered products stay in the catalogue, and, with
a further invariant on the ledger and the assumption `~Faults`, both payment
theorems. For the answers and the prices it adds `ClientInv`, about what a request
remembers: the price snapshot of an open create is what the rows it locked still
say, an order it has locked is its user's own, and what it was told agrees with
the rows.

**Sums.** A cart has any number of lines, so what `OrdersStock` proves is about
sums over sets of any finite size. The library's induction theorems cannot be
used, because they take a predicate; `SumTheorems` states induction over *sets*
instead (`SetInduction`: a family that has the empty set, and with every set that
set and one more element of S, has the finite set S).
From it follow what a sum is when an element is taken out, added or changed,
bounds, unions, and congruence modulo a word. `WorkInv` then says, of a request in the middle of its transaction:

* `DeltaOK`: its uncommitted stock changes are exactly the lines it has written
  or restored so far, product by product, repeated lines included;
* `CheckOK`: until the commit there is as much of the products it has locked as
  `lockAndPrice` asked for, and while it writes its lines, what is left to write
  fits in what it sees;
* `TotalOK`: its `totalPrice` is, in 64 bits, the cost of the lines whose
  product is priced.

Each is needed by the next statement: without `DeltaOK` a commit says nothing of
the shelf, and without the locks of `Inv` another transaction could make
`CheckOK` false. From `WorkInvariance`: `StockChecked`, for carts whose length times
`MaxStock` fits in 64 bits (`CartFits`, fewer than 2^32 lines: beyond that the
count per product could wrap; the code bounds no cart, memory does);
`StockConserved`, for finitely many requests, by following the sum over open
orders through each of the four kinds of table writes (`TableWriters`);
`TotalsExact`, where the two ways to add up, per product and per line, are shown
congruent modulo the word and equal when the cost fits, and where a stored
quantity is the one asked for: prices are at least 1, so the CHECK on subtotals
lets no negative quantity pass and the CHECK on quantities no 0; lines that are all
positive are each bounded by the stock check of their product (`CommittedLines`),
and int32 changes none of them; and `LedgerRefinement`:
each commit is a step of `OrderLedger` (`PlaceStep`, `CancelStep`, `SettleStep`,
`AdministerStep`), every other step leaves the tables alone. The mapping is the
identity on the three tables. That the shelf has what `Place` takes is the
column's range after the commit; that the prices are current is `ClientInv`; that
a cancelled order's products are live is the foreign key (`ReferencesLive`).
TLC checked `WorkInv` on the instances of `orders_core` and `orders_edge` before
it was proved.

**Server.** Every step of the server is a step of `Orders`, or the rollback that
comes with the end of a process, so the invariant of `Orders` carries over;
`StageInv` adds which stages of the middleware go with which stages of the
transaction. With it every step is one of `Idempotency` or leaves it alone
(`Refinement`), and the theorems of `IdempotencyProofs`, instantiated, hold of the
whole server (`ServerClaims`). `DrainInv` says that a process ends with requests at
work only after a drain expired or a listener failed, and with connections in
use only after a listener failed; from it and `SavedInv` (an order whose handler is through has
its response) follow `LedgerSurvives` and `ResponsesSurvive`, both under
`~Faults`: a failing statement is a finding of its own. The invariant of
`OrdersStock` survives as well (`ServerBooks`): a process that dies with
transactions open is, to the tables, a set of rollbacks and commits. So the whole
server implements `OrderLedger` (`ServerLedger`), conserves stock
(`ServerConserves`), has no wait cycle (`ServerDeadlockFreedom`) and keeps what
`Orders` promises (`ServerPromises`), with faults or without.

**Accounts.** `AccountsProofs!Inv`: rows are never changed once inserted, so the
row a login has read is still the account's when it is compared; a token's
`exp` is at most its expiry after the moment it was issued and less than a second
short of it, and its `iat` is not later than that moment, whatever the length of
a second. The first keeps a token from living too long, the other two from being
refused early.

**Idempotency.** `IdempotencyProofs!Inv` says who may have claimed a key: the
row of a key never changes its user or hash, an attempt told New has both and
its claim is not younger than the row's `created_at`; the cutoff of a takeover
is at most `now + Skew - Stale` and only ages. So a takeover comes late after
every earlier claim (`TakeoverIsLate`), which is `ExclusiveClaims`. For
`NoDuplicateOrders` and `RetriesAgree` the assumptions are `~Faults` and
`MaxRun + Skew <= Stale`: a takeover then finds no handler at work and no order
placed. The two violation runs show that neither assumption can be dropped.

**RateLimiter.** `OvershootBounded` counts: the value of a counter plus its
logins in flight is at most limit - 1 + clients + faults. A login let in finds
the counter below the limit (a missing one is 0, `AbsentInv`) and is a client; a
failure that is recorded moves from in flight into the counter; a command that
fails open or counts twice is a fault. `NoTTLOnlyByRace` needs `MidInv`: a login
about to `INCR` has a counter, unless the race happened. The lemmas `Join`,
`Leave` and `Stay` say how the logins in flight change; any limit, window,
finite number of clients and number of faults is covered.

Only model-checked: liveness (`EveryRequestEnds`, `ShutdownEnds`,
`StaleClaimFreed`, `BlockLifts`), which is out of the prover's reach. Every safety
invariant, action property and refinement of the passing runs is a theorem.

## 6. Plan

Done: the transactional core with its abstract ledger, the middleware, the
process that composes the two with the pool, shutdown and restart, accounts and
tokens, the rate limiter; their runs, and theorems for every safety property.

Left, in order of worth:

1. `NoDuplicateOrders` of the middleware in the whole server: one order per key as
   long as drains complete and listeners live.
2. The limiter in front of `Accounts`' login, so that the bound on failures is a
   bound on guesses per account.

Not modelled: the reads (orders, products, payments, `me`), health, metrics,
tracing, logging, configuration, routing, JSON and JWT encoding. They keep no
state that a modelled operation reads; what the reads return is the committed
tables that the invariants are about. The down migrations and the deployment
files describe states no running process is in.
