# A specification of the ORBI inference gateway

TLA+ models of the gateway under `src/apps/gateway/src/orbi_gateway/` (paths
below are relative to it), the TLC runs that check them on small instances, and
proofs that TLAPS checks for instances of any size. `PROJECT.json` maps each
definition to the lines it models.

## 1. The system

The gateway accepts chat completions over HTTP, queues them in PostgreSQL, lets
workers pull them, and waits a bounded time for the answer. Several gateway
processes may run against one database and one Redis; every handler is an
asyncio task, every request has a database transaction of its own, and each
process runs a maintenance loop.

| Component | Source | State | Operations | Interacts with |
|---|---|---|---|---|
| Request queue | `services/queue.py` | `orbi_requests`, `usage_records` | `claim_next`, `commit_result`, `record_error`, `recover_expired_leases` | worker routes and maintenance loop call it; it calls the budget |
| Budget | `services/budget.py` | counters and periods of `projects`, budget day and month of a request | `reserve`, `reconcile`, `release` | called within the transactions of the chat route and the queue |
| Chat route | `routes/chat.py` | none; writes the request, reads its status | authenticate, look up, reserve, insert, poll | budget, queue (through the table) |
| API-key authentication | `dependencies.py`, `services/api_keys.py` | `api_keys`: revocation, daily counter | `require_api_key`, scopes | rate limiter; its row lock lasts to the end of the route's transaction |
| Rate limiter | `services/rate_limit.py` | one Redis counter per key and minute | `allow_minute` | called by `require_api_key` |
| Worker registry | `routes/internal/workers.py`, `dependencies.py`, `services/worker_tokens.py`, `services/worker_health.py` | `workers`, `worker_enrollment_tokens` | register, heartbeat, renew, authenticate, sweep | administrator revokes; queue operations require an authenticated worker |
| Administration | `routes/admin.py` | creates rows of all tables | create, revoke | all of the above |
| Circuit breaker | `services/circuit_breaker.py` | one Redis hash per worker | `get`, `record_failure`, `record_success` | constructed by `main.py`, called by no route |
| Maintenance loop | `main.py` | none | one transaction per cycle: recovery, then stale sweep | queue, worker health |
| Database sessions | `database.py`, `models/entities.py` | row locks and transactions of PostgreSQL | begin, commit, roll back | every handler and the loop have one session at a time |
| Security middleware | `middleware.py` | per HTTP request: bytes read, whether an answer has begun | count, stop, reject | between the server and FastAPI |
| Read-only routes | `routes/models.py`, `routes/usage.py`, `routes/health.py` | none | list models, report usage | API-key authentication counts their calls |
| Schemas, logging, errors, migrations, scripts | several | none that lasts | | not modelled, see 8 |

What is hard here, in the order of the effort spent on it:

- *Races between transactions.* Claims, results, errors and recovery of one
  request may come in any order, from workers that have been given up. Some
  handlers lock the rows they read (`FOR UPDATE`), some skip locked rows, some
  lock nothing (`require_worker`).
- *Locks taken in different orders.* Chat calls, results and recovery lock rows of
  three tables, each in its own order; PostgreSQL aborts one of a circle.
- *Replies that run ahead of their commit.* The commit is in the exit code of a
  FastAPI dependency, which runs before or after the reply by FastAPI's version.
- *Running totals.* The project's counters are corrected by later transactions,
  across midnight and month ends, with `max(0, ...)` hiding any mistake.
- *Clocks* read before a wait and used after it.
- *Crashes* between two commands to Redis, or between authentication and commit.
- *Liveness* with workers and clients that may fall silent at any moment.

`PROJECT.json` lists the hazards one by one, each at its line, with the
properties that would notice it going wrong.

What makes each component correct:

- queue: at most one answer per request, from the worker it is assigned to;
  every delivery counted and bounded; nothing settled is reopened; every
  accepted request settles.
- budget: each counter is exactly what is reserved and used in its period;
  limits are hard; periods advance only.
- chat and keys: duplicates find the original and get the same result; the
  daily counter loses no call; revocation is final; every call ends.
- registry: enrolment is single-use; rotation never locks out a worker that gets
  its replies; revocation is final; a heartbeat that nothing overtakes stands;
  silent workers go offline.
- rate limiter: no window admits more than its limit, none refuses early, no
  counter is immortal.
- transactions: what one has read stays true until it commits; together they do
  what they would do one at a time; none waits forever.
- middleware: nothing above the limit reaches the application, and a request is
  answered once.
- circuit breaker: opens at its threshold, stays open until cooled down, and is
  never open without a reason.

## 2. Modules

| Module | What it is |
|---|---|
| `TokenUnits` | sums of tokens over sets of requests, as cardinalities (no recursion, so that they can be proved about) |
| `RequestContract` | abstract specification: what a client is promised about one request |
| `RequestQueue` | queue and budget, with the chat route's acceptance transaction |
| `TokenLedger` | abstract specification: reservations, settlements and bills, each at once |
| `RowLocks` | every transaction of the gateway, statement by statement over row locks |
| `ChatGateway` | a chat call from arrival to reply, composed with `RequestContract` in place of the queue; creation of projects, keys and aliases |
| `WorkerRegistry` | enrolment, JWT rotation and revocation, heartbeats, the stale sweep |
| `RateLimit` | `allow_minute`, one step per Redis command |
| `CircuitBreaker` | the circuit breaker, one step per Redis command |
| `SecurityMiddleware` | one HTTP request between the server and the application |
| `MC*` | small instances for TLC |
| `TokenUnitsProofs`, `RequestQueueProofs`, `RowLocksProofs`, `ChatGatewayProofs`, `WorkerRegistryProofs`, `RateLimitProofs`, `CircuitBreakerProofs`, `MiddlewareProofs` | theorems and their proofs |

Composition: `RequestQueue` implements `RequestContract` (checked and proved), and
`ChatGateway` instantiates `RequestContract` over its own variables. So what
`ChatGateway` shows of clients rests on the contract and not on how the queue
keeps it. `RowLocks` implements `TokenLedger` (checked and proved): it is the ground for the
single-step transactions of `RequestQueue`, in which the same budget arithmetic
is then followed across days. `RequestQueue` implements `TokenLedger` too, once
for every day and once for every month (checked and proved): one abstract
specification stands above the budget in both. `WorkerRegistry` and `RequestQueue` meet in the worker routes: a pull,
result or error is authenticated in the first (`Authenticate`, `End`) and takes
effect in the second.

### RequestQueue

Variables are columns, under their own names. Actions: `Accept` (chat route),
`ClaimSelect`/`ClaimCommit`/`ClaimAbort` (`claim_next`), `CommitResult`,
`RecordError`, `Recover` (one cycle), `Tick`.

- *Granularity.* A transaction that writes a row keeps its lock until it commits,
  and PostgreSQL re-evaluates the WHERE clause after a wait, so such a
  transaction is one action. `claim_next` is not: its lock makes other claims
  skip the row, which is visible before the commit. Recovery is one transaction;
  its three UPDATEs compose, the third seeing the first. It waits for a row that
  a claim has locked. Failures between the statements of one transaction are in
  `RowLocks`.
- *Clocks.* One shared clock `now`; a transaction may use a reading up to
  `MaxStall` old. The date of a reservation is always fresh, because
  `BudgetService.reserve` reads it under the project's lock; `created_at` is the
  start of the transaction.
- *Abstractions.* A request's key, model and ceiling (prompt bytes plus
  `max_tokens`) are constants; priority is the same for all, as the chat route
  writes it; model compatibility and required capabilities are one relation
  `Serves`, and a worker that is not `ONLINE` may claim too (the pull route refuses
  it); `STARTING`, `RUNNING` and `STREAMING` are never written and stand
  under `ASSIGNED`; `error_detail` and `completed_at` are left out. A worker may
  report any number of tokens in `Reports` up to the ceiling plus `Overshoot`.
- `deliveries` is a history variable.

### ChatGateway

`pc[c]` is where call `c` stands. Between `Authenticate` and commit or rollback
the call holds its key's row (`Unlocked`), so calls of one key are serialised
while calls of other keys, workers, midnight and revocation attempts interleave.
After an exception the lock stays until the session generator is finalised
(`failing`, then `Rollback`). Everything that can refuse a call for reasons
outside the model (scope, validation, rate limit, token budget) is one nondeterministic
refusal. The administrator creates the project, its keys and the model alias at
any moment, so calls also meet rows that are not there yet. A replay has two
steps, the lookup that finds its result (`Replay`) and the commit that counts it
(`CommitReplay`): by FastAPI's version the reply is sent after the second or
before it, and a crash between them leaves a reply that was not counted. A call of
the models or usage route is authenticated and counted alike (`ReadOnly`, then
`CommitReplay`). The queue's `Answer` waits for the key's lock, because
`commit_result` updates the key's totals.

### RowLocks and TokenLedger

A connection `t` has a transaction `tx[t]`: its kind (`call`, `claim`, `result`,
`error`, `recover`, or one that touches only a key's or a worker's row), the
number of the statement it is in, the rows this statement has still to lock,
what it has written and what it has read. `Targets` lists the rows of each
statement in the order of the code. `Lock` takes one row, or waits for it
(`Wait`), or, for a claim, skips it; after a wait the WHERE clause is evaluated
again on the committed row (`StillMatches`); a row that no longer matches is left
alone but stays locked. Python's new counter is computed
from the row that was read (`NewCount`); `total_tokens` is incremented in SQL.
Writes show at `Commit`. `Rollback` is a failure, a crash, or PostgreSQL's choice
of a deadlock victim. `InCycle(t)` says that `t` is in a circle of waits, of
any length: it waits for a row that another transaction has locked (`Holder`),
and so on back to `t`. Which rows are stale, lapsed or out of retries is a
choice: clocks are `RequestQueue`'s. Daily and monthly counters are one.

`TokenLedger` is what the operator understands: a request is accepted if its
ceiling fits, answered and billed, or given up with others, each at once. In
`RowLocks` a request is answered with one amount, in `RequestQueue` with any
report its ceiling and `Overshoot` allow (`Amounts`). `DayBooks(d)` and
`MonthBooks(m)` of `RequestQueue` are the ledgers of one day and one month: a
request is "unsubmitted" there unless it was reserved in that period, and `used`
is what the rows of the period hold, though the project's row has one counter
for all days and one for all months, and starts it again with each.

### WorkerRegistry

`require_worker` reads the row without a lock and SQLAlchemy later writes the
columns that differ from what was read. So a heartbeat has two steps,
`Authenticate`, which remembers the status and capabilities seen, and
`Heartbeat`, which writes each column unless the report agrees with what was seen
(`Written`). A renewal has more: `Issue` creates the JWT and its flush locks the
row, `Commit` or `RollBack` ends the transaction, and the reply is received or
lost before that or after it. A registration has two: `Register` locks the
enrolment token's row (`TokenFree`), reads the clock and checks the token
(`Usable`); `Enrol` commits the worker and the token's use, or
`AbandonRegistration` leaves both as they were. Revocation and the sweep lock what
they change and are single actions, and wait for a renewal's lock. Tokens expire.
`reported`, `overtaken`, `astray` and `enrolled_with` are history: the last
committed report, the workers whose row changed under their last heartbeat, the
workers that lost track of their token, and the enrolment token used.

### RateLimit and CircuitBreaker

Every Redis command is a step, and a process may die between two. In `RateLimit`
a call may stall up to `MaxStall` between reading the clock and its INCR, at most
one window (the key lives two; a Redis round trip of over a minute could start a
finished window again, and is excluded); the
serialisation by the key's row lock is not used, so the properties do not
depend on it. In `CircuitBreaker` a snapshot is kept from HGETALL to the last
HSET; HSET merges into the hash and recreates an absent one; EXPIRE does nothing
to an absent key. `failed` and `raced` are history. The clock that
`record_failure` writes is read when its HSET takes effect.

### SecurityMiddleware

The server hands over pieces of the body, of any size and whatever
Content-Length said; `Receive` counts them and stops the application with
`RequestBodyTooLarge`. The application is any: it reads, begins its answer,
returns or raises in any order, and may swallow the exception and read on, as
FastAPI's body parsing does in part. `RejectBody` is the except clause;
`Escape` is Starlette's error handler around the whole, which is external.

## 3. Runs

| Run | Instance | Shows |
|---|---|---|
| `QueueSafety` | 2 requests with different models, 2 workers (one serves both models), `max_retries` 2, one day, 8 clock values, stall 1 | types, shape of assignments, deliveries, billing, counters through retries and recovery, lifetimes, claims; `RequestContract` is implemented; every accepted request settles |
| `BudgetRollover` | 3 requests of one project through 2 keys, three days of two, one and three ticks, two-day months, limits 3 and 4 that the ceilings 2, 2, 1 just reach or exceed, reports of 1 and 3 tokens | exact counters, the books of every day and every month are a `TokenLedger` with that period's limit, periods that only advance |
| `OverReport` | workers may report 1 token over the ceiling | *violated:* `HardLimit`, see 6 |
| `Locks` | 2 requests of one key and project, 2 workers, 2 connections, limit 2 that two ceilings of 1 just reach, a report over its ceiling | what is read stays current, `TokenLedger` is implemented, no call passes the limit, the two kinds of deadlock, every transaction ends |
| `ChatCalls` | 3 calls with the same Idempotency-Key, two of them under one key, daily limit 1, 2 days | daily counter, duplicates, replays, revocation, termination of calls |
| `Registry` | 2 workers and 1 enrolment token, 2 requests in progress, 3 JWTs, 2 reports that differ in both columns | single enrolment, rotation, heartbeats, revocation, stale sweep |
| `SuspendRace` | as `Registry` | *violated:* `RevokedSuspended`, see 6 |
| `Body` | limit 2, pieces of 0 to 3 bytes, 4 reads | nothing too large is read, one answer |
| `RateWindows` | 4 calls (symmetric), limit 2, windows of 2 ticks, stalls of up to a window | window limits, no early refusal |
| `RateCrash` | as `RateWindows` | *violated:* `NoImmortalKey`, see 6 |
| `Circuit` | 2 tasks, threshold 2, cooldown 1, clock to 4 | justified, punctual and lasting opening |
| `CircuitRace` | as `Circuit` | *violated:* `NoFailureLost`, see 6 |

Every passing run's property is broken by some plausible change of the code:
`PROJECT.json` "mutants" lists them, and the mutated forms stand beside the
definitions they replace (comments "Mutant: ...").

Why the bounds suffice: the rules concern one request, one key, one project, or
two actors that meet on them. Two requests and two workers give every order of
claim, result, error and recovery, a request that only one worker can take and
one for which both compete; two retries give a first, a middle and a last
attempt. Three requests in three days, the first two in one month, let a reservation be settled
in the same day, the next day, and the next month, before or after another
request has reset the counters; no request is retried there, and what retries,
requeueing and expiry in one recovery cycle do to the counters is in
`QueueSafety`, whose day does not end. Three calls give a duplicate and a call of
another key with the same Idempotency-Key. In `Locks` two connections are enough:
a lost update, a stale read or a WHERE clause overtaken needs a pair of
transactions, and two requests with one key, one project and two workers are what
two of them can want in opposite orders. Longer circles, which need more
connections and the keys or projects of other requests, are what the proofs of
`DeadlockShape` is for. `Body`'s
pieces pass the limit exactly, by one, at once and in parts, and leave a read
after the limit was passed. `MaxTime` and `AcceptUntil` cap the
clock and are chosen so that the last accepted request can still live its whole
life; `MaxJti`, `MaxDay` and `MaxFailures` cap tokens issued, days and failures,
each one above what the properties distinguish. `RateLimit` and `ChatGateway` end when
all calls have been made, so their runs do not check for deadlock.

## 4. Fairness

- `RequestQueue`: the clock runs, the recovery loop repeats with a fresh clock
  reading (`main.py:34-48` survives exceptions and sleeps a fixed interval), and
  an open claim commits or aborts. Nothing obliges a client or a worker.
- `ChatGateway`: a call that has been authenticated keeps running (weak
  fairness of its own steps). Authentication has strong fairness, since row-lock
  waiters are served in turn though other calls take the lock in between. Workers,
  recovery and clients owe nothing.
- `RowLocks`: an open transaction takes its next step unless it waits; a waiter
  gets its lock if the row becomes free again and again (PostgreSQL's lock queues;
  strong fairness); a transaction in a circle of waits is chosen as victim
  (`deadlock_timeout`); a handler whose statement found nothing ends. No
  transaction has to begin, and crashes are never required.
- `WorkerRegistry`: the sweep (strong, for it waits in the lock queues of rows),
  the clock, and the end of a renewal's transaction.
- `RateLimit`, `CircuitBreaker` and `SecurityMiddleware` have safety properties only.

## 5. Proofs

The theorems hold for any sets of requests, workers, keys, projects, calls,
connections and tasks, and for any limits, retries, leases, times to live, stalls
and calendars. What each rests on is the one `ASSUME` of its module, which TLC
also evaluates on every instance: `RowsAssumption`, `TokensAssumption`,
`TimesAssumption` and `CalendarAssumption` of `RequestQueue` (mainly, requests
are finitely many, dates do not go back and ceilings are positive),
`LocksAssumption` (rows of different tables differ), `CallsAssumption` and
`RegistryAssumption` (a call belongs to one key, a key to one project; times to
live are positive), `RateAssumption` (a call stalls for at most a window),
`CircuitAssumption` and `BodyAssumption` (thresholds and limits are positive).
Where there is a `NULL`, they say that it is none of the values it stands beside.

- `TokenUnitsProofs`: a sum is natural, empty over no requests, monotone, and
  additive over disjoint sets. Writing sums as cardinalities of sets of single
  tokens keeps them within reach of the library's theorems, without induction.
- `RequestQueueProofs`, the queue: `TypeCorrect`; then `QueueInv`, the conjunction
  of `TypeOK`, `AssignmentShape`, `DeliveriesCounted`, `LifetimeBounded` and
  `ClaimsSound`, which is inductive although its parts are not: a claim counts a
  delivery correctly because its row is still queued (`ClaimsSound`), and it is
  still queued because recovery waits for its lock. `AssignmentSafe`,
  `DeliveriesSafe`, `LifetimeSafe` and `ClaimsSafe` follow, and
  `QueueImplementsContract` maps each action to a step of `RequestContract` or a
  stutter (`ClaimCommit` to `Deliver`, `CommitResult` to `Answer`, a final error
  and a recovery to `GiveUp`).
- The same module, the budget: `PeriodsOnlyAdvance`, because a reservation's date
  is read under the project's lock; with it every request's budget period is at
  most the project's (`PeriodInv`). `HardLimitSafe`, under the assumption that no
  report exceeds its reservation (`Overshoot = 0`); without it the property is
  false, and `OverrunExplainedSafe` says what is left of it: a counter is above its
  limit by at most the sum of what the period's reports were above their ceilings
  (`Excess`), because a reservation is refused unless it fits with whatever has
  been over-reported, and a settlement adds its own excess at most. `UsageSafe`; and `BudgetSafe`, where `BudgetExact` itself shows that the
  subtraction never goes below zero: what is subtracted is part of the sum that
  the counter is.
- The same module, the books of a period: `PeriodBooksSafe`, that the rows of each
  day and of each month change as one `TokenLedger`. The lemmas speak of any
  columns (`PhaseOn`, `UsedOn`, `BilledOn`), so that one proof serves days and
  months: a step is a reservation, an answer or a release in the books of the
  periods its requests were reserved in, and nothing in the others (`BookReserved`,
  `BookAnswered`, `BookReleased`). That a reservation keeps the limit of the books
  takes both invariants: the counter is what the books of its period say
  (`BudgetExact`), and if the counter is of an earlier period the books of the new
  one are still empty (`PeriodInv`; `ReserveSees`).
- The same module, the end of a request: `RecoverySettled`, that the end of its
  life does not move and one recovery cycle with a later clock reading settles it,
  in whatever state it is by then. It is the safety part of `EventuallySettled`;
  what is left to fairness is that such a cycle takes place.
- `RowLocksProofs`: `LocksInv` says of every open transaction which rows it has
  locked and that what it read of them is still the committed row, since only the
  holder of a lock commits a change; from it `LocksTypeCorrect` and
  `DecisionsStayCurrent`. `BooksInv` adds that the committed counters are the sums
  of what the committed requests are charged, so that `max(0, ...)` never clamps;
  with both, every commit is one step of `TokenLedger` (`LocksImplementLedger`), and
  a call that commits fits within its limit (`NoOversubscriptionSafe`).
- The same module, deadlocks: `OrderInv` says which rows a transaction in a given
  statement can hold, which is the order it takes its locks in, and by it what one
  that waits can hold (`WaiterHolds`). In a circle everyone is waited for by exactly
  one other, connections being finitely many (`OntoOneToOne`), and those members
  that wait for requests' rows would be a circle by themselves (`OntoPart`), which
  leaves out errors and results that have no more than their request. Only a call
  that waits for its project holds a key, and only a result that waits for a key
  holds that project: these two close the circle (`ResultsPair`). What is left are
  recovery cycles, all within one table (`DeadlockShapeSafe`).
- `ChatGatewayProofs`: `LockInv` (the calls of a key hold its lock one at a time,
  and a call that may still commit has a key that is not revoked); on it rest
  `ReplayInv`, in which an idempotency lookup that found nothing stays true until
  the insert (`Fresh`), and `CountInv`, in which the counter a call will write is
  one more than the committed one (`Staged`) and no call counts for a later date
  than its key's row (`Dated`). They give `NoConflictSafe`, `RepliesFaithfulSafe`,
  `DailyExactSafe` and `KeyRevocationFinal`.
- `WorkerRegistryProofs`: for a worker that has lost track of nothing, `Rotation`
  says which tokens agree at each stage of the one renewal it may have open:
  nothing has changed until it is issued; then its reply or its commit is ahead of
  the other. `TokenCurrentSafe` is the case in which none is open.
  `EnrolledOnceSafe` needs that a registration under way holds its token's row and
  found it usable (`Underway`); `RevocationFinalSafe` and `ReportStandsSafe` need
  only the types and the shape of rows.
- `RateLimitProofs`: a time to live ends more than a minute after its window
  (`Outlives`), so a counter is dropped only when no call can count in it any more
  (`Closed`); until then it is the number of calls allowed, up to the limit
  (`Counted`). For the types: a call waits for EXPIRE only on a key that is there,
  has no time to live, and was created by no other (`Keys`). `ImmortalByCrashSafe`
  bounds finding 3 of section 6.
- `CircuitBreakerProofs`: snapshots justify themselves wherever they are, stored,
  in a task's hands, or half written; and as long as no operations have overlapped
  the one in progress is alone with a hash that counts every failure (`Alone`).
- `MiddlewareProofs`: the bytes that reached the application are those counted
  before the limit was passed, and whoever answers knows whether an answer began.

Left to TLC: liveness (`EventuallySettled`, `CallsEnd`, `TransactionsEnd`,
`SilentGoesOffline`), which needs fairness and ENABLED and is out of the prover's
reach. Every other property of a passing run is also a theorem, and every invariant
that is proved was checked by TLC first. Three theorems state what no listed run
checks, `RecoverySettles`, `OverrunExplained` and `ImmortalByCrash`; TLC found them
to hold on the instances of `QueueSafety`, `BudgetRollover` and `RateWindows`.

## 6. Where code and documentation differ

1. `OverReport`: `commit_result` (`services/queue.py:89`) charges whatever a
   worker reports. `services/budget.py:22` speaks of a hard project token limit
   and `routes/chat.py:59` of a conservative upper bound of the prompt's tokens;
   nothing holds a report to that bound. The excess goes no further than the
   reports (`OverrunExplainedSafe`): reservations on top of it are refused.
2. `SuspendRace`: a heartbeat that was authenticated before a revocation commits
   after it and overwrites `SUSPENDED` (`routes/internal/workers.py:91`);
   `docs/api-reference.md:27` says that revocation suspends the worker. It remains
   revoked (`RevocationFinal` holds); its displayed status is wrong. A second
   revocation, once no request of the worker is open, sets it for good: that too is
   part of `RevocationFinal`.
3. `RateCrash`: a process that dies between INCR and EXPIRE
   (`services/rate_limit.py:19`) leaves a key without a time to live, against
   "mandatory TTLs" (line 1) and "without creating immortal Redis keys" (line 9).
   Only a crash does that, and no interleaving of calls (`ImmortalByCrashSafe`).
4. `CircuitRace`: two failures recorded at once count as one
   (`services/circuit_breaker.py:58`), and the circuit stays closed at its
   threshold, against line 57 and `docs/phase-1-verification.md:48`. Where no
   operations overlapped, none is lost (`OpensAtThresholdSafe`).

## 7. Plan

Done: all the modules of 2, their runs, and the proofs of 5. Next:

1. `RequestQueue` and `RowLocks` compared directly, that is, the clocks and
   retry counts of the one in the transactions of the other.
2. `ChatGateway` over `RequestQueue` itself in place of `RequestContract`, with
   the budget's refusal computed and not chosen.

## 8. Not modelled

Hashing, parsing and signing of keys and tokens; request schemas, configuration,
logging, redaction and error rendering; the Idempotency-Key's format; what the
read-only routes return, and the health route, which takes no key; a failure of
the server's own send under the middleware's rejection; migrations and the
bootstrap script, which run outside the service; the construction and
shutdown of the services; connection pools (`RowLocks` has a fixed number of
connections, and a handler that waits for one holds no lock) and the failure of
PostgreSQL or Redis other than as an aborted transaction or command. The KEY
SHARE locks of foreign keys are left out of `RowLocks`: they conflict with FOR
UPDATE only, and add waits only where the waiter has nothing that others need (a
new key that refers to a project) or the holder waits for nothing (a claim that
refers to a worker being revoked).
A registration's reply may, like a renewal's, run ahead of its commit; there the
worker learns of it with its first request, and the model takes the two as one.
Integer widths are left out: an overflow makes PostgreSQL abort the transaction.
