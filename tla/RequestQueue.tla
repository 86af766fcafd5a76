----------------------------- MODULE RequestQueue -----------------------------
(***************************************************************************)
(* The PostgreSQL-backed request queue and the budget it keeps: the chat   *)
(* route's acceptance transaction (routes/chat.py), QueueService           *)
(* (services/queue.py) and BudgetService (services/budget.py), run         *)
(* concurrently by any number of gateway processes, workers and recovery   *)
(* loops against one database.                                             *)
(*                                                                         *)
(* Granularity.  A transaction that writes rows holds their locks until it *)
(* commits, and re-evaluates its WHERE clause after waiting for a lock, so *)
(* its writes take effect together, when it commits: such a transaction is *)
(* one action, and one that crashes or rolls back is no action at all.     *)
(* The exception is claim_next, whose row lock other claims see (they skip *)
(* the row) while it is still undecided: it has a step that takes the lock *)
(* and a step that commits or aborts.                                      *)
(*                                                                         *)
(* A request is identified with what its client sent: the API key, the     *)
(* model and the token ceiling are constants of the request.  Every clock  *)
(* read is the shared clock "now", at most MaxStall ticks old when the     *)
(* transaction that read it uses it.                                       *)
(***************************************************************************)
EXTENDS Integers, FiniteSets, TokenUnits

CONSTANTS
  Requests,       \* chat requests that clients may send
  Workers,        \* enrolled workers
  ApiKeys,        \* client API keys
  Projects,       \* projects that own the keys
  Models,         \* models that aliases resolve to
  Results,        \* results a worker may submit
  NULL,           \* SQL NULL
  KeyProject,     \* KeyProject[k]: the project of API key k
  RequestKey,     \* RequestKey[r]: the key that request r is sent with
  RequestModel,   \* RequestModel[r]: what the alias in r resolves to
  Ceiling,        \* Ceiling[r]: prompt bytes plus max_tokens of r
  Serves,         \* Serves[w]: the models worker w is compatible with
  Reports,        \* token counts a worker may report
  Overshoot,      \* by how much a report may exceed the ceiling
  MaxRetries,     \* OrbiRequest.max_retries
  QueueTtl,       \* how long a request may wait in the queue
  WorkerLease,    \* settings.worker_lease_seconds
  DailyLimit,     \* Project.daily_token_limit
  MonthlyLimit,   \* Project.monthly_token_limit
  MaxTime,        \* bound: the clock stops here
  AcceptUntil,    \* bound: clients send nothing after this time
  MaxStall,       \* bound: age of a clock read when it is used
  DayOf,          \* DayOf[t]: the UTC date at time t
  MonthOf         \* MonthOf[d]: the month that date d belongs to

Times == 0..MaxTime
Days == {DayOf[t] : t \in Times}
Months == {MonthOf[d] : d \in Days}
Statuses == {"ABSENT", "QUEUED", "ASSIGNED", "COMPLETED", "FAILED_FINAL", "EXPIRED"}

ASSUME RowsAssumption ==
  /\ KeyProject \in [ApiKeys -> Projects]
  /\ RequestKey \in [Requests -> ApiKeys]
  /\ RequestModel \in [Requests -> Models]
  /\ Serves \in [Workers -> SUBSET Models]
  /\ NULL \notin Workers \cup Results \cup Nat
  /\ IsFiniteSet(Requests)

ASSUME TokensAssumption ==
  /\ Ceiling \in [Requests -> Nat \ {0}]
  /\ Reports \subseteq Nat
  /\ Overshoot \in Nat
  /\ DailyLimit \in Nat /\ MonthlyLimit \in Nat

ASSUME TimesAssumption ==
  /\ MaxRetries \in Nat
  /\ QueueTtl \in Nat \ {0} /\ WorkerLease \in Nat \ {0}
  /\ MaxTime \in Nat /\ AcceptUntil \in Nat /\ MaxStall \in Nat
  /\ AcceptUntil + QueueTtl + WorkerLease <= MaxTime

\* Dates do not go back, and neither do the months they belong to.
ASSUME CalendarAssumption ==
  /\ DayOf \in [Times -> Nat]
  /\ \A t, u \in Times : t <= u => DayOf[t] <= DayOf[u]
  /\ MonthOf \in [Days -> Nat]
  /\ \A d, e \in Days : d <= e => MonthOf[d] <= MonthOf[e]

VARIABLES
  now,                 \* the clock
  \* table orbi_requests
  status,              \* "ABSENT" until the row is inserted
  assigned_to,
  lease_expires,
  retry_count,
  created_at,
  expires_at,
  budget_day,
  budget_month,
  result,
  tokens,              \* input_tokens + output_tokens, 0 while they are NULL
  \* open claim_next transactions: the row locked, the worker, the clock read
  claims,
  \* table projects
  daily_tokens_used,
  monthly_tokens_used,
  daily_usage_date,
  monthly_usage_month,
  \* table api_keys
  total_requests,
  total_tokens,
  \* table usage_records
  usage,
  \* history: how often each request was handed to a worker
  deliveries

insertVars == <<created_at, expires_at, budget_day, budget_month>>
assignVars == <<status, assigned_to, lease_expires, retry_count>>
answerVars == <<result, tokens>>
usedVars   == <<daily_tokens_used, monthly_tokens_used>>
periodVars == <<daily_usage_date, monthly_usage_month>>
billVars   == <<total_requests, total_tokens, usage>>

vars == <<now, insertVars, assignVars, answerVars, claims, usedVars,
          periodVars, billVars, deliveries>>

-----------------------------------------------------------------------------
(* Reading the tables. *)

\* ASSIGNED stands for the four statuses the WHERE clauses list; the other
\* three (STARTING, RUNNING, STREAMING) are never written by this program.
InFlight(r) == status[r] = "ASSIGNED"

\* The request is accepted and not settled: its reservation is held.
Pending(r) == status[r] \in {"QUEUED", "ASSIGNED"}

Completed == {r \in Requests : status[r] = "COMPLETED"}

ProjectOf(r) == KeyProject[RequestKey[r]]

\* Clock reads that a transaction acting now may have made.
Recent == {t \in Times : t <= now /\ now <= t + MaxStall}

Locked(r) == \E c \in claims : c.row = r

-----------------------------------------------------------------------------
(* BudgetService. *)

NotNegative(x) == IF x < 0 THEN 0 ELSE x

\* What a project has used in the period "today", if its row says that it
\* used "used" in "period".
UsedInPeriod(used, period, today) == IF period = today THEN used ELSE 0

\* Mutant: one token over the limit is let through.
WithinLimitOffByOne(used, requested, limit) == used + requested <= limit + 1

WithinLimit(used, requested, limit) == used + requested <= limit

\* Mutant: a settlement is charged to whatever period the project is in.
ChargedToAnyPeriod(S, p, period, current) == {r \in S : ProjectOf(r) = p}

\* The requests of S whose settlement still concerns project p's counter.
ChargedTo(S, p, period, current) ==
  {r \in S : ProjectOf(r) = p /\ period[r] = current[p]}

\* Mutant: each row starts from the committed counter, so that of several
\* rows of one project only the last is subtracted.
ReconciledLastOnly(used, S, period, current, actual) ==
  [p \in Projects |->
     LET rows == ChargedTo(S, p, period, current)
         last == CHOOSE r \in rows : TRUE
     IN  IF rows = {} THEN used[p]
         ELSE NotNegative(used[p] + actual[last] - Ceiling[last])]

\* A counter after the requests of S replaced their reservations by their
\* actual tokens.  The code does it row by row; each row of a release only
\* subtracts, so clamping each difference or their sum is the same.
Reconciled(used, S, period, current, actual) ==
  [p \in Projects |->
     LET rows == ChargedTo(S, p, period, current)
     IN  NotNegative(used[p] + Tokens(rows, actual) - Tokens(rows, Ceiling))]

\* reconcile, for each request of S, with actual[r] tokens.
Reconcile(S, actual) ==
  /\ daily_tokens_used' =
       Reconciled(daily_tokens_used, S, budget_day, daily_usage_date, actual)
  /\ monthly_tokens_used' =
       Reconciled(monthly_tokens_used, S, budget_month, monthly_usage_month, actual)
  /\ UNCHANGED periodVars

Release(S) == Reconcile(S, [r \in Requests |-> 0])

\* reserve: n tokens of project p on the date "today".
Reserve(p, n, today) ==
  LET month   == MonthOf[today]
      daily   == UsedInPeriod(daily_tokens_used[p], daily_usage_date[p], today)
      monthly == UsedInPeriod(monthly_tokens_used[p], monthly_usage_month[p], month)
  IN  /\ WithinLimit(daily, n, DailyLimit)
      /\ WithinLimit(monthly, n, MonthlyLimit)
      /\ daily_tokens_used' = [daily_tokens_used EXCEPT ![p] = daily + n]
      /\ monthly_tokens_used' = [monthly_tokens_used EXCEPT ![p] = monthly + n]
      /\ daily_usage_date' = [daily_usage_date EXCEPT ![p] = today]
      /\ monthly_usage_month' = [monthly_usage_month EXCEPT ![p] = month]

-----------------------------------------------------------------------------
Init ==
  /\ now = 0
  /\ status = [r \in Requests |-> "ABSENT"]
  /\ assigned_to = [r \in Requests |-> NULL]
  /\ lease_expires = [r \in Requests |-> NULL]
  /\ retry_count = [r \in Requests |-> 0]
  /\ created_at = [r \in Requests |-> 0]
  /\ expires_at = [r \in Requests |-> 0]
  /\ budget_day = [r \in Requests |-> DayOf[0]]
  /\ budget_month = [r \in Requests |-> MonthOf[DayOf[0]]]
  /\ result = [r \in Requests |-> NULL]
  /\ tokens = [r \in Requests |-> 0]
  /\ claims = {}
  /\ daily_tokens_used = [p \in Projects |-> 0]
  /\ monthly_tokens_used = [p \in Projects |-> 0]
  /\ daily_usage_date = [p \in Projects |-> DayOf[0]]
  /\ monthly_usage_month = [p \in Projects |-> MonthOf[DayOf[0]]]
  /\ total_requests = [k \in ApiKeys |-> 0]
  /\ total_tokens = [k \in ApiKeys |-> 0]
  /\ usage = {}
  /\ deliveries = [r \in Requests |-> 0]

\* Mutant: the date is read before the wait for the project's row lock.
TodayBeforeLock(started) == DayOf[started]

\* The budget day of a reservation whose transaction began at "started":
\* reserve reads the clock once it holds the project's row lock, which it
\* keeps until the commit.
Today(started) == DayOf[now]

\* The chat route's acceptance transaction, committed: tokens reserved and
\* the row inserted.  created_at defaults to the start of the transaction.
Accept(r, started) ==
  LET today == Today(started) IN
  /\ status[r] = "ABSENT"
  /\ now <= AcceptUntil
  /\ Reserve(ProjectOf(r), Ceiling[r], today)
  /\ status' = [status EXCEPT ![r] = "QUEUED"]
  /\ created_at' = [created_at EXCEPT ![r] = started]
  /\ expires_at' = [expires_at EXCEPT ![r] = now + QueueTtl]
  /\ budget_day' = [budget_day EXCEPT ![r] = today]
  /\ budget_month' = [budget_month EXCEPT ![r] = MonthOf[today]]
  /\ UNCHANGED <<now, assigned_to, lease_expires, retry_count, answerVars,
                 claims, billVars, deliveries>>

\* Mutant: a request past its queue TTL is still handed out.
EligibleAfterTtl(r, w, t) ==
  status[r] = "QUEUED" /\ RequestModel[r] \in Serves[w]

\* claim_next's WHERE clause, for worker w and the clock read t.
Eligible(r, w, t) ==
  /\ status[r] = "QUEUED"
  /\ expires_at[r] > t
  /\ RequestModel[r] \in Serves[w]

\* Mutant: the SELECT takes no row lock and skips none.
ClaimableUnlocked(w, t) == {r \in Requests : Eligible(r, w, t)}

\* What FOR UPDATE SKIP LOCKED leaves of it.
Claimable(w, t) == {r \in Requests : Eligible(r, w, t) /\ ~Locked(r)}

\* claim_next's SELECT locks the oldest claimable row (every request has the
\* same priority).  Any worker may call it: that the pull route asks for an
\* ONLINE one is left out, which adds behaviours and takes none away.
ClaimSelect(w, t) ==
  /\ \E r \in Claimable(w, t) :
       /\ \A q \in Claimable(w, t) : created_at[r] <= created_at[q]
       /\ claims' = claims \cup {[row |-> r, worker |-> w, at |-> t]}
  /\ UNCHANGED <<now, insertVars, assignVars, answerVars, usedVars,
                 periodVars, billVars, deliveries>>

\* The claim's UPDATE and COMMIT.
ClaimCommit(c) ==
  /\ c.at \in Recent
  /\ status' = [status EXCEPT ![c.row] = "ASSIGNED"]
  /\ assigned_to' = [assigned_to EXCEPT ![c.row] = c.worker]
  /\ lease_expires' = [lease_expires EXCEPT ![c.row] = c.at + WorkerLease]
  /\ claims' = claims \ {c}
  /\ deliveries' = [deliveries EXCEPT ![c.row] = @ + 1]
  /\ UNCHANGED <<now, insertVars, retry_count, answerVars, usedVars,
                 periodVars, billVars>>

\* The gateway crashes or the connection drops before the COMMIT.
ClaimAbort(c) ==
  /\ claims' = claims \ {c}
  /\ UNCHANGED <<now, insertVars, assignVars, answerVars, usedVars,
                 periodVars, billVars, deliveries>>

\* Mutant: any worker may answer.
AcceptsFromAnyone(r, w) == result[r] = NULL /\ InFlight(r)

\* The WHERE clause of commit_result and record_error.
AcceptsFrom(r, w) ==
  /\ assigned_to[r] = w
  /\ result[r] = NULL
  /\ InFlight(r)

\* commit_result: worker w's result v for r, reported to have used n tokens.
CommitResult(r, w, v, n) ==
  LET k == RequestKey[r] IN
  /\ AcceptsFrom(r, w)
  /\ n <= Ceiling[r] + Overshoot
  /\ \A u \in usage : u.request # r      \* usage_records.request_id is UNIQUE
  /\ status' = [status EXCEPT ![r] = "COMPLETED"]
  /\ lease_expires' = [lease_expires EXCEPT ![r] = NULL]
  /\ result' = [result EXCEPT ![r] = v]
  /\ tokens' = [tokens EXCEPT ![r] = n]
  /\ Reconcile({r}, [tokens EXCEPT ![r] = n])
  /\ total_requests' = [total_requests EXCEPT ![k] = @ + 1]
  /\ total_tokens' = [total_tokens EXCEPT ![k] = @ + n]
  /\ usage' = usage \cup {[request |-> r, worker |-> w, tokens |-> n]}
  /\ UNCHANGED <<now, insertVars, assigned_to, retry_count, claims, deliveries>>

\* Mutant: a requeued request keeps its worker.
UnassignedKeepsWorker(S) == assigned_to

\* The assigned_to column once the requests of S are taken from their workers.
Unassigned(S) == [r \in Requests |-> IF r \in S THEN NULL ELSE assigned_to[r]]

Unleased(S) == [r \in Requests |-> IF r \in S THEN NULL ELSE lease_expires[r]]

\* Mutant: the retry limit is reached one retry too late.
MayRetryOnceMore(r) == retry_count[r] <= MaxRetries

MayRetry(r) == retry_count[r] < MaxRetries

\* record_error: worker w gives r back.
RecordError(r, w, retryable) ==
  /\ AcceptsFrom(r, w)
  /\ assigned_to' = Unassigned({r})
  /\ lease_expires' = Unleased({r})
  /\ \/ /\ retryable /\ MayRetry(r)
        /\ retry_count' = [retry_count EXCEPT ![r] = @ + 1]
        /\ status' = [status EXCEPT ![r] = "QUEUED"]
        /\ UNCHANGED <<usedVars, periodVars>>
     \/ /\ ~(retryable /\ MayRetry(r))
        /\ status' = [status EXCEPT ![r] = "FAILED_FINAL"]
        /\ Release({r})
        /\ UNCHANGED retry_count
  /\ UNCHANGED <<now, insertVars, answerVars, claims, billVars, deliveries>>

\* Requests whose lease ran out before t.
Lapsed(t) ==
  {r \in Requests : InFlight(r) /\ lease_expires[r] < t /\ result[r] = NULL}

\* recover_expired_leases' first statement ...
Requeueable(t) == {r \in Lapsed(t) : MayRetry(r)}

\* Mutant: nothing fails a request whose retries are used up.
ExhaustedNever(t) == {}

\* ... its second statement ...
Exhausted(t) == {r \in Lapsed(t) : ~MayRetry(r)}

\* ... and its third, which sees what the first one wrote.
Expirable(t) ==
  {r \in Requests : /\ status[r] = "QUEUED" \/ r \in Requeueable(t)
                    /\ expires_at[r] < t
                    /\ result[r] = NULL}

\* One cycle of the recovery loop, with the clock read t.  An UPDATE waits
\* for a row that a claim has locked.
Recover(t) ==
  /\ \A r \in Expirable(t) : ~Locked(r)
  /\ status' = [r \in Requests |->
       IF r \in Expirable(t) THEN "EXPIRED"
       ELSE IF r \in Exhausted(t) THEN "FAILED_FINAL"
       ELSE IF r \in Requeueable(t) THEN "QUEUED"
       ELSE status[r]]
  /\ assigned_to' = Unassigned(Requeueable(t) \cup Exhausted(t))
  /\ lease_expires' = Unleased(Requeueable(t) \cup Exhausted(t))
  /\ retry_count' = [r \in Requests |->
       IF r \in Requeueable(t) THEN retry_count[r] + 1 ELSE retry_count[r]]
  /\ Release(Exhausted(t) \cup Expirable(t))
  /\ UNCHANGED <<now, insertVars, answerVars, claims, billVars, deliveries>>

\* Time passes.
Tick ==
  /\ now < MaxTime
  /\ now' = now + 1
  /\ UNCHANGED <<insertVars, assignVars, answerVars, claims, usedVars,
                 periodVars, billVars, deliveries>>

Next ==
  \/ \E r \in Requests, started \in Recent : Accept(r, started)
  \/ \E w \in Workers, t \in Recent : ClaimSelect(w, t)
  \/ \E c \in claims : ClaimCommit(c) \/ ClaimAbort(c)
  \/ \E r \in Requests, w \in Workers, v \in Results, n \in Reports :
       CommitResult(r, w, v, n)
  \/ \E r \in Requests, w \in Workers, retryable \in BOOLEAN :
       RecordError(r, w, retryable)
  \/ \E t \in Recent : Recover(t)
  \/ Tick

Spec == Init /\ [][Next]_vars

\* The clock runs, the recovery loop of some gateway keeps running with a
\* fresh clock read, and no transaction stays open forever.  Nothing obliges
\* a client or a worker to do anything.
Fairness ==
  /\ WF_vars(Tick)
  /\ WF_vars(Recover(now))
  /\ \A r \in Requests :
       WF_vars(\E c \in claims : c.row = r /\ (ClaimCommit(c) \/ ClaimAbort(c)))

FairSpec == Spec /\ Fairness

-----------------------------------------------------------------------------
(* Properties. *)

Rows(T) == [Requests -> T]

\* Every column has its type, no counter is negative and no request has been
\* retried more than max_retries times.
TypeOK ==
  /\ now \in Times
  /\ status \in Rows(Statuses)
  /\ assigned_to \in Rows(Workers \cup {NULL})
  /\ lease_expires \in Rows(Nat \cup {NULL})
  /\ retry_count \in Rows(0..MaxRetries)
  /\ created_at \in Rows(Times) /\ expires_at \in Rows(Nat)
  /\ budget_day \in Rows(Days) /\ budget_month \in Rows(Months)
  /\ result \in Rows(Results \cup {NULL}) /\ tokens \in Rows(Nat)
  /\ claims \subseteq [row : Requests, worker : Workers, at : Times]
  /\ daily_tokens_used \in [Projects -> Nat]
  /\ monthly_tokens_used \in [Projects -> Nat]
  /\ daily_usage_date \in [Projects -> Days]
  /\ monthly_usage_month \in [Projects -> Months]
  /\ total_requests \in [ApiKeys -> Nat] /\ total_tokens \in [ApiKeys -> Nat]
  /\ usage \subseteq [request : Requests, worker : Workers, tokens : Nat]
  /\ deliveries \in Rows(Nat)

\* A request has a lease exactly while a worker is working on it, a worker
\* exactly then and once it is completed, and a result exactly when it is
\* completed: recovery, errors and results, in any order, leave no request
\* that recovery cannot see (no lease) or that a worker of the past can
\* still answer (queue.py:61-75, 133-155, 169-202).
AssignmentShape ==
  \A r \in Requests :
    /\ lease_expires[r] # NULL <=> InFlight(r)
    /\ assigned_to[r] # NULL <=> InFlight(r) \/ r \in Completed
    /\ result[r] # NULL <=> r \in Completed

\* Every handing of a request to a worker is accounted for: it was retried,
\* or it is the delivery being worked on, answered or finally failed.  A
\* request claimed twice (queue.py:37) or requeued without counting
\* (queue.py:150-152, 176-181) breaks it; with TypeOK it bounds the
\* deliveries by max_retries + 1.
DeliveriesCounted ==
  \A r \in Requests :
    deliveries[r] = retry_count[r] +
      (IF status[r] \in {"ASSIGNED", "COMPLETED", "FAILED_FINAL"} THEN 1 ELSE 0)

\* The requests whose tokens count in the period "current" of project p.
ChargedNow(p, period, current) ==
  {r \in Requests : /\ Pending(r) \/ r \in Completed
                    /\ ProjectOf(r) = p
                    /\ period[r] = current[p]}

\* What request r is charged: its reservation until its tokens are known.
Charge == [r \in Requests |-> IF Pending(r) THEN Ceiling[r] ELSE tokens[r]]

\* A project's counters are exactly the tokens of the current day and month:
\* what pending requests reserved plus what completed ones used.  Nothing
\* is released twice or never, charged to another period across midnight,
\* or hidden by the clamp at zero (budget.py:47-52, 78-84), not even when one
\* recovery cycle requeues, fails and expires rows of one project
\* (queue.py:168-230).
BudgetExact ==
  \A p \in Projects :
    /\ daily_tokens_used[p] =
         Tokens(ChargedNow(p, budget_day, daily_usage_date), Charge)
    /\ monthly_tokens_used[p] =
         Tokens(ChargedNow(p, budget_month, monthly_usage_month), Charge)

\* The project limits are hard: reserved and used tokens together never
\* exceed them (budget.py:22, 26, 36: "hard project token limit").
HardLimit ==
  \A p \in Projects :
    /\ daily_tokens_used[p] <= DailyLimit
    /\ monthly_tokens_used[p] <= MonthlyLimit

\* What the report of a completed request added to its reservation.
Excess ==
  [r \in Requests |-> IF r \in Completed THEN NotNegative(tokens[r] - Ceiling[r]) ELSE 0]

\* Whatever workers report, reservations stay within the limits: a project is
\* above one by no more than the reports of the requests answered in that
\* day or month were above their ceilings (budget.py:26-33, 36; queue.py:89).
OverrunExplained ==
  \A p \in Projects :
    /\ daily_tokens_used[p] <=
         DailyLimit + Tokens(ChargedNow(p, budget_day, daily_usage_date), Excess)
    /\ monthly_tokens_used[p] <=
         MonthlyLimit + Tokens(ChargedNow(p, budget_month, monthly_usage_month), Excess)

\* Completed requests, and no others, are billed, once, to their key and to
\* the worker that holds them; the key's totals are the sums of the usage
\* records (queue.py:98-118).
UsageExact ==
  /\ usage = {[request |-> r, worker |-> assigned_to[r], tokens |-> tokens[r]] :
                r \in Completed}
  /\ \A k \in ApiKeys :
       LET mine == {r \in Completed : RequestKey[r] = k}
       IN  /\ total_requests[k] = Cardinality(mine)
           /\ total_tokens[k] = Tokens(mine, tokens)

\* No claim, however slow or repeated, keeps a request with a worker beyond
\* one lease after its queue TTL; so the end of a request's life is known
\* when it is accepted (queue.py:29, 45; chat.py:79).
LifetimeBounded ==
  \A r \in Requests :
    InFlight(r) => lease_expires[r] < expires_at[r] + WorkerLease

\* The end of a request's life does not move, and one recovery cycle that
\* reads the clock after it settles the request, wherever it then is: waiting,
\* with a worker, or requeued by that cycle itself (queue.py:165-231).
RecoverySettles ==
  [][\A r \in Requests : status[r] # "ABSENT" =>
       /\ expires_at'[r] = expires_at[r]
       /\ \A t \in Recent :
            Recover(t) /\ expires_at[r] + WorkerLease <= t => ~Pending(r)']_vars

\* A row that an open claim has locked is still waiting, unexpired when the
\* claim read the clock, and locked by no other claim: what claim_next
\* selected is what it assigns (queue.py:25-45).
ClaimsSound ==
  /\ \A c \in claims : /\ status[c.row] = "QUEUED"
                        /\ c.at < expires_at[c.row]
  /\ \A c, d \in claims : c.row = d.row => c = d

\* A project's budget periods never go back, whoever reserves, settles or
\* recovers in which order: a reservation never reopens a finished period
\* and so forgets what the later one used (budget.py:47-52).
PeriodsAdvance ==
  [][\A p \in Projects : /\ daily_usage_date[p] <= daily_usage_date'[p]
                         /\ monthly_usage_month[p] <= monthly_usage_month'[p]]_vars

\* Where each request stands for its client.
PhaseOf(s) ==
  CASE s = "ABSENT" -> "unsubmitted"
    [] s \in {"QUEUED", "ASSIGNED"} -> "pending"
    [] s = "COMPLETED" -> "answered"
    [] s \in {"FAILED_FINAL", "EXPIRED"} -> "failed"

clientPhase == [r \in Requests |-> PhaseOf(status[r])]

\* The queue keeps the promise RequestContract states: at-least-once delivery,
\* at most one accepted answer, and nothing settled ever reopened
\* (docs/phase-1-decisions.md:12, README.md:21).
Contract == INSTANCE RequestContract WITH
  phase <- clientPhase,
  attempts <- deliveries,
  answer <- result,
  billed <- tokens,
  Amounts <- Reports,
  MaxDeliveries <- MaxRetries + 1

ImplementsContract == Contract!Spec

\* The books of the period d, where period[r] is the one that request r was
\* reserved in: where its requests stand, what they hold, what is billed.
PhaseIn(period, d) ==
  [r \in Requests |-> IF period[r] = d THEN PhaseOf(status[r]) ELSE "unsubmitted"]

UsedIn(period, d) ==
  [p \in Projects |->
     Tokens({r \in Requests : (Pending(r) \/ r \in Completed)
                               /\ ProjectOf(r) = p /\ period[r] = d}, Charge)]

BilledIn(period, d) ==
  [k \in ApiKeys |->
     Tokens({r \in Completed : RequestKey[r] = k /\ period[r] = d}, tokens)]

Allowed == [r \in Requests |-> {n \in Reports : n <= Ceiling[r] + Overshoot}]

DayBooks(d) == INSTANCE TokenLedger WITH
  phase <- PhaseIn(budget_day, d), used <- UsedIn(budget_day, d),
  billed <- BilledIn(budget_day, d), Amounts <- Allowed, Limit <- DailyLimit

MonthBooks(m) == INSTANCE TokenLedger WITH
  phase <- PhaseIn(budget_month, m), used <- UsedIn(budget_month, m),
  billed <- BilledIn(budget_month, m), Amounts <- Allowed, Limit <- MonthlyLimit

\* The requests of each day are a ledger of their own, with the daily limit,
\* and those of each month with the monthly one, whenever they are settled
\* and though a project has a single counter for days and one for months
\* (budget.py:26-60, 72-84).
PeriodBooks ==
  /\ \A d \in Days : DayBooks(d)!Init
  /\ \A m \in Months : MonthBooks(m)!Init
  /\ [][\/ UNCHANGED <<status, tokens, budget_day, budget_month>>
        \/ /\ \A d \in Days : UNCHANGED DayBooks(d)!vars \/ DayBooks(d)!Next
           /\ \A m \in Months : UNCHANGED MonthBooks(m)!vars \/ MonthBooks(m)!Next]_vars

\* Every accepted request is settled, whatever its workers and its client do:
\* the recovery loop requeues, fails or expires it in the end, and so its
\* reservation is not held forever (main.py:34-48, queue.py:165-231).
EventuallySettled == \A r \in Requests : Pending(r) ~> ~Pending(r)
=============================================================================
