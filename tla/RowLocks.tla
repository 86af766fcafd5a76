------------------------------- MODULE RowLocks -------------------------------
(***************************************************************************)
(* The gateway's transactions statement by statement, over PostgreSQL's    *)
(* row locks (READ COMMITTED).  RequestQueue takes a transaction for one   *)
(* step; here each row is locked in a step of its own, in the order of the *)
(* code, a statement may find its row locked and wait, transactions may    *)
(* wait for each other in a circle, and PostgreSQL then aborts one.        *)
(*                                                                         *)
(* An UPDATE or SELECT FOR UPDATE finds its rows among the committed ones  *)
(* (and its own writes), locks them one after another, and re-evaluates    *)
(* its WHERE clause on a row it had to wait for.  Python computes new      *)
(* counters from the row it read; nobody else sees them before the commit. *)
(* What depends on clocks, leases and retry counts is a choice: any        *)
(* matching row may be one whose lease has lapsed.  Daily and monthly      *)
(* counters are one counter here.                                          *)
(*                                                                         *)
(* Left out: the KEY SHARE locks of foreign keys.  They conflict with FOR  *)
(* UPDATE only, so a claim or a result may wait for revoke_worker, which   *)
(* holds one row and waits for none.                                       *)
(***************************************************************************)
EXTENDS Integers, FiniteSets, TokenUnits

CONSTANTS
  Requests, ApiKeys, Projects, Workers,   \* the rows of the four tables
  Conns,       \* database connections the gateways have between them
  RequestKey,  \* RequestKey[r]: the key that request r is sent with
  KeyProject,  \* KeyProject[k]: the project of API key k
  Ceiling,     \* Ceiling[r]: the tokens r reserves
  Actual,      \* Actual[r]: the tokens a worker reports for r
  Limit,       \* the project's token limit
  NULL

Rows == Requests \cup ApiKeys \cup Projects \cup Workers

Statuses == {"ABSENT", "QUEUED", "ASSIGNED", "COMPLETED", "FAILED_FINAL", "EXPIRED"}

\* What a transaction is about: "call" is the chat route, "recover" the
\* recovery loop, "key" a route that touches only its key's row, "worker"
\* one that touches only its worker's row.
Jobs == [op : {"call", "claim", "result", "error"}, on : Requests]
          \cup [op : {"recover"}, on : {NULL}]
          \cup [op : {"key"}, on : ApiKeys]
          \cup [op : {"worker"}, on : Workers]

Ops == {"none", "call", "claim", "result", "error", "recover", "key", "worker"}

ASSUME LocksAssumption ==
  /\ RequestKey \in [Requests -> ApiKeys] /\ KeyProject \in [ApiKeys -> Projects]
  /\ Ceiling \in [Requests -> Nat \ {0}] /\ Actual \in [Requests -> Nat]
  /\ Limit \in Nat
  /\ IsFiniteSet(Requests) /\ IsFiniteSet(Conns)
  /\ NULL \notin Rows \cup Conns \cup Jobs \cup Statuses \cup Int
  /\ Requests \cap (ApiKeys \cup Projects \cup Workers) = {}
  /\ ApiKeys \cap (Projects \cup Workers) = {} /\ Projects \cap Workers = {}

VARIABLES
  status,   \* orbi_requests.status, committed
  used,     \* the project's token counter, committed
  billed,   \* api_keys.total_tokens, committed
  owner,    \* owner[x]: the transaction that has locked row x, or NULL
  \* each transaction: the statement it is in (0 when it is not open), the
  \* rows that statement has still to lock, the row it waits for, and, not
  \* committed, the statuses it writes and the counters it has read
  tx

vars == <<status, used, billed, owner, tx>>

Idle == [op |-> "none", on |-> NULL, stage |-> 0, todo |-> {}, wait |-> NULL,
         write |-> [r \in Requests |-> NULL], read |-> [p \in Projects |-> NULL]]

Open == {t \in Conns : tx[t].stage > 0}

KeyOf(x) == RequestKey[x.on]

ProjectOf(r) == KeyProject[RequestKey[r]]

\* The status of r that the statements of transaction x see.
Sees(x, r) == IF x.write[r] # NULL THEN x.write[r] ELSE status[r]

Having(x, s) == {r \in Requests : Sees(x, r) = s}

Written(x) == {r \in Requests : x.write[r] # NULL}

-----------------------------------------------------------------------------
(* The statements of each transaction. *)

Statements(x) ==
  CASE x.op = "recover" -> 6
    [] x.op = "result" -> 3
    [] x.op \in {"call", "error"} -> 2
    [] x.op \in {"claim", "key", "worker"} -> 1
    [] x.op = "none" -> 0

\* require_api_key, then reserve.
CallRows(x, n) == IF n = 1 THEN {KeyOf(x)} ELSE {ProjectOf(x.on)}

\* commit_result: the request, reconcile, and the key.
ResultRows(x, n) ==
  CASE n = 1 -> {x.on} \cap Having(x, "ASSIGNED")
    [] n = 2 -> {ProjectOf(x.on)}
    [] n = 3 -> {KeyOf(x)}

\* record_error: the request, and release if it failed for good.
ErrorRows(x, n) ==
  IF n = 1 THEN {x.on} \cap Having(x, "ASSIGNED")
  ELSE {ProjectOf(r) : r \in Having(x, "FAILED_FINAL") \cap Written(x)}

\* Mutant: the reservations of the second UPDATE are released before the third.
ReleasedBetween(x, n) ==
  CASE n \in {1, 2} -> Having(x, "ASSIGNED")
    [] n = 3 -> {ProjectOf(r) : r \in Having(x, "FAILED_FINAL") \cap Written(x)}
    [] n = 4 -> Having(x, "QUEUED")
    [] n = 5 -> {}
    [] n = 6 -> Workers

\* recover_expired_leases' three UPDATEs, the releases of what the second
\* and the third returned, and mark_stale_workers_offline: the rows that
\* each may find, of which any may have lapsed.
RecoverRows(x, n) ==
  CASE n \in {1, 2} -> Having(x, "ASSIGNED")
    [] n = 3 -> Having(x, "QUEUED")
    [] n = 4 -> {ProjectOf(r) : r \in Having(x, "FAILED_FINAL") \cap Written(x)}
    [] n = 5 -> {ProjectOf(r) : r \in Having(x, "EXPIRED") \cap Written(x)}
    [] n = 6 -> Workers

\* The sets of rows that statement n of x may have to lock.
Targets(x, n) ==
  CASE x.op = "call" -> {CallRows(x, n)}
    [] x.op = "claim" -> {{x.on} \cap Having(x, "QUEUED")}
    [] x.op = "result" -> {ResultRows(x, n)}
    [] x.op = "error" -> {ErrorRows(x, n)}
    [] x.op = "recover" /\ n \in {1, 2, 3, 6} -> SUBSET RecoverRows(x, n)
    [] x.op = "recover" /\ n \in {4, 5} -> {RecoverRows(x, n)}
    [] x.op \in {"key", "worker"} -> {{x.on}}

\* The status that x's current statement requires of a request, and the ones
\* it may write.
Expected(x) ==
  IF x.op = "claim" \/ (x.op = "recover" /\ x.stage = 3)
  THEN "QUEUED" ELSE "ASSIGNED"

Outcomes(x) ==
  CASE x.op = "claim" -> {"ASSIGNED"}
    [] x.op = "result" -> {"COMPLETED"}
    [] x.op = "error" -> {"QUEUED", "FAILED_FINAL"}
    [] x.op = "recover" -> {IF x.stage = 1 THEN "QUEUED"
                            ELSE IF x.stage = 2 THEN "FAILED_FINAL" ELSE "EXPIRED"}

-----------------------------------------------------------------------------
Init ==
  /\ status = [r \in Requests |-> "ABSENT"]
  /\ used = [p \in Projects |-> 0]
  /\ billed = [k \in ApiKeys |-> 0]
  /\ owner = [x \in Rows |-> NULL]
  /\ tx = [t \in Conns |-> Idle]

\* A transaction begins, with its first statement.
Begin(t, job) ==
  /\ tx[t] = Idle
  /\ LET x == [Idle EXCEPT !.op = job.op, !.on = job.on] IN
     \E S \in Targets(x, 1) :
       tx' = [tx EXCEPT ![t] = [x EXCEPT !.stage = 1, !.todo = S]]
  /\ UNCHANGED <<status, used, billed, owner>>

\* x has nothing more to do: the chat call finds its request's row there or
\* the limit reached, the result or error matched no row, or the claim finds
\* its row locked (SKIP LOCKED) or taken.
Refused(x) ==
  CASE x.op = "call" ->
         /\ x.todo = {}
         /\ \/ x.stage = 1 /\ status[x.on] # "ABSENT"
            \/ x.stage = 2 /\ x.read[ProjectOf(x.on)] + Ceiling[x.on] > Limit
    [] x.op = "claim" -> IF x.todo = {} THEN Written(x) = {} ELSE owner[x.on] # NULL
    [] x.op \in {"result", "error"} -> x.todo = {} /\ Written(x) = {}
    [] OTHER -> FALSE

\* The next statement.  A chat call that has found no row for its request
\* goes on to insert one.
Statement(t) ==
  /\ t \in Open /\ tx[t].stage < Statements(tx[t]) /\ tx[t].todo = {}
  /\ ~Refused(tx[t])
  /\ \E S \in Targets(tx[t], tx[t].stage + 1) :
       tx' = [tx EXCEPT ![t].stage = @ + 1, ![t].todo = S,
                        ![t].write = IF tx[t].op = "call"
                                     THEN [@ EXCEPT ![tx[t].on] = "QUEUED"] ELSE @]
  /\ UNCHANGED <<status, used, billed, owner>>

\* A row that is locked is waited for; a claim skips it.
Wait(t, x) ==
  /\ x \in tx[t].todo /\ tx[t].wait = NULL
  /\ owner[x] \notin {NULL, t} /\ tx[t].op # "claim"
  /\ tx' = [tx EXCEPT ![t].wait = x]
  /\ UNCHANGED <<status, used, billed, owner>>

\* Mutant: the row is changed as it was found before the wait.
MatchedOnce(x, r) == TRUE

\* Once locked, the row is tested again.
StillMatches(x, r) == Sees(x, r) = Expected(x)

\* Mutant: reserve and reconcile read the project without FOR UPDATE.
ProjectsUnlocked(t, x) == IF x \in Projects THEN owner ELSE [owner EXCEPT ![x] = t]

\* Mutant: nor does require_api_key lock the key.
SelectsUnlocked(t, x) ==
  IF x \in Projects \cup ApiKeys THEN owner ELSE [owner EXCEPT ![x] = t]

Taken(t, x) == [owner EXCEPT ![x] = t]

\* t locks row x: it writes the request's status, or reads the counter.  A
\* request that no longer matches is not written, but stays locked until the
\* transaction ends.
Lock(t, x) ==
  /\ x \in tx[t].todo /\ tx[t].wait \in {NULL, x}
  /\ owner[x] \in {NULL, t}
  /\ owner' = Taken(t, x)
  /\ \/ /\ x \in Requests /\ StillMatches(tx[t], x)
        /\ \E s \in Outcomes(tx[t]) :
             tx' = [tx EXCEPT ![t].todo = @ \ {x}, ![t].wait = NULL,
                              ![t].write[x] = s]
     \/ /\ x \in Projects
        /\ tx' = [tx EXCEPT ![t].todo = @ \ {x}, ![t].wait = NULL,
                            ![t].read[x] = used[x]]
     \/ /\ x \in ApiKeys \cup Workers \/ (x \in Requests /\ ~StillMatches(tx[t], x))
        /\ tx' = [tx EXCEPT ![t].todo = @ \ {x}, ![t].wait = NULL]
  /\ UNCHANGED <<status, used, billed>>

\* What a request with status s holds of its project's tokens.
Charge(r, s) ==
  CASE s \in {"QUEUED", "ASSIGNED"} -> Ceiling[r]
    [] s = "COMPLETED" -> Actual[r]
    [] s \in {"ABSENT", "FAILED_FINAL", "EXPIRED"} -> 0

NotNegative(n) == IF n < 0 THEN 0 ELSE n

\* The counter of p that t writes: what it read, with the reservations of
\* its requests replaced (the clamps of several rows are one, as in
\* RequestQueue).
NewCount(t, p) ==
  LET mine == {r \in Written(tx[t]) : ProjectOf(r) = p} IN
  NotNegative(tx[t].read[p]
                + Tokens(mine, [r \in mine |-> Charge(r, tx[t].write[r])])
                - Tokens(mine, [r \in mine |-> Charge(r, status[r])]))

\* Mutant: a session that is dropped keeps its locks.
LocksKept(t) == owner

Released(t) == [x \in Rows |-> IF owner[x] = t THEN NULL ELSE owner[x]]

\* The commit: all writes take effect and all locks go.  The key's total is
\* incremented in SQL, so it was not read before.
Commit(t) ==
  /\ t \in Open /\ tx[t].stage = Statements(tx[t]) /\ tx[t].todo = {}
  /\ ~Refused(tx[t])
  /\ status' = [r \in Requests |-> Sees(tx[t], r)]
  /\ used' = [p \in Projects |-> IF tx[t].read[p] = NULL THEN used[p] ELSE NewCount(t, p)]
  /\ billed' = IF tx[t].op = "result" THEN [billed EXCEPT ![KeyOf(tx[t])] = @ + Actual[tx[t].on]]
               ELSE billed
  /\ owner' = Released(t)
  /\ tx' = [tx EXCEPT ![t] = Idle]

\* Mutant: the session is dropped without a rollback, and its connection goes
\* back to the pool with the transaction still open in the database.
NotRolledBack(t) ==
  /\ t \in Open
  /\ tx' = [tx EXCEPT ![t] = Idle]
  /\ UNCHANGED <<status, used, billed, owner>>

\* t ends and leaves no trace: its handler gave up, its gateway crashed, or
\* PostgreSQL chose it to break a deadlock.
Rollback(t) ==
  /\ t \in Open
  /\ owner' = Released(t)
  /\ tx' = [tx EXCEPT ![t] = Idle]
  /\ UNCHANGED <<status, used, billed>>

Next ==
  \E t \in Conns :
    \/ \E job \in Jobs : Begin(t, job)
    \/ Statement(t) \/ Commit(t) \/ Rollback(t)
    \/ \E x \in tx[t].todo : Wait(t, x) \/ Lock(t, x)

Spec == Init /\ [][Next]_vars

-----------------------------------------------------------------------------
(* Waiting in a circle. *)

Waiting == {t \in Conns : tx[t].wait # NULL}

Holder(t) == owner[tx[t].wait]

\* t waits for a transaction that waits ... for t.
InCycle(t) ==
  \E S \in SUBSET Waiting : t \in S /\ S = {Holder(u) : u \in S}

\* PostgreSQL's deadlock detector finds t in a cycle.
Detected(t) == InCycle(t)

\* An open transaction goes on unless it has to wait for a lock, a refused
\* one ends, the waiters of a row get it in turn, and a deadlock is broken.
\* Crashes and new transactions may or may not come.
Fairness ==
  \A t \in Conns :
    /\ WF_vars(\/ Statement(t) \/ Commit(t)
               \/ (Refused(tx[t]) \/ Detected(t)) /\ Rollback(t)
               \/ \E x \in tx[t].todo : Wait(t, x))
    /\ SF_vars(\E x \in tx[t].todo : Lock(t, x))

FairSpec == Spec /\ Fairness

-----------------------------------------------------------------------------
(* Properties. *)

\* Every variable has its type, and only open transactions hold locks.
TypeOK ==
  /\ status \in [Requests -> Statuses]
  /\ used \in [Projects -> Nat] /\ billed \in [ApiKeys -> Nat]
  /\ owner \in [Rows -> Open \cup {NULL}]
  /\ tx \in [Conns ->
       [op : Ops, on : Rows \cup {NULL},
        stage : 0..6, todo : SUBSET Rows, wait : Rows \cup {NULL},
        write : [Requests -> Statuses \cup {NULL}],
        read : [Projects -> Nat \cup {NULL}]]]

\* Whatever a transaction has read or decided is still so when it commits:
\* the counter it read is the committed one, and the request it found
\* assigned (or queued, or absent) still is, because it holds the locks
\* (budget.py:42-44, 77-79; queue.py:61-67, 132-143, 169-206).
DecisionsCurrent ==
  \A t \in Open :
    /\ \A p \in Projects :
         tx[t].read[p] # NULL => owner[p] = t /\ tx[t].read[p] = used[p]
    /\ \A r \in Written(tx[t]) :
         IF tx[t].op = "call" THEN owner[RequestKey[r]] = t /\ status[r] = "ABSENT"
         ELSE owner[r] = t /\ status[r] \in {"QUEUED", "ASSIGNED"}

PhaseOf(s) ==
  CASE s = "ABSENT" -> "unsubmitted"
    [] s \in {"QUEUED", "ASSIGNED"} -> "pending"
    [] s = "COMPLETED" -> "answered"
    [] s \in {"FAILED_FINAL", "EXPIRED"} -> "failed"

Ledger == INSTANCE TokenLedger WITH
  phase <- [r \in Requests |-> PhaseOf(status[r])],
  Amounts <- [r \in Requests |-> {Actual[r]}]

\* The statements of concurrent transactions together do what TokenLedger
\* does at once: no reservation passes the limit on a counter that others
\* have changed, none is lost, returned twice or billed twice
\* (budget.py:36, "Serialize project reservations so concurrent requests
\* cannot oversubscribe a budget").
ImplementsLedger == Ledger!Spec

\* The requests of project p, and what each holds of its tokens.
OfProject(p) == {r \in Requests : ProjectOf(r) = p}

Charges == [r \in Requests |-> Charge(r, status[r])]

\* Whatever commits between a call's checks and its own commit, the tokens
\* that its project's requests then hold, added up over the requests and not
\* read from a counter, are within the limit with those of the new request
\* (budget.py:36, "Serialize project reservations so concurrent requests
\* cannot oversubscribe a budget").
NoOversubscription ==
  [][\A r \in Requests :
       status[r] = "ABSENT" /\ status'[r] # "ABSENT" =>
         Tokens(OfProject(ProjectOf(r)), Charges') <= Limit]_vars

\* Whoever waits in a circle, however many wait, it is a chat call and a
\* result of the same key that wait for each other (key before project, and
\* project before key), or a recovery cycle that waits for another one's row
\* of the table whose rows that one is still locking, in no fixed order.
\* Errors, claims and revocations never lose a deadlock
\* (dependencies.py:38-45, budget.py:42-44, queue.py:83-105, 166-206).
DeadlockShape ==
  \A t \in Waiting :
    InCycle(t) =>
      \/ /\ {tx[t].op, tx[Holder(t)].op} = {"call", "result"}
         /\ KeyOf(tx[t]) = KeyOf(tx[Holder(t)])
         /\ Holder(Holder(t)) = t
      \/ /\ tx[t].op = "recover" /\ tx[Holder(t)].op = "recover"
         /\ \E table \in {Requests, Projects, Workers} :
              tx[t].wait \in table /\ tx[Holder(t)].wait \in table

\* No transaction waits forever, in a circle or behind others.
TransactionsEnd == \A t \in Conns : t \in Open ~> t \notin Open
=============================================================================
