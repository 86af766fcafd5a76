-------------------------- MODULE RequestQueueProofs --------------------------
(***************************************************************************)
(* Proofs about RequestQueue, for any set of requests, workers, keys and   *)
(* projects, any limits and any calendar.                                  *)
(***************************************************************************)
EXTENDS RequestQueue, TokenUnitsProofs

-----------------------------------------------------------------------------
(* Type correctness. *)

\* A counter adjusted by settled requests is a natural number again.
LEMMA ReconciledType ==
  ASSUME NEW used \in [Projects -> Nat], NEW S \in SUBSET Requests,
         NEW period, NEW current, NEW actual \in [Requests -> Nat]
  PROVE  Reconciled(used, S, period, current, actual) \in [Projects -> Nat]
<1> SUFFICES ASSUME NEW p \in Projects
             PROVE  LET rows == ChargedTo(S, p, period, current)
                    IN  NotNegative(used[p] + Tokens(rows, actual) - Tokens(rows, Ceiling)) \in Nat
  BY DEF Reconciled
<1> DEFINE rows == ChargedTo(S, p, period, current)
<1>1. rows \in SUBSET Requests
  BY DEF ChargedTo
<1>2. IsFiniteSet(rows)
  BY <1>1, RowsAssumption, FS_Subset
<1>3. \A r \in rows : actual[r] \in Nat /\ Ceiling[r] \in Nat
  BY <1>1, TokensAssumption
<1>4. Tokens(rows, actual) \in Nat /\ Tokens(rows, Ceiling) \in Nat
  BY <1>2, <1>3, TokensType
<1> HIDE DEF rows
<1>5. NotNegative(used[p] + Tokens(rows, actual) - Tokens(rows, Ceiling)) \in Nat
  BY <1>4 DEF NotNegative
<1> QED
  BY <1>5 DEF rows

\* So settling requests keeps the budget's columns well typed.
LEMMA ReconcileType ==
  ASSUME TypeOK, NEW S \in SUBSET Requests, NEW actual \in [Requests -> Nat],
         Reconcile(S, actual)
  PROVE  /\ daily_tokens_used' \in [Projects -> Nat]
         /\ monthly_tokens_used' \in [Projects -> Nat]
         /\ daily_usage_date' \in [Projects -> Days]
         /\ monthly_usage_month' \in [Projects -> Months]
<1>1. /\ daily_tokens_used \in [Projects -> Nat]
      /\ monthly_tokens_used \in [Projects -> Nat]
  BY DEF TypeOK
<1>2. daily_tokens_used' \in [Projects -> Nat]
  BY <1>1, ReconciledType DEF Reconcile
<1>3. monthly_tokens_used' \in [Projects -> Nat]
  BY <1>1, ReconciledType DEF Reconcile
<1> QED
  BY <1>2, <1>3 DEF Reconcile, TypeOK, periodVars

\* Releasing reservations does, too.
LEMMA ReleaseType ==
  ASSUME TypeOK, NEW S \in SUBSET Requests, Release(S)
  PROVE  /\ daily_tokens_used' \in [Projects -> Nat]
         /\ monthly_tokens_used' \in [Projects -> Nat]
         /\ daily_usage_date' \in [Projects -> Days]
         /\ monthly_usage_month' \in [Projects -> Months]
<1>1. [r \in Requests |-> 0] \in [Requests -> Nat]
  OBVIOUS
<1> QED
  BY <1>1, ReconcileType DEF Release

\* The initial state is well typed.
LEMMA TypeInit == Init => TypeOK
<1> SUFFICES ASSUME Init
             PROVE  TypeOK
  OBVIOUS
<1>1. 0 \in Times /\ DayOf[0] \in Days /\ MonthOf[DayOf[0]] \in Months
  BY TimesAssumption DEF Times, Days, Months
<1>2. NULL \notin Nat
  BY RowsAssumption
<1> QED
  BY <1>1, <1>2, TimesAssumption DEF Init, TypeOK, Rows, Statuses

\* The step that accepts a request keeps the types.
LEMMA TypeAccept ==
  ASSUME TypeOK, NEW r \in Requests, NEW started \in Recent, Accept(r, started)
  PROVE  TypeOK'
<1> DEFINE p == ProjectOf(r)
           today == DayOf[now]
<1>1. /\ p \in Projects
      /\ Ceiling[r] \in Nat
  BY RowsAssumption, TokensAssumption DEF ProjectOf
<1>2. /\ started \in Times
      /\ today \in Days
      /\ MonthOf[today] \in Months
  BY DEF TypeOK, Recent, Days, Months
<1>3. now + QueueTtl \in Nat
  BY TimesAssumption DEF TypeOK, Times
<1>4. /\ daily_tokens_used' \in [Projects -> Nat]
      /\ monthly_tokens_used' \in [Projects -> Nat]
  BY <1>1 DEF TypeOK, Accept, Reserve, Today, UsedInPeriod
<1>5. /\ daily_usage_date' \in [Projects -> Days]
      /\ monthly_usage_month' \in [Projects -> Months]
  BY <1>1, <1>2 DEF TypeOK, Accept, Reserve, Today
<1>6. /\ status' \in Rows(Statuses)
      /\ created_at' \in Rows(Times) /\ expires_at' \in Rows(Nat)
      /\ budget_day' \in Rows(Days) /\ budget_month' \in Rows(Months)
  BY <1>2, <1>3 DEF TypeOK, Accept, Today, Rows, Statuses
<1> QED
  BY <1>4, <1>5, <1>6 DEF TypeOK, Accept, answerVars, billVars, Rows

\* Every step keeps the types.
LEMMA TypeStep == TypeOK /\ [Next]_vars => TypeOK'
<1> SUFFICES ASSUME TypeOK, [Next]_vars
             PROVE  TypeOK'
  OBVIOUS
<1> USE RowsAssumption
<1>1. ASSUME NEW r \in Requests, NEW started \in Recent, Accept(r, started)
      PROVE  TypeOK'
  BY <1>1, TypeAccept
<1>2. ASSUME NEW w \in Workers, NEW t \in Recent, ClaimSelect(w, t)
      PROVE  TypeOK'
  BY <1>2 DEF TypeOK, ClaimSelect, Claimable, Recent, insertVars, assignVars,
       answerVars, usedVars, periodVars, billVars, Rows
<1>3. ASSUME NEW c \in claims, ClaimCommit(c)
      PROVE  TypeOK'
  <2>1. /\ c.row \in Requests /\ c.worker \in Workers
        /\ c.at + WorkerLease \in Nat
    BY TimesAssumption DEF TypeOK, Times
  <2> QED
    BY <1>3, <2>1 DEF TypeOK, ClaimCommit, insertVars, answerVars, usedVars,
         periodVars, billVars, Rows, Statuses
<1>4. ASSUME NEW c \in claims, ClaimAbort(c)
      PROVE  TypeOK'
  BY <1>4 DEF TypeOK, ClaimAbort, insertVars, assignVars, answerVars, usedVars,
       periodVars, billVars, Rows
<1>5. ASSUME NEW r \in Requests, NEW w \in Workers, NEW v \in Results,
             NEW n \in Reports, CommitResult(r, w, v, n)
      PROVE  TypeOK'
  <2>1. n \in Nat /\ RequestKey[r] \in ApiKeys
    BY TokensAssumption
  <2>2. tokens' \in [Requests -> Nat] /\ tokens' = [tokens EXCEPT ![r] = n]
    BY <1>5, <2>1 DEF TypeOK, CommitResult, Rows
  <2>3. Reconcile({r}, tokens')
    BY <1>5, <2>2 DEF CommitResult
  <2>4. /\ daily_tokens_used' \in [Projects -> Nat]
        /\ monthly_tokens_used' \in [Projects -> Nat]
        /\ daily_usage_date' \in [Projects -> Days]
        /\ monthly_usage_month' \in [Projects -> Months]
    BY <2>2, <2>3, ReconcileType
  <2> QED
    BY <1>5, <2>1, <2>2, <2>4 DEF TypeOK, CommitResult, insertVars, Rows, Statuses
<1>6. ASSUME NEW r \in Requests, NEW w \in Workers, NEW retryable \in BOOLEAN,
             RecordError(r, w, retryable)
      PROVE  TypeOK'
  <2>1. /\ daily_tokens_used' \in [Projects -> Nat]
        /\ monthly_tokens_used' \in [Projects -> Nat]
        /\ daily_usage_date' \in [Projects -> Days]
        /\ monthly_usage_month' \in [Projects -> Months]
    BY <1>6, ReleaseType DEF RecordError, usedVars, periodVars, TypeOK
  <2>2. /\ assigned_to' \in Rows(Workers \cup {NULL})
        /\ lease_expires' \in Rows(Nat \cup {NULL})
    BY <1>6 DEF RecordError, Unassigned, Unleased, TypeOK, Rows
  <2>3. retry_count' \in Rows(0..MaxRetries)
    BY <1>6, TimesAssumption DEF RecordError, MayRetry, TypeOK, Rows
  <2>4. status' \in Rows(Statuses)
    BY <1>6 DEF RecordError, TypeOK, Rows, Statuses
  <2> QED
    BY <1>6, <2>1, <2>2, <2>3, <2>4
    DEF TypeOK, RecordError, insertVars, answerVars, billVars, Rows
<1>7. ASSUME NEW t \in Recent, Recover(t)
      PROVE  TypeOK'
  <2>1. Exhausted(t) \cup Expirable(t) \in SUBSET Requests
    BY DEF Exhausted, Expirable, Lapsed
  <2>2. /\ daily_tokens_used' \in [Projects -> Nat]
        /\ monthly_tokens_used' \in [Projects -> Nat]
        /\ daily_usage_date' \in [Projects -> Days]
        /\ monthly_usage_month' \in [Projects -> Months]
    BY <1>7, <2>1, ReleaseType DEF Recover
  <2>3. /\ assigned_to' \in Rows(Workers \cup {NULL})
        /\ lease_expires' \in Rows(Nat \cup {NULL})
    BY <1>7 DEF Recover, Unassigned, Unleased, TypeOK, Rows
  <2>4. retry_count' \in Rows(0..MaxRetries)
    BY <1>7, TimesAssumption DEF Recover, Requeueable, MayRetry, TypeOK, Rows
  <2>5. status' \in Rows(Statuses)
    BY <1>7 DEF Recover, TypeOK, Rows, Statuses
  <2> QED
    BY <1>7, <2>2, <2>3, <2>4, <2>5
    DEF TypeOK, Recover, insertVars, answerVars, billVars, Rows
<1>8. ASSUME Tick
      PROVE  TypeOK'
  <2>1. now' \in Times
    BY <1>8, TimesAssumption DEF TypeOK, Tick, Times
  <2> QED
    BY <1>8, <2>1 DEF TypeOK, Tick, insertVars, assignVars, answerVars, usedVars,
         periodVars, billVars, Rows
<1>9. ASSUME UNCHANGED vars
      PROVE  TypeOK'
  BY <1>9 DEF TypeOK, vars, insertVars, assignVars, answerVars, usedVars,
       periodVars, billVars, Rows
<1> QED
  BY <1>1, <1>2, <1>3, <1>4, <1>5, <1>6, <1>7, <1>8, <1>9 DEF Next

\* Every column keeps its type in every reachable state; in particular no
\* counter goes negative and no request is retried more than max_retries
\* times, whatever the order of results, errors and recovery cycles.
THEOREM TypeCorrect == Spec => []TypeOK
<1> QED
  BY TypeInit, TypeStep, PTL DEF Spec

-----------------------------------------------------------------------------
(* The queue's safety invariants.  None of them is inductive alone: that a   *)
(* claim delivers a request its counters account for needs the claimed row   *)
(* to be still queued (ClaimsSound), and that it leaves no stale result or   *)
(* worker behind needs AssignmentShape.                                      *)

QueueInv ==
  /\ TypeOK
  /\ AssignmentShape
  /\ DeliveriesCounted
  /\ LifetimeBounded
  /\ ClaimsSound

\* The initial state satisfies the invariant.
LEMMA QueueInit == Init => QueueInv
<1> SUFFICES ASSUME Init
             PROVE  QueueInv
  OBVIOUS
<1>1. TypeOK
  BY TypeInit
<1>2. AssignmentShape /\ DeliveriesCounted /\ LifetimeBounded /\ ClaimsSound
  BY DEF Init, AssignmentShape, DeliveriesCounted, LifetimeBounded, ClaimsSound,
     InFlight, Completed
<1> QED
  BY <1>1, <1>2 DEF QueueInv

\* Accepting a request: a new row has no lease, worker, result or delivery.
LEMMA QueueAccept ==
  ASSUME QueueInv, TypeOK', NEW r \in Requests, NEW started \in Recent,
         Accept(r, started)
  PROVE  QueueInv'
<1> USE DEF QueueInv, TypeOK, Rows, Accept, answerVars, billVars
<1>1. AssignmentShape'
  BY DEF AssignmentShape, InFlight, Completed
<1>2. DeliveriesCounted'
  BY DEF DeliveriesCounted
<1>3. LifetimeBounded'
  BY DEF LifetimeBounded, InFlight
<1>4. ClaimsSound'
  BY DEF ClaimsSound
<1> QED
  BY <1>1, <1>2, <1>3, <1>4

\* Selecting a row to claim: it is queued, unexpired and locked by nobody.
LEMMA QueueClaimSelect ==
  ASSUME QueueInv, TypeOK', NEW w \in Workers, NEW t \in Recent, ClaimSelect(w, t)
  PROVE  QueueInv'
<1> USE DEF QueueInv
<1>1. AssignmentShape' /\ DeliveriesCounted' /\ LifetimeBounded'
  BY DEF ClaimSelect, insertVars, assignVars, answerVars, AssignmentShape,
     DeliveriesCounted, LifetimeBounded, InFlight, Completed
<1>2. ClaimsSound'
  <2>1. PICK r \in Claimable(w, t) :
          claims' = claims \cup {[row |-> r, worker |-> w, at |-> t]}
    BY DEF ClaimSelect
  <2>2. /\ status[r] = "QUEUED" /\ t < expires_at[r]
        /\ \A c \in claims : c.row # r
    BY TimesAssumption DEF Claimable, Eligible, Locked, TypeOK, Rows, Recent, Times
  <2>3. UNCHANGED <<status, expires_at>>
    BY DEF ClaimSelect, insertVars, assignVars
  <2> QED
    BY <2>1, <2>2, <2>3 DEF ClaimsSound
<1> QED
  BY <1>1, <1>2

\* Committing a claim: the row is still as the claim's SELECT left it.
LEMMA QueueClaimCommit ==
  ASSUME QueueInv, TypeOK', NEW c \in claims, ClaimCommit(c)
  PROVE  QueueInv'
<1> USE DEF QueueInv, TypeOK, Rows, ClaimCommit, insertVars, answerVars
<1>1. /\ c.row \in Requests /\ c.worker \in Workers /\ c.at \in Nat
      /\ status[c.row] = "QUEUED" /\ c.at < expires_at[c.row]
      /\ \A d \in claims \ {c} : d.row # c.row
  BY TimesAssumption DEF ClaimsSound, Times
<1>2. /\ c.at + WorkerLease \in Nat
      /\ c.at + WorkerLease < expires_at[c.row] + WorkerLease
  BY <1>1, TimesAssumption
<1>3. AssignmentShape'
  BY <1>1, <1>2, RowsAssumption DEF AssignmentShape, InFlight, Completed
<1>4. DeliveriesCounted'
  BY <1>1 DEF DeliveriesCounted
<1>5. LifetimeBounded'
  BY <1>1, <1>2 DEF LifetimeBounded, InFlight
<1>6. ClaimsSound'
  BY <1>1 DEF ClaimsSound
<1> QED
  BY <1>3, <1>4, <1>5, <1>6

\* Committing a result.
LEMMA QueueCommitResult ==
  ASSUME QueueInv, TypeOK', NEW r \in Requests, NEW w \in Workers,
         NEW v \in Results, NEW n \in Reports, CommitResult(r, w, v, n)
  PROVE  QueueInv'
<1> USE DEF QueueInv, TypeOK, Rows, CommitResult, AcceptsFrom, InFlight, insertVars
<1>1. v # NULL /\ w # NULL
  BY RowsAssumption
<1>2. AssignmentShape'
  BY <1>1 DEF AssignmentShape, Completed
<1>3. DeliveriesCounted'
  BY DEF DeliveriesCounted
<1>4. LifetimeBounded'
  BY DEF LifetimeBounded
<1>5. ClaimsSound'
  BY DEF ClaimsSound
<1> QED
  BY <1>2, <1>3, <1>4, <1>5

\* Recording an error: the request goes back to the queue, counted, or fails.
LEMMA QueueRecordError ==
  ASSUME QueueInv, TypeOK', NEW r \in Requests, NEW w \in Workers,
         NEW retryable \in BOOLEAN, RecordError(r, w, retryable)
  PROVE  QueueInv'
<1> USE DEF QueueInv, TypeOK, Rows, RecordError, AcceptsFrom, InFlight, insertVars,
        answerVars
<1>1. AssignmentShape'
  BY DEF AssignmentShape, Completed, Unassigned, Unleased
<1>2. DeliveriesCounted'
  BY DEF DeliveriesCounted
<1>3. LifetimeBounded'
  BY DEF LifetimeBounded, Unleased
<1>4. ClaimsSound'
  BY DEF ClaimsSound
<1> QED
  BY <1>1, <1>2, <1>3, <1>4

\* A recovery cycle: it touches only rows in flight, and queued rows that no
\* open claim has locked.
LEMMA QueueRecover ==
  ASSUME QueueInv, TypeOK', NEW t \in Recent, Recover(t)
  PROVE  QueueInv'
<1> USE DEF QueueInv, TypeOK, Rows, Recover, insertVars, answerVars
<1>1. \A r \in Requests :
        /\ r \in Requeueable(t) => InFlight(r) /\ r \notin Exhausted(t)
        /\ r \in Exhausted(t) => InFlight(r) /\ r \notin Expirable(t)
        /\ r \in Expirable(t) => status[r] = "QUEUED" \/ r \in Requeueable(t)
  BY DEF Requeueable, Exhausted, Expirable, Lapsed, InFlight
<1>2. AssignmentShape'
  BY <1>1 DEF AssignmentShape, InFlight, Completed, Unassigned, Unleased
<1>3. DeliveriesCounted'
  BY <1>1 DEF DeliveriesCounted, InFlight
<1>4. LifetimeBounded'
  BY <1>1 DEF LifetimeBounded, InFlight, Unleased
<1>5. ClaimsSound'
  <2>1. \A c \in claims : /\ c.row \in Requests
                          /\ status[c.row] = "QUEUED"
                          /\ c.row \notin Expirable(t)
    BY DEF ClaimsSound, Locked
  <2>2. \A c \in claims : status'[c.row] = "QUEUED"
    BY <1>1, <2>1 DEF InFlight
  <2> QED
    BY <2>2 DEF ClaimsSound
<1> QED
  BY <1>2, <1>3, <1>4, <1>5

\* Every step keeps the invariant.
LEMMA QueueStep == QueueInv /\ [Next]_vars => QueueInv'
<1> SUFFICES ASSUME QueueInv, [Next]_vars
             PROVE  QueueInv'
  OBVIOUS
<1>1. TypeOK'
  BY TypeStep DEF QueueInv
<1>2. ASSUME NEW c \in claims, ClaimAbort(c)
      PROVE  QueueInv'
  BY <1>1, <1>2 DEF QueueInv, ClaimAbort, insertVars, assignVars, answerVars,
     AssignmentShape, DeliveriesCounted, LifetimeBounded, ClaimsSound, InFlight, Completed
<1>3. ASSUME Tick \/ UNCHANGED vars
      PROVE  QueueInv'
  BY <1>1, <1>3 DEF QueueInv, Tick, vars, insertVars, assignVars, answerVars,
     AssignmentShape, DeliveriesCounted, LifetimeBounded, ClaimsSound, InFlight, Completed
<1> QED
  BY <1>1, <1>2, <1>3, QueueAccept, QueueClaimSelect, QueueClaimCommit,
     QueueCommitResult, QueueRecordError, QueueRecover DEF Next

\* In every reachable state a request has a lease exactly while it is being
\* worked on, a worker exactly then and once completed, and a result exactly
\* when it is completed.
THEOREM AssignmentSafe == Spec => []AssignmentShape
<1>1. QueueInv => AssignmentShape
  BY DEF QueueInv
<1> QED
  BY <1>1, QueueInit, QueueStep, PTL DEF Spec

\* In every reachable state the deliveries of a request are its retries plus
\* the delivery it is in or ended with: at most max_retries + 1.
THEOREM DeliveriesSafe == Spec => []DeliveriesCounted
<1>1. QueueInv => DeliveriesCounted
  BY DEF QueueInv
<1> QED
  BY <1>1, QueueInit, QueueStep, PTL DEF Spec

\* No reachable state leaves a request with a worker beyond one lease after
\* its queue TTL.
THEOREM LifetimeSafe == Spec => []LifetimeBounded
<1>1. QueueInv => LifetimeBounded
  BY DEF QueueInv
<1> QED
  BY <1>1, QueueInit, QueueStep, PTL DEF Spec

\* No two open claims ever hold the same row, and what a claim holds is still
\* waiting and was unexpired when the claim read the clock.
THEOREM ClaimsSafe == Spec => []ClaimsSound
<1>1. QueueInv => ClaimsSound
  BY DEF QueueInv
<1> QED
  BY <1>1, QueueInit, QueueStep, PTL DEF Spec

-----------------------------------------------------------------------------
(* The queue implements RequestContract: accepting is Submit, committing a   *)
(* claim is Deliver, committing a result is Answer, a final error or a       *)
(* recovery cycle is GiveUp, and everything else is invisible to the client. *)

\* The phase of each status.
LEMMA PhaseValues ==
  /\ PhaseOf("ABSENT") = "unsubmitted"
  /\ PhaseOf("QUEUED") = "pending" /\ PhaseOf("ASSIGNED") = "pending"
  /\ PhaseOf("COMPLETED") = "answered"
  /\ PhaseOf("FAILED_FINAL") = "failed" /\ PhaseOf("EXPIRED") = "failed"
BY DEF PhaseOf

\* Initially no request is submitted.
LEMMA ContractInit == Init => Contract!Init
<1> SUFFICES ASSUME Init
             PROVE  Contract!Init
  OBVIOUS
<1>1. clientPhase = [r \in Requests |-> "unsubmitted"]
  BY PhaseValues DEF Init, clientPhase
<1> QED
  BY <1>1 DEF Init, Contract!Init

\* Accepting a request submits it.
LEMMA ContractSubmit ==
  ASSUME QueueInv, NEW r \in Requests, NEW started \in Recent, Accept(r, started)
  PROVE  Contract!Submit(r)
<1> USE DEF QueueInv, TypeOK, Rows, Accept
<1>1. clientPhase[r] = "unsubmitted"
  BY PhaseValues DEF clientPhase
<1>2. clientPhase' = [clientPhase EXCEPT ![r] = "pending"]
  BY PhaseValues DEF clientPhase
<1> QED
  BY <1>1, <1>2 DEF Contract!Submit, answerVars

\* Committing a claim delivers a pending request, at most max_retries + 1
\* times.
LEMMA ContractDeliver ==
  ASSUME QueueInv, NEW c \in claims, ClaimCommit(c)
  PROVE  Contract!Deliver(c.row)
<1> USE DEF QueueInv, TypeOK, Rows, ClaimCommit
<1>1. c.row \in Requests /\ status[c.row] = "QUEUED"
  BY DEF ClaimsSound
<1>2. clientPhase[c.row] = "pending" /\ clientPhase' = clientPhase
  BY <1>1, PhaseValues DEF clientPhase
<1>3. deliveries[c.row] < MaxRetries + 1
  BY <1>1, TimesAssumption DEF DeliveriesCounted
<1> QED
  BY <1>1, <1>2, <1>3 DEF Contract!Deliver, answerVars

\* Committing a result answers a request that was delivered.
LEMMA ContractAnswer ==
  ASSUME QueueInv, NEW r \in Requests, NEW w \in Workers, NEW v \in Results,
         NEW n \in Reports, CommitResult(r, w, v, n)
  PROVE  Contract!Answer(r, v, n)
<1> USE DEF QueueInv, TypeOK, Rows, CommitResult, AcceptsFrom, InFlight
<1>1. clientPhase[r] = "pending"
  BY PhaseValues DEF clientPhase
<1>2. clientPhase' = [clientPhase EXCEPT ![r] = "answered"]
  BY PhaseValues DEF clientPhase
<1>3. deliveries[r] > 0
  BY TimesAssumption DEF DeliveriesCounted
<1> QED
  BY <1>1, <1>2, <1>3 DEF Contract!Answer

\* A worker's error gives the request up, or goes unseen.
LEMMA ContractError ==
  ASSUME QueueInv, NEW r \in Requests, NEW w \in Workers,
         NEW retryable \in BOOLEAN, RecordError(r, w, retryable)
  PROVE  Contract!GiveUp({r}) \/ UNCHANGED Contract!vars
<1> USE DEF QueueInv, TypeOK, Rows, RecordError, AcceptsFrom, InFlight, answerVars
<1>1. clientPhase[r] = "pending"
  BY PhaseValues DEF clientPhase
<1>2. CASE retryable /\ MayRetry(r)
  <2>1. clientPhase' = clientPhase
    BY <1>2, PhaseValues DEF clientPhase
  <2> QED
    BY <2>1 DEF Contract!vars
<1>3. CASE ~(retryable /\ MayRetry(r))
  <2>1. clientPhase' = [q \in Requests |-> IF q \in {r} THEN "failed" ELSE clientPhase[q]]
    BY <1>3, PhaseValues DEF clientPhase
  <2> QED
    BY <1>1, <2>1 DEF Contract!GiveUp
<1> QED
  BY <1>2, <1>3

\* A recovery cycle gives up what it fails or expires, all at once.
LEMMA ContractRecover ==
  ASSUME QueueInv, NEW t \in Recent, Recover(t)
  PROVE  Contract!GiveUp(Exhausted(t) \cup Expirable(t))
<1> USE DEF QueueInv, TypeOK, Rows
<1> DEFINE S == Exhausted(t) \cup Expirable(t)
<1>1. \A r \in S \cup Requeueable(t) : r \in Requests /\ status[r] \in {"QUEUED", "ASSIGNED"}
  BY DEF Requeueable, Exhausted, Expirable, Lapsed, InFlight
<1>2. \A r \in S : clientPhase[r] = "pending"
  BY <1>1, PhaseValues DEF clientPhase
<1>3. \A r \in Requests :
        PhaseOf(status'[r]) = IF r \in S THEN "failed" ELSE PhaseOf(status[r])
  <2> TAKE r \in Requests
  <2>1. status'[r] = IF r \in Expirable(t) THEN "EXPIRED"
                     ELSE IF r \in Exhausted(t) THEN "FAILED_FINAL"
                     ELSE IF r \in Requeueable(t) THEN "QUEUED" ELSE status[r]
    BY DEF Recover
  <2> QED
    BY <1>1, <2>1, PhaseValues
<1>4. clientPhase' = [r \in Requests |-> IF r \in S THEN "failed" ELSE clientPhase[r]]
  BY <1>3 DEF clientPhase
<1> HIDE DEF S
<1>5. Contract!GiveUp(S)
  BY <1>2, <1>4 DEF Contract!GiveUp, Recover, answerVars
<1> QED
  BY <1>5 DEF S

\* Every step is a step of the contract or invisible to it.
LEMMA ContractStep == QueueInv /\ [Next]_vars => [Contract!Next]_(Contract!vars)
<1> SUFFICES ASSUME QueueInv, [Next]_vars
             PROVE  Contract!Next \/ UNCHANGED Contract!vars
  OBVIOUS
<1>1. ASSUME NEW r \in Requests, NEW started \in Recent, Accept(r, started)
      PROVE  Contract!Next
  BY <1>1, ContractSubmit DEF Contract!Next
<1>2. ASSUME NEW w \in Workers, NEW t \in Recent, ClaimSelect(w, t)
      PROVE  UNCHANGED Contract!vars
  BY <1>2 DEF ClaimSelect, Contract!vars, clientPhase,
     assignVars, answerVars
<1>3. ASSUME NEW c \in claims, ClaimCommit(c)
      PROVE  Contract!Next
  <2>1. c.row \in Requests
    BY DEF QueueInv, TypeOK
  <2> QED
    BY <1>3, <2>1, ContractDeliver DEF Contract!Next
<1>4. ASSUME NEW c \in claims, ClaimAbort(c)
      PROVE  UNCHANGED Contract!vars
  BY <1>4 DEF ClaimAbort, Contract!vars, clientPhase,
     assignVars, answerVars
<1>5. ASSUME NEW r \in Requests, NEW w \in Workers, NEW v \in Results,
             NEW n \in Reports, CommitResult(r, w, v, n)
      PROVE  Contract!Next
  BY <1>5, ContractAnswer DEF Contract!Next
<1>6. ASSUME NEW r \in Requests, NEW w \in Workers, NEW retryable \in BOOLEAN,
             RecordError(r, w, retryable)
      PROVE  Contract!Next \/ UNCHANGED Contract!vars
  <2>1. {r} \in SUBSET Requests
    OBVIOUS
  <2> QED
    BY <1>6, <2>1, ContractError DEF Contract!Next
<1>7. ASSUME NEW t \in Recent, Recover(t)
      PROVE  Contract!Next
  <2>1. Exhausted(t) \cup Expirable(t) \in SUBSET Requests
    BY DEF Exhausted, Expirable, Lapsed
  <2> QED
    BY <1>7, <2>1, ContractRecover DEF Contract!Next
<1>8. ASSUME Tick \/ UNCHANGED vars
      PROVE  UNCHANGED Contract!vars
  BY <1>8 DEF Tick, vars, Contract!vars, clientPhase,
     assignVars, answerVars
<1> QED
  BY <1>1, <1>2, <1>3, <1>4, <1>5, <1>6, <1>7, <1>8 DEF Next

\* The queue implements the contract with its clients: bounded at-least-once
\* delivery, at most one accepted answer, nothing settled ever reopened.
THEOREM QueueImplementsContract == Spec => ImplementsContract
<1> QED
  BY QueueInit, QueueStep, ContractInit, ContractStep, PTL
  DEF Spec, ImplementsContract, Contract!Spec

-----------------------------------------------------------------------------
(***************************************************************************)
(* Proofs about the money side of RequestQueue: budget periods, hard       *)
(* limits, exact budgets and exact billing.                                *)
(***************************************************************************)

-----------------------------------------------------------------------------
(* Budget periods. *)

\* No project is in a future period, and no request was reserved in a period
\* its project has not reached.
PeriodInv ==
  /\ \A p \in Projects : /\ daily_usage_date[p] <= DayOf[now]
                         /\ monthly_usage_month[p] <= MonthOf[DayOf[now]]
  /\ \A r \in Requests : status[r] # "ABSENT" =>
       /\ budget_day[r] <= daily_usage_date[ProjectOf(r)]
       /\ budget_month[r] <= monthly_usage_month[ProjectOf(r)]

\* Dates and months are natural numbers.
LEMMA DatesNat == Days \subseteq Nat /\ Months \subseteq Nat
BY CalendarAssumption DEF Days, Months

\* A request's project is a project.
LEMMA ProjectType == \A r \in Requests : ProjectOf(r) \in Projects
BY RowsAssumption DEF ProjectOf

\* What each step that is not a reservation leaves alone.
LEMMA PeriodsKept ==
  ASSUME TypeOK, Next,
         ~ \E r \in Requests, started \in Recent : Accept(r, started)
  PROVE  /\ UNCHANGED <<daily_usage_date, monthly_usage_month, budget_day, budget_month>>
         /\ \A r \in Requests : status[r] = "ABSENT" => status'[r] = "ABSENT" \/ \E c \in claims : c.row = r
         /\ now' \in {now, now + 1}
<1> USE DEF insertVars, periodVars, Reconcile, Release, TypeOK, Rows
<1>1. ASSUME NEW w \in Workers, NEW t \in Recent, ClaimSelect(w, t)
      PROVE  UNCHANGED <<status, now, daily_usage_date, monthly_usage_month, budget_day, budget_month>>
  BY <1>1 DEF ClaimSelect, assignVars
<1>2. ASSUME NEW c \in claims, ClaimCommit(c)
      PROVE  /\ UNCHANGED <<now, daily_usage_date, monthly_usage_month, budget_day, budget_month>>
             /\ status' = [status EXCEPT ![c.row] = "ASSIGNED"]
  BY <1>2 DEF ClaimCommit
<1>3. ASSUME NEW c \in claims, ClaimAbort(c)
      PROVE  UNCHANGED <<status, now, daily_usage_date, monthly_usage_month, budget_day, budget_month>>
  BY <1>3 DEF ClaimAbort, assignVars
<1>4. ASSUME NEW r \in Requests, NEW w \in Workers, NEW v \in Results,
             NEW n \in Reports, CommitResult(r, w, v, n)
      PROVE  /\ UNCHANGED <<now, daily_usage_date, monthly_usage_month, budget_day, budget_month>>
             /\ status[r] = "ASSIGNED" /\ status' = [status EXCEPT ![r] = "COMPLETED"]
  BY <1>4 DEF CommitResult, AcceptsFrom, InFlight
<1>5. ASSUME NEW r \in Requests, NEW w \in Workers, NEW retryable \in BOOLEAN,
             RecordError(r, w, retryable)
      PROVE  /\ UNCHANGED <<now, daily_usage_date, monthly_usage_month, budget_day, budget_month>>
             /\ status[r] = "ASSIGNED"
             /\ \A q \in Requests : q # r => status'[q] = status[q]
  BY <1>5 DEF RecordError, AcceptsFrom, InFlight, usedVars
<1>6. ASSUME NEW t \in Recent, Recover(t)
      PROVE  /\ UNCHANGED <<now, daily_usage_date, monthly_usage_month, budget_day, budget_month>>
             /\ \A r \in Requests : status[r] = "ABSENT" => status'[r] = "ABSENT"
  BY <1>6 DEF Recover, Expirable, Exhausted, Requeueable, Lapsed, InFlight
<1>7. ASSUME Tick
      PROVE  /\ UNCHANGED <<status, daily_usage_date, monthly_usage_month, budget_day, budget_month>>
             /\ now' = now + 1
  BY <1>7 DEF Tick, assignVars
<1> QED
  BY <1>1, <1>2, <1>3, <1>4, <1>5, <1>6, <1>7 DEF Next

\* The periods' invariant holds initially.
LEMMA PeriodInit == Init => PeriodInv
<1> SUFFICES ASSUME Init
             PROVE  PeriodInv
  OBVIOUS
<1>1. 0 \in Times /\ DayOf[0] \in Nat /\ MonthOf[DayOf[0]] \in Nat
  BY TimesAssumption, CalendarAssumption DEF Times, Days
<1> QED
  BY <1>1 DEF Init, PeriodInv

\* A reservation moves its project to the period of the clock, which is no
\* earlier.
LEMMA PeriodAccept ==
  ASSUME TypeOK, PeriodInv, NEW r \in Requests, NEW started \in Recent,
         Accept(r, started)
  PROVE  /\ PeriodInv'
         /\ \A p \in Projects : /\ daily_usage_date[p] <= daily_usage_date'[p]
                                /\ monthly_usage_month[p] <= monthly_usage_month'[p]
<1> DEFINE today == DayOf[now]
<1>1. /\ today \in Nat /\ MonthOf[today] \in Nat
      /\ \A p \in Projects : daily_usage_date[p] \in Nat /\ monthly_usage_month[p] \in Nat
      /\ \A q \in Requests : budget_day[q] \in Nat /\ budget_month[q] \in Nat
  BY DatesNat DEF TypeOK, Rows, Days, Months
<1>2. /\ daily_usage_date' = [daily_usage_date EXCEPT ![ProjectOf(r)] = today]
      /\ monthly_usage_month' = [monthly_usage_month EXCEPT ![ProjectOf(r)] = MonthOf[today]]
      /\ budget_day' = [budget_day EXCEPT ![r] = today]
      /\ budget_month' = [budget_month EXCEPT ![r] = MonthOf[today]]
      /\ status' = [status EXCEPT ![r] = "QUEUED"]
      /\ now' = now
  BY DEF Accept, Reserve, Today
<1> HIDE DEF today
<1>3. \A p \in Projects : /\ daily_usage_date[p] <= today
                          /\ monthly_usage_month[p] <= MonthOf[today]
  BY DEF PeriodInv, today
<1>4. \A p \in Projects : /\ daily_usage_date[p] <= daily_usage_date'[p]
                          /\ daily_usage_date'[p] <= today
                          /\ monthly_usage_month[p] <= monthly_usage_month'[p]
                          /\ monthly_usage_month'[p] <= MonthOf[today]
  BY <1>1, <1>2, <1>3, ProjectType DEF TypeOK
<1>5. ASSUME NEW q \in Requests, status'[q] # "ABSENT"
      PROVE  /\ budget_day'[q] <= daily_usage_date'[ProjectOf(q)]
             /\ budget_month'[q] <= monthly_usage_month'[ProjectOf(q)]
  <2>1. ProjectOf(q) \in Projects
    BY ProjectType
  <2>2. CASE q = r
    BY <1>1, <1>2, <2>1, <2>2 DEF TypeOK, Rows
  <2>3. CASE q # r
    <3>1. status[q] # "ABSENT" /\ budget_day'[q] = budget_day[q] /\ budget_month'[q] = budget_month[q]
      BY <1>2, <1>5, <2>3 DEF TypeOK, Rows
    <3>2. /\ budget_day[q] <= daily_usage_date[ProjectOf(q)]
          /\ budget_month[q] <= monthly_usage_month[ProjectOf(q)]
      BY <3>1 DEF PeriodInv
    <3>3. daily_usage_date'[ProjectOf(q)] \in Nat /\ monthly_usage_month'[ProjectOf(q)] \in Nat
      BY <1>1, <1>2, <2>1 DEF TypeOK
    <3> QED
      BY <1>1, <1>4, <2>1, <3>1, <3>2, <3>3
  <2> QED
    BY <2>2, <2>3
<1>6. \A p \in Projects : /\ daily_usage_date'[p] <= DayOf[now']
                          /\ monthly_usage_month'[p] <= MonthOf[DayOf[now']]
  BY <1>2, <1>4 DEF today
<1>7. PeriodInv'
  BY <1>5, <1>6 DEF PeriodInv, ProjectOf
<1> QED
  BY <1>4, <1>7

\* Every step keeps the periods' invariant and moves no period back.
LEMMA PeriodStep ==
  ASSUME QueueInv, PeriodInv, [Next]_vars
  PROVE  /\ PeriodInv'
         /\ \A p \in Projects : /\ daily_usage_date[p] <= daily_usage_date'[p]
                                /\ monthly_usage_month[p] <= monthly_usage_month'[p]
<1>1. TypeOK /\ TypeOK'
  BY TypeStep DEF QueueInv
<1>2. \A p \in Projects : daily_usage_date[p] \in Nat /\ monthly_usage_month[p] \in Nat
  BY <1>1, DatesNat DEF TypeOK
<1>3. ASSUME NEW r \in Requests, NEW started \in Recent, Accept(r, started)
      PROVE  /\ PeriodInv'
             /\ \A p \in Projects : /\ daily_usage_date[p] <= daily_usage_date'[p]
                                    /\ monthly_usage_month[p] <= monthly_usage_month'[p]
  BY <1>1, <1>3, PeriodAccept
<1>4. ASSUME Next, ~ \E r \in Requests, started \in Recent : Accept(r, started)
      PROVE  /\ PeriodInv'
             /\ UNCHANGED <<daily_usage_date, monthly_usage_month>>
  <2>1. /\ UNCHANGED <<daily_usage_date, monthly_usage_month, budget_day, budget_month>>
        /\ now' \in {now, now + 1}
        /\ \A r \in Requests : status[r] = "ABSENT" => status'[r] = "ABSENT" \/ \E c \in claims : c.row = r
    BY <1>1, <1>4, PeriodsKept
  <2>2. \A r \in Requests : status[r] = "ABSENT" => status'[r] = "ABSENT"
    BY <2>1 DEF QueueInv, ClaimsSound
  <2>3. now \in Times /\ now' \in Times /\ now <= now'
    BY <1>1, <2>1, TimesAssumption DEF TypeOK, Times
  <2>4. /\ DayOf[now] \in Days /\ DayOf[now'] \in Days
        /\ DayOf[now] <= DayOf[now']
    BY <2>3, CalendarAssumption DEF Days
  <2>5. MonthOf[DayOf[now]] <= MonthOf[DayOf[now']]
    BY <2>4, CalendarAssumption
  <2>6. /\ DayOf[now] \in Nat /\ DayOf[now'] \in Nat
        /\ MonthOf[DayOf[now]] \in Nat /\ MonthOf[DayOf[now']] \in Nat
    BY <2>4, DatesNat, CalendarAssumption
  <2>7. \A p \in Projects : /\ daily_usage_date[p] <= DayOf[now']
                            /\ monthly_usage_month[p] <= MonthOf[DayOf[now']]
    BY <1>2, <2>4, <2>5, <2>6 DEF PeriodInv
  <2> QED
    BY <2>1, <2>2, <2>7 DEF PeriodInv, ProjectOf
<1>5. ASSUME UNCHANGED vars
      PROVE  /\ PeriodInv'
             /\ UNCHANGED <<daily_usage_date, monthly_usage_month>>
  BY <1>5 DEF PeriodInv, ProjectOf, vars, insertVars, assignVars, periodVars
<1> QED
  BY <1>2, <1>3, <1>4, <1>5

\* No interleaving of reservations, settlements and recovery cycles moves a
\* project's budget period back.
THEOREM PeriodsOnlyAdvance == Spec => PeriodsAdvance
<1>1. QueueInv /\ PeriodInv /\ [Next]_vars => QueueInv' /\ PeriodInv'
  BY QueueStep, PeriodStep
<1>2. QueueInv /\ PeriodInv /\ [Next]_vars =>
        [\A p \in Projects : /\ daily_usage_date[p] <= daily_usage_date'[p]
                             /\ monthly_usage_month[p] <= monthly_usage_month'[p]]_vars
  BY PeriodStep
<1> QED
  BY <1>1, <1>2, QueueInit, PeriodInit, PTL DEF Spec, PeriodsAdvance

-----------------------------------------------------------------------------
(* The hard limits, as long as no worker reports more than the ceiling.      *)

\* Settling requests with at most what they reserved raises no counter.
LEMMA ReconciledNotMore ==
  ASSUME NEW used \in [Projects -> Nat], NEW S \in SUBSET Requests,
         NEW period, NEW current, NEW actual \in [Requests -> Nat],
         \A r \in S : actual[r] <= Ceiling[r], NEW p \in Projects
  PROVE  Reconciled(used, S, period, current, actual)[p] <= used[p]
<1> DEFINE rows == ChargedTo(S, p, period, current)
<1>1. rows \in SUBSET Requests /\ rows \subseteq S
  BY DEF ChargedTo
<1>2. IsFiniteSet(rows)
  BY <1>1, RowsAssumption, FS_Subset
<1>3. \A r \in rows : actual[r] \in Nat /\ Ceiling[r] \in Nat /\ actual[r] <= Ceiling[r]
  BY <1>1, TokensAssumption
<1>4. /\ Tokens(rows, actual) \in Nat /\ Tokens(rows, Ceiling) \in Nat
      /\ Tokens(rows, actual) <= Tokens(rows, Ceiling)
  BY <1>2, <1>3, TokensType, TokensMonotone
<1>5. Reconciled(used, S, period, current, actual)[p] =
        NotNegative(used[p] + Tokens(rows, actual) - Tokens(rows, Ceiling))
  BY DEF Reconciled
<1> HIDE DEF rows
<1> QED
  BY <1>4, <1>5 DEF NotNegative

\* So a settled set of requests keeps the limits.
LEMMA ReconcileKeepsLimit ==
  ASSUME TypeOK, HardLimit, NEW S \in SUBSET Requests,
         NEW actual \in [Requests -> Nat], \A r \in S : actual[r] <= Ceiling[r],
         Reconcile(S, actual)
  PROVE  HardLimit'
<1> SUFFICES ASSUME NEW p \in Projects
             PROVE  /\ daily_tokens_used'[p] <= DailyLimit
                    /\ monthly_tokens_used'[p] <= MonthlyLimit
  BY DEF HardLimit
<1>1. /\ daily_tokens_used \in [Projects -> Nat]
      /\ monthly_tokens_used \in [Projects -> Nat]
  BY DEF TypeOK
<1>2. /\ daily_tokens_used'[p] <= daily_tokens_used[p]
      /\ monthly_tokens_used'[p] <= monthly_tokens_used[p]
  BY <1>1, ReconciledNotMore DEF Reconcile
<1>3. /\ daily_tokens_used'[p] \in Nat /\ monthly_tokens_used'[p] \in Nat
  BY ReconcileType
<1> QED
  BY <1>1, <1>2, <1>3, TokensAssumption DEF HardLimit

\* Releasing reservations keeps the limits.
LEMMA ReleaseKeepsLimit ==
  ASSUME TypeOK, HardLimit, NEW S \in SUBSET Requests, Release(S)
  PROVE  HardLimit'
<1> DEFINE none == [r \in Requests |-> 0]
<1>1. none \in [Requests -> Nat] /\ \A r \in S : none[r] <= Ceiling[r]
  BY TokensAssumption
<1>2. Reconcile(S, none)
  BY DEF Release
<1> QED
  BY <1>1, <1>2, ReconcileKeepsLimit

\* Every step keeps the limits if reports stay within the ceiling.
LEMMA LimitStep ==
  ASSUME Overshoot = 0, TypeOK, HardLimit, [Next]_vars
  PROVE  HardLimit'
<1>1. ASSUME NEW r \in Requests, NEW started \in Recent, Accept(r, started)
      PROVE  HardLimit'
  <2> DEFINE today == DayOf[now]
             daily == UsedInPeriod(daily_tokens_used[ProjectOf(r)],
                                   daily_usage_date[ProjectOf(r)], today)
             monthly == UsedInPeriod(monthly_tokens_used[ProjectOf(r)],
                                     monthly_usage_month[ProjectOf(r)], MonthOf[today])
  <2>1. /\ daily + Ceiling[r] <= DailyLimit
        /\ monthly + Ceiling[r] <= MonthlyLimit
        /\ daily_tokens_used' = [daily_tokens_used EXCEPT ![ProjectOf(r)] = daily + Ceiling[r]]
        /\ monthly_tokens_used' = [monthly_tokens_used EXCEPT ![ProjectOf(r)] = monthly + Ceiling[r]]
    BY <1>1 DEF Accept, Reserve, Today, WithinLimit
  <2> HIDE DEF daily, monthly
  <2> QED
    BY <2>1 DEF HardLimit, TypeOK
<1>2. ASSUME NEW r \in Requests, NEW w \in Workers, NEW v \in Results,
             NEW n \in Reports, CommitResult(r, w, v, n)
      PROVE  HardLimit'
  <2> DEFINE actual == [tokens EXCEPT ![r] = n]
  <2>1. n \in Nat /\ n <= Ceiling[r]
    BY <1>2, TokensAssumption DEF CommitResult
  <2>2. actual \in [Requests -> Nat] /\ \A q \in {r} : actual[q] <= Ceiling[q]
    BY <2>1 DEF TypeOK, Rows
  <2>3. Reconcile({r}, actual)
    BY <1>2 DEF CommitResult
  <2> HIDE DEF actual
  <2> QED
    BY <2>2, <2>3, ReconcileKeepsLimit
<1>3. ASSUME NEW r \in Requests, NEW w \in Workers, NEW retryable \in BOOLEAN,
             RecordError(r, w, retryable)
      PROVE  HardLimit'
  <2>1. Release({r}) \/ UNCHANGED usedVars
    BY <1>3 DEF RecordError
  <2>2. ASSUME UNCHANGED usedVars
        PROVE  HardLimit'
    BY <2>2 DEF HardLimit, usedVars
  <2> QED
    BY <2>1, <2>2, ReleaseKeepsLimit
<1>4. ASSUME NEW t \in Recent, Recover(t)
      PROVE  HardLimit'
  <2>1. Exhausted(t) \cup Expirable(t) \in SUBSET Requests
    BY DEF Exhausted, Expirable, Lapsed
  <2> QED
    BY <1>4, <2>1, ReleaseKeepsLimit DEF Recover
<1>5. ASSUME NEW w \in Workers, NEW t \in Recent, ClaimSelect(w, t)
      PROVE  HardLimit'
  BY <1>5 DEF ClaimSelect, HardLimit, usedVars
<1>6. ASSUME NEW c \in claims, ClaimCommit(c) \/ ClaimAbort(c)
      PROVE  HardLimit'
  BY <1>6 DEF ClaimCommit, ClaimAbort, HardLimit, usedVars
<1>7. ASSUME Tick \/ UNCHANGED vars
      PROVE  HardLimit'
  BY <1>7 DEF Tick, vars, HardLimit, usedVars
<1> QED
  BY <1>1, <1>2, <1>3, <1>4, <1>5, <1>6, <1>7 DEF Next

\* A project never uses more tokens than its limits, if no worker reports more
\* tokens than the request's ceiling; run OverReport shows that without this
\* assumption it may.
THEOREM HardLimitSafe ==
  ASSUME Overshoot = 0
  PROVE  Spec => []HardLimit
<1>1. Init => HardLimit
  BY TokensAssumption DEF Init, HardLimit
<1>2. TypeOK /\ HardLimit /\ [Next]_vars => TypeOK' /\ HardLimit'
  BY LimitStep, TypeStep
<1> QED
  BY <1>1, <1>2, TypeInit, PTL DEF Spec

-----------------------------------------------------------------------------
(* Exact billing. *)

\* Steps that complete no request and touch no completed one.
LEMMA UsageKept ==
  ASSUME UsageExact, UNCHANGED billVars, Completed' = Completed,
         \A r \in Completed : assigned_to'[r] = assigned_to[r] /\ tokens'[r] = tokens[r]
  PROVE  UsageExact'
<1>1. usage' = {[request |-> r, worker |-> assigned_to'[r], tokens |-> tokens'[r]] :
                  r \in Completed'}
  BY DEF UsageExact, billVars
<1>2. ASSUME NEW k \in ApiKeys
      PROVE  LET mine == {r \in Completed' : RequestKey[r] = k}
             IN  /\ total_requests'[k] = Cardinality(mine)
                 /\ total_tokens'[k] = Tokens(mine, tokens')
  <2> DEFINE mine == {r \in Completed : RequestKey[r] = k}
  <2>1. /\ total_requests'[k] = Cardinality(mine)
        /\ total_tokens'[k] = Tokens(mine, tokens)
    BY DEF UsageExact, billVars
  <2>2. \A r \in mine : tokens[r] = tokens'[r]
    OBVIOUS
  <2>3. Tokens(mine, tokens) = Tokens(mine, tokens')
    BY <2>2, TokensSame
  <2> QED
    BY <2>1, <2>3
<1> QED
  BY <1>1, <1>2 DEF UsageExact

\* Committing a result adds exactly one usage record and its tokens.
LEMMA UsageCommitResult ==
  ASSUME QueueInv, UsageExact, NEW r \in Requests, NEW w \in Workers,
         NEW v \in Results, NEW n \in Reports, CommitResult(r, w, v, n)
  PROVE  UsageExact'
<1> DEFINE key == RequestKey[r]
           mine(k) == {q \in Completed : RequestKey[q] = k}
<1>1. /\ n \in Nat /\ key \in ApiKeys
      /\ r \notin Completed /\ assigned_to[r] = w
      /\ Completed' = Completed \cup {r}
      /\ tokens' = [tokens EXCEPT ![r] = n] /\ tokens' \in [Requests -> Nat]
      /\ assigned_to' = assigned_to
  BY RowsAssumption, TokensAssumption DEF CommitResult, AcceptsFrom, InFlight, Completed,
     QueueInv, TypeOK, Rows
<1>2. usage' = {[request |-> q, worker |-> assigned_to'[q], tokens |-> tokens'[q]] :
                  q \in Completed'}
  <2>1. \A q \in Completed : tokens'[q] = tokens[q]
    BY <1>1 DEF Completed, QueueInv, TypeOK, Rows
  <2>2. tokens'[r] = n
    BY <1>1 DEF QueueInv, TypeOK, Rows
  <2>3. usage' = usage \cup {[request |-> r, worker |-> w, tokens |-> n]}
    BY DEF CommitResult
  <2>4. usage = {[request |-> q, worker |-> assigned_to'[q], tokens |-> tokens'[q]] :
                  q \in Completed}
    BY <1>1, <2>1 DEF UsageExact
  <2> QED
    BY <1>1, <2>2, <2>3, <2>4
<1>3. ASSUME NEW k \in ApiKeys
      PROVE  LET mine1 == {q \in Completed' : RequestKey[q] = k}
             IN  /\ total_requests'[k] = Cardinality(mine1)
                 /\ total_tokens'[k] = Tokens(mine1, tokens')
  <2> DEFINE m == mine(k)
             m1 == {q \in Completed' : RequestKey[q] = k}
  <2>1. /\ IsFiniteSet(m) /\ m \subseteq Requests /\ r \notin m
        /\ total_requests[k] = Cardinality(m)
        /\ total_tokens[k] = Tokens(m, tokens)
    <3>1. m \in SUBSET Requests /\ r \notin m
      BY <1>1 DEF Completed
    <3>2. IsFiniteSet(m)
      BY <3>1, RowsAssumption, FS_Subset
    <3> QED
      BY <3>1, <3>2 DEF UsageExact
  <2>2. \A q \in m : tokens'[q] = tokens[q]
    BY <1>1, <2>1 DEF QueueInv, TypeOK, Rows
  <2>3. Tokens(m, tokens) = Tokens(m, tokens')
    BY <2>2, TokensSame
  <2>4. CASE k = key
    <3>1. m1 = m \cup {r}
      BY <1>1, <2>4
    <3>2. /\ total_requests'[k] = total_requests[k] + 1
          /\ total_tokens'[k] = total_tokens[k] + n
      BY <2>4 DEF CommitResult, QueueInv, TypeOK
    <3>3. Cardinality(m \cup {r}) = Cardinality(m) + 1
      BY <2>1, FS_AddElement
    <3>4. IsFiniteSet({r}) /\ m \cap {r} = {} /\ \A q \in m \cup {r} : tokens'[q] \in Nat
      BY <1>1, <2>1, FS_Singleton
    <3>5. Tokens(m \cup {r}, tokens') = Tokens(m, tokens') + Tokens({r}, tokens')
      BY <2>1, <3>4, TokensDisjoint
    <3>6. tokens'[r] = n
      BY <1>1 DEF QueueInv, TypeOK, Rows
    <3>7. Tokens({r}, tokens') = n
      BY <1>1, <3>6, TokensOne
    <3> HIDE DEF m, m1
    <3> QED
      BY <2>1, <2>3, <3>1, <3>2, <3>3, <3>5, <3>7 DEF m1
  <2>5. CASE k # key
    <3>1. m1 = m
      BY <1>1, <2>5
    <3>2. /\ total_requests'[k] = total_requests[k]
          /\ total_tokens'[k] = total_tokens[k]
      BY <2>5 DEF CommitResult, QueueInv, TypeOK
    <3> HIDE DEF m, m1
    <3> QED
      BY <2>1, <2>3, <3>1, <3>2 DEF m1
  <2> QED
    BY <2>4, <2>5
<1> QED
  BY <1>2, <1>3 DEF UsageExact

\* Every step keeps the billing exact.
LEMMA UsageStep ==
  ASSUME QueueInv, UsageExact, [Next]_vars
  PROVE  UsageExact'
<1> USE DEF QueueInv, TypeOK, Rows
<1>1. ASSUME NEW r \in Requests, NEW started \in Recent, Accept(r, started)
      PROVE  UsageExact'
  BY <1>1, UsageKept DEF Accept, Completed, answerVars
<1>2. ASSUME NEW w \in Workers, NEW t \in Recent, ClaimSelect(w, t)
      PROVE  UsageExact'
  BY <1>2, UsageKept DEF ClaimSelect, Completed, assignVars, answerVars
<1>3. ASSUME NEW c \in claims, ClaimCommit(c)
      PROVE  UsageExact'
  <2>1. c.row \in Requests /\ status[c.row] = "QUEUED"
    BY DEF ClaimsSound
  <2> QED
    BY <1>3, <2>1, UsageKept DEF ClaimCommit, Completed, answerVars
<1>4. ASSUME NEW c \in claims, ClaimAbort(c)
      PROVE  UsageExact'
  BY <1>4, UsageKept DEF ClaimAbort, Completed, assignVars, answerVars
<1>5. ASSUME NEW r \in Requests, NEW w \in Workers, NEW retryable \in BOOLEAN,
             RecordError(r, w, retryable)
      PROVE  UsageExact'
  BY <1>5, UsageKept DEF RecordError, AcceptsFrom, InFlight, Unassigned, Completed, answerVars
<1>6. ASSUME NEW t \in Recent, Recover(t)
      PROVE  UsageExact'
  <2>1. \A r \in Completed : r \notin Expirable(t) \cup Exhausted(t) \cup Requeueable(t)
    BY DEF Completed, Expirable, Exhausted, Requeueable, Lapsed, InFlight
  <2>2. \A r \in Requests : status'[r] = "COMPLETED" <=> status[r] = "COMPLETED"
    BY <1>6, <2>1 DEF Recover, Completed
  <2> QED
    BY <1>6, <2>1, <2>2, UsageKept DEF Recover, Unassigned, Completed, answerVars
<1>7. ASSUME Tick \/ UNCHANGED vars
      PROVE  UsageExact'
  BY <1>7, UsageKept DEF Tick, vars, Completed, assignVars, answerVars
<1> QED
  BY <1>1, <1>2, <1>3, <1>4, <1>5, <1>6, <1>7, UsageCommitResult DEF Next

\* Each completed request, and no other, is billed once, to its key and its
\* worker, and the keys' totals are the sums of what was billed.
THEOREM UsageSafe == Spec => []UsageExact
<1>1. Init => UsageExact
  <2> SUFFICES ASSUME Init
               PROVE  UsageExact
    OBVIOUS
  <2>1. Completed = {}
    BY DEF Init, Completed
  <2>2. \A k \in ApiKeys : {r \in Completed : RequestKey[r] = k} = {}
    BY <2>1
  <2> QED
    BY <2>1, <2>2, TokensEmpty, FS_EmptySet DEF Init, UsageExact
<1>2. QueueInv /\ UsageExact /\ [Next]_vars => QueueInv' /\ UsageExact'
  BY QueueStep, UsageStep
<1> QED
  BY <1>1, <1>2, QueueInit, PTL DEF Spec

-----------------------------------------------------------------------------
(* Exact budgets. *)

\* The requests in "rows" are settled, out of those in C, which were charged
\* charge[r]: those in "done" completed with their actual tokens, the others
\* were released; charge1 is what is charged afterwards.
Settles(C, rows, done, actual, charge, charge1) ==
  /\ IsFiniteSet(C) /\ rows \subseteq C /\ done \subseteq rows
  /\ \A r \in C : charge[r] \in Nat
  /\ \A r \in rows : actual[r] \in Nat
  /\ \A r \in C \ rows : charge1[r] = charge[r]
  /\ \A r \in done : charge1[r] = actual[r]
  /\ \A r \in rows \ done : actual[r] = 0

\* A counter that equals the charges of C equals the new charges after it.
LEMMA SettledTotal ==
  ASSUME NEW C, NEW rows, NEW done, NEW actual, NEW charge, NEW charge1,
         Settles(C, rows, done, actual, charge, charge1)
  PROVE  NotNegative(Tokens(C, charge) + Tokens(rows, actual) - Tokens(rows, charge))
           = Tokens((C \ rows) \cup done, charge1)
<1> USE DEF Settles
<1> DEFINE rest == C \ rows
<1>1. /\ IsFiniteSet(rows) /\ IsFiniteSet(rest) /\ IsFiniteSet(done)
      /\ IsFiniteSet(rows \ done)
  <2>1. IsFiniteSet(rows)
    BY FS_Subset
  <2>2. IsFiniteSet(rest)
    BY FS_Difference
  <2>3. IsFiniteSet(done)
    BY <2>1, FS_Subset
  <2> QED
    BY <2>1, <2>2, <2>3, FS_Difference
<1>2. Tokens(C, charge) = Tokens(rest, charge) + Tokens(rows, charge)
  <2>1. C = rest \cup rows /\ rest \cap rows = {}
    OBVIOUS
  <2>2. Tokens(rest \cup rows, charge) = Tokens(rest, charge) + Tokens(rows, charge)
    BY <1>1, <2>1, TokensDisjoint
  <2> QED
    BY <2>1, <2>2
<1>3. Tokens(rows, actual) = Tokens(done, actual)
  <2>1. rows = done \cup (rows \ done) /\ done \cap (rows \ done) = {}
    OBVIOUS
  <2>2. Tokens(done \cup (rows \ done), actual) = Tokens(done, actual) + Tokens(rows \ done, actual)
    BY <1>1, <2>1, TokensDisjoint
  <2>3. Tokens(rows \ done, actual) = 0
    BY TokensZero
  <2>4. Tokens(done, actual) \in Nat
    BY <1>1, TokensType
  <2> QED
    BY <2>1, <2>2, <2>3, <2>4
<1>4. /\ Tokens(rest, charge1) = Tokens(rest, charge)
      /\ Tokens(done, charge1) = Tokens(done, actual)
  BY TokensSame
<1>5. Tokens(rest \cup done, charge1) = Tokens(rest, charge1) + Tokens(done, charge1)
  <2>1. rest \cap done = {} /\ \A r \in rest \cup done : charge1[r] \in Nat
    OBVIOUS
  <2> QED
    BY <1>1, <2>1, TokensDisjoint
<1>6. /\ Tokens(rest, charge) \in Nat /\ Tokens(rows, charge) \in Nat
      /\ Tokens(done, actual) \in Nat
  <2>1. /\ \A r \in rest : charge[r] \in Nat
        /\ \A r \in rows : charge[r] \in Nat
        /\ \A r \in done : actual[r] \in Nat
    OBVIOUS
  <2> QED
    BY <1>1, <2>1, TokensType
<1> HIDE DEF rest
<1>7. NotNegative(Tokens(C, charge) + Tokens(rows, actual) - Tokens(rows, charge))
        = Tokens(rest, charge) + Tokens(done, actual)
  BY <1>2, <1>3, <1>6 DEF NotNegative
<1> QED
  BY <1>4, <1>5, <1>7 DEF rest

\* Charges are natural numbers.
LEMMA ChargeType ==
  ASSUME TypeOK
  PROVE  Charge \in [Requests -> Nat]
BY TokensAssumption DEF Charge, TypeOK, Rows

\* Settling the pending requests of S, those of "done" with their actual
\* tokens and the others with none, keeps the budget exact.
LEMMA BudgetSettle ==
  ASSUME TypeOK, TypeOK', BudgetExact,
         NEW S \in SUBSET Requests, NEW done \in SUBSET S,
         NEW actual \in [Requests -> Nat], Reconcile(S, actual),
         UNCHANGED <<budget_day, budget_month>>,
         \A r \in S : Pending(r) /\ ~Pending(r)',
         Completed' = Completed \cup done,
         \A r \in Requests \ S : /\ Pending(r)' <=> Pending(r)
                                /\ tokens'[r] = tokens[r],
         \A r \in done : tokens'[r] = actual[r],
         \A r \in S \ done : actual[r] = 0
  PROVE  BudgetExact'
<1>1. /\ Charge \in [Requests -> Nat] /\ Charge' \in [Requests -> Nat]
      /\ Ceiling \in [Requests -> Nat]
  BY ChargeType, TokensAssumption DEF Charge, TypeOK, Rows
<1>2. \A r \in S : r \notin Completed /\ Charge[r] = Ceiling[r]
  BY DEF Charge, Completed, Pending
<1>3. /\ \A r \in Requests \ S : Charge'[r] = Charge[r]
      /\ \A r \in done : Charge'[r] = actual[r]
  BY DEF Charge
<1>4. ASSUME NEW p \in Projects, NEW period, NEW current, NEW C, NEW C1,
             C = {r \in Requests : /\ Pending(r) \/ r \in Completed
                                   /\ ProjectOf(r) = p /\ period[r] = current[p]},
             C1 = {r \in Requests : /\ Pending(r)' \/ r \in Completed'
                                    /\ ProjectOf(r) = p /\ period[r] = current[p]}
      PROVE  NotNegative(Tokens(C, Charge) + Tokens(ChargedTo(S, p, period, current), actual)
                           - Tokens(ChargedTo(S, p, period, current), Ceiling))
               = Tokens(C1, Charge')
  <2> DEFINE rows == ChargedTo(S, p, period, current)
             fin == done \cap rows
  <2>1. rows \in SUBSET C /\ fin \in SUBSET rows
    BY <1>4 DEF ChargedTo
  <2>2. IsFiniteSet(C)
    BY <1>4, RowsAssumption, FS_Subset
  <2>3. C \subseteq Requests
    BY <1>4
  <2>4. \A r \in C : Charge[r] \in Nat
    BY <1>1, <2>3
  <2>5. \A r \in rows : actual[r] \in Nat /\ Ceiling[r] = Charge[r]
    BY <1>2 DEF ChargedTo
  <2>6. \A r \in C \ rows : r \in Requests \ S
    BY <1>4 DEF ChargedTo
  <2>7. \A r \in C \ rows : Charge'[r] = Charge[r]
    BY <1>3, <2>6
  <2>8. \A r \in fin : Charge'[r] = actual[r]
    BY <1>3
  <2>9. \A r \in rows \ fin : actual[r] = 0
    BY DEF ChargedTo
  <2>10. C1 = (C \ rows) \cup fin
    BY <1>4, <1>2 DEF ChargedTo
  <2>11. Settles(C, rows, fin, actual, Charge, Charge')
    BY <2>1, <2>2, <2>4, <2>5, <2>7, <2>8, <2>9 DEF Settles
  <2>12. Tokens(rows, Ceiling) = Tokens(rows, Charge)
    BY <2>5, TokensSame
  <2> HIDE DEF rows, fin
  <2>13. NotNegative(Tokens(C, Charge) + Tokens(rows, actual) - Tokens(rows, Charge))
           = Tokens((C \ rows) \cup fin, Charge')
    BY <2>11, SettledTotal
  <2> QED
    BY <2>10, <2>12, <2>13 DEF rows
<1>5. ASSUME NEW p \in Projects
      PROVE  /\ daily_tokens_used'[p] =
                  Tokens(ChargedNow(p, budget_day, daily_usage_date)', Charge')
             /\ monthly_tokens_used'[p] =
                  Tokens(ChargedNow(p, budget_month, monthly_usage_month)', Charge')
  <2>1. UNCHANGED <<daily_usage_date, monthly_usage_month>>
    BY DEF Reconcile, periodVars
  <2>2. daily_tokens_used'[p] =
          NotNegative(Tokens(ChargedNow(p, budget_day, daily_usage_date), Charge)
            + Tokens(ChargedTo(S, p, budget_day, daily_usage_date), actual)
            - Tokens(ChargedTo(S, p, budget_day, daily_usage_date), Ceiling))
    BY DEF Reconcile, Reconciled, BudgetExact
  <2>3. monthly_tokens_used'[p] =
          NotNegative(Tokens(ChargedNow(p, budget_month, monthly_usage_month), Charge)
            + Tokens(ChargedTo(S, p, budget_month, monthly_usage_month), actual)
            - Tokens(ChargedTo(S, p, budget_month, monthly_usage_month), Ceiling))
    BY DEF Reconcile, Reconciled, BudgetExact
  <2> QED
    BY <1>4, <2>1, <2>2, <2>3 DEF ChargedNow, ProjectOf
<1> QED
  BY <1>5 DEF BudgetExact

\* Steps that change neither the charges nor the counters.
LEMMA BudgetKept ==
  ASSUME TypeOK, BudgetExact, UNCHANGED <<usedVars, periodVars, budget_day, budget_month, tokens>>,
         Completed' = Completed, \A r \in Requests : Pending(r)' <=> Pending(r)
  PROVE  BudgetExact'
<1>1. Charge' = Charge
  BY DEF Charge
<1>2. \A p \in Projects :
        /\ ChargedNow(p, budget_day, daily_usage_date)' = ChargedNow(p, budget_day, daily_usage_date)
        /\ ChargedNow(p, budget_month, monthly_usage_month)' =
             ChargedNow(p, budget_month, monthly_usage_month)
  BY DEF ChargedNow, ProjectOf, periodVars
<1> QED
  BY <1>1, <1>2 DEF BudgetExact, usedVars

\* One more request in a total.
LEMMA ReservedTotal ==
  ASSUME NEW C \in SUBSET Requests, NEW r \in Requests, r \notin C,
         NEW charge \in [Requests -> Nat], NEW n \in Nat
  PROVE  Tokens(C \cup {r}, [charge EXCEPT ![r] = n]) = Tokens(C, charge) + n
<1> DEFINE charge1 == [charge EXCEPT ![r] = n]
<1>1. IsFiniteSet(C) /\ IsFiniteSet({r}) /\ C \cap {r} = {}
  BY RowsAssumption, FS_Subset, FS_Singleton
<1>2. /\ charge1 \in [Requests -> Nat] /\ charge1[r] = n
      /\ \A q \in C : charge[q] = charge1[q]
  OBVIOUS
<1> HIDE DEF charge1
<1>3. Tokens(C \cup {r}, charge1) = Tokens(C, charge1) + Tokens({r}, charge1)
  BY <1>1, <1>2, TokensDisjoint
<1>4. Tokens({r}, charge1) = n
  BY <1>2, TokensOne
<1>5. Tokens(C, charge) = Tokens(C, charge1)
  BY <1>2, TokensSame
<1> QED
  BY <1>3, <1>4, <1>5 DEF charge1

\* Accepting a request keeps the budget exact, in the running period and when
\* it opens a new one: no earlier request is charged to the new one.
LEMMA BudgetAccept ==
  ASSUME QueueInv, PeriodInv, BudgetExact, NEW r \in Requests, NEW started \in Recent,
         Accept(r, started)
  PROVE  BudgetExact'
<1> DEFINE p == ProjectOf(r)
           today == DayOf[now]
           month == MonthOf[today]
<1>1. /\ p \in Projects /\ Ceiling[r] \in Nat /\ today \in Nat /\ month \in Nat
      /\ Charge \in [Requests -> Nat]
      /\ \A q \in Projects : daily_usage_date[q] \in Nat /\ monthly_usage_month[q] \in Nat
      /\ \A q \in Requests : budget_day[q] \in Nat /\ budget_month[q] \in Nat
  BY ProjectType, TokensAssumption, DatesNat, ChargeType DEF QueueInv, TypeOK, Rows, Days, Months
<1>2. /\ status[r] = "ABSENT" /\ status' = [status EXCEPT ![r] = "QUEUED"]
      /\ budget_day' = [budget_day EXCEPT ![r] = today]
      /\ budget_month' = [budget_month EXCEPT ![r] = month]
      /\ daily_usage_date' = [daily_usage_date EXCEPT ![p] = today]
      /\ monthly_usage_month' = [monthly_usage_month EXCEPT ![p] = month]
      /\ daily_tokens_used' = [daily_tokens_used EXCEPT ![p] =
           UsedInPeriod(daily_tokens_used[p], daily_usage_date[p], today) + Ceiling[r]]
      /\ monthly_tokens_used' = [monthly_tokens_used EXCEPT ![p] =
           UsedInPeriod(monthly_tokens_used[p], monthly_usage_month[p], month) + Ceiling[r]]
      /\ tokens' = tokens
  BY DEF Accept, Reserve, Today, answerVars
<1>3. Charge' = [Charge EXCEPT ![r] = Ceiling[r]]
  BY <1>2 DEF Charge, Pending, QueueInv, TypeOK, Rows
<1>4. /\ daily_usage_date[p] <= today /\ monthly_usage_month[p] <= month
      /\ \A q \in Requests : status[q] # "ABSENT" =>
           /\ budget_day[q] <= daily_usage_date[ProjectOf(q)]
           /\ budget_month[q] <= monthly_usage_month[ProjectOf(q)]
  BY <1>1 DEF PeriodInv
<1> HIDE DEF p, today, month
<1>5. \A q \in Requests \ {r} :
        /\ status'[q] = status[q]
        /\ budget_day'[q] = budget_day[q] /\ budget_month'[q] = budget_month[q]
  BY <1>2 DEF QueueInv, TypeOK, Rows
<1>6. status'[r] = "QUEUED" /\ budget_day'[r] = today /\ budget_month'[r] = month
  BY <1>2 DEF QueueInv, TypeOK, Rows
<1>7. ASSUME NEW q \in Projects \ {p}
      PROVE  /\ daily_tokens_used'[q] = Tokens(ChargedNow(q, budget_day, daily_usage_date)', Charge')
             /\ monthly_tokens_used'[q] = Tokens(ChargedNow(q, budget_month, monthly_usage_month)', Charge')
  <2> DEFINE D == ChargedNow(q, budget_day, daily_usage_date)
             M == ChargedNow(q, budget_month, monthly_usage_month)
  <2>1. /\ D \in SUBSET Requests /\ M \in SUBSET Requests
        /\ r \notin D /\ r \notin M
    BY DEF ChargedNow, p
  <2>2. /\ daily_usage_date'[q] = daily_usage_date[q]
        /\ monthly_usage_month'[q] = monthly_usage_month[q]
        /\ daily_tokens_used'[q] = daily_tokens_used[q]
        /\ monthly_tokens_used'[q] = monthly_tokens_used[q]
    BY <1>2 DEF QueueInv, TypeOK
  <2>3. ChargedNow(q, budget_day, daily_usage_date)' = D
    BY <1>5, <1>2, <2>2 DEF ChargedNow, ProjectOf, Pending, Completed, p
  <2>4. ChargedNow(q, budget_month, monthly_usage_month)' = M
    BY <1>5, <1>2, <2>2 DEF ChargedNow, ProjectOf, Pending, Completed, p
  <2> HIDE DEF D, M
  <2>5. \A C \in {D, M} : \A x \in C : Charge'[x] = Charge[x]
    BY <1>1, <1>3, <2>1
  <2>6. Tokens(D, Charge') = Tokens(D, Charge) /\ Tokens(M, Charge') = Tokens(M, Charge)
    BY <2>5, TokensSame
  <2> QED
    BY <2>2, <2>3, <2>4, <2>6 DEF BudgetExact, D, M
<1>8. daily_tokens_used'[p] = Tokens(ChargedNow(p, budget_day, daily_usage_date)', Charge')
  <2> DEFINE D == ChargedNow(p, budget_day, daily_usage_date)
  <2>1. /\ daily_usage_date'[p] = today
        /\ daily_tokens_used'[p] =
             UsedInPeriod(daily_tokens_used[p], daily_usage_date[p], today) + Ceiling[r]
    BY <1>1, <1>2 DEF QueueInv, TypeOK
  <2>2. CASE daily_usage_date[p] = today
    <3>1. D \in SUBSET Requests /\ r \notin D
      BY <1>2 DEF ChargedNow, Pending, Completed
    <3>2. ChargedNow(p, budget_day, daily_usage_date)' = D \cup {r}
      BY <1>5, <1>6, <2>1, <2>2 DEF ChargedNow, ProjectOf, Pending, Completed, p
    <3> HIDE DEF D
    <3>3. Tokens(D \cup {r}, Charge') = Tokens(D, Charge) + Ceiling[r]
      BY <1>1, <1>3, <3>1, ReservedTotal
    <3> QED
      BY <1>1, <2>1, <2>2, <3>2, <3>3 DEF BudgetExact, UsedInPeriod, D
  <2>3. CASE daily_usage_date[p] # today
    <3>1. \A q \in Requests \ {r} : status[q] # "ABSENT" /\ ProjectOf(q) = p => budget_day[q] # today
      BY <1>1, <1>4, <2>3
    <3>2. ChargedNow(p, budget_day, daily_usage_date)' = {r}
      BY <1>5, <1>6, <2>1, <3>1 DEF ChargedNow, ProjectOf, Pending, Completed, p
    <3>3. Charge'[r] = Ceiling[r]
      BY <1>1, <1>3
    <3>4. Tokens({r}, Charge') = Ceiling[r]
      BY <1>1, <3>3, TokensOne
    <3> QED
      BY <1>1, <2>1, <2>3, <3>2, <3>4 DEF UsedInPeriod
  <2> QED
    BY <2>2, <2>3
<1>9. monthly_tokens_used'[p] = Tokens(ChargedNow(p, budget_month, monthly_usage_month)', Charge')
  <2> DEFINE M == ChargedNow(p, budget_month, monthly_usage_month)
  <2>1. /\ monthly_usage_month'[p] = month
        /\ monthly_tokens_used'[p] =
             UsedInPeriod(monthly_tokens_used[p], monthly_usage_month[p], month) + Ceiling[r]
    BY <1>1, <1>2 DEF QueueInv, TypeOK
  <2>2. CASE monthly_usage_month[p] = month
    <3>1. M \in SUBSET Requests /\ r \notin M
      BY <1>2 DEF ChargedNow, Pending, Completed
    <3>2. ChargedNow(p, budget_month, monthly_usage_month)' = M \cup {r}
      BY <1>5, <1>6, <2>1, <2>2 DEF ChargedNow, ProjectOf, Pending, Completed, p
    <3> HIDE DEF M
    <3>3. Tokens(M \cup {r}, Charge') = Tokens(M, Charge) + Ceiling[r]
      BY <1>1, <1>3, <3>1, ReservedTotal
    <3> QED
      BY <1>1, <2>1, <2>2, <3>2, <3>3 DEF BudgetExact, UsedInPeriod, M
  <2>3. CASE monthly_usage_month[p] # month
    <3>1. \A q \in Requests \ {r} : status[q] # "ABSENT" /\ ProjectOf(q) = p => budget_month[q] # month
      BY <1>1, <1>4, <2>3
    <3>2. ChargedNow(p, budget_month, monthly_usage_month)' = {r}
      BY <1>5, <1>6, <2>1, <3>1 DEF ChargedNow, ProjectOf, Pending, Completed, p
    <3>3. Charge'[r] = Ceiling[r]
      BY <1>1, <1>3
    <3>4. Tokens({r}, Charge') = Ceiling[r]
      BY <1>1, <3>3, TokensOne
    <3> QED
      BY <1>1, <2>1, <2>3, <3>2, <3>4 DEF UsedInPeriod
  <2> QED
    BY <2>2, <2>3
<1> QED
  BY <1>7, <1>8, <1>9 DEF BudgetExact

\* Every step keeps the budget exact.
LEMMA BudgetStep ==
  ASSUME QueueInv, PeriodInv, BudgetExact, [Next]_vars
  PROVE  BudgetExact'
<1>1. TypeOK /\ TypeOK'
  BY TypeStep DEF QueueInv
<1> USE DEF QueueInv, TypeOK, Rows
<1>2. ASSUME NEW r \in Requests, NEW w \in Workers, NEW v \in Results,
             NEW n \in Reports, CommitResult(r, w, v, n)
      PROVE  BudgetExact'
  <2> DEFINE actual == [tokens EXCEPT ![r] = n]
  <2>1. /\ n \in Nat /\ actual \in [Requests -> Nat] /\ tokens' = actual /\ actual[r] = n
        /\ \A q \in Requests \ {r} : tokens'[q] = tokens[q] /\ status'[q] = status[q]
        /\ status[r] = "ASSIGNED" /\ status'[r] = "COMPLETED"
        /\ UNCHANGED <<budget_day, budget_month>>
    BY <1>2, TokensAssumption DEF CommitResult, AcceptsFrom, InFlight, insertVars
  <2>2. Reconcile({r}, actual)
    BY <1>2 DEF CommitResult
  <2> HIDE DEF actual
  <2>3. Completed' = Completed \cup {r}
    BY <2>1 DEF Completed
  <2>4. /\ \A q \in {r} : Pending(q) /\ ~Pending(q)' /\ tokens'[q] = actual[q]
        /\ \A q \in Requests \ {r} : (Pending(q)' <=> Pending(q)) /\ tokens'[q] = tokens[q]
        /\ {r} \in SUBSET Requests /\ {r} \in SUBSET {r}
        /\ \A q \in {r} \ {r} : actual[q] = 0
    BY <2>1 DEF Pending
  <2> QED
    BY <1>1, <2>1, <2>2, <2>3, <2>4, BudgetSettle
<1>3. ASSUME NEW S \in SUBSET Requests, Release(S), UNCHANGED <<budget_day, budget_month, tokens>>,
             \A r \in S : Pending(r) /\ ~Pending(r)',
             Completed' = Completed,
             \A r \in Requests \ S : Pending(r)' <=> Pending(r)
      PROVE  BudgetExact'
  <2> DEFINE none == [r \in Requests |-> 0]
  <2>1. none \in [Requests -> Nat] /\ \A r \in S \ {} : none[r] = 0
    OBVIOUS
  <2>2. Reconcile(S, none)
    BY <1>3 DEF Release
  <2>3. /\ {} \in SUBSET S /\ Completed' = Completed \cup {}
        /\ \A r \in {} : tokens'[r] = none[r]
        /\ \A r \in Requests \ S : (Pending(r)' <=> Pending(r)) /\ tokens'[r] = tokens[r]
    BY <1>3
  <2> HIDE DEF none
  <2> QED
    BY <1>1, <1>3, <2>1, <2>2, <2>3, BudgetSettle
<1>4. ASSUME NEW r \in Requests, NEW w \in Workers, NEW retryable \in BOOLEAN,
             RecordError(r, w, retryable)
      PROVE  BudgetExact'
  <2>1. /\ UNCHANGED <<budget_day, budget_month, tokens>>
        /\ status[r] = "ASSIGNED"
    BY <1>4 DEF RecordError, AcceptsFrom, InFlight, insertVars, answerVars
  <2>2. CASE retryable /\ MayRetry(r)
    <3>1. status' = [status EXCEPT ![r] = "QUEUED"] /\ UNCHANGED <<usedVars, periodVars>>
      BY <1>4, <2>2 DEF RecordError
    <3>2. Completed' = Completed /\ \A q \in Requests : Pending(q)' <=> Pending(q)
      BY <2>1, <3>1 DEF Completed, Pending
    <3> QED
      BY <1>1, <2>1, <3>1, <3>2, BudgetKept
  <2>3. CASE ~(retryable /\ MayRetry(r))
    <3>1. status' = [status EXCEPT ![r] = "FAILED_FINAL"] /\ Release({r})
      BY <1>4, <2>3 DEF RecordError
    <3>2. /\ Completed' = Completed
          /\ \A q \in Requests \ {r} : Pending(q)' <=> Pending(q)
          /\ \A q \in {r} : Pending(q) /\ ~Pending(q)'
          /\ {r} \in SUBSET Requests
      BY <2>1, <3>1 DEF Completed, Pending
    <3> QED
      BY <1>3, <2>1, <3>1, <3>2
  <2> QED
    BY <2>2, <2>3
<1>5. ASSUME NEW t \in Recent, Recover(t)
      PROVE  BudgetExact'
  <2> DEFINE S == Exhausted(t) \cup Expirable(t)
  <2>1. /\ S \in SUBSET Requests
        /\ \A r \in S \cup Requeueable(t) : status[r] \in {"QUEUED", "ASSIGNED"}
    BY DEF Requeueable, Exhausted, Expirable, Lapsed, InFlight
  <2>2. /\ \A r \in S : status'[r] \in {"EXPIRED", "FAILED_FINAL"}
        /\ \A r \in Requests \ S :
             status'[r] = IF r \in Requeueable(t) THEN "QUEUED" ELSE status[r]
        /\ Release(S)
        /\ UNCHANGED <<budget_day, budget_month, tokens>>
    <3>1. \A r \in Requests : status'[r] =
            IF r \in Expirable(t) THEN "EXPIRED"
            ELSE IF r \in Exhausted(t) THEN "FAILED_FINAL"
            ELSE IF r \in Requeueable(t) THEN "QUEUED"
            ELSE status[r]
      BY <1>5 DEF Recover
    <3>2. /\ \A r \in S : status'[r] \in {"EXPIRED", "FAILED_FINAL"}
          /\ \A r \in Requests \ S :
               status'[r] = IF r \in Requeueable(t) THEN "QUEUED" ELSE status[r]
      BY <2>1, <3>1
    <3>3. Release(S) /\ UNCHANGED <<budget_day, budget_month, tokens>>
      BY <1>5 DEF Recover, insertVars, answerVars
    <3> QED
      BY <3>2, <3>3
  <2> HIDE DEF S
  <2>3. /\ Completed' = Completed
        /\ \A r \in S : Pending(r) /\ ~Pending(r)'
        /\ \A r \in Requests \ S : Pending(r)' <=> Pending(r)
    BY <2>1, <2>2 DEF Completed, Pending
  <2> QED
    BY <1>3, <2>1, <2>2, <2>3
<1>6. ASSUME NEW w \in Workers, NEW t \in Recent, ClaimSelect(w, t)
      PROVE  BudgetExact'
  BY <1>1, <1>6, BudgetKept DEF ClaimSelect, Completed, Pending, insertVars, assignVars, answerVars
<1>7. ASSUME NEW c \in claims, ClaimCommit(c)
      PROVE  BudgetExact'
  <2>1. c.row \in Requests /\ status[c.row] = "QUEUED"
    BY DEF ClaimsSound
  <2>2. /\ status' = [status EXCEPT ![c.row] = "ASSIGNED"]
        /\ UNCHANGED <<usedVars, periodVars, budget_day, budget_month, tokens>>
    BY <1>7 DEF ClaimCommit, insertVars, answerVars
  <2>3. Completed' = Completed /\ \A q \in Requests : Pending(q)' <=> Pending(q)
    BY <2>1, <2>2 DEF Completed, Pending
  <2> QED
    BY <1>1, <2>2, <2>3, BudgetKept
<1>8. ASSUME NEW c \in claims, ClaimAbort(c)
      PROVE  BudgetExact'
  BY <1>1, <1>8, BudgetKept DEF ClaimAbort, Completed, Pending, insertVars, assignVars, answerVars
<1>9. ASSUME Tick \/ UNCHANGED vars
      PROVE  BudgetExact'
  BY <1>1, <1>9, BudgetKept DEF Tick, vars, Completed, Pending, insertVars, assignVars, answerVars
<1> QED
  BY <1>2, <1>4, <1>5, <1>6, <1>7, <1>8, <1>9, BudgetAccept DEF Next

\* In every reachable state the counters of every project are exactly what
\* its pending requests reserved and its completed ones used in the current
\* day and month: no reservation is lost, released twice or charged to the
\* wrong period, and the clamp at zero never hides an error.
THEOREM BudgetSafe == Spec => []BudgetExact
<1>1. Init => BudgetExact
  <2> SUFFICES ASSUME Init, NEW p \in Projects
               PROVE  /\ daily_tokens_used[p] =
                           Tokens(ChargedNow(p, budget_day, daily_usage_date), Charge)
                      /\ monthly_tokens_used[p] =
                           Tokens(ChargedNow(p, budget_month, monthly_usage_month), Charge)
    BY DEF BudgetExact
  <2>1. /\ ChargedNow(p, budget_day, daily_usage_date) = {}
        /\ ChargedNow(p, budget_month, monthly_usage_month) = {}
    BY DEF Init, ChargedNow, Pending, Completed
  <2> QED
    BY <2>1, TokensEmpty DEF Init
<1>2. QueueInv /\ PeriodInv /\ BudgetExact /\ [Next]_vars =>
        QueueInv' /\ PeriodInv' /\ BudgetExact'
  BY QueueStep, PeriodStep, BudgetStep
<1> QED
  BY <1>1, <1>2, QueueInit, PeriodInit, PTL DEF Spec

-----------------------------------------------------------------------------
(* The limits: a counter passes one only by what workers over-report.        *)

\* Excesses are natural numbers, and only answered requests have one.
LEMMA ExcessType ==
  ASSUME TypeOK
  PROVE  /\ Excess \in [Requests -> Nat]
         /\ \A r \in Requests : r \notin Completed => Excess[r] = 0
BY TokensAssumption DEF Excess, NotNegative, TypeOK, Rows

\* The answer to r, with n tokens, adds to a counter of the requests C at most
\* what n is above the ceiling.
LEMMA AnsweredWithin ==
  ASSUME NEW C \in SUBSET Requests, NEW r \in Requests, NEW n \in Nat,
         NEW actual, actual[r] = n, NEW excess \in [Requests -> Nat], excess[r] = 0,
         NEW used \in Nat, NEW L \in Nat, used <= L + Tokens(C, excess)
  PROVE  NotNegative(used + Tokens(C \cap {r}, actual) - Tokens(C \cap {r}, Ceiling))
           <= L + Tokens(C, [excess EXCEPT ![r] = NotNegative(n - Ceiling[r])])
<1> DEFINE over == NotNegative(n - Ceiling[r])
           excess1 == [excess EXCEPT ![r] = over]
<1>1. Ceiling[r] \in Nat /\ over \in Nat /\ n - Ceiling[r] <= over
  BY TokensAssumption DEF NotNegative
<1>2. CASE r \in C
  <2>1. C \cap {r} = {r} /\ C = (C \ {r}) \cup {r} /\ C \ {r} \in SUBSET Requests
    BY <1>2
  <2>2. Tokens({r}, actual) = n /\ Tokens({r}, Ceiling) = Ceiling[r]
    BY <1>1, TokensOne
  <2>3. Tokens((C \ {r}) \cup {r}, excess1) = Tokens(C \ {r}, excess) + over
    <3>1. r \notin C \ {r}
      OBVIOUS
    <3> HIDE DEF over
    <3> QED BY <1>1, <2>1, <3>1, ReservedTotal
  <2>4. Tokens(C \ {r}, excess) \in Nat
    <3>1. IsFiniteSet(C \ {r}) /\ \A q \in C \ {r} : excess[q] \in Nat
      BY <2>1, RowsAssumption, FS_Subset
    <3> QED BY <3>1, TokensType
  <2>5. Tokens(C, excess) = Tokens(C \ {r}, excess)
    <3>1. IsFiniteSet(C \ {r}) /\ IsFiniteSet({r}) /\ (C \ {r}) \cap {r} = {}
      BY <2>1, RowsAssumption, FS_Subset, FS_Singleton
    <3>2. \A q \in (C \ {r}) \cup {r} : excess[q] \in Nat
      OBVIOUS
    <3>3. Tokens((C \ {r}) \cup {r}, excess) = Tokens(C \ {r}, excess) + Tokens({r}, excess)
      BY <3>1, <3>2, TokensDisjoint
    <3>4. Tokens({r}, excess) = 0
      BY TokensOne
    <3>5. Tokens(C, excess) = Tokens((C \ {r}) \cup {r}, excess)
      BY <2>1
    <3> QED BY <2>4, <3>3, <3>4, <3>5
  <2> HIDE DEF over, excess1
  <2>6. NotNegative(used + n - Ceiling[r]) <= L + (Tokens(C \ {r}, excess) + over)
    BY <1>1, <2>4, <2>5 DEF NotNegative
  <2>7. Tokens(C, excess1) = Tokens(C \ {r}, excess) + over
    BY <2>1, <2>3
  <2> QED BY <2>1, <2>2, <2>6, <2>7 DEF over, excess1
<1>3. CASE r \notin C
  <2>1. C \cap {r} = {} /\ \A q \in C : excess1[q] = excess[q]
    BY <1>3
  <2>2. Tokens(C \cap {r}, actual) = 0 /\ Tokens(C \cap {r}, Ceiling) = 0
    BY <2>1, TokensEmpty
  <2>3. Tokens(C, excess1) = Tokens(C, excess)
    BY <2>1, TokensSame
  <2> QED BY <2>2, <2>3 DEF NotNegative
<1> QED BY <1>2, <1>3

\* Releasing requests of C that had no excess lowers the counter only.
LEMMA ReleasedWithin ==
  ASSUME NEW C \in SUBSET Requests, NEW S \in SUBSET Requests,
         NEW excess \in [Requests -> Nat], \A r \in S : excess[r] = 0,
         NEW used \in Nat, NEW L \in Nat, used <= L + Tokens(C, excess),
         NEW less \in Nat, less <= used
  PROVE  less <= L + Tokens(C \ S, excess)
<1>1. IsFiniteSet(C \ S) /\ IsFiniteSet(C \cap S) /\ (C \ S) \cap (C \cap S) = {}
      /\ C = (C \ S) \cup (C \cap S)
  BY RowsAssumption, FS_Subset
<1>2. \A r \in (C \ S) \cup (C \cap S) : excess[r] \in Nat
  OBVIOUS
<1>3. Tokens((C \ S) \cup (C \cap S), excess) = Tokens(C \ S, excess) + Tokens(C \cap S, excess)
  BY <1>1, <1>2, TokensDisjoint
<1>4. Tokens(C \cap S, excess) = 0 /\ Tokens(C \ S, excess) \in Nat
  BY <1>1, <1>2, TokensZero, TokensType
<1> QED BY <1>1, <1>3, <1>4

\* Steps that change neither the counters nor what they count.
LEMMA OverrunKept ==
  ASSUME OverrunExplained, UNCHANGED <<usedVars, periodVars, budget_day, budget_month, tokens>>,
         Completed' = Completed, \A r \in Requests : Pending(r)' <=> Pending(r)
  PROVE  OverrunExplained'
<1>1. Excess' = Excess
  BY DEF Excess
<1>2. \A p \in Projects :
        /\ ChargedNow(p, budget_day, daily_usage_date)' = ChargedNow(p, budget_day, daily_usage_date)
        /\ ChargedNow(p, budget_month, monthly_usage_month)' =
             ChargedNow(p, budget_month, monthly_usage_month)
  BY DEF ChargedNow, ProjectOf, periodVars
<1> QED BY <1>1, <1>2 DEF OverrunExplained, usedVars

\* Releasing the pending requests of S.
LEMMA OverrunRelease ==
  ASSUME TypeOK, OverrunExplained, NEW S \in SUBSET Requests, Release(S),
         UNCHANGED <<budget_day, budget_month, tokens>>,
         \A r \in S : Pending(r) /\ ~Pending(r)',
         Completed' = Completed,
         \A r \in Requests \ S : Pending(r)' <=> Pending(r)
  PROVE  OverrunExplained'
<1> DEFINE none == [r \in Requests |-> 0]
<1>1. none \in [Requests -> Nat] /\ \A r \in S : none[r] <= Ceiling[r]
  BY TokensAssumption
<1>2. Reconcile(S, none) /\ UNCHANGED periodVars
  BY DEF Release, Reconcile
<1> HIDE DEF none
<1>3. /\ daily_tokens_used' \in [Projects -> Nat] /\ monthly_tokens_used' \in [Projects -> Nat]
      /\ daily_tokens_used \in [Projects -> Nat] /\ monthly_tokens_used \in [Projects -> Nat]
  BY <1>1, <1>2, ReconcileType DEF TypeOK
<1>4. \A p \in Projects : /\ daily_tokens_used'[p] <= daily_tokens_used[p]
                          /\ monthly_tokens_used'[p] <= monthly_tokens_used[p]
  BY <1>1, <1>2, <1>3, ReconciledNotMore DEF Reconcile
<1>5. Excess' = Excess /\ Excess \in [Requests -> Nat] /\ \A r \in S : Excess[r] = 0
  BY ExcessType DEF Excess, Pending, Completed
<1>6. SUFFICES ASSUME NEW p \in Projects
               PROVE  /\ daily_tokens_used'[p] <= DailyLimit +
                           Tokens(ChargedNow(p, budget_day, daily_usage_date)', Excess')
                      /\ monthly_tokens_used'[p] <= MonthlyLimit +
                           Tokens(ChargedNow(p, budget_month, monthly_usage_month)', Excess')
  BY DEF OverrunExplained
<1> DEFINE D == ChargedNow(p, budget_day, daily_usage_date)
           M == ChargedNow(p, budget_month, monthly_usage_month)
<1>7. D \in SUBSET Requests /\ M \in SUBSET Requests
  BY DEF ChargedNow
<1>8. /\ ChargedNow(p, budget_day, daily_usage_date)' = D \ S
      /\ ChargedNow(p, budget_month, monthly_usage_month)' = M \ S
  <2>1. \A r \in Requests : Pending(r)' \/ r \in Completed'
                              <=> (Pending(r) \/ r \in Completed) /\ r \notin S
    BY DEF Completed, Pending
  <2> QED BY <1>2, <2>1 DEF ChargedNow, ProjectOf, periodVars
<1>9. /\ daily_tokens_used[p] <= DailyLimit + Tokens(D, Excess)
      /\ monthly_tokens_used[p] <= MonthlyLimit + Tokens(M, Excess)
  BY DEF OverrunExplained
<1> HIDE DEF D, M
<1>10. daily_tokens_used'[p] <= DailyLimit + Tokens(D \ S, Excess)
  BY <1>3, <1>4, <1>5, <1>7, <1>9, TokensAssumption, ReleasedWithin
<1>11. monthly_tokens_used'[p] <= MonthlyLimit + Tokens(M \ S, Excess)
  BY <1>3, <1>4, <1>5, <1>7, <1>9, TokensAssumption, ReleasedWithin
<1> QED BY <1>5, <1>8, <1>10, <1>11

\* An answer.
LEMMA OverrunAnswer ==
  ASSUME QueueInv, OverrunExplained, NEW r \in Requests, NEW w \in Workers,
         NEW v \in Results, NEW n \in Reports, CommitResult(r, w, v, n)
  PROVE  OverrunExplained'
<1> DEFINE actual == [tokens EXCEPT ![r] = n]
<1>1. /\ n \in Nat /\ tokens' = actual /\ actual[r] = n /\ TypeOK
      /\ \A q \in Requests \ {r} : tokens'[q] = tokens[q] /\ status'[q] = status[q]
      /\ status[r] = "ASSIGNED" /\ status'[r] = "COMPLETED"
      /\ UNCHANGED <<budget_day, budget_month>>
  BY TokensAssumption DEF CommitResult, AcceptsFrom, InFlight, insertVars, QueueInv, TypeOK, Rows
<1>2. Reconcile({r}, actual) /\ UNCHANGED periodVars
  BY DEF CommitResult, Reconcile
<1> HIDE DEF actual
<1>3. Excess \in [Requests -> Nat] /\ Excess[r] = 0
  BY <1>1, ExcessType DEF Completed
<1>4. Excess' = [Excess EXCEPT ![r] = NotNegative(n - Ceiling[r])]
  BY <1>1, <1>3 DEF Excess, Completed
<1>5. daily_tokens_used \in [Projects -> Nat] /\ monthly_tokens_used \in [Projects -> Nat]
  BY <1>1 DEF TypeOK
<1>6. SUFFICES ASSUME NEW p \in Projects
               PROVE  /\ daily_tokens_used'[p] <= DailyLimit +
                           Tokens(ChargedNow(p, budget_day, daily_usage_date)', Excess')
                      /\ monthly_tokens_used'[p] <= MonthlyLimit +
                           Tokens(ChargedNow(p, budget_month, monthly_usage_month)', Excess')
  BY DEF OverrunExplained
<1> DEFINE D == ChargedNow(p, budget_day, daily_usage_date)
           M == ChargedNow(p, budget_month, monthly_usage_month)
<1>7. D \in SUBSET Requests /\ M \in SUBSET Requests
  BY DEF ChargedNow
<1>8. /\ ChargedNow(p, budget_day, daily_usage_date)' = D
      /\ ChargedNow(p, budget_month, monthly_usage_month)' = M
  <2>1. \A q \in Requests : Pending(q)' \/ q \in Completed' <=> Pending(q) \/ q \in Completed
    BY <1>1 DEF Completed, Pending
  <2> QED BY <1>1, <1>2, <2>1 DEF ChargedNow, ProjectOf, periodVars
<1>9. /\ ChargedTo({r}, p, budget_day, daily_usage_date) = D \cap {r}
      /\ ChargedTo({r}, p, budget_month, monthly_usage_month) = M \cap {r}
  BY <1>1 DEF ChargedTo, ChargedNow, Pending
<1>10. /\ daily_tokens_used[p] <= DailyLimit + Tokens(D, Excess)
       /\ monthly_tokens_used[p] <= MonthlyLimit + Tokens(M, Excess)
  BY DEF OverrunExplained
<1>11. /\ daily_tokens_used'[p] = NotNegative(daily_tokens_used[p]
             + Tokens(D \cap {r}, actual) - Tokens(D \cap {r}, Ceiling))
       /\ monthly_tokens_used'[p] = NotNegative(monthly_tokens_used[p]
             + Tokens(M \cap {r}, actual) - Tokens(M \cap {r}, Ceiling))
  BY <1>2, <1>9 DEF Reconcile, Reconciled
<1> HIDE DEF D, M
<1>12. daily_tokens_used'[p] <= DailyLimit + Tokens(D, Excess')
  <2>1. daily_tokens_used[p] \in Nat /\ DailyLimit \in Nat
    BY <1>5, TokensAssumption
  <2>2. NotNegative(daily_tokens_used[p] + Tokens(D \cap {r}, actual) - Tokens(D \cap {r}, Ceiling))
          <= DailyLimit + Tokens(D, [Excess EXCEPT ![r] = NotNegative(n - Ceiling[r])])
    BY <1>1, <1>3, <1>7, <1>10, <2>1, AnsweredWithin
  <2> QED BY <1>4, <1>11, <2>2
<1>13. monthly_tokens_used'[p] <= MonthlyLimit + Tokens(M, Excess')
  <2>1. monthly_tokens_used[p] \in Nat /\ MonthlyLimit \in Nat
    BY <1>5, TokensAssumption
  <2>2. NotNegative(monthly_tokens_used[p] + Tokens(M \cap {r}, actual) - Tokens(M \cap {r}, Ceiling))
          <= MonthlyLimit + Tokens(M, [Excess EXCEPT ![r] = NotNegative(n - Ceiling[r])])
    BY <1>1, <1>3, <1>7, <1>10, <2>1, AnsweredWithin
  <2> QED BY <1>4, <1>11, <2>2
<1> QED BY <1>8, <1>12, <1>13

\* What one recovery cycle settles, and what it leaves pending.
LEMMA RecoverySets ==
  ASSUME TypeOK, NEW t \in Recent, Recover(t)
  PROVE  LET S == Exhausted(t) \cup Expirable(t)
         IN  /\ S \in SUBSET Requests
             /\ Completed' = Completed
             /\ \A r \in S : Pending(r) /\ ~Pending(r)'
             /\ \A r \in Requests \ S : Pending(r)' <=> Pending(r)
<1> DEFINE S == Exhausted(t) \cup Expirable(t)
<1>1. /\ S \in SUBSET Requests
      /\ \A r \in S \cup Requeueable(t) : status[r] \in {"QUEUED", "ASSIGNED"}
  BY DEF Requeueable, Exhausted, Expirable, Lapsed, InFlight
<1>2. \A r \in Requests : status'[r] =
        IF r \in Expirable(t) THEN "EXPIRED"
        ELSE IF r \in Exhausted(t) THEN "FAILED_FINAL"
        ELSE IF r \in Requeueable(t) THEN "QUEUED"
        ELSE status[r]
  BY DEF Recover
<1>3. /\ \A r \in S : status'[r] \in {"EXPIRED", "FAILED_FINAL"}
      /\ \A r \in Requests \ S : status'[r] = IF r \in Requeueable(t) THEN "QUEUED" ELSE status[r]
  BY <1>1, <1>2
<1> HIDE DEF S
<1>4. /\ Completed' = Completed
      /\ \A r \in S : Pending(r) /\ ~Pending(r)'
      /\ \A r \in Requests \ S : Pending(r)' <=> Pending(r)
  BY <1>1, <1>3 DEF Completed, Pending
<1> QED BY <1>1, <1>4 DEF S

\* A reservation raises a counter to its limit at most, and the counters of
\* other projects count what they did.
LEMMA OverrunAccept ==
  ASSUME QueueInv, OverrunExplained, NEW r \in Requests, NEW started \in Recent,
         Accept(r, started)
  PROVE  OverrunExplained'
<1> DEFINE today == DayOf[now]
           daily == UsedInPeriod(daily_tokens_used[ProjectOf(r)],
                                 daily_usage_date[ProjectOf(r)], today)
           monthly == UsedInPeriod(monthly_tokens_used[ProjectOf(r)],
                                   monthly_usage_month[ProjectOf(r)], MonthOf[today])
<1>1. /\ status[r] = "ABSENT" /\ status' = [status EXCEPT ![r] = "QUEUED"]
      /\ budget_day' = [budget_day EXCEPT ![r] = today]
      /\ budget_month' = [budget_month EXCEPT ![r] = MonthOf[today]]
      /\ daily_usage_date' = [daily_usage_date EXCEPT ![ProjectOf(r)] = today]
      /\ monthly_usage_month' = [monthly_usage_month EXCEPT ![ProjectOf(r)] = MonthOf[today]]
      /\ daily + Ceiling[r] <= DailyLimit
      /\ monthly + Ceiling[r] <= MonthlyLimit
      /\ daily_tokens_used' = [daily_tokens_used EXCEPT ![ProjectOf(r)] = daily + Ceiling[r]]
      /\ monthly_tokens_used' = [monthly_tokens_used EXCEPT ![ProjectOf(r)] = monthly + Ceiling[r]]
      /\ tokens' = tokens
  BY DEF Accept, Reserve, Today, WithinLimit, answerVars
<1> HIDE DEF today, daily, monthly
<1>2. TypeOK /\ TypeOK' /\ QueueInv'
  BY QueueStep, TypeStep DEF QueueInv, Next
<1>3. \A q \in Requests \ {r} : status'[q] = status[q]
      /\ budget_day'[q] = budget_day[q] /\ budget_month'[q] = budget_month[q]
  BY <1>1, <1>2 DEF TypeOK, Rows
<1>4. Excess' = Excess /\ Excess \in [Requests -> Nat]
  BY <1>1, <1>2, ExcessType DEF Excess, Completed, TypeOK, Rows
<1>5. SUFFICES ASSUME NEW p \in Projects
               PROVE  /\ daily_tokens_used'[p] <= DailyLimit +
                           Tokens(ChargedNow(p, budget_day, daily_usage_date)', Excess')
                      /\ monthly_tokens_used'[p] <= MonthlyLimit +
                           Tokens(ChargedNow(p, budget_month, monthly_usage_month)', Excess')
  BY DEF OverrunExplained
<1>6. CASE p = ProjectOf(r)
  <2>1. /\ daily_tokens_used'[p] <= DailyLimit /\ monthly_tokens_used'[p] <= MonthlyLimit
        /\ daily_tokens_used'[p] \in Nat /\ monthly_tokens_used'[p] \in Nat
    BY <1>1, <1>2, <1>6 DEF TypeOK
  <2>2. \A C \in SUBSET Requests : Tokens(C, Excess') \in Nat
    <3> SUFFICES ASSUME NEW C \in SUBSET Requests PROVE Tokens(C, Excess') \in Nat
      OBVIOUS
    <3>1. IsFiniteSet(C) /\ \A q \in C : Excess'[q] \in Nat
      BY <1>4, RowsAssumption, FS_Subset
    <3> QED BY <3>1, TokensType
  <2>3. /\ ChargedNow(p, budget_day, daily_usage_date)' \in SUBSET Requests
        /\ ChargedNow(p, budget_month, monthly_usage_month)' \in SUBSET Requests
    BY DEF ChargedNow
  <2>4. /\ Tokens(ChargedNow(p, budget_day, daily_usage_date)', Excess') \in Nat
        /\ Tokens(ChargedNow(p, budget_month, monthly_usage_month)', Excess') \in Nat
    BY <2>2, <2>3
  <2> QED BY <2>1, <2>4, TokensAssumption
<1>7. CASE p # ProjectOf(r)
  <2>1. /\ daily_tokens_used'[p] = daily_tokens_used[p]
        /\ monthly_tokens_used'[p] = monthly_tokens_used[p]
        /\ daily_usage_date'[p] = daily_usage_date[p]
        /\ monthly_usage_month'[p] = monthly_usage_month[p]
    BY <1>1, <1>2, <1>7 DEF TypeOK
  <2>2. /\ ChargedNow(p, budget_day, daily_usage_date)' = ChargedNow(p, budget_day, daily_usage_date)
        /\ ChargedNow(p, budget_month, monthly_usage_month)' =
             ChargedNow(p, budget_month, monthly_usage_month)
    BY <1>3, <1>7, <2>1 DEF ChargedNow, ProjectOf, Pending, Completed
  <2> QED BY <1>4, <2>1, <2>2 DEF OverrunExplained
<1> QED BY <1>6, <1>7

\* Every step keeps the limits but for over-reports.
LEMMA OverrunStep ==
  ASSUME QueueInv, OverrunExplained, [Next]_vars
  PROVE  OverrunExplained'
<1>1. TypeOK
  BY DEF QueueInv
<1>2. ASSUME NEW r \in Requests, NEW w \in Workers, NEW retryable \in BOOLEAN,
             RecordError(r, w, retryable)
      PROVE  OverrunExplained'
  <2>1. /\ UNCHANGED <<budget_day, budget_month, tokens>>
        /\ status[r] = "ASSIGNED" /\ status \in [Requests -> Statuses]
    BY <1>1, <1>2 DEF RecordError, AcceptsFrom, InFlight, insertVars, answerVars, TypeOK, Rows
  <2>2. CASE retryable /\ MayRetry(r)
    <3>1. status' = [status EXCEPT ![r] = "QUEUED"] /\ UNCHANGED <<usedVars, periodVars>>
      BY <1>2, <2>2 DEF RecordError
    <3>2. Completed' = Completed /\ \A q \in Requests : Pending(q)' <=> Pending(q)
      BY <2>1, <3>1 DEF Completed, Pending
    <3> QED BY <2>1, <3>1, <3>2, OverrunKept
  <2>3. CASE ~(retryable /\ MayRetry(r))
    <3>1. status' = [status EXCEPT ![r] = "FAILED_FINAL"] /\ Release({r})
      BY <1>2, <2>3 DEF RecordError
    <3>2. /\ Completed' = Completed
          /\ \A q \in Requests \ {r} : Pending(q)' <=> Pending(q)
          /\ \A q \in {r} : Pending(q) /\ ~Pending(q)'
          /\ {r} \in SUBSET Requests
      BY <2>1, <3>1 DEF Completed, Pending
    <3> QED BY <1>1, <2>1, <3>1, <3>2, OverrunRelease
  <2> QED BY <2>2, <2>3
<1>3. ASSUME NEW t \in Recent, Recover(t) PROVE OverrunExplained'
  <2>1. PICK S \in SUBSET Requests :
          /\ Release(S) /\ Completed' = Completed
          /\ \A r \in S : Pending(r) /\ ~Pending(r)'
          /\ \A r \in Requests \ S : Pending(r)' <=> Pending(r)
    BY <1>1, <1>3, RecoverySets DEF Recover
  <2>2. UNCHANGED <<budget_day, budget_month, tokens>>
    BY <1>3 DEF Recover, insertVars, answerVars
  <2> QED BY <1>1, <2>1, <2>2, OverrunRelease
<1>4. ASSUME NEW w \in Workers, NEW t \in Recent, ClaimSelect(w, t) PROVE OverrunExplained'
  BY <1>4, OverrunKept DEF ClaimSelect, Completed, Pending, insertVars, assignVars, answerVars
<1>5. ASSUME NEW c \in claims, ClaimCommit(c) PROVE OverrunExplained'
  <2>1. c.row \in Requests /\ status[c.row] = "QUEUED" /\ status \in [Requests -> Statuses]
    BY DEF QueueInv, ClaimsSound, TypeOK, Rows
  <2>2. /\ status' = [status EXCEPT ![c.row] = "ASSIGNED"]
        /\ UNCHANGED <<usedVars, periodVars, budget_day, budget_month, tokens>>
    BY <1>5 DEF ClaimCommit, insertVars, answerVars
  <2>3. Completed' = Completed /\ \A q \in Requests : Pending(q)' <=> Pending(q)
    BY <2>1, <2>2 DEF Completed, Pending
  <2> QED BY <2>2, <2>3, OverrunKept
<1>9. ASSUME NEW c \in claims, ClaimAbort(c) PROVE OverrunExplained'
  BY <1>9, OverrunKept DEF ClaimAbort, Completed, Pending, insertVars, assignVars, answerVars
<1>6. ASSUME Tick \/ UNCHANGED vars PROVE OverrunExplained'
  BY <1>6, OverrunKept
    DEF Tick, vars, Completed, Pending, insertVars, assignVars, answerVars
<1>7. ASSUME NEW r \in Requests, NEW started \in Recent, Accept(r, started)
      PROVE  OverrunExplained'
  BY <1>7, OverrunAccept
<1>8. ASSUME NEW r \in Requests, NEW w \in Workers, NEW v \in Results, NEW n \in Reports,
             CommitResult(r, w, v, n)
      PROVE  OverrunExplained'
  BY <1>8, OverrunAnswer
<1> QED BY <1>2, <1>3, <1>4, <1>5, <1>6, <1>7, <1>8, <1>9 DEF Next

\* However many requests are accepted, answered and given up, in whatever
\* order and in whichever day or month, and whatever workers report, a project
\* exceeds a limit by no more than those reports exceeded their ceilings.
THEOREM OverrunExplainedSafe == Spec => []OverrunExplained
<1>1. Init => OverrunExplained
  <2> SUFFICES ASSUME Init, NEW p \in Projects
               PROVE  /\ daily_tokens_used[p] <= DailyLimit +
                           Tokens(ChargedNow(p, budget_day, daily_usage_date), Excess)
                      /\ monthly_tokens_used[p] <= MonthlyLimit +
                           Tokens(ChargedNow(p, budget_month, monthly_usage_month), Excess)
    BY DEF OverrunExplained
  <2>1. /\ ChargedNow(p, budget_day, daily_usage_date) = {}
        /\ ChargedNow(p, budget_month, monthly_usage_month) = {}
    BY DEF Init, ChargedNow, Pending, Completed
  <2> QED BY <2>1, TokensEmpty, TokensAssumption DEF Init
<1>2. QueueInv /\ OverrunExplained /\ [Next]_vars => QueueInv' /\ OverrunExplained'
  BY QueueStep, OverrunStep
<1> QED BY <1>1, <1>2, QueueInit, PTL DEF Spec

-----------------------------------------------------------------------------
(* One recovery cycle after its end settles a request. *)

\* Only the acceptance of a request sets its end.
LEMMA EndFixed ==
  ASSUME TypeOK, [Next]_vars, NEW r \in Requests, status[r] # "ABSENT"
  PROVE  expires_at'[r] = expires_at[r]
<1>1. ASSUME NEW q \in Requests, NEW started \in Recent, Accept(q, started)
      PROVE  expires_at'[r] = expires_at[r]
  BY <1>1 DEF Accept, TypeOK, Rows
<1>2. CASE UNCHANGED insertVars
  BY <1>2 DEF insertVars
<1> QED
  BY <1>1, <1>2 DEF Next, vars, ClaimSelect, ClaimCommit, ClaimAbort, CommitResult,
                    RecordError, Recover, Tick

\* Waiting and assigned requests past their end are among those a recovery
\* cycle fails or expires.
LEMMA PastEndSettled ==
  ASSUME QueueInv, NEW t \in Recent, NEW r \in Requests, Pending(r),
         expires_at[r] + WorkerLease <= t
  PROVE  r \in Exhausted(t) \cup Expirable(t)
<1>1. /\ TypeOK /\ AssignmentShape /\ LifetimeBounded
      /\ t \in Nat /\ expires_at[r] \in Nat /\ expires_at[r] < t
      /\ result[r] = NULL
  BY TimesAssumption DEF QueueInv, Recent, Times, TypeOK, Rows, AssignmentShape, Pending,
                         InFlight, Completed
<1>2. CASE status[r] = "QUEUED"
  BY <1>1, <1>2 DEF Expirable
<1>3. CASE status[r] = "ASSIGNED"
  <2>1. lease_expires[r] \in Nat /\ lease_expires[r] < expires_at[r] + WorkerLease
    BY <1>1, <1>3 DEF AssignmentShape, LifetimeBounded, InFlight, TypeOK, Rows
  <2>2. lease_expires[r] < t
    BY <1>1, <2>1, TimesAssumption
  <2>3. r \in Lapsed(t)
    BY <1>1, <1>3, <2>2 DEF Lapsed, InFlight
  <2> QED BY <1>1, <2>3 DEF Exhausted, Requeueable, Expirable
<1> QED BY <1>2, <1>3 DEF Pending

\* The recovery loop needs one cycle with a clock read past a request's end to
\* settle it, and nothing a worker or a client does moves that end: under the
\* fairness of the clock and the loop this is why every request is settled.
THEOREM RecoverySettled == Spec => RecoverySettles
<1>1. QueueInv /\ [Next]_vars =>
        [\A r \in Requests : status[r] # "ABSENT" =>
           /\ expires_at'[r] = expires_at[r]
           /\ \A t \in Recent :
                Recover(t) /\ expires_at[r] + WorkerLease <= t => ~Pending(r)']_vars
  <2> SUFFICES ASSUME QueueInv, [Next]_vars, NEW r \in Requests, status[r] # "ABSENT"
               PROVE  /\ expires_at'[r] = expires_at[r]
                      /\ \A t \in Recent :
                           Recover(t) /\ expires_at[r] + WorkerLease <= t => ~Pending(r)'
    OBVIOUS
  <2>1. expires_at'[r] = expires_at[r]
    BY EndFixed DEF QueueInv
  <2>2. ASSUME NEW t \in Recent, Recover(t), expires_at[r] + WorkerLease <= t
        PROVE  ~Pending(r)'
    <3> DEFINE S == Exhausted(t) \cup Expirable(t)
    <3>1. /\ \A q \in S : ~Pending(q)'
          /\ \A q \in Requests \ S : Pending(q)' <=> Pending(q)
      BY <2>2, RecoverySets DEF QueueInv
    <3>2. Pending(r) => r \in S
      BY <2>2, PastEndSettled
    <3> HIDE DEF S
    <3> QED BY <3>1, <3>2
  <2> QED BY <2>1, <2>2
<1> QED BY <1>1, QueueInit, QueueStep, PTL DEF Spec, RecoverySettles

-----------------------------------------------------------------------------
(* The books of a day or of a month: what the columns st, per and tok say of *)
(* the requests that were reserved in the period d.                          *)

PhaseOn(st, per, d) ==
  [r \in Requests |-> IF per[r] = d THEN PhaseOf(st[r]) ELSE "unsubmitted"]

\* The requests that hold tokens of project p in the period d.
HeldOn(st, per, d, p) ==
  {r \in Requests : /\ st[r] \in {"QUEUED", "ASSIGNED", "COMPLETED"}
                    /\ ProjectOf(r) = p /\ per[r] = d}

ChargeOn(st, tok) ==
  [r \in Requests |-> IF st[r] \in {"QUEUED", "ASSIGNED"} THEN Ceiling[r] ELSE tok[r]]

UsedOn(st, per, tok, d) == [p \in Projects |-> Tokens(HeldOn(st, per, d, p), ChargeOn(st, tok))]

BilledFor(st, per, d, k) ==
  {r \in Requests : st[r] = "COMPLETED" /\ RequestKey[r] = k /\ per[r] = d}

BilledOn(st, per, tok, d) == [k \in ApiKeys |-> Tokens(BilledFor(st, per, d, k), tok)]

Columns(st, per, tok) ==
  st \in [Requests -> Statuses] /\ per \in [Requests -> Nat] /\ tok \in [Requests -> Nat]

LEMMA ColumnTypes ==
  ASSUME NEW st, NEW per, NEW tok, Columns(st, per, tok), NEW d
  PROVE  /\ ChargeOn(st, tok) \in [Requests -> Nat]
         /\ UsedOn(st, per, tok, d) \in [Projects -> Nat]
         /\ BilledOn(st, per, tok, d) \in [ApiKeys -> Nat]
<1>1. ChargeOn(st, tok) \in [Requests -> Nat]
  BY TokensAssumption DEF ChargeOn, Columns
<1>2. ASSUME NEW p \in Projects PROVE Tokens(HeldOn(st, per, d, p), ChargeOn(st, tok)) \in Nat
  <2>1. HeldOn(st, per, d, p) \in SUBSET Requests
    BY DEF HeldOn
  <2>2. IsFiniteSet(HeldOn(st, per, d, p))
    BY <2>1, RowsAssumption, FS_Subset
  <2> QED BY <1>1, <2>1, <2>2, TokensType
<1>3. ASSUME NEW k \in ApiKeys PROVE Tokens(BilledFor(st, per, d, k), tok) \in Nat
  <2>1. BilledFor(st, per, d, k) \in SUBSET Requests
    BY DEF BilledFor
  <2>2. IsFiniteSet(BilledFor(st, per, d, k))
    BY <2>1, RowsAssumption, FS_Subset
  <2> QED BY <2>1, <2>2, TokensType DEF Columns
<1> QED BY <1>1, <1>2, <1>3 DEF UsedOn, BilledOn

\* The books of TypeOK's columns are those of the instances.
LEMMA BooksAre ==
  ASSUME NEW d
  PROVE  /\ PhaseIn(budget_day, d) = PhaseOn(status, budget_day, d)
         /\ UsedIn(budget_day, d) = UsedOn(status, budget_day, tokens, d)
         /\ BilledIn(budget_day, d) = BilledOn(status, budget_day, tokens, d)
         /\ PhaseIn(budget_month, d) = PhaseOn(status, budget_month, d)
         /\ UsedIn(budget_month, d) = UsedOn(status, budget_month, tokens, d)
         /\ BilledIn(budget_month, d) = BilledOn(status, budget_month, tokens, d)
         /\ PhaseIn(budget_day, d)' = PhaseOn(status', budget_day', d)
         /\ UsedIn(budget_day, d)' = UsedOn(status', budget_day', tokens', d)
         /\ BilledIn(budget_day, d)' = BilledOn(status', budget_day', tokens', d)
         /\ PhaseIn(budget_month, d)' = PhaseOn(status', budget_month', d)
         /\ UsedIn(budget_month, d)' = UsedOn(status', budget_month', tokens', d)
         /\ BilledIn(budget_month, d)' = BilledOn(status', budget_month', tokens', d)
<1>1. /\ PhaseIn(budget_day, d) = PhaseOn(status, budget_day, d)
      /\ PhaseIn(budget_month, d) = PhaseOn(status, budget_month, d)
      /\ PhaseIn(budget_day, d)' = PhaseOn(status', budget_day', d)
      /\ PhaseIn(budget_month, d)' = PhaseOn(status', budget_month', d)
  BY DEF PhaseIn, PhaseOn
<1>2. ChargeOn(status, tokens) = Charge /\ ChargeOn(status', tokens') = Charge'
  BY DEF ChargeOn, Charge, Pending
<1>3. ASSUME NEW p
      PROVE  /\ HeldOn(status, budget_day, d, p) =
                  {r \in Requests : (Pending(r) \/ r \in Completed) /\ ProjectOf(r) = p /\ budget_day[r] = d}
             /\ HeldOn(status, budget_month, d, p) =
                  {r \in Requests : (Pending(r) \/ r \in Completed) /\ ProjectOf(r) = p /\ budget_month[r] = d}
             /\ HeldOn(status', budget_day', d, p) =
                  {r \in Requests : (Pending(r)' \/ r \in Completed') /\ ProjectOf(r) = p /\ budget_day'[r] = d}
             /\ HeldOn(status', budget_month', d, p) =
                  {r \in Requests : (Pending(r)' \/ r \in Completed') /\ ProjectOf(r) = p /\ budget_month'[r] = d}
  BY DEF HeldOn, Pending, Completed
<1>4. ASSUME NEW k
      PROVE  /\ BilledFor(status, budget_day, d, k) =
                  {r \in Completed : RequestKey[r] = k /\ budget_day[r] = d}
             /\ BilledFor(status, budget_month, d, k) =
                  {r \in Completed : RequestKey[r] = k /\ budget_month[r] = d}
             /\ BilledFor(status', budget_day', d, k) =
                  {r \in Completed' : RequestKey[r] = k /\ budget_day'[r] = d}
             /\ BilledFor(status', budget_month', d, k) =
                  {r \in Completed' : RequestKey[r] = k /\ budget_month'[r] = d}
  BY DEF BilledFor, Completed
<1>5. /\ UsedIn(budget_day, d) = UsedOn(status, budget_day, tokens, d)
      /\ UsedIn(budget_month, d) = UsedOn(status, budget_month, tokens, d)
      /\ UsedIn(budget_day, d)' = UsedOn(status', budget_day', tokens', d)
      /\ UsedIn(budget_month, d)' = UsedOn(status', budget_month', tokens', d)
  BY <1>2, <1>3 DEF UsedIn, UsedOn, ProjectOf
<1>6. /\ BilledIn(budget_day, d) = BilledOn(status, budget_day, tokens, d)
      /\ BilledIn(budget_month, d) = BilledOn(status, budget_month, tokens, d)
      /\ BilledIn(budget_day, d)' = BilledOn(status', budget_day', tokens', d)
      /\ BilledIn(budget_month, d)' = BilledOn(status', budget_month', tokens', d)
  BY <1>4 DEF BilledIn, BilledOn
<1> QED BY <1>1, <1>5, <1>6

\* One step of the books of the period d, with the limit L: nothing, or what
\* TokenLedger calls Accept, Answer and GiveUp.
BookAccept(st, per, tok, st1, per1, tok1, d, L, r) ==
  /\ PhaseOn(st, per, d)[r] = "unsubmitted"
  /\ UsedOn(st, per, tok, d)[ProjectOf(r)] + Ceiling[r] <= L
  /\ PhaseOn(st1, per1, d) = [PhaseOn(st, per, d) EXCEPT ![r] = "pending"]
  /\ UsedOn(st1, per1, tok1, d) =
       [UsedOn(st, per, tok, d) EXCEPT ![ProjectOf(r)] = @ + Ceiling[r]]
  /\ BilledOn(st1, per1, tok1, d) = BilledOn(st, per, tok, d)

BookAnswer(st, per, tok, st1, per1, tok1, d, r, n) ==
  /\ PhaseOn(st, per, d)[r] = "pending"
  /\ PhaseOn(st1, per1, d) = [PhaseOn(st, per, d) EXCEPT ![r] = "answered"]
  /\ UsedOn(st1, per1, tok1, d) =
       [UsedOn(st, per, tok, d) EXCEPT ![ProjectOf(r)] = @ + n - Ceiling[r]]
  /\ BilledOn(st1, per1, tok1, d) =
       [BilledOn(st, per, tok, d) EXCEPT ![RequestKey[r]] = @ + n]

BookGiveUp(st, per, tok, st1, per1, tok1, d, S) ==
  /\ \A r \in S : PhaseOn(st, per, d)[r] = "pending"
  /\ PhaseOn(st1, per1, d) =
       [r \in Requests |-> IF r \in S THEN "failed" ELSE PhaseOn(st, per, d)[r]]
  /\ UsedOn(st1, per1, tok1, d) =
       [p \in Projects |-> UsedOn(st, per, tok, d)[p] - Tokens({r \in S : ProjectOf(r) = p}, Ceiling)]
  /\ BilledOn(st1, per1, tok1, d) = BilledOn(st, per, tok, d)

BookKept(st, per, tok, st1, per1, tok1, d) ==
  /\ PhaseOn(st1, per1, d) = PhaseOn(st, per, d)
  /\ UsedOn(st1, per1, tok1, d) = UsedOn(st, per, tok, d)
  /\ BilledOn(st1, per1, tok1, d) = BilledOn(st, per, tok, d)

BookStep(st, per, tok, st1, per1, tok1, d, L) ==
  \/ BookKept(st, per, tok, st1, per1, tok1, d)
  \/ \E r \in Requests :
       \/ BookAccept(st, per, tok, st1, per1, tok1, d, L, r)
       \/ \E n \in Allowed[r] : BookAnswer(st, per, tok, st1, per1, tok1, d, r, n)
  \/ \E S \in SUBSET Requests : BookGiveUp(st, per, tok, st1, per1, tok1, d, S)

\* A reservation in the period e.
LEMMA BookReserved ==
  ASSUME NEW st, NEW per, NEW tok, Columns(st, per, tok), NEW d \in Nat, NEW e \in Nat,
         NEW r \in Requests, st[r] = "ABSENT",
         NEW st1, NEW per1, st1[r] = "QUEUED", per1[r] = e,
         \A q \in Requests \ {r} : st1[q] = st[q] /\ per1[q] = per[q],
         NEW L, e = d => UsedOn(st, per, tok, d)[ProjectOf(r)] + Ceiling[r] <= L
  PROVE  BookStep(st, per, tok, st1, per1, tok, d, L)
<1>3. /\ \A q \in Requests \ {r} : st1[q] = st[q] /\ per1[q] = per[q]
      /\ st1[r] = "QUEUED" /\ per1[r] = e
      /\ Ceiling[r] \in Nat /\ ProjectOf(r) \in Projects
  BY TokensAssumption, ProjectType DEF Columns
<1>4. BilledOn(st1, per1, tok, d) = BilledOn(st, per, tok, d)
  <2>1. \A k \in ApiKeys : BilledFor(st1, per1, d, k) = BilledFor(st, per, d, k)
    BY <1>3 DEF BilledFor
  <2> QED BY <2>1 DEF BilledOn
<1>5. ChargeOn(st, tok) \in [Requests -> Nat]
      /\ ChargeOn(st1, tok) = [ChargeOn(st, tok) EXCEPT ![r] = Ceiling[r]]
  BY <1>3, ColumnTypes DEF ChargeOn
<1>6. ASSUME NEW p \in Projects, e # d \/ p # ProjectOf(r)
      PROVE  UsedOn(st1, per1, tok, d)[p] = UsedOn(st, per, tok, d)[p]
  <2>1. HeldOn(st1, per1, d, p) = HeldOn(st, per, d, p)
    BY <1>3, <1>6 DEF HeldOn
  <2>2. \A q \in HeldOn(st, per, d, p) : ChargeOn(st1, tok)[q] = ChargeOn(st, tok)[q]
    BY <1>5 DEF HeldOn
  <2>3. Tokens(HeldOn(st, per, d, p), ChargeOn(st1, tok)) = Tokens(HeldOn(st, per, d, p), ChargeOn(st, tok))
    BY <2>2, TokensSame
  <2> QED BY <2>1, <2>3 DEF UsedOn
<1>7. ASSUME e # d
      PROVE  /\ PhaseOn(st1, per1, d) = PhaseOn(st, per, d)
             /\ UsedOn(st1, per1, tok, d) = UsedOn(st, per, tok, d)
  <2>1. PhaseOn(st1, per1, d) = PhaseOn(st, per, d)
    BY <1>3, <1>7, PhaseValues DEF PhaseOn
  <2>2. \A p \in Projects : UsedOn(st1, per1, tok, d)[p] = UsedOn(st, per, tok, d)[p]
    BY <1>6, <1>7
  <2> QED BY <2>1, <2>2 DEF UsedOn
<1>8. ASSUME e = d
      PROVE  /\ PhaseOn(st, per, d)[r] = "unsubmitted"
             /\ PhaseOn(st1, per1, d) = [PhaseOn(st, per, d) EXCEPT ![r] = "pending"]
             /\ UsedOn(st1, per1, tok, d) =
                  [UsedOn(st, per, tok, d) EXCEPT ![ProjectOf(r)] = @ + Ceiling[r]]
  <2>1. PhaseOn(st, per, d)[r] = "unsubmitted"
    BY PhaseValues DEF PhaseOn
  <2>2. PhaseOn(st1, per1, d) = [PhaseOn(st, per, d) EXCEPT ![r] = "pending"]
    BY <1>3, <1>8, PhaseValues DEF PhaseOn
  <2> DEFINE C == HeldOn(st, per, d, ProjectOf(r))
  <2>3. C \in SUBSET Requests /\ r \notin C /\ HeldOn(st1, per1, d, ProjectOf(r)) = C \cup {r}
    BY <1>3, <1>8 DEF HeldOn
  <2> HIDE DEF C
  <2>4. Tokens(C \cup {r}, ChargeOn(st1, tok)) = Tokens(C, ChargeOn(st, tok)) + Ceiling[r]
    <3>1. PICK charge \in [Requests -> Nat] : charge = ChargeOn(st, tok)
      BY <1>5
    <3>2. Tokens(C \cup {r}, [charge EXCEPT ![r] = Ceiling[r]]) = Tokens(C, charge) + Ceiling[r]
      BY <1>3, <2>3, ReservedTotal
    <3> QED BY <1>5, <3>1, <3>2
  <2>5. UsedOn(st1, per1, tok, d)[ProjectOf(r)] = UsedOn(st, per, tok, d)[ProjectOf(r)] + Ceiling[r]
    BY <1>3, <2>3, <2>4 DEF UsedOn, C
  <2>6. \A p \in Projects \ {ProjectOf(r)} :
          UsedOn(st1, per1, tok, d)[p] = UsedOn(st, per, tok, d)[p]
    BY <1>6
  <2>7. UsedOn(st1, per1, tok, d) = [UsedOn(st, per, tok, d) EXCEPT ![ProjectOf(r)] = @ + Ceiling[r]]
    BY <2>5, <2>6 DEF UsedOn
  <2> QED BY <2>1, <2>2, <2>7
<1>9. CASE e = d
  BY <1>4, <1>8, <1>9 DEF BookStep, BookAccept
<1>10. CASE e # d
  BY <1>4, <1>7, <1>10 DEF BookStep, BookKept
<1> QED BY <1>9, <1>10

\* The answer to r, with n tokens.
LEMMA BookAnswered ==
  ASSUME NEW st, NEW per, NEW tok, Columns(st, per, tok), NEW d \in Nat, NEW r \in Requests,
         st[r] = "ASSIGNED", NEW n \in Allowed[r],
         NEW st1, NEW tok1, st1[r] = "COMPLETED", tok1[r] = n,
         \A q \in Requests \ {r} : st1[q] = st[q] /\ tok1[q] = tok[q],
         NEW L
  PROVE  BookStep(st, per, tok, st1, per, tok1, d, L)
<1>1. /\ n \in Nat /\ Ceiling[r] \in Nat
      /\ ProjectOf(r) \in Projects /\ RequestKey[r] \in ApiKeys
      /\ tok \in [Requests -> Nat]
  BY TokensAssumption, RowsAssumption, ProjectType DEF Columns, Allowed
<1>2. PICK charge \in [Requests -> Nat] : charge = ChargeOn(st, tok)
  BY ColumnTypes
<1>10. PICK charge1 : charge1 = ChargeOn(st1, tok1)
  OBVIOUS
<1>3. /\ charge[r] = Ceiling[r] /\ charge1[r] = n
      /\ \A q \in Requests \ {r} : charge1[q] = charge[q]
  BY <1>2, <1>10 DEF ChargeOn
<1>4. ASSUME NEW p PROVE HeldOn(st1, per, d, p) = HeldOn(st, per, d, p)
  BY DEF HeldOn
<1>5. ASSUME NEW p \in Projects, per[r] # d \/ p # ProjectOf(r)
      PROVE  UsedOn(st1, per, tok1, d)[p] = UsedOn(st, per, tok, d)[p]
  <2>1. \A q \in HeldOn(st, per, d, p) : charge1[q] = charge[q]
    BY <1>3, <1>5 DEF HeldOn
  <2>2. Tokens(HeldOn(st, per, d, p), charge1) = Tokens(HeldOn(st, per, d, p), charge)
    BY <2>1, TokensSame
  <2> QED BY <1>2, <1>10, <1>4, <2>2 DEF UsedOn
<1>6. ASSUME NEW k \in ApiKeys, per[r] # d \/ k # RequestKey[r]
      PROVE  BilledOn(st1, per, tok1, d)[k] = BilledOn(st, per, tok, d)[k]
  <2>1. BilledFor(st1, per, d, k) = BilledFor(st, per, d, k)
    BY <1>6 DEF BilledFor
  <2>2. \A q \in BilledFor(st, per, d, k) : tok1[q] = tok[q]
    BY <1>6 DEF BilledFor
  <2>3. Tokens(BilledFor(st, per, d, k), tok1) = Tokens(BilledFor(st, per, d, k), tok)
    BY <2>2, TokensSame
  <2> QED BY <2>1, <2>3 DEF BilledOn
<1>7. CASE per[r] # d
  <2>1. PhaseOn(st1, per, d) = PhaseOn(st, per, d)
    BY <1>7 DEF PhaseOn
  <2>2. \A p \in Projects : UsedOn(st1, per, tok1, d)[p] = UsedOn(st, per, tok, d)[p]
    BY <1>5, <1>7
  <2>3. UsedOn(st1, per, tok1, d) = UsedOn(st, per, tok, d)
    BY <2>2 DEF UsedOn
  <2>4. \A k \in ApiKeys : BilledOn(st1, per, tok1, d)[k] = BilledOn(st, per, tok, d)[k]
    BY <1>6, <1>7
  <2>5. BilledOn(st1, per, tok1, d) = BilledOn(st, per, tok, d)
    BY <2>4 DEF BilledOn
  <2> QED BY <2>1, <2>3, <2>5 DEF BookStep, BookKept
<1>8. CASE per[r] = d
  <2>1. PhaseOn(st, per, d)[r] = "pending"
    BY <1>8, PhaseValues DEF PhaseOn
  <2>2. PhaseOn(st1, per, d) = [PhaseOn(st, per, d) EXCEPT ![r] = "answered"]
    BY <1>8, PhaseValues DEF PhaseOn
  <2>3. UsedOn(st1, per, tok1, d)[ProjectOf(r)] = UsedOn(st, per, tok, d)[ProjectOf(r)] + n - Ceiling[r]
    <3>1. PICK C \in SUBSET Requests : C = HeldOn(st, per, d, ProjectOf(r)) \ {r}
      BY DEF HeldOn
    <3>2. HeldOn(st, per, d, ProjectOf(r)) = C \cup {r} /\ r \notin C
      BY <1>8, <3>1 DEF HeldOn
    <3>3. PICK bare \in [Requests -> Nat] : bare = [charge EXCEPT ![r] = Ceiling[r]]
      BY <1>1
    <3>4. Tokens(C \cup {r}, [bare EXCEPT ![r] = Ceiling[r]]) = Tokens(C, bare) + Ceiling[r]
      BY <1>1, <3>2, ReservedTotal
    <3>5. Tokens(C \cup {r}, [bare EXCEPT ![r] = n]) = Tokens(C, bare) + n
      BY <1>1, <3>2, ReservedTotal
    <3>6. PICK old, new : old = [bare EXCEPT ![r] = Ceiling[r]] /\ new = [bare EXCEPT ![r] = n]
      OBVIOUS
    <3>7. Tokens(C \cup {r}, old) = Tokens(C \cup {r}, charge)
      <4>1. \A q \in C \cup {r} : old[q] = charge[q]
        BY <1>3, <3>3, <3>6
      <4> QED BY <4>1, TokensSame
    <3>11. Tokens(C \cup {r}, new) = Tokens(C \cup {r}, charge1)
      <4>1. \A q \in C \cup {r} : new[q] = charge1[q]
        BY <1>3, <3>3, <3>6
      <4> QED BY <4>1, TokensSame
    <3>8. Tokens(C, bare) \in Nat
      <4>1. IsFiniteSet(C) /\ \A q \in C : bare[q] \in Nat
        BY RowsAssumption, FS_Subset
      <4> QED BY <4>1, TokensType
    <3>9. Tokens(C \cup {r}, charge1) = Tokens(C \cup {r}, charge) + n - Ceiling[r]
      BY <1>1, <3>4, <3>5, <3>6, <3>7, <3>8, <3>11
    <3>10. /\ UsedOn(st, per, tok, d)[ProjectOf(r)] = Tokens(C \cup {r}, charge)
           /\ UsedOn(st1, per, tok1, d)[ProjectOf(r)] = Tokens(C \cup {r}, charge1)
      BY <1>1, <1>2, <1>10, <1>4, <3>2 DEF UsedOn
    <3> QED BY <3>9, <3>10
  <2>4. \A p \in Projects \ {ProjectOf(r)} :
          UsedOn(st1, per, tok1, d)[p] = UsedOn(st, per, tok, d)[p]
    BY <1>5
  <2>5. UsedOn(st1, per, tok1, d) =
          [UsedOn(st, per, tok, d) EXCEPT ![ProjectOf(r)] = @ + n - Ceiling[r]]
    BY <2>3, <2>4 DEF UsedOn
  <2>6. BilledOn(st1, per, tok1, d)[RequestKey[r]] = BilledOn(st, per, tok, d)[RequestKey[r]] + n
    <3>1. PICK B \in SUBSET Requests : B = BilledFor(st, per, d, RequestKey[r])
      BY DEF BilledFor
    <3>2. r \notin B /\ BilledFor(st1, per, d, RequestKey[r]) = B \cup {r}
      BY <1>8, <3>1 DEF BilledFor
    <3>3. Tokens(B \cup {r}, [tok EXCEPT ![r] = n]) = Tokens(B, tok) + n
      BY <1>1, <3>2, ReservedTotal
    <3>4. \A q \in B \cup {r} : [tok EXCEPT ![r] = n][q] = tok1[q]
      BY <1>1
    <3>5. Tokens(B \cup {r}, [tok EXCEPT ![r] = n]) = Tokens(B \cup {r}, tok1)
      BY <3>4, TokensSame
    <3> QED BY <1>1, <3>1, <3>2, <3>3, <3>5 DEF BilledOn
  <2>7. \A k \in ApiKeys \ {RequestKey[r]} :
          BilledOn(st1, per, tok1, d)[k] = BilledOn(st, per, tok, d)[k]
    BY <1>6
  <2>8. BilledOn(st1, per, tok1, d) = [BilledOn(st, per, tok, d) EXCEPT ![RequestKey[r]] = @ + n]
    BY <2>6, <2>7 DEF BilledOn
  <2>9. BookAnswer(st, per, tok, st1, per, tok1, d, r, n)
    BY <2>1, <2>2, <2>5, <2>8 DEF BookAnswer
  <2> QED BY <2>9 DEF BookStep
<1> QED BY <1>7, <1>8

\* The release of S: those of S that were reserved in d give their tokens back.
LEMMA BookReleased ==
  ASSUME NEW st, NEW per, NEW tok, Columns(st, per, tok), NEW d \in Nat,
         NEW S \in SUBSET Requests, NEW st1,
         \A r \in S : /\ st[r] \in {"QUEUED", "ASSIGNED"}
                      /\ st1[r] \in {"FAILED_FINAL", "EXPIRED"},
         \A r \in Requests \ S : \/ st1[r] = st[r]
                                 \/ {st[r], st1[r]} \subseteq {"QUEUED", "ASSIGNED"},
         NEW L
  PROVE  BookStep(st, per, tok, st1, per, tok, d, L)
<1>1. PICK mine \in SUBSET Requests : mine = {r \in S : per[r] = d}
  OBVIOUS
<1>2. PICK charge \in [Requests -> Nat] : charge = ChargeOn(st, tok)
  BY ColumnTypes
<1>10. PICK charge1 : charge1 = ChargeOn(st1, tok)
  OBVIOUS
<1>3. /\ \A r \in S : charge[r] = Ceiling[r]
      /\ \A r \in Requests \ S : charge1[r] = charge[r]
  BY <1>2, <1>10 DEF ChargeOn
<1>4. \A r \in mine : PhaseOn(st, per, d)[r] = "pending"
  BY <1>1, PhaseValues DEF PhaseOn
<1>5. PhaseOn(st1, per, d) =
        [r \in Requests |-> IF r \in mine THEN "failed" ELSE PhaseOn(st, per, d)[r]]
  <2>1. \A r \in mine : PhaseOn(st1, per, d)[r] = "failed"
    BY <1>1, PhaseValues DEF PhaseOn
  <2>2. \A r \in Requests \ S : PhaseOf(st1[r]) = PhaseOf(st[r])
    BY PhaseValues
  <2>3. \A r \in Requests \ mine : PhaseOn(st1, per, d)[r] = PhaseOn(st, per, d)[r]
    BY <1>1, <2>2 DEF PhaseOn
  <2> QED BY <2>1, <2>3 DEF PhaseOn
<1>6. BilledOn(st1, per, tok, d) = BilledOn(st, per, tok, d)
  <2>1. \A r \in Requests : st1[r] = "COMPLETED" <=> st[r] = "COMPLETED"
    OBVIOUS
  <2>2. \A k \in ApiKeys : BilledFor(st1, per, d, k) = BilledFor(st, per, d, k)
    BY <2>1 DEF BilledFor
  <2> QED BY <2>2 DEF BilledOn
<1>7. ASSUME NEW p \in Projects
      PROVE  UsedOn(st1, per, tok, d)[p] =
               UsedOn(st, per, tok, d)[p] - Tokens({r \in mine : ProjectOf(r) = p}, Ceiling)
  <2>1. PICK C \in SUBSET Requests : C = HeldOn(st, per, d, p)
    BY DEF HeldOn
  <2>2. PICK R \in SUBSET Requests : R = {r \in mine : ProjectOf(r) = p}
    OBVIOUS
  <2>3. R \subseteq C /\ R \subseteq S /\ C \ R \subseteq Requests \ S
    BY <1>1, <2>1, <2>2 DEF HeldOn
  <2>4. HeldOn(st1, per, d, p) = C \ R
    <3>1. \A r \in Requests : st1[r] \in {"QUEUED", "ASSIGNED", "COMPLETED"}
                               <=> st[r] \in {"QUEUED", "ASSIGNED", "COMPLETED"} /\ r \notin S
      OBVIOUS
    <3> QED BY <1>1, <2>1, <2>2, <3>1 DEF HeldOn
  <2>5. Tokens((C \ R) \cup R, charge) = Tokens(C \ R, charge) + Tokens(R, charge)
    <3>1. /\ IsFiniteSet(C \ R) /\ IsFiniteSet(R) /\ (C \ R) \cap R = {}
          /\ \A r \in (C \ R) \cup R : charge[r] \in Nat
      BY RowsAssumption, FS_Subset
    <3> QED BY <3>1, TokensDisjoint
  <2>6. Tokens(R, charge) = Tokens(R, Ceiling)
    <3>1. \A r \in R : charge[r] = Ceiling[r]
      BY <1>3, <2>3
    <3> QED BY <3>1, TokensSame
  <2>7. Tokens(C \ R, charge1) = Tokens(C \ R, charge)
    <3>1. \A r \in C \ R : charge1[r] = charge[r]
      BY <1>3, <2>3
    <3> QED BY <3>1, TokensSame
  <2>8. Tokens(C \ R, charge) \in Nat /\ Tokens(R, charge) \in Nat
    <3>1. /\ IsFiniteSet(C \ R) /\ IsFiniteSet(R)
          /\ \A r \in C \ R : charge[r] \in Nat
          /\ \A r \in R : charge[r] \in Nat
      BY RowsAssumption, FS_Subset
    <3> QED BY <3>1, TokensType
  <2>9. /\ UsedOn(st, per, tok, d)[p] = Tokens(C, charge)
        /\ UsedOn(st1, per, tok, d)[p] = Tokens(C \ R, charge1)
    BY <1>2, <1>10, <2>1, <2>4 DEF UsedOn
  <2>10. C = (C \ R) \cup R
    BY <2>3
  <2>11. Tokens(C, charge) = Tokens(C \ R, charge) + Tokens(R, charge)
    BY <2>5, <2>10
  <2>12. Tokens(C \ R, charge1) = Tokens(C, charge) - Tokens(R, Ceiling)
    BY <2>6, <2>7, <2>8, <2>11
  <2> QED BY <2>2, <2>9, <2>12
<1>8. UsedOn(st1, per, tok, d) =
        [p \in Projects |-> UsedOn(st, per, tok, d)[p] - Tokens({r \in mine : ProjectOf(r) = p}, Ceiling)]
  <2>1. UsedOn(st1, per, tok, d) = [p \in Projects |-> UsedOn(st1, per, tok, d)[p]]
    BY DEF UsedOn
  <2> QED BY <1>7, <2>1
<1>9. BookGiveUp(st, per, tok, st1, per, tok, d, mine)
  BY <1>4, <1>5, <1>6, <1>8 DEF BookGiveUp
<1> QED BY <1>9 DEF BookStep

\* The ledgers' token counts are the queue's.
LEMMA BookTokens ==
  ASSUME NEW d, NEW S, NEW amount
  PROVE  /\ DayBooks(d)!Tokens(S, amount) = Tokens(S, amount)
         /\ MonthBooks(d)!Tokens(S, amount) = Tokens(S, amount)
<1>1. \A T : /\ DayBooks(d)!Cardinality(T) = Cardinality(T)
             /\ MonthBooks(d)!Cardinality(T) = Cardinality(T)
  BY DEF DayBooks!Cardinality, MonthBooks!Cardinality, Cardinality
<1>2. /\ DayBooks(d)!Units(S, amount) = Units(S, amount)
      /\ MonthBooks(d)!Units(S, amount) = Units(S, amount)
  BY DEF DayBooks!Units, MonthBooks!Units, Units
<1> QED BY <1>1, <1>2 DEF DayBooks!Tokens, MonthBooks!Tokens, Tokens

\* A step of a day's books is one of its ledger.
LEMMA DayStep ==
  ASSUME NEW d, BookStep(status, budget_day, tokens, status', budget_day', tokens', d, DailyLimit)
  PROVE  UNCHANGED DayBooks(d)!vars \/ DayBooks(d)!Next
<1>1. /\ PhaseIn(budget_day, d) = PhaseOn(status, budget_day, d)
      /\ UsedIn(budget_day, d) = UsedOn(status, budget_day, tokens, d)
      /\ BilledIn(budget_day, d) = BilledOn(status, budget_day, tokens, d)
      /\ PhaseIn(budget_day, d)' = PhaseOn(status', budget_day', d)
      /\ UsedIn(budget_day, d)' = UsedOn(status', budget_day', tokens', d)
      /\ BilledIn(budget_day, d)' = BilledOn(status', budget_day', tokens', d)
  BY BooksAre
<1>2. ASSUME BookKept(status, budget_day, tokens, status', budget_day', tokens', d)
      PROVE  UNCHANGED DayBooks(d)!vars
  BY <1>1, <1>2 DEF BookKept, DayBooks!vars
<1>3. ASSUME NEW r \in Requests,
             BookAccept(status, budget_day, tokens, status', budget_day', tokens', d, DailyLimit, r)
      PROVE  DayBooks(d)!Accept(r)
  BY <1>1, <1>3 DEF BookAccept, DayBooks!Accept, DayBooks!Project, ProjectOf
<1>4. ASSUME NEW r \in Requests, NEW n \in Allowed[r],
             BookAnswer(status, budget_day, tokens, status', budget_day', tokens', d, r, n)
      PROVE  DayBooks(d)!Answer(r, n)
  BY <1>1, <1>4 DEF BookAnswer, DayBooks!Answer, DayBooks!Project, ProjectOf
<1>5. ASSUME NEW S \in SUBSET Requests,
             BookGiveUp(status, budget_day, tokens, status', budget_day', tokens', d, S)
      PROVE  DayBooks(d)!GiveUp(S)
  <2>1. \A p : DayBooks(d)!InProject(S, p) = {r \in S : ProjectOf(r) = p}
    BY DEF DayBooks!InProject, DayBooks!Project, ProjectOf
  <2>2. \A p : DayBooks(d)!Tokens(DayBooks(d)!InProject(S, p), Ceiling)
                 = Tokens({r \in S : ProjectOf(r) = p}, Ceiling)
    BY <2>1, BookTokens
  <2> QED BY <1>1, <1>5, <2>2 DEF BookGiveUp, DayBooks!GiveUp
<1> QED BY <1>2, <1>3, <1>4, <1>5 DEF BookStep, DayBooks!Next

\* A step of a month's books is one of its ledger.
LEMMA MonthStep ==
  ASSUME NEW d, BookStep(status, budget_month, tokens, status', budget_month', tokens', d, MonthlyLimit)
  PROVE  UNCHANGED MonthBooks(d)!vars \/ MonthBooks(d)!Next
<1>1. /\ PhaseIn(budget_month, d) = PhaseOn(status, budget_month, d)
      /\ UsedIn(budget_month, d) = UsedOn(status, budget_month, tokens, d)
      /\ BilledIn(budget_month, d) = BilledOn(status, budget_month, tokens, d)
      /\ PhaseIn(budget_month, d)' = PhaseOn(status', budget_month', d)
      /\ UsedIn(budget_month, d)' = UsedOn(status', budget_month', tokens', d)
      /\ BilledIn(budget_month, d)' = BilledOn(status', budget_month', tokens', d)
  BY BooksAre
<1>2. ASSUME BookKept(status, budget_month, tokens, status', budget_month', tokens', d)
      PROVE  UNCHANGED MonthBooks(d)!vars
  BY <1>1, <1>2 DEF BookKept, MonthBooks!vars
<1>3. ASSUME NEW r \in Requests,
             BookAccept(status, budget_month, tokens, status', budget_month', tokens', d, MonthlyLimit, r)
      PROVE  MonthBooks(d)!Accept(r)
  BY <1>1, <1>3 DEF BookAccept, MonthBooks!Accept, MonthBooks!Project, ProjectOf
<1>4. ASSUME NEW r \in Requests, NEW n \in Allowed[r],
             BookAnswer(status, budget_month, tokens, status', budget_month', tokens', d, r, n)
      PROVE  MonthBooks(d)!Answer(r, n)
  BY <1>1, <1>4 DEF BookAnswer, MonthBooks!Answer, MonthBooks!Project, ProjectOf
<1>5. ASSUME NEW S \in SUBSET Requests,
             BookGiveUp(status, budget_month, tokens, status', budget_month', tokens', d, S)
      PROVE  MonthBooks(d)!GiveUp(S)
  <2>1. \A p : MonthBooks(d)!InProject(S, p) = {r \in S : ProjectOf(r) = p}
    BY DEF MonthBooks!InProject, MonthBooks!Project, ProjectOf
  <2>2. \A p : MonthBooks(d)!Tokens(MonthBooks(d)!InProject(S, p), Ceiling)
                 = Tokens({r \in S : ProjectOf(r) = p}, Ceiling)
    BY <2>1, BookTokens
  <2> QED BY <1>1, <1>5, <2>2 DEF BookGiveUp, MonthBooks!GiveUp
<1> QED BY <1>2, <1>3, <1>4, <1>5 DEF BookStep, MonthBooks!Next

\* The columns of the requests are typed.
LEMMA ColumnsTyped ==
  ASSUME TypeOK
  PROVE  Columns(status, budget_day, tokens) /\ Columns(status, budget_month, tokens)
BY DatesNat DEF TypeOK, Rows, Columns

\* What a project has used in the period of a reservation, by its counter, is
\* what its books say, whether the period is the counter's or a new one.
LEMMA ReserveSees ==
  ASSUME QueueInv, PeriodInv, BudgetExact, NEW p \in Projects
  PROVE  /\ UsedOn(status, budget_day, tokens, DayOf[now])[p] =
              UsedInPeriod(daily_tokens_used[p], daily_usage_date[p], DayOf[now])
         /\ UsedOn(status, budget_month, tokens, MonthOf[DayOf[now]])[p] =
              UsedInPeriod(monthly_tokens_used[p], monthly_usage_month[p], MonthOf[DayOf[now]])
<1>1. /\ DayOf[now] \in Nat /\ MonthOf[DayOf[now]] \in Nat
      /\ daily_usage_date[p] \in Nat /\ monthly_usage_month[p] \in Nat
      /\ \A r \in Requests : budget_day[r] \in Nat /\ budget_month[r] \in Nat
      /\ status \in [Requests -> Statuses]
  BY DatesNat DEF QueueInv, TypeOK, Rows, Days, Months
<1>2. /\ daily_usage_date[p] <= DayOf[now] /\ monthly_usage_month[p] <= MonthOf[DayOf[now]]
      /\ \A r \in Requests : status[r] # "ABSENT" =>
           /\ budget_day[r] <= daily_usage_date[ProjectOf(r)]
           /\ budget_month[r] <= monthly_usage_month[ProjectOf(r)]
  BY DEF PeriodInv
<1>3. ChargeOn(status, tokens) = Charge
  BY DEF ChargeOn, Charge, Pending
<1>4. UsedOn(status, budget_day, tokens, DayOf[now])[p] =
        UsedInPeriod(daily_tokens_used[p], daily_usage_date[p], DayOf[now])
  <2>1. CASE daily_usage_date[p] = DayOf[now]
    <3>1. HeldOn(status, budget_day, DayOf[now], p) = ChargedNow(p, budget_day, daily_usage_date)
      BY <2>1 DEF HeldOn, ChargedNow, Pending, Completed
    <3> QED BY <1>3, <2>1, <3>1 DEF UsedOn, UsedInPeriod, BudgetExact
  <2>2. CASE daily_usage_date[p] # DayOf[now]
    <3>1. HeldOn(status, budget_day, DayOf[now], p) = {}
      BY <1>1, <1>2, <2>2 DEF HeldOn
    <3> QED BY <2>2, <3>1, TokensEmpty DEF UsedOn, UsedInPeriod
  <2> QED BY <2>1, <2>2
<1>5. UsedOn(status, budget_month, tokens, MonthOf[DayOf[now]])[p] =
        UsedInPeriod(monthly_tokens_used[p], monthly_usage_month[p], MonthOf[DayOf[now]])
  <2>1. CASE monthly_usage_month[p] = MonthOf[DayOf[now]]
    <3>1. HeldOn(status, budget_month, MonthOf[DayOf[now]], p)
            = ChargedNow(p, budget_month, monthly_usage_month)
      BY <2>1 DEF HeldOn, ChargedNow, Pending, Completed
    <3> QED BY <1>3, <2>1, <3>1 DEF UsedOn, UsedInPeriod, BudgetExact
  <2>2. CASE monthly_usage_month[p] # MonthOf[DayOf[now]]
    <3>1. HeldOn(status, budget_month, MonthOf[DayOf[now]], p) = {}
      BY <1>1, <1>2, <2>2 DEF HeldOn
    <3> QED BY <2>2, <3>1, TokensEmpty DEF UsedOn, UsedInPeriod
  <2> QED BY <2>1, <2>2
<1> QED BY <1>4, <1>5

\* Both kinds of books take a step.
BooksStep ==
  /\ \A d \in Nat : BookStep(status, budget_day, tokens, status', budget_day', tokens', d, DailyLimit)
  /\ \A m \in Nat : BookStep(status, budget_month, tokens, status', budget_month', tokens', m, MonthlyLimit)

\* A reservation opens the request's account in the books of one day and of
\* one month.
LEMMA BooksAccept ==
  ASSUME QueueInv, PeriodInv, BudgetExact, NEW r \in Requests, NEW started \in Recent,
         Accept(r, started)
  PROVE  BooksStep
<1>1. /\ DayOf[now] \in Nat /\ MonthOf[DayOf[now]] \in Nat /\ TypeOK
      /\ ProjectOf(r) \in Projects
  BY DatesNat, ProjectType DEF QueueInv, TypeOK, Days, Months
<1>2. /\ status[r] = "ABSENT" /\ status' = [status EXCEPT ![r] = "QUEUED"]
      /\ budget_day' = [budget_day EXCEPT ![r] = DayOf[now]]
      /\ budget_month' = [budget_month EXCEPT ![r] = MonthOf[DayOf[now]]]
      /\ tokens' = tokens
      /\ UsedInPeriod(daily_tokens_used[ProjectOf(r)], daily_usage_date[ProjectOf(r)], DayOf[now])
           + Ceiling[r] <= DailyLimit
      /\ UsedInPeriod(monthly_tokens_used[ProjectOf(r)], monthly_usage_month[ProjectOf(r)],
                      MonthOf[DayOf[now]]) + Ceiling[r] <= MonthlyLimit
  BY DEF Accept, Reserve, Today, WithinLimit, answerVars
<1>3. /\ status'[r] = "QUEUED" /\ budget_day'[r] = DayOf[now]
      /\ budget_month'[r] = MonthOf[DayOf[now]]
      /\ \A q \in Requests \ {r} : /\ status'[q] = status[q]
                                   /\ budget_day'[q] = budget_day[q]
                                   /\ budget_month'[q] = budget_month[q]
  BY <1>1, <1>2 DEF TypeOK, Rows
<1>4. /\ UsedOn(status, budget_day, tokens, DayOf[now])[ProjectOf(r)] + Ceiling[r] <= DailyLimit
      /\ UsedOn(status, budget_month, tokens, MonthOf[DayOf[now]])[ProjectOf(r)] + Ceiling[r]
           <= MonthlyLimit
  BY <1>1, <1>2, ReserveSees
<1>5. Columns(status, budget_day, tokens) /\ Columns(status, budget_month, tokens)
  BY <1>1, ColumnsTyped
<1>6. ASSUME NEW d \in Nat
      PROVE  BookStep(status, budget_day, tokens, status', budget_day', tokens, d, DailyLimit)
  <2>1. PICK e \in Nat : e = DayOf[now]
    BY <1>1
  <2>2. e = d => UsedOn(status, budget_day, tokens, d)[ProjectOf(r)] + Ceiling[r] <= DailyLimit
    BY <1>4, <2>1
  <2>3. /\ budget_day'[r] = e /\ status'[r] = "QUEUED" /\ status[r] = "ABSENT"
        /\ \A q \in Requests \ {r} : status'[q] = status[q] /\ budget_day'[q] = budget_day[q]
    BY <1>2, <1>3, <2>1
  <2> QED BY <1>5, <2>2, <2>3, BookReserved
<1>7. ASSUME NEW m \in Nat
      PROVE  BookStep(status, budget_month, tokens, status', budget_month', tokens, m, MonthlyLimit)
  <2>1. PICK e \in Nat : e = MonthOf[DayOf[now]]
    BY <1>1
  <2>2. e = m => UsedOn(status, budget_month, tokens, m)[ProjectOf(r)] + Ceiling[r] <= MonthlyLimit
    BY <1>4, <2>1
  <2>3. /\ budget_month'[r] = e /\ status'[r] = "QUEUED" /\ status[r] = "ABSENT"
        /\ \A q \in Requests \ {r} : status'[q] = status[q] /\ budget_month'[q] = budget_month[q]
    BY <1>2, <1>3, <2>1
  <2> QED BY <1>5, <2>2, <2>3, BookReserved
<1> QED BY <1>2, <1>6, <1>7 DEF BooksStep

\* An answer is booked where its request was reserved, whenever it comes.
LEMMA BooksAnswer ==
  ASSUME QueueInv, NEW r \in Requests, NEW w \in Workers, NEW v \in Results, NEW n \in Reports,
         CommitResult(r, w, v, n)
  PROVE  BooksStep
<1>1. /\ n \in Allowed[r] /\ TypeOK
      /\ status[r] = "ASSIGNED" /\ status' = [status EXCEPT ![r] = "COMPLETED"]
      /\ tokens' = [tokens EXCEPT ![r] = n]
      /\ budget_day' = budget_day /\ budget_month' = budget_month
  BY DEF CommitResult, AcceptsFrom, InFlight, insertVars, Allowed, QueueInv
<1>2. /\ status'[r] = "COMPLETED" /\ tokens'[r] = n
      /\ \A q \in Requests \ {r} : status'[q] = status[q] /\ tokens'[q] = tokens[q]
  BY <1>1 DEF TypeOK, Rows
<1>3. Columns(status, budget_day, tokens) /\ Columns(status, budget_month, tokens)
  BY <1>1, ColumnsTyped
<1>4. ASSUME NEW d \in Nat
      PROVE  /\ BookStep(status, budget_day, tokens, status', budget_day, tokens', d, DailyLimit)
             /\ BookStep(status, budget_month, tokens, status', budget_month, tokens', d, MonthlyLimit)
  BY <1>1, <1>2, <1>3, BookAnswered
<1> QED BY <1>1, <1>4 DEF BooksStep

\* The pending requests of S are given up, and no other settles.
LEMMA BooksRelease ==
  ASSUME TypeOK, UNCHANGED <<budget_day, budget_month, tokens>>, NEW S \in SUBSET Requests,
         \A r \in S : /\ status[r] \in {"QUEUED", "ASSIGNED"}
                      /\ status'[r] \in {"FAILED_FINAL", "EXPIRED"},
         \A r \in Requests \ S : \/ status'[r] = status[r]
                                 \/ {status[r], status'[r]} \subseteq {"QUEUED", "ASSIGNED"}
  PROVE  BooksStep
<1>1. Columns(status, budget_day, tokens) /\ Columns(status, budget_month, tokens)
  BY ColumnsTyped
<1>2. ASSUME NEW d \in Nat
      PROVE  /\ BookStep(status, budget_day, tokens, status', budget_day, tokens, d, DailyLimit)
             /\ BookStep(status, budget_month, tokens, status', budget_month, tokens, d, MonthlyLimit)
  BY <1>1, BookReleased
<1> QED BY <1>2 DEF BooksStep

\* Every step of the queue is a step of the books of every day and month.
LEMMA BooksOfStep ==
  ASSUME QueueInv, PeriodInv, BudgetExact, [Next]_vars
  PROVE  BooksStep
<1>1. TypeOK /\ status \in [Requests -> Statuses] /\ {} \in SUBSET Requests
  BY DEF QueueInv, TypeOK, Rows
<1>2. ASSUME UNCHANGED <<budget_day, budget_month, tokens, status>> PROVE BooksStep
  BY <1>1, <1>2, BooksRelease
<1>3. ASSUME NEW c \in claims, ClaimCommit(c) PROVE BooksStep
  <2>1. /\ UNCHANGED <<budget_day, budget_month, tokens>>
        /\ status' = [status EXCEPT ![c.row] = "ASSIGNED"]
        /\ c.row \in Requests /\ status[c.row] = "QUEUED"
    BY <1>3 DEF ClaimCommit, insertVars, answerVars, QueueInv, ClaimsSound, TypeOK
  <2>2. \A r \in Requests \ {} : \/ status'[r] = status[r]
                                 \/ {status[r], status'[r]} \subseteq {"QUEUED", "ASSIGNED"}
    BY <1>1, <2>1
  <2> QED BY <1>1, <2>1, <2>2, BooksRelease
<1>4. ASSUME NEW r \in Requests, NEW w \in Workers, NEW retryable \in BOOLEAN,
             RecordError(r, w, retryable)
      PROVE  BooksStep
  <2>1. /\ UNCHANGED <<budget_day, budget_month, tokens>> /\ status[r] = "ASSIGNED"
        /\ \/ status' = [status EXCEPT ![r] = "QUEUED"]
           \/ status' = [status EXCEPT ![r] = "FAILED_FINAL"]
    BY <1>4 DEF RecordError, AcceptsFrom, InFlight, insertVars, answerVars
  <2>2. CASE status' = [status EXCEPT ![r] = "QUEUED"]
    <3>1. \A q \in Requests \ {} : \/ status'[q] = status[q]
                                   \/ {status[q], status'[q]} \subseteq {"QUEUED", "ASSIGNED"}
      BY <1>1, <2>1, <2>2
    <3> QED BY <1>1, <2>1, <3>1, BooksRelease
  <2>3. CASE status' = [status EXCEPT ![r] = "FAILED_FINAL"]
    <3>1. /\ {r} \in SUBSET Requests
          /\ \A q \in {r} : /\ status[q] \in {"QUEUED", "ASSIGNED"}
                            /\ status'[q] \in {"FAILED_FINAL", "EXPIRED"}
          /\ \A q \in Requests \ {r} : status'[q] = status[q]
      BY <1>1, <2>1, <2>3
    <3> QED BY <1>1, <2>1, <3>1, BooksRelease
  <2> QED BY <2>1, <2>2, <2>3
<1>5. ASSUME NEW t \in Recent, Recover(t) PROVE BooksStep
  <2>1. PICK S \in SUBSET Requests : S = Exhausted(t) \cup Expirable(t)
    BY DEF Exhausted, Requeueable, Lapsed, Expirable
  <2>2. \A r \in S \cup Requeueable(t) : status[r] \in {"QUEUED", "ASSIGNED"}
    BY <2>1 DEF Requeueable, Exhausted, Expirable, Lapsed, InFlight
  <2>3. \A r \in Requests : status'[r] =
          IF r \in Expirable(t) THEN "EXPIRED"
          ELSE IF r \in Exhausted(t) THEN "FAILED_FINAL"
          ELSE IF r \in Requeueable(t) THEN "QUEUED"
          ELSE status[r]
    BY <1>5 DEF Recover
  <2>4. UNCHANGED <<budget_day, budget_month, tokens>>
    BY <1>5 DEF Recover, insertVars, answerVars
  <2>5. \A r \in S : /\ status[r] \in {"QUEUED", "ASSIGNED"}
                     /\ status'[r] \in {"FAILED_FINAL", "EXPIRED"}
    BY <2>1, <2>2, <2>3
  <2>6. \A r \in Requests \ S : \/ status'[r] = status[r]
                                \/ {status[r], status'[r]} \subseteq {"QUEUED", "ASSIGNED"}
    BY <2>1, <2>2, <2>3
  <2> QED BY <1>1, <2>4, <2>5, <2>6, BooksRelease
<1>6. ASSUME NEW w \in Workers, NEW t \in Recent, ClaimSelect(w, t) PROVE BooksStep
  BY <1>2, <1>6 DEF ClaimSelect, insertVars, assignVars, answerVars
<1>7. ASSUME NEW c \in claims, ClaimAbort(c) PROVE BooksStep
  BY <1>2, <1>7 DEF ClaimAbort, insertVars, assignVars, answerVars
<1>8. ASSUME Tick \/ UNCHANGED vars PROVE BooksStep
  BY <1>2, <1>8 DEF Tick, vars, insertVars, assignVars, answerVars
<1>9. ASSUME NEW r \in Requests, NEW started \in Recent, Accept(r, started) PROVE BooksStep
  BY <1>9, BooksAccept
<1>10. ASSUME NEW r \in Requests, NEW w \in Workers, NEW v \in Results, NEW n \in Reports,
              CommitResult(r, w, v, n)
       PROVE  BooksStep
  BY <1>10, BooksAnswer
<1> QED BY <1>3, <1>4, <1>5, <1>6, <1>7, <1>8, <1>9, <1>10 DEF Next

\* Initially no day and no month has a request.
LEMMA BooksInit ==
  ASSUME Init, NEW d
  PROVE  DayBooks(d)!Init /\ MonthBooks(d)!Init
<1>1. \A r \in Requests : status[r] = "ABSENT"
  BY DEF Init
<1>2. /\ PhaseIn(budget_day, d) = [r \in Requests |-> "unsubmitted"]
      /\ PhaseIn(budget_month, d) = [r \in Requests |-> "unsubmitted"]
  BY <1>1, PhaseValues DEF PhaseIn
<1>3. ASSUME NEW p
      PROVE  /\ {r \in Requests : (Pending(r) \/ r \in Completed)
                                    /\ ProjectOf(r) = p /\ budget_day[r] = d} = {}
             /\ {r \in Requests : (Pending(r) \/ r \in Completed)
                                    /\ ProjectOf(r) = p /\ budget_month[r] = d} = {}
  BY <1>1 DEF Pending, Completed
<1>4. /\ UsedIn(budget_day, d) = [p \in Projects |-> 0]
      /\ UsedIn(budget_month, d) = [p \in Projects |-> 0]
  BY <1>3, TokensEmpty DEF UsedIn
<1>5. ASSUME NEW k
      PROVE  /\ {r \in Completed : RequestKey[r] = k /\ budget_day[r] = d} = {}
             /\ {r \in Completed : RequestKey[r] = k /\ budget_month[r] = d} = {}
  BY <1>1 DEF Completed
<1>6. /\ BilledIn(budget_day, d) = [k \in ApiKeys |-> 0]
      /\ BilledIn(budget_month, d) = [k \in ApiKeys |-> 0]
  BY <1>5, TokensEmpty DEF BilledIn
<1> QED BY <1>2, <1>4, <1>6 DEF DayBooks!Init, MonthBooks!Init

\* However requests of different days and months are accepted, answered,
\* given back and recovered, the ones of each day and of each month change as
\* TokenLedger's atomic reservations, settlements and releases, within the
\* limit of that period: a project's single counter for days, and its single
\* one for months, forgets nothing the limits need (budget.py:26-60, 72-84).
THEOREM PeriodBooksSafe == Spec => PeriodBooks
<1>1. Init => (\A d \in Days : DayBooks(d)!Init) /\ (\A m \in Months : MonthBooks(m)!Init)
  BY BooksInit
<1>2. QueueInv /\ PeriodInv /\ BudgetExact /\ [Next]_vars =>
        [\/ UNCHANGED <<status, tokens, budget_day, budget_month>>
         \/ /\ \A d \in Days : UNCHANGED DayBooks(d)!vars \/ DayBooks(d)!Next
            /\ \A m \in Months : UNCHANGED MonthBooks(m)!vars \/ MonthBooks(m)!Next]_vars
  <2> SUFFICES ASSUME QueueInv, PeriodInv, BudgetExact, [Next]_vars
               PROVE  /\ \A d \in Days : UNCHANGED DayBooks(d)!vars \/ DayBooks(d)!Next
                      /\ \A m \in Months : UNCHANGED MonthBooks(m)!vars \/ MonthBooks(m)!Next
    OBVIOUS
  <2>1. BooksStep
    BY BooksOfStep
  <2>2. ASSUME NEW d \in Days PROVE UNCHANGED DayBooks(d)!vars \/ DayBooks(d)!Next
    <3>1. BookStep(status, budget_day, tokens, status', budget_day', tokens', d, DailyLimit)
      BY <2>1, DatesNat DEF BooksStep
    <3> QED BY <3>1, DayStep
  <2>3. ASSUME NEW m \in Months PROVE UNCHANGED MonthBooks(m)!vars \/ MonthBooks(m)!Next
    <3>1. BookStep(status, budget_month, tokens, status', budget_month', tokens', m, MonthlyLimit)
      BY <2>1, DatesNat DEF BooksStep
    <3> QED BY <3>1, MonthStep
  <2> QED BY <2>2, <2>3
<1>3. Spec => [](QueueInv /\ PeriodInv /\ BudgetExact)
  <2>1. Init => BudgetExact
    BY TokensEmpty DEF Init, BudgetExact, ChargedNow, Pending, Completed
  <2>2. QueueInv /\ PeriodInv /\ BudgetExact /\ [Next]_vars =>
          QueueInv' /\ PeriodInv' /\ BudgetExact'
    BY QueueStep, PeriodStep, BudgetStep
  <2> QED BY <2>1, <2>2, QueueInit, PeriodInit, PTL DEF Spec
<1> QED BY <1>1, <1>2, <1>3, PTL DEF Spec, PeriodBooks
=============================================================================
