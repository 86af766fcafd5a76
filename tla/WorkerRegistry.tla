---------------------------- MODULE WorkerRegistry ----------------------------
(***************************************************************************)
(* The workers table: enrolment with one-time tokens, rotation and         *)
(* revocation of worker JWTs, heartbeats, and the sweep that marks silent  *)
(* workers offline (routes/internal/workers.py, routes/admin.py,           *)
(* dependencies.py, services/worker_health.py).                            *)
(*                                                                         *)
(* require_worker reads the worker's row without locking it; the route     *)
(* then changes the object it read, and the flush writes, by primary key,  *)
(* the columns whose value differs from the one read.  So a worker's       *)
(* request has two steps, one that authenticates it and remembers what it  *)
(* saw and one that writes and commits; revocations and sweeps fall        *)
(* between.  A registration locks the row of its enrolment token before it *)
(* looks at it, and its commit is a step of its own.  Revocation and the   *)
(* sweep each lock the rows they change too, and are single actions.       *)
(*                                                                         *)
(* A renewal takes more steps.  Its flush locks the row, and the commit is *)
(* in the exit code of get_session, which FastAPI runs before the reply is *)
(* sent or after it, by its version: pyproject.toml allows both, and the   *)
(* model has both orders.                                                  *)
(***************************************************************************)
EXTENDS Naturals, FiniteSets

CONSTANTS
  Workers,           \* workers that may be enrolled
  Enrolments,        \* enrolment tokens the administrator may create
  Conns,             \* requests of workers that can be in progress at once
  NULL,
  Capabilities,      \* values of the capabilities a worker reports
  Reports,           \* what workers register and report: status and capabilities
  EnrolmentTtl,      \* WorkerEnrollmentCreateRequest.expires_in_seconds
  TokenTtl,          \* WorkerJWTService._ttl
  HeartbeatTimeout,  \* WorkerHealthService._timeout
  MaxTime,           \* bound: the clock stops here
  MaxJti             \* bound: JWTs issued to one worker

Times == 0..MaxTime

\* Pulls, results and errors are authenticated in the same way and change
\* nothing here: RequestQueue says what they do to the queue.
Operations == {"heartbeat", "renew"}

\* A renewal after it has issued its token: reply and commit are to come, only
\* the commit is, only the reply is.
Renewals == {"issued", "replied", "renewed"}

Shown == {"ABSENT", "ONLINE", "DRAINING", "OFFLINE", "SUSPENDED"}

Tokens == [jti : 1..MaxJti, exp : TokenTtl..(MaxTime + TokenTtl)]

\* What a heartbeat reads when it is authenticated.
SeenType == [status : Shown \ {"ABSENT"}, capabilities : Capabilities, at : Times]

\* A request of a worker that is in progress.
RequestType ==
  [worker : Workers, op : Operations \cup Renewals, token : Tokens \cup {NULL},
   seen : {NULL} \cup SeenType]

\* A registration under way: its token, the time it was checked at, and what
\* the worker says of itself.
RegistrationType == [with : Enrolments, at : Times, report : Reports]

ASSUME RegistryAssumption ==
  /\ MaxTime \in Nat /\ MaxJti \in Nat \ {0}
  /\ EnrolmentTtl \in Nat \ {0} /\ TokenTtl \in Nat \ {0}
  /\ HeartbeatTimeout \in Nat \ {0}
  /\ Reports \subseteq [status : {"ONLINE", "DRAINING"}, capabilities : Capabilities]
  /\ NULL \notin Workers \cup Enrolments \cup Nat \cup RequestType \cup RegistrationType

VARIABLES
  now,
  \* table worker_enrollment_tokens
  expires_at,      \* NULL until the token is created
  consumed_at,
  registering,     \* each worker's registration under way, or NULL
  \* table workers
  status,          \* "ABSENT" until the row is inserted
  capabilities,
  token_jti,
  last_heartbeat,
  revoked_at,
  enrolled_with,   \* history: the enrolment token the worker used
  \* requests of workers in progress: NULL, or the worker, the operation, what
  \* a heartbeat read when it was authenticated, and the token a renewal issues
  conn,
  \* the workers themselves
  issued,          \* JWTs issued to each worker so far, which name their jti
  held,            \* the token it uses, NULL if it has none
  reported,        \* history: what its last committed heartbeat reported
  \* history: workers that lost a reply, had one of a transaction that failed,
  \* or had overlapping renewals
  astray,
  \* history: workers whose row changed under their last committed heartbeat
  overtaken

tokenVars  == <<expires_at, consumed_at, registering>>
healthVars == <<status, capabilities, last_heartbeat>>
authVars   == <<token_jti, revoked_at>>
reportVars == <<reported, overtaken>>
workerVars == <<issued, held, astray>>
vars == <<now, tokenVars, healthVars, authVars, enrolled_with, conn, workerVars, reportVars>>

Registered(w) == status[w] # "ABSENT"

Of(w, op) == {c \in Conns : conn[c] # NULL /\ conn[c].worker = w /\ conn[c].op = op}

Renewing(w) == UNION {Of(w, op) : op \in {"renew"} \cup Renewals}

\* The flush of a renewal locks the row until its transaction ends.
Locked(w) == Of(w, "issued") \cup Of(w, "replied") # {}

\* Mutant: the token expires when it is issued.
TokenExpired(jti, at) == [jti |-> jti, exp |-> at]

\* WorkerJWTService.issue, at time at.
Token(jti, at) == [jti |-> jti, exp |-> at + TokenTtl]

-----------------------------------------------------------------------------
Init ==
  /\ now = 0
  /\ expires_at = [e \in Enrolments |-> NULL]
  /\ consumed_at = [e \in Enrolments |-> NULL]
  /\ registering = [w \in Workers |-> NULL]
  /\ status = [w \in Workers |-> "ABSENT"]
  /\ capabilities = [w \in Workers |-> NULL]
  /\ token_jti = [w \in Workers |-> NULL]
  /\ last_heartbeat = [w \in Workers |-> 0]
  /\ revoked_at = [w \in Workers |-> NULL]
  /\ enrolled_with = [w \in Workers |-> NULL]
  /\ conn = [c \in Conns |-> NULL]
  /\ issued = [w \in Workers |-> 0]
  /\ held = [w \in Workers |-> NULL]
  /\ reported = [w \in Workers |-> NULL]
  /\ astray = {}
  /\ overtaken = {}

\* create_worker_enrollment.
CreateEnrolment(e) ==
  /\ expires_at[e] = NULL
  /\ expires_at' = [expires_at EXCEPT ![e] = now + EnrolmentTtl]
  /\ UNCHANGED <<now, consumed_at, registering, healthVars, authVars, enrolled_with, conn,
                 workerVars, reportVars>>

\* The checks of register_worker, made with the token's row locked.
Usable(e) ==
  /\ expires_at[e] # NULL /\ now < expires_at[e]
  /\ consumed_at[e] = NULL

\* Mutant: the token's row is read without FOR UPDATE.
NotForUpdate(e) == TRUE

\* No registration under way has locked the token's row.
TokenFree(e) == \A w \in Workers : registering[w] # NULL => registering[w].with # e

\* register_worker locks the token's row, reads the clock, and accepts.
Register(w, e, report) ==
  /\ ~Registered(w) /\ registering[w] = NULL
  /\ report.status = "ONLINE"
  /\ TokenFree(e) /\ Usable(e)
  /\ registering' = [registering EXCEPT ![w] = [with |-> e, at |-> now, report |-> report]]
  /\ UNCHANGED <<now, expires_at, consumed_at, healthVars, authVars, enrolled_with, conn,
                 workerVars, reportVars>>

\* Its transaction commits the worker's row, with the jti of a JWT issued after
\* the checks, and the token's use; the worker receives the reply or not.
Enrol(w, received) ==
  /\ registering[w] # NULL
  /\ LET e == registering[w].with
         at == registering[w].at
         report == registering[w].report
     IN  /\ consumed_at' = [consumed_at EXCEPT ![e] = at]
         /\ status' = [status EXCEPT ![w] = report.status]
         /\ capabilities' = [capabilities EXCEPT ![w] = report.capabilities]
         /\ last_heartbeat' = [last_heartbeat EXCEPT ![w] = at]
         /\ enrolled_with' = [enrolled_with EXCEPT ![w] = e]
         /\ \E t \in at..now :
              held' = [held EXCEPT ![w] = IF received THEN Token(1, t) ELSE NULL]
         /\ reported' = [reported EXCEPT ![w] = report]
  /\ registering' = [registering EXCEPT ![w] = NULL]
  /\ token_jti' = [token_jti EXCEPT ![w] = 1]
  /\ issued' = [issued EXCEPT ![w] = 1]
  /\ astray' = IF received THEN astray ELSE astray \cup {w}
  /\ UNCHANGED <<now, expires_at, revoked_at, conn, overtaken>>

\* It fails or crashes before the commit: the token is as it was.
AbandonRegistration(w) ==
  /\ registering[w] # NULL
  /\ registering' = [registering EXCEPT ![w] = NULL]
  /\ UNCHANGED <<now, expires_at, consumed_at, healthVars, authVars, enrolled_with, conn,
                 workerVars, reportVars>>

\* Mutant: only the jti is compared.
AuthenticByJti(w) ==
  /\ held[w] # NULL /\ now < held[w].exp
  /\ token_jti[w] = held[w].jti

\* verify and require_worker's check of the token that w presents.
Authentic(w) ==
  /\ held[w] # NULL /\ now < held[w].exp
  /\ token_jti[w] = held[w].jti
  /\ revoked_at[w] = NULL

\* A request of w is authenticated: the row is read, and not locked.
Authenticate(c, w, op) ==
  /\ conn[c] = NULL
  /\ Authentic(w)
  /\ conn' = [conn EXCEPT ![c] =
        [worker |-> w, op |-> op, token |-> NULL,
         seen |-> IF op = "heartbeat"
                  THEN [status |-> status[w], capabilities |-> capabilities[w], at |-> now]
                  ELSE NULL]]
  /\ astray' = IF op = "renew" /\ Renewing(w) # {} THEN astray \cup {w} ELSE astray
  /\ UNCHANGED <<now, tokenVars, healthVars, authVars, enrolled_with, issued, held,
                 reportVars>>

\* Mutant: a heartbeat does not bring a worker back that was marked offline.
WrittenOffline(old, seen, new) == IF seen = "OFFLINE" \/ new = seen THEN old ELSE new

\* The flush writes a column only if the reported value differs from the one
\* that was read.
Written(old, seen, new) == IF new = seen THEN old ELSE new

\* heartbeat: its flush, which waits for the row, and its commit.  The time it
\* writes was taken at some moment since it was authenticated.
Heartbeat(c, report) ==
  /\ conn[c] # NULL /\ conn[c].op = "heartbeat"
  /\ LET w == conn[c].worker
         seen == conn[c].seen
     IN  /\ ~Locked(w)
         /\ status' = [status EXCEPT ![w] = Written(@, seen.status, report.status)]
         /\ capabilities' = [capabilities EXCEPT ![w] =
                                Written(@, seen.capabilities, report.capabilities)]
         /\ \E at \in seen.at..now : last_heartbeat' = [last_heartbeat EXCEPT ![w] = at]
         /\ reported' = [reported EXCEPT ![w] = report]
         /\ overtaken' = IF seen.status = status[w] /\ seen.capabilities = capabilities[w]
                         THEN overtaken \ {w} ELSE overtaken \cup {w}
  /\ conn' = [conn EXCEPT ![c] = NULL]
  /\ UNCHANGED <<now, tokenVars, authVars, enrolled_with, workerVars>>

\* renew_worker_token: a JWT is issued, and the flush stores its jti (a wait of
\* the flush for the row is taken to come before the JWT is issued).
Issue(c) ==
  /\ conn[c] # NULL /\ conn[c].op = "renew"
  /\ LET w == conn[c].worker
     IN  /\ ~Locked(w)
         /\ issued[w] < MaxJti
         /\ issued' = [issued EXCEPT ![w] = @ + 1]
         /\ conn' = [conn EXCEPT ![c].op = "issued", ![c].token = Token(issued[w] + 1, now)]
  /\ UNCHANGED <<now, tokenVars, healthVars, authVars, enrolled_with, held, astray, reportVars>>

\* Mutant: the new jti is sent to the worker and not stored.
StoredJtiKept(w, jti) == token_jti[w]

StoredJti(w, jti) == jti

\* The renewal's transaction commits, before the reply or after it, ...
Commit(c) ==
  /\ conn[c] # NULL /\ conn[c].op \in {"issued", "replied"}
  /\ LET w == conn[c].worker IN
       token_jti' = [token_jti EXCEPT ![w] = StoredJti(w, conn[c].token.jti)]
  /\ conn' = [conn EXCEPT ![c] = IF @.op = "issued" THEN [@ EXCEPT !.op = "renewed"] ELSE NULL]
  /\ UNCHANGED <<now, tokenVars, healthVars, revoked_at, enrolled_with, workerVars, reportVars>>

\* ... or fails; it may be that the worker already has its reply.
RollBack(c) ==
  /\ conn[c] # NULL /\ conn[c].op \in {"issued", "replied"}
  /\ astray' = IF conn[c].op = "replied" THEN astray \cup {conn[c].worker} ELSE astray
  /\ conn' = [conn EXCEPT ![c] = NULL]
  /\ UNCHANGED <<now, tokenVars, healthVars, authVars, enrolled_with, issued, held, reportVars>>

\* The reply is over, and the transaction may be or not.
Replied(c) ==
  /\ conn[c] # NULL /\ conn[c].op \in {"issued", "renewed"}
  /\ conn' = [conn EXCEPT ![c] = IF @.op = "issued" THEN [@ EXCEPT !.op = "replied"] ELSE NULL]
  /\ UNCHANGED <<now, tokenVars, healthVars, authVars, enrolled_with, issued, reportVars>>

\* The renewed token reaches the worker, which uses it from then on, ...
Receive(c) ==
  /\ Replied(c)
  /\ held' = [held EXCEPT ![conn[c].worker] = conn[c].token]
  /\ UNCHANGED astray

\* ... or the reply is lost.
Lose(c) ==
  /\ Replied(c)
  /\ astray' = astray \cup {conn[c].worker}
  /\ UNCHANGED held

\* A request fails or crashes before it has written anything.
End(c) ==
  /\ conn[c] # NULL /\ conn[c].op \in Operations
  /\ conn' = [conn EXCEPT ![c] = NULL]
  /\ UNCHANGED <<now, tokenVars, healthVars, authVars, enrolled_with, workerVars, reportVars>>

\* revoke_worker.
RevokeWorker(w) ==
  /\ Registered(w) /\ ~Locked(w)
  /\ revoked_at' = [revoked_at EXCEPT ![w] = IF @ = NULL THEN now ELSE @]
  /\ status' = [status EXCEPT ![w] = "SUSPENDED"]
  /\ token_jti' = [token_jti EXCEPT ![w] = NULL]
  /\ UNCHANGED <<now, tokenVars, capabilities, last_heartbeat, enrolled_with, conn, workerVars,
                 reportVars>>

\* Mutant: the comparison is the wrong way round.
StaleReversed(w) == status[w] = "ONLINE" /\ last_heartbeat[w] > now + HeartbeatTimeout

\* Its last heartbeat is before now - HeartbeatTimeout.
Stale(w) == status[w] = "ONLINE" /\ last_heartbeat[w] + HeartbeatTimeout < now

\* mark_stale_workers_offline, which waits for the rows it selects.
Sweep ==
  /\ \A w \in Workers : Stale(w) => ~Locked(w)
  /\ status' = [w \in Workers |-> IF Stale(w) THEN "OFFLINE" ELSE status[w]]
  /\ UNCHANGED <<now, tokenVars, capabilities, last_heartbeat, authVars, enrolled_with, conn,
                 workerVars, reportVars>>

Tick ==
  /\ now < MaxTime
  /\ now' = now + 1
  /\ UNCHANGED <<tokenVars, healthVars, authVars, enrolled_with, conn, workerVars, reportVars>>

Next ==
  \/ \E e \in Enrolments : CreateEnrolment(e)
  \/ \E w \in Workers :
       \/ \E e \in Enrolments, report \in Reports : Register(w, e, report)
       \/ \E received \in BOOLEAN : Enrol(w, received)
       \/ AbandonRegistration(w)
  \/ \E c \in Conns, w \in Workers, op \in Operations : Authenticate(c, w, op)
  \/ \E c \in Conns, report \in Reports : Heartbeat(c, report)
  \/ \E c \in Conns : \/ Issue(c) \/ Commit(c) \/ RollBack(c)
                      \/ Receive(c) \/ Lose(c) \/ End(c)
  \/ \E w \in Workers : RevokeWorker(w)
  \/ Sweep
  \/ Tick

Spec == Init /\ [][Next]_vars

\* The maintenance loop keeps running, and the clock; a transaction that locks
\* a row ends, and the sweep that waits for the row gets it.
Fairness ==
  /\ SF_vars(Sweep) /\ WF_vars(Tick)
  /\ \A c \in Conns : WF_vars(Commit(c) \/ RollBack(c))

FairSpec == Spec /\ Fairness

-----------------------------------------------------------------------------
(* Properties. *)

\* Every variable has its type.
TypeOK ==
  /\ now \in Times
  /\ expires_at \in [Enrolments -> Nat \cup {NULL}]
  /\ consumed_at \in [Enrolments -> Times \cup {NULL}]
  /\ registering \in [Workers -> RegistrationType \cup {NULL}]
  /\ status \in [Workers -> Shown]
  /\ capabilities \in [Workers -> Capabilities \cup {NULL}]
  /\ token_jti \in [Workers -> 1..MaxJti \cup {NULL}]
  /\ last_heartbeat \in [Workers -> Times]
  /\ revoked_at \in [Workers -> Times \cup {NULL}]
  /\ enrolled_with \in [Workers -> Enrolments \cup {NULL}]
  /\ conn \in [Conns -> RequestType \cup {NULL}]
  /\ issued \in [Workers -> 0..MaxJti]
  /\ held \in [Workers -> Tokens \cup {NULL}]
  /\ reported \in [Workers -> Reports \cup {NULL}]
  /\ astray \subseteq Workers /\ overtaken \subseteq Workers

\* An enrolment token enrols at most one worker, and only one that was checked
\* before it expires, though any number of registrations may be under way with
\* it at once, be abandoned before their commit and tried again
\* (workers.py:43-76; docs/phase-1-verification.md:30).
EnrolledOnce ==
  \A w \in Workers : Registered(w) =>
    /\ consumed_at[enrolled_with[w]] < expires_at[enrolled_with[w]]
    /\ \A v \in Workers : enrolled_with[v] = enrolled_with[w] => v = w

\* A worker that received every reply, none of them of a transaction that then
\* failed, and never had two renewals open at once, uses the token that the
\* gateway takes for current: rotation never locks it out, also when the reply
\* of a renewal runs ahead of its commit (workers.py:148-157,
\* dependencies.py:99, database.py:24).
TokenCurrent ==
  \A w \in Workers :
    Registered(w) /\ revoked_at[w] = NULL /\ w \notin astray /\ Renewing(w) = {} =>
      held[w].jti = token_jti[w]

\* Revocation is final: once a revoked worker's requests that were already
\* authenticated have ended, no other begins, and nothing but a repeated
\* revocation or the sweep changes its row: a suspension then stands.  A
\* renewal that was under way may still store a new jti, so it takes
\* revoked_at to keep its token out
\* (admin.py:146-160, dependencies.py:99, docs/security.md:15-16).
RevocationFinal ==
  [][\A w \in Workers :
       revoked_at[w] # NULL =>
         /\ revoked_at'[w] = revoked_at[w]
         /\ \A c \in Conns : conn[c] = NULL => conn'[c] = NULL \/ conn'[c].worker # w
         /\ (\A c \in Conns : conn[c] = NULL \/ conn[c].worker # w) =>
               /\ token_jti'[w] \in {token_jti[w], NULL}
               /\ capabilities'[w] = capabilities[w]
               /\ last_heartbeat'[w] = last_heartbeat[w]
               /\ \/ status'[w] \in {status[w], "SUSPENDED"}
                  \/ status[w] = "ONLINE" /\ status'[w] = "OFFLINE"]_vars

\* After a heartbeat under which the row did not change, the row says what the
\* worker reported, whatever was mixed up before, until it is revoked or swept
\* for silence.  The heartbeats left out are those whose flush meets a row
\* changed since they read it: it then skips the columns that agree with what
\* was read, so that a worker swept offline meanwhile stays offline, and two
\* overlapping heartbeats leave the status of one with the capabilities of the
\* other (workers.py:84-95, worker_health.py:19-31).
ReportStands ==
  \A w \in Workers :
    Registered(w) /\ revoked_at[w] = NULL /\ w \notin overtaken =>
      /\ capabilities[w] = reported[w].capabilities
      /\ \/ status[w] = reported[w].status
         \/ /\ reported[w].status = "ONLINE" /\ status[w] = "OFFLINE"
            /\ last_heartbeat[w] + HeartbeatTimeout < now

\* The worker is suspended for as long as it is revoked (admin.py:151,
\* docs/api-reference.md:27).
RevokedSuspended ==
  \A w \in Workers : revoked_at[w] # NULL => status[w] = "SUSPENDED"

\* A worker that falls silent does not stay ONLINE (worker_health.py:19-31).
SilentGoesOffline ==
  \A w \in Workers :
    (status[w] = "ONLINE" /\ last_heartbeat[w] + HeartbeatTimeout < now) ~>
      (status[w] # "ONLINE" \/ last_heartbeat[w] + HeartbeatTimeout >= now)
=============================================================================
