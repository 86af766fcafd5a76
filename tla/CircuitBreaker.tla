---------------------------- MODULE CircuitBreaker ----------------------------
(***************************************************************************)
(* CircuitBreakerService (services/circuit_breaker.py) for one worker: a   *)
(* Redis hash that get and record_failure read with HGETALL and write with *)
(* HSET and EXPIRE, and that record_success deletes.  Each Redis command   *)
(* is a step; between two steps of one task, the tasks of this and other   *)
(* gateway processes take theirs, and the key may expire.                  *)
(*                                                                         *)
(* HSET merges its fields into the hash and creates it if it is absent: a  *)
(* hash that a late HSET recreates has no failures field, which reads as   *)
(* 0, and no opened_at.                                                    *)
(***************************************************************************)
EXTENDS Naturals, FiniteSets

CONSTANTS
  Tasks,        \* concurrent users of the service
  NULL,
  Threshold,    \* settings.circuit_failure_threshold
  Cooldown,     \* settings.circuit_cooldown_seconds
  MaxFailures,  \* bound: no failure is recorded on top of so many
  MaxTime       \* bound: the clock stops here

Times == 0..MaxTime

SnapshotType ==
  [state : {"CLOSED", "OPEN", "HALF_OPEN"}, failures : 0..MaxFailures,
   opened_at : Times \cup {NULL}]

TaskType ==
  [op : {"get", "record_failure"},
   next : {"half_open", "half_open_expire", "write", "write_expire"},
   current : SnapshotType]

ASSUME CircuitAssumption ==
  /\ Threshold \in Nat \ {0} /\ Cooldown \in Nat \ {0}
  /\ MaxFailures \in Nat /\ MaxTime \in Nat
  /\ NULL \notin Nat \cup SnapshotType \cup TaskType

VARIABLES
  now,
  hash,       \* NULL, or the fields of the Redis hash
  expire_at,  \* NULL if the key has no time to live
  task,       \* task[p]: NULL, or p's operation, its next command and the
              \* snapshot that get is returning to it
  failed,     \* history: failures recorded since the key was last absent
  raced       \* history: whether two operations have overlapped since then

redisVars == <<hash, expire_at>>
vars == <<now, redisVars, task, failed, raced>>

Snapshot(state, failures, opened_at) ==
  [state |-> state, failures |-> failures, opened_at |-> opened_at]

Closed == Snapshot("CLOSED", 0, NULL)

-----------------------------------------------------------------------------
Init ==
  /\ now = 0
  /\ hash = NULL
  /\ expire_at = NULL
  /\ task = [p \in Tasks |-> NULL]
  /\ failed = 0
  /\ raced = FALSE

\* The snapshot that HGETALL yields.
Stored == IF hash = NULL THEN Closed ELSE hash

Busy(p) == task[p] # NULL

AtCommand(p, command) == Busy(p) /\ task[p].next = command

\* Mutant: the cooldown is not awaited.
CooledDownAtOnce(s) == s.state = "OPEN" /\ s.opened_at # NULL

CooledDown(s) ==
  s.state = "OPEN" /\ s.opened_at # NULL /\ now >= s.opened_at + Cooldown

Continue(p, operation, command, snapshot) ==
  task' = [task EXCEPT ![p] = [op |-> operation, next |-> command, current |-> snapshot]]

Finish(p) == task' = [task EXCEPT ![p] = NULL]

\* get has its snapshot: record_failure goes on to write.
Return(p, operation, snapshot) ==
  IF operation = "get" THEN Finish(p) ELSE Continue(p, operation, "write", snapshot)

\* get, alone or within record_failure: HGETALL.
Read(p, operation) ==
  /\ ~Busy(p)
  /\ operation = "record_failure" => failed < MaxFailures /\ Stored.failures < MaxFailures
  /\ IF CooledDown(Stored)
     THEN Continue(p, operation, "half_open", [Stored EXCEPT !.state = "HALF_OPEN"])
     ELSE Return(p, operation, Stored)
  /\ raced' = (raced \/ \E q \in Tasks : Busy(q))
  /\ UNCHANGED <<now, redisVars, failed>>

\* HSET state HALF_OPEN ...
HalfOpen(p) ==
  /\ AtCommand(p, "half_open")
  /\ hash' = [Stored EXCEPT !.state = "HALF_OPEN"]
  /\ Continue(p, task[p].op, "half_open_expire", task[p].current)
  /\ UNCHANGED <<now, expire_at, failed, raced>>

\* EXPIRE does nothing to an absent key.
ExpireCommand ==
  expire_at' = IF hash # NULL THEN now + 3 * Cooldown ELSE expire_at

\* ... and EXPIRE.
HalfOpenExpire(p) ==
  /\ AtCommand(p, "half_open_expire")
  /\ ExpireCommand
  /\ Return(p, task[p].op, task[p].current)
  /\ UNCHANGED <<now, hash, failed, raced>>

\* Mutant: one failure more than the threshold.
ReachedLate(failures) == failures > Threshold

Reached(failures) == failures >= Threshold

\* Mutant: the circuit keeps the time it first had.
OpenedAtKept(state, s) == s.opened_at

\* Mutant: the time at which it will have cooled down is written.
OpenedAtCooled(state, s) == IF state = "OPEN" THEN now + Cooldown ELSE s.opened_at

\* The opened_at that record_failure writes; NULL leaves the field as it is.
OpenedAt(state, s) == IF state = "OPEN" THEN now ELSE s.opened_at

\* record_failure's HSET.
Write(p) ==
  LET s        == task[p].current
      failures == s.failures + 1
      state    == IF Reached(failures) THEN "OPEN" ELSE s.state
      opened   == OpenedAt(state, s)
  IN  /\ AtCommand(p, "write")
      /\ hash' = Snapshot(state, failures,
                          IF opened # NULL THEN opened ELSE Stored.opened_at)
      /\ Continue(p, task[p].op, "write_expire", Closed)
      /\ failed' = failed + 1
      /\ UNCHANGED <<now, expire_at, raced>>

WriteExpire(p) ==
  /\ AtCommand(p, "write_expire")
  /\ ExpireCommand
  /\ Finish(p)
  /\ UNCHANGED <<now, hash, failed, raced>>

\* The key goes, and with it what was counted.
Absent ==
  /\ hash' = NULL /\ expire_at' = NULL
  /\ failed' = 0
  /\ raced' = (\E q \in Tasks : Busy(q))

\* record_success: DEL.
Success(p) ==
  /\ ~Busy(p)
  /\ Absent
  /\ UNCHANGED <<now, task>>

\* The task's process dies; another takes its place.
Crash(p) ==
  /\ Busy(p)
  /\ Finish(p)
  /\ UNCHANGED <<now, redisVars, failed, raced>>

\* Time passes; the key may expire.
Tick ==
  /\ now < MaxTime
  /\ now' = now + 1
  /\ IF expire_at # NULL /\ expire_at <= now + 1
     THEN Absent
     ELSE UNCHANGED <<redisVars, failed, raced>>
  /\ UNCHANGED task

Next ==
  \/ \E p \in Tasks, operation \in {"get", "record_failure"} : Read(p, operation)
  \/ \E p \in Tasks : \/ HalfOpen(p) \/ HalfOpenExpire(p)
                      \/ Write(p) \/ WriteExpire(p)
                      \/ Success(p) \/ Crash(p)
  \/ Tick

Spec == Init /\ [][Next]_vars

-----------------------------------------------------------------------------
(* Properties. *)

\* A stored or remembered snapshot has a known state, a count that the bound
\* caps, and a time at which the circuit opened or none (circuit_breaker.py:22-26).
TypeOK ==
  /\ now \in Times
  /\ hash \in SnapshotType \cup {NULL}
  /\ expire_at \in 0..(MaxTime + 3 * Cooldown) \cup {NULL}
  /\ \A p \in Tasks : Busy(p) => task[p] \in TaskType
  /\ failed \in Nat /\ raced \in BOOLEAN

\* An open circuit has counted enough failures and has a time from which it
\* cools down, however the commands of several tasks interleave; without one
\* it could never half-open (circuit_breaker.py:46-53, 60-67).
OpenJustified ==
  hash # NULL /\ hash.state = "OPEN" =>
    hash.failures >= Threshold /\ hash.opened_at \in Times

\* No task is still writing.
Quiet == \A p \in Tasks : ~Busy(p)

NotClosed == hash # NULL /\ hash.state # "CLOSED"

\* If no two operations have overlapped, failures up to the threshold, with
\* no success between them, leave the circuit open or half open
\* (circuit_breaker.py:56-68).
OpensAtThreshold == Quiet /\ ~raced /\ failed >= Threshold => NotClosed

\* They do so in any case: "Increment failures and open the circuit at the
\* configured threshold" (circuit_breaker.py:57; docs/phase-1-verification.md:48).
NoFailureLost == Quiet /\ failed >= Threshold => NotClosed

\* An open circuit is only left by a cooldown that has run out, a success,
\* the expiry of its key, or a failure recorded by an overlapping operation.
OpenHolds ==
  [][~raced' /\ hash # NULL /\ hash.state = "OPEN" /\ hash' # NULL =>
       hash'.state = "OPEN" \/ now >= hash.opened_at + Cooldown]_vars
=============================================================================
