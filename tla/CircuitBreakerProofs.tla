------------------------- MODULE CircuitBreakerProofs -------------------------
(***************************************************************************)
(* CircuitBreaker for any number of tasks, any threshold and any cooldown. *)
(***************************************************************************)
EXTENDS CircuitBreaker, TLAPS

Numbers ==
  /\ now \in Times
  /\ hash \in SnapshotType \cup {NULL}
  /\ expire_at \in 0..(MaxTime + 3 * Cooldown) \cup {NULL}
  /\ task \in [Tasks -> TaskType \cup {NULL}]
  /\ failed \in Nat

\* Only record_failure writes, on top of a count that the bound has not
\* reached; a hash is written before it is given a time to live.
Writing ==
  \A p \in Tasks : Busy(p) /\ task[p].op = "record_failure" /\ task[p].next # "write_expire" =>
    task[p].current.failures < MaxFailures

Operations ==
  \A p \in Tasks : Busy(p) /\ task[p].next \in {"write", "write_expire"} =>
    task[p].op = "record_failure"

HalfOpening ==
  \A p \in Tasks : Busy(p) /\ task[p].next = "half_open" => task[p].current.state = "HALF_OPEN"

\* An open snapshot has reached the threshold and says when, whether it is
\* stored or still to be written.
Justified(s) == s.state = "OPEN" => s.failures >= Threshold /\ s.opened_at \in Times

SnapshotsJustified ==
  /\ hash # NULL => Justified(hash)
  /\ \A p \in Tasks : Busy(p) => Justified(task[p].current)

\* What one operation at a time can rely on: it is alone, the hash counts
\* every failure, and what the operation has read is still stored.
Alone ==
  /\ \A p, q \in Tasks : Busy(p) /\ Busy(q) => p = q
  /\ Stored.failures = failed
  /\ failed >= Threshold => hash # NULL /\ hash.state # "CLOSED"
  /\ \A p \in Tasks : Busy(p) =>
       /\ task[p].next \in {"half_open", "half_open_expire", "write"} =>
            task[p].current.failures = failed
       /\ task[p].next = "half_open" => hash # NULL /\ CooledDown(hash)
       /\ task[p].next \in {"half_open_expire", "write"} =>
            task[p].current.state = Stored.state

CircuitInv ==
  /\ Numbers /\ Writing /\ Operations /\ HalfOpening /\ SnapshotsJustified
  /\ raced \in BOOLEAN
  /\ ~raced => Alone

LEMMA Constants ==
  /\ Threshold \in Nat \ {0} /\ Cooldown \in Nat \ {0}
  /\ MaxFailures \in Nat /\ MaxTime \in Nat
  /\ NULL \notin Nat /\ NULL \notin SnapshotType /\ NULL \notin TaskType /\ NULL \notin Times /\ Times = 0..MaxTime
  /\ Closed \in SnapshotType /\ Closed.state = "CLOSED" /\ Closed.failures = 0
  /\ Closed.opened_at = NULL
BY CircuitAssumption DEF Times, Closed, Snapshot, SnapshotType

LEMMA CircuitInit == Init => CircuitInv
<1> SUFFICES ASSUME Init PROVE CircuitInv
  OBVIOUS
<1> USE Constants DEF Init
<1>1. Numbers
  BY DEF Numbers
<1>2. Writing /\ Operations /\ HalfOpening /\ SnapshotsJustified
  BY DEF Writing, HalfOpening, Operations, SnapshotsJustified, Busy
<1>3. Alone
  BY DEF Alone, Busy, Stored
<1> QED BY <1>1, <1>2, <1>3 DEF CircuitInv

\* A stored snapshot, or the one that stands for an absent hash.
LEMMA StoredSnapshot ==
  ASSUME CircuitInv
  PROVE  /\ Stored \in SnapshotType /\ Justified(Stored)
         /\ Stored.state \in {"CLOSED", "OPEN", "HALF_OPEN"} /\ Stored.failures \in 0..MaxFailures
         /\ Stored.opened_at \in Times \cup {NULL}
<1>1. Stored \in SnapshotType
  BY Constants DEF CircuitInv, Numbers, Stored
<1>2. Justified(Stored)
  BY Constants DEF CircuitInv, SnapshotsJustified, Stored, Justified
<1> QED BY <1>1, <1>2 DEF SnapshotType

LEMMA ReadStep ==
  ASSUME CircuitInv, NEW p \in Tasks, NEW operation \in {"get", "record_failure"},
         Read(p, operation)
  PROVE  CircuitInv'
<1>0. /\ ~Busy(p) /\ UNCHANGED <<now, hash, expire_at, failed>>
      /\ raced' = (raced \/ \E q \in Tasks : Busy(q))
      /\ operation = "record_failure" => Stored.failures < MaxFailures
  BY DEF Read, redisVars
<1>1. PICK s : s = IF CooledDown(Stored) THEN [Stored EXCEPT !.state = "HALF_OPEN"] ELSE Stored
  OBVIOUS
<1>2. /\ s \in SnapshotType /\ Justified(s) /\ s.failures = Stored.failures
      /\ IF CooledDown(Stored) THEN s.state = "HALF_OPEN" ELSE s.state = Stored.state
  BY <1>1, StoredSnapshot DEF SnapshotType, Justified
<1>3. \E v \in TaskType \cup {NULL} :
        /\ task' = [task EXCEPT ![p] = v]
        /\ v # NULL =>
             /\ v.op = operation /\ v.current = s
             /\ IF CooledDown(Stored) THEN v.next = "half_open" /\ s.state = "HALF_OPEN"
                ELSE v.next = "write" /\ operation = "record_failure"
  <2>1. CASE CooledDown(Stored)
    BY <1>1, <1>2, <2>1 DEF Read, Continue, TaskType
  <2>2. CASE ~CooledDown(Stored) /\ operation = "get"
    BY <2>2 DEF Read, Return, Finish
  <2>3. CASE ~CooledDown(Stored) /\ operation # "get"
    BY <1>1, <1>2, <2>3 DEF Read, Return, Continue, TaskType
  <2> QED BY <2>1, <2>2, <2>3
<1>4. PICK v \in TaskType \cup {NULL} :
        /\ task' = [task EXCEPT ![p] = v]
        /\ v # NULL =>
             /\ v.op = operation /\ v.current = s
             /\ IF CooledDown(Stored) THEN v.next = "half_open" /\ s.state = "HALF_OPEN"
                ELSE v.next = "write" /\ operation = "record_failure"
  BY <1>3
<1>5. task'[p] = v /\ (\A q \in Tasks \ {p} : task'[q] = task[q])
      /\ task' \in [Tasks -> TaskType \cup {NULL}]
  BY <1>4 DEF CircuitInv, Numbers
<1>6. Numbers'
  BY <1>0, <1>5 DEF CircuitInv, Numbers
<1>7. Writing' /\ Operations' /\ HalfOpening'
  BY <1>0, <1>2, <1>4, <1>5 DEF CircuitInv, Writing, Operations, HalfOpening, Busy
<1>8. SnapshotsJustified'
  BY <1>0, <1>2, <1>4, <1>5 DEF CircuitInv, SnapshotsJustified, Busy, Justified
<1>9. raced' \in BOOLEAN
  BY <1>0
<1>10. ASSUME ~raced' PROVE Alone'
  <2>1. ~raced /\ Alone /\ \A q \in Tasks : ~Busy(q)
    BY <1>0, <1>10 DEF CircuitInv
  <2>2. Stored' = Stored /\ (hash' # NULL => (CooledDown(hash)' <=> CooledDown(hash)))
    BY <1>0 DEF Stored, CooledDown
  <2>3. CooledDown(Stored) => hash # NULL /\ Stored = hash
    BY Constants DEF Stored, CooledDown
  <2>4. \A q \in Tasks : Busy(q)' => q = p
    BY <1>5, <2>1 DEF Busy
  <2>5. Busy(p)' => v # NULL
    BY <1>5 DEF Busy
  <2>6. Stored.failures = failed /\ (failed >= Threshold => hash # NULL /\ hash.state # "CLOSED")
    BY <2>1 DEF Alone
  <2>7. ASSUME NEW q \in Tasks, Busy(q)'
        PROVE  /\ task'[q].next \in {"half_open", "half_open_expire", "write"} =>
                    task'[q].current.failures = failed'
               /\ task'[q].next = "half_open" => hash' # NULL /\ CooledDown(hash)'
               /\ task'[q].next \in {"half_open_expire", "write"} =>
                    task'[q].current.state = Stored'.state
    BY <1>0, <1>2, <1>4, <1>5, <2>2, <2>3, <2>4, <2>5, <2>6, <2>7
  <2> QED BY <1>0, <2>2, <2>4, <2>6, <2>7 DEF Alone
<1> QED BY <1>6, <1>7, <1>8, <1>9, <1>10 DEF CircuitInv

LEMMA HalfOpenStep ==
  ASSUME CircuitInv, NEW p \in Tasks, HalfOpen(p)
  PROVE  CircuitInv'
<1>1. PICK o \in TaskType : o = task[p]
  BY DEF HalfOpen, AtCommand, Busy, CircuitInv, Numbers
<1>2. /\ Busy(p) /\ o.next = "half_open" /\ hash' = [Stored EXCEPT !.state = "HALF_OPEN"]
      /\ UNCHANGED <<now, expire_at, failed, raced>>
  BY <1>1 DEF HalfOpen, AtCommand
<1>3. PICK v : v = [op |-> o.op, next |-> "half_open_expire", current |-> o.current]
  OBVIOUS
<1>4. /\ v \in TaskType /\ v # NULL /\ v.op = o.op /\ v.next = "half_open_expire"
      /\ v.current = o.current
  BY <1>1, <1>3, Constants DEF TaskType
<1>5. task' = [task EXCEPT ![p] = v]
  BY <1>1, <1>3 DEF HalfOpen, Continue
<1>6. task'[p] = v /\ (\A q \in Tasks \ {p} : task'[q] = task[q])
      /\ task' \in [Tasks -> TaskType \cup {NULL}]
  BY <1>4, <1>5 DEF CircuitInv, Numbers
<1>7. /\ hash' \in SnapshotType /\ hash'.state = "HALF_OPEN" /\ hash'.failures = Stored.failures
  BY <1>2, StoredSnapshot DEF SnapshotType
<1>8. Numbers'
  BY <1>2, <1>6, <1>7 DEF CircuitInv, Numbers
<1>9. Writing' /\ Operations' /\ HalfOpening'
  BY <1>1, <1>2, <1>4, <1>6 DEF CircuitInv, Writing, Operations, HalfOpening, Busy
<1>10. SnapshotsJustified'
  BY <1>1, <1>2, <1>4, <1>6, <1>7 DEF CircuitInv, SnapshotsJustified, Busy, Justified
<1>11. ASSUME ~raced' PROVE Alone'
  <2>1. Alone /\ \A q \in Tasks : Busy(q) => q = p
    BY <1>2, <1>11 DEF CircuitInv, Alone
  <2>2. \A q \in Tasks : Busy(q)' => q = p
    BY <1>6, <2>1 DEF Busy
  <2>3. Stored' = hash' /\ hash' # NULL
    BY <1>7, Constants DEF Stored
  <2>4. o.current.failures = failed /\ o.current.state = "HALF_OPEN" /\ Stored.failures = failed
    BY <1>1, <1>2, <2>1 DEF Alone, CircuitInv, HalfOpening
  <2> QED BY <1>2, <1>4, <1>6, <1>7, <2>2, <2>3, <2>4 DEF Alone
<1> QED BY <1>2, <1>8, <1>9, <1>10, <1>11 DEF CircuitInv

LEMMA ExpireType ==
  ASSUME CircuitInv, ExpireCommand
  PROVE  expire_at' \in 0..(MaxTime + 3 * Cooldown) \cup {NULL}
BY Constants DEF CircuitInv, Numbers, ExpireCommand

LEMMA HalfOpenExpireStep ==
  ASSUME CircuitInv, NEW p \in Tasks, HalfOpenExpire(p)
  PROVE  CircuitInv'
<1>1. PICK o \in TaskType : o = task[p]
  BY DEF HalfOpenExpire, AtCommand, Busy, CircuitInv, Numbers
<1>2. /\ Busy(p) /\ o.next = "half_open_expire" /\ UNCHANGED <<now, hash, failed, raced>>
  BY <1>1 DEF HalfOpenExpire, AtCommand
<1>3. \E v \in TaskType \cup {NULL} :
        /\ task' = [task EXCEPT ![p] = v]
        /\ v # NULL => v.op = "record_failure" /\ o.op = "record_failure" /\ v.next = "write"
                       /\ v.current = o.current
  <2>1. CASE o.op = "get"
    BY <1>1, <2>1 DEF HalfOpenExpire, Return, Finish
  <2>2. CASE o.op # "get"
    BY <1>1, <2>2 DEF HalfOpenExpire, Return, Continue, TaskType
  <2> QED BY <2>1, <2>2
<1>4. PICK v \in TaskType \cup {NULL} :
        /\ task' = [task EXCEPT ![p] = v]
        /\ v # NULL => v.op = "record_failure" /\ o.op = "record_failure" /\ v.next = "write"
                       /\ v.current = o.current
  BY <1>3
<1>6. task'[p] = v /\ (\A q \in Tasks \ {p} : task'[q] = task[q])
      /\ task' \in [Tasks -> TaskType \cup {NULL}]
  BY <1>4 DEF CircuitInv, Numbers
<1>8. Numbers'
  <2>1. expire_at' \in 0..(MaxTime + 3 * Cooldown) \cup {NULL}
    BY ExpireType DEF HalfOpenExpire
  <2> QED BY <1>2, <1>6, <2>1 DEF CircuitInv, Numbers
<1>9. Writing' /\ Operations' /\ HalfOpening'
  BY <1>1, <1>2, <1>4, <1>6 DEF CircuitInv, Writing, Operations, HalfOpening, Busy
<1>10. SnapshotsJustified'
  BY <1>1, <1>2, <1>4, <1>6 DEF CircuitInv, SnapshotsJustified, Busy, Justified
<1>11. ASSUME ~raced' PROVE Alone'
  <2>1. Alone /\ \A q \in Tasks : Busy(q) => q = p
    BY <1>2, <1>11 DEF CircuitInv, Alone
  <2>2. \A q \in Tasks : Busy(q)' => q = p
    BY <1>6, <2>1 DEF Busy
  <2>3. Stored' = Stored
    BY <1>2 DEF Stored
  <2>4. o.current.failures = failed /\ o.current.state = Stored.state
    BY <1>1, <1>2, <2>1 DEF Alone
  <2>5. Stored.failures = failed /\ (failed >= Threshold => hash # NULL /\ hash.state # "CLOSED")
    BY <2>1 DEF Alone
  <2>6. Busy(p)' => v # NULL
    BY <1>6 DEF Busy
  <2> QED BY <1>2, <1>4, <1>6, <2>2, <2>3, <2>4, <2>5, <2>6 DEF Alone
<1> QED BY <1>2, <1>8, <1>9, <1>10, <1>11 DEF CircuitInv

LEMMA WriteStep ==
  ASSUME CircuitInv, NEW p \in Tasks, Write(p)
  PROVE  /\ CircuitInv'
         /\ ~raced => IF failed + 1 >= Threshold THEN hash'.state = "OPEN"
                      ELSE hash'.state = Stored.state
<1>1. PICK o \in TaskType : o = task[p]
  BY DEF Write, AtCommand, Busy, CircuitInv, Numbers
<1>2. PICK s \in SnapshotType : s = o.current
  BY <1>1 DEF TaskType
<1>3. PICK failures : failures = s.failures + 1
  OBVIOUS
<1>4. PICK state : state = IF failures >= Threshold THEN "OPEN" ELSE s.state
  OBVIOUS
<1>5. PICK opened : opened = IF state = "OPEN" THEN now ELSE s.opened_at
  OBVIOUS
<1>6. PICK at : at = IF opened # NULL THEN opened ELSE Stored.opened_at
  OBVIOUS
<1>7. /\ Busy(p) /\ o.next = "write" /\ hash' = Snapshot(state, failures, at)
      /\ failed' = failed + 1 /\ UNCHANGED <<now, expire_at, raced>>
  BY <1>1, <1>2, <1>3, <1>4, <1>5, <1>6 DEF Write, AtCommand, Reached, OpenedAt
<1>8. o.op = "record_failure" /\ s.failures < MaxFailures /\ Justified(s)
  BY <1>1, <1>2, <1>7 DEF CircuitInv, Operations, Writing, SnapshotsJustified
<1>9. /\ s.failures \in 0..MaxFailures /\ s.state \in {"CLOSED", "OPEN", "HALF_OPEN"}
      /\ s.opened_at \in Times \cup {NULL} /\ now \in Times /\ failed \in Nat
  BY <1>2 DEF SnapshotType, CircuitInv, Numbers
<1>10. /\ failures \in 0..MaxFailures /\ state \in {"CLOSED", "OPEN", "HALF_OPEN"}
       /\ at \in Times \cup {NULL}
       /\ state = "OPEN" => failures >= Threshold /\ at \in Times
  <2>1. failures \in 0..MaxFailures /\ state \in {"CLOSED", "OPEN", "HALF_OPEN"}
    BY <1>3, <1>4, <1>8, <1>9, Constants
  <2>2. opened \in Times \cup {NULL}
    BY <1>5, <1>9
  <2>3. at \in Times \cup {NULL}
    BY <1>6, <2>2, StoredSnapshot
  <2>4. ASSUME state = "OPEN" PROVE failures >= Threshold /\ at \in Times
    <3>1. failures >= Threshold
      BY <1>3, <1>4, <1>8, <1>9, <2>4, Constants DEF Justified
    <3>2. at = now
      BY <1>5, <1>6, <1>9, <2>4, Constants
    <3> QED BY <1>9, <3>1, <3>2
  <2> QED BY <2>1, <2>3, <2>4
<1>11. /\ hash' \in SnapshotType /\ hash'.state = state /\ hash'.failures = failures
       /\ Justified(hash')
  BY <1>7, <1>10 DEF Snapshot, SnapshotType, Justified
<1>12. PICK v : v = [op |-> o.op, next |-> "write_expire", current |-> Closed]
  OBVIOUS
<1>13. /\ v \in TaskType /\ v # NULL /\ v.op = o.op /\ v.next = "write_expire" /\ v.current = Closed
       /\ task' = [task EXCEPT ![p] = v]
  BY <1>1, <1>12, Constants DEF TaskType, Write, Continue
<1>14. task'[p] = v /\ (\A q \in Tasks \ {p} : task'[q] = task[q])
       /\ task' \in [Tasks -> TaskType \cup {NULL}]
  BY <1>13 DEF CircuitInv, Numbers
<1>15. Numbers'
  BY <1>7, <1>9, <1>11, <1>14 DEF CircuitInv, Numbers
<1>16. Writing' /\ Operations' /\ HalfOpening'
  BY <1>8, <1>13, <1>14 DEF CircuitInv, Writing, Operations, HalfOpening, Busy
<1>17. SnapshotsJustified'
  <2>1. Justified(Closed)
    BY Constants DEF Justified
  <2>2. \A x : Justified(x)' <=> Justified(x)
    BY DEF Justified
  <2>3. ASSUME NEW q \in Tasks, Busy(q)' PROVE Justified(task'[q].current)
    <3>1. CASE q = p
      BY <1>13, <1>14, <2>1, <3>1
    <3>2. CASE q # p
      BY <1>14, <2>3, <3>2 DEF CircuitInv, SnapshotsJustified, Busy
    <3> QED BY <3>1, <3>2
  <2> QED BY <1>11, <2>3 DEF SnapshotsJustified, Justified
<1>18. ASSUME ~raced
       PROVE  Alone' /\ state = IF failed + 1 >= Threshold THEN "OPEN" ELSE Stored.state
  <2>1. Alone /\ \A q \in Tasks : Busy(q) => q = p
    BY <1>7, <1>18 DEF CircuitInv, Alone
  <2>2. \A q \in Tasks : Busy(q)' => q = p
    BY <1>14, <2>1 DEF Busy
  <2>3. Stored' = hash' /\ hash' # NULL
    BY <1>11, Constants DEF Stored
  <2>4. s.failures = failed /\ s.state = Stored.state
    BY <1>1, <1>2, <1>7, <2>1 DEF Alone
  <2>5. failures = failed + 1 /\ state = IF failed + 1 >= Threshold THEN "OPEN" ELSE Stored.state
    BY <1>3, <1>4, <2>4
  <2> QED BY <1>7, <1>11, <1>13, <1>14, <2>2, <2>3, <2>5 DEF Alone
<1> QED BY <1>7, <1>11, <1>15, <1>16, <1>17, <1>18 DEF CircuitInv

LEMMA WriteExpireStep ==
  ASSUME CircuitInv, NEW p \in Tasks, WriteExpire(p) \/ Crash(p)
  PROVE  CircuitInv'
<1>1. /\ task' = [task EXCEPT ![p] = NULL] /\ UNCHANGED <<now, hash, failed, raced>>
      /\ ExpireCommand \/ expire_at' = expire_at
  BY DEF WriteExpire, Crash, Finish, redisVars
<1>2. task'[p] = NULL /\ (\A q \in Tasks \ {p} : task'[q] = task[q])
      /\ task' \in [Tasks -> TaskType \cup {NULL}]
  BY <1>1 DEF CircuitInv, Numbers
<1>3. Numbers'
  BY <1>1, <1>2, ExpireType DEF CircuitInv, Numbers
<1>4. \A q \in Tasks : Busy(q)' => Busy(q) /\ task'[q] = task[q]
  BY <1>2 DEF Busy
<1>5. Writing' /\ Operations' /\ HalfOpening'
  BY <1>4 DEF CircuitInv, Writing, Operations, HalfOpening
<1>6. SnapshotsJustified'
  BY <1>1, <1>4 DEF CircuitInv, SnapshotsJustified, Justified
<1>7. Alone => Alone'
  BY <1>1, <1>4 DEF Alone, Stored, CooledDown
<1> QED BY <1>1, <1>3, <1>5, <1>6, <1>7 DEF CircuitInv

\* The key goes: what is counted from here starts at nothing, unless some
\* operation has still the old snapshot.
LEMMA AbsentStep ==
  ASSUME CircuitInv, Absent, UNCHANGED task, now' \in Times
  PROVE  CircuitInv'
<1>1. hash' = NULL /\ expire_at' = NULL /\ failed' = 0 /\ raced' = (\E q \in Tasks : Busy(q))
  BY DEF Absent
<1>2. Numbers'
  BY <1>1 DEF CircuitInv, Numbers
<1>3. Writing' /\ Operations' /\ HalfOpening'
  BY DEF CircuitInv, Writing, Operations, HalfOpening, Busy
<1>4. SnapshotsJustified'
  BY <1>1 DEF CircuitInv, SnapshotsJustified, Justified, Busy
<1>5. raced' \in BOOLEAN
  BY <1>1
<1>6. ~raced' => Alone'
  BY <1>1, Constants DEF Alone, Busy, Stored
<1> QED BY <1>2, <1>3, <1>4, <1>5, <1>6 DEF CircuitInv

LEMMA TickStep ==
  ASSUME CircuitInv, Tick
  PROVE  CircuitInv'
<1>1. now' = now + 1 /\ now' \in Times /\ now \in Nat /\ UNCHANGED task
  BY Constants DEF Tick, CircuitInv, Numbers
<1>2. CASE Absent
  BY <1>1, <1>2, AbsentStep
<1>3. CASE UNCHANGED <<hash, expire_at, failed, raced>>
  <2>1. Numbers'
    BY <1>1, <1>3 DEF CircuitInv, Numbers
  <2>2. Writing' /\ Operations' /\ HalfOpening' /\ SnapshotsJustified'
    BY <1>1, <1>3 DEF CircuitInv, Writing, Operations, HalfOpening, SnapshotsJustified, Justified, Busy
  <2>3. hash # NULL /\ CooledDown(hash) => CooledDown(hash)'
    <3> SUFFICES ASSUME hash # NULL, CooledDown(hash) PROVE CooledDown(hash)'
      OBVIOUS
    <3>1. hash.opened_at \in Times /\ Cooldown \in Nat /\ now >= hash.opened_at + Cooldown
      BY Constants DEF CircuitInv, Numbers, SnapshotType, CooledDown
    <3> QED BY <1>1, <1>3, <3>1, Constants DEF CooledDown
  <2>4. Alone => Alone'
    BY <1>1, <1>3, <2>3 DEF Alone, Stored, Busy
  <2> QED BY <1>3, <2>1, <2>2, <2>4 DEF CircuitInv
<1> QED BY <1>2, <1>3 DEF Tick, redisVars

LEMMA CircuitStep == CircuitInv /\ [Next]_vars => CircuitInv'
<1> SUFFICES ASSUME CircuitInv, [Next]_vars PROVE CircuitInv'
  OBVIOUS
<1>1. ASSUME NEW p \in Tasks, Success(p) PROVE CircuitInv'
  <2>1. now' \in Times
    BY <1>1 DEF Success, CircuitInv, Numbers
  <2> QED BY <1>1, <2>1, AbsentStep DEF Success
<1>2. CASE UNCHANGED vars
  <2>1. UNCHANGED <<now, hash, expire_at, task, failed, raced>>
    BY <1>2 DEF vars, redisVars
  <2>2. Numbers' /\ Writing' /\ Operations' /\ HalfOpening' /\ SnapshotsJustified'
    BY <2>1 DEF CircuitInv, Numbers, Writing, Operations, HalfOpening, SnapshotsJustified, Justified, Busy
  <2>3. Alone => Alone'
    BY <2>1 DEF Alone, Stored, Busy, CooledDown
  <2> QED BY <2>1, <2>2, <2>3 DEF CircuitInv
<1> QED BY <1>1, <1>2, ReadStep, HalfOpenStep, HalfOpenExpireStep, WriteStep, WriteExpireStep, TickStep DEF Next

LEMMA CircuitAlways == Spec => []CircuitInv
BY CircuitInit, CircuitStep, PTL DEF Spec

\* Snapshots, counts and times have their types, however the commands of the
\* tasks interleave (circuit_breaker.py:22-26).
THEOREM CircuitTypeCorrect == Spec => []TypeOK
<1>1. CircuitInv => TypeOK
  BY DEF CircuitInv, Numbers, TypeOK, Busy
<1> QED BY <1>1, CircuitAlways, PTL

\* No interleaving of reads and late writes leaves a circuit open that has not
\* failed often enough, or that could never half-open
\* (circuit_breaker.py:46-53, 60-67).
THEOREM OpenJustifiedSafe == Spec => []OpenJustified
<1>1. CircuitInv => OpenJustified
  BY DEF CircuitInv, SnapshotsJustified, Justified, OpenJustified
<1> QED BY <1>1, CircuitAlways, PTL

\* Operations that do not overlap open the circuit at its threshold
\* (circuit_breaker.py:56-68); run CircuitRace shows that overlapping ones may
\* not.
THEOREM OpensAtThresholdSafe == Spec => []OpensAtThreshold
<1>1. CircuitInv => OpensAtThreshold
  BY DEF CircuitInv, Alone, OpensAtThreshold, NotClosed
<1> QED BY <1>1, CircuitAlways, PTL

\* An open circuit is only left as the service says (circuit_breaker.py:46-53).
THEOREM OpenHoldsSafe == Spec => OpenHolds
<1>1. CircuitInv /\ [Next]_vars =>
        [~raced' /\ hash # NULL /\ hash.state = "OPEN" /\ hash' # NULL =>
           hash'.state = "OPEN" \/ now >= hash.opened_at + Cooldown]_vars
  <2> SUFFICES ASSUME CircuitInv, Next, ~raced', hash # NULL, hash.state = "OPEN", hash' # NULL
               PROVE  hash'.state = "OPEN" \/ now >= hash.opened_at + Cooldown
    OBVIOUS
  <2>1. ASSUME NEW p \in Tasks, HalfOpen(p) PROVE now >= hash.opened_at + Cooldown
    <3>1. Alone /\ Busy(p) /\ task[p].next = "half_open"
      BY <2>1 DEF HalfOpen, CircuitInv, AtCommand
    <3> QED BY <3>1 DEF Alone, CooledDown
  <2>2. ASSUME NEW p \in Tasks, Write(p) PROVE hash'.state = "OPEN"
    <3>1. ~raced /\ Stored.state = "OPEN"
      BY <2>2 DEF Write, Stored
    <3> QED BY <2>2, <3>1, WriteStep
  <2>3. ASSUME NEW p \in Tasks, NEW operation \in {"get", "record_failure"}, Read(p, operation)
        PROVE  hash' = hash
    BY <2>3 DEF Read, redisVars
  <2>4. ASSUME NEW p \in Tasks, HalfOpenExpire(p) \/ WriteExpire(p) \/ Success(p) \/ Crash(p)
        PROVE  hash' = hash
    BY <2>4 DEF HalfOpenExpire, WriteExpire, Success, Crash, redisVars, Absent
  <2>5. ASSUME Tick PROVE hash' = hash
    BY <2>5 DEF Tick, redisVars, Absent
  <2> QED BY <2>1, <2>2, <2>3, <2>4, <2>5 DEF Next
<1> QED BY <1>1, CircuitAlways, PTL DEF Spec, OpenHolds
===============================================================================
