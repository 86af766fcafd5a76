---------------------------- MODULE RowLocksProofs ----------------------------
(***************************************************************************)
(* RowLocks for any number of connections, requests, keys, projects and    *)
(* workers: what a transaction has read stays true until it commits, the   *)
(* projects' counters are exact and the books are TokenLedger's; so no     *)
(* call passes its project's limit; and the order in which each kind of    *)
(* transaction takes its locks leaves two kinds of deadlock.               *)
(***************************************************************************)
EXTENDS RowLocks, TokenUnitsProofs

TxType ==
  [op : Ops, on : Rows \cup {NULL}, stage : 0..6, todo : SUBSET Rows,
   wait : Rows \cup {NULL}, write : [Requests -> Statuses \cup {NULL}],
   read : [Projects -> Nat \cup {NULL}]]

\* TypeOK, but for who holds locks.
Types ==
  /\ status \in [Requests -> Statuses]
  /\ used \in [Projects -> Nat] /\ billed \in [ApiKeys -> Nat]
  /\ owner \in [Rows -> Conns \cup {NULL}]
  /\ tx \in [Conns -> TxType]

-----------------------------------------------------------------------------
(* The shape of a transaction. *)

\* The rows among which the current statement of x finds those it locks.
Reach(x) ==
  CASE x.op = "call" -> IF x.stage = 1 THEN {KeyOf(x)} ELSE {ProjectOf(x.on)}
    [] x.op = "result" -> IF x.stage = 1 THEN {x.on}
                          ELSE IF x.stage = 2 THEN {ProjectOf(x.on)} ELSE {KeyOf(x)}
    [] x.op = "error" -> IF x.stage = 1 THEN {x.on} ELSE Projects
    [] x.op = "recover" -> IF x.stage <= 3 THEN Requests
                           ELSE IF x.stage <= 5 THEN Projects ELSE Workers
    [] x.op \in {"claim", "key", "worker"} -> {x.on}
    [] x.op = "none" -> {}

\* The statuses that x may have written.
Writes(x) ==
  CASE x.op = "call" -> {"QUEUED"}
    [] x.op = "claim" -> {"ASSIGNED"}
    [] x.op = "result" -> {"COMPLETED"}
    [] x.op = "error" -> {"QUEUED", "FAILED_FINAL"}
    [] x.op = "recover" -> {"QUEUED", "FAILED_FINAL", "EXPIRED"}
    [] x.op \in {"none", "key", "worker"} -> {}

\* Those of them for which x has begun to change the projects' counters.
Due(x) ==
  CASE x.op = "call" /\ x.stage = 2 -> {"QUEUED"}
    [] x.op = "result" /\ x.stage >= 2 -> {"COMPLETED"}
    [] x.op = "error" /\ x.stage = 2 -> {"FAILED_FINAL"}
    [] x.op = "recover" /\ x.stage = 4 -> {"FAILED_FINAL"}
    [] x.op = "recover" /\ x.stage >= 5 -> {"FAILED_FINAL", "EXPIRED"}
    [] OTHER -> {}

Subject(x) ==
  /\ x.op \in {"call", "claim", "result", "error"} => x.on \in Requests
  /\ x.op = "key" => x.on \in ApiKeys
  /\ x.op = "worker" => x.on \in Workers

Shape(x) ==
  /\ x.stage = 0 => x = Idle
  /\ x.stage > 0 => x.op # "none" /\ x.stage <= Statements(x)
  /\ Subject(x)
  /\ x.todo \subseteq Reach(x)
  /\ \A r \in Written(x) :
       /\ x.write[r] \in Writes(x)
       /\ x.op # "recover" => r = x.on
       /\ x.write[r] \in Due(x) => x.read[ProjectOf(r)] # NULL \/ ProjectOf(r) \in x.todo
  /\ x.op = "call" => (x.stage = 1 => Written(x) = {}) /\ (x.stage = 2 => x.on \in Written(x))

\* A chat call keeps the row of its key from its first statement on.
KeyHeld(t) ==
  tx[t].op = "call" /\ (tx[t].stage = 2 \/ tx[t].todo = {}) => owner[KeyOf(tx[t])] = t

\* Only open transactions hold locks.
Holders == \A y \in Rows : owner[y] # NULL => owner[y] \in Open

\* DecisionsCurrent, for one connection.
Current(t) ==
  /\ \A p \in Projects :
       tx[t].read[p] # NULL => owner[p] = t /\ tx[t].read[p] = used[p]
  /\ \A r \in Written(tx[t]) :
       IF tx[t].op = "call" THEN owner[RequestKey[r]] = t /\ status[r] = "ABSENT"
       ELSE owner[r] = t /\ status[r] \in {"QUEUED", "ASSIGNED"}

ConnInv(t) == Shape(tx[t]) /\ KeyHeld(t) /\ Current(t)

LocksInv == Types /\ Holders /\ \A t \in Conns : ConnInv(t)

\* The constants: rows are of one kind, and none is NULL.
LEMMA RowKinds ==
  /\ \A r \in Requests : /\ RequestKey[r] \in ApiKeys /\ ProjectOf(r) \in Projects
                         /\ r \in Rows /\ r \notin ApiKeys \cup Projects \cup Workers
  /\ \A k \in ApiKeys : k \in Rows /\ k \notin Requests \cup Projects \cup Workers
  /\ \A p \in Projects : p \in Rows /\ p \notin Requests \cup ApiKeys \cup Workers
  /\ \A w \in Workers : w \in Rows /\ w \notin Requests \cup ApiKeys \cup Projects
  /\ NULL \notin Rows /\ NULL \notin Conns /\ NULL \notin Statuses /\ NULL \notin Nat
  BY LocksAssumption DEF ProjectOf, Rows

LEMMA LocksInit == Init => LocksInv
<1> SUFFICES ASSUME Init PROVE LocksInv
  OBVIOUS
<1>1. Idle \in TxType
  BY DEF Idle, TxType, Ops
<1>2. Types
  BY <1>1 DEF Init, Types, Statuses
<1>3. Holders
  BY DEF Init, Holders
<1>4. ASSUME NEW t \in Conns PROVE ConnInv(t)
  BY <1>4 DEF Init, ConnInv, Shape, KeyHeld, Current, Idle, Subject, Written
<1> QED BY <1>2, <1>3, <1>4 DEF LocksInv

-----------------------------------------------------------------------------
(* The invariant is inductive.  A step of one connection t disturbs another *)
(* one only through rows that t does not hold.                             *)

LEMMA Bystander ==
  ASSUME LocksInv, NEW u \in Conns, tx'[u] = tx[u],
         \A y \in Rows : owner[y] = u => owner'[y] = u,
         \A p \in Projects : owner[p] = u => used'[p] = used[p],
         \A r \in Written(tx[u]) : status'[r] = status[r]
  PROVE  ConnInv(u)'
<1> USE RowKinds DEF LocksInv, Types, TxType
<1>1. ConnInv(u)
  OBVIOUS
<1>2. Shape(tx[u])'
  BY <1>1 DEF ConnInv
<1>3. KeyHeld(u)'
  <2> SUFFICES ASSUME tx[u].op = "call", tx[u].stage = 2 \/ tx[u].todo = {}
               PROVE  owner'[KeyOf(tx[u])] = u
    BY DEF KeyHeld, KeyOf
  <2>1. KeyOf(tx[u]) \in Rows
    BY <1>1 DEF ConnInv, Shape, Subject, KeyOf
  <2> QED BY <1>1, <2>1 DEF ConnInv, KeyHeld
<1>4. Current(u)'
  <2>1. ASSUME NEW p \in Projects, tx[u].read[p] # NULL
        PROVE  owner'[p] = u /\ tx[u].read[p] = used'[p]
    BY <1>1, <2>1 DEF ConnInv, Current
  <2>2. ASSUME NEW r \in Written(tx[u])
        PROVE  IF tx[u].op = "call" THEN owner'[RequestKey[r]] = u /\ status'[r] = "ABSENT"
               ELSE owner'[r] = u /\ status'[r] \in {"QUEUED", "ASSIGNED"}
    BY <1>1, <2>2 DEF ConnInv, Current, Written
  <2> QED BY <2>1, <2>2 DEF Current, Written
<1> QED BY <1>2, <1>3, <1>4 DEF ConnInv

\* The rows a statement looks for are among those its kind can reach.
LEMMA TargetsReach ==
  ASSUME NEW x \in TxType, Subject(x), NEW n \in 1..6, n <= Statements(x),
         NEW S \in Targets(x, n),
         NEW y \in TxType, y.op = x.op, y.on = x.on, y.stage = n
  PROVE  S \subseteq Reach(y) /\ S \subseteq Rows
<1> USE RowKinds DEF TxType, Ops, Subject
<1>0. x.op \in Ops /\ \A s : Having(x, s) \subseteq Requests
  BY DEF Having
<1>1. CASE x.op = "call"
  <2>1. Targets(x, n) = {CallRows(x, n)} /\ n \in {1, 2} /\ y.op = "call"
    BY <1>1 DEF Targets, Statements
  <2>2. CallRows(x, n) = Reach(y)
    BY <2>1 DEF CallRows, Reach, KeyOf
  <2>3. CallRows(x, n) \subseteq Rows
    BY <1>1 DEF CallRows, KeyOf
  <2> QED BY <2>1, <2>2, <2>3
<1>2. CASE x.op \in {"claim", "key", "worker"}
  BY <1>0, <1>2 DEF Targets, Reach
<1>3. CASE x.op = "result"
  <2>1. Targets(x, n) = {ResultRows(x, n)} /\ n \in {1, 2, 3} /\ y.op = "result"
    BY <1>3 DEF Targets, Statements
  <2>2. ResultRows(x, n) \subseteq Reach(y)
    BY <2>1 DEF ResultRows, Reach, KeyOf
  <2>3. ResultRows(x, n) \subseteq Rows
    BY <2>1, <1>3 DEF ResultRows, KeyOf
  <2> QED BY <2>1, <2>2, <2>3
<1>4. CASE x.op = "error"
  <2>1. Targets(x, n) = {ErrorRows(x, n)} /\ n \in {1, 2} /\ y.op = "error"
    BY <1>4 DEF Targets, Statements
  <2>2. ErrorRows(x, n) \subseteq IF n = 1 THEN {x.on} ELSE Projects
    BY <1>0, <2>1 DEF ErrorRows
  <2>3. Reach(y) = IF n = 1 THEN {x.on} ELSE Projects
    BY <2>1 DEF Reach
  <2> QED BY <1>4, <2>1, <2>2, <2>3 DEF Rows
<1>5. CASE x.op = "recover"
  <2>1. S \subseteq RecoverRows(x, n) /\ y.op = "recover"
    BY <1>5 DEF Targets
  <2>2. RecoverRows(x, n) \subseteq IF n <= 3 THEN Requests ELSE IF n <= 5 THEN Projects ELSE Workers
    BY <1>0 DEF RecoverRows
  <2>3. Reach(y) = IF n <= 3 THEN Requests ELSE IF n <= 5 THEN Projects ELSE Workers
    BY <2>1 DEF Reach
  <2> QED BY <2>1, <2>2, <2>3 DEF Rows
<1>6. x.op # "none"
  BY DEF Statements
<1> QED BY <1>0, <1>1, <1>2, <1>3, <1>4, <1>5, <1>6

\* A transaction begins with nothing read or written.
LEMMA BeginStep ==
  ASSUME LocksInv, NEW t \in Conns, NEW job \in Jobs, Begin(t, job)
  PROVE  LocksInv'
<1>0. PICK x : x = [Idle EXCEPT !.op = job.op, !.on = job.on]
  OBVIOUS
<1>1. PICK S \in Targets(x, 1) : tx' = [tx EXCEPT ![t] = [x EXCEPT !.stage = 1, !.todo = S]]
  BY <1>0 DEF Begin
<1>5. PICK y : y = [x EXCEPT !.stage = 1, !.todo = S]
  OBVIOUS
<1>2. UNCHANGED <<status, used, billed, owner>> /\ tx[t] = Idle
  BY DEF Begin
<1>3. /\ job.op \in Ops \ {"none"} /\ job.on \in Rows \cup {NULL}
      /\ Subject(job)
  BY RowKinds DEF Jobs, Ops, Subject
<1> DEFINE Started(n, T) ==
       [op |-> job.op, on |-> job.on, stage |-> n, todo |-> T, wait |-> NULL,
        write |-> [r \in Requests |-> NULL], read |-> [p \in Projects |-> NULL]]
<1>4. x = Started(0, {}) /\ y = Started(1, S)
  <2> DEFINE W == [r \in Requests |-> NULL]
             R == [p \in Projects |-> NULL]
  <2>1. Idle = [op |-> "none", on |-> NULL, stage |-> 0, todo |-> {}, wait |-> NULL,
                write |-> W, read |-> R]
    BY DEF Idle
  <2> HIDE DEF W, R
  <2>2. x = [op |-> job.op, on |-> job.on, stage |-> 0, todo |-> {}, wait |-> NULL,
             write |-> W, read |-> R]
    BY <1>0, <2>1
  <2>3. y = [op |-> job.op, on |-> job.on, stage |-> 1, todo |-> S, wait |-> NULL,
             write |-> W, read |-> R]
    BY <1>5, <2>2
  <2> QED BY <2>2, <2>3 DEF W, R
<1>6. \A n \in {0, 1}, T \in SUBSET Rows : Started(n, T) \in TxType
  BY <1>3 DEF TxType
<1>7. Subject(x) /\ 1 <= Statements(x)
  BY <1>3, <1>4 DEF Subject, Statements, Ops
<1>8. Started(1, {}) \in TxType /\ x \in TxType
  BY <1>4, <1>6
<1>9. S \subseteq Reach(Started(1, {})) /\ S \subseteq Rows
  BY <1>4, <1>7, <1>8, TargetsReach
<1>10. y \in TxType
  BY <1>4, <1>6, <1>9
<1>11. Shape(y)
  <2>1. Reach(y) = Reach(Started(1, {})) /\ Written(y) = {} /\ y.stage = 1 /\ y.todo = S
    BY <1>3, <1>4 DEF Reach, Written, KeyOf
  <2>2. Subject(y) /\ y.op # "none" /\ 1 <= Statements(y)
    BY <1>3, <1>4 DEF Subject, Statements, Ops
  <2> QED BY <1>9, <2>1, <2>2 DEF Shape
<1>12. tx'[t] = y /\ \A u \in Conns \ {t} : tx'[u] = tx[u]
  BY <1>1, <1>5 DEF LocksInv, Types
<1>13. Types'
  BY <1>1, <1>2, <1>10, <1>5 DEF LocksInv, Types
<1>14. Holders'
  <2>1. t \notin Open /\ t \in Open' /\ \A u \in Conns \ {t} : u \in Open <=> u \in Open'
    BY <1>2, <1>4, <1>12 DEF Open, Idle
  <2> QED BY <1>2, <2>1 DEF LocksInv, Types, Holders
<1>15. ConnInv(t)'
  <2>1. y.op = "call" => y.stage = 1 /\ y.todo = {KeyOf(y)}
    BY <1>4 DEF Targets, CallRows, KeyOf
  <2>2. KeyHeld(t)'
    BY <1>12, <2>1 DEF KeyHeld
  <2>3. Current(t)'
    BY <1>4, <1>12 DEF Current, Written
  <2> QED BY <1>11, <1>12, <2>2, <2>3 DEF ConnInv
<1>16. ASSUME NEW u \in Conns \ {t} PROVE ConnInv(u)'
  BY <1>2, <1>12, <1>16, Bystander DEF LocksInv
<1> QED BY <1>13, <1>14, <1>15, <1>16 DEF LocksInv

\* What depends on a transaction's kind and statement only.
LEMMA SameStatement ==
  ASSUME NEW x, NEW y, y.op = x.op, y.on = x.on, y.stage = x.stage
  PROVE  /\ Reach(y) = Reach(x) /\ Due(y) = Due(x) /\ Writes(y) = Writes(x)
         /\ Statements(y) = Statements(x) /\ KeyOf(y) = KeyOf(x)
         /\ Subject(y) <=> Subject(x)
  BY DEF Reach, Due, Writes, Statements, KeyOf, Subject

\* What the other connections see of a step that only changes t's transaction
\* and takes at most locks that were free.
LEMMA OwnStep ==
  ASSUME LocksInv, NEW t \in Open, NEW y \in TxType, y.stage > 0,
         tx' = [tx EXCEPT ![t] = y], UNCHANGED <<status, used, billed>>,
         owner' = owner \/ \E x \in Rows : owner[x] \in {NULL, t} /\ owner' = [owner EXCEPT ![x] = t],
         ConnInv(t)'
  PROVE  LocksInv'
<1> USE RowKinds DEF LocksInv, Types
<1>1. tx'[t] = y /\ \A u \in Conns \ {t} : tx'[u] = tx[u]
  BY DEF Open
<1>2. owner' \in [Rows -> Conns \cup {NULL}]
      /\ \A z \in Rows : owner'[z] = owner[z] \/ (owner[z] \in {NULL, t} /\ owner'[z] = t)
  BY DEF Open
<1>3. Types'
  BY <1>2 DEF Open
<1>4. Holders'
  <2>1. Open' = Open
    BY <1>1 DEF Open, TxType
  <2> QED BY <1>2, <2>1 DEF Holders
<1>5. ASSUME NEW u \in Conns \ {t} PROVE ConnInv(u)'
  BY <1>1, <1>2, <1>5, Bystander DEF Open, Written
<1> QED BY <1>3, <1>4, <1>5 DEF Open

\* Waiting changes nothing that the invariant is about.
LEMMA WaitStep ==
  ASSUME LocksInv, NEW t \in Conns, NEW x \in tx[t].todo, Wait(t, x)
  PROVE  LocksInv'
<1>1. tx[t] \in TxType /\ ConnInv(t)
  BY DEF LocksInv, Types
<1>2. tx[t].stage > 0 /\ tx[t].stage \in 0..6 /\ x \in Rows
  BY <1>1 DEF TxType, ConnInv, Shape, Idle
<1>3. PICK y : y = [tx[t] EXCEPT !.wait = x]
  OBVIOUS
<1>4. /\ y \in TxType
      /\ y.op = tx[t].op /\ y.on = tx[t].on /\ y.stage = tx[t].stage /\ y.todo = tx[t].todo
      /\ y.write = tx[t].write /\ y.read = tx[t].read
  BY <1>1, <1>2, <1>3 DEF TxType
<1>5. tx' = [tx EXCEPT ![t] = y] /\ UNCHANGED <<status, used, billed, owner>> /\ tx'[t] = y
  BY <1>3 DEF Wait, LocksInv, Types
<1>6. Shape(y)
  <2>1. Written(y) = Written(tx[t]) /\ Shape(tx[t])
    BY <1>1, <1>4 DEF Written, ConnInv
  <2> QED BY <1>2, <1>4, <2>1, SameStatement DEF Shape
<1>7. KeyHeld(t)'
  BY <1>1, <1>4, <1>5 DEF ConnInv, KeyHeld, KeyOf
<1>8. Current(t)'
  BY <1>1, <1>4, <1>5 DEF ConnInv, Current, Written
<1>9. ConnInv(t)'
  BY <1>5, <1>6, <1>7, <1>8 DEF ConnInv
<1> QED BY <1>2, <1>4, <1>5, <1>9, OwnStep DEF Open

\* Locks are taken on rows of the kind the statement is about.
LEMMA LockedRows ==
  ASSUME LocksInv, NEW t \in Conns, NEW x \in tx[t].todo
  PROVE  /\ tx[t] \in TxType /\ ConnInv(t) /\ x \in Rows
         /\ tx[t].stage \in 1..6 /\ t \in Open
         /\ x \in Requests =>
              /\ tx[t].op \in {"claim", "result", "error", "recover"}
              /\ tx[t].op # "recover" => x = tx[t].on
              /\ Due(tx[t]) = {}
         /\ x \in Projects /\ tx[t].op = "call" => tx[t].stage = 2
<1>1. tx[t] \in TxType /\ ConnInv(t) /\ x \in Rows
  BY DEF LocksInv, Types, TxType
<1>2. tx[t].stage \in 1..6
  BY <1>1 DEF TxType, ConnInv, Shape, Idle
<1>3. tx[t].op \in Ops \ {"none"} /\ Subject(tx[t]) /\ x \in Reach(tx[t])
      /\ tx[t].stage <= Statements(tx[t])
  BY <1>1, <1>2 DEF ConnInv, Shape, TxType
<1>4. ASSUME x \in Requests
      PROVE  /\ tx[t].op \in {"claim", "result", "error", "recover"}
             /\ tx[t].op # "recover" => x = tx[t].on
             /\ Due(tx[t]) = {}
  <2>1. CASE tx[t].op = "call"
    BY RowKinds, <1>3, <1>4, <2>1 DEF Reach, Subject, KeyOf
  <2>2. CASE tx[t].op \in {"key", "worker"}
    BY RowKinds, <1>3, <1>4, <2>2 DEF Reach, Subject
  <2>3. CASE tx[t].op = "claim"
    BY <1>3, <2>3 DEF Reach, Due
  <2>4. CASE tx[t].op = "result"
    <3>1. tx[t].stage = 1
      BY RowKinds, <1>2, <1>3, <1>4, <2>4 DEF Reach, Subject, KeyOf
    <3> QED BY <1>3, <2>4, <3>1 DEF Reach, Due
  <2>5. CASE tx[t].op = "error"
    <3>1. tx[t].stage = 1
      BY RowKinds, <1>2, <1>3, <1>4, <2>5 DEF Reach
    <3> QED BY <1>3, <2>5, <3>1 DEF Reach, Due
  <2>6. CASE tx[t].op = "recover"
    <3>1. tx[t].stage \in 1..3
      BY RowKinds, <1>2, <1>3, <1>4, <2>6 DEF Reach
    <3> QED BY <2>6, <3>1 DEF Due
  <2> QED BY <1>3, <2>1, <2>2, <2>3, <2>4, <2>5, <2>6 DEF Ops
<1>5. ASSUME x \in Projects, tx[t].op = "call" PROVE tx[t].stage = 2
  BY RowKinds, <1>2, <1>3, <1>5 DEF Reach, Subject, KeyOf, Statements
<1> QED BY <1>1, <1>2, <1>4, <1>5 DEF Open

\* A transaction that stays in its statement keeps its shape, if what it
\* writes is what its kind may write.
LEMMA ShapeKept ==
  ASSUME NEW o \in TxType, NEW y \in TxType, Shape(o), o.stage > 0,
         y.op = o.op, y.on = o.on, y.stage = o.stage, y.todo \subseteq o.todo,
         o.op = "call" => Written(y) = Written(o),
         \A r \in Written(y) :
           /\ y.write[r] \in Writes(o)
           /\ o.op # "recover" => r = o.on
           /\ y.write[r] \in Due(o) => y.read[ProjectOf(r)] # NULL \/ ProjectOf(r) \in y.todo
  PROVE  Shape(y)
<1>1. /\ Reach(y) = Reach(o) /\ Due(y) = Due(o) /\ Writes(y) = Writes(o)
      /\ Statements(y) = Statements(o) /\ (Subject(y) <=> Subject(o))
  BY SameStatement
<1>2. y.stage # 0 /\ y.op # "none" /\ y.stage <= Statements(y)
  BY <1>1 DEF Shape, TxType
<1>3. Subject(y)
  BY <1>1 DEF Shape
<1>4. y.todo \subseteq Reach(y)
  BY <1>1 DEF Shape
<1>5. \A r \in Written(y) :
       /\ y.write[r] \in Writes(y)
       /\ y.op # "recover" => r = y.on
       /\ y.write[r] \in Due(y) => y.read[ProjectOf(r)] # NULL \/ ProjectOf(r) \in y.todo
  BY <1>1
<1>6. y.op = "call" => (y.stage = 1 => Written(y) = {}) /\ (y.stage = 2 => y.on \in Written(y))
  BY DEF Shape
<1> QED BY <1>2, <1>3, <1>4, <1>5, <1>6 DEF Shape

\* The conditions under which the shape is kept hold of what is already there,
\* but for a project that has been locked.
LEMMA WritesKept ==
  ASSUME NEW o \in TxType, Shape(o), NEW r \in Written(o)
  PROVE  /\ r \in Requests
         /\ o.write[r] \in Writes(o)
         /\ o.op # "recover" => r = o.on
         /\ o.write[r] \in Due(o) => o.read[ProjectOf(r)] # NULL \/ ProjectOf(r) \in o.todo
  BY DEF Shape, Written

\* A row that is locked belongs to t, and the others' rows are as they were.
LEMMA RowTaken ==
  ASSUME LocksInv, NEW t \in Conns, NEW x \in Rows, owner[x] \in {NULL, t},
         owner' = [owner EXCEPT ![x] = t]
  PROVE  /\ owner'[x] = t
         /\ \A z \in Rows : owner[z] = t => owner'[z] = t
  BY DEF LocksInv, Types

\* Taking a request's row that still matches, or another row or one that no
\* longer matches: what is written or read under the lock is true when it is
\* (budget.py:42-44, 77-79).
LEMMA LockRequest ==
  ASSUME LocksInv, NEW t \in Conns, NEW x \in tx[t].todo, Lock(t, x),
         x \in Requests, StillMatches(tx[t], x)
  PROVE  LocksInv'
<1>0. PICK o : o = tx[t]
  OBVIOUS
<1>1. /\ o \in TxType /\ ConnInv(t) /\ x \in Rows /\ o.stage \in 1..6 /\ t \in Open
      /\ UNCHANGED <<status, used, billed>> /\ owner[x] \in {NULL, t}
      /\ Shape(o) /\ Current(t) /\ tx \in [Conns -> TxType]
  BY <1>0, LockedRows DEF Lock, LocksInv, Types, ConnInv
<1>2. o.op \in {"claim", "result", "error", "recover"} /\ (o.op # "recover" => x = o.on)
      /\ Due(o) = {}
  BY <1>0, LockedRows
<1>3. PICK s \in Outcomes(o) :
        tx' = [tx EXCEPT ![t].todo = @ \ {x}, ![t].wait = NULL, ![t].write[x] = s]
  BY <1>0, RowKinds DEF Lock
<1>4. owner' = [owner EXCEPT ![x] = t]
  BY RowKinds DEF Lock, Taken
<1>5. s \in Statuses /\ s \in Writes(o) /\ s # NULL
  BY <1>2, RowKinds DEF Outcomes, Statuses, Writes
<1>6. PICK y : y = [o EXCEPT !.todo = @ \ {x}, !.wait = NULL, !.write[x] = s]
  OBVIOUS
<1>7. /\ y \in TxType /\ y.op = o.op /\ y.on = o.on /\ y.stage = o.stage
      /\ y.todo = o.todo \ {x} /\ y.write = [o.write EXCEPT ![x] = s] /\ y.read = o.read
  BY <1>1, <1>5, <1>6 DEF TxType
<1>8. tx' = [tx EXCEPT ![t] = y] /\ tx'[t] = y
  BY <1>0, <1>1, <1>3, <1>6
<1>9. Written(y) = Written(o) \cup {x} /\ y.write[x] = s
      /\ \A r \in Written(o) \ {x} : y.write[r] = o.write[r]
  BY <1>1, <1>5, <1>7 DEF Written, TxType
<1>10. Shape(y)
  <2>1. ASSUME NEW r \in Written(y)
        PROVE  y.write[r] \in Writes(o) /\ (o.op # "recover" => r = o.on)
    BY <1>1, <1>2, <1>5, <1>9, WritesKept
  <2>2. o.op # "call" /\ Due(o) = {}
    BY <1>2
  <2>3. \A r \in Written(y) :
           /\ y.write[r] \in Writes(o)
           /\ o.op # "recover" => r = o.on
           /\ y.write[r] \in Due(o) => y.read[ProjectOf(r)] # NULL \/ ProjectOf(r) \in y.todo
    BY <2>1, <2>2
  <2>4. o.stage > 0 /\ y.todo \subseteq o.todo
    BY <1>1, <1>7
  <2> QED BY <1>1, <1>7, <2>2, <2>3, <2>4, ShapeKept
<1>11. KeyHeld(t)'
  BY <1>2, <1>7, <1>8 DEF KeyHeld
<1>12. status[x] \in {"QUEUED", "ASSIGNED"}
  <2>1. CASE x \in Written(o)
    BY <1>0, <1>1, <1>2, <2>1 DEF Current
  <2>2. CASE x \notin Written(o)
    BY <1>0, <2>2 DEF StillMatches, Sees, Expected, Written
  <2> QED BY <2>1, <2>2
<1>13. Current(t)'
  <2>0. owner'[x] = t /\ \A z \in Rows : owner[z] = t => owner'[z] = t
    BY <1>1, <1>4, RowTaken
  <2>1. ASSUME NEW p \in Projects, o.read[p] # NULL PROVE owner'[p] = t /\ o.read[p] = used'[p]
    BY <1>0, <1>1, <2>0, <2>1 DEF Current, Rows
  <2>2. ASSUME NEW r \in Written(y)
        PROVE  owner'[r] = t /\ status'[r] \in {"QUEUED", "ASSIGNED"}
    <3>1. CASE r = x
      BY <1>1, <1>12, <2>0, <3>1
    <3>2. CASE r # x
      <4>1. r \in Written(o) /\ r \in Rows
        BY <1>9, <2>2, <3>2 DEF Written, Rows
      <4> QED BY <1>0, <1>1, <1>2, <2>0, <4>1 DEF Current
    <3> QED BY <3>1, <3>2
  <2>3. \A p \in Projects : y.read[p] # NULL => owner'[p] = t /\ y.read[p] = used'[p]
    BY <1>7, <2>1
  <2> QED BY <1>2, <1>7, <1>8, <2>2, <2>3 DEF Current
<1>14. ConnInv(t)'
  BY <1>8, <1>10, <1>11, <1>13 DEF ConnInv
<1>15. y \in TxType /\ y.stage > 0 /\ tx' = [tx EXCEPT ![t] = y]
  BY <1>1, <1>7, <1>8
<1>16. owner' = owner \/ \E z \in Rows : owner[z] \in {NULL, t} /\ owner' = [owner EXCEPT ![z] = t]
  BY <1>1, <1>4
<1> QED BY <1>1, <1>14, <1>15, <1>16, OwnStep

LEMMA LockElse ==
  ASSUME LocksInv, NEW t \in Conns, NEW x \in tx[t].todo, Lock(t, x),
         x \in Requests => ~StillMatches(tx[t], x)
  PROVE  LocksInv'
<1>0. PICK o : o = tx[t]
  OBVIOUS
<1>1. /\ o \in TxType /\ ConnInv(t) /\ x \in Rows /\ o.stage \in 1..6 /\ t \in Open
      /\ UNCHANGED <<status, used, billed>> /\ owner[x] \in {NULL, t}
      /\ Shape(o) /\ Current(t) /\ KeyHeld(t) /\ tx \in [Conns -> TxType]
      /\ used \in [Projects -> Nat]
  BY <1>0, LockedRows DEF Lock, LocksInv, Types, ConnInv
<1>2. PICK d : d = IF x \in Projects THEN [o.read EXCEPT ![x] = used[x]] ELSE o.read
  OBVIOUS
<1>3. PICK y : y = [o EXCEPT !.todo = @ \ {x}, !.wait = NULL, !.read = d]
  OBVIOUS
<1>4. /\ owner' = [owner EXCEPT ![x] = t]
      /\ tx' = [tx EXCEPT ![t] = y]
  <2>1. CASE x \in Requests
    <3>1. owner' = [owner EXCEPT ![x] = t]
          /\ tx' = [tx EXCEPT ![t].todo = @ \ {x}, ![t].wait = NULL]
      BY <2>1, RowKinds DEF Lock, Taken
    <3>2. y = [o EXCEPT !.todo = @ \ {x}, !.wait = NULL]
      BY <1>1, <1>2, <1>3, <2>1, RowKinds DEF TxType
    <3> QED BY <1>0, <1>1, <2>1, <3>1, <3>2
  <2>2. CASE x \in Projects
    <3>1. owner' = [owner EXCEPT ![x] = t]
          /\ tx' = [tx EXCEPT ![t].todo = @ \ {x}, ![t].wait = NULL, ![t].read[x] = used[x]]
      BY <2>2, RowKinds DEF Lock, Taken
    <3>2. y = [o EXCEPT !.todo = @ \ {x}, !.wait = NULL, !.read[x] = used[x]]
      BY <1>1, <1>2, <1>3, <2>2
    <3>3. tx' = [tx EXCEPT ![t] = [tx[t] EXCEPT !.todo = @ \ {x}, !.wait = NULL, !.read[x] = used[x]]]
      BY <3>1
    <3>4. tx' = [tx EXCEPT ![t] = y]
      BY <1>0, <3>2, <3>3
    <3> QED BY <2>2, <3>1, <3>4, RowKinds
  <2>3. CASE x \in ApiKeys \cup Workers
    <3>1. owner' = [owner EXCEPT ![x] = t]
          /\ tx' = [tx EXCEPT ![t].todo = @ \ {x}, ![t].wait = NULL]
      BY <2>3, RowKinds DEF Lock, Taken
    <3>2. y = [o EXCEPT !.todo = @ \ {x}, !.wait = NULL]
      BY <1>1, <1>2, <1>3, <2>3, RowKinds DEF TxType
    <3> QED BY <1>0, <1>1, <2>3, <3>1, <3>2, RowKinds
  <2> QED BY <1>1, <2>1, <2>2, <2>3 DEF Rows
<1>5. d \in [Projects -> Nat \cup {NULL}]
  BY <1>1, <1>2 DEF TxType
<1>6. /\ y \in TxType /\ y.op = o.op /\ y.on = o.on /\ y.stage = o.stage
      /\ y.todo = o.todo \ {x} /\ y.write = o.write /\ y.read = d
      /\ tx'[t] = y
  BY <1>1, <1>3, <1>4, <1>5 DEF TxType
<1>7. Written(y) = Written(o)
  BY <1>6 DEF Written
<1>8. \A p \in Projects : IF p = x THEN d[p] = used[p] /\ d[p] # NULL ELSE d[p] = o.read[p]
  BY <1>1, <1>2, RowKinds DEF TxType
<1>9. Shape(y)
  <2>1. ASSUME NEW r \in Written(y)
        PROVE  /\ y.write[r] \in Writes(o)
               /\ o.op # "recover" => r = o.on
               /\ y.write[r] \in Due(o) => y.read[ProjectOf(r)] # NULL \/ ProjectOf(r) \in y.todo
    <3>1. ProjectOf(r) \in Projects
      BY RowKinds DEF Written
    <3>2. /\ o.write[r] \in Writes(o) /\ (o.op # "recover" => r = o.on)
          /\ o.write[r] \in Due(o) => o.read[ProjectOf(r)] # NULL \/ ProjectOf(r) \in o.todo
      BY <1>1, <1>7, WritesKept
    <3>3. CASE ProjectOf(r) = x
      BY <1>6, <1>8, <3>1, <3>2, <3>3
    <3>4. CASE ProjectOf(r) # x
      BY <1>6, <1>8, <3>1, <3>2, <3>4
    <3> QED BY <3>3, <3>4
  <2>2. o.stage > 0 /\ y.todo \subseteq o.todo
    BY <1>1, <1>6
  <2> QED BY <1>1, <1>6, <1>7, <2>1, <2>2, ShapeKept
<1>10. /\ \A z \in Rows : owner[z] = t => owner'[z] = t
       /\ owner'[x] = t
  BY <1>1, <1>4, RowTaken
<1>11. KeyHeld(t)'
  <2> SUFFICES ASSUME o.op = "call", o.stage = 2 \/ o.todo \subseteq {x}
               PROVE  owner'[KeyOf(o)] = t
    BY <1>6 DEF KeyHeld, KeyOf
  <2>1. KeyOf(o) \in Rows /\ o.stage \in {1, 2} /\ x \in Reach(o)
    BY <1>0, <1>1, RowKinds DEF Shape, Subject, KeyOf, Statements
  <2>2. CASE o.stage = 2
    BY <1>0, <1>1, <1>10, <2>1, <2>2 DEF KeyHeld, KeyOf
  <2>3. CASE o.stage = 1
    <3>1. x = KeyOf(o)
      BY <2>1, <2>3 DEF Reach
    <3>2. x \notin Requests
      BY <3>1, <1>1, RowKinds DEF Shape, Subject, KeyOf
    <3> QED BY <1>10, <3>1, <3>2
  <2> QED BY <2>1, <2>2, <2>3
<1>12. Current(t)'
  <2>1. ASSUME NEW p \in Projects, d[p] # NULL PROVE owner'[p] = t /\ d[p] = used'[p]
    <3>1. CASE p = x
      BY <1>1, <1>8, <1>10, <3>1, RowKinds
    <3>2. CASE p # x
      BY <1>0, <1>1, <1>8, <1>10, <2>1, <3>2, RowKinds DEF Current
    <3> QED BY <3>1, <3>2
  <2>2. ASSUME NEW r \in Written(o)
        PROVE  IF o.op = "call" THEN owner'[RequestKey[r]] = t /\ status'[r] = "ABSENT"
               ELSE owner'[r] = t /\ status'[r] \in {"QUEUED", "ASSIGNED"}
    <3>1. r \in Rows /\ RequestKey[r] \in Rows
      BY RowKinds DEF Written
    <3> QED BY <1>0, <1>1, <1>10, <3>1 DEF Current
  <2> QED BY <1>6, <1>7, <2>1, <2>2 DEF Current
<1>13. \E z \in Rows : owner[z] \in {NULL, t} /\ owner' = [owner EXCEPT ![z] = t]
  BY <1>1, <1>4
<1>14. ConnInv(t)' /\ y.stage > 0
  BY <1>1, <1>6, <1>9, <1>11, <1>12 DEF ConnInv
<1> QED BY <1>1, <1>4, <1>6, <1>13, <1>14, OwnStep

\* The next statement: what it is to change, it is about to lock, and a chat
\* call that goes on has found no row for its request under its key's lock
\* (chat.py:36-68, queue.py:83-105, 153-164, 208-218).
LEMMA StatementStep ==
  ASSUME LocksInv, NEW t \in Conns, Statement(t)
  PROVE  LocksInv'
<1>0. PICK o : o = tx[t]
  OBVIOUS
<1>1. /\ t \in Open /\ o.stage < Statements(o) /\ o.todo = {} /\ ~Refused(o)
      /\ UNCHANGED <<status, used, billed, owner>>
      /\ o \in TxType /\ ConnInv(t) /\ Shape(o) /\ Current(t) /\ KeyHeld(t)
      /\ tx \in [Conns -> TxType] /\ o.stage \in 1..6 /\ Subject(o)
  BY <1>0 DEF Statement, LocksInv, Types, ConnInv, Shape, Open, TxType
<1>2. Statements(o) \in 1..6 /\ o.stage + 1 \in 1..6 /\ o.op \in Ops \ {"none"}
  BY <1>1 DEF Statements, Ops, TxType, Shape
<1>20. PICK n \in 1..6 : n = o.stage + 1
  BY <1>2
<1>21. o \in TxType
  BY <1>1
<1>3. PICK w : w = IF o.op = "call" THEN [o.write EXCEPT ![o.on] = "QUEUED"] ELSE o.write
  OBVIOUS
<1>4. PICK S \in Targets(o, n) :
        tx' = [tx EXCEPT ![t] = [o EXCEPT !.stage = n, !.todo = S, !.write = w]]
  <2>1. PICK S \in Targets(o, n) :
          tx' = [tx EXCEPT ![t].stage = @ + 1, ![t].todo = S,
                           ![t].write = IF o.op = "call" THEN [@ EXCEPT ![o.on] = "QUEUED"] ELSE @]
    BY <1>0, <1>20 DEF Statement
  <2>2. tx' = [tx EXCEPT ![t] = [tx[t] EXCEPT !.stage = @ + 1, !.todo = S,
                 !.write = IF o.op = "call" THEN [@ EXCEPT ![o.on] = "QUEUED"] ELSE @]]
    BY <2>1
  <2>3. [o EXCEPT !.stage = @ + 1, !.todo = S,
                 !.write = IF o.op = "call" THEN [@ EXCEPT ![o.on] = "QUEUED"] ELSE @]
        = [o EXCEPT !.stage = n, !.todo = S, !.write = w]
    BY <1>3, <1>20
  <2> QED BY <1>0, <2>2, <2>3
<1>5. PICK y : y = [o EXCEPT !.stage = n, !.todo = S, !.write = w]
  OBVIOUS
<1>6. w \in [Requests -> Statuses \cup {NULL}]
  BY <1>1, <1>3 DEF TxType, Statuses
<1>7. PICK e : e = [o EXCEPT !.stage = n, !.todo = {}]
  OBVIOUS
<1>8. e \in TxType /\ e.op = o.op /\ e.on = o.on /\ e.stage = n
  <2>1. n \in 0..6 /\ {} \in SUBSET Rows
    BY <1>20
  <2>2. \A m \in 0..6, T \in SUBSET Rows : [o EXCEPT !.stage = m, !.todo = T] \in TxType
    BY <1>21 DEF TxType
  <2>3. e \in TxType
    BY <1>7, <2>1, <2>2
  <2> QED BY <1>7, <1>21, <2>3 DEF TxType
<1>9. S \subseteq Reach(e) /\ S \subseteq Rows
  <2>2. n \in 1..6 /\ n <= Statements(o)
    BY <1>1, <1>2, <1>20
  <2> QED BY <1>1, <1>8, <2>2, TargetsReach
<1>10. /\ y \in TxType /\ y.op = o.op /\ y.on = o.on /\ y.stage = n
       /\ y.todo = S /\ y.write = w /\ y.read = o.read
       /\ tx' = [tx EXCEPT ![t] = y] /\ tx'[t] = y
  <2>1. tx' = [tx EXCEPT ![t] = y]
    BY <1>4, <1>5
  <2>2. y \in TxType /\ y.op = o.op /\ y.on = o.on /\ y.stage = n
        /\ y.todo = S /\ y.write = w /\ y.read = o.read
    <3>1. n \in 0..6 /\ S \in SUBSET Rows
      BY <1>20, <1>9
    <3>2. \A m \in 0..6, T \in SUBSET Rows, v \in [Requests -> Statuses \cup {NULL}] :
            [o EXCEPT !.stage = m, !.todo = T, !.write = v] \in TxType
      BY <1>21 DEF TxType
    <3>3. y \in TxType
      BY <1>5, <1>6, <3>1, <3>2
    <3> QED BY <1>5, <1>21, <3>3 DEF TxType
  <2> QED BY <1>1, <2>1, <2>2 DEF Open
<1>11. Reach(y) = Reach(e) /\ Statements(y) = Statements(o) /\ Writes(y) = Writes(o)
       /\ (Subject(y) <=> Subject(o)) /\ KeyOf(y) = KeyOf(o)
  BY <1>8, <1>10, <1>20 DEF Reach, Statements, Writes, Subject, KeyOf
<1>12. CASE o.op = "call"
  <2>1. o.stage = 1 /\ o.on \in Requests /\ Written(o) = {} /\ y.stage = 2
    BY <1>1, <1>10, <1>20, <1>12 DEF Statements, Subject, Shape
  <2>2. S = {ProjectOf(o.on)}
    BY <1>2, <1>20, <1>12, <2>1 DEF Targets, CallRows
  <2>3. Written(y) = {o.on} /\ y.write[o.on] = "QUEUED"
    BY <1>1, <1>3, <1>10, <1>20, <1>12, <2>1, RowKinds DEF Written, TxType, Statuses
  <2>4. Shape(y)
    <3>1. \A r \in Written(y) :
            /\ y.write[r] \in Writes(y)
            /\ y.op # "recover" => r = y.on
            /\ y.write[r] \in Due(y) => y.read[ProjectOf(r)] # NULL \/ ProjectOf(r) \in y.todo
      BY <1>10, <1>20, <1>12, <2>2, <2>3 DEF Writes
    <3>2. y.stage # 0 /\ y.op # "none" /\ y.stage <= Statements(y)
      BY <1>10, <1>20, <1>12, <2>1 DEF Statements
    <3>3. Subject(y) /\ y.todo \subseteq Reach(y) /\ y.on \in Written(y)
      BY <1>1, <1>9, <1>10, <1>20, <1>11, <2>3
    <3> QED BY <2>1, <3>1, <3>2, <3>3 DEF Shape
  <2>5. owner[KeyOf(o)] = t
    BY <1>0, <1>1, <1>12 DEF KeyHeld
  <2>6. status[o.on] = "ABSENT"
    BY <1>1, <1>12, <2>1 DEF Refused
  <2>7. KeyHeld(t)'
    BY <1>1, <1>10, <1>20, <1>11, <2>5 DEF KeyHeld, KeyOf
  <2>8. Current(t)'
    <3>1. \A p \in Projects : y.read[p] # NULL => owner'[p] = t /\ y.read[p] = used'[p]
      BY <1>0, <1>1, <1>10, <1>20 DEF Current
    <3>2. \A r \in Written(y) : owner'[RequestKey[r]] = t /\ status'[r] = "ABSENT"
      BY <1>1, <2>3, <2>5, <2>6 DEF KeyOf
    <3> QED BY <1>10, <1>20, <1>12, <3>1, <3>2 DEF Current
  <2>9. ConnInv(t)' /\ y.stage > 0
    BY <1>10, <1>20, <2>1, <2>4, <2>7, <2>8 DEF ConnInv
  <2> QED BY <1>1, <1>10, <1>20, <2>9, OwnStep
<1>13. CASE o.op # "call"
  <2>1. w = o.write /\ Written(y) = Written(o)
    BY <1>3, <1>10, <1>20, <1>13 DEF Written
  <2>2. ASSUME NEW r \in Written(o), o.write[r] \in Due(y)
        PROVE  o.read[ProjectOf(r)] # NULL \/ ProjectOf(r) \in S
    <3>1. /\ r \in Requests /\ (o.op # "recover" => r = o.on)
          /\ o.write[r] \in Due(o) => o.read[ProjectOf(r)] # NULL
      BY <1>1, WritesKept
    <3>2. Sees(o, r) = o.write[r]
      BY DEF Sees, Written
    <3>3. CASE o.op = "result"
      <4>1. o.stage = 1 \/ Due(y) = Due(o)
        BY <1>1, <1>10, <1>20, <3>3 DEF Due
      <4>2. o.stage = 1 => S = {ProjectOf(o.on)}
        BY <1>2, <1>20, <3>3 DEF Targets, ResultRows
      <4> QED BY <2>2, <3>1, <3>3, <4>1, <4>2
    <3>4. CASE o.op = "error"
      <4>1. o.stage = 1 /\ Due(y) = {"FAILED_FINAL"}
        BY <1>1, <1>10, <1>20, <3>4 DEF Due, Statements
      <4>2. S = {ProjectOf(q) : q \in Having(o, "FAILED_FINAL") \cap Written(o)}
        BY <1>2, <1>20, <3>4, <4>1 DEF Targets, ErrorRows
      <4> QED BY <2>2, <3>1, <3>2, <4>1, <4>2 DEF Having
    <3>5. CASE o.op = "recover"
      <4>1. CASE o.stage = 3
        <5>1. Due(y) = {"FAILED_FINAL"}
          BY <1>10, <1>20, <3>5, <4>1 DEF Due
        <5>2. S = {ProjectOf(q) : q \in Having(o, "FAILED_FINAL") \cap Written(o)}
          BY <1>2, <1>20, <3>5, <4>1 DEF Targets, RecoverRows
        <5> QED BY <2>2, <3>1, <3>2, <5>1, <5>2 DEF Having
      <4>2. CASE o.stage = 4
        <5>1. Due(y) = {"FAILED_FINAL", "EXPIRED"} /\ Due(o) = {"FAILED_FINAL"}
          BY <1>10, <1>20, <3>5, <4>2 DEF Due
        <5>2. S = {ProjectOf(q) : q \in Having(o, "EXPIRED") \cap Written(o)}
          BY <1>2, <1>20, <3>5, <4>2 DEF Targets, RecoverRows
        <5> QED BY <2>2, <3>1, <3>2, <5>1, <5>2 DEF Having
      <4>3. CASE o.stage \notin {3, 4}
        <5>1. Due(y) = Due(o)
          BY <1>1, <1>2, <1>10, <1>20, <3>5, <4>3 DEF Due
        <5> QED BY <2>2, <3>1, <5>1
      <4> QED BY <4>1, <4>2, <4>3
    <3>6. CASE o.op \in {"claim", "key", "worker"}
      BY <1>10, <1>20, <2>2, <3>6 DEF Due
    <3> QED BY <1>2, <1>13, <3>3, <3>4, <3>5, <3>6 DEF Ops
  <2>3. Shape(y)
    <3>1. ASSUME NEW r \in Written(y)
          PROVE  /\ y.write[r] \in Writes(y)
                 /\ y.op # "recover" => r = y.on
                 /\ y.write[r] \in Due(y) => y.read[ProjectOf(r)] # NULL \/ ProjectOf(r) \in y.todo
      BY <1>1, <1>10, <1>20, <1>11, <2>1, <2>2, WritesKept
    <3>2. y.stage # 0 /\ y.op # "none" /\ y.stage <= Statements(y)
      BY <1>1, <1>2, <1>10, <1>20, <1>11
    <3>3. Subject(y) /\ y.todo \subseteq Reach(y)
      BY <1>1, <1>9, <1>10, <1>20, <1>11
    <3> QED BY <1>10, <1>20, <1>13, <3>1, <3>2, <3>3 DEF Shape
  <2>4. KeyHeld(t)'
    BY <1>10, <1>20, <1>13 DEF KeyHeld
  <2>5. Current(t)'
    BY <1>0, <1>1, <1>10, <1>20, <2>1 DEF Current, Written
  <2>6. ConnInv(t)' /\ y.stage > 0
    BY <1>1, <1>2, <1>10, <1>20, <2>3, <2>4, <2>5 DEF ConnInv
  <2> QED BY <1>1, <1>10, <1>20, <2>6, OwnStep
<1> QED BY <1>12, <1>13

\* A transaction that ends gives back its locks and nobody else's.
LEMMA LocksReleased ==
  ASSUME LocksInv, NEW t \in Conns, owner' = Released(t), tx' = [tx EXCEPT ![t] = Idle]
  PROVE  /\ owner' \in [Rows -> Conns \cup {NULL}] /\ tx' \in [Conns -> TxType]
         /\ \A z \in Rows : owner'[z] = IF owner[z] = t THEN NULL ELSE owner[z]
         /\ tx'[t] = Idle /\ \A u \in Conns \ {t} : tx'[u] = tx[u]
         /\ Holders' /\ ConnInv(t)'
<1>1. Idle \in TxType
  BY DEF Idle, TxType, Ops
<1>2. /\ owner' \in [Rows -> Conns \cup {NULL}] /\ tx' \in [Conns -> TxType]
      /\ \A z \in Rows : owner'[z] = IF owner[z] = t THEN NULL ELSE owner[z]
      /\ tx'[t] = Idle /\ \A u \in Conns \ {t} : tx'[u] = tx[u]
  BY <1>1, RowKinds DEF LocksInv, Types, Released
<1>3. Holders'
  <2>1. \A u \in Conns \ {t} : u \in Open <=> u \in Open'
    BY <1>2 DEF Open
  <2> QED BY <1>2, <2>1, RowKinds DEF LocksInv, Types, Holders, Open
<1>4. ConnInv(t)'
  BY <1>2 DEF ConnInv, Shape, KeyHeld, Current, Idle, Subject, Written
<1> QED BY <1>2, <1>3, <1>4

LEMMA RollbackStep ==
  ASSUME LocksInv, NEW t \in Conns, Rollback(t)
  PROVE  LocksInv'
<1>1. /\ owner' \in [Rows -> Conns \cup {NULL}] /\ tx' \in [Conns -> TxType]
      /\ \A z \in Rows : owner'[z] = IF owner[z] = t THEN NULL ELSE owner[z]
      /\ \A u \in Conns \ {t} : tx'[u] = tx[u]
      /\ Holders' /\ ConnInv(t)' /\ UNCHANGED <<status, used, billed>>
  BY LocksReleased DEF Rollback
<1>2. Types'
  BY <1>1 DEF LocksInv, Types
<1>3. ASSUME NEW u \in Conns \ {t} PROVE ConnInv(u)'
  BY <1>1, <1>3, Bystander DEF Written
<1> QED BY <1>1, <1>2, <1>3 DEF LocksInv

\* What a status charges is a number.
LEMMA ChargeType ==
  ASSUME NEW r \in Requests, NEW s \in Statuses
  PROVE  Charge(r, s) \in Nat
BY LocksAssumption DEF Charge, Statuses

\* The requests that t writes, and what they charge before and after.
Mine(t, p) == {r \in Written(tx[t]) : ProjectOf(r) = p}

After(t, p) == [r \in Mine(t, p) |-> Charge(r, tx[t].write[r])]
Before(t, p) == [r \in Mine(t, p) |-> Charge(r, status[r])]

LEMMA CountType ==
  ASSUME LocksInv, NEW t \in Conns, NEW p \in Projects, tx[t].read[p] # NULL
  PROVE  /\ NewCount(t, p) = NotNegative(used[p] + Tokens(Mine(t, p), After(t, p))
                                                 - Tokens(Mine(t, p), Before(t, p)))
         /\ Tokens(Mine(t, p), After(t, p)) \in Nat
         /\ Tokens(Mine(t, p), Before(t, p)) \in Nat
         /\ NewCount(t, p) \in Nat
<1>1. Current(t) /\ tx[t] \in TxType /\ used[p] \in Nat /\ status \in [Requests -> Statuses]
  BY DEF LocksInv, Types, ConnInv
<1>2. tx[t].read[p] = used[p]
  BY <1>1 DEF Current
<1>3. Mine(t, p) \subseteq Requests
  BY DEF Mine, Written
<1>4. IsFiniteSet(Mine(t, p))
  BY <1>3, LocksAssumption, FS_Subset
<1>5. \A r \in Mine(t, p) : After(t, p)[r] \in Nat
  BY <1>1, <1>3, ChargeType DEF After, Mine, Written, TxType
<1>6. \A r \in Mine(t, p) : Before(t, p)[r] \in Nat
  BY <1>1, <1>3, ChargeType DEF Before
<1>7. Tokens(Mine(t, p), After(t, p)) \in Nat /\ Tokens(Mine(t, p), Before(t, p)) \in Nat
  BY <1>4, <1>5, <1>6, TokensType
<1>8. NewCount(t, p) = NotNegative(used[p] + Tokens(Mine(t, p), After(t, p))
                                           - Tokens(Mine(t, p), Before(t, p)))
  BY <1>2 DEF NewCount, Mine, After, Before
<1> QED BY <1>1, <1>7, <1>8 DEF NotNegative

\* No two transactions have written the same request.
LEMMA OneWriter ==
  ASSUME LocksInv, NEW t \in Open, NEW u \in Open, t # u
  PROVE  Written(tx[t]) \cap Written(tx[u]) = {}
<1> SUFFICES ASSUME NEW r \in Written(tx[t]), r \in Written(tx[u]) PROVE FALSE
  OBVIOUS
<1>1. Current(t) /\ Current(u)
  BY DEF LocksInv, ConnInv, Open
<1> QED BY <1>1 DEF Current

\* A commit disturbs nobody: the counters it writes and the requests it
\* changes were locked by it (budget.py:77-79, queue.py:124-151).
LEMMA CommitStep ==
  ASSUME LocksInv, NEW t \in Conns, Commit(t)
  PROVE  LocksInv'
<1>1. /\ owner' \in [Rows -> Conns \cup {NULL}] /\ tx' \in [Conns -> TxType]
      /\ \A z \in Rows : owner'[z] = IF owner[z] = t THEN NULL ELSE owner[z]
      /\ \A u \in Conns \ {t} : tx'[u] = tx[u]
      /\ Holders' /\ ConnInv(t)'
  BY LocksReleased DEF Commit
<1>2. /\ status \in [Requests -> Statuses] /\ used \in [Projects -> Nat]
      /\ billed \in [ApiKeys -> Nat] /\ tx[t] \in TxType /\ Shape(tx[t]) /\ Current(t) /\ t \in Open
  BY DEF LocksInv, Types, ConnInv, Commit
<1>3. /\ status' = [r \in Requests |-> Sees(tx[t], r)]
      /\ used' = [p \in Projects |-> IF tx[t].read[p] = NULL THEN used[p] ELSE NewCount(t, p)]
      /\ billed' = IF tx[t].op = "result" THEN [billed EXCEPT ![KeyOf(tx[t])] = @ + Actual[tx[t].on]]
                   ELSE billed
  BY DEF Commit
<1>4. Types'
  <2>1. status' \in [Requests -> Statuses]
    BY <1>2, <1>3 DEF Sees, TxType
  <2>2. used' \in [Projects -> Nat]
    BY <1>2, <1>3, CountType
  <2>3. billed' \in [ApiKeys -> Nat]
    <3>1. CASE tx[t].op = "result"
      <4>1. KeyOf(tx[t]) \in ApiKeys /\ Actual[tx[t].on] \in Nat
        BY <1>2, <3>1, LocksAssumption DEF Shape, Subject, KeyOf
      <4> QED BY <1>2, <1>3, <3>1, <4>1
    <3>2. CASE tx[t].op # "result"
      BY <1>2, <1>3, <3>2
    <3> QED BY <3>1, <3>2
  <2> QED BY <1>1, <2>1, <2>2, <2>3 DEF Types
<1>5. ASSUME NEW u \in Conns \ {t} PROVE ConnInv(u)'
  <2>1. \A p \in Projects : owner[p] = u => used'[p] = used[p]
    BY <1>2, <1>3 DEF Current
  <2>2. \A r \in Written(tx[u]) : status'[r] = status[r]
    <3>1. CASE u \in Open
      BY <1>2, <1>3, <3>1, OneWriter DEF Written, Sees
    <3>2. CASE u \notin Open
      <4>1. tx[u].stage = 0
        BY <3>2 DEF LocksInv, Types, TxType, Open
      <4>2. Written(tx[u]) = {}
        BY <4>1 DEF LocksInv, ConnInv, Shape, Idle, Written
      <4> QED BY <4>2
    <3> QED BY <3>1, <3>2
  <2>3. \A z \in Rows : owner[z] = u => owner'[z] = u
    BY <1>1
  <2> QED BY <1>1, <2>1, <2>2, <2>3, Bystander
<1> QED BY <1>1, <1>4, <1>5 DEF LocksInv

LEMMA LocksStep == LocksInv /\ [Next]_vars => LocksInv'
<1> SUFFICES ASSUME LocksInv, [Next]_vars PROVE LocksInv'
  OBVIOUS
<1>1. ASSUME NEW t \in Conns, NEW job \in Jobs, Begin(t, job) PROVE LocksInv'
  BY <1>1, BeginStep
<1>2. ASSUME NEW t \in Conns, Statement(t) PROVE LocksInv'
  BY <1>2, StatementStep
<1>3. ASSUME NEW t \in Conns, Commit(t) PROVE LocksInv'
  BY <1>3, CommitStep
<1>4. ASSUME NEW t \in Conns, Rollback(t) PROVE LocksInv'
  BY <1>4, RollbackStep
<1>5. ASSUME NEW t \in Conns, NEW x \in tx[t].todo, Wait(t, x) PROVE LocksInv'
  BY <1>5, WaitStep
<1>6. ASSUME NEW t \in Conns, NEW x \in tx[t].todo, Lock(t, x) PROVE LocksInv'
  BY <1>6, LockRequest, LockElse
<1>7. CASE UNCHANGED vars
  BY <1>7 DEF vars, LocksInv, Types, Holders, Open, ConnInv, KeyHeld, Current
<1> QED BY <1>1, <1>2, <1>3, <1>4, <1>5, <1>6, <1>7 DEF Next

LEMMA LocksInvariant == Spec => []LocksInv
BY LocksInit, LocksStep, PTL DEF Spec

\* Every variable has its type, and only open transactions hold locks: a
\* transaction that ends, crashes or loses a deadlock leaves no row locked.
THEOREM LocksTypeCorrect == Spec => []TypeOK
<1>1. LocksInv => TypeOK
  <2> SUFFICES ASSUME LocksInv PROVE TypeOK
    OBVIOUS
  <2>1. owner \in [Rows -> Open \cup {NULL}]
    BY DEF LocksInv, Types, Holders
  <2> QED BY <2>1 DEF LocksInv, Types, TxType, TypeOK
<1> QED BY <1>1, LocksInvariant, PTL

\* Under READ COMMITTED and with the row locks the code takes, whatever a
\* transaction has read or decided is still so when it commits, however many
\* transactions interleave (budget.py:42-44, 77-79; queue.py:61-67, 132-143,
\* 169-206).
THEOREM DecisionsStayCurrent == Spec => []DecisionsCurrent
<1>1. LocksInv => DecisionsCurrent
  BY DEF LocksInv, ConnInv, Current, DecisionsCurrent, Open
<1> QED BY <1>1, LocksInvariant, PTL

-----------------------------------------------------------------------------
(* The books are TokenLedger's. *)

\* The counters are the sums of what the requests charge: this is why a
\* release never has to be clamped at zero.
BooksInv == \A p \in Projects : used[p] = Tokens(OfProject(p), Charges)

LEMMA BooksInit == Init => BooksInv
<1> SUFFICES ASSUME Init, NEW p \in Projects PROVE used[p] = Tokens(OfProject(p), Charges)
  BY DEF BooksInv
<1>1. \A r \in OfProject(p) : Charges[r] = 0
  BY DEF Init, Charges, OfProject, Charge
<1> QED BY <1>1, TokensZero DEF Init

\* What a committing transaction has written, and what it has settled.
LEMMA Committed ==
  ASSUME LocksInv, NEW t \in Conns, Commit(t), NEW r \in Written(tx[t])
  PROVE  /\ r \in Requests /\ ProjectOf(r) \in Projects
         /\ tx[t].op # "recover" => r = tx[t].on
         /\ tx[t].write[r] \in Writes(tx[t]) \cap Statuses
         /\ IF tx[t].op = "call" THEN status[r] = "ABSENT" ELSE status[r] \in {"QUEUED", "ASSIGNED"}
         /\ tx[t].read[ProjectOf(r)] # NULL \/ tx[t].write[r] \in {"QUEUED", "ASSIGNED"}
         /\ tx[t].op = "call" => tx[t].read[ProjectOf(r)] # NULL
<1>1. /\ tx[t] \in TxType /\ Shape(tx[t]) /\ Current(t) /\ tx[t].todo = {}
      /\ tx[t].stage = Statements(tx[t]) /\ tx[t].stage \in 1..6 /\ tx[t].op \in Ops \ {"none"}
  BY DEF LocksInv, Types, ConnInv, Commit, Open, TxType, Shape
<1>2. /\ r \in Requests /\ (tx[t].op # "recover" => r = tx[t].on)
      /\ tx[t].write[r] \in Writes(tx[t])
      /\ tx[t].write[r] \in Due(tx[t]) => tx[t].read[ProjectOf(r)] # NULL
  BY <1>1, WritesKept
<1>3. tx[t].write[r] \in Statuses
  BY <1>1 DEF TxType, Written
<1>4. Writes(tx[t]) \subseteq Due(tx[t]) \cup {"QUEUED", "ASSIGNED"}
      /\ (tx[t].op = "call" => Writes(tx[t]) \subseteq Due(tx[t]))
  BY <1>1 DEF Writes, Due, Statements, Ops
<1>5. IF tx[t].op = "call" THEN status[r] = "ABSENT" ELSE status[r] \in {"QUEUED", "ASSIGNED"}
  BY <1>1 DEF Current
<1> QED BY <1>2, <1>3, <1>4, <1>5, RowKinds

\* A commit moves each counter by what it changes of its requests' charges.
LEMMA CommitCount ==
  ASSUME LocksInv, BooksInv, NEW t \in Conns, Commit(t), NEW p \in Projects
  PROVE  /\ used'[p] = used[p] + Tokens(Mine(t, p), After(t, p)) - Tokens(Mine(t, p), Before(t, p))
         /\ used'[p] = Tokens(OfProject(p), Charges')
         /\ IsFiniteSet(Mine(t, p)) /\ used[p] \in Nat
         /\ Tokens(Mine(t, p), After(t, p)) \in Nat /\ Tokens(Mine(t, p), Before(t, p)) \in Nat
<1> DEFINE M == Mine(t, p)
           Rest == OfProject(p) \ M
<1>1. /\ status \in [Requests -> Statuses] /\ used \in [Projects -> Nat] /\ tx[t] \in TxType
      /\ status' = [r \in Requests |-> Sees(tx[t], r)]
      /\ used' = [q \in Projects |-> IF tx[t].read[q] = NULL THEN used[q] ELSE NewCount(t, q)]
  BY DEF LocksInv, Types, Commit
<1>2. OfProject(p) = Rest \cup M /\ Rest \cap M = {} /\ M \subseteq Requests
  BY DEF OfProject, Mine, Written
<1>3. IsFiniteSet(M) /\ IsFiniteSet(Rest) /\ Rest \subseteq Requests
  <2>1. Rest \subseteq Requests
    BY DEF OfProject
  <2> QED BY <1>2, <2>1, LocksAssumption, FS_Subset
<1>4. \A r \in M : After(t, p)[r] \in Nat
  BY <1>1, <1>2, ChargeType DEF After, Mine, Written, TxType
<1>5. \A r \in M : Before(t, p)[r] = Charges[r]
  BY <1>2 DEF Before, Charges
<1>6. \A r \in Requests : Charges[r] \in Nat
  BY <1>1, ChargeType DEF Charges
<1>7. \A r \in M : Charges'[r] = After(t, p)[r]
  BY <1>1, <1>2 DEF After, Charges, Mine, Written, Sees
<1>8. \A r \in Rest : Charges'[r] = Charges[r]
  BY <1>1, <1>3 DEF Charges, Mine, OfProject, Written, Sees
<1>9. Tokens(M, After(t, p)) \in Nat /\ Tokens(M, Before(t, p)) \in Nat /\ Tokens(Rest, Charges) \in Nat
  <2>1. \A r \in M : Before(t, p)[r] \in Nat
    BY <1>2, <1>5, <1>6
  <2>2. Tokens(M, After(t, p)) \in Nat
    BY <1>3, <1>4, TokensType
  <2>3. Tokens(M, Before(t, p)) \in Nat
    BY <1>3, <2>1, TokensType
  <2>4. \A r \in Rest : Charges[r] \in Nat
    BY <1>3, <1>6
  <2>5. Tokens(Rest, Charges) \in Nat
    BY <1>3, <2>4, TokensType
  <2> QED BY <2>2, <2>3, <2>5
<1>10. used[p] = Tokens(Rest, Charges) + Tokens(M, Before(t, p))
  <2>1. \A r \in Rest \cup M : Charges[r] \in Nat
    BY <1>2, <1>3, <1>6
  <2>2. Tokens(Rest \cup M, Charges) = Tokens(Rest, Charges) + Tokens(M, Charges)
    BY <1>2, <1>3, <2>1, TokensDisjoint
  <2>3. Tokens(M, Before(t, p)) = Tokens(M, Charges)
    BY <1>5, TokensSame
  <2> QED BY <1>2, <2>2, <2>3 DEF BooksInv
<1>11. Tokens(OfProject(p), Charges') = Tokens(Rest, Charges) + Tokens(M, After(t, p))
  <2>1. \A r \in Rest \cup M : Charges'[r] \in Nat
    BY <1>3, <1>4, <1>6, <1>7, <1>8
  <2>2. Tokens(Rest \cup M, Charges') = Tokens(Rest, Charges') + Tokens(M, Charges')
    BY <1>2, <1>3, <2>1, TokensDisjoint
  <2>3. Tokens(M, Charges') = Tokens(M, After(t, p))
    BY <1>7, TokensSame
  <2>4. Tokens(Rest, Charges') = Tokens(Rest, Charges)
    BY <1>8, TokensSame
  <2> QED BY <1>2, <2>2, <2>3, <2>4
<1>12. used'[p] = used[p] + Tokens(M, After(t, p)) - Tokens(M, Before(t, p))
  <2>1. CASE tx[t].read[p] # NULL
    <3>1. used'[p] = NotNegative(used[p] + Tokens(M, After(t, p)) - Tokens(M, Before(t, p)))
      BY <1>1, <2>1, CountType
    <3> QED BY <1>1, <1>9, <1>10, <3>1 DEF NotNegative
  <2>2. CASE tx[t].read[p] = NULL
    <3>1. \A r \in M : After(t, p)[r] = Before(t, p)[r]
      <4> SUFFICES ASSUME NEW r \in M PROVE After(t, p)[r] = Before(t, p)[r]
        OBVIOUS
      <4>1. r \in Written(tx[t]) /\ ProjectOf(r) = p
        BY DEF Mine
      <4>2. tx[t].write[r] \in {"QUEUED", "ASSIGNED"} /\ status[r] \in {"QUEUED", "ASSIGNED"}
        BY <2>2, <4>1, Committed
      <4> QED BY <4>2 DEF After, Before, Charge
    <3>2. Tokens(M, After(t, p)) = Tokens(M, Before(t, p))
      BY <3>1, TokensSame
    <3> QED BY <1>1, <1>9, <2>2, <3>2
  <2> QED BY <2>1, <2>2
<1> QED BY <1>1, <1>3, <1>9, <1>10, <1>11, <1>12

\* Only commits are seen in the committed rows.
LEMMA OnlyCommits ==
  ASSUME [Next]_vars
  PROVE  (\E t \in Conns : Commit(t)) \/ UNCHANGED <<status, used, billed>>
<1>1. ASSUME NEW t \in Conns, NEW job \in Jobs, Begin(t, job) PROVE UNCHANGED <<status, used, billed>>
  BY <1>1 DEF Begin
<1>2. ASSUME NEW t \in Conns, Statement(t) \/ Rollback(t) PROVE UNCHANGED <<status, used, billed>>
  BY <1>2 DEF Statement, Rollback
<1>3. ASSUME NEW t \in Conns, NEW x \in tx[t].todo, Wait(t, x) \/ Lock(t, x)
      PROVE UNCHANGED <<status, used, billed>>
  BY <1>3 DEF Wait, Lock
<1> QED BY <1>1, <1>2, <1>3 DEF Next, vars

LEMMA BooksStep == LocksInv /\ BooksInv /\ [Next]_vars => BooksInv'
<1> SUFFICES ASSUME LocksInv, BooksInv, [Next]_vars PROVE BooksInv'
  OBVIOUS
<1>1. ASSUME NEW t \in Conns, Commit(t) PROVE BooksInv'
  BY <1>1, CommitCount DEF BooksInv
<1>2. ASSUME UNCHANGED <<status, used, billed>> PROVE BooksInv'
  BY <1>2 DEF BooksInv, Charges
<1> QED BY <1>1, <1>2, OnlyCommits

LEMMA LedgerTokens ==
  ASSUME NEW S, NEW amount
  PROVE  Ledger!Tokens(S, amount) = Tokens(S, amount)
<1>1. \A T : Ledger!Cardinality(T) = Cardinality(T)
  BY DEF Ledger!Cardinality, Cardinality
<1>2. Ledger!Units(S, amount) = Units(S, amount)
  BY DEF Ledger!Units, Units
<1> QED BY <1>1, <1>2 DEF Ledger!Tokens, Tokens

LEMMA PhaseValues ==
  /\ PhaseOf("ABSENT") = "unsubmitted"
  /\ PhaseOf("QUEUED") = "pending" /\ PhaseOf("ASSIGNED") = "pending"
  /\ PhaseOf("COMPLETED") = "answered"
  /\ PhaseOf("FAILED_FINAL") = "failed" /\ PhaseOf("EXPIRED") = "failed"
BY DEF PhaseOf

Phases == [r \in Requests |-> PhaseOf(status[r])]

LEMMA LedgerInit == Init => Ledger!Init
BY DEF Init, Ledger!Init, PhaseOf

\* A commit in which t writes at most one request, of project p.
LEMMA OneCount ==
  ASSUME LocksInv, BooksInv, NEW t \in Conns, Commit(t), NEW r \in Requests,
         Written(tx[t]) = {r}
  PROVE  used' = [used EXCEPT ![ProjectOf(r)] =
                    @ + Charge(r, tx[t].write[r]) - Charge(r, status[r])]
<1>1. used \in [Projects -> Nat] /\ used' \in [Projects -> Nat] /\ ProjectOf(r) \in Projects
  BY CommitStep, RowKinds DEF LocksInv, Types
<1>2. Charge(r, tx[t].write[r]) \in Nat /\ Charge(r, status[r]) \in Nat
  <2>1. tx[t].write[r] \in Statuses /\ status[r] \in Statuses
    BY Committed DEF LocksInv, Types
  <2> QED BY <2>1, ChargeType
<1>3. ASSUME NEW p \in Projects, p # ProjectOf(r) PROVE used'[p] = used[p]
  <2>1. Mine(t, p) = {}
    BY <1>3 DEF Mine
  <2>2. Tokens(Mine(t, p), After(t, p)) = 0 /\ Tokens(Mine(t, p), Before(t, p)) = 0
    BY <2>1, TokensEmpty
  <2>3. used[p] \in Nat
        /\ used'[p] = used[p] + Tokens(Mine(t, p), After(t, p)) - Tokens(Mine(t, p), Before(t, p))
    BY CommitCount
  <2> QED BY <2>2, <2>3
<1>4. used'[ProjectOf(r)] = used[ProjectOf(r)] + Charge(r, tx[t].write[r]) - Charge(r, status[r])
  <2>1. PICK p \in Projects : p = ProjectOf(r)
    BY <1>1
  <2>2. Mine(t, p) = {r} /\ After(t, p)[r] = Charge(r, tx[t].write[r])
        /\ Before(t, p)[r] = Charge(r, status[r])
    BY <2>1 DEF Mine, After, Before
  <2>3. Tokens({r}, After(t, p)) = Charge(r, tx[t].write[r])
    BY <1>2, <2>2, TokensOne
  <2>4. Tokens({r}, Before(t, p)) = Charge(r, status[r])
    BY <1>2, <2>2, TokensOne
  <2> QED BY <2>1, <2>2, <2>3, <2>4, CommitCount
<1> QED BY <1>1, <1>3, <1>4

\* A chat call commits on the counter that it has checked and still holds, and
\* adds its ceiling to it (budget.py:46-71).
LEMMA CallFits ==
  ASSUME LocksInv, BooksInv, NEW t \in Conns, Commit(t), tx[t].op = "call",
         NEW r, r = tx[t].on
  PROVE  /\ r \in Requests /\ Written(tx[t]) = {r} /\ ProjectOf(r) \in Projects
         /\ tx[t].write[r] = "QUEUED" /\ status[r] = "ABSENT"
         /\ used[ProjectOf(r)] \in Nat /\ Ceiling[r] \in Nat /\ Limit \in Nat
         /\ used[ProjectOf(r)] + Ceiling[r] <= Limit
         /\ used' = [used EXCEPT ![ProjectOf(r)] = @ + Ceiling[r]]
<1>1. /\ Shape(tx[t]) /\ tx[t] \in TxType /\ Current(t) /\ tx[t].stage = 2 /\ tx[t].todo = {}
      /\ ~Refused(tx[t]) /\ used \in [Projects -> Nat]
  BY DEF LocksInv, Types, ConnInv, Commit, Statements
<1>2. r \in Requests /\ Written(tx[t]) = {r}
  BY <1>1 DEF Shape, Subject, Written
<1>3. tx[t].write[r] = "QUEUED" /\ status[r] = "ABSENT" /\ tx[t].read[ProjectOf(r)] # NULL
      /\ ProjectOf(r) \in Projects
  BY <1>2, Committed DEF Writes
<1>4. used[ProjectOf(r)] \in Nat /\ Ceiling[r] \in Nat /\ Limit \in Nat
  BY <1>1, <1>2, <1>3, LocksAssumption
<1>5. used[ProjectOf(r)] + Ceiling[r] <= Limit
  <2>1. tx[t].read[ProjectOf(r)] = used[ProjectOf(r)]
    BY <1>1, <1>3 DEF Current
  <2>2. ~(tx[t].read[ProjectOf(r)] + Ceiling[r] > Limit)
    BY <1>1 DEF Refused
  <2> QED BY <1>4, <2>1, <2>2
<1>6. used' = [used EXCEPT ![ProjectOf(r)] = @ + Ceiling[r]]
  <2>1. used' = [used EXCEPT ![ProjectOf(r)] = @ + Charge(r, "QUEUED") - Charge(r, "ABSENT")]
    BY <1>2, <1>3, OneCount
  <2>2. Charge(r, "QUEUED") = Ceiling[r] /\ Charge(r, "ABSENT") = 0
    BY DEF Charge
  <2>3. used[ProjectOf(r)] + Ceiling[r] - 0 = used[ProjectOf(r)] + Ceiling[r]
    BY <1>4
  <2> QED BY <2>1, <2>2, <2>3
<1> QED BY <1>2, <1>3, <1>4, <1>5, <1>6

LEMMA LedgerCall ==
  ASSUME LocksInv, BooksInv, NEW t \in Conns, Commit(t), tx[t].op = "call"
  PROVE  \E r \in Requests : Ledger!Accept(r)
<1>1. PICK r : r = tx[t].on
  OBVIOUS
<1>2. /\ r \in Requests /\ Written(tx[t]) = {r} /\ ProjectOf(r) \in Projects
      /\ tx[t].write[r] = "QUEUED" /\ status[r] = "ABSENT"
      /\ used[ProjectOf(r)] + Ceiling[r] <= Limit
      /\ used' = [used EXCEPT ![ProjectOf(r)] = @ + Ceiling[r]]
  BY <1>1, CallFits
<1>3. /\ tx[t] \in TxType /\ status \in [Requests -> Statuses]
      /\ status' = [q \in Requests |-> Sees(tx[t], q)] /\ billed' = billed
  BY DEF LocksInv, Types, Commit
<1>4. Phases' = [Phases EXCEPT ![r] = "pending"] /\ Phases[r] = "unsubmitted"
  <2>1. \A q \in Requests : status'[q] = IF q = r THEN "QUEUED" ELSE status[q]
    BY <1>2, <1>3, RowKinds DEF Sees, Written
  <2> QED BY <1>2, <2>1, PhaseValues DEF Phases
<1> QED BY <1>2, <1>3, <1>4 DEF Ledger!Accept, Ledger!Project, ProjectOf, Phases

\* A result replaces the reservation and bills at once (queue.py:153-164).
LEMMA LedgerResult ==
  ASSUME LocksInv, BooksInv, NEW t \in Conns, Commit(t), tx[t].op = "result"
  PROVE  \E r \in Requests : Ledger!Answer(r, Actual[r])
<1>1. PICK r : r = tx[t].on
  OBVIOUS
<1>2. /\ Shape(tx[t]) /\ tx[t] \in TxType /\ tx[t].todo = {}
      /\ ~Refused(tx[t]) /\ status \in [Requests -> Statuses] /\ used \in [Projects -> Nat]
      /\ status' = [q \in Requests |-> Sees(tx[t], q)]
      /\ billed' = [billed EXCEPT ![RequestKey[r]] = @ + Actual[r]]
  BY <1>1 DEF LocksInv, Types, ConnInv, Commit, KeyOf
<1>3. r \in Requests /\ Written(tx[t]) = {r}
  <2>1. Written(tx[t]) # {}
    BY <1>2 DEF Refused
  <2> QED BY <1>1, <1>2, <2>1 DEF Shape, Subject
<1>4. tx[t].write[r] = "COMPLETED" /\ status[r] \in {"QUEUED", "ASSIGNED"}
      /\ ProjectOf(r) \in Projects
  BY <1>3, Committed DEF Writes
<1>5. used' = [used EXCEPT ![ProjectOf(r)] = @ + Actual[r] - Ceiling[r]]
  <2>1. used' = [used EXCEPT ![ProjectOf(r)] = @ + Charge(r, "COMPLETED") - Charge(r, status[r])]
    BY <1>3, <1>4, OneCount
  <2>2. Charge(r, "COMPLETED") = Actual[r] /\ Charge(r, status[r]) = Ceiling[r]
    BY <1>4 DEF Charge
  <2> QED BY <2>1, <2>2
<1>6. Phases' = [Phases EXCEPT ![r] = "answered"] /\ Phases[r] = "pending"
  <2>1. \A q \in Requests : status'[q] = IF q = r THEN "COMPLETED" ELSE status[q]
    BY <1>2, <1>3, <1>4, RowKinds DEF Sees, Written
  <2> QED BY <1>3, <1>4, <2>1, PhaseValues DEF Phases
<1> QED BY <1>2, <1>3, <1>5, <1>6 DEF Ledger!Answer, Ledger!Project, ProjectOf, Phases

\* Every other commit gives up the requests it settles, if any.
LEMMA LedgerGiveUp ==
  ASSUME LocksInv, BooksInv, NEW t \in Conns, Commit(t), tx[t].op \notin {"call", "result"}
  PROVE  \E S \in SUBSET Requests : Ledger!GiveUp(S)
<1> DEFINE S == {r \in Written(tx[t]) : tx[t].write[r] \in {"FAILED_FINAL", "EXPIRED"}}
<1>1. /\ tx[t] \in TxType /\ status \in [Requests -> Statuses] /\ used \in [Projects -> Nat]
      /\ used' \in [Projects -> Nat]
      /\ status' = [q \in Requests |-> Sees(tx[t], q)] /\ billed' = billed
      /\ tx[t].op \in {"none", "claim", "error", "recover", "key", "worker"}
  BY CommitStep DEF LocksInv, Types, Commit, TxType, Ops
<1>2. \A r \in Written(tx[t]) :
        /\ r \in Requests
        /\ tx[t].write[r] \in {"QUEUED", "ASSIGNED", "FAILED_FINAL", "EXPIRED"}
        /\ status[r] \in {"QUEUED", "ASSIGNED"}
  BY <1>1, Committed DEF Writes
<1>3. S \in SUBSET Requests
  BY <1>2
<1>4. Phases' = [r \in Requests |-> IF r \in S THEN "failed" ELSE Phases[r]]
      /\ \A r \in S : Phases[r] = "pending"
  <2>1. \A r \in Written(tx[t]) : status'[r] = tx[t].write[r]
    BY <1>1, <1>2 DEF Sees, Written
  <2>2. \A r \in Requests \ Written(tx[t]) : status'[r] = status[r]
    BY <1>1 DEF Sees, Written
  <2>3. \A r \in Requests : PhaseOf(status'[r]) = IF r \in S THEN "failed" ELSE PhaseOf(status[r])
    <3> SUFFICES ASSUME NEW r \in Requests
                 PROVE  PhaseOf(status'[r]) = IF r \in S THEN "failed" ELSE PhaseOf(status[r])
      OBVIOUS
    <3>1. CASE r \in Written(tx[t])
      BY <1>2, <2>1, <3>1, PhaseValues
    <3>2. CASE r \notin Written(tx[t])
      BY <2>2, <3>2
    <3> QED BY <3>1, <3>2
  <2>4. \A r \in S : r \in Requests /\ PhaseOf(status[r]) = "pending"
    BY <1>2, PhaseValues
  <2> QED BY <2>3, <2>4 DEF Phases
<1>5. ASSUME NEW p \in Projects
      PROVE  used'[p] = used[p] - Tokens({r \in S : ProjectOf(r) = p}, Ceiling)
  <2> DEFINE M == Mine(t, p)
             F == {r \in S : ProjectOf(r) = p}
  <2>1. M = (M \ F) \cup F /\ (M \ F) \cap F = {} /\ M \subseteq Requests /\ F \subseteq Requests
    BY <1>3 DEF Mine, Written
  <2>2. IsFiniteSet(M \ F) /\ IsFiniteSet(F)
    BY <2>1, LocksAssumption, FS_Subset
  <2>3. /\ \A r \in F : After(t, p)[r] = 0 /\ Before(t, p)[r] = Ceiling[r] /\ Ceiling[r] \in Nat
        /\ \A r \in M \ F : After(t, p)[r] = Ceiling[r] /\ Before(t, p)[r] = Ceiling[r]
                            /\ Ceiling[r] \in Nat
    BY <1>2, <2>1, LocksAssumption DEF After, Before, Mine, Charge
  <2>4. Tokens(M, After(t, p)) = Tokens(M \ F, Ceiling)
    <3>1. \A r \in (M \ F) \cup F : After(t, p)[r] \in Nat
      BY <2>3
    <3>2. Tokens((M \ F) \cup F, After(t, p)) = Tokens(M \ F, After(t, p)) + Tokens(F, After(t, p))
      BY <2>1, <2>2, <3>1, TokensDisjoint
    <3>3. Tokens(F, After(t, p)) = 0
      BY <2>3, TokensZero
    <3>4. Tokens(M \ F, After(t, p)) = Tokens(M \ F, Ceiling)
      BY <2>3, TokensSame
    <3>5. Tokens(M \ F, Ceiling) \in Nat
      BY <2>2, <2>3, TokensType
    <3>6. Tokens(M, After(t, p)) = Tokens((M \ F) \cup F, After(t, p))
      BY <2>1
    <3> QED BY <3>2, <3>3, <3>4, <3>5, <3>6
  <2>5. Tokens(M, Before(t, p)) = Tokens(M \ F, Ceiling) + Tokens(F, Ceiling)
    <3>1. \A r \in (M \ F) \cup F : Before(t, p)[r] = Ceiling[r] /\ Ceiling[r] \in Nat
      BY <2>3
    <3>2. Tokens((M \ F) \cup F, Before(t, p)) = Tokens((M \ F) \cup F, Ceiling)
      BY <3>1, TokensSame
    <3>3. Tokens((M \ F) \cup F, Ceiling) = Tokens(M \ F, Ceiling) + Tokens(F, Ceiling)
      BY <2>1, <2>2, <3>1, TokensDisjoint
    <3> QED BY <2>1, <3>2, <3>3
  <2>6. Tokens(M \ F, Ceiling) \in Nat /\ Tokens(F, Ceiling) \in Nat
    BY <2>2, <2>3, TokensType
  <2> QED BY <1>1, <2>4, <2>5, <2>6, CommitCount
<1>6. used' = [p \in Projects |-> used[p] - Ledger!Tokens(Ledger!InProject(S, p), Ceiling)]
  <2>1. ASSUME NEW p \in Projects
        PROVE  used'[p] = used[p] - Ledger!Tokens(Ledger!InProject(S, p), Ceiling)
    <3>1. Ledger!InProject(S, p) = {r \in S : ProjectOf(r) = p}
      BY DEF Ledger!InProject, Ledger!Project, ProjectOf
    <3> QED BY <1>5, <3>1, LedgerTokens
  <2> QED BY <1>1, <2>1
<1> HIDE DEF S
<1>7. Ledger!GiveUp(S)
  BY <1>1, <1>3, <1>4, <1>6 DEF Ledger!GiveUp, Phases
<1> QED BY <1>3, <1>7

LEMMA LedgerStep == LocksInv /\ BooksInv /\ [Next]_vars => [Ledger!Next]_(Ledger!vars)
<1> SUFFICES ASSUME LocksInv, BooksInv, [Next]_vars
             PROVE  Ledger!Next \/ UNCHANGED Ledger!vars
  OBVIOUS
<1>1. ASSUME NEW t \in Conns, Commit(t) PROVE Ledger!Next
  <2>1. CASE tx[t].op = "result"
    <3>1. PICK r \in Requests : Ledger!Answer(r, Actual[r])
      BY <1>1, <2>1, LedgerResult
    <3> QED BY <3>1 DEF Ledger!Next
  <2> QED BY <1>1, <2>1, LedgerCall, LedgerGiveUp DEF Ledger!Next
<1>2. ASSUME UNCHANGED <<status, used, billed>> PROVE UNCHANGED Ledger!vars
  BY <1>2 DEF Ledger!vars, PhaseOf
<1> QED BY <1>1, <1>2, OnlyCommits

\* However many connections interleave their statements, and whichever of
\* them fail, the committed rows only ever change as TokenLedger's atomic
\* reservations, settlements and releases (budget.py:36, "Serialize project
\* reservations so concurrent requests cannot oversubscribe a budget").
THEOREM LocksImplementLedger == Spec => ImplementsLedger
<1>1. Spec => [](LocksInv /\ BooksInv)
  BY LocksInit, LocksStep, BooksInit, BooksStep, PTL DEF Spec
<1> QED
  BY <1>1, LedgerInit, LedgerStep, PTL DEF Spec, ImplementsLedger, Ledger!Spec

\* The counter that a call has checked is what its project's requests hold.
LEMMA WithinLimit ==
  ASSUME LocksInv, BooksInv, BooksInv', NEW t \in Conns, Commit(t),
         NEW r \in Requests, status[r] = "ABSENT", status'[r] # "ABSENT"
  PROVE  Tokens(OfProject(ProjectOf(r)), Charges') <= Limit
<1>1. Shape(tx[t]) /\ Current(t) /\ status' = [q \in Requests |-> Sees(tx[t], q)]
      /\ used \in [Projects -> Nat]
  BY DEF LocksInv, Types, ConnInv, Commit
<1>2. r \in Written(tx[t])
  BY <1>1 DEF Sees, Written
<1>3. tx[t].op = "call" /\ tx[t].on = r
  <2>1. tx[t].op = "call"
    BY <1>1, <1>2 DEF Current
  <2> QED BY <1>1, <1>2, <2>1 DEF Shape
<1>4. ProjectOf(r) \in Projects /\ used'[ProjectOf(r)] <= Limit
  BY <1>1, <1>3, CallFits
<1>5. used'[ProjectOf(r)] = Tokens(OfProject(ProjectOf(r)), Charges')
  BY <1>4 DEF BooksInv
<1> QED BY <1>4, <1>5

\* No interleaving of the statements of any number of calls, results, errors
\* and recoveries lets a call in beyond its project's limit, counted over the
\* requests themselves (budget.py:36, "Serialize project reservations so
\* concurrent requests cannot oversubscribe a budget").
THEOREM NoOversubscriptionSafe == Spec => NoOversubscription
<1> DEFINE Within ==
       \A r \in Requests :
         status[r] = "ABSENT" /\ status'[r] # "ABSENT" =>
           Tokens(OfProject(ProjectOf(r)), Charges') <= Limit
<1>1. Spec => [](LocksInv /\ BooksInv)
  BY LocksInit, LocksStep, BooksInit, BooksStep, PTL DEF Spec
<1>2. LocksInv /\ BooksInv /\ (LocksInv /\ BooksInv)' /\ [Next]_vars => [Within]_vars
  <2> SUFFICES ASSUME LocksInv, BooksInv, BooksInv', [Next]_vars, NEW r \in Requests,
                      status[r] = "ABSENT", status'[r] # "ABSENT"
               PROVE  Tokens(OfProject(ProjectOf(r)), Charges') <= Limit
    OBVIOUS
  <2>1. PICK t \in Conns : Commit(t)
    BY OnlyCommits
  <2> QED BY <2>1, WithinLimit
<1> QED BY <1>1, <1>2, PTL DEF Spec, NoOversubscription

-----------------------------------------------------------------------------
(* Who waits for whom. *)

\* The rows that statement n of x is about.
RowsOf(x, n) ==
  CASE x.op = "call" -> IF n = 1 THEN {KeyOf(x)} ELSE {ProjectOf(x.on)}
    [] x.op = "result" -> IF n = 1 THEN {x.on}
                          ELSE IF n = 2 THEN {ProjectOf(x.on)} ELSE {KeyOf(x)}
    [] x.op = "error" -> IF n = 1 THEN {x.on} ELSE {ProjectOf(x.on)}
    [] x.op = "recover" -> IF n <= 3 THEN Requests ELSE IF n <= 5 THEN Projects ELSE Workers
    [] x.op \in {"claim", "key", "worker"} -> {x.on}
    [] x.op = "none" -> {}

\* The rows that x may have locked: those of the statements it has finished
\* and, but for a statement about one row that it has not locked yet, of the
\* one it is in.
Passed(x) ==
  {y \in Rows : \E n \in 1..x.stage :
     y \in RowsOf(x, n) /\ (n < x.stage \/ x.op = "recover" \/ x.todo = {})}

\* A transaction locks its rows statement by statement; a result has its
\* project's row before it comes to its key's.
Order(t) ==
  /\ tx[t].wait # NULL => tx[t].wait \in tx[t].todo /\ tx[t].op # "claim"
  /\ tx[t].op = "error" /\ tx[t].stage = 2 => tx[t].todo \subseteq {ProjectOf(tx[t].on)}
  /\ \A y \in Rows : owner[y] = t => y \in Passed(tx[t])
  /\ tx[t].op = "result" /\ (tx[t].stage = 3 \/ (tx[t].stage = 2 /\ tx[t].todo = {}))
       => owner[ProjectOf(tx[t].on)] = t

OrderInv == \A t \in Conns : Order(t)

LEMMA OrderInit == Init => OrderInv
<1> SUFFICES ASSUME Init, NEW t \in Conns PROVE Order(t)
  BY DEF OrderInv
<1>1. tx[t] = Idle /\ \A y \in Rows : owner[y] = NULL
  BY DEF Init
<1> QED BY <1>1, RowKinds DEF Order, Idle

LEMMA TodoRows ==
  ASSUME LocksInv, NEW t \in Conns, Order(t)
  PROVE  tx[t].todo \subseteq RowsOf(tx[t], tx[t].stage)
<1>1. tx[t] \in TxType /\ Shape(tx[t])
  BY DEF LocksInv, Types, ConnInv
<1>2. tx[t].op \in Ops /\ tx[t].stage \in 0..6 /\ tx[t].todo \subseteq Reach(tx[t])
      /\ (tx[t].stage = 0 => tx[t] = Idle) /\ (tx[t].stage > 0 => tx[t].stage <= Statements(tx[t]))
  BY <1>1 DEF TxType, Shape
<1>3. CASE tx[t].op = "error"
  BY <1>2, <1>3 DEF Order, Reach, RowsOf, Statements, Idle
<1>4. CASE tx[t].op # "error"
  <2>1. Reach(tx[t]) = RowsOf(tx[t], tx[t].stage)
    BY <1>2, <1>4 DEF Reach, RowsOf, Ops
  <2> QED BY <1>2, <2>1
<1> QED BY <1>3, <1>4

\* What a transaction does to the others leaves them in order.
LEMMA OrderKept ==
  ASSUME LocksInv, NEW u \in Conns, Order(u), tx'[u] = tx[u],
         \A y \in Rows : owner'[y] = u <=> owner[y] = u
  PROVE  Order(u)'
<1>1. tx[u].op = "result" => ProjectOf(tx[u].on) \in Rows
  BY RowKinds DEF LocksInv, ConnInv, Shape, Subject, Rows
<1>2. \A y \in Rows : owner'[y] = u => y \in Passed(tx[u])
  BY DEF Order
<1>3. tx[u].op = "result" /\ (tx[u].stage = 3 \/ (tx[u].stage = 2 /\ tx[u].todo = {}))
       => owner'[ProjectOf(tx[u].on)] = u
  BY <1>1 DEF Order
<1>4. Passed(tx[u])' = Passed(tx[u]) /\ ProjectOf(tx[u].on)' = ProjectOf(tx[u].on)
  BY DEF Passed, RowsOf, KeyOf, ProjectOf
<1> QED BY <1>2, <1>3, <1>4 DEF Order

LEMMA OrderBegin ==
  ASSUME LocksInv, LocksInv', OrderInv, NEW t \in Conns, NEW job \in Jobs, Begin(t, job)
  PROVE  OrderInv'
<1>1. tx \in [Conns -> TxType] /\ tx[t] = Idle /\ owner' = owner
  BY DEF LocksInv, Types, Begin
<1>2. \A u \in Conns \ {t} : tx'[u] = tx[u]
  BY <1>1 DEF Begin
<1>3. PICK x : x = [Idle EXCEPT !.op = job.op, !.on = job.on]
  OBVIOUS
<1>4. PICK S : tx' = [tx EXCEPT ![t] = [x EXCEPT !.stage = 1, !.todo = S]]
  BY <1>3 DEF Begin
<1>5. tx'[t] = [x EXCEPT !.stage = 1, !.todo = S]
  BY <1>1, <1>4
<1>6. tx'[t].stage = 1 /\ tx'[t].wait = NULL
  BY <1>3, <1>5 DEF Idle
<1>7. \A y \in Rows : owner[y] # t
  BY <1>1, RowKinds DEF LocksInv, Holders, Open, Idle
<1>8. Order(t)'
  BY <1>1, <1>6, <1>7 DEF Order
<1>9. ASSUME NEW u \in Conns \ {t} PROVE Order(u)'
  BY <1>1, <1>2, <1>9, OrderKept DEF OrderInv
<1> QED BY <1>8, <1>9 DEF OrderInv

LEMMA OrderStatement ==
  ASSUME LocksInv, LocksInv', OrderInv, NEW t \in Conns, Statement(t)
  PROVE  OrderInv'
<1>1. tx \in [Conns -> TxType] /\ owner' = owner /\ tx[t].todo = {} /\ Order(t)
      /\ tx[t].stage \in 1..6 /\ tx[t].stage < Statements(tx[t])
      /\ \A r \in Written(tx[t]) : tx[t].op # "recover" => r = tx[t].on
  <2>1. tx \in [Conns -> TxType] /\ Order(t) /\ Shape(tx[t])
    BY DEF LocksInv, Types, OrderInv, ConnInv
  <2>2. tx[t].stage > 0 /\ tx[t].stage \in 0..6
    BY <2>1 DEF Statement, Open, TxType
  <2> QED BY <2>1, <2>2 DEF Statement, Shape
<1>2. \A u \in Conns \ {t} : tx'[u] = tx[u]
  BY <1>1 DEF Statement
<1>3. PICK o : o = tx[t]
  OBVIOUS
<1>30. PICK n : n = o.stage + 1
  OBVIOUS
<1>31. PICK w : w = IF o.op = "call" THEN [o.write EXCEPT ![o.on] = "QUEUED"] ELSE o.write
  OBVIOUS
<1>4. PICK S \in Targets(o, n) : tx'[t] = [o EXCEPT !.stage = n, !.todo = S, !.write = w]
  <2>1. PICK S \in Targets(o, n) :
          tx' = [tx EXCEPT ![t].stage = @ + 1, ![t].todo = S,
                           ![t].write = IF o.op = "call" THEN [@ EXCEPT ![o.on] = "QUEUED"] ELSE @]
    BY <1>3, <1>30 DEF Statement
  <2>2. tx' = [tx EXCEPT ![t] = [tx[t] EXCEPT !.stage = @ + 1, !.todo = S,
                 !.write = IF o.op = "call" THEN [@ EXCEPT ![o.on] = "QUEUED"] ELSE @]]
    BY <2>1
  <2>3. [o EXCEPT !.stage = @ + 1, !.todo = S,
                 !.write = IF o.op = "call" THEN [@ EXCEPT ![o.on] = "QUEUED"] ELSE @]
        = [o EXCEPT !.stage = n, !.todo = S, !.write = w]
    BY <1>30, <1>31
  <2>4. tx'[t] = [tx[t] EXCEPT !.stage = @ + 1, !.todo = S,
                 !.write = IF o.op = "call" THEN [@ EXCEPT ![o.on] = "QUEUED"] ELSE @]
    BY <1>1, <2>2
  <2> QED BY <1>3, <2>3, <2>4
<1>5. PICK y : y = tx'[t]
  OBVIOUS
<1>6. /\ o \in TxType /\ y.op = o.op /\ y.on = o.on /\ y.stage = n /\ y.todo = S
      /\ y.wait = o.wait /\ n \in 2..6
  <2>1. o \in TxType
    BY <1>1, <1>3
  <2>2. Statements(o) \in 0..6
    BY <2>1 DEF Statements, TxType, Ops
  <2>3. n \in 2..6
    BY <1>1, <1>3, <1>30, <2>2
  <2> QED BY <1>4, <1>5, <2>1, <2>3 DEF TxType
<1>7. y.wait = NULL
  BY <1>1, <1>3, <1>6 DEF Order
<1>8. y.op = "error" /\ y.stage = 2 => y.todo \subseteq {ProjectOf(y.on)}
  <2> SUFFICES ASSUME o.op = "error", n = 2 PROVE S \subseteq {ProjectOf(o.on)}
    BY <1>6
  <2>1. S = {ProjectOf(r) : r \in Having(o, "FAILED_FINAL") \cap Written(o)}
    BY <1>6 DEF Targets, ErrorRows
  <2> QED BY <1>1, <1>3, <2>1
<1>9. ASSUME NEW z \in Rows, owner[z] = t PROVE z \in Passed(y)
  <2>1. PICK m \in 1..o.stage : z \in RowsOf(o, m)
    BY <1>1, <1>3, <1>9 DEF Order, Passed
  <2>2. RowsOf(y, m) = RowsOf(o, m)
    BY <1>6 DEF RowsOf, KeyOf
  <2>3. m \in 1..y.stage /\ m < y.stage
    BY <1>1, <1>3, <1>30, <1>6
  <2> QED BY <2>1, <2>2, <2>3 DEF Passed
<1>10. y.op = "result" /\ (y.stage = 3 \/ (y.stage = 2 /\ y.todo = {})) => owner[ProjectOf(y.on)] = t
  <2> SUFFICES ASSUME o.op = "result", n = 3 \/ (n = 2 /\ S = {})
               PROVE  owner[ProjectOf(o.on)] = t
    BY <1>6
  <2>1. n = 2 => S = {ProjectOf(o.on)}
    BY <1>6 DEF Targets, ResultRows
  <2>2. o.stage = 2
    BY <1>1, <1>3, <1>30, <2>1
  <2> QED BY <1>1, <1>3, <2>2 DEF Order
<1>11. Order(t)'
  BY <1>1, <1>5, <1>7, <1>8, <1>9, <1>10 DEF Order
<1>12. ASSUME NEW u \in Conns \ {t} PROVE Order(u)'
  BY <1>1, <1>2, <1>12, OrderKept DEF OrderInv
<1> QED BY <1>11, <1>12 DEF OrderInv

\* A lock that is taken is one the current statement is about.
LEMMA LockEffect ==
  ASSUME LocksInv, NEW t \in Conns, NEW x \in tx[t].todo, Lock(t, x)
  PROVE  /\ tx'[t].op = tx[t].op /\ tx'[t].on = tx[t].on /\ tx'[t].stage = tx[t].stage
         /\ tx'[t].todo = tx[t].todo \ {x} /\ tx'[t].wait = NULL
         /\ \A u \in Conns \ {t} : tx'[u] = tx[u]
         /\ \A y \in Rows \ {x} : owner'[y] = owner[y]
         /\ owner[x] \in {NULL, t} /\ owner'[x] = t
<1>1. /\ tx \in [Conns -> TxType] /\ owner \in [Rows -> Conns \cup {NULL}]
      /\ tx[t] \in TxType /\ x \in Rows
  BY DEF LocksInv, Types, TxType
<1>2. owner[x] \in {NULL, t} /\ owner' = [owner EXCEPT ![x] = t]
  BY DEF Lock, Taken
<1>3. /\ tx'[t].op = tx[t].op /\ tx'[t].on = tx[t].on /\ tx'[t].stage = tx[t].stage
      /\ tx'[t].todo = tx[t].todo \ {x} /\ tx'[t].wait = NULL
      /\ \A u \in Conns \ {t} : tx'[u] = tx[u]
  <2>1. CASE tx' = [tx EXCEPT ![t].todo = @ \ {x}, ![t].wait = NULL]
    BY <1>1, <2>1 DEF TxType
  <2>2. CASE \E s : tx' = [tx EXCEPT ![t].todo = @ \ {x}, ![t].wait = NULL, ![t].write[x] = s]
    BY <1>1, <2>2 DEF TxType
  <2>3. CASE tx' = [tx EXCEPT ![t].todo = @ \ {x}, ![t].wait = NULL, ![t].read[x] = used[x]]
    BY <1>1, <2>3 DEF TxType
  <2> QED BY <2>1, <2>2, <2>3 DEF Lock
<1> QED BY <1>1, <1>2, <1>3

LEMMA OrderLock ==
  ASSUME LocksInv, LocksInv', OrderInv, NEW t \in Conns, NEW x \in tx[t].todo, Lock(t, x)
  PROVE  OrderInv'
<1>0. PICK o : o = tx[t]
  OBVIOUS
<1>1. PICK y : y = tx'[t]
  OBVIOUS
<1>2. /\ y.op = o.op /\ y.on = o.on /\ y.stage = o.stage
      /\ y.todo = o.todo \ {x} /\ y.wait = NULL
      /\ \A u \in Conns \ {t} : tx'[u] = tx[u]
      /\ \A z \in Rows \ {x} : owner'[z] = owner[z]
      /\ owner[x] \in {NULL, t} /\ owner'[x] = t
  BY <1>0, <1>1, LockEffect
<1>3. /\ o \in TxType /\ Order(t) /\ x \in Rows /\ x \in o.todo
      /\ o.todo \subseteq RowsOf(o, o.stage) /\ o.stage \in 1..6
      /\ o.op \in Ops /\ o.stage <= Statements(o) /\ Subject(o)
  <2>1. Order(t) /\ tx[t] \in TxType /\ Shape(tx[t])
    BY DEF OrderInv, LocksInv, Types, ConnInv
  <2>2. tx[t].todo \subseteq RowsOf(tx[t], tx[t].stage)
    BY <2>1, TodoRows
  <2> QED BY <1>0, <2>1, <2>2, LockedRows DEF TxType, Shape
<1>4. ASSUME NEW n PROVE RowsOf(y, n) = RowsOf(o, n)
  BY <1>2 DEF RowsOf, KeyOf
\* A statement about one row has nothing more to lock.
<1>5. o.op # "recover" => y.todo = {}
  <2> SUFFICES ASSUME o.op # "recover" PROVE o.todo \subseteq {x}
    BY <1>2
  <2>1. \E z : RowsOf(o, o.stage) \subseteq {z}
    BY <1>3 DEF RowsOf, Ops
  <2> QED BY <1>3, <2>1
<1>6. ASSUME NEW z \in Rows, owner'[z] = t PROVE z \in Passed(y)
  <2>1. CASE z = x
    <3>1. z \in RowsOf(y, y.stage) /\ y.stage \in 1..y.stage
      BY <1>2, <1>3, <1>4, <2>1
    <3> QED BY <1>2, <1>5, <3>1 DEF Passed
  <2>2. CASE z # x
    <3>1. PICK n \in 1..o.stage : z \in RowsOf(o, n)
      BY <1>0, <1>2, <1>3, <1>6, <2>2 DEF Order, Passed
    <3>2. z \in RowsOf(y, n) /\ n \in 1..y.stage
      BY <1>2, <1>4, <3>1
    <3> QED BY <1>2, <1>5, <3>2 DEF Passed
  <2> QED BY <2>1, <2>2
<1>7. y.op = "error" /\ y.stage = 2 => y.todo \subseteq {ProjectOf(y.on)}
  BY <1>0, <1>2, <1>3 DEF Order
<1>8. ASSUME y.op = "result", y.stage = 3 \/ (y.stage = 2 /\ y.todo = {})
      PROVE  owner'[ProjectOf(y.on)] = t
  <2>1. ProjectOf(o.on) \in Projects /\ ProjectOf(o.on) \in Rows
    BY <1>2, <1>3, <1>8, RowKinds DEF Subject, Rows
  <2>2. CASE y.stage = 3
    <3>1. owner[ProjectOf(o.on)] = t
      BY <1>0, <1>2, <1>3, <1>8, <2>2 DEF Order
    <3> QED BY <1>2, <2>1, <3>1
  <2>3. CASE y.stage = 2
    <3>1. x = ProjectOf(o.on)
      BY <1>2, <1>3, <1>8, <2>3 DEF RowsOf
    <3> QED BY <1>2, <2>1, <3>1
  <2> QED BY <1>8, <2>2, <2>3
<1>9. Order(t)'
  BY <1>1, <1>2, <1>6, <1>7, <1>8 DEF Order
<1>10. ASSUME NEW u \in Conns \ {t} PROVE Order(u)'
  <2>1. \A z \in Rows : owner'[z] = u <=> owner[z] = u
    BY <1>2, RowKinds
  <2> QED BY <1>2, <1>10, <2>1, OrderKept DEF OrderInv
<1> QED BY <1>9, <1>10 DEF OrderInv

LEMMA OrderEnd ==
  ASSUME LocksInv, OrderInv, NEW t \in Conns, Commit(t) \/ Rollback(t)
  PROVE  OrderInv'
<1>1. owner' = Released(t) /\ tx' = [tx EXCEPT ![t] = Idle]
  BY DEF Commit, Rollback
<1>2. /\ \A z \in Rows : owner'[z] = IF owner[z] = t THEN NULL ELSE owner[z]
      /\ tx'[t] = Idle /\ \A u \in Conns \ {t} : tx'[u] = tx[u]
  BY <1>1, LocksReleased
<1>3. Order(t)'
  BY <1>2, RowKinds DEF Order, Idle
<1>4. ASSUME NEW u \in Conns \ {t} PROVE Order(u)'
  <2>1. \A z \in Rows : owner'[z] = u <=> owner[z] = u
    BY <1>2, <1>4, RowKinds
  <2> QED BY <1>2, <1>4, <2>1, OrderKept DEF OrderInv
<1> QED BY <1>3, <1>4 DEF OrderInv

LEMMA OrderWait ==
  ASSUME LocksInv, OrderInv, NEW t \in Conns, NEW x \in tx[t].todo, Wait(t, x)
  PROVE  OrderInv'
<1>1. tx \in [Conns -> TxType] /\ owner' = owner /\ tx[t].op # "claim"
      /\ tx' = [tx EXCEPT ![t].wait = x] /\ tx[t] \in TxType /\ Order(t)
  BY DEF LocksInv, Types, Wait, OrderInv
<1>2. PICK y : y = tx'[t]
  OBVIOUS
<1>3. /\ y.op = tx[t].op /\ y.on = tx[t].on /\ y.stage = tx[t].stage
      /\ y.todo = tx[t].todo /\ y.wait = x /\ \A u \in Conns \ {t} : tx'[u] = tx[u]
  BY <1>1, <1>2 DEF TxType
<1>4. Passed(y) = Passed(tx[t])
  BY <1>3 DEF Passed, RowsOf, KeyOf
<1>5. Order(t)'
  BY <1>1, <1>2, <1>3, <1>4 DEF Order
<1>6. ASSUME NEW u \in Conns \ {t} PROVE Order(u)'
  BY <1>1, <1>3, <1>6, OrderKept DEF OrderInv
<1> QED BY <1>5, <1>6 DEF OrderInv

LEMMA OrderStep == LocksInv /\ LocksInv' /\ OrderInv /\ [Next]_vars => OrderInv'
<1> SUFFICES ASSUME LocksInv, LocksInv', OrderInv, [Next]_vars PROVE OrderInv'
  OBVIOUS
<1>1. ASSUME NEW t \in Conns, NEW job \in Jobs, Begin(t, job) PROVE OrderInv'
  BY <1>1, OrderBegin
<1>2. ASSUME NEW t \in Conns, Statement(t) PROVE OrderInv'
  BY <1>2, OrderStatement
<1>3. ASSUME NEW t \in Conns, Commit(t) \/ Rollback(t) PROVE OrderInv'
  BY <1>3, OrderEnd
<1>4. ASSUME NEW t \in Conns, NEW x \in tx[t].todo, Wait(t, x) PROVE OrderInv'
  BY <1>4, OrderWait
<1>5. ASSUME NEW t \in Conns, NEW x \in tx[t].todo, Lock(t, x) PROVE OrderInv'
  BY <1>5, OrderLock
<1>6. ASSUME UNCHANGED vars, NEW u \in Conns PROVE Order(u)'
  BY <1>6, OrderKept DEF vars, OrderInv
<1> QED BY <1>1, <1>2, <1>3, <1>4, <1>5, <1>6 DEF Next, OrderInv

LEMMA OrderAlways == Spec => [](LocksInv /\ OrderInv)
<1>1. LocksInv /\ OrderInv /\ [Next]_vars => LocksInv' /\ OrderInv'
  BY LocksStep, OrderStep
<1> QED BY <1>1, LocksInit, OrderInit, PTL DEF Spec

\* In a finite set, a function onto the set is one-to-one ...
LEMMA OntoOneToOne ==
  ASSUME NEW S, IsFiniteSet(S), NEW f \in [S -> S], \A y \in S : \E x \in S : f[x] = y
  PROVE  \A x, y \in S : f[x] = f[y] => x = y
<1>1. f \in Surjection(S, S)
  BY DEF Surjection
<1>2. f \in Injection(S, S)
  BY <1>1, FS_Surjection
<1> QED BY <1>2 DEF Injection, IsInjective

\* ... and maps a part of the set that nothing from outside is mapped into,
\* to itself.
LEMMA OntoPart ==
  ASSUME NEW S, IsFiniteSet(S), NEW f \in [S -> S], \A y \in S : \E x \in S : f[x] = y,
         NEW A \in SUBSET S, \A x \in S : f[x] \in A => x \in A
  PROVE  \A x \in A : f[x] \in A
<1> DEFINE B == {f[x] : x \in A}
           g == [x \in A |-> f[x]]
<1>1. IsFiniteSet(A)
  BY FS_Subset
<1>2. g \in Surjection(A, B)
  BY DEF Surjection
<1>3. IsFiniteSet(B) /\ Cardinality(B) <= Cardinality(A)
  <2> HIDE DEF B, g
  <2> QED BY <1>1, <1>2, FS_Surjection
<1>4. A \in SUBSET B
  OBVIOUS
<1>5. Cardinality(A) <= Cardinality(B) /\ (Cardinality(A) = Cardinality(B) => A = B)
  <2> HIDE DEF B
  <2> QED BY <1>3, <1>4, FS_Subset
<1>6. Cardinality(A) \in Nat /\ Cardinality(B) \in Nat
  BY <1>1, <1>3, FS_CardinalityType
<1>7. A = B
  BY <1>3, <1>5, <1>6
<1> QED BY <1>7

\* What a waiting transaction waits for, and what the rows that it has locked
\* already can be.
LEMMA WaiterRows ==
  ASSUME LocksInv, OrderInv, NEW t \in Waiting
  PROVE  /\ t \in Open /\ tx[t] \in TxType /\ tx[t].stage \in 1..6 /\ tx[t].stage <= Statements(tx[t])
         /\ tx[t].op \in Ops \ {"none", "claim"} /\ Subject(tx[t]) /\ Order(t)
         /\ tx[t].wait \in Rows /\ tx[t].wait \in RowsOf(tx[t], tx[t].stage)
         /\ \A y \in Rows : owner[y] = t =>
              \E n \in 1..tx[t].stage :
                y \in RowsOf(tx[t], n) /\ (n < tx[t].stage \/ tx[t].op = "recover")
<1>1. t \in Conns /\ tx[t].wait # NULL /\ Order(t)
  BY DEF Waiting, OrderInv
<1>2. tx[t].wait \in tx[t].todo /\ tx[t].op # "claim"
  BY <1>1 DEF Order
<1>3. /\ tx[t] \in TxType /\ tx[t].wait \in Rows /\ t \in Open /\ tx[t].stage \in 1..6
      /\ Shape(tx[t]) /\ tx[t].wait \in RowsOf(tx[t], tx[t].stage)
  BY <1>1, <1>2, LockedRows, TodoRows DEF ConnInv
<1>4. tx[t].op \in Ops \ {"none", "claim"} /\ Subject(tx[t]) /\ tx[t].stage <= Statements(tx[t])
  BY <1>2, <1>3 DEF Shape, TxType
<1>5. \A y \in Rows : owner[y] = t =>
        \E n \in 1..tx[t].stage :
          y \in RowsOf(tx[t], n) /\ (n < tx[t].stage \/ tx[t].op = "recover")
  BY <1>1, <1>2 DEF Order, Passed
<1> QED BY <1>1, <1>3, <1>4, <1>5

LEMMA WaiterHolds ==
  ASSUME LocksInv, OrderInv, NEW t \in Waiting, NEW y \in Rows, owner[y] = t
  PROVE  LET x == tx[t] IN
         \/ x.op = "call" /\ y = KeyOf(x) /\ x.wait = ProjectOf(x.on)
         \/ x.op = "result" /\ y = x.on /\ x.wait = ProjectOf(x.on)
         \/ /\ x.op = "result" /\ y \in {x.on, ProjectOf(x.on)} /\ x.wait = KeyOf(x)
            /\ owner[ProjectOf(x.on)] = t
         \/ x.op = "error" /\ y = x.on /\ x.wait = ProjectOf(x.on)
         \/ x.op = "recover" /\ x.wait \in Requests /\ y \in Requests
         \/ x.op = "recover" /\ x.wait \in Projects /\ y \in Requests \cup Projects
         \/ x.op = "recover" /\ x.wait \in Workers /\ y \notin ApiKeys
<1>0. PICK x : x = tx[t]
  OBVIOUS
<1>1. /\ x.stage \in 1..6 /\ x.op \in Ops \ {"none", "claim"} /\ Subject(x) /\ Order(t)
      /\ x.wait \in RowsOf(x, x.stage) /\ x.stage <= Statements(x)
  BY <1>0, WaiterRows
<1>2. PICK n \in 1..x.stage : y \in RowsOf(x, n) /\ (n < x.stage \/ x.op = "recover")
  BY <1>0, WaiterRows
<1>3. CASE x.op = "call"
  <2>1. x.stage = 2 /\ n = 1
    BY <1>1, <1>2, <1>3 DEF Statements
  <2> QED BY <1>0, <1>1, <1>2, <1>3, <2>1 DEF RowsOf
<1>4. CASE x.op = "result"
  <2>1. (x.stage = 2 /\ n = 1) \/ (x.stage = 3 /\ n \in {1, 2})
    BY <1>1, <1>2, <1>4 DEF Statements
  <2>2. x.stage = 3 => owner[ProjectOf(x.on)] = t
    BY <1>0, <1>1, <1>4 DEF Order
  <2> QED BY <1>0, <1>1, <1>2, <1>4, <2>1, <2>2 DEF RowsOf
<1>5. CASE x.op = "error"
  <2>1. x.stage = 2 /\ n = 1
    BY <1>1, <1>2, <1>5 DEF Statements
  <2> QED BY <1>0, <1>1, <1>2, <1>5, <2>1 DEF RowsOf
<1>6. CASE x.op = "recover"
  <2>1. /\ RowsOf(x, x.stage) = IF x.stage <= 3 THEN Requests ELSE IF x.stage <= 5 THEN Projects ELSE Workers
        /\ RowsOf(x, n) = IF n <= 3 THEN Requests ELSE IF n <= 5 THEN Projects ELSE Workers
    BY <1>6 DEF RowsOf
  <2>2. y \notin ApiKeys
    BY <1>2, <2>1, RowKinds
  <2>3. CASE x.stage <= 3
    BY <1>0, <1>1, <1>2, <1>6, <2>1, <2>3
  <2>4. CASE x.stage \in {4, 5}
    BY <1>0, <1>1, <1>2, <1>6, <2>1, <2>4
  <2>5. CASE x.stage = 6
    BY <1>0, <1>1, <1>6, <2>1, <2>2, <2>5
  <2> QED BY <1>1, <2>3, <2>4, <2>5
<1>7. CASE x.op \in {"key", "worker"}
  BY <1>1, <1>2, <1>7 DEF Statements
<1> QED BY <1>1, <1>3, <1>4, <1>5, <1>6, <1>7 DEF Ops

\* A circle of waits: every member waits for one, and is waited for by one.
Circle(S) == S \in SUBSET Waiting /\ S = {Holder(u) : u \in S}

LEMMA CircleMap ==
  ASSUME NEW S, Circle(S)
  PROVE  /\ IsFiniteSet(S) /\ [u \in S |-> Holder(u)] \in [S -> S]
         /\ \A v \in S : \E u \in S : [w \in S |-> Holder(w)][u] = v
<1>1. S \in SUBSET Conns
  BY DEF Circle, Waiting
<1>2. IsFiniteSet(S)
  BY <1>1, LocksAssumption, FS_Subset
<1> QED BY <1>2 DEF Circle

\* A call and a result that block each other.
Pair(t) ==
  /\ {tx[t].op, tx[Holder(t)].op} = {"call", "result"}
  /\ KeyOf(tx[t]) = KeyOf(tx[Holder(t)])
  /\ Holder(Holder(t)) = t

LEMMA ResultsPair ==
  ASSUME LocksInv, OrderInv, NEW S, Circle(S), NEW t \in S,
         tx[t].op = "result", tx[t].wait = KeyOf(tx[t])
  PROVE  Pair(t) /\ tx[Holder(t)].op = "call"
<1>1. PICK u \in S : Holder(u) = t
  BY DEF Circle
<1>2. PICK v \in S : v = Holder(t)
  BY DEF Circle
<1>3. t \in Waiting /\ u \in Waiting /\ v \in Waiting
  BY DEF Circle
<1>4. /\ tx[t].wait \in Rows /\ tx[u].wait \in Rows /\ owner[tx[u].wait] = t /\ owner[tx[t].wait] = v
      /\ tx[t].on \in Requests
  BY <1>1, <1>2, <1>3, WaiterRows DEF Holder, Subject
<1>5. tx[t].wait \in ApiKeys /\ tx[t].wait # ProjectOf(tx[t].on)
  BY <1>4, RowKinds DEF KeyOf
<1>6. owner[ProjectOf(tx[t].on)] = t
  BY <1>3, <1>4, <1>5, WaiterHolds
<1>7. tx[v].op = "call" /\ tx[t].wait = KeyOf(tx[v]) /\ tx[v].wait = ProjectOf(tx[v].on)
  <2>1. Subject(tx[v])
    BY <1>3, WaiterRows
  <2> QED BY <1>3, <1>4, <1>5, <2>1, WaiterHolds, RowKinds DEF Subject
<1>8. Holder(v) = t
  BY <1>6, <1>7 DEF Holder, KeyOf, ProjectOf
<1> QED BY <1>2, <1>7, <1>8 DEF Pair

LEMMA CircleShape ==
  ASSUME LocksInv, OrderInv, NEW S, Circle(S), NEW t \in S
  PROVE  \/ Pair(t)
         \/ /\ tx[t].op = "recover" /\ tx[Holder(t)].op = "recover"
            /\ \E table \in {Requests, Projects, Workers} :
                 tx[t].wait \in table /\ tx[Holder(t)].wait \in table
<1> DEFINE next == [u \in S |-> Holder(u)]
           A == {u \in S : tx[u].wait \in Requests}
           B == {u \in S : tx[u].wait \in Workers}
<1>1. /\ IsFiniteSet(S) /\ next \in [S -> S] /\ \A v \in S : \E u \in S : next[u] = v
      /\ \A u \in S : next[u] = Holder(u)
  BY CircleMap
<1> HIDE DEF next
<1>2. ASSUME NEW u \in S
      PROVE  /\ u \in Waiting /\ Holder(u) \in S /\ tx[u].wait \in Rows
             /\ owner[tx[u].wait] = Holder(u) /\ Subject(tx[u])
  BY WaiterRows DEF Circle, Holder
<1>3. ASSUME NEW u \in S
      PROVE  LET x == tx[Holder(u)]
                 y == tx[u].wait IN
             \/ x.op = "call" /\ y \in ApiKeys /\ y = KeyOf(x) /\ x.wait \in Projects
             \/ x.op = "result" /\ y \in Requests /\ x.wait \in Projects
             \/ x.op = "result" /\ y \in Requests \cup Projects /\ x.wait = KeyOf(x) /\ x.wait \in ApiKeys
             \/ x.op = "error" /\ y \in Requests /\ x.wait \in Projects
             \/ x.op = "recover" /\ x.wait \in Requests /\ y \in Requests
             \/ x.op = "recover" /\ x.wait \in Projects /\ y \in Requests \cup Projects
             \/ x.op = "recover" /\ x.wait \in Workers /\ y \notin ApiKeys
  <2>1. Holder(u) \in Waiting /\ Subject(tx[Holder(u)])
    BY <1>2
  <2>2. PICK x : x = tx[Holder(u)]
    OBVIOUS
  <2>3. PICK y \in Rows : y = tx[u].wait
    BY <1>2
  <2>4. owner[y] = Holder(u) /\ Subject(x)
    BY <1>2, <2>1, <2>2, <2>3
  <2>5. x.op \in {"call", "result", "error"} =>
          x.on \in Requests /\ ProjectOf(x.on) \in Projects /\ KeyOf(x) \in ApiKeys
    BY <2>4, RowKinds DEF Subject, KeyOf
  <2> QED BY <2>1, <2>2, <2>3, <2>4, <2>5, WaiterHolds
\* Who holds a request's row and waits for a request's row, is waited for by
\* those only who wait for a request's row; who holds a worker's row waits
\* for a worker's row.
<1>4. \A u \in A : Holder(u) \in A
  <2>1. \A u \in S : next[u] \in A => u \in A
    BY <1>1, <1>3, RowKinds
  <2>2. A \in SUBSET S
    OBVIOUS
  <2> HIDE DEF A
  <2>3. \A u \in A : next[u] \in A
    BY <1>1, <2>1, <2>2, OntoPart
  <2> QED BY <1>1, <2>2, <2>3
<1>5. \A u \in S \ B : Holder(u) \notin B
  <2> DEFINE C == S \ B
  <2>1. \A u \in S : next[u] \in C => u \in C
    BY <1>1, <1>2, <1>3, RowKinds
  <2>2. C \in SUBSET S
    OBVIOUS
  <2> HIDE DEF C
  <2>3. \A u \in C : next[u] \in C
    BY <1>1, <2>1, <2>2, OntoPart
  <2> QED BY <1>1, <2>2, <2>3 DEF C
<1>6. PICK u \in S : Holder(u) = t
  BY <1>1
<1>7. CASE tx[t].op = "call"
  <2>1. tx[u].wait \in ApiKeys
    BY <1>3, <1>6, <1>7
  <2>2. PICK v \in S : Holder(v) = u
    BY <1>1
  <2>3. tx[u].op = "result" /\ tx[u].wait = KeyOf(tx[u])
    BY <1>3, <2>1, <2>2, RowKinds
  <2>4. Pair(u)
    BY <2>3, ResultsPair
  <2> QED BY <1>6, <2>4 DEF Pair
<1>8. CASE tx[t].op = "result"
  <2>1. CASE tx[t].wait = KeyOf(tx[t])
    BY <1>8, <2>1, ResultsPair
  <2>2. CASE tx[t].wait # KeyOf(tx[t])
    <3>1. tx[u].wait \in Requests /\ tx[t].wait \in Projects
      BY <1>3, <1>6, <1>8, <2>2
    <3> QED BY <1>4, <1>6, <3>1, RowKinds
  <2> QED BY <2>1, <2>2
<1>9. CASE tx[t].op = "error"
  <2>1. tx[u].wait \in Requests /\ tx[t].wait \in Projects
    BY <1>3, <1>6, <1>9
  <2> QED BY <1>4, <1>6, <2>1, RowKinds
<1>10. CASE tx[t].op = "recover"
  <2>1. CASE tx[t].wait \in Requests
    <3>1. tx[Holder(t)].wait \in Requests
      BY <1>4, <2>1
    <3>2. tx[Holder(t)].op = "recover"
      BY <1>3, <3>1, RowKinds
    <3> QED BY <1>10, <2>1, <3>1, <3>2
  <2>2. CASE tx[t].wait \in Workers
    <3>1. tx[Holder(t)].op = "recover" /\ tx[Holder(t)].wait \in Workers
      BY <1>3, <2>2, RowKinds
    <3> QED BY <1>10, <2>2, <3>1
  <2>3. CASE tx[t].wait \in Projects
    <3>1. tx[Holder(t)].wait \notin Workers
      BY <1>2, <1>5, <2>3, RowKinds
    <3>2. tx[Holder(t)].op # "result"
      <4> SUFFICES ASSUME tx[Holder(t)].op = "result" PROVE FALSE
        OBVIOUS
      <4>1. PICK v \in S : v = Holder(t)
        BY <1>2
      <4>2. tx[v].wait = KeyOf(tx[v])
        BY <1>3, <2>3, <4>1, RowKinds
      <4>3. Pair(v) /\ tx[Holder(v)].op = "call"
        BY <4>1, <4>2, ResultsPair
      <4>4. Holder(Holder(v)) = Holder(t) /\ Holder(v) \in S
        BY <1>2, <4>1, <4>3 DEF Pair
      <4>5. Holder(v) = t
        BY <1>1, <4>4, OntoOneToOne
      <4> QED BY <1>10, <4>3, <4>5
    <3>3. tx[Holder(t)].op = "recover" /\ tx[Holder(t)].wait \in Projects
      BY <1>3, <2>3, <3>1, <3>2, RowKinds
    <3> QED BY <1>10, <2>3, <3>3
  <2> QED BY <1>3, <1>6, <1>10, <2>1, <2>2, <2>3
<1> QED BY <1>3, <1>6, <1>7, <1>8, <1>9, <1>10

\* However many transactions wait in a circle, the only ones that can are a
\* call and a result of the same key, each waiting for the other, and
\* recovery cycles among themselves, within one table: errors, claims, key
\* and worker routes are never what a deadlock is broken at the expense of
\* (dependencies.py:38-45, budget.py:42-44, queue.py:83-105, 166-206).
THEOREM DeadlockShapeSafe == Spec => []DeadlockShape
<1>1. LocksInv /\ OrderInv => DeadlockShape
  <2> SUFFICES ASSUME LocksInv, OrderInv, NEW t \in Waiting, InCycle(t)
               PROVE  \/ Pair(t)
                      \/ /\ tx[t].op = "recover" /\ tx[Holder(t)].op = "recover"
                         /\ \E table \in {Requests, Projects, Workers} :
                              tx[t].wait \in table /\ tx[Holder(t)].wait \in table
    BY DEF DeadlockShape, Pair
  <2>1. PICK S \in SUBSET Waiting : t \in S /\ S = {Holder(u) : u \in S}
    BY DEF InCycle
  <2> QED BY <2>1, CircleShape DEF Circle
<1> QED BY <1>1, OrderAlways, PTL
=============================================================================
