-------------------------- MODULE ChatGatewayProofs --------------------------
(***************************************************************************)
(* ChatGateway for any number of calls, keys, days and results.            *)
(***************************************************************************)
EXTENDS ChatGateway, FiniteSetTheorems, TLAPS

\* Calls that may still commit.
Serving == {"admitted", "replying", "accepting"}

\* A call that may still commit has a key that is there and not revoked: a
\* revocation waits for the key's lock.
Admitted ==
  \A c \in Calls : pc[c] \in Serving => CallKey[c] \in api_keys /\ ~revoked[CallKey[c]]

\* The calls of one key hold its lock one at a time.
Alone ==
  \A c, d \in Calls :
    CallKey[c] = CallKey[d] /\ pc[c] \in InTransaction /\ pc[d] \in InTransaction => c = d

LockInv == TypeOK /\ Admitted /\ Alone

Submitted(r) == phase[r] # "unsubmitted"

\* What a call has not found is not there as long as it holds the lock.
Fresh == \A c \in Calls : pc[c] = "accepting" => Existing(c) = {}

\* uq_requests_key_idempotency.
Unique ==
  \A r, s \in Calls :
    /\ Submitted(r) /\ Submitted(s)
    /\ CallKey[r] = CallKey[s] /\ CallIdem[r] # NULL /\ CallIdem[r] = CallIdem[s]
    => r = s

\* A result that was returned is the committed one.
Answered ==
  \A c \in Calls : reply[c] # NULL =>
    \E r \in Calls : SameRequest(c, r) /\ phase[r] = "answered" /\ answer[r] = reply[c]

ReplayInv == Fresh /\ NoConflict /\ Unique /\ Answered

\* The calls that key k's counter of the date d has to count.
CountedOn(k, d) ==
  {c \in Calls : CallKey[c] = k /\ pc[c] \in Committed /\ staged[c].date = d}

\* No row is dated later than today, and no call counts for a later date than
\* its key's row.
Dated ==
  /\ \A k \in ApiKeys : daily_requests_date[k] <= today
  /\ \A c \in Calls : pc[c] \in Committed =>
       CallKey[c] \in api_keys /\ staged[c].date <= daily_requests_date[CallKey[c]]

\* The counter a call will write is one more than the one it read, which its
\* lock has kept.
Staged ==
  \A c \in Calls : pc[c] \in Serving =>
    /\ staged[c].date \in daily_requests_date[CallKey[c]]..today
    /\ staged[c].used = 1 + IF daily_requests_date[CallKey[c]] = staged[c].date
                            THEN daily_requests_used[CallKey[c]] ELSE 0

CountInv == Dated /\ Staged /\ DailyExact

LEMMA Constants ==
  /\ CallKey \in [Calls -> ApiKeys] /\ CallAlias \in [Calls -> Aliases]
  /\ KeyProject \in [ApiKeys -> Projects]
  /\ DailyReqLimit \in Nat /\ MaxDeliveries \in Nat /\ MaxDay \in Nat
  /\ NULL \notin Results /\ IsFiniteSet(Calls)
BY CallsAssumption

LEMMA ChatInit == Init => LockInv /\ ReplayInv /\ CountInv
<1> SUFFICES ASSUME Init PROVE LockInv /\ ReplayInv /\ CountInv
  OBVIOUS
<1> USE Constants DEF Init
<1>1. TypeOK
  BY DEF TypeOK, InTransaction, Committed, Ended, Queue!Init, Queue!TypeOK, Queue!Phases
<1>2. Admitted /\ Alone
  BY DEF Admitted, Alone, Serving, InTransaction
<1>3. ReplayInv
  BY DEF ReplayInv, Fresh, NoConflict, Unique, Answered, Submitted, Queue!Init
<1>4. Dated /\ Staged
  BY DEF Dated, Staged, Serving, Committed
<1>5. ASSUME NEW k \in ApiKeys
      PROVE  daily_requests_used[k] = Cardinality(CountedOn(k, daily_requests_date[k]))
  <2>1. CountedOn(k, daily_requests_date[k]) = {}
    BY DEF CountedOn, Committed
  <2> QED BY <2>1, FS_EmptySet
<1>6. DailyExact
  BY <1>5 DEF DailyExact, CountedOn
<1> QED BY <1>1, <1>2, <1>3, <1>4, <1>6 DEF LockInv, CountInv

\* What a step does to the calls: one call moves, or none does, and only
\* Insert and the queue touch the queue's rows.
LEMMA QueueTypes ==
  ASSUME TypeOK, QueueStep \/ (\E c \in Calls : Queue!Submit(c)) \/ UNCHANGED queueVars
  PROVE  Queue!TypeOK'
<1> USE Constants DEF TypeOK, Queue!TypeOK, Queue!Phases
<1>1. ASSUME NEW r \in Calls, Queue!Submit(r) PROVE Queue!TypeOK'
  BY <1>1 DEF Queue!Submit
<1>2. ASSUME NEW r \in Calls, Queue!Deliver(r) PROVE Queue!TypeOK'
  BY <1>2 DEF Queue!Deliver
<1>3. ASSUME NEW r \in Calls, NEW v \in Results, Queue!Answer(r, v, 0) PROVE Queue!TypeOK'
  BY <1>3 DEF Queue!Answer
<1>4. ASSUME NEW r \in Calls, Queue!GiveUp({r}) PROVE Queue!TypeOK'
  BY <1>4 DEF Queue!GiveUp
<1>5. ASSUME UNCHANGED queueVars PROVE Queue!TypeOK'
  BY <1>5 DEF queueVars
<1> QED BY <1>1, <1>2, <1>3, <1>4, <1>5 DEF QueueStep

\* A call that moves without committing anything: rejected, raised, rolled
\* back, timed out, crashed, or on its way in.
Moves(c) ==
  \/ Send(c) \/ Reject(c) \/ ReadOnly(c) \/ LookUp(c) \/ Raise(c)
  \/ Rollback(c) \/ Timeout(c) \/ Crash(c)

LEMMA MoveShape ==
  ASSUME LockInv, NEW c \in Calls, Moves(c)
  PROVE  \E l \in {"arrived", "failing", "replying", "accepting", "refused", "timeout", "abandoned",
                 "crashed"} :
           /\ pc' = [pc EXCEPT ![c] = l]
           /\ UNCHANGED <<today, modelVars, reply, keyVars, queueVars>>
           /\ staged' = staged \/ (l \in {"refused", "crashed"} /\ Discard(c))
           /\ l \in Committed <=> pc[c] \in Committed
           /\ l = "accepting" => pc[c] = "admitted" /\ Existing(c) = {}
           /\ l = "replying" => pc[c] = "admitted"
           /\ l \in InTransaction => pc[c] \in InTransaction \/ Unlocked(CallKey[c])
<1> USE DEF Goto, Committed, InTransaction
<1>1. CASE Send(c)
  BY <1>1 DEF Send
<1>2. CASE Reject(c)
  BY <1>2 DEF Reject
<1>3. CASE LookUp(c)
  BY <1>3 DEF LookUp
<1>4. CASE Raise(c)
  BY <1>4 DEF Raise
<1>5. CASE Rollback(c)
  BY <1>5 DEF Rollback
<1>6. CASE Timeout(c)
  BY <1>6 DEF Timeout
<1>7. CASE Crash(c)
  BY <1>7 DEF Crash
<1>8. CASE ReadOnly(c)
  BY <1>8 DEF ReadOnly
<1> QED BY <1>1, <1>2, <1>3, <1>4, <1>5, <1>6, <1>7, <1>8 DEF Moves

\* A call may take its key's lock only when no other holds it.
LEMMA AloneKept ==
  ASSUME TypeOK, Alone, NEW c \in Calls, NEW l, pc' = [pc EXCEPT ![c] = l],
         l \in InTransaction => pc[c] \in InTransaction \/ Unlocked(CallKey[c])
  PROVE  Alone'
<1> SUFFICES ASSUME NEW a \in Calls, NEW b \in Calls, CallKey[a] = CallKey[b],
                    pc'[a] \in InTransaction, pc'[b] \in InTransaction
             PROVE  a = b
  BY DEF Alone
<1>1. \A d \in Calls \ {c} : pc'[d] = pc[d]
  BY DEF TypeOK
<1>2. pc'[c] = l
  BY DEF TypeOK
<1>3. CASE a # c /\ b # c
  BY <1>1, <1>3 DEF Alone
<1>4. ASSUME NEW d \in Calls \ {c}, CallKey[d] = CallKey[c], pc[d] \in InTransaction,
             l \in InTransaction
      PROVE  FALSE
  <2>1. ~Unlocked(CallKey[c])
    BY <1>4 DEF Unlocked
  <2> QED BY <1>4, <2>1 DEF Alone
<1> QED BY <1>1, <1>2, <1>3, <1>4

LEMMA LockStep == ASSUME LockInv, [Next]_vars PROVE LockInv'
<1> USE Constants DEF LockInv
<1>0. ASSUME UNCHANGED <<callVars, keyVars, modelVars>>, today' \in 0..MaxDay, Queue!TypeOK'
      PROVE  LockInv'
  BY <1>0 DEF callVars, keyVars, modelVars, TypeOK, Admitted, Alone
<1>1. ASSUME NEW c \in Calls, Moves(c) PROVE LockInv'
  <2>1. PICK l \in {"arrived", "failing", "replying", "accepting", "refused", "timeout", "abandoned",
                 "crashed"} :
          /\ pc' = [pc EXCEPT ![c] = l]
          /\ UNCHANGED <<today, modelVars, reply, keyVars, queueVars>>
          /\ staged' = staged \/ (l \in {"refused", "crashed"} /\ Discard(c))
          /\ l = "accepting" => pc[c] = "admitted" /\ Existing(c) = {}
          /\ l = "replying" => pc[c] = "admitted"
          /\ l \in InTransaction => pc[c] \in InTransaction \/ Unlocked(CallKey[c])
    BY <1>1, MoveShape
  <2>2. Queue!TypeOK'
    BY <2>1, QueueTypes
  <2>3. TypeOK'
    <3>1. staged' \in [Calls -> [date : 0..MaxDay, used : 0..DailyReqLimit]]
      BY <2>1 DEF Discard, TypeOK
    <3> QED BY <2>1, <2>2, <3>1 DEF TypeOK, keyVars, modelVars, InTransaction, Committed, Ended
  <2>4. Alone'
    BY <2>1, AloneKept
  <2>5. Admitted'
    BY <2>1 DEF Admitted, TypeOK, keyVars, Serving
  <2> QED BY <2>3, <2>4, <2>5
<1>2. ASSUME NEW p \in Projects, CreateProject(p) PROVE LockInv'
  <2>1. Queue!TypeOK'
    BY <1>2, QueueTypes DEF CreateProject
  <2> QED BY <1>2, <2>1 DEF CreateProject, callVars, keyVars, TypeOK, Admitted, Alone
<1>3. ASSUME NEW a \in Aliases, CreateAlias(a) PROVE LockInv'
  <2>1. Queue!TypeOK'
    BY <1>3, QueueTypes DEF CreateAlias
  <2> QED BY <1>3, <2>1 DEF CreateAlias, callVars, keyVars, TypeOK, Admitted, Alone
<1>4. ASSUME NEW k \in ApiKeys, CreateKey(k) PROVE LockInv'
  <2>1. Queue!TypeOK'
    BY <1>4, QueueTypes DEF CreateKey
  <2>2. TypeOK'
    BY <1>4, <2>1 DEF CreateKey, callVars, modelVars, TypeOK
  <2> QED BY <1>4, <2>2 DEF CreateKey, callVars, Admitted, Alone
<1>5. ASSUME NEW c \in Calls, Authenticate(c) PROVE LockInv'
  <2>1. PICK k \in ApiKeys : k = CallKey[c]
    OBVIOUS
  <2>2. PICK n \in 0..DailyReqLimit : n = UsedToday(k) + 1
    BY <1>5, <2>1 DEF Authenticate, UnderLimit, UsedToday, TypeOK
  <2>3. PICK s \in [date : 0..MaxDay, used : 0..DailyReqLimit] : s = [date |-> today, used |-> n]
    BY DEF TypeOK
  <2>4. /\ staged' = [staged EXCEPT ![c] = s] /\ pc' = [pc EXCEPT ![c] = "admitted"]
        /\ UNCHANGED <<today, modelVars, reply, keyVars, queueVars>>
        /\ Unlocked(k) /\ k \in api_keys /\ ~revoked[k]
    BY <1>5, <2>1, <2>2, <2>3 DEF Authenticate, Goto
  <2>5. Queue!TypeOK'
    BY <2>4, QueueTypes
  <2>6. TypeOK'
    BY <2>4, <2>5 DEF TypeOK, keyVars, modelVars, InTransaction
  <2>7. Alone'
    BY <2>1, <2>4, AloneKept
  <2>8. Admitted'
    BY <2>1, <2>4 DEF Admitted, TypeOK, keyVars
  <2> QED BY <2>6, <2>7, <2>8
<1>6. ASSUME NEW c \in Calls, Replay(c) PROVE LockInv'
  <2>1. PICK r \in Existing(c) :
          reply' = [reply EXCEPT ![c] = IF phase[r] = "answered" THEN answer[r] ELSE NULL]
    BY <1>6 DEF Replay
  <2>2. PICK x \in Results \cup {NULL} : x = IF phase[r] = "answered" THEN answer[r] ELSE NULL
    BY <2>1 DEF Existing, TypeOK, Queue!TypeOK
  <2>3. /\ reply' = [reply EXCEPT ![c] = x] /\ pc[c] = "admitted" /\ pc' = [pc EXCEPT ![c] = "replying"]
        /\ UNCHANGED <<today, modelVars, staged, keyVars, queueVars>>
    BY <1>6, <2>1, <2>2 DEF Replay, Goto
  <2>4. Queue!TypeOK'
    BY <2>3, QueueTypes
  <2>5. TypeOK'
    BY <2>3, <2>4 DEF TypeOK, keyVars, modelVars, InTransaction
  <2>6. Alone'
    BY <2>3, AloneKept DEF InTransaction
  <2>7. Admitted'
    BY <2>3 DEF Admitted, TypeOK, keyVars, Serving
  <2> QED BY <2>5, <2>6, <2>7
<1>7. ASSUME NEW c \in Calls, CommitReplay(c) PROVE LockInv'
  <2>1. PICK l \in {"answered", "stated"} :
          /\ pc[c] = "replying" /\ pc' = [pc EXCEPT ![c] = l] /\ CommitKey(c)
          /\ UNCHANGED <<today, modelVars, staged, reply, queueVars>>
    BY <1>7 DEF CommitReplay, Goto
  <2>2. Queue!TypeOK'
    BY <2>1, QueueTypes
  <2>3. TypeOK'
    BY <2>1, <2>2 DEF TypeOK, CommitKey, modelVars, Committed
  <2>4. Alone'
    BY <2>1, AloneKept DEF InTransaction
  <2>5. Admitted'
    BY <2>1 DEF Admitted, TypeOK, CommitKey, Serving
  <2> QED BY <2>3, <2>4, <2>5
<1>8. ASSUME NEW c \in Calls, Insert(c) PROVE LockInv'
  <2>1. PICK l \in {"conflict", "waiting"} :
          /\ pc[c] = "accepting" /\ pc' = [pc EXCEPT ![c] = l]
          /\ \/ UNCHANGED <<keyVars, queueVars>>
             \/ CommitKey(c) /\ Queue!Submit(c)
          /\ UNCHANGED <<today, modelVars, staged, reply>>
    BY <1>8 DEF Insert, Goto
  <2>2. Queue!TypeOK'
    BY <2>1, QueueTypes
  <2>3. TypeOK'
    BY <2>1, <2>2 DEF TypeOK, CommitKey, keyVars, modelVars, Committed, InTransaction
  <2>4. Alone'
    BY <2>1, AloneKept DEF InTransaction
  <2>5. Admitted'
    BY <2>1 DEF Admitted, TypeOK, CommitKey, keyVars, Serving
  <2> QED BY <2>3, <2>4, <2>5
<1>9. ASSUME NEW c \in Calls, Poll(c) PROVE LockInv'
  <2>1. PICK l \in {"answered", "unavailable"} :
          /\ pc[c] = "waiting" /\ pc' = [pc EXCEPT ![c] = l]
          /\ reply' = reply \/ reply' = [reply EXCEPT ![c] = answer[c]]
          /\ UNCHANGED <<today, modelVars, staged, keyVars, queueVars>>
    BY <1>9 DEF Poll, Goto
  <2>2. Queue!TypeOK'
    BY <2>1, QueueTypes
  <2>3. TypeOK'
    BY <2>1, <2>2 DEF TypeOK, Queue!TypeOK, keyVars, modelVars, Committed
  <2>4. Alone'
    BY <2>1, AloneKept DEF InTransaction
  <2>5. Admitted'
    BY <2>1 DEF Admitted, TypeOK, keyVars, Serving
  <2> QED BY <2>3, <2>4, <2>5
<1>10. ASSUME NEW k \in ApiKeys, RevokeKey(k) PROVE LockInv'
  <2>1. Queue!TypeOK'
    BY <1>10, QueueTypes DEF RevokeKey
  <2>2. TypeOK'
    BY <1>10, <2>1 DEF RevokeKey, callVars, modelVars, TypeOK
  <2>3. Admitted' /\ Alone'
    BY <1>10 DEF RevokeKey, callVars, TypeOK, Admitted, Alone, Unlocked, InTransaction, Serving
  <2> QED BY <2>2, <2>3
<1>11. ASSUME QueueStep PROVE LockInv'
  <2>1. Queue!TypeOK'
    BY <1>11, QueueTypes
  <2> QED BY <1>0, <1>11, <2>1 DEF QueueStep, TypeOK
<1>12. ASSUME Midnight \/ UNCHANGED vars PROVE LockInv'
  <2>1. Queue!TypeOK'
    BY <1>12, QueueTypes DEF Midnight, vars
  <2> QED BY <1>0, <1>12, <2>1 DEF Midnight, vars, TypeOK
<1> QED BY <1>1, <1>2, <1>3, <1>4, <1>5, <1>6, <1>7, <1>8, <1>9, <1>10, <1>11, <1>12
  DEF Next, Serve, Moves

\* The lookup finds nothing that has not been committed.
LEMMA SameExisting ==
  ASSUME \A r \in Calls : Submitted(r)' <=> Submitted(r), NEW c \in Calls
  PROVE  Existing(c)' = Existing(c)
BY DEF Existing, Submitted

LEMMA ReplayKept ==
  ASSUME ReplayInv, UNCHANGED <<phase, answer, reply>>,
         \A c \in Calls : pc'[c] = "accepting" => Existing(c) = {},
         \A c \in Calls : pc'[c] # "conflict"
  PROVE  ReplayInv'
<1>1. \A c \in Calls : Existing(c)' = Existing(c)
  BY DEF Existing
<1>2. Fresh' /\ NoConflict'
  BY <1>1 DEF Fresh, NoConflict
<1>3. Unique' /\ Answered'
  BY DEF ReplayInv, Unique, Answered, Submitted
<1> QED BY <1>2, <1>3 DEF ReplayInv

LEMMA ReplayStep == ASSUME LockInv, ReplayInv, [Next]_vars PROVE ReplayInv'
<1> USE Constants
<1>0. TypeOK /\ Fresh /\ NoConflict /\ Unique /\ Answered /\ Queue!TypeOK
  BY DEF LockInv, ReplayInv, TypeOK
<1>1. ASSUME NEW c \in Calls, Moves(c) PROVE ReplayInv'
  <2>1. PICK l \in {"arrived", "failing", "replying", "accepting", "refused", "timeout", "abandoned",
                 "crashed"} :
          /\ pc' = [pc EXCEPT ![c] = l]
          /\ UNCHANGED <<today, modelVars, reply, keyVars, queueVars>>
          /\ staged' = staged \/ (l \in {"refused", "crashed"} /\ Discard(c))
          /\ l = "accepting" => pc[c] = "admitted" /\ Existing(c) = {}
          /\ l = "replying" => pc[c] = "admitted"
    BY <1>1, MoveShape
  <2> QED BY <1>0, <2>1, ReplayKept DEF queueVars, TypeOK, Fresh, NoConflict
<1>2. ASSUME UNCHANGED <<callVars, queueVars>> PROVE ReplayInv'
  BY <1>0, <1>2, ReplayKept DEF callVars, queueVars, Fresh, NoConflict
<1>3. ASSUME NEW c \in Calls, Authenticate(c) \/ CommitReplay(c) PROVE ReplayInv'
  <2>1. UNCHANGED <<phase, answer, reply>>
        /\ \E l \in {"admitted", "answered", "stated"} : pc' = [pc EXCEPT ![c] = l]
    BY <1>3 DEF Authenticate, CommitReplay, Goto, queueVars
  <2> QED BY <1>0, <2>1, ReplayKept DEF TypeOK, Fresh, NoConflict
<1>4. ASSUME NEW c \in Calls, NEW r \in Calls, NEW x, NEW l \in {"replying", "answered"},
             SameRequest(c, r), x # NULL => phase[r] = "answered" /\ x = answer[r],
             pc' = [pc EXCEPT ![c] = l], reply' = [reply EXCEPT ![c] = x], UNCHANGED <<phase, answer>>
      PROVE  ReplayInv'
  <2>1. \A d \in Calls : Existing(d)' = Existing(d)
    BY <1>4 DEF Existing
  <2>2. Fresh' /\ NoConflict'
    BY <1>0, <1>4, <2>1 DEF Fresh, NoConflict, TypeOK
  <2>3. Unique'
    BY <1>0, <1>4 DEF Unique, Submitted
  <2>4. ASSUME NEW d \in Calls, reply'[d] # NULL
        PROVE  \E s \in Calls : SameRequest(d, s) /\ phase[s] = "answered" /\ answer[s] = reply'[d]
    <3>1. CASE d = c
      BY <1>0, <1>4, <2>4, <3>1 DEF TypeOK
    <3>2. CASE d # c
      BY <1>0, <1>4, <2>4, <3>2 DEF TypeOK, Answered
    <3> QED BY <3>1, <3>2
  <2>5. Answered'
    BY <1>4, <2>4 DEF Answered, SameRequest
  <2> QED BY <2>2, <2>3, <2>5 DEF ReplayInv
<1>5. ASSUME NEW c \in Calls, Replay(c) PROVE ReplayInv'
  <2>1. PICK r \in Existing(c) :
          reply' = [reply EXCEPT ![c] = IF phase[r] = "answered" THEN answer[r] ELSE NULL]
    BY <1>5 DEF Replay
  <2>2. PICK x : x = IF phase[r] = "answered" THEN answer[r] ELSE NULL
    OBVIOUS
  <2>3. r \in Calls /\ SameRequest(c, r)
    BY <2>1 DEF Existing, SameRequest
  <2>4. pc' = [pc EXCEPT ![c] = "replying"] /\ UNCHANGED <<phase, answer>>
    BY <1>5 DEF Replay, Goto, queueVars
  <2> QED BY <1>4, <2>1, <2>2, <2>3, <2>4
<1>6. ASSUME NEW c \in Calls, Poll(c) PROVE ReplayInv'
  <2>1. UNCHANGED <<phase, answer>> /\ SameRequest(c, c)
    BY <1>6 DEF Poll, queueVars, SameRequest
  <2>2. CASE phase[c] = "answered"
    <3>1. pc' = [pc EXCEPT ![c] = "answered"] /\ reply' = [reply EXCEPT ![c] = answer[c]]
      BY <1>6, <2>2 DEF Poll, Goto
    <3> QED BY <1>4, <2>1, <2>2, <3>1
  <2>3. CASE phase[c] # "answered"
    <3>1. pc' = [pc EXCEPT ![c] = "unavailable"] /\ reply' = reply
      BY <1>6, <2>3 DEF Poll, Goto
    <3> QED BY <1>0, <2>1, <3>1, ReplayKept DEF TypeOK, Fresh, NoConflict
  <2> QED BY <2>2, <2>3
<1>7. ASSUME NEW c \in Calls, Insert(c) PROVE ReplayInv'
  <2>1. pc[c] = "accepting" /\ Existing(c) = {}
    BY <1>0, <1>7 DEF Insert, Fresh
  <2>2. ~Duplicate(c)
    BY <2>1 DEF Duplicate, Existing
  <2>3. /\ pc' = [pc EXCEPT ![c] = "waiting"] /\ Queue!Submit(c) /\ reply' = reply
    BY <1>7, <2>2 DEF Insert, Goto
  <2>4. /\ phase[c] = "unsubmitted" /\ phase' = [phase EXCEPT ![c] = "pending"] /\ answer' = answer
    BY <2>3 DEF Queue!Submit
  <2>5. \A r \in Calls : Submitted(r)' <=> Submitted(r) \/ r = c
    BY <1>0, <2>4 DEF Submitted, Queue!TypeOK
  <2>6. ASSUME NEW d \in Calls, pc'[d] = "accepting" PROVE Existing(d)' = {}
    <3>1. pc[d] = "accepting" /\ d # c
      BY <1>0, <2>3, <2>6 DEF TypeOK
    <3>2. CallKey[d] # CallKey[c]
      BY <2>1, <3>1 DEF LockInv, Alone, InTransaction
    <3>3. Existing(d) = {}
      BY <1>0, <3>1 DEF Fresh
    <3> QED BY <2>5, <3>2, <3>3 DEF Existing, Submitted
  <2>7. Fresh'
    BY <2>6 DEF Fresh
  <2>8. NoConflict'
    BY <1>0, <2>3 DEF NoConflict, TypeOK
  <2>9. Unique'
    <3>1. ASSUME NEW r \in Calls, Submitted(r), CallKey[r] = CallKey[c],
                 CallIdem[c] # NULL, CallIdem[r] = CallIdem[c]
          PROVE  FALSE
      BY <2>1, <3>1 DEF Existing, Submitted
    <3> QED BY <1>0, <2>5, <3>1 DEF Unique
  <2>10. \A r \in Calls : phase[r] = "answered" => phase'[r] = "answered"
    BY <1>0, <2>4 DEF Queue!TypeOK
  <2>11. Answered'
    BY <1>0, <2>3, <2>4, <2>10 DEF Answered, SameRequest
  <2> QED BY <2>7, <2>8, <2>9, <2>11 DEF ReplayInv
<1>8. ASSUME QueueStep PROVE ReplayInv'
  <2>1. UNCHANGED <<pc, reply>>
    BY <1>8 DEF QueueStep, callVars
  <2>2. ASSUME NEW r \in Calls
        PROVE  /\ Submitted(r)' <=> Submitted(r)
               /\ phase[r] = "answered" => phase'[r] = "answered" /\ answer'[r] = answer[r]
    <3>1. ASSUME NEW q \in Calls, Queue!Deliver(q)
          PROVE  /\ Submitted(r)' <=> Submitted(r)
                 /\ phase[r] = "answered" => phase'[r] = "answered" /\ answer'[r] = answer[r]
      BY <3>1 DEF Queue!Deliver, Submitted
    <3>2. ASSUME NEW q \in Calls, NEW v \in Results, Queue!Answer(q, v, 0)
          PROVE  /\ Submitted(r)' <=> Submitted(r)
                 /\ phase[r] = "answered" => phase'[r] = "answered" /\ answer'[r] = answer[r]
      BY <1>0, <3>2 DEF Queue!Answer, Queue!TypeOK, Submitted
    <3>3. ASSUME NEW q \in Calls, Queue!GiveUp({q})
          PROVE  /\ Submitted(r)' <=> Submitted(r)
                 /\ phase[r] = "answered" => phase'[r] = "answered" /\ answer'[r] = answer[r]
      BY <1>0, <3>3 DEF Queue!GiveUp, Queue!TypeOK, Submitted
    <3> QED BY <1>8, <3>1, <3>2, <3>3 DEF QueueStep
  <2>3. \A c \in Calls : Existing(c)' = Existing(c)
    BY <2>2, SameExisting
  <2>4. Fresh' /\ NoConflict'
    BY <1>0, <2>1, <2>3 DEF Fresh, NoConflict
  <2>5. Unique'
    BY <1>0, <2>2 DEF Unique
  <2>6. Answered'
    BY <1>0, <2>1, <2>2 DEF Answered, SameRequest
  <2> QED BY <2>4, <2>5, <2>6 DEF ReplayInv
<1>9. ASSUME \/ \E p \in Projects : CreateProject(p)
             \/ \E a \in Aliases : CreateAlias(a)
             \/ \E k \in ApiKeys : CreateKey(k) \/ RevokeKey(k)
             \/ Midnight \/ UNCHANGED vars
      PROVE  ReplayInv'
  BY <1>2, <1>9 DEF CreateProject, CreateAlias, CreateKey, RevokeKey, Midnight, vars
<1> QED BY <1>1, <1>3, <1>5, <1>6, <1>7, <1>8, <1>9 DEF Next, Serve, Moves

\* A step that neither commits a call nor touches a counter.
LEMMA CountKept ==
  ASSUME TypeOK, CountInv, UNCHANGED <<daily_requests_date, daily_requests_used>>,
         \A c \in Calls : pc'[c] \in Serving \cup Committed => staged'[c] = staged[c],
         api_keys \subseteq api_keys', today' \in Nat, today <= today',
         \A c \in Calls : pc'[c] \in Committed <=> pc[c] \in Committed,
         \A c \in Calls : pc'[c] \in Serving => pc[c] \in Serving
  PROVE  CountInv'
<1>1. Dated'
  BY DEF CountInv, Dated, TypeOK
<1>2. Staged'
  BY DEF CountInv, Staged, TypeOK
<1>3. ASSUME NEW k \in ApiKeys
      PROVE  daily_requests_used'[k] = Cardinality(CountedOn(k, daily_requests_date[k])')
  <2>1. CountedOn(k, daily_requests_date[k])' = CountedOn(k, daily_requests_date[k])
    BY DEF CountedOn
  <2>2. daily_requests_used[k] = Cardinality(CountedOn(k, daily_requests_date[k]))
    BY DEF CountInv, DailyExact, CountedOn
  <2> QED BY <2>1, <2>2
<1>4. DailyExact'
  BY <1>3 DEF DailyExact, CountedOn
<1> QED BY <1>1, <1>2, <1>4 DEF CountInv

\* A commit counts its call, on a new date as the first one.
LEMMA CommitCounts ==
  ASSUME LockInv, CountInv, NEW c \in Calls, pc[c] \in Serving, CommitKey(c),
         NEW l \in Committed, pc' = [pc EXCEPT ![c] = l], UNCHANGED <<staged, today>>
  PROVE  CountInv'
<1> USE Constants
<1>0. TypeOK
  BY DEF LockInv
<1>1. PICK k \in ApiKeys : k = CallKey[c] /\ k \in api_keys
  BY DEF LockInv, Admitted
<1>2. PICK d \in 0..MaxDay : d = staged[c].date /\ d <= today /\ daily_requests_date[k] <= d
  BY <1>0, <1>1 DEF TypeOK, CountInv, Staged
<1>3. PICK n \in 0..DailyReqLimit : n = staged[c].used
                                   /\ n = 1 + IF daily_requests_date[k] = d THEN daily_requests_used[k] ELSE 0
  BY <1>0, <1>1, <1>2 DEF TypeOK, CountInv, Staged
<1>11. daily_requests_date[k] \in Nat /\ d \in Nat
  BY <1>0 DEF TypeOK
<1>4. /\ daily_requests_date' = [daily_requests_date EXCEPT ![k] = d]
      /\ daily_requests_used' = [daily_requests_used EXCEPT ![k] = n]
      /\ api_keys' = api_keys
  BY <1>1, <1>2, <1>3 DEF CommitKey
<1>5. pc'[c] = l /\ \A b \in Calls \ {c} : pc'[b] = pc[b]
  BY <1>0 DEF TypeOK
<1>6. c \notin CountedOn(k, d)
  BY DEF CountedOn, Serving, Committed
<1>7. Dated'
  <2>1. \A j \in ApiKeys : daily_requests_date'[j] <= today
    BY <1>0, <1>2, <1>4 DEF TypeOK, CountInv, Dated
  <2>2. ASSUME NEW b \in Calls, pc'[b] \in Committed
        PROVE  CallKey[b] \in api_keys /\ staged[b].date <= daily_requests_date'[CallKey[b]]
    <3>1. CASE b = c
      BY <1>0, <1>1, <1>2, <1>4, <3>1 DEF TypeOK
    <3>2. CASE b # c
      <4>1. CallKey[b] \in api_keys /\ staged[b].date <= daily_requests_date[CallKey[b]]
        BY <1>5, <2>2, <3>2 DEF CountInv, Dated
      <4>2. staged[b].date \in 0..MaxDay /\ daily_requests_date[CallKey[b]] \in 0..MaxDay
        BY <1>0 DEF TypeOK
      <4> QED BY <1>0, <1>2, <1>4, <4>1, <4>2 DEF TypeOK
    <3> QED BY <3>1, <3>2
  <2> QED BY <1>4, <2>1, <2>2 DEF Dated
<1>8. Staged'
  <2> SUFFICES ASSUME NEW b \in Calls, pc'[b] \in Serving
               PROVE  /\ staged[b].date \in daily_requests_date'[CallKey[b]]..today
                      /\ staged[b].used = 1 + IF daily_requests_date'[CallKey[b]] = staged[b].date
                                              THEN daily_requests_used'[CallKey[b]] ELSE 0
    BY DEF Staged
  <2>1. b # c /\ pc[b] \in Serving
    BY <1>5 DEF Serving, Committed
  <2>2. CallKey[b] # k
    BY <1>1, <2>1 DEF LockInv, Alone, Serving, InTransaction
  <2> QED BY <1>0, <1>4, <2>1, <2>2 DEF TypeOK, CountInv, Staged
<1>9. ASSUME NEW j \in ApiKeys
      PROVE  daily_requests_used'[j] = Cardinality(CountedOn(j, daily_requests_date[j])')
  <2>1. CASE j # k
    <3>1. daily_requests_used'[j] = daily_requests_used[j] /\ daily_requests_date'[j] = daily_requests_date[j]
      BY <1>0, <1>4, <2>1 DEF TypeOK
    <3>2. CountedOn(j, daily_requests_date[j])' = CountedOn(j, daily_requests_date[j])
      BY <1>1, <1>5, <2>1, <3>1 DEF CountedOn
    <3>3. daily_requests_used[j] = Cardinality(CountedOn(j, daily_requests_date[j]))
      BY DEF CountInv, DailyExact, CountedOn
    <3> QED BY <3>1, <3>2, <3>3
  <2>2. CASE j = k
    <3>1. daily_requests_used'[j] = n /\ daily_requests_date'[j] = d
      BY <1>0, <1>4, <2>2 DEF TypeOK
    <3>2. CountedOn(k, d)' = CountedOn(k, d) \cup {c}
      BY <1>1, <1>2, <1>5 DEF CountedOn
    <3>3. IsFiniteSet(CountedOn(k, d))
      BY FS_Subset DEF CountedOn
    <3>4. Cardinality(CountedOn(k, d) \cup {c}) = Cardinality(CountedOn(k, d)) + 1
      BY <1>6, <3>3, FS_AddElement
    <3>5. Cardinality(CountedOn(k, d)) = IF daily_requests_date[k] = d THEN daily_requests_used[k] ELSE 0
      <4>1. CASE daily_requests_date[k] = d
        BY <4>1 DEF CountInv, DailyExact, CountedOn
      <4>2. CASE daily_requests_date[k] # d
        <5>1. daily_requests_date[k] < d
          BY <1>2, <1>11, <4>2
        <5>2. ASSUME NEW b \in CountedOn(k, d) PROVE FALSE
          <6>1. b \in Calls /\ staged[b].date = d /\ staged[b].date <= daily_requests_date[k]
            BY <5>2 DEF CountedOn, CountInv, Dated
          <6>2. staged[b].date \in Nat
            BY <1>11, <6>1
          <6> QED BY <1>11, <5>1, <6>1, <6>2
        <5>3. CountedOn(k, d) = {}
          BY <5>2
        <5> QED BY <4>2, <5>3, FS_EmptySet
      <4> QED BY <4>1, <4>2
    <3>6. n = 1 + Cardinality(CountedOn(k, d)) /\ Cardinality(CountedOn(k, d)) \in Nat
      BY <1>3, <3>3, <3>5, FS_CardinalityType
    <3> QED BY <2>2, <3>1, <3>2, <3>4, <3>6
  <2> QED BY <2>1, <2>2
<1>10. DailyExact'
  BY <1>9 DEF DailyExact, CountedOn
<1> QED BY <1>7, <1>8, <1>10 DEF CountInv

LEMMA CountStep == ASSUME LockInv, LockInv', ReplayInv, CountInv, [Next]_vars PROVE CountInv'
<1> USE Constants
<1>0. TypeOK /\ TypeOK' /\ today \in Nat /\ today' \in Nat
  BY DEF LockInv, TypeOK
<1>1. ASSUME NEW c \in Calls, Moves(c) PROVE CountInv'
  <2>1. PICK l \in {"arrived", "failing", "replying", "accepting", "refused", "timeout", "abandoned",
                 "crashed"} :
          /\ pc' = [pc EXCEPT ![c] = l]
          /\ UNCHANGED <<today, modelVars, reply, keyVars, queueVars>>
          /\ staged' = staged \/ (l \in {"refused", "crashed"} /\ Discard(c))
          /\ l \in Committed <=> pc[c] \in Committed
          /\ l = "accepting" => pc[c] = "admitted" /\ Existing(c) = {}
          /\ l = "replying" => pc[c] = "admitted"
    BY <1>1, MoveShape
  <2>2. ASSUME NEW b \in Calls
        PROVE  /\ pc'[b] \in Committed <=> pc[b] \in Committed
               /\ pc'[b] \in Serving => pc[b] \in Serving
               /\ pc'[b] \in Serving \cup Committed => staged'[b] = staged[b]
    BY <1>0, <2>1 DEF TypeOK, Serving, Committed, Discard
  <2> QED BY <1>0, <2>1, <2>2, CountKept DEF keyVars
<1>2. ASSUME UNCHANGED <<staged, daily_requests_date, daily_requests_used, pc>>,
             api_keys \subseteq api_keys', today <= today'
      PROVE  CountInv'
  BY <1>0, <1>2, CountKept
<1>3. ASSUME NEW k \in ApiKeys, CreateKey(k) PROVE CountInv'
  <2>1. /\ k \notin api_keys /\ api_keys' = api_keys \cup {k}
        /\ daily_requests_date' = [daily_requests_date EXCEPT ![k] = today]
        /\ UNCHANGED <<today, pc, staged, daily_requests_used>>
    BY <1>3 DEF CreateKey, callVars
  <2>2. \A c \in Calls : CallKey[c] = k => pc[c] \notin Serving /\ pc[c] \notin Committed
    BY <2>1 DEF LockInv, Admitted, CountInv, Dated
  <2>3. Dated'
    BY <1>0, <2>1, <2>2 DEF CountInv, Dated, TypeOK
  <2>4. Staged'
    BY <1>0, <2>1, <2>2 DEF CountInv, Staged, TypeOK
  <2>5. ASSUME NEW j \in ApiKeys
        PROVE  daily_requests_used[j] = Cardinality(CountedOn(j, daily_requests_date[j])')
    <3>1. CountedOn(j, daily_requests_date[j])' = CountedOn(j, daily_requests_date[j])
      BY <1>0, <2>1, <2>2 DEF CountedOn, TypeOK
    <3>2. daily_requests_used[j] = Cardinality(CountedOn(j, daily_requests_date[j]))
      BY DEF CountInv, DailyExact, CountedOn
    <3> QED BY <3>1, <3>2
  <2>6. DailyExact'
    BY <2>1, <2>5 DEF DailyExact, CountedOn
  <2> QED BY <2>3, <2>4, <2>6 DEF CountInv
<1>4. ASSUME NEW c \in Calls, Authenticate(c) PROVE CountInv'
  <2>1. PICK k \in ApiKeys : k = CallKey[c]
    OBVIOUS
  <2>2. PICK n : n = UsedToday(k) + 1
    OBVIOUS
  <2>3. PICK s : s = [date |-> today, used |-> n]
    OBVIOUS
  <2>4. /\ pc[c] = "arrived" /\ pc' = [pc EXCEPT ![c] = "admitted"]
        /\ staged' = [staged EXCEPT ![c] = s] /\ s.date = today /\ s.used = n
        /\ UNCHANGED <<today, api_keys, daily_requests_date, daily_requests_used>>
    BY <1>4, <2>1, <2>2, <2>3 DEF Authenticate, Goto, keyVars
  <2>5. ASSUME NEW b \in Calls
        PROVE  /\ pc'[b] \in Committed <=> pc[b] \in Committed
               /\ pc[b] \in Committed => staged'[b] = staged[b]
    BY <1>0, <2>4 DEF TypeOK, Committed
  <2>6. Dated'
    BY <2>4, <2>5 DEF CountInv, Dated
  <2>7. Staged'
    <3> SUFFICES ASSUME NEW b \in Calls, pc'[b] \in Serving
                 PROVE  /\ staged'[b].date \in daily_requests_date[CallKey[b]]..today
                        /\ staged'[b].used = 1 + IF daily_requests_date[CallKey[b]] = staged'[b].date
                                                 THEN daily_requests_used[CallKey[b]] ELSE 0
      BY <2>4 DEF Staged
    <3>1. CASE b = c
      <4>1. staged'[b] = s
        BY <1>0, <2>4, <3>1 DEF TypeOK
      <4>2. n = 1 + IF daily_requests_date[k] = today THEN daily_requests_used[k] ELSE 0
        BY <1>0, <2>2 DEF UsedToday, TypeOK
      <4>3. today \in daily_requests_date[k]..today
        BY <1>0 DEF CountInv, Dated, TypeOK
      <4> QED BY <2>1, <2>4, <3>1, <4>1, <4>2, <4>3
    <3>2. CASE b # c
      BY <1>0, <2>4, <3>2 DEF CountInv, Staged, TypeOK
    <3> QED BY <3>1, <3>2
  <2>8. ASSUME NEW j \in ApiKeys
        PROVE  daily_requests_used[j] = Cardinality(CountedOn(j, daily_requests_date[j])')
    <3>1. CountedOn(j, daily_requests_date[j])' = CountedOn(j, daily_requests_date[j])
      BY <2>4, <2>5 DEF CountedOn
    <3>2. daily_requests_used[j] = Cardinality(CountedOn(j, daily_requests_date[j]))
      BY DEF CountInv, DailyExact, CountedOn
    <3> QED BY <3>1, <3>2
  <2>9. DailyExact'
    BY <2>4, <2>8 DEF DailyExact, CountedOn
  <2> QED BY <2>6, <2>7, <2>9 DEF CountInv
<1>5. ASSUME NEW c \in Calls, Replay(c) \/ Poll(c) PROVE CountInv'
  <2>1. /\ UNCHANGED <<today, staged, keyVars>>
        /\ \/ pc[c] = "admitted" /\ pc' = [pc EXCEPT ![c] = "replying"]
           \/ /\ pc[c] = "waiting"
              /\ \E l \in {"answered", "unavailable"} : pc' = [pc EXCEPT ![c] = l]
    BY <1>5 DEF Replay, Poll, Goto
  <2>2. ASSUME NEW b \in Calls
        PROVE  /\ pc'[b] \in Committed <=> pc[b] \in Committed
               /\ pc'[b] \in Serving => pc[b] \in Serving
    BY <1>0, <2>1 DEF TypeOK, Serving, Committed
  <2> QED BY <1>0, <2>1, <2>2, CountKept DEF keyVars
<1>6. ASSUME NEW c \in Calls, CommitReplay(c) PROVE CountInv'
  <2>1. PICK l \in Committed : pc' = [pc EXCEPT ![c] = l]
    BY <1>6 DEF CommitReplay, Goto, Committed
  <2> QED BY <1>6, <2>1, CommitCounts DEF CommitReplay, Serving
<1>7. ASSUME NEW c \in Calls, Insert(c) PROVE CountInv'
  <2>1. ~Duplicate(c)
    BY <1>7 DEF Insert, Duplicate, ReplayInv, Fresh, Existing
  <2>2. pc' = [pc EXCEPT ![c] = "waiting"] /\ CommitKey(c) /\ pc[c] = "accepting"
    BY <1>7, <2>1 DEF Insert, Goto
  <2> QED BY <1>7, <2>2, CommitCounts DEF Insert, Serving, Committed
<1>8. ASSUME \/ \E p \in Projects : CreateProject(p)
             \/ \E a \in Aliases : CreateAlias(a)
             \/ \E k \in ApiKeys : RevokeKey(k)
             \/ QueueStep \/ Midnight \/ UNCHANGED vars
      PROVE  CountInv'
  BY <1>0, <1>2, <1>8
  DEF CreateProject, CreateAlias, RevokeKey, QueueStep, Midnight, vars, callVars, keyVars
<1> QED BY <1>1, <1>3, <1>4, <1>5, <1>6, <1>7, <1>8 DEF Next, Serve, Moves

ChatInv == LockInv /\ ReplayInv /\ CountInv

LEMMA ChatAlways == Spec => []ChatInv
<1>1. ChatInv /\ [Next]_vars => ChatInv'
  BY LockStep, ReplayStep, CountStep DEF ChatInv
<1>2. Init => ChatInv
  BY ChatInit DEF ChatInv
<1> QED BY <1>1, <1>2, PTL DEF Spec

\* Every variable has its type; in particular no key's counter passes its
\* daily limit (dependencies.py:55-62).
THEOREM ChatTypeCorrect == Spec => []TypeOK
<1>1. ChatInv => TypeOK
  BY DEF ChatInv, LockInv
<1> QED BY <1>1, ChatAlways, PTL

\* No call is lost from a key's counter and none counts twice, however calls,
\* crashes, key creation and midnight interleave (dependencies.py:43-62).
THEOREM DailyExactSafe == Spec => []DailyExact
<1>1. ChatInv => DailyExact
  BY DEF ChatInv, CountInv
<1> QED BY <1>1, ChatAlways, PTL

\* A lookup under the key's lock is still right when the row is inserted, so
\* the unique constraint never refuses one (chat.py:36-48, 84-90).
THEOREM NoConflictSafe == Spec => []NoConflict
<1>1. ChatInv => NoConflict
  BY DEF ChatInv, ReplayInv
<1> QED BY <1>1, ChatAlways, PTL

\* All calls that name one request are given the one answer it has
\* (chat.py:36-48, 104-105).
THEOREM RepliesFaithfulSafe == Spec => []RepliesFaithful
<1>1. ASSUME ChatInv PROVE RepliesFaithful
  <2>1. Answered /\ Unique
    BY <1>1 DEF ChatInv, ReplayInv
  <2>2. ASSUME NEW c \in Calls, NEW d \in Calls, reply[c] # NULL, reply[d] # NULL, SameRequest(c, d)
        PROVE  reply[c] = reply[d]
    <3>1. PICK r \in Calls : SameRequest(c, r) /\ phase[r] = "answered" /\ answer[r] = reply[c]
      BY <2>1, <2>2 DEF Answered
    <3>2. PICK s \in Calls : SameRequest(d, s) /\ phase[s] = "answered" /\ answer[s] = reply[d]
      BY <2>1, <2>2 DEF Answered
    <3>3. CASE c = d
      BY <3>3
    <3>4. CASE c # d
      <4>1. CallIdem[c] # NULL /\ CallIdem[r] = CallIdem[c] /\ CallIdem[s] = CallIdem[c]
            /\ CallKey[r] = CallKey[c] /\ CallKey[s] = CallKey[c]
        BY <2>2, <3>1, <3>2, <3>4 DEF SameRequest
      <4>2. r = s
        BY <2>1, <3>1, <3>2, <4>1 DEF Unique, Submitted
      <4> QED BY <3>1, <3>2, <4>2
    <3> QED BY <3>3, <3>4
  <2> QED BY <2>1, <2>2 DEF RepliesFaithful, Answered
<1> QED BY <1>1, ChatAlways, PTL

\* After a revocation has committed, nothing is accepted or counted for the key
\* (admin.py:130-143, "Immediately revoke").
THEOREM KeyRevocationFinal == Spec => RevocationFinal
<1>1. ASSUME ChatInv, [Next]_vars, NEW k \in ApiKeys, revoked[k]
      PROVE  /\ revoked'[k] /\ daily_requests_used'[k] = daily_requests_used[k]
             /\ \A c \in Calls : CallKey[c] = k /\ phase[c] = "unsubmitted" =>
                                  phase'[c] = "unsubmitted"
  <2> USE Constants
  <2>0. LockInv /\ TypeOK /\ Queue!TypeOK
    BY <1>1 DEF ChatInv, LockInv, TypeOK
  <2>1. \A c \in Calls : CallKey[c] = k => pc[c] \notin Serving
    BY <1>1, <2>0 DEF LockInv, Admitted
  <2>2. ASSUME UNCHANGED <<revoked, daily_requests_used, phase>>
        PROVE  /\ revoked'[k] /\ daily_requests_used'[k] = daily_requests_used[k]
               /\ \A c \in Calls : CallKey[c] = k /\ phase[c] = "unsubmitted" =>
                                    phase'[c] = "unsubmitted"
    BY <1>1, <2>2
  <2>3. ASSUME NEW c \in Calls, CommitReplay(c)
        PROVE  daily_requests_used'[k] = daily_requests_used[k] /\ UNCHANGED <<revoked, phase>>
    BY <2>0, <2>1, <2>3 DEF CommitReplay, CommitKey, Serving, TypeOK, queueVars
  <2>4. ASSUME NEW c \in Calls, Insert(c)
        PROVE  /\ daily_requests_used'[k] = daily_requests_used[k] /\ UNCHANGED revoked
               /\ \A b \in Calls : CallKey[b] = k => phase'[b] = phase[b]
    <3>1. CallKey[c] # k
      BY <2>1, <2>4 DEF Insert, Serving
    <3> QED BY <2>0, <2>4, <3>1
        DEF Insert, CommitKey, TypeOK, Queue!TypeOK, Queue!Submit, queueVars, keyVars
  <2>5. ASSUME NEW c \in Calls,
               Send(c) \/ Authenticate(c) \/ Reject(c) \/ Replay(c) \/ ReadOnly(c) \/ LookUp(c)
               \/ Raise(c) \/ Rollback(c) \/ Poll(c) \/ Timeout(c) \/ Crash(c)
        PROVE  UNCHANGED <<revoked, daily_requests_used, phase>>
    BY <2>5 DEF Send, Authenticate, Reject, Replay, ReadOnly, LookUp, Raise, Rollback, Poll, Timeout, Crash,
      keyVars, queueVars
  <2>6. ASSUME NEW j \in ApiKeys, RevokeKey(j)
        PROVE  revoked'[k] /\ UNCHANGED <<daily_requests_used, phase>>
    BY <1>1, <2>0, <2>6 DEF RevokeKey, TypeOK, queueVars
  <2>7. ASSUME QueueStep
        PROVE  /\ UNCHANGED <<revoked, daily_requests_used>>
               /\ \A c \in Calls : phase[c] = "unsubmitted" => phase'[c] = "unsubmitted"
    <3>1. ASSUME NEW q \in Calls, Queue!Deliver(q) \/ Queue!GiveUp({q})
                                 \/ \E v \in Results : Queue!Answer(q, v, 0)
          PROVE  \A c \in Calls : phase[c] = "unsubmitted" => phase'[c] = "unsubmitted"
      BY <2>0, <3>1 DEF Queue!Deliver, Queue!GiveUp, Queue!Answer, Queue!TypeOK
    <3> QED BY <2>7, <3>1 DEF QueueStep, keyVars
  <2>8. ASSUME \/ \E p \in Projects : CreateProject(p)
               \/ \E a \in Aliases : CreateAlias(a)
               \/ \E j \in ApiKeys : CreateKey(j)
               \/ Midnight \/ UNCHANGED vars
        PROVE  UNCHANGED <<revoked, daily_requests_used, phase>>
    BY <2>8 DEF CreateProject, CreateAlias, CreateKey, Midnight, vars, keyVars, queueVars
  <2> QED BY <1>1, <2>2, <2>3, <2>4, <2>5, <2>6, <2>7, <2>8 DEF Next, Serve
<1>2. ChatInv /\ [Next]_vars =>
        [\A k \in ApiKeys : revoked[k] =>
           /\ revoked'[k]
           /\ daily_requests_used'[k] = daily_requests_used[k]
           /\ \A c \in Calls : CallKey[c] = k /\ phase[c] = "unsubmitted" =>
                                 phase'[c] = "unsubmitted"]_vars
  BY <1>1
<1> QED BY <1>2, ChatAlways, PTL DEF Spec, RevocationFinal
==============================================================================
