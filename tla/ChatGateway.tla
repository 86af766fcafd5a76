----------------------------- MODULE ChatGateway -----------------------------
(***************************************************************************)
(* POST /v1/chat/completions as its clients see it: authentication under   *)
(* the API key's row lock (dependencies.py), idempotent replay, acceptance *)
(* and the bounded wait for a result (routes/chat.py), while the           *)
(* administrator creates projects, keys and model aliases and revokes keys *)
(* (routes/admin.py).  What happens to an accepted request behind the      *)
(* queue is RequestContract, which RequestQueue implements.                *)
(*                                                                         *)
(* A call is identified with what its client sent; the request it inserts  *)
(* carries the call's name.  Between authentication and commit the call    *)
(* keeps the key's row locked (FOR UPDATE), so the steps it takes there    *)
(* interleave with calls of other keys and with workers.  An exception     *)
(* does not release the lock: the abandoned session generator is rolled    *)
(* back later, when it is finalised.                                       *)
(***************************************************************************)
EXTENDS Naturals, FiniteSets

CONSTANTS
  Calls,          \* HTTP calls clients may make, and the requests they insert
  ApiKeys,        \* client API keys
  Results,        \* results workers may give
  Projects,
  Aliases,        \* names of model aliases
  NULL,
  KeyProject,     \* KeyProject[k]: the project key k is created for
  CallAlias,      \* CallAlias[c]: the model that call c asks for
  CallKey,        \* CallKey[c]: the API key of call c
  CallIdem,       \* CallIdem[c]: its Idempotency-Key, or NULL
  DailyReqLimit,  \* APIKey.daily_req_limit
  MaxDeliveries,  \* deliveries of one request to workers
  MaxDay          \* bound: the date stops here

ASSUME CallsAssumption ==
  /\ CallKey \in [Calls -> ApiKeys] /\ CallAlias \in [Calls -> Aliases]
  /\ KeyProject \in [ApiKeys -> Projects]
  /\ DailyReqLimit \in Nat /\ MaxDeliveries \in Nat /\ MaxDay \in Nat
  /\ NULL \notin Results
  /\ IsFiniteSet(Calls)

VARIABLES
  today,                \* the UTC date
  pc,                   \* where each call stands
  staged,               \* the key's counter as the call's transaction writes it
  reply,                \* the result returned to the client
  \* the rows of projects and model_aliases
  projects, model_aliases,
  \* table api_keys: its rows, and their columns
  api_keys,
  revoked,
  daily_requests_date,
  daily_requests_used,
  \* table orbi_requests, as RequestContract describes it
  phase, attempts, answer, billed

callVars  == <<pc, staged, reply>>
keyVars   == <<api_keys, revoked, daily_requests_date, daily_requests_used>>
modelVars == <<projects, model_aliases>>
queueVars == <<phase, attempts, answer, billed>>
vars == <<today, callVars, keyVars, modelVars, queueVars>>

Queue == INSTANCE RequestContract WITH Requests <- Calls, Amounts <- {0}

\* Calls whose transaction is open, and with it the lock on their key's row.
InTransaction == {"admitted", "replying", "accepting", "failing", "conflict"}

\* Calls that have committed.
Committed == {"waiting", "answered", "stated", "unavailable", "timeout", "abandoned"}

Ended == {"answered", "stated", "unavailable", "timeout", "refused",
          "abandoned", "crashed"}

-----------------------------------------------------------------------------
Init ==
  /\ today = 0
  /\ pc = [c \in Calls |-> "unsent"]
  /\ staged = [c \in Calls |-> [date |-> 0, used |-> 0]]
  /\ reply = [c \in Calls |-> NULL]
  /\ projects = {} /\ model_aliases = {} /\ api_keys = {}
  /\ revoked = [k \in ApiKeys |-> FALSE]
  /\ daily_requests_date = [k \in ApiKeys |-> 0]
  /\ daily_requests_used = [k \in ApiKeys |-> 0]
  /\ Queue!Init

Goto(c, label) == pc' = [pc EXCEPT ![c] = label]

\* Mutant: the key's row is read without FOR UPDATE.
NotLocked(k) == TRUE

\* No other transaction holds the lock on key k's row.
Unlocked(k) == \A c \in Calls : CallKey[c] = k => pc[c] \notin InTransaction

\* create_project, when the slug is new.
CreateProject(p) ==
  /\ p \notin projects
  /\ projects' = projects \cup {p}
  /\ UNCHANGED <<today, callVars, keyVars, model_aliases, queueVars>>

\* create_model_alias, when the alias is new.
CreateAlias(a) ==
  /\ a \notin model_aliases
  /\ model_aliases' = model_aliases \cup {a}
  /\ UNCHANGED <<today, callVars, keyVars, projects, queueVars>>

\* create_api_key; the date of its counter is the table's default.
CreateKey(k) ==
  /\ k \notin api_keys /\ KeyProject[k] \in projects
  /\ api_keys' = api_keys \cup {k}
  /\ daily_requests_date' = [daily_requests_date EXCEPT ![k] = today]
  /\ UNCHANGED <<today, callVars, revoked, daily_requests_used, modelVars, queueVars>>

Send(c) ==
  /\ pc[c] = "unsent"
  /\ Goto(c, "arrived")
  /\ UNCHANGED <<today, modelVars, staged, reply, keyVars, queueVars>>

\* Requests that key k has made on the date its row is read.
UsedToday(k) ==
  IF daily_requests_date[k] = today THEN daily_requests_used[k] ELSE 0

\* Mutant: one request too many.
UnderLimitOffByOne(k) == UsedToday(k) <= DailyReqLimit

UnderLimit(k) == UsedToday(k) < DailyReqLimit

\* require_api_key succeeds; the counter it writes is still uncommitted.
Authenticate(c) ==
  LET k == CallKey[c] IN
  /\ pc[c] = "arrived"
  /\ Unlocked(k)
  /\ k \in api_keys /\ ~revoked[k]
  /\ UnderLimit(k)
  /\ staged' = [staged EXCEPT ![c] = [date |-> today, used |-> UsedToday(k) + 1]]
  /\ Goto(c, "admitted")
  /\ UNCHANGED <<today, modelVars, reply, keyVars, queueVars>>

\* It raises: the key is unknown, revoked or expired, its limit is reached, or
\* the rate limiter refuses.
Reject(c) ==
  /\ pc[c] = "arrived"
  /\ Unlocked(CallKey[c])
  /\ Goto(c, "failing")
  /\ UNCHANGED <<today, modelVars, staged, reply, keyVars, queueVars>>

\* The transaction's COMMIT, as far as it concerns the key's row.
CommitKey(c) ==
  /\ daily_requests_date' = [daily_requests_date EXCEPT ![CallKey[c]] = staged[c].date]
  /\ daily_requests_used' = [daily_requests_used EXCEPT ![CallKey[c]] = staged[c].used]
  /\ UNCHANGED <<api_keys, revoked>>

\* Mutant: the lookup forgets the API key.
ExistingOfAnyKey(c) ==
  {r \in Calls : /\ CallIdem[c] # NULL
                 /\ CallIdem[r] = CallIdem[c]
                 /\ phase[r] # "unsubmitted"}

\* Committed requests with the call's key and Idempotency-Key.
Existing(c) ==
  {r \in Calls : /\ CallIdem[c] # NULL
                 /\ CallIdem[r] = CallIdem[c] /\ CallKey[r] = CallKey[c]
                 /\ phase[r] # "unsubmitted"}

\* The request exists already: its result, or else its status, is returned.
Replay(c) ==
  /\ pc[c] = "admitted"
  /\ \E r \in Existing(c) :
       reply' = [reply EXCEPT ![c] = IF phase[r] = "answered" THEN answer[r] ELSE NULL]
  /\ Goto(c, "replying")
  /\ UNCHANGED <<today, modelVars, staged, keyVars, queueVars>>

\* The call is for another route: the models or the key's usage are read, and
\* only require_api_key's counter is left to commit.
ReadOnly(c) ==
  /\ pc[c] = "admitted"
  /\ Goto(c, "replying")
  /\ UNCHANGED <<today, modelVars, staged, reply, keyVars, queueVars>>

\* The commit that counts a replay, or a call of another route.  FastAPI's
\* version decides whether it comes before the reply or after: a crash before
\* it may leave the reply uncounted.
CommitReplay(c) ==
  /\ pc[c] = "replying"
  /\ Goto(c, IF reply[c] # NULL THEN "answered" ELSE "stated")
  /\ CommitKey(c)
  /\ UNCHANGED <<today, modelVars, staged, reply, queueVars>>

\* There is no such request; the model alias is looked up, and found.
LookUp(c) ==
  /\ pc[c] = "admitted"
  /\ Existing(c) = {}
  /\ CallAlias[c] \in model_aliases
  /\ Goto(c, "accepting")
  /\ UNCHANGED <<today, modelVars, staged, reply, keyVars, queueVars>>

\* uq_requests_key_idempotency would reject the row.
Duplicate(c) ==
  \E r \in Calls : /\ CallIdem[c] # NULL
                   /\ CallIdem[r] = CallIdem[c] /\ CallKey[r] = CallKey[c]
                   /\ phase[r] # "unsubmitted"

\* Tokens are reserved and the row is inserted: the transaction commits, or
\* the constraint refuses the row (409).
Insert(c) ==
  /\ pc[c] = "accepting"
  /\ IF Duplicate(c)
     THEN Goto(c, "conflict") /\ UNCHANGED <<keyVars, queueVars>>
     ELSE Goto(c, "waiting") /\ CommitKey(c) /\ Queue!Submit(c)
  /\ UNCHANGED <<today, modelVars, staged, reply>>

\* An exception: scope, stream or Idempotency-Key refused, no such model, or
\* the token budget exceeded.
Raise(c) ==
  /\ pc[c] \in {"admitted", "accepting"}
  /\ Goto(c, "failing")
  /\ UNCHANGED <<today, modelVars, staged, reply, keyVars, queueVars>>

\* ROLLBACK: what the transaction would have written is gone.
Discard(c) == staged' = [staged EXCEPT ![c] = [date |-> 0, used |-> 0]]

\* The session generator is finalised: ROLLBACK.
Rollback(c) ==
  /\ pc[c] \in {"failing", "conflict"}
  /\ Goto(c, "refused")
  /\ Discard(c)
  /\ UNCHANGED <<today, modelVars, reply, keyVars, queueVars>>

\* A poll reads the request in a session of its own; if it is not settled,
\* the loop sleeps and polls again.
Poll(c) ==
  /\ pc[c] = "waiting"
  /\ \/ /\ phase[c] = "answered"
        /\ Goto(c, "answered")
        /\ reply' = [reply EXCEPT ![c] = answer[c]]
     \/ /\ phase[c] = "failed"
        /\ Goto(c, "unavailable")
        /\ UNCHANGED reply
  /\ UNCHANGED <<today, modelVars, staged, keyVars, queueVars>>

\* Mutant: the polling loop has no deadline.
TimeoutNever(c) == FALSE

\* The deadline passes, at a moment of its own, and no further poll is made.
Timeout(c) ==
  /\ pc[c] = "waiting"
  /\ Goto(c, "timeout")
  /\ UNCHANGED <<today, modelVars, staged, reply, keyVars, queueVars>>

\* The gateway process dies; PostgreSQL rolls an open transaction back.
Crash(c) ==
  /\ pc[c] \in InTransaction \cup {"waiting"}
  /\ Goto(c, IF pc[c] = "waiting" THEN "abandoned" ELSE "crashed")
  /\ IF pc[c] = "waiting" THEN UNCHANGED staged ELSE Discard(c)
  /\ UNCHANGED <<today, modelVars, reply, keyVars, queueVars>>

\* revoke_api_key.
RevokeKey(k) ==
  /\ k \in api_keys /\ Unlocked(k)
  /\ ~revoked[k]
  /\ revoked' = [revoked EXCEPT ![k] = TRUE]
  /\ UNCHANGED <<today, modelVars, callVars, api_keys, daily_requests_date, daily_requests_used,
                 queueVars>>

\* What workers and the recovery loop do to accepted requests.  Accepting a
\* result also updates the totals in the key's row, and waits for its lock.
QueueStep ==
  /\ \/ \E r \in Calls : Queue!Deliver(r)
     \/ \E r \in Calls, v \in Results : Unlocked(CallKey[r]) /\ Queue!Answer(r, v, 0)
     \/ \E r \in Calls : Queue!GiveUp({r})
  /\ UNCHANGED <<today, modelVars, callVars, keyVars>>

Midnight ==
  /\ today < MaxDay
  /\ today' = today + 1
  /\ UNCHANGED <<callVars, keyVars, modelVars, queueVars>>

\* The gateway's own steps for a call it has authenticated.
Serve(c) ==
  \/ Replay(c) \/ ReadOnly(c) \/ CommitReplay(c) \/ LookUp(c) \/ Insert(c)
  \/ Raise(c) \/ Rollback(c) \/ Poll(c) \/ Timeout(c)

Next ==
  \/ \E p \in Projects : CreateProject(p)
  \/ \E a \in Aliases : CreateAlias(a)
  \/ \E k \in ApiKeys : CreateKey(k)
  \/ \E c \in Calls : Send(c) \/ Authenticate(c) \/ Reject(c) \/ Serve(c) \/ Crash(c)
  \/ \E k \in ApiKeys : RevokeKey(k)
  \/ QueueStep
  \/ Midnight

Spec == Init /\ [][Next]_vars

\* The event loop runs every call on, and waiters for a row lock are served
\* in turn.  Nothing is assumed of workers, clients or the recovery loop.
Fairness ==
  \A c \in Calls : /\ WF_vars(Serve(c))
                   /\ SF_vars(Authenticate(c) \/ Reject(c))

FairSpec == Spec /\ Fairness

-----------------------------------------------------------------------------
(* Properties. *)

\* Every variable has its type.
TypeOK ==
  /\ today \in 0..MaxDay
  /\ pc \in [Calls -> {"unsent", "arrived"} \cup InTransaction \cup Committed \cup Ended]
  /\ staged \in [Calls -> [date : 0..MaxDay, used : 0..DailyReqLimit]]
  /\ reply \in [Calls -> Results \cup {NULL}]
  /\ projects \subseteq Projects /\ model_aliases \subseteq Aliases
  /\ api_keys \subseteq {k \in ApiKeys : KeyProject[k] \in projects}
  /\ revoked \in [ApiKeys -> BOOLEAN]
  /\ daily_requests_date \in [ApiKeys -> 0..MaxDay]
  /\ daily_requests_used \in [ApiKeys -> 0..DailyReqLimit]
  /\ Queue!TypeOK

\* A key's counter is exactly the number of its calls that were authenticated
\* on its date and committed, replays and calls of other routes included: no
\* update is lost, and a call that is refused or crashes leaves no trace
\* (dependencies.py:43-62,
\* docs/phase-1-verification.md:27).
DailyExact ==
  \A k \in ApiKeys :
    daily_requests_used[k] =
      Cardinality({c \in Calls : /\ CallKey[c] = k /\ pc[c] \in Committed
                                 /\ staged[c].date = daily_requests_date[k]})

\* A duplicate always finds the request it duplicates: the key's lock is held
\* from before the lookup until the commit, so the unique constraint behind
\* it never has to refuse a row (chat.py:36-48, 84-90; dependencies.py:43).
NoConflict == \A c \in Calls : pc[c] # "conflict"

\* Calls that name the same request.
SameRequest(c, r) ==
  CallKey[c] = CallKey[r] /\ (c = r \/ (CallIdem[c] # NULL /\ CallIdem[c] = CallIdem[r]))

\* A result returned, at once or after polling, by a call that was counted or
\* by one that crashed before it was, is the committed answer of a request of
\* the caller's own key, and every call that names one request is given the
\* same result (chat.py:36-48, 104-105; docs/api-reference.md:44).
RepliesFaithful ==
  \A c \in Calls : reply[c] # NULL =>
    /\ \E r \in Calls : SameRequest(c, r) /\ phase[r] = "answered" /\ answer[r] = reply[c]
    /\ \A d \in Calls : reply[d] # NULL /\ SameRequest(c, d) => reply[c] = reply[d]

\* Once a key's revocation has committed it stands, and no call of that key is
\* counted or has its request accepted, whatever calls were under way.  A
\* result of a request accepted before may still add to the totals in the
\* key's row (admin.py:130-143, "Immediately revoke"; queue.py:98-105).
RevocationFinal ==
  [][\A k \in ApiKeys : revoked[k] =>
       /\ revoked'[k]
       /\ daily_requests_used'[k] = daily_requests_used[k]
       /\ \A c \in Calls : CallKey[c] = k /\ phase[c] = "unsubmitted" =>
                             phase'[c] = "unsubmitted"]_vars

\* Every call ends, though no worker need ever answer: it is refused,
\* answered, or timed out after its bounded wait (chat.py:96-116), and gives
\* up the key's lock if it fails before that.
CallsEnd == \A c \in Calls : pc[c] = "arrived" ~> pc[c] \in Ended
=============================================================================
