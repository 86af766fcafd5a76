------------------------------ MODULE RateLimit ------------------------------
(***************************************************************************)
(* RateLimitService.allow_minute (services/rate_limit.py) for one API key: *)
(* a counter per minute in Redis, incremented with INCR and, by the call   *)
(* that created it, given its time to live with EXPIRE.  The two are       *)
(* separate commands.  The calls are concurrent here; that require_api_key *)
(* holds the key's row lock while it asks is not used.                     *)
(*                                                                         *)
(* Redis itself is modelled by what the two commands do to a counter: it   *)
(* is absent (count 0) until the first INCR and again once its time to     *)
(* live has run out.                                                       *)
(***************************************************************************)
EXTENDS Naturals, FiniteSets

CONSTANTS
  Calls,         \* calls of allow_minute for one API key
  NULL,
  RpmLimit,      \* APIKey.rpm_limit
  Minute,        \* ticks per window
  MaxStall,      \* bound: time from reading the clock to the INCR
  MaxTime        \* bound: the clock stops here

Times == 0..MaxTime

WindowOf(t) == t \div Minute

Windows == {WindowOf(t) : t \in Times}

ASSUME RateAssumption ==
  /\ RpmLimit \in Nat /\ Minute \in Nat \ {0} /\ MaxTime \in Nat
  /\ MaxStall \in 0..Minute
  /\ IsFiniteSet(Calls)
  /\ NULL \notin Nat

VARIABLES
  now,
  pc,         \* where each call stands
  read_at,    \* the clock as the call read it
  \* Redis, per window
  count,      \* 0 if the key does not exist
  expire_at,  \* NULL if it has no time to live
  allowed     \* history: the calls allowed in each window

vars == <<now, pc, read_at, count, expire_at, allowed>>

-----------------------------------------------------------------------------
Init ==
  /\ now = 0
  /\ pc = [c \in Calls |-> "idle"]
  /\ read_at = [c \in Calls |-> 0]
  /\ count = [w \in Windows |-> 0]
  /\ expire_at = [w \in Windows |-> NULL]
  /\ allowed = [w \in Windows |-> {}]

\* The window is computed from the clock.
Start(c) ==
  /\ pc[c] = "idle"
  /\ pc' = [pc EXCEPT ![c] = "counting"]
  /\ read_at' = [read_at EXCEPT ![c] = now]
  /\ UNCHANGED <<now, count, expire_at, allowed>>

\* Mutant: one call too many.
WithinLimitOffByOne(n) == n <= RpmLimit + 1

\* Mutant: the limit itself is refused.
WithinLimitStrict(n) == n < RpmLimit

WithinLimit(n) == n <= RpmLimit

\* INCR, whose result decides the call.
Incr(c) ==
  LET w == WindowOf(read_at[c])
      n == count[w] + 1
  IN  /\ pc[c] = "counting"
      /\ now <= read_at[c] + MaxStall
      /\ count' = [count EXCEPT ![w] = n]
      /\ allowed' = IF WithinLimit(n) THEN [allowed EXCEPT ![w] = @ \cup {c}] ELSE allowed
      /\ pc' = [pc EXCEPT ![c] = IF n = 1 THEN "expiring"
                                 ELSE IF WithinLimit(n) THEN "allowed" ELSE "refused"]
      /\ UNCHANGED <<now, read_at, expire_at>>

\* Mutant: the key lives as long as its window lasts.
KeyTtlOneWindow == Minute

\* Mutant: milliseconds for seconds.
KeyTtlMilliseconds == 2000 * Minute

\* 120 seconds.
KeyTtl == 2 * Minute

\* EXPIRE by the call that created the key, which is still there: it has had
\* no time to live until now.
Expire(c) ==
  LET w == WindowOf(read_at[c]) IN
  /\ pc[c] = "expiring"
  /\ expire_at' = [expire_at EXCEPT ![w] = now + KeyTtl]
  /\ pc' = [pc EXCEPT ![c] = IF WithinLimit(1) THEN "allowed" ELSE "refused"]
  /\ UNCHANGED <<now, read_at, count, allowed>>

\* The gateway dies, or its connection to Redis does.
Crash(c) ==
  /\ pc[c] \in {"counting", "expiring"}
  /\ pc' = [pc EXCEPT ![c] = "crashed"]
  /\ UNCHANGED <<now, read_at, count, expire_at, allowed>>

Expired(w, t) == expire_at[w] # NULL /\ expire_at[w] <= t

\* Time passes; Redis drops the keys whose time to live has run out.
Tick ==
  /\ now < MaxTime
  /\ now' = now + 1
  /\ count' = [w \in Windows |-> IF Expired(w, now + 1) THEN 0 ELSE count[w]]
  /\ expire_at' = [w \in Windows |-> IF Expired(w, now + 1) THEN NULL ELSE expire_at[w]]
  /\ UNCHANGED <<pc, read_at, allowed>>

Next ==
  \/ \E c \in Calls : Start(c) \/ Incr(c) \/ Expire(c) \/ Crash(c)
  \/ Tick

Spec == Init /\ [][Next]_vars

-----------------------------------------------------------------------------
(* Properties. *)

\* The counters count the calls, no key is given more than two minutes to
\* live, and one that is gone has none left (rate_limit.py:18-20).
TypeOK ==
  /\ now \in Times
  /\ pc \in [Calls -> {"idle", "counting", "expiring", "allowed", "refused", "crashed"}]
  /\ read_at \in [Calls -> Times]
  /\ count \in [Windows -> 0..Cardinality(Calls)]
  /\ expire_at \in [Windows -> 0..(MaxTime + 2 * Minute) \cup {NULL}]
  /\ allowed \in [Windows -> SUBSET Calls]
  /\ \A w \in Windows : count[w] = 0 => expire_at[w] = NULL

\* In no window are more calls allowed than the limit: the counter outlives
\* every call that can still count in it, though a call may be late and its
\* window over (rate_limit.py:14-21).
WindowLimit == \A w \in Windows : Cardinality(allowed[w]) <= RpmLimit

\* A call is refused only in a window whose limit other calls have used up;
\* a crashed call may have used its share (rate_limit.py:18-21).
RefusedAtLimit ==
  \A c \in Calls : pc[c] = "refused" =>
    Cardinality(allowed[WindowOf(read_at[c])]) >= RpmLimit

\* Every counter has a time to live, or is about to be given one by the call
\* that created it: "mandatory TTLs", "without creating immortal Redis keys"
\* (rate_limit.py:1, 9).
NoImmortalKey ==
  \A w \in Windows : count[w] > 0 /\ expire_at[w] = NULL =>
    \E c \in Calls : pc[c] = "expiring" /\ WindowOf(read_at[c]) = w

\* No counter is immortal by an interleaving of calls, however many count
\* before the EXPIRE of the first: only a call of its window that crashed
\* leaves it without a time to live (rate_limit.py:18-20).
ImmortalByCrash ==
  \A w \in Windows : count[w] > 0 /\ expire_at[w] = NULL =>
    \E c \in Calls : pc[c] \in {"expiring", "crashed"} /\ WindowOf(read_at[c]) = w
=============================================================================
