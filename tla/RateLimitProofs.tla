--------------------------- MODULE RateLimitProofs ---------------------------
(***************************************************************************)
(* RateLimit for any limit, any number of calls and windows of any length. *)
(* What has to be shown is that no call counts in a window whose counter   *)
(* has gone: a counter that has a time to live outlives every call that    *)
(* has read the clock in its window.                                       *)
(***************************************************************************)
EXTENDS RateLimit, FiniteSetTheorems, TLAPS

Types ==
  /\ now \in Times
  /\ pc \in [Calls -> {"idle", "counting", "expiring", "allowed", "refused", "crashed"}]
  /\ read_at \in [Calls -> Times]
  /\ count \in [Windows -> Nat]
  /\ expire_at \in [Windows -> Nat \cup {NULL}]
  /\ allowed \in [Windows -> SUBSET Calls]

\* The clock is read before it is used.
ReadBefore == \A c \in Calls : read_at[c] <= now

\* A time to live ends more than a minute after its window.
Outlives == \A w \in Windows, t \in Times :
              expire_at[w] # NULL /\ WindowOf(t) = w => t + Minute < expire_at[w]

\* No call can count in window w any more.
Closed(w) == \A t \in Times : WindowOf(t) = w => t + Minute < now

\* The calls allowed in a window are those that have counted, up to the limit,
\* as long as another may count; and the calls that wait for their count are
\* not among them.
Counted ==
  \A w \in Windows :
    /\ IsFiniteSet(allowed[w])
    /\ Cardinality(allowed[w]) <= RpmLimit
    /\ Closed(w) \/ Cardinality(allowed[w]) = IF count[w] <= RpmLimit THEN count[w] ELSE RpmLimit
    /\ \A c \in allowed[w] : pc[c] \notin {"idle", "counting"}

\* A call is refused by a window that is full, and so is one that may yet be.
Full ==
  \A c \in Calls :
    pc[c] = "refused" \/ (pc[c] = "expiring" /\ ~WithinLimit(1)) =>
      Cardinality(allowed[WindowOf(read_at[c])]) = RpmLimit

RateInv == Types /\ ReadBefore /\ Outlives /\ Counted /\ Full

\* Two times in one window are less than a window apart.
LEMMA SameWindow ==
  ASSUME NEW t \in Nat, NEW u \in Nat, t \div Minute = u \div Minute
  PROVE  t < u + Minute
<1>1. Minute \in Nat /\ Minute > 0
  BY RateAssumption
<1>2. PICK q : q = t \div Minute
  OBVIOUS
<1>3. q \in Int /\ q * Minute <= t /\ t < q * Minute + Minute
      /\ q * Minute <= u /\ u < q * Minute + Minute
  BY <1>1, <1>2
<1>4. q * Minute \in Int
  BY <1>1, <1>3
<1> QED BY <1>1, <1>3, <1>4

LEMMA WindowIsOne == \A t \in Times : WindowOf(t) \in Windows /\ t \in Nat
BY RateAssumption DEF Windows, Times

LEMMA RateInit == Init => RateInv
<1> SUFFICES ASSUME Init PROVE RateInv
  OBVIOUS
<1>1. Types
  BY RateAssumption DEF Init, Types, Times
<1>2. ReadBefore /\ Outlives /\ Full
  BY DEF Init, ReadBefore, Outlives, Full
<1>3. Counted
  <2>1. IsFiniteSet({}) /\ Cardinality({}) = 0
    BY FS_EmptySet
  <2> QED BY <2>1, RateAssumption DEF Init, Counted
<1> QED BY <1>1, <1>2, <1>3 DEF RateInv

LEMMA RateStep == RateInv /\ [Next]_vars => RateInv'
<1> SUFFICES ASSUME RateInv, [Next]_vars PROVE RateInv'
  OBVIOUS
<1> USE RateAssumption DEF RateInv, Types
<1>1. ASSUME NEW c \in Calls, Start(c) PROVE RateInv'
  <2>1. Types' /\ Outlives'
    BY <1>1 DEF Start, Outlives
  <2>2. ReadBefore'
    BY <1>1 DEF Start, ReadBefore, Times
  <2>3. Counted'
    BY <1>1 DEF Start, Counted, Closed
  <2>4. Full'
    BY <1>1 DEF Start, Full
  <2> QED BY <2>1, <2>2, <2>3, <2>4
<1>2. ASSUME NEW c \in Calls, Incr(c) PROVE RateInv'
  <2>1. PICK w \in Windows : w = WindowOf(read_at[c])
    BY WindowIsOne
  <2>2. PICK n \in Nat : n = count[w] + 1
    OBVIOUS
  <2>3. /\ pc[c] = "counting" /\ now <= read_at[c] + MaxStall
        /\ count' = [count EXCEPT ![w] = n]
        /\ allowed' = IF WithinLimit(n) THEN [allowed EXCEPT ![w] = @ \cup {c}] ELSE allowed
        /\ pc' = [pc EXCEPT ![c] = IF n = 1 THEN "expiring"
                                   ELSE IF WithinLimit(n) THEN "allowed" ELSE "refused"]
        /\ UNCHANGED <<now, read_at, expire_at>>
    BY <1>2, <2>1, <2>2 DEF Incr
  <2>4. Types' /\ ReadBefore' /\ Outlives'
    BY <2>3 DEF ReadBefore, Outlives
  <2>5. ~Closed(w)
    <3>1. read_at[c] \in Times /\ ~(read_at[c] + Minute < now)
      BY <2>3 DEF Times
    <3> QED BY <2>1, <3>1 DEF Closed
  <2>6. /\ IsFiniteSet(allowed[w]) /\ Cardinality(allowed[w]) \in Nat /\ c \notin allowed[w]
        /\ Cardinality(allowed[w]) = IF count[w] <= RpmLimit THEN count[w] ELSE RpmLimit
    <3>1. IsFiniteSet(allowed[w])
      BY DEF Counted
    <3> QED BY <2>3, <2>5, <3>1, FS_CardinalityType DEF Counted
  <2>7. /\ IsFiniteSet(allowed'[w])
        /\ Cardinality(allowed'[w]) = IF n <= RpmLimit THEN n ELSE RpmLimit
    <3>1. CASE WithinLimit(n)
      <4>1. allowed'[w] = allowed[w] \cup {c}
        BY <2>3, <3>1
      <4>2. IsFiniteSet(allowed[w] \cup {c})
            /\ Cardinality(allowed[w] \cup {c}) = Cardinality(allowed[w]) + 1
        BY <2>6, FS_AddElement
      <4> QED BY <2>2, <2>6, <3>1, <4>1, <4>2 DEF WithinLimit
    <3>2. CASE ~WithinLimit(n)
      BY <2>2, <2>3, <2>6, <3>2 DEF WithinLimit
    <3> QED BY <3>1, <3>2
  <2>8. \A v \in Windows \ {w} : allowed'[v] = allowed[v] /\ count'[v] = count[v]
    BY <2>3
  <2>9. Counted'
    <3>1. ASSUME NEW v \in Windows
          PROVE  \A d \in allowed'[v] : pc'[d] \notin {"idle", "counting"}
      BY <2>3, <3>1 DEF Counted
    <3>2. count'[w] = n
      BY <2>3
    <3>3. \A v \in Windows : Closed(v)' <=> Closed(v)
      BY <2>3 DEF Closed
    <3> QED BY <2>2, <2>7, <2>8, <3>1, <3>2, <3>3 DEF Counted
  <2>10. Full'
    <3> SUFFICES ASSUME NEW d \in Calls,
                        pc'[d] = "refused" \/ (pc'[d] = "expiring" /\ ~WithinLimit(1))
                 PROVE  Cardinality(allowed'[WindowOf(read_at'[d])]) = RpmLimit
      BY DEF Full, WithinLimit
    <3>1. CASE d = c
      BY <2>1, <2>2, <2>3, <2>7, <3>1 DEF WithinLimit
    <3>2. CASE d # c
      <4>1. Cardinality(allowed[WindowOf(read_at[d])]) = RpmLimit
        BY <2>3, <3>2 DEF Full
      <4>2. CASE WindowOf(read_at[d]) = w
        BY <2>2, <2>3, <2>6, <2>7, <4>1, <4>2
      <4>3. CASE WindowOf(read_at[d]) # w
        BY <2>3, <2>8, <4>1, <4>3, WindowIsOne
      <4> QED BY <4>2, <4>3
    <3> QED BY <3>1, <3>2
  <2> QED BY <2>4, <2>9, <2>10
<1>3. ASSUME NEW c \in Calls, Expire(c) PROVE RateInv'
  <2>1. PICK w \in Windows : w = WindowOf(read_at[c])
    BY WindowIsOne
  <2>2. /\ pc[c] = "expiring"
        /\ expire_at' = [expire_at EXCEPT ![w] = now + 2 * Minute]
        /\ pc' = [pc EXCEPT ![c] = IF WithinLimit(1) THEN "allowed" ELSE "refused"]
        /\ UNCHANGED <<now, read_at, count, allowed>>
    BY <1>3, <2>1 DEF Expire, KeyTtl
  <2>3. Types'
    BY <2>2 DEF Times
  <2>4. Outlives'
    <3> SUFFICES ASSUME NEW v \in Windows, NEW t \in Times, expire_at'[v] # NULL, WindowOf(t) = v
                 PROVE  t + Minute < expire_at'[v]
      BY DEF Outlives
    <3>1. CASE v = w
      <4>1. t < read_at[c] + Minute
        BY <2>1, <3>1, SameWindow, WindowIsOne DEF WindowOf
      <4> QED BY <2>2, <3>1, <4>1 DEF ReadBefore, Times
    <3>2. CASE v # w
      BY <2>2, <3>2 DEF Outlives
    <3> QED BY <3>1, <3>2
  <2>5. ReadBefore' /\ Counted'
    BY <2>2 DEF ReadBefore, Counted, Closed
  <2>6. Full'
    BY <2>2 DEF Full, WithinLimit
  <2> QED BY <2>3, <2>4, <2>5, <2>6
<1>4. ASSUME NEW c \in Calls, Crash(c) PROVE RateInv'
  <2>1. Types' /\ Outlives' /\ ReadBefore'
    BY <1>4 DEF Crash, Outlives, ReadBefore
  <2>2. Counted' /\ Full'
    BY <1>4 DEF Crash, Counted, Closed, Full
  <2> QED BY <2>1, <2>2
<1>5. CASE Tick
  <2>1. /\ now' = now + 1 /\ now' \in Times
        /\ count' = [w \in Windows |-> IF Expired(w, now + 1) THEN 0 ELSE count[w]]
        /\ expire_at' = [w \in Windows |-> IF Expired(w, now + 1) THEN NULL ELSE expire_at[w]]
        /\ UNCHANGED <<pc, read_at, allowed>>
    BY <1>5 DEF Tick, Times
  <2>2. Types' /\ ReadBefore'
    BY <2>1 DEF ReadBefore, Times
  <2>3. Outlives'
    BY <2>1 DEF Outlives
  <2>4. Counted'
    <3>1. ASSUME NEW w \in Windows
          PROVE  Closed(w)' \/ Cardinality(allowed[w]) = IF count'[w] <= RpmLimit THEN count'[w] ELSE RpmLimit
      <4>1. CASE Expired(w, now + 1)
        <5>1. \A t \in Times : WindowOf(t) = w => t + Minute < now'
          BY <2>1, <4>1 DEF Expired, Outlives, Times
        <5> QED BY <5>1 DEF Closed
      <4>2. CASE Closed(w)
        <5>1. \A t \in Times : WindowOf(t) = w => t + Minute < now'
          BY <2>1, <4>2 DEF Closed, Times
        <5> QED BY <5>1 DEF Closed
      <4>3. CASE ~Expired(w, now + 1) /\ ~Closed(w)
        BY <2>1, <4>3 DEF Counted
      <4> QED BY <4>1, <4>2, <4>3
    <3> QED BY <2>1, <3>1 DEF Counted
  <2>5. Full'
    BY <2>1 DEF Full
  <2> QED BY <2>2, <2>3, <2>4, <2>5
<1>6. CASE UNCHANGED vars
  BY <1>6 DEF vars, ReadBefore, Outlives, Counted, Closed, Full
<1> QED BY <1>1, <1>2, <1>3, <1>4, <1>5, <1>6 DEF Next

LEMMA RateAlways == Spec => []RateInv
BY RateInit, RateStep, PTL DEF Spec

\* No window admits more calls than its limit, however late calls count, and
\* though counters expire (rate_limit.py:14-21): it rests on a time to live
\* of two windows and on no call stalling longer than one.
THEOREM WindowLimitSafe == Spec => []WindowLimit
<1>1. RateInv => WindowLimit
  BY DEF RateInv, Counted, WindowLimit
<1> QED BY <1>1, RateAlways, PTL

\* No call is refused before its window's limit is used up
\* (rate_limit.py:18-21).
THEOREM RefusedAtLimitSafe == Spec => []RefusedAtLimit
<1>1. RateInv => RefusedAtLimit
  BY RateAssumption DEF RateInv, Full, RefusedAtLimit
<1> QED BY <1>1, RateAlways, PTL

-----------------------------------------------------------------------------
(* Types: a call waits to set a time to live only for a key that it has    *)
(* created, that is there and that has none, and a counter counts no call  *)
(* twice.                                                                  *)

\* The calls that may have counted in window w.
Past(w) == {c \in Calls : WindowOf(read_at[c]) = w /\ pc[c] \notin {"idle", "counting"}}

Keys ==
  /\ \A w \in Windows : count[w] = 0 => expire_at[w] = NULL
  /\ \A w \in Windows : expire_at[w] \in 0..(MaxTime + 2 * Minute) \cup {NULL}
  /\ \A w \in Windows : count[w] <= Cardinality(Past(w))
  /\ \A c \in Calls : pc[c] = "expiring" =>
       /\ count[WindowOf(read_at[c])] > 0 /\ expire_at[WindowOf(read_at[c])] = NULL
       /\ \A d \in Calls : pc[d] = "expiring" /\ WindowOf(read_at[d]) = WindowOf(read_at[c]) => d = c

LEMMA PastFinite ==
  ASSUME NEW w \in Windows
  PROVE  /\ IsFiniteSet(Past(w)) /\ Cardinality(Past(w)) \in Nat
         /\ Cardinality(Past(w)) <= Cardinality(Calls) /\ Cardinality(Calls) \in Nat
<1>1. Past(w) \subseteq Calls
  BY DEF Past
<1> QED BY <1>1, RateAssumption, FS_Subset, FS_CardinalityType

\* A step after which no call has less of a past.
LEMMA PastGrows ==
  ASSUME NEW w \in Windows, Past(w) \subseteq Past(w)', IsFiniteSet(Past(w)')
  PROVE  Cardinality(Past(w)) <= Cardinality(Past(w)')
BY FS_Subset

LEMMA KeysStep == ASSUME RateInv, RateInv', Keys, [Next]_vars PROVE Keys'
<1> USE RateAssumption DEF RateInv, Types
<1>0. \A w \in Windows : IsFiniteSet(Past(w)') /\ Cardinality(Past(w)') \in Nat /\ Cardinality(Past(w)) \in Nat
  <2> SUFFICES ASSUME NEW w \in Windows
               PROVE  IsFiniteSet(Past(w)') /\ Cardinality(Past(w)') \in Nat /\ Cardinality(Past(w)) \in Nat
    OBVIOUS
  <2>1. Past(w)' \subseteq Calls
    BY DEF Past
  <2>2. IsFiniteSet(Past(w)') /\ Cardinality(Past(w)') \in Nat
    BY <2>1, FS_Subset, FS_CardinalityType
  <2> QED BY <2>2, PastFinite
<1>1. ASSUME NEW c \in Calls, Start(c) \/ Crash(c) PROVE Keys'
  <2>1. ASSUME NEW w \in Windows PROVE Cardinality(Past(w)) <= Cardinality(Past(w)')
    <3>1. Past(w) \subseteq Past(w)'
      BY <1>1 DEF Start, Crash, Past
    <3> QED BY <1>0, <3>1, PastGrows
  <2>2. UNCHANGED <<count, expire_at>>
    BY <1>1 DEF Start, Crash
  <2>3. \A w \in Windows : count'[w] <= Cardinality(Past(w)')
    BY <1>0, <2>1, <2>2 DEF Keys
  <2>4. \A d \in Calls : pc'[d] = "expiring" => pc[d] = "expiring" /\ read_at'[d] = read_at[d]
    BY <1>1 DEF Start, Crash
  <2> QED BY <2>2, <2>3, <2>4 DEF Keys
<1>2. ASSUME NEW c \in Calls, Incr(c) PROVE Keys'
  <2>1. PICK w \in Windows : w = WindowOf(read_at[c])
    BY WindowIsOne
  <2>2. PICK n \in Nat : n = count[w] + 1
    OBVIOUS
  <2>3. /\ pc[c] = "counting" /\ count' = [count EXCEPT ![w] = n]
        /\ pc' = [pc EXCEPT ![c] = IF n = 1 THEN "expiring"
                                   ELSE IF WithinLimit(n) THEN "allowed" ELSE "refused"]
        /\ UNCHANGED <<now, read_at, expire_at>>
    BY <1>2, <2>1, <2>2 DEF Incr
  <2>4. \A v \in Windows : Past(v) \subseteq Past(v)'
    BY <2>3 DEF Past
  <2>5. c \notin Past(w) /\ Past(w)' = Past(w) \cup {c}
    BY <2>1, <2>3 DEF Past
  <2>6. Cardinality(Past(w)') = Cardinality(Past(w)) + 1
    BY <2>5, PastFinite, FS_AddElement
  <2>7. ASSUME NEW v \in Windows PROVE count'[v] <= Cardinality(Past(v)')
    <3>1. CASE v = w
      BY <1>0, <2>2, <2>3, <2>6, <3>1 DEF Keys
    <3>2. CASE v # w
      <4>1. Cardinality(Past(v)) <= Cardinality(Past(v)')
        BY <1>0, <2>4, PastGrows
      <4> QED BY <1>0, <2>3, <3>2, <4>1 DEF Keys
    <3> QED BY <3>1, <3>2
  <2>8. \A v \in Windows : count'[v] = 0 => count[v] = 0
    BY <2>2, <2>3
  <2>9. ASSUME NEW d \in Calls, pc'[d] = "expiring"
        PROVE  /\ count'[WindowOf(read_at'[d])] > 0 /\ expire_at'[WindowOf(read_at'[d])] = NULL
               /\ \A e \in Calls : pc'[e] = "expiring" /\ WindowOf(read_at'[e]) = WindowOf(read_at'[d]) => e = d
    <3>1. CASE d = c
      <4>1. n = 1 /\ count[w] = 0 /\ count'[w] = 1
        BY <2>2, <2>3, <2>9, <3>1
      <4>2. \A e \in Calls \ {c} : pc'[e] = "expiring" => pc[e] = "expiring"
        BY <2>3
      <4>3. \A e \in Calls \ {c} : pc'[e] = "expiring" => WindowOf(read_at[e]) # w
        BY <4>1, <4>2 DEF Keys
      <4>4. expire_at'[w] = NULL /\ WindowOf(read_at'[d]) = w
        BY <2>1, <2>3, <3>1, <4>1 DEF Keys
      <4>5. \A e \in Calls : pc'[e] = "expiring" /\ WindowOf(read_at'[e]) = w => e = c
        BY <2>3, <4>3
      <4> QED BY <3>1, <4>1, <4>4, <4>5
    <3>2. CASE d # c
      <4>1. pc[d] = "expiring" /\ count[WindowOf(read_at[d])] > 0
        BY <2>3, <2>9, <3>2 DEF Keys
      <4>2. count'[WindowOf(read_at[d])] > 0
        BY <2>2, <2>3, <4>1, WindowIsOne
      <4>3. pc'[c] = "expiring" => WindowOf(read_at[d]) # w
        BY <2>2, <2>3, <4>1
      <4> QED BY <2>1, <2>3, <4>1, <4>2, <4>3 DEF Keys
    <3> QED BY <3>1, <3>2
  <2> QED BY <2>3, <2>7, <2>8, <2>9 DEF Keys
<1>3. ASSUME NEW c \in Calls, Expire(c) PROVE Keys'
  <2>1. PICK w \in Windows : w = WindowOf(read_at[c])
    BY WindowIsOne
  <2>2. PICK x \in 0..(MaxTime + 2 * Minute) : x = now + 2 * Minute
    BY DEF Times
  <2>3. /\ pc[c] = "expiring" /\ expire_at' = [expire_at EXCEPT ![w] = x]
        /\ pc' = [pc EXCEPT ![c] = IF WithinLimit(1) THEN "allowed" ELSE "refused"]
        /\ UNCHANGED <<now, read_at, count>>
    BY <1>3, <2>1, <2>2 DEF Expire, KeyTtl
  <2>5. count[w] # 0 /\ \A d \in Calls \ {c} : pc[d] = "expiring" => WindowOf(read_at[d]) # w
    BY <2>1, <2>3 DEF Keys
  <2>6. ASSUME NEW v \in Windows
        PROVE  /\ count'[v] = 0 => expire_at'[v] = NULL
               /\ expire_at'[v] \in 0..(MaxTime + 2 * Minute) \cup {NULL}
               /\ count'[v] <= Cardinality(Past(v)')
    <3>1. Past(v)' = Past(v)
      BY <2>3 DEF Past
    <3> QED BY <2>3, <2>5, <3>1 DEF Keys
  <2>7. \A d \in Calls : pc'[d] = "expiring" => d # c /\ pc[d] = "expiring"
    BY <2>3
  <2>8. ASSUME NEW d \in Calls, pc'[d] = "expiring"
        PROVE  /\ count'[WindowOf(read_at'[d])] > 0 /\ expire_at'[WindowOf(read_at'[d])] = NULL
               /\ \A e \in Calls : pc'[e] = "expiring" /\ WindowOf(read_at'[e]) = WindowOf(read_at'[d]) => e = d
    <3>1. PICK v \in Windows : v = WindowOf(read_at[d])
      BY WindowIsOne
    <3>2. d # c /\ pc[d] = "expiring" /\ v # w
      BY <2>5, <2>7, <2>8, <3>1
    <3>3. count'[v] > 0 /\ expire_at'[v] = NULL
      BY <2>3, <3>1, <3>2 DEF Keys
    <3> QED BY <2>3, <2>7, <3>1, <3>2, <3>3 DEF Keys
  <2> QED BY <2>3, <2>6, <2>8 DEF Keys
<1>4. CASE Tick
  <2>1. /\ now' = now + 1 /\ now' \in Times
        /\ count' = [w \in Windows |-> IF Expired(w, now + 1) THEN 0 ELSE count[w]]
        /\ expire_at' = [w \in Windows |-> IF Expired(w, now + 1) THEN NULL ELSE expire_at[w]]
        /\ UNCHANGED <<pc, read_at>>
    BY <1>4 DEF Tick, Times
  <2>2. \A v \in Windows : Past(v)' = Past(v)
    BY <2>1 DEF Past
  <2>3. \A v \in Windows : count'[v] <= Cardinality(Past(v)')
    BY <1>0, <2>1, <2>2 DEF Keys
  <2> QED BY <2>1, <2>3, WindowIsOne DEF Keys, Expired
<1>5. CASE UNCHANGED vars
  BY <1>5 DEF vars, Keys, Past
<1> QED BY <1>1, <1>2, <1>3, <1>4, <1>5 DEF Next

\* Counters count no call twice, a key that is gone has no time to live left,
\* and EXPIRE always finds the key that the INCR before it created
\* (rate_limit.py:18-20).
THEOREM RateTypeCorrect == Spec => []TypeOK
<1>1. Init => Keys
  <2> SUFFICES ASSUME Init PROVE Keys
    OBVIOUS
  <2>1. \A w \in Windows : Cardinality(Past(w)) \in Nat
    BY PastFinite
  <2> QED BY <2>1 DEF Init, Keys
<1>2. RateInv /\ RateInv' /\ Keys /\ [Next]_vars => Keys'
  BY KeysStep
<1>3. RateInv /\ Keys => TypeOK
  <2> SUFFICES ASSUME RateInv, Keys PROVE TypeOK
    OBVIOUS
  <2>1. \A w \in Windows : count[w] \in 0..Cardinality(Calls)
    BY PastFinite DEF Keys, RateInv, Types
  <2> QED BY <2>1 DEF TypeOK, Keys, RateInv, Types
<1> QED BY <1>1, <1>2, <1>3, RateAlways, PTL DEF Spec

-----------------------------------------------------------------------------
(* Keys without a time to live. *)

LEMMA ImmortalStep == ASSUME Types, ImmortalByCrash, [Next]_vars PROVE ImmortalByCrash'
<1> USE DEF Types
<1> SUFFICES ASSUME NEW w \in Windows, count'[w] > 0, expire_at'[w] = NULL
             PROVE  \E c \in Calls : pc'[c] \in {"expiring", "crashed"} /\ WindowOf(read_at'[c]) = w
  BY DEF ImmortalByCrash
<1>1. count[w] > 0 /\ expire_at[w] = NULL =>
        \E c \in Calls : pc[c] \in {"expiring", "crashed"} /\ WindowOf(read_at[c]) = w
  BY DEF ImmortalByCrash
<1>2. ASSUME NEW d \in Calls, Start(d) \/ Crash(d)
      PROVE  \E c \in Calls : pc'[c] \in {"expiring", "crashed"} /\ WindowOf(read_at'[c]) = w
  BY <1>1, <1>2 DEF Start, Crash
<1>3. ASSUME NEW d \in Calls, Incr(d)
      PROVE  \E c \in Calls : pc'[c] \in {"expiring", "crashed"} /\ WindowOf(read_at'[c]) = w
  <2>1. PICK v \in Windows : v = WindowOf(read_at[d])
    BY WindowIsOne
  <2>2. PICK n \in Nat : n = count[v] + 1
    OBVIOUS
  <2>3. /\ pc[d] = "counting" /\ count' = [count EXCEPT ![v] = n]
        /\ pc' = [pc EXCEPT ![d] = IF n = 1 THEN "expiring"
                                   ELSE IF WithinLimit(n) THEN "allowed" ELSE "refused"]
        /\ UNCHANGED <<read_at, expire_at>>
    BY <1>3, <2>1, <2>2 DEF Incr
  <2>4. CASE v = w /\ n = 1
    BY <2>1, <2>3, <2>4
  <2>5. CASE ~(v = w /\ n = 1)
    <3>1. count[w] > 0
      BY <2>2, <2>3, <2>5
    <3> QED BY <1>1, <2>3, <3>1
  <2> QED BY <2>4, <2>5
<1>4. ASSUME NEW d \in Calls, Expire(d)
      PROVE  \E c \in Calls : pc'[c] \in {"expiring", "crashed"} /\ WindowOf(read_at'[c]) = w
  <2>1. PICK v \in Windows : v = WindowOf(read_at[d])
    BY WindowIsOne
  <2>2. PICK x \in Nat : x = now + KeyTtl
    BY RateAssumption DEF Times, KeyTtl
  <2>3. /\ expire_at' = [expire_at EXCEPT ![v] = x]
        /\ \A c \in Calls \ {d} : pc'[c] = pc[c]
        /\ UNCHANGED <<read_at, count>>
    BY <1>4, <2>1, <2>2 DEF Expire
  <2>4. v # w
    BY <2>2, <2>3, RateAssumption
  <2> QED BY <1>1, <2>1, <2>3, <2>4
<1>5. CASE Tick
  BY <1>1, <1>5 DEF Tick
<1>6. CASE UNCHANGED vars
  BY <1>1, <1>6 DEF vars
<1> QED BY <1>2, <1>3, <1>4, <1>5, <1>6 DEF Next

\* INCR and EXPIRE are two commands, and that is all that is wrong with them:
\* without a crash between them every key gets its time to live
\* (rate_limit.py:18-20).
THEOREM ImmortalByCrashSafe == Spec => []ImmortalByCrash
<1>1. Init => ImmortalByCrash
  BY DEF Init, ImmortalByCrash
<1>2. RateInv /\ ImmortalByCrash /\ [Next]_vars => ImmortalByCrash'
  BY ImmortalStep DEF RateInv
<1> QED BY <1>1, <1>2, RateAlways, PTL DEF Spec
=============================================================================
