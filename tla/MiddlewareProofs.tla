--------------------------- MODULE MiddlewareProofs ---------------------------
(***************************************************************************)
(* SecurityMiddleware for any limit, any pieces and any application.       *)
(***************************************************************************)
EXTENDS SecurityMiddleware, TLAPS

\* The two halves of TypeOK.
Numbers ==
  /\ sent \in 0..MaxSent /\ consumed \in 0..MaxSent /\ taken \in 0..MaxSent
  /\ reads \in 0..MaxReads
  /\ starts \in Nat

Flags ==
  /\ declared \in Lengths
  /\ app \in {"idle", "running", "stopped", "returned", "too_large", "failed"}
  /\ complete \in BOOLEAN /\ whole \in BOOLEAN
  /\ response_started \in BOOLEAN /\ ended \in BOOLEAN

\* limited_receive counts every byte, also those it does not pass on; what it
\* has passed on is everything as long as the count is within the limit.
CountInv ==
  /\ consumed = sent
  /\ taken <= sent /\ taken <= MaxBody
  /\ sent <= MaxBody => taken = sent
  /\ whole => complete /\ taken = sent

\* As long as the request goes on, only the application can have begun a
\* response, and response_started knows.
AnswerInv ==
  /\ app \in {"running", "stopped"} => ~ended
  /\ app = "idle" => ~response_started
  /\ ~ended /\ ~response_started => starts = 0
  /\ ~ended /\ response_started => starts = 1
  /\ ended => starts = 1

BodyInv == Numbers /\ Flags /\ CountInv /\ AnswerInv

LEMMA BodyInit == Init => BodyInv
<1> SUFFICES ASSUME Init PROVE BodyInv
  OBVIOUS
<1>1. Numbers /\ CountInv
  BY BodyAssumption DEF BodyAssumption, Init, Numbers, CountInv
<1>2. Flags
  BY Zenon DEF Init, Flags
<1>3. AnswerInv
  BY DEF Init, AnswerInv
<1> QED BY <1>1, <1>2, <1>3 DEF BodyInv

\* The flags keep their types.
LEMMA FlagsStep == Flags /\ [Next]_vars => Flags'
<1> SUFFICES ASSUME Flags, [Next]_vars PROVE Flags'
  OBVIOUS
<1> USE DEF Flags, readVars, sendVars
<1>1. CASE RejectHeader
  BY <1>1, Zenon DEF RejectHeader
<1>2. CASE Call
  BY <1>2, Zenon DEF Call
<1>3. ASSUME NEW n \in Sizes, NEW last \in BOOLEAN, Receive(n, last)
      PROVE  Flags'
  <2>1. app' \in {"running", "stopped"} /\ whole' \in BOOLEAN
    BY <1>3, Zenon DEF Receive
  <2> QED BY <1>3, <2>1, Zenon DEF Receive
<1>4. CASE Respond
  BY <1>4, Zenon DEF Respond
<1>5. CASE Return
  BY <1>5, Zenon DEF Return
<1>6. CASE Raise
  BY <1>6, Zenon DEF Raise
<1>7. CASE RejectBody
  BY <1>7, Zenon DEF RejectBody
<1>8. CASE Escape
  BY <1>8, Zenon DEF Escape
<1>9. CASE Done \/ UNCHANGED vars
  BY <1>9, Zenon DEF Done, vars
<1> QED BY <1>1, <1>2, <1>3, <1>4, <1>5, <1>6, <1>7, <1>8, <1>9 DEF Next

\* No step breaks the invariant: reading adds to both counts (middleware.py:53)
\* and each way to end a request sees whether a response has begun.
LEMMA BodyStep == BodyInv /\ [Next]_vars => BodyInv'
<1> SUFFICES ASSUME BodyInv, [Next]_vars PROVE BodyInv'
  OBVIOUS
<1>0. Flags'
  BY FlagsStep DEF BodyInv
<1> SUFFICES (Numbers /\ CountInv /\ AnswerInv)'
  BY <1>0 DEF BodyInv
<1> USE BodyAssumption DEF BodyAssumption, BodyInv, Numbers, Flags, CountInv, AnswerInv,
                           readVars, sendVars
<1>1. CASE RejectHeader
  BY <1>1 DEF RejectHeader
<1>2. CASE Call
  BY <1>2 DEF Call
<1>3. ASSUME NEW n \in Sizes, NEW last \in BOOLEAN, Receive(n, last)
      PROVE  (Numbers /\ CountInv /\ AnswerInv)'
  <2>1. n \in Nat /\ consumed' = consumed + n /\ sent' = sent + n /\ sent' <= MaxSent
    BY <1>3 DEF Receive, Counted
  <2>2. UNCHANGED <<response_started, starts, ended>> /\ ~ended
        /\ (complete' <=> last) /\ reads' \in 0..MaxReads /\ ~complete
    BY <1>3 DEF Receive
  <2>3. CASE consumed + n > MaxBody
    <3>1. app' = "stopped" /\ taken' = taken /\ (whole' <=> whole)
      BY <1>3, <2>3 DEF Receive, Counted
    <3> QED BY <2>1, <2>2, <2>3, <3>1
  <2>4. CASE consumed + n <= MaxBody
    <3>1. app' = "running" /\ taken' = taken + n /\ (whole' <=> last)
      BY <1>3, <2>1, <2>4 DEF Receive, Counted
    <3>2. taken = sent
      BY <2>1, <2>4
    <3> QED BY <2>1, <2>2, <2>4, <3>1, <3>2
  <2> QED BY <2>1, <2>3, <2>4
<1>4. CASE Respond
  BY <1>4 DEF Respond
<1>5. CASE Return
  BY <1>5 DEF Return
<1>6. CASE Raise
  BY <1>6 DEF Raise
<1>7. CASE RejectBody
  BY <1>7 DEF RejectBody, NotBegun
<1>8. CASE Escape
  BY <1>8 DEF Escape, NotBegun
<1>9. CASE Done \/ UNCHANGED vars
  BY <1>9 DEF Done, vars
<1> QED BY <1>1, <1>2, <1>3, <1>4, <1>5, <1>6, <1>7, <1>8, <1>9 DEF Next

LEMMA BodyAlways == Spec => []BodyInv
  BY BodyInit, BodyStep, PTL DEF Spec

\* Types hold for every instance; in particular no more bytes are counted than
\* were sent (middleware.py:44-56).
THEOREM BodyTypeCorrect == Spec => []TypeOK
<1>1. BodyInv => TypeOK
  BY Zenon DEF BodyInv, Numbers, Flags, TypeOK
<1> QED BY <1>1, BodyAlways, PTL

\* The application reads no more than the limit, whatever the client declares
\* and however the pieces are cut, also when it reads on after it was stopped
\* (middleware.py:49-56).
THEOREM BodyBoundedSafe == Spec => []BodyBounded
<1>1. BodyInv => BodyBounded
  BY DEF BodyInv, CountInv, BodyBounded
<1> QED BY <1>1, BodyAlways, PTL

\* Every request that ends has begun one response, and none begins two
\* (middleware.py:36-42, 75-78).
THEOREM AnsweredOnceSafe == Spec => []AnsweredOnce
<1>1. BodyInv => AnsweredOnce
  BY DEF BodyInv, Flags, AnswerInv, AnsweredOnce
<1> QED BY <1>1, BodyAlways, PTL
=============================================================================
