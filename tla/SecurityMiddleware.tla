-------------------------- MODULE SecurityMiddleware --------------------------
(***************************************************************************)
(* One HTTP request on its way through SecurityMiddleware (middleware.py): *)
(* the server below it delivers the body in pieces of any size, whatever   *)
(* Content-Length said; the application above it reads as much as it likes,*)
(* answers when it likes, and may swallow the exception that stops it      *)
(* reading (FastAPI turns it into a 400 of its own when it parses a body). *)
(* Around all of them Starlette's ServerErrorMiddleware answers 500 to an  *)
(* exception that nobody handled, unless a response has begun.             *)
(***************************************************************************)
EXTENDS Naturals

CONSTANTS
  MaxBody,    \* settings.max_request_body_bytes
  Sizes,      \* sizes of the pieces in which a body arrives
  MaxSent,    \* bound: bytes a client sends
  MaxReads    \* bound: messages the application reads

ASSUME BodyAssumption ==
  MaxBody \in Nat \ {0} /\ Sizes \subseteq Nat /\ MaxSent \in Nat /\ MaxReads \in Nat

VARIABLES
  declared,   \* Content-Length: "none", "malformed", or what it says of MaxBody
  sent,       \* bytes that the server has handed to limited_receive
  complete,   \* the server has handed over the last piece
  consumed,   \* limited_receive's count
  taken,      \* history: bytes that reached the application
  whole,      \* the application has been told that the body is complete
  reads,      \* history: messages read
  app,        \* "idle", "running", "stopped" (RequestBodyTooLarge was raised
              \* into it), and how it ended: "returned", "too_large", "failed"
  response_started,
  starts,     \* history: responses begun on the wire, by whichever layer
  ended       \* the call of the whole stack has returned or raised

readVars == <<sent, complete, consumed, taken, whole, reads>>
sendVars == <<response_started, starts>>
vars == <<declared, readVars, app, sendVars, ended>>

Lengths == {"none", "malformed", "small", "large"}

Init ==
  /\ declared \in Lengths
  /\ sent = 0 /\ complete = FALSE /\ consumed = 0 /\ taken = 0 /\ whole = FALSE /\ reads = 0
  /\ app = "idle"
  /\ response_started = FALSE /\ starts = 0
  /\ ended = FALSE

Refusable == declared \in {"malformed", "large"}

\* __call__ refuses on the header alone.
RejectHeader ==
  /\ app = "idle" /\ ~ended
  /\ Refusable
  /\ starts' = starts + 1
  /\ ended' = TRUE
  /\ UNCHANGED <<declared, readVars, app, response_started>>

\* __call__ calls the application.
Call ==
  /\ app = "idle" /\ ~ended
  /\ ~Refusable
  /\ app' = "running"
  /\ UNCHANGED <<declared, readVars, sendVars, ended>>

\* Mutant: Content-Length counts, and the pieces once more.
CountTwice(n) == consumed + 2 * n

\* Mutant: the piece that went over the limit is not counted.
CountIfFits(n) == IF consumed + n > MaxBody THEN consumed ELSE consumed + n

Counted(n) == consumed + n

\* limited_receive: a piece of n bytes, perhaps the last one.  It is counted
\* even when it goes over the limit, so that nothing can follow it.
Receive(n, last) ==
  /\ app \in {"running", "stopped"} /\ ~complete
  /\ reads < MaxReads /\ sent + n <= MaxSent
  /\ reads' = reads + 1
  /\ sent' = sent + n /\ complete' = last
  /\ consumed' = Counted(n)
  /\ IF Counted(n) > MaxBody
     THEN app' = "stopped" /\ UNCHANGED <<taken, whole>>
     ELSE app' = "running" /\ taken' = taken + n /\ whole' = last
  /\ UNCHANGED <<declared, sendVars, ended>>

\* secure_send: the application begins its response, once.
Respond ==
  /\ app \in {"running", "stopped"}
  /\ ~response_started
  /\ response_started' = TRUE
  /\ starts' = starts + 1
  /\ app' = "running"        \* whatever it was stopped by, it has handled it
  /\ UNCHANGED <<declared, readVars, ended>>

\* The application returns, having answered, ...
Return ==
  /\ app = "running" /\ response_started
  /\ app' = "returned" /\ ended' = TRUE
  /\ UNCHANGED <<declared, readVars, sendVars>>

\* ... or lets the exception that stopped it pass, or raises another.
Raise ==
  /\ app \in {"running", "stopped"}
  /\ \/ app = "stopped" /\ app' = "too_large"
     \/ app' = "failed"
  /\ UNCHANGED <<declared, readVars, sendVars, ended>>

\* Mutant: the response is refused in any case.
AlwaysFree == TRUE

NotBegun == ~response_started

\* The except clause of __call__: 413 if the response has not begun.  That the
\* server's send fails under the rejection is left out.
RejectBody ==
  /\ app = "too_large" /\ ~ended
  /\ NotBegun
  /\ starts' = starts + 1
  /\ ended' = TRUE
  /\ UNCHANGED <<declared, readVars, app, response_started>>

\* Any other exception, and that one once the response has begun, go on to
\* ServerErrorMiddleware, which does not answer twice, and raises again.
Escape ==
  /\ ~ended
  /\ app = "failed" \/ (app = "too_large" /\ ~NotBegun)
  /\ starts' = IF starts = 0 THEN 1 ELSE starts
  /\ ended' = TRUE
  /\ UNCHANGED <<declared, readVars, app, response_started>>

\* A request that has ended stays so.
Done == ended /\ UNCHANGED vars

Next ==
  \/ RejectHeader \/ Call
  \/ \E n \in Sizes, last \in BOOLEAN : Receive(n, last)
  \/ Respond \/ Return \/ Raise \/ RejectBody \/ Escape
  \/ Done

Spec == Init /\ [][Next]_vars

-----------------------------------------------------------------------------
(* Properties. *)

\* Every variable has its type.
TypeOK ==
  /\ declared \in Lengths
  /\ sent \in 0..MaxSent /\ consumed \in 0..MaxSent /\ taken \in 0..MaxSent
  /\ complete \in BOOLEAN /\ whole \in BOOLEAN /\ reads \in 0..MaxReads
  /\ app \in {"idle", "running", "stopped", "returned", "too_large", "failed"}
  /\ response_started \in BOOLEAN /\ ended \in BOOLEAN
  /\ starts \in Nat

\* The application never gets more than the limit, whatever Content-Length
\* said and however often it tries to read on after it was stopped; and a
\* body that it takes for complete is complete, and not the rest of one of
\* which it missed a piece (middleware.py:49-56, docs/api-reference.md:63).
BodyBounded ==
  /\ taken <= MaxBody
  /\ whole => complete /\ taken = sent

\* A request begins one response at most, whichever layer sends it, and none
\* ends without: the refusal of an oversized body never follows a response
\* that the application has begun, and an exception always leaves the client
\* with an answer (middleware.py:36-42, 75-78).
AnsweredOnce ==
  /\ starts <= 1
  /\ ended => starts = 1
=============================================================================
