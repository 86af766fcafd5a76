--------------------------- MODULE RequestContract ---------------------------
(***************************************************************************)
(* What the gateway promises about one chat request, whatever the queue    *)
(* does inside: at-least-once delivery to workers, with a bounded number   *)
(* of deliveries; at most one answer, which never changes once given; the  *)
(* tokens of that answer, and of no other attempt, billed to the caller;   *)
(* and a settled request (answered or failed) never reopened.              *)
(*                                                                         *)
(* docs/security.md, "Correctness boundary", and docs/phase-1-decisions.md *)
(* item 4 state this promise; RequestQueue implements it.                  *)
(***************************************************************************)
EXTENDS Naturals

CONSTANTS
  Requests,       \* requests a client may have accepted
  Results,        \* answers a worker may give
  Amounts,        \* token counts an answer may be billed for
  MaxDeliveries,  \* how often one request may be handed to a worker
  NULL            \* "no answer"

VARIABLES
  phase,          \* phase[r]: where request r stands for its client
  attempts,       \* attempts[r]: deliveries of r to a worker so far
  answer,         \* answer[r]: the committed answer of r, or NULL
  billed          \* billed[r]: tokens billed for r

vars == <<phase, attempts, answer, billed>>

Phases == {"unsubmitted", "pending", "answered", "failed"}

TypeOK ==
  /\ phase \in [Requests -> Phases]
  /\ attempts \in [Requests -> 0..MaxDeliveries]
  /\ answer \in [Requests -> Results \cup {NULL}]
  /\ billed \in [Requests -> Amounts \cup {0}]

Init ==
  /\ phase = [r \in Requests |-> "unsubmitted"]
  /\ attempts = [r \in Requests |-> 0]
  /\ answer = [r \in Requests |-> NULL]
  /\ billed = [r \in Requests |-> 0]

\* The client's request is accepted.
Submit(r) ==
  /\ phase[r] = "unsubmitted"
  /\ phase' = [phase EXCEPT ![r] = "pending"]
  /\ UNCHANGED <<attempts, answer, billed>>

\* The request is handed to a worker, perhaps not for the first time.
Deliver(r) ==
  /\ phase[r] = "pending"
  /\ attempts[r] < MaxDeliveries
  /\ attempts' = [attempts EXCEPT ![r] = @ + 1]
  /\ UNCHANGED <<phase, answer, billed>>

\* One delivered attempt's answer becomes the answer, and is billed.
Answer(r, v, n) ==
  /\ phase[r] = "pending"
  /\ attempts[r] > 0
  /\ phase' = [phase EXCEPT ![r] = "answered"]
  /\ answer' = [answer EXCEPT ![r] = v]
  /\ billed' = [billed EXCEPT ![r] = n]
  /\ UNCHANGED attempts

\* Any number of pending requests are given up at once; nothing is billed.
GiveUp(S) ==
  /\ \A r \in S : phase[r] = "pending"
  /\ phase' = [r \in Requests |-> IF r \in S THEN "failed" ELSE phase[r]]
  /\ UNCHANGED <<attempts, answer, billed>>

Next ==
  \/ \E r \in Requests : Submit(r) \/ Deliver(r)
  \/ \E r \in Requests, v \in Results, n \in Amounts : Answer(r, v, n)
  \/ \E S \in SUBSET Requests : GiveUp(S)

Spec == Init /\ [][Next]_vars
=============================================================================
