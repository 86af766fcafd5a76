----------------------------- MODULE TokenLedger -----------------------------
(***************************************************************************)
(* The books of the gateway as its clients and its operators understand    *)
(* them: a request reserves its ceiling of its project's tokens if the     *)
(* project's limit allows it, and later gives the reservation back, for    *)
(* the tokens it used if it was answered.  Each of these happens at once:  *)
(* "check and reserve", "replace the reservation and bill".  RowLocks,     *)
(* which does the same statement by statement, implements it, and so do    *)
(* the books that RequestQueue keeps for each day and each month.          *)
(***************************************************************************)
EXTENDS Integers, FiniteSets, TokenUnits

CONSTANTS
  Requests,    \* chat requests
  ApiKeys,     \* client API keys
  Projects,    \* projects that own the keys
  RequestKey,  \* RequestKey[r]: the key that request r is sent with
  KeyProject,  \* KeyProject[k]: the project of API key k
  Ceiling,     \* Ceiling[r]: the tokens r reserves
  Amounts,     \* Amounts[r]: the tokens r may be answered with
  Limit        \* tokens a project may have reserved and used

VARIABLES
  phase,       \* phase[r]: "unsubmitted", "pending", "answered" or "failed"
  used,        \* used[p]: tokens of project p, reserved or used
  billed       \* billed[k]: tokens billed to key k

vars == <<phase, used, billed>>

Project(r) == KeyProject[RequestKey[r]]

InProject(S, p) == {r \in S : Project(r) = p}

Init ==
  /\ phase = [r \in Requests |-> "unsubmitted"]
  /\ used = [p \in Projects |-> 0]
  /\ billed = [k \in ApiKeys |-> 0]

Accept(r) ==
  /\ phase[r] = "unsubmitted"
  /\ used[Project(r)] + Ceiling[r] <= Limit
  /\ phase' = [phase EXCEPT ![r] = "pending"]
  /\ used' = [used EXCEPT ![Project(r)] = @ + Ceiling[r]]
  /\ UNCHANGED billed

Answer(r, n) ==
  /\ phase[r] = "pending"
  /\ phase' = [phase EXCEPT ![r] = "answered"]
  /\ used' = [used EXCEPT ![Project(r)] = @ + n - Ceiling[r]]
  /\ billed' = [billed EXCEPT ![RequestKey[r]] = @ + n]

\* Any number of requests are given up at once.
GiveUp(S) ==
  /\ \A r \in S : phase[r] = "pending"
  /\ phase' = [r \in Requests |-> IF r \in S THEN "failed" ELSE phase[r]]
  /\ used' = [p \in Projects |-> used[p] - Tokens(InProject(S, p), Ceiling)]
  /\ UNCHANGED billed

Next ==
  \/ \E r \in Requests : Accept(r) \/ \E n \in Amounts[r] : Answer(r, n)
  \/ \E S \in SUBSET Requests : GiveUp(S)

Spec == Init /\ [][Next]_vars
=============================================================================
