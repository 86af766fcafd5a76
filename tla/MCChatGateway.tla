---------------------------- MODULE MCChatGateway ----------------------------
(***************************************************************************)
(* A small instance of ChatGateway: c1 and c2 repeat one Idempotency-Key   *)
(* under key k1, c3 uses the same Idempotency-Key under key k2.            *)
(***************************************************************************)
EXTENDS ChatGateway

CONSTANTS c1, c2, c3, k1, k2, i1, p1, a1, v1, v2

MCCallKey == [c \in Calls |-> IF c = c3 THEN k2 ELSE k1]
MCKeyProject == [k \in ApiKeys |-> p1]
MCCallAlias == [c \in Calls |-> a1]
MCCallIdem == [c \in Calls |-> i1]
=============================================================================
