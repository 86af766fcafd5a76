--------------------------- MODULE MCCircuitBreaker ---------------------------
(***************************************************************************)
(* Two tasks report on one worker.                                         *)
(***************************************************************************)
EXTENDS CircuitBreaker

CONSTANTS t1, t2
=============================================================================
