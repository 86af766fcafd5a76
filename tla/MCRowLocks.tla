------------------------------ MODULE MCRowLocks ------------------------------
(***************************************************************************)
(* Small instances of RowLocks.                                            *)
(***************************************************************************)
EXTENDS RowLocks, TLC

CONSTANTS r1, k1, p1

MCRequestKey == [r \in Requests |-> k1]
MCKeyProject == [k \in ApiKeys |-> p1]
MCCeiling == [r \in Requests |-> 1]
MCActual == [r \in Requests |-> IF r = r1 THEN 2 ELSE 1]
=============================================================================
