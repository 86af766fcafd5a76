--------------------------- MODULE MCWorkerRegistry ---------------------------
(***************************************************************************)
(* Small instances of WorkerRegistry: two workers compete for one          *)
(* enrolment token, and the one that gets it has two requests in progress. *)
(* Its two reports differ in both columns, so that a row mixed from both   *)
(* shows.                                                                  *)
(***************************************************************************)
EXTENDS WorkerRegistry

CONSTANTS w1, w2, e1, a1, a2, n1, n2

MCReports == {[status |-> "ONLINE", capabilities |-> a1],
              [status |-> "DRAINING", capabilities |-> a2]}
=============================================================================
