----------------------------- MODULE MCRateLimit -----------------------------
(***************************************************************************)
(* Four calls within a few windows of two ticks each.                      *)
(***************************************************************************)
EXTENDS RateLimit, TLC

CONSTANTS c1, c2, c3, c4

Symmetry == Permutations(Calls)
=============================================================================
