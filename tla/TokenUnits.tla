----------------------------- MODULE TokenUnits -----------------------------
(***************************************************************************)
(* Token totals.  The gateway keeps running totals of tokens (a project's  *)
(* budget, an API key's usage) that ought to be the sum of a per-request   *)
(* amount over a set of requests.  The sum is written here as the number   *)
(* of single tokens in the set, <<r, i>> being the i-th token of request   *)
(* r, so that facts about sums are facts about finite cardinalities.       *)
(***************************************************************************)
EXTENDS Naturals, FiniteSets

\* The tokens of the requests in S, where request r has amount[r] of them.
Units(S, amount) == UNION {{r} \X (1..amount[r]) : r \in S}

\* The sum of amount[r] over the requests in S.
Tokens(S, amount) == Cardinality(Units(S, amount))
=============================================================================
