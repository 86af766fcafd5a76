---------------------------- MODULE MCRequestQueue ----------------------------
(***************************************************************************)
(* Small instances of RequestQueue.  All requests draw on one project,     *)
(* through two keys; the first worker serves both models, the second only  *)
(* one.  The first day has two ticks, the second one and the third all     *)
(* others, and a month has two days; or (MCOneDay) the whole run falls     *)
(* into one day.                                                           *)
(***************************************************************************)
EXTENDS RequestQueue, TLC

CONSTANTS r1, r2, r3, w1, w2, k1, k2, p1, m1, m2, v1, v2

MCKeyProject == k1 :> p1 @@ k2 :> p1
MCRequestKey == [r \in Requests |-> IF r = r2 THEN k2 ELSE k1]
MCRequestModel == [r \in Requests |-> IF r = r1 THEN m1 ELSE m2]
MCCeiling == [r \in Requests |-> IF r = r3 THEN 1 ELSE 2]
MCServes == [w \in Workers |-> IF w = w1 THEN Models ELSE {m2}]

MCThreeDays == [t \in Times |-> IF t < 2 THEN 0 ELSE IF t = 2 THEN 1 ELSE 2]
MCTwoDayMonth == [d \in Days |-> d \div 2]
MCOneDay == [t \in Times |-> 0]
=============================================================================
