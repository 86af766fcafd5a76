------------------------- MODULE MCSecurityMiddleware -------------------------
(***************************************************************************)
(* A body limit of two bytes, and bodies of up to six in pieces of none,   *)
(* one, two or three.                                                      *)
(***************************************************************************)
EXTENDS SecurityMiddleware

MCSizes == 0..3
=============================================================================
