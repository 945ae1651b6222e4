--------------------------- MODULE MCRouteClaims ---------------------------
(* RouteClaims for TLC: three connections of one session.  c1 and c2 are   *)
(* two sockets of thread t1, c2 without a session header; c3 is a sibling  *)
(* thread that reaches the claim of t1 through the session.                *)
EXTENDS RouteClaims, TLC

CONSTANTS A, B, c1, c2, c3, t1, t2, s

MCThread == (c1 :> t1) @@ (c2 :> t1) @@ (c3 :> t2)
MCSession == (c1 :> s) @@ (c2 :> NoKey) @@ (c3 :> s)
=============================================================================
