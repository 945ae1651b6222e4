-------------------------- MODULE MCServerShutdown --------------------------
(* ServerShutdown for TLC: a request r and a background task p that want   *)
(* the credentials of account A.                                           *)
EXTENDS ServerShutdown

CONSTANTS A, r, p
=============================================================================
