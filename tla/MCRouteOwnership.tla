-------------------------- MODULE MCRouteOwnership --------------------------
(* RouteOwnership for TLC.  Each configuration picks the connections and   *)
(* the routes that its question needs.                                     *)
EXTENDS RouteOwnership, TLC

CONSTANTS A, B, c1, c2, c3, t1, s1

(* Every connection belongs to thread t1 and names no session.             *)
OneThread == [c \in Conns |-> t1]
NoSession == [c \in Conns |-> NoKey]

(* Every connection belongs to session s1; c2 names no thread.             *)
ThreadOfC1 == [c \in Conns |-> IF c = c2 THEN NoKey ELSE t1]
OneSession == [c \in Conns |-> s1]

ServedByAll == [c \in Conns |-> Accounts]
(* c1 asks for a model that only B carries, the others for one of A's.     *)
ServedByOne == [c \in Conns |-> IF c = c1 THEN {B} ELSE {A}]

(* Sound where the routes and the models treat the values alike.           *)
AnyAccount == Permutations(Accounts)
AnyAccountAndConn == Permutations(Accounts) \cup Permutations(Conns)
=============================================================================
