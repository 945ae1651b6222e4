------------------------- MODULE MCAccountLifecycle -------------------------
(* AccountLifecycle for TLC: two accounts, the sockets between them.       *)
EXTENDS AccountLifecycle, TLC

CONSTANTS A, B, s1, s2

AnySocketAndAccount == Permutations(Accounts) \cup Permutations(Sockets)
=============================================================================
