---------------------------- MODULE MCPoolRouting ---------------------------
(* PoolRouting for TLC: accounts A, with included quota, and B, whose owner *)
(* allows credits.                                                          *)
EXTENDS PoolRouting, TLC

CONSTANTS A, B

Quota == [level |-> "low", capped |-> FALSE, funds |-> FALSE, reached |-> FALSE]
Used == [level |-> "full", capped |-> FALSE, funds |-> FALSE, reached |-> TRUE]
Funded == [Used EXCEPT !.funds = TRUE]

MCSnapshots == (A :> {Quota}) @@ (B :> {Quota, Funded})
MCCatalogs == {(A :> "lacks") @@ (B :> "offers"), (A :> "missing") @@ (B :> "missing")}
=============================================================================
