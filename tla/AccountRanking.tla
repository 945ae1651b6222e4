----------------------------- MODULE AccountRanking --------------------------
(***************************************************************************)
(* The choice among accounts that can take a new conversation              *)
(* (selectFreshAccount, internal/app/pool.go).                             *)
(*                                                                         *)
(* The list of accounts may be in any order, and the choice must not       *)
(* depend on it.                                                           *)
(***************************************************************************)
EXTENDS Naturals, FiniteSets, Sequences

CONSTANTS
    Ranked,      \* account ids, as numbers: they are compared
    Candidates   \* what a candidate can look like

ASSUME RankingAssumption ==
    /\ Ranked \subseteq Nat /\ Ranked # {} /\ IsFiniteSet(Ranked)
    /\ Candidates \subseteq [manual: BOOLEAN, urgency: Nat, pressure: Nat, used: Nat]

VARIABLES
    facts,   \* each candidate at this moment
    order,   \* the eligible ones, in the order of the list
    scan     \* the loop: which pass, how far it is, least and best so far

rankingVars == <<facts, order, scan>>

-----------------------------------------------------------------------------

(* urgency: when the reset credit expires that does so first within the    *)
(* lead, 0 if none does; used: lastUsed.                                   *)
RankingInit ==
    /\ facts \in [Ranked -> Candidates]
    /\ order \in {o \in [1..Cardinality(Ranked) -> Ranked] : \A a \in Ranked : \E i \in DOMAIN o : o[i] = a}
    /\ scan = [pass |-> 1, at |-> 2, least |-> order[1], best |-> order[1]]

(* comparePriority: manual priority first, then the reset credit that      *)
(* expires first.                                                          *)
Outranks(a, b) ==
    \/ facts[a].manual /\ ~facts[b].manual
    \/ /\ facts[a].manual = facts[b].manual
       /\ facts[a].urgency # 0
       /\ facts[b].urgency = 0 \/ facts[a].urgency < facts[b].urgency

SamePriority(a, b) == ~Outranks(a, b) /\ ~Outranks(b, a)

LongerIdle(a, b) ==
    \/ facts[a].used < facts[b].used
    \/ facts[a].used = facts[b].used /\ a < b

(* Mutant of Better: the tolerance applies between every two candidates.   *)
BetterPairwise(a) ==
    LET best == scan.best IN
    \/ Outranks(a, best)
    \/ /\ SamePriority(a, best)
       /\ \/ facts[a].pressure + 1 < facts[best].pressure
          \/ facts[a].pressure <= facts[best].pressure + 1 /\ LongerIdle(a, best)

(* The second pass: idle for longer, and within one point of the least.    *)
Better(a) ==
    /\ SamePriority(a, scan.least)
    /\ facts[a].pressure <= facts[scan.least].pressure + 1
    /\ LongerIdle(a, scan.best)

(* The first pass: the least used of the first rank.                       *)
Less(a) ==
    \/ Outranks(a, scan.least)
    \/ SamePriority(a, scan.least) /\ facts[a].pressure < facts[scan.least].pressure

FindLeast ==
    LET a == order[scan.at] IN
    /\ scan.pass = 1 /\ scan.at <= Len(order)
    /\ scan' = [scan EXCEPT !.at = @ + 1, !.least = IF Less(a) THEN a ELSE @]
    /\ UNCHANGED <<facts, order>>

AnchorTolerance ==
    /\ scan.pass = 1 /\ scan.at > Len(order)
    /\ scan' = [scan EXCEPT !.pass = 2, !.at = 1, !.best = scan.least]
    /\ UNCHANGED <<facts, order>>

FindBest ==
    LET a == order[scan.at] IN
    /\ scan.pass = 2 /\ scan.at <= Len(order)
    /\ scan' = [scan EXCEPT !.at = @ + 1, !.best = IF Better(a) THEN a ELSE @]
    /\ UNCHANGED <<facts, order>>

RankingNext == FindLeast \/ AnchorTolerance \/ FindBest

RankingSpec == RankingInit /\ [][RankingNext]_rankingVars

-----------------------------------------------------------------------------
(* Properties.                                                             *)

(* In whatever order the accounts are listed the loop finds what           *)
(* ROUTING.md promises: of the accounts that nobody outranks, of those at  *)
(* most one point above the least used of them, the one that was used      *)
(* longest ago, and the smallest id.                                       *)
SelectedAsPromised ==
    scan.pass = 2 /\ scan.at > Len(order) =>
        LET first == {a \in Ranked : \A b \in Ranked : ~Outranks(b, a)}
            near == {a \in first :
                        \A b \in first : facts[a].pressure <= facts[b].pressure + 1}
        IN scan.best \in near /\ \A a \in near : a = scan.best \/ LongerIdle(scan.best, a)
=============================================================================
