------------------------------ MODULE RoutedCredits --------------------------
(***************************************************************************)
(* The credits routed to an account since a point in time                  *)
(* (internal/app/credits.go).                                              *)
(*                                                                         *)
(* Points are kept by time, each with the sum of those up to it, so that   *)
(* an interval is a difference of two sums.  A point that arrives late     *)
(* goes to its place and shifts the sums after it; old points are cut off  *)
(* from time to time.                                                      *)
(***************************************************************************)
EXTENDS Integers, Sequences, SequencesExt

CONSTANTS
    MaxInstant,   \* bound: points in time, from 1
    MaxPoints,    \* bound: points
    MaxCredits,   \* bound: credits of a point
    KeptFor,      \* routedCreditHistory
    PruneAt       \* points that must be old before they are cut off

ASSUME CreditsAssumption ==
    /\ MaxInstant \in Nat \ {0} /\ MaxPoints \in Nat /\ MaxCredits \in Nat
    /\ KeptFor \in Nat \ {0}
    /\ PruneAt \in Nat \ {0}

VARIABLES
    points,    \* accountStats.routedCredits
    arrived    \* history: every point, in the order they came

creditsVars == <<points, arrived>>

-----------------------------------------------------------------------------

Instants == 1..MaxInstant

(* unpriced: 1 when no rate is known for the model.                        *)
Arrival == [at: Instants, credits: 0..MaxCredits, unpriced: 0..1]
Point == [at: Instants, credits: 0..MaxCredits, unpriced: 0..1,
          total: 0..(MaxCredits * MaxPoints), totalUnpriced: 0..MaxPoints]

CreditsInit == points = <<>> /\ arrived = <<>>

(* sort.Search: how many points of an ordered sequence are older than t.   *)
OlderThan(seq, t) ==
    CHOOSE n \in 0..Len(seq) : \A i \in DOMAIN seq : i <= n <=> seq[i].at < t

(* Mutant of Summed: the loop adds the old sums instead of the credits.    *)
SummedTwice(seq, from) ==
    LET sum[i \in (from - 1)..Len(seq)] ==
            IF i = 0 THEN 0
            ELSE IF i = from - 1 THEN seq[i].total ELSE sum[i - 1] + seq[i].total + seq[i].credits
    IN [i \in DOMAIN seq |-> IF i < from THEN seq[i] ELSE [seq[i] EXCEPT !.total = sum[i]]]

(* The sums of a sequence, from a position on.                             *)
Summed(seq, from) ==
    LET sum[i \in (from - 1)..Len(seq)] ==
            IF i = 0 THEN [total |-> 0, unpriced |-> 0]
            ELSE IF i = from - 1
            THEN [total |-> seq[i].total, unpriced |-> seq[i].totalUnpriced]
            ELSE [total |-> sum[i - 1].total + seq[i].credits,
                  unpriced |-> sum[i - 1].unpriced + seq[i].unpriced]
    IN [i \in DOMAIN seq |->
           IF i < from THEN seq[i]
           ELSE [seq[i] EXCEPT !.total = sum[i].total, !.totalUnpriced = sum[i].unpriced]]

(* Mutant of Cut: all that is old goes.                                    *)
CutAll(seq, old) == IF old < PruneAt \/ old * 2 < Len(seq) THEN seq ELSE SubSeq(seq, old + 1, Len(seq))

(* pruneRoutedCredits: the last old point stays, its sum is the base of    *)
(* what follows.                                                           *)
Cut(seq, old) == IF old < PruneAt \/ old * 2 < Len(seq) THEN seq ELSE SubSeq(seq, old, Len(seq))

(* addRoutedCredits                                                        *)
AddRoutedCredits(a) ==
    LET place == OlderThan(points, a.at + 1) + 1
        new == [at |-> a.at, credits |-> a.credits, unpriced |-> a.unpriced,
                total |-> 0, totalUnpriced |-> 0]
        all == Summed(InsertAt(points, place, new), place)
        cutoff == all[Len(all)].at - KeptFor
    IN
    /\ Len(arrived) < MaxPoints
    /\ arrived' = Append(arrived, a)
    /\ points' = Cut(all, OlderThan(all, cutoff))

CreditsNext == \E a \in Arrival : AddRoutedCredits(a)

CreditsSpec == CreditsInit /\ [][CreditsNext]_creditsVars

(* routedCreditsSince: the sums since start, and the time they start from. *)
Since(start) ==
    LET n == OlderThan(points, start)
        last == points[Len(points)]
        first == points[1]
    IN IF n > 0
       THEN [credits |-> last.total - points[n].total,
             unpriced |-> last.totalUnpriced - points[n].totalUnpriced, from |-> start]
       ELSE [credits |-> last.total - first.total + first.credits,
             unpriced |-> last.totalUnpriced - first.totalUnpriced + first.unpriced,
             from |-> IF first.at > start THEN first.at ELSE start]

-----------------------------------------------------------------------------
(* Properties.                                                             *)

CreditsTypeOK ==
    /\ points \in Seq(Point) /\ Len(points) <= MaxPoints
    /\ arrived \in Seq(Arrival) /\ Len(arrived) <= MaxPoints

(* What arrived at start or later, summed up anew.                         *)
Arrived(start) ==
    LET sum[n \in 0..Len(arrived)] ==
            IF n = 0 THEN [credits |-> 0, unpriced |-> 0]
            ELSE IF arrived[n].at < start THEN sum[n - 1]
            ELSE [credits |-> sum[n - 1].credits + arrived[n].credits,
                  unpriced |-> sum[n - 1].unpriced + arrived[n].unpriced]
    IN sum[Len(arrived)]

(* What is reported for any start within the history that is kept is the   *)
(* sum of the points since then, in whatever order they arrived and        *)
(* however often old points were cut off; and it reaches back to start, or *)
(* to the first point there ever was.                                      *)
SinceIsTheSum ==
    points # <<>> =>
        \A start \in (points[Len(points)].at - KeptFor)..MaxInstant :
            /\ Since(start).credits = Arrived(start).credits
            /\ Since(start).unpriced = Arrived(start).unpriced
            /\ \/ Since(start).from = start
               \/ \A i \in DOMAIN arrived : arrived[i].at >= Since(start).from
=============================================================================
