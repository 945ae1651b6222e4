--------------------------- MODULE StatisticsProofs --------------------------
(***************************************************************************)
(* Theorems about the statistics, for any numbers of accounts, events,     *)
(* points and threads, any prices and any times:                           *)
(*   LiveThreads: the counters of the dashboards are those of the          *)
(*     connections there are, a thread that is worked on keeps its         *)
(*     history, and a segment sums up one account;                         *)
(*   UsageBooks: the running books, the rebuilt ones and the ledger agree  *)
(*     with a count of the events;                                         *)
(*   RoutedCredits: a difference of two sums is what arrived in between;   *)
(*   and no sum goes further than what was counted.                        *)
(* What a loop computes is proved by the least number it fails for.        *)
(***************************************************************************)
EXTENDS LiveThreads, UsageBooks, RoutedCredits,
        FiniteSetTheorems, SequenceTheorems, WellFoundedInduction, TLAPS

------------------------------------------------------------------------------
(* Loops over numbers.                                                     *)

LEMMA LeastNumber ==
    ASSUME NEW S \in SUBSET Nat, S # {}
    PROVE  \E t \in S : \A u \in S : t <= u
<1> DEFINE R == {ss \in Nat \X Nat : ss[1] < ss[2]}
<1>1. IsWellFoundedOn(R, Nat)
  BY NatLessThanWellFounded, Zenon DEF OpToRel
<1>2. \A u, t \in Nat : <<u, t>> \notin R => t <= u
  OBVIOUS
<1> HIDE DEF R
<1>3. \E t \in S : \A u \in S : ~(<<u, t>> \in R)
  <2>1. S \subseteq Nat /\ S # {}
    OBVIOUS
  <2> QED
    BY <1>1, <2>1, WFMin
<1> QED
  BY <1>2, <1>3

(* Induction over an interval, for a property given by the numbers that    *)
(* have it: the least number that had not would have a predecessor.        *)
LEMMA Upwards ==
    ASSUME NEW lo \in Nat, NEW hi \in Nat, NEW Good \in SUBSET (lo..hi),
           lo <= hi => lo \in Good,
           \A n \in lo..hi : n > lo /\ n - 1 \in Good => n \in Good
    PROVE  \A n \in lo..hi : n \in Good
<1> SUFFICES ASSUME NEW n \in lo..hi, n \notin Good PROVE FALSE
  OBVIOUS
<1> DEFINE Bad == {k \in lo..hi : k \notin Good}
<1>1. Bad \in SUBSET Nat /\ Bad # {}
  OBVIOUS
<1>2. PICK k \in Bad : \A j \in Bad : k <= j
  BY <1>1, LeastNumber
<1>3. k \in lo..hi /\ k # lo /\ k - 1 \in lo..hi
  BY <1>2
<1>4. k - 1 \notin Bad
  BY <1>2, <1>3
<1> QED
  BY <1>2, <1>3, <1>4

(* A loop over an interval has its values: one step a number.              *)
HasValues(S, base, lo, hi, next) ==
    \E f \in [lo..hi -> S] :
        /\ f[lo] = base
        /\ \A n \in lo..hi : n > lo => f[n] = next[n][f[n - 1]]

LEMMA LoopValues ==
    ASSUME NEW S, NEW base, base \in S, NEW lo, lo \in Nat, NEW hi, hi \in Nat, lo <= hi,
           NEW next, next \in [lo..hi -> [S -> S]]
    PROVE  HasValues(S, base, lo, hi, next)
<1> DEFINE Loop(k, f) == /\ f[lo] = base
                         /\ \A n \in lo..k : n > lo => f[n] = next[n][f[n - 1]]
           Good == {k \in lo..hi : \E f \in [lo..k -> S] : Loop(k, f)}
<1>1. lo \in Good
  <2> DEFINE g == [n \in lo..lo |-> base]
  <2>1. g \in [lo..lo -> S] /\ g[lo] = base
    OBVIOUS
  <2>2. \A n \in lo..lo : ~(n > lo)
    OBVIOUS
  <2> HIDE DEF g
  <2> QED
    BY <2>1, <2>2
<1>2. ASSUME NEW k \in lo..hi, k > lo, k - 1 \in Good
      PROVE  k \in Good
  <2>1. PICK f \in [lo..(k - 1) -> S] : Loop(k - 1, f)
    BY <1>2
  <2> DEFINE g == [n \in lo..k |-> IF n = k THEN next[k][f[k - 1]] ELSE f[n]]
  <2>2. k - 1 \in lo..(k - 1) /\ k \in lo..hi
    BY <1>2
  <2>3. next[k] \in [S -> S] /\ f[k - 1] \in S
    BY <2>2
  <2>4. g \in [lo..k -> S]
    BY <2>2, <2>3
  <2>5. g[lo] = base
    BY <1>2, <2>1
  <2>6. ASSUME NEW n \in lo..k, n > lo
        PROVE  g[n] = next[n][g[n - 1]]
    <3>1. n - 1 \in lo..(k - 1) /\ n - 1 # k /\ n - 1 \in lo..k
      BY <1>2, <2>6
    <3>2. g[n - 1] = f[n - 1]
      BY <3>1
    <3>3. CASE n = k
      BY <3>2, <3>3
    <3>4. CASE n # k
      BY <2>1, <2>6, <3>2, <3>4
    <3> QED
      BY <3>3, <3>4
  <2> HIDE DEF g
  <2> QED
    BY <2>4, <2>5, <2>6
<1> HIDE DEF Good
<1>3. Good \in SUBSET (lo..hi)
  BY DEF Good
<1>4. hi \in Good
  <2>1. \A n \in lo..hi : n > lo /\ n - 1 \in Good => n \in Good
    BY <1>2
  <2>2. \A n \in lo..hi : n \in Good
    BY <1>1, <1>3, <2>1, Upwards
  <2> QED
    BY <2>2
<1> QED
  BY <1>4 DEF Good, HasValues

------------------------------------------------------------------------------
(* LiveThreads: the invariant.                                             *)

Workers(t) == {c \in Connections : t \in conn[c].live}
Sockets(h) == {c \in Connections : conn[c].step = "open" /\ conn[c].account = h}

ThreadsTyped ==
    /\ threads \in [ThreadKeys -> SUBSET ThreadStats]
    /\ liveThreads \in [ThreadKeys -> Nat]
    /\ wsOpen \in [Hosts -> Nat]
    /\ conn \in [Connections -> ConnectionType]
    /\ clock \in Times

(* A thread has at most one segment.                                       *)
OneSegment == \A t \in ThreadKeys : \A x, y \in threads[t] : x = y

CountersRight ==
    /\ \A t \in ThreadKeys : liveThreads[t] = Cardinality(Workers(t))
    /\ \A h \in Hosts : wsOpen[h] = Cardinality(Sockets(h))

(* A connection shows the threads it holds, and only while it is open; an  *)
(* active turn holds its thread.                                           *)
TurnsSound ==
    \A c \in Connections :
        /\ conn[c].shown \subseteq conn[c].live
        /\ conn[c].step # "open" => conn[c].shown = {} /\ conn[c].turn = "none"
        /\ conn[c].turn \in {"active", "accepted"} => conn[c].thread \in conn[c].live

ThreadsInv ==
    /\ ThreadsTyped /\ OneSegment /\ CountersRight /\ TurnsSound
    /\ LiveThreadKept /\ SegmentIsOneAccount

-----------------------------------------------------------------------------

LEMMA FiniteWorkers ==
  /\ \A t : IsFiniteSet(Workers(t)) /\ Cardinality(Workers(t)) \in 0..Cardinality(Connections)
  /\ \A h : IsFiniteSet(Sockets(h)) /\ Cardinality(Sockets(h)) \in 0..Cardinality(Connections)
  /\ Cardinality(Connections) \in Nat
<1>1. IsFiniteSet(Connections) /\ Cardinality(Connections) \in Nat
  BY ThreadsAssumption, FS_CardinalityType
<1>2. ASSUME NEW S \in SUBSET Connections
      PROVE  IsFiniteSet(S) /\ Cardinality(S) \in 0..Cardinality(Connections)
  <2>1. IsFiniteSet(S) /\ Cardinality(S) <= Cardinality(Connections)
    BY <1>1, FS_Subset
  <2>2. Cardinality(S) \in Nat
    BY <2>1, FS_CardinalityType
  <2> QED
    BY <1>1, <2>1, <2>2
<1>3. \A t : Workers(t) \in SUBSET Connections
  BY DEF Workers
<1>4. \A h : Sockets(h) \in SUBSET Connections
  BY DEF Sockets
<1> QED
  BY <1>1, <1>2, <1>3, <1>4

(* Nobody works on a thread whose counter is zero.                         *)
LEMMA CountedOut ==
  ASSUME CountersRight, NEW t \in ThreadKeys, liveThreads[t] = 0, NEW c \in Connections
  PROVE  t \notin conn[c].live
<1>1. Workers(t) = {}
  BY FiniteWorkers, FS_EmptySet DEF CountersRight
<1> QED
  BY <1>1 DEF Workers

(* Pruning leaves the threads that a connection shows.                     *)
LEMMA PruningKeeps ==
  ASSUME ThreadsInv
  PROVE  /\ Pruned \in [ThreadKeys -> SUBSET ThreadStats]
         /\ \A t \in ThreadKeys : Pruned[t] \subseteq threads[t]
         /\ \A t \in ThreadKeys, c \in Connections :
                t \in conn[c].shown => ~Prunable(t) /\ Pruned[t] = threads[t]
<1>1. /\ Pruned \in [ThreadKeys -> SUBSET ThreadStats]
      /\ \A t \in ThreadKeys : Pruned[t] \subseteq threads[t]
  BY DEF ThreadsInv, ThreadsTyped, Pruned
<1>2. ASSUME NEW t \in ThreadKeys, NEW c \in Connections, t \in conn[c].shown
      PROVE  ~Prunable(t)
  BY <1>2, CountedOut DEF ThreadsInv, TurnsSound, Prunable
<1> QED
  BY <1>1, <1>2 DEF Pruned

LEMMA ThreadsStart == ThreadsInit => ThreadsInv
<1> SUFFICES ASSUME ThreadsInit PROVE ThreadsInv
  OBVIOUS
<1> DEFINE h0 == CHOOSE h \in Hosts : TRUE
           t0 == CHOOSE t \in ThreadKeys : TRUE
           idle == [step |-> "closed", account |-> h0, live |-> {}, shown |-> {},
                    turn |-> "none", thread |-> t0]
<1>1. h0 \in Hosts /\ t0 \in ThreadKeys
  BY ThreadsAssumption
<1>2. /\ threads = [t \in ThreadKeys |-> {}] /\ liveThreads = [t \in ThreadKeys |-> 0]
      /\ wsOpen = [h \in Hosts |-> 0] /\ clock = 0
      /\ conn = [c \in Connections |-> idle]
  BY DEF ThreadsInit
<1>3. idle \in ConnectionType
  BY <1>1 DEF ConnectionType
<1> HIDE DEF h0, t0
<1>4. ThreadsTyped
  BY <1>2, <1>3, ThreadsAssumption DEF ThreadsTyped, Times
<1>5. (\A t : Workers(t) = {}) /\ (\A h : Sockets(h) = {})
  BY <1>2 DEF Workers, Sockets
<1>6. CountersRight
  BY <1>2, <1>5, FS_EmptySet DEF CountersRight
<1> QED
  BY <1>2, <1>4, <1>6 DEF ThreadsInv, OneSegment, TurnsSound, LiveThreadKept, SegmentIsOneAccount

-----------------------------------------------------------------------------
(* What the actions do to one connection.                                  *)

(* A connection changes, and its threads and its socket are those of before*)
LEMMA NobodyMoves ==
  ASSUME ThreadsInv, UNCHANGED <<liveThreads, wsOpen>>,
         \A d \in Connections : /\ conn'[d].live = conn[d].live
                                /\ conn'[d].step = "open" <=> conn[d].step = "open"
                                /\ conn'[d].account = conn[d].account
  PROVE  CountersRight'
<1>1. \A t : Workers(t)' = Workers(t)
  BY DEF Workers
<1>2. \A h : Sockets(h)' = Sockets(h)
  BY DEF Sockets
<1> QED
  BY <1>1, <1>2 DEF ThreadsInv, CountersRight

(* The history of the threads changes, nobody's connection does.           *)
LEMMA HistoryChanges ==
  ASSUME ThreadsInv, UNCHANGED <<liveThreads, wsOpen, conn>>, clock' \in Times,
         \/ threads' = Pruned
         \/ threads' = threads
  PROVE  ThreadsInv'
<1>1. /\ threads' \in [ThreadKeys -> SUBSET ThreadStats]
      /\ \A t \in ThreadKeys : threads'[t] \subseteq threads[t]
      /\ \A t \in ThreadKeys, c \in Connections :
             t \in conn[c].shown => threads'[t] = threads[t]
  BY PruningKeeps DEF ThreadsInv, ThreadsTyped
<1>2. ThreadsTyped' /\ OneSegment' /\ TurnsSound' /\ SegmentIsOneAccount'
  BY <1>1 DEF ThreadsInv, ThreadsTyped, OneSegment, TurnsSound, SegmentIsOneAccount
<1>3. CountersRight'
  BY NobodyMoves DEF ThreadsInv, ThreadsTyped
<1>4. \A c \in Connections : conn[c].shown \subseteq ThreadKeys
  BY DEF ThreadsInv, ThreadsTyped, ConnectionType
<1>5. LiveThreadKept'
  BY <1>1, <1>4 DEF ThreadsInv, LiveThreadKept
<1> QED
  BY <1>2, <1>3, <1>5 DEF ThreadsInv

LEMMA OpenStep ==
  ASSUME ThreadsInv, NEW c \in Connections, NEW h \in Hosts, OpenRelay(c, h)
  PROVE  ThreadsInv'
<1> DEFINE x == [conn[c] EXCEPT !.step = "open", !.account = h]
<1>0. conn \in [Connections -> ConnectionType] /\ conn[c] \in ConnectionType /\ wsOpen \in [Hosts -> Nat]
  BY DEF ThreadsInv, ThreadsTyped
<1>1. /\ conn[c].step = "closed" /\ x \in ConnectionType
      /\ conn' = [conn EXCEPT ![c] = x]
      /\ x.step = "open" /\ x.account = h /\ x.live = conn[c].live /\ x.shown = conn[c].shown
      /\ x.turn = conn[c].turn /\ x.thread = conn[c].thread
      /\ wsOpen' = [wsOpen EXCEPT ![h] = @ + 1]
      /\ UNCHANGED <<threads, liveThreads, clock>>
  BY <1>0 DEF OpenRelay, ConnectionType
<1> HIDE DEF x
<1>2. conn' \in [Connections -> ConnectionType] /\ \A d \in Connections : conn'[d] = IF d = c THEN x ELSE conn[d]
  BY <1>0, <1>1
<1>3. ThreadsTyped' /\ OneSegment' /\ TurnsSound' /\ LiveThreadKept' /\ SegmentIsOneAccount'
  <2>1. ThreadsTyped'
    BY <1>0, <1>1, <1>2 DEF ThreadsInv, ThreadsTyped
  <2>2. TurnsSound'
    BY <1>1, <1>2 DEF ThreadsInv, TurnsSound
  <2>3. LiveThreadKept'
    BY <1>1, <1>2 DEF ThreadsInv, LiveThreadKept
  <2> QED
    BY <1>1, <2>1, <2>2, <2>3 DEF ThreadsInv, OneSegment, SegmentIsOneAccount
<1>4. \A t : Workers(t)' = Workers(t)
  BY <1>1, <1>2 DEF Workers
<1>5. \A g \in Hosts : Sockets(g)' = IF g = h THEN Sockets(g) \cup {c} ELSE Sockets(g)
  BY <1>1, <1>2 DEF Sockets
<1>6. c \notin Sockets(h)
  BY <1>1 DEF Sockets
<1>7. Cardinality(Sockets(h)') = Cardinality(Sockets(h)) + 1
  BY <1>5, <1>6, FiniteWorkers, FS_AddElement
<1>8. \A g \in Hosts : wsOpen'[g] = IF g = h THEN wsOpen[g] + 1 ELSE wsOpen[g]
  BY <1>0, <1>1
<1>9. CountersRight'
  BY <1>1, <1>4, <1>5, <1>7, <1>8 DEF ThreadsInv, CountersRight
<1> QED
  BY <1>3, <1>9 DEF ThreadsInv

LEMMA SwitchStep ==
  ASSUME ThreadsInv, NEW c \in Connections, NEW h \in Hosts, SwitchRelay(c, h)
  PROVE  ThreadsInv'
<1> DEFINE x == [conn[c] EXCEPT !.account = h]
<1> PICK g \in Hosts : conn[c].account = g
  BY DEF ThreadsInv, ThreadsTyped, ConnectionType
<1>0. /\ conn \in [Connections -> ConnectionType] /\ conn[c] \in ConnectionType
      /\ wsOpen \in [Hosts -> Nat]
  BY DEF ThreadsInv, ThreadsTyped
<1>1. /\ conn[c].step = "open" /\ g # h /\ x \in ConnectionType
      /\ conn' = [conn EXCEPT ![c] = x]
      /\ x.step = "open" /\ x.account = h /\ x.live = conn[c].live /\ x.shown = conn[c].shown
      /\ x.turn = conn[c].turn /\ x.thread = conn[c].thread
      /\ wsOpen' = [wsOpen EXCEPT ![g] = @ - 1, ![h] = @ + 1]
      /\ UNCHANGED <<threads, liveThreads, clock>>
  BY <1>0 DEF SwitchRelay, ConnectionType
<1> HIDE DEF x
<1>2. conn' \in [Connections -> ConnectionType] /\ \A d \in Connections : conn'[d] = IF d = c THEN x ELSE conn[d]
  BY <1>0, <1>1
<1>3. /\ \A t : Workers(t)' = Workers(t)
      /\ Sockets(h)' = Sockets(h) \cup {c} /\ c \notin Sockets(h)
      /\ Sockets(g)' = Sockets(g) \ {c} /\ c \in Sockets(g)
      /\ \A k \in Hosts \ {g, h} : Sockets(k)' = Sockets(k)
  BY <1>1, <1>2 DEF Workers, Sockets
<1>4. /\ Cardinality(Sockets(h)') = Cardinality(Sockets(h)) + 1
      /\ Cardinality(Sockets(g)') = Cardinality(Sockets(g)) - 1
  <2>1. IsFiniteSet(Sockets(h)) /\ IsFiniteSet(Sockets(g))
    BY FiniteWorkers
  <2>2. Cardinality(Sockets(h) \cup {c}) = Cardinality(Sockets(h)) + 1
    BY <1>3, <2>1, FS_AddElement
  <2>3. Cardinality(Sockets(g) \ {c}) = Cardinality(Sockets(g)) - 1
    BY <1>3, <2>1, FS_RemoveElement
  <2> QED
    BY <1>3, <2>2, <2>3
<1>5. /\ wsOpen[g] = Cardinality(Sockets(g)) /\ wsOpen[g] # 0
      /\ wsOpen[h] = Cardinality(Sockets(h))
  <2>1. wsOpen[g] = Cardinality(Sockets(g)) /\ wsOpen[h] = Cardinality(Sockets(h))
    BY <1>0 DEF ThreadsInv, CountersRight
  <2>2. Cardinality(Sockets(g)) # 0
    BY <1>3, FiniteWorkers, FS_EmptySet
  <2> QED
    BY <2>1, <2>2
<1>6. /\ wsOpen' \in [Hosts -> Nat]
      /\ wsOpen'[g] = wsOpen[g] - 1 /\ wsOpen'[h] = wsOpen[h] + 1
      /\ \A k \in Hosts \ {g, h} : wsOpen'[k] = wsOpen[k]
  BY <1>0, <1>1, <1>5
<1>7. CountersRight'
  <2>1. \A t \in ThreadKeys : liveThreads'[t] = Cardinality(Workers(t))'
    BY <1>1, <1>3 DEF ThreadsInv, CountersRight
  <2>2. \A k \in Hosts : wsOpen[k] = Cardinality(Sockets(k))
    BY DEF ThreadsInv, CountersRight
  <2>3. ASSUME NEW k \in Hosts PROVE wsOpen'[k] = Cardinality(Sockets(k)')
    <3>1. CASE k = g
      BY <1>4, <1>5, <1>6, <3>1
    <3>2. CASE k = h
      BY <1>4, <1>5, <1>6, <3>2
    <3>3. CASE k \notin {g, h}
      BY <1>3, <1>6, <2>2, <3>3
    <3> QED
      BY <3>1, <3>2, <3>3
  <2> QED
    BY <2>1, <2>3 DEF CountersRight
<1>8. ThreadsTyped' /\ TurnsSound' /\ LiveThreadKept'
  <2>1. ThreadsTyped'
    BY <1>1, <1>2, <1>6 DEF ThreadsInv, ThreadsTyped
  <2>2. TurnsSound'
    BY <1>1, <1>2 DEF ThreadsInv, TurnsSound
  <2>3. LiveThreadKept'
    BY <1>1, <1>2 DEF ThreadsInv, LiveThreadKept
  <2> QED
    BY <2>1, <2>2, <2>3
<1>9. OneSegment' /\ SegmentIsOneAccount'
  BY <1>1 DEF ThreadsInv, OneSegment, SegmentIsOneAccount
<1> QED
  BY <1>7, <1>8, <1>9 DEF ThreadsInv

(* StartTurn, FinishTurn and CloseEnds: the counters keep their values.    *)
LEMMA TurnStep ==
  ASSUME ThreadsInv, NEW c \in Connections, NEW t \in ThreadKeys, StartTurn(c, t) \/ CloseEnds(c)
  PROVE  ThreadsInv'
<1>0. conn \in [Connections -> ConnectionType] /\ conn[c] \in ConnectionType
  BY DEF ThreadsInv, ThreadsTyped
<1>1. UNCHANGED <<threads, liveThreads, wsOpen, clock>>
  BY DEF StartTurn, CloseEnds
<1>2. PICK x \in ConnectionType :
        /\ conn' = [conn EXCEPT ![c] = x]
        /\ x.live = conn[c].live /\ x.shown = conn[c].shown /\ x.account = conn[c].account
        /\ x.step = "open" <=> conn[c].step = "open"
        /\ x.turn \in {"active", "accepted"} => x.turn = conn[c].turn /\ x.thread = conn[c].thread
        /\ x.step # "open" => x.turn = conn[c].turn
  <2>1. CASE StartTurn(c, t)
    <3> DEFINE x == [conn[c] EXCEPT !.turn = "sent", !.thread = t]
    <3>1. /\ x \in ConnectionType /\ conn' = [conn EXCEPT ![c] = x]
          /\ x.live = conn[c].live /\ x.shown = conn[c].shown /\ x.account = conn[c].account
          /\ x.step = "open" /\ conn[c].step = "open" /\ x.turn = "sent"
      BY <1>0, <2>1 DEF StartTurn, ConnectionType
    <3> HIDE DEF x
    <3> QED
      BY <3>1
  <2>2. CASE CloseEnds(c)
    <3> DEFINE x == [conn[c] EXCEPT !.step = "closed"]
    <3>1. /\ x \in ConnectionType /\ conn' = [conn EXCEPT ![c] = x]
          /\ x.live = conn[c].live /\ x.shown = conn[c].shown /\ x.account = conn[c].account
          /\ x.step # "open" /\ conn[c].step # "open"
          /\ x.turn = conn[c].turn /\ x.thread = conn[c].thread
      BY <1>0, <2>2 DEF CloseEnds, ConnectionType
    <3> HIDE DEF x
    <3> QED
      BY <3>1
  <2> QED
    BY <2>1, <2>2
<1>3. conn' \in [Connections -> ConnectionType] /\ \A d \in Connections : conn'[d] = IF d = c THEN x ELSE conn[d]
  BY <1>0, <1>2
<1>4. ThreadsTyped' /\ OneSegment' /\ SegmentIsOneAccount'
  BY <1>1, <1>3 DEF ThreadsInv, ThreadsTyped, OneSegment, SegmentIsOneAccount
<1>5. TurnsSound'
  BY <1>2, <1>3 DEF ThreadsInv, TurnsSound
<1>6. LiveThreadKept'
  BY <1>1, <1>2, <1>3 DEF ThreadsInv, LiveThreadKept
<1>7. CountersRight'
  BY <1>1, <1>2, <1>3, NobodyMoves
<1> QED
  BY <1>4, <1>5, <1>6, <1>7 DEF ThreadsInv

LEMMA ActivateStep ==
  ASSUME ThreadsInv, NEW c \in Connections, ActivateThread(c)
  PROVE  ThreadsInv'
<1> DEFINE x == [conn[c] EXCEPT !.turn = "active", !.live = @ \cup {conn[c].thread}]
<1>0. /\ conn \in [Connections -> ConnectionType] /\ conn[c] \in ConnectionType
      /\ threads \in [ThreadKeys -> SUBSET ThreadStats] /\ liveThreads \in [ThreadKeys -> Nat]
  BY DEF ThreadsInv, ThreadsTyped
<1> PICK t \in ThreadKeys : conn[c].thread = t
  BY <1>0 DEF ConnectionType
<1>1. /\ conn[c].step = "open" /\ x \in ConnectionType
      /\ conn' = [conn EXCEPT ![c] = x]
      /\ x.step = "open" /\ x.account = conn[c].account /\ x.live = conn[c].live \cup {t}
      /\ x.shown = conn[c].shown /\ x.thread = t
      /\ UNCHANGED <<wsOpen, clock>>
  BY <1>0 DEF ActivateThread, ConnectionType
<1>2. \/ t \in conn[c].live /\ UNCHANGED <<threads, liveThreads>>
      \/ /\ t \notin conn[c].live
         /\ threads' = [threads EXCEPT ![t] = IF Prunable(t) THEN {} ELSE @]
         /\ liveThreads' = [liveThreads EXCEPT ![t] = @ + 1]
  BY DEF ActivateThread, Holds
<1> HIDE DEF x
<1>3. conn' \in [Connections -> ConnectionType] /\ \A d \in Connections : conn'[d] = IF d = c THEN x ELSE conn[d]
  BY <1>0, <1>1
<1>4. /\ threads' \in [ThreadKeys -> SUBSET ThreadStats] /\ liveThreads' \in [ThreadKeys -> Nat]
      /\ \A k \in ThreadKeys : threads'[k] \subseteq threads[k]
      /\ \A k \in ThreadKeys : threads'[k] = threads[k] \/ (k = t /\ Prunable(t))
  BY <1>0, <1>2
<1>5. ThreadsTyped' /\ OneSegment' /\ SegmentIsOneAccount'
  BY <1>1, <1>3, <1>4 DEF ThreadsInv, ThreadsTyped, OneSegment, SegmentIsOneAccount
<1>6. TurnsSound'
  BY <1>1, <1>3 DEF ThreadsInv, TurnsSound
<1>7. LiveThreadKept'
  <2>1. \A d \in Connections : conn'[d].shown = conn[d].shown /\ conn[d].shown \subseteq ThreadKeys
    BY <1>0, <1>1, <1>3 DEF ConnectionType
  <2> QED
    BY <1>4, <2>1, PruningKeeps DEF ThreadsInv, LiveThreadKept
<1>8. CountersRight'
  <2>1. \A h : Sockets(h)' = Sockets(h)
    BY <1>1, <1>3 DEF Sockets
  <2>2. \A k \in ThreadKeys : Workers(k)' = IF k = t THEN Workers(t) \cup {c} ELSE Workers(k)
    BY <1>1, <1>3 DEF Workers
  <2>3. c \in Workers(t) <=> t \in conn[c].live
    BY DEF Workers
  <2>4. Cardinality(Workers(t) \cup {c}) =
            IF t \in conn[c].live THEN Cardinality(Workers(t)) ELSE Cardinality(Workers(t)) + 1
    BY <2>3, FiniteWorkers, FS_AddElement
  <2>5. \A k \in ThreadKeys : liveThreads'[k] =
            IF k = t /\ t \notin conn[c].live THEN liveThreads[k] + 1 ELSE liveThreads[k]
    BY <1>0, <1>2
  <2>6. \A k \in ThreadKeys : liveThreads'[k] = Cardinality(Workers(k)')
    BY <2>2, <2>4, <2>5 DEF ThreadsInv, CountersRight
  <2> QED
    BY <1>1, <2>1, <2>6 DEF ThreadsInv, CountersRight
<1> QED
  BY <1>5, <1>6, <1>7, <1>8 DEF ThreadsInv

LEMMA AcceptStep ==
  ASSUME ThreadsInv, NEW c \in Connections, RecordAccepted(c)
  PROVE  ThreadsInv'
<1>0. /\ conn \in [Connections -> ConnectionType] /\ conn[c] \in ConnectionType
      /\ Pruned \in [ThreadKeys -> SUBSET ThreadStats]
      /\ \A k \in ThreadKeys : Pruned[k] \subseteq threads[k]
      /\ \A k \in ThreadKeys, d \in Connections : k \in conn[d].shown => Pruned[k] = threads[k]
      /\ clock \in Times
  BY PruningKeeps DEF ThreadsInv, ThreadsTyped
<1> PICK t \in ThreadKeys, h \in Hosts : conn[c].thread = t /\ conn[c].account = h
  BY <1>0 DEF ConnectionType
<1> DEFINE same == {x \in Pruned[t] : x.account = h}
           seg == [account |-> h, charged |-> UNION {x.charged : x \in same}, last |-> clock]
           new == [conn[c] EXCEPT !.turn = "accepted", !.shown = @ \cup {t}]
<1>1. /\ conn[c].step = "open" /\ conn[c].turn = "active"
      /\ threads' = [Pruned EXCEPT ![t] = {seg}]
      /\ conn' = [conn EXCEPT ![c] = new]
      /\ UNCHANGED <<liveThreads, wsOpen, clock>>
  BY <1>0 DEF RecordAccepted
<1>2. seg \in ThreadStats /\ seg.account = h /\ seg.charged \subseteq {h}
  <2>1. \A x \in same : x \in ThreadStats /\ x \in threads[t] /\ x.account = h
    BY <1>0
  <2>2. \A x \in same : x.charged \subseteq {h}
    BY <2>1 DEF ThreadsInv, SegmentIsOneAccount
  <2>3. UNION {x.charged : x \in same} \subseteq {h}
    BY <2>2
  <2> QED
    BY <1>0, <2>3 DEF ThreadStats
<1>3. /\ new \in ConnectionType /\ new.step = "open" /\ new.account = h /\ new.thread = t
      /\ new.live = conn[c].live /\ new.shown = conn[c].shown \cup {t}
  BY <1>0, <1>1 DEF ConnectionType
<1> HIDE DEF seg, new
<1>4. /\ conn' \in [Connections -> ConnectionType]
      /\ \A d \in Connections : conn'[d] = IF d = c THEN new ELSE conn[d]
      /\ threads' \in [ThreadKeys -> SUBSET ThreadStats]
      /\ \A k \in ThreadKeys : threads'[k] = IF k = t THEN {seg} ELSE Pruned[k]
  BY <1>0, <1>1, <1>2, <1>3
<1>5. ThreadsTyped'
  BY <1>1, <1>4 DEF ThreadsInv, ThreadsTyped
<1>6. OneSegment'
  BY <1>0, <1>4 DEF ThreadsInv, OneSegment
<1>7. SegmentIsOneAccount'
  BY <1>0, <1>2, <1>4 DEF ThreadsInv, SegmentIsOneAccount
<1>8. TurnsSound'
  BY <1>1, <1>3, <1>4 DEF ThreadsInv, TurnsSound
<1>9. LiveThreadKept'
  <2>1. ASSUME NEW d \in Connections, NEW k \in conn'[d].shown PROVE threads'[k] # {}
    <3>1. k \in ThreadKeys
      BY <1>4, <2>1 DEF ConnectionType
    <3>2. CASE k = t
      BY <1>4, <3>2
    <3>3. CASE k # t
      <4>1. k \in conn[d].shown
        BY <1>3, <1>4, <2>1, <3>3
      <4> QED
        BY <1>0, <1>4, <3>1, <3>3, <4>1 DEF ThreadsInv, LiveThreadKept
    <3> QED
      BY <3>2, <3>3
  <2> QED
    BY <2>1 DEF LiveThreadKept
<1>10. CountersRight'
  BY <1>1, <1>3, <1>4, NobodyMoves
<1> QED
  BY <1>5, <1>6, <1>7, <1>8, <1>9, <1>10 DEF ThreadsInv

LEMMA FinishStep ==
  ASSUME ThreadsInv, NEW c \in Connections, FinishTurn(c)
  PROVE  ThreadsInv'
<1>0. /\ conn \in [Connections -> ConnectionType] /\ conn[c] \in ConnectionType
      /\ threads \in [ThreadKeys -> SUBSET ThreadStats]
  BY DEF ThreadsInv, ThreadsTyped
<1> PICK t \in ThreadKeys, h \in Hosts : conn[c].thread = t /\ conn[c].account = h
  BY <1>0 DEF ConnectionType
<1> DEFINE Charge(x) == IF x.account = h THEN [x EXCEPT !.charged = @ \cup {h}] ELSE x
           new == [conn[c] EXCEPT !.turn = "none"]
<1>1. /\ threads' = [threads EXCEPT ![t] = {Charge(x) : x \in @}]
      /\ conn' = [conn EXCEPT ![c] = new]
      /\ UNCHANGED <<liveThreads, wsOpen, clock>>
  BY <1>0 DEF FinishTurn, Charges
<1>2. \A x \in threads[t] :
         /\ Charge(x) \in ThreadStats /\ Charge(x).account = x.account
         /\ Charge(x).charged \subseteq {x.account}
  BY <1>0 DEF ThreadStats, ThreadsInv, SegmentIsOneAccount
<1>3. /\ new \in ConnectionType /\ new.step = conn[c].step /\ new.account = h /\ new.thread = t
      /\ new.live = conn[c].live /\ new.shown = conn[c].shown /\ new.turn = "none"
  BY <1>0 DEF ConnectionType
<1> HIDE DEF Charge, new
<1>4. /\ conn' \in [Connections -> ConnectionType]
      /\ \A d \in Connections : conn'[d] = IF d = c THEN new ELSE conn[d]
      /\ threads' \in [ThreadKeys -> SUBSET ThreadStats]
      /\ \A k \in ThreadKeys : threads'[k] = IF k = t THEN {Charge(x) : x \in threads[t]} ELSE threads[k]
  BY <1>0, <1>1, <1>2, <1>3
<1>5. ThreadsTyped'
  BY <1>1, <1>4 DEF ThreadsInv, ThreadsTyped
<1>6. OneSegment'
  BY <1>4 DEF ThreadsInv, OneSegment
<1>7. SegmentIsOneAccount'
  BY <1>2, <1>4 DEF ThreadsInv, SegmentIsOneAccount
<1>8. TurnsSound'
  BY <1>1, <1>3, <1>4 DEF ThreadsInv, TurnsSound
<1>9. LiveThreadKept'
  <2>1. \A d \in Connections : conn'[d].shown = conn[d].shown /\ conn[d].shown \subseteq ThreadKeys
    BY <1>0, <1>3, <1>4 DEF ConnectionType
  <2>2. \A k \in ThreadKeys : threads[k] # {} => threads'[k] # {}
    BY <1>4
  <2> QED
    BY <2>1, <2>2 DEF ThreadsInv, LiveThreadKept
<1>10. CountersRight'
  BY <1>1, <1>3, <1>4, NobodyMoves
<1> QED
  BY <1>5, <1>6, <1>7, <1>8, <1>9, <1>10 DEF ThreadsInv

LEMMA CloseStep ==
  ASSUME ThreadsInv, NEW c \in Connections, CloseRelay(c)
  PROVE  ThreadsInv'
<1>0. /\ conn \in [Connections -> ConnectionType] /\ conn[c] \in ConnectionType
      /\ wsOpen \in [Hosts -> Nat]
  BY DEF ThreadsInv, ThreadsTyped
<1> PICK h \in Hosts : conn[c].account = h
  BY <1>0 DEF ConnectionType
<1> DEFINE new == [conn[c] EXCEPT !.step = "closing", !.turn = "none", !.shown = {}]
<1>1. /\ conn[c].step = "open" /\ new \in ConnectionType
      /\ conn' = [conn EXCEPT ![c] = new]
      /\ new.step = "closing" /\ new.turn = "none" /\ new.shown = {} /\ new.live = conn[c].live
      /\ wsOpen' = [wsOpen EXCEPT ![h] = @ - 1]
      /\ UNCHANGED <<threads, liveThreads, clock>>
  BY <1>0 DEF CloseRelay, ConnectionType
<1> HIDE DEF new
<1>2. conn' \in [Connections -> ConnectionType] /\ \A d \in Connections : conn'[d] = IF d = c THEN new ELSE conn[d]
  BY <1>0, <1>1
<1>3. /\ \A t : Workers(t)' = Workers(t)
      /\ Sockets(h)' = Sockets(h) \ {c} /\ c \in Sockets(h)
      /\ \A k \in Hosts \ {h} : Sockets(k)' = Sockets(k)
  BY <1>1, <1>2 DEF Workers, Sockets
<1>4. /\ Cardinality(Sockets(h)') = Cardinality(Sockets(h)) - 1
      /\ Cardinality(Sockets(h)) # 0
  <2>1. IsFiniteSet(Sockets(h))
    BY FiniteWorkers
  <2>2. Cardinality(Sockets(h) \ {c}) = Cardinality(Sockets(h)) - 1
    BY <1>3, <2>1, FS_RemoveElement
  <2>3. Cardinality(Sockets(h)) # 0
    BY <1>3, <2>1, FS_EmptySet
  <2> QED
    BY <1>3, <2>2, <2>3
<1>5. /\ wsOpen' \in [Hosts -> Nat]
      /\ \A k \in Hosts : wsOpen'[k] = IF k = h THEN wsOpen[k] - 1 ELSE wsOpen[k]
  <2>1. wsOpen[h] = Cardinality(Sockets(h)) /\ wsOpen[h] \in Nat
    BY <1>0 DEF ThreadsInv, CountersRight
  <2>2. wsOpen[h] - 1 \in Nat
    BY <1>4, <2>1
  <2> QED
    BY <1>0, <1>1, <2>2
<1>6. CountersRight'
  <2>1. \A t \in ThreadKeys : liveThreads'[t] = Cardinality(Workers(t)')
    BY <1>1, <1>3 DEF ThreadsInv, CountersRight
  <2>2. \A k \in Hosts : wsOpen[k] = Cardinality(Sockets(k))
    BY DEF ThreadsInv, CountersRight
  <2>3. \A k \in Hosts : wsOpen'[k] = Cardinality(Sockets(k)')
    BY <1>3, <1>4, <1>5, <2>2
  <2> QED
    BY <2>1, <2>3 DEF CountersRight
<1>7. ThreadsTyped' /\ OneSegment' /\ SegmentIsOneAccount'
  BY <1>1, <1>2, <1>5 DEF ThreadsInv, ThreadsTyped, OneSegment, SegmentIsOneAccount
<1>8. TurnsSound' /\ LiveThreadKept'
  BY <1>1, <1>2 DEF ThreadsInv, TurnsSound, LiveThreadKept
<1> QED
  BY <1>6, <1>7, <1>8 DEF ThreadsInv

LEMMA DeactivateStep ==
  ASSUME ThreadsInv, NEW c \in Connections, NEW t \in ThreadKeys, DeactivateThread(c, t)
  PROVE  ThreadsInv'
<1>0. /\ conn \in [Connections -> ConnectionType] /\ conn[c] \in ConnectionType
      /\ liveThreads \in [ThreadKeys -> Nat]
  BY DEF ThreadsInv, ThreadsTyped
<1> DEFINE new == [conn[c] EXCEPT !.live = @ \ {t}]
<1>1. /\ conn[c].step = "closing" /\ t \in conn[c].live /\ new \in ConnectionType
      /\ conn' = [conn EXCEPT ![c] = new]
      /\ new.step = conn[c].step /\ new.turn = conn[c].turn /\ new.shown = conn[c].shown
      /\ new.account = conn[c].account /\ new.live = conn[c].live \ {t}
      /\ liveThreads' = [liveThreads EXCEPT ![t] = IF @ = 0 THEN 0 ELSE @ - 1]
      /\ UNCHANGED <<threads, wsOpen, clock>>
  BY <1>0 DEF DeactivateThread, ConnectionType
<1> HIDE DEF new
<1>2. conn' \in [Connections -> ConnectionType] /\ \A d \in Connections : conn'[d] = IF d = c THEN new ELSE conn[d]
  BY <1>0, <1>1
<1>3. /\ \A h : Sockets(h)' = Sockets(h)
      /\ Workers(t)' = Workers(t) \ {c} /\ c \in Workers(t)
      /\ \A k \in ThreadKeys \ {t} : Workers(k)' = Workers(k)
  BY <1>1, <1>2 DEF Workers, Sockets
<1>4. /\ Cardinality(Workers(t)') = Cardinality(Workers(t)) - 1
      /\ Cardinality(Workers(t)) # 0
  <2>1. IsFiniteSet(Workers(t))
    BY FiniteWorkers
  <2>2. Cardinality(Workers(t) \ {c}) = Cardinality(Workers(t)) - 1
    BY <1>3, <2>1, FS_RemoveElement
  <2>3. Cardinality(Workers(t)) # 0
    BY <1>3, <2>1, FS_EmptySet
  <2> QED
    BY <1>3, <2>2, <2>3
<1>5. /\ liveThreads' \in [ThreadKeys -> Nat]
      /\ \A k \in ThreadKeys : liveThreads'[k] = IF k = t THEN liveThreads[k] - 1 ELSE liveThreads[k]
  BY <1>0, <1>1, <1>4 DEF ThreadsInv, CountersRight
<1>6. CountersRight'
  BY <1>1, <1>3, <1>4, <1>5 DEF ThreadsInv, CountersRight
<1>7. ThreadsTyped' /\ OneSegment' /\ SegmentIsOneAccount'
  BY <1>1, <1>2, <1>5 DEF ThreadsInv, ThreadsTyped, OneSegment, SegmentIsOneAccount
<1>8. TurnsSound' /\ LiveThreadKept'
  BY <1>1, <1>2 DEF ThreadsInv, TurnsSound, LiveThreadKept
<1> QED
  BY <1>6, <1>7, <1>8 DEF ThreadsInv

LEMMA ThreadsStep == ASSUME ThreadsInv, [ThreadsNext]_threadsVars PROVE ThreadsInv'
<1>1. CASE UNCHANGED threadsVars
  BY <1>1, HistoryChanges DEF threadsVars, ThreadsInv, ThreadsTyped
<1>2. CASE ShowThreads
  BY <1>2, HistoryChanges DEF ShowThreads, ThreadsInv, ThreadsTyped
<1>3. CASE TimePasses
  <2>1. clock' \in Times
    BY <1>3, ThreadsAssumption DEF TimePasses, ThreadsInv, ThreadsTyped, Times
  <2> QED
    BY <1>3, <2>1, HistoryChanges DEF TimePasses
<1>4. ASSUME NEW c \in Connections, NEW h \in Hosts, OpenRelay(c, h) \/ SwitchRelay(c, h)
      PROVE  ThreadsInv'
  BY <1>4, OpenStep, SwitchStep
<1>5. ASSUME NEW c \in Connections, NEW t \in ThreadKeys, StartTurn(c, t) \/ DeactivateThread(c, t)
      PROVE  ThreadsInv'
  BY <1>5, TurnStep, DeactivateStep
<1>6. ASSUME NEW c \in Connections,
             ActivateThread(c) \/ RecordAccepted(c) \/ FinishTurn(c) \/ CloseRelay(c)
      PROVE  ThreadsInv'
  BY <1>6, ActivateStep, AcceptStep, FinishStep, CloseStep
<1>7. ASSUME NEW c \in Connections, CloseEnds(c) PROVE ThreadsInv'
  <2>1. PICK t \in ThreadKeys : TRUE
    BY ThreadsAssumption
  <2> QED
    BY <1>7, TurnStep
<1> QED
  BY <1>1, <1>2, <1>3, <1>4, <1>5, <1>6, <1>7 DEF ThreadsNext

-----------------------------------------------------------------------------

THEOREM ThreadsInductive == ThreadsSpec => []ThreadsInv
<1>1. ThreadsInv /\ [ThreadsNext]_threadsVars => ThreadsInv'
  BY ThreadsStep
<1> QED
  BY ThreadsStart, <1>1, PTL DEF ThreadsSpec

(* ThreadsTyped; no counter exceeds the number of connections.                    *)
THEOREM ThreadTypesHold == ThreadsSpec => []ThreadsTypeOK
<1>1. ASSUME ThreadsInv PROVE ThreadsTypeOK
  <2>1. \A t \in ThreadKeys : Cardinality(threads[t]) <= 1
    <3> TAKE t \in ThreadKeys
    <3>1. CASE threads[t] = {}
      BY <3>1, FS_EmptySet
    <3>2. CASE threads[t] # {}
      <4>1. PICK x : threads[t] = {x}
        BY <1>1, <3>2 DEF ThreadsInv, OneSegment
      <4>2. Cardinality({x}) = 1
        BY FS_Singleton
      <4> QED
        BY <4>1, <4>2
    <3> QED
      BY <3>1, <3>2
  <2>2. liveThreads \in [ThreadKeys -> 0..Cardinality(Connections)]
    BY <1>1, FiniteWorkers DEF ThreadsInv, ThreadsTyped, CountersRight
  <2>3. wsOpen \in [Hosts -> 0..Cardinality(Connections)]
    BY <1>1, FiniteWorkers DEF ThreadsInv, ThreadsTyped, CountersRight
  <2> QED
    BY <1>1, <2>1, <2>2, <2>3 DEF ThreadsInv, ThreadsTyped, ThreadsTypeOK
<1> QED
  BY <1>1, ThreadsInductive, PTL

(* The counters are those of the connections, through turns, switches and  *)
(* closes at any point.                                                    *)
THEOREM CountersAgreeHolds == ThreadsSpec => []CountersAgree
<1>1. ThreadsInv => CountersAgree
  BY DEF ThreadsInv, CountersRight, Workers, Sockets, CountersAgree
<1> QED
  BY <1>1, ThreadsInductive, PTL

(* A thread that a connection works on keeps its history.                  *)
THEOREM LiveThreadKeptHolds == ThreadsSpec => []LiveThreadKept
<1>1. ThreadsInv => LiveThreadKept
  BY DEF ThreadsInv
<1> QED
  BY <1>1, ThreadsInductive, PTL

(* A segment sums up the usage of one account.                             *)
THEOREM SegmentIsOneAccountHolds == ThreadsSpec => []SegmentIsOneAccount
<1>1. ThreadsInv => SegmentIsOneAccount
  BY DEF ThreadsInv
<1> QED
  BY <1>1, ThreadsInductive, PTL

(* What is shown of threads is true of the connections.                    *)
THEOREM ThreadsAreTrueHolds == ThreadsSpec => []ThreadsAreTrue
  BY CountersAgreeHolds, LiveThreadKeptHolds, SegmentIsOneAccountHolds, PTL DEF ThreadsAreTrue

------------------------------------------------------------------------------
(* UsageBooks: books that agree with a count of events.                    *)

AnyCost == [paid: Nat, unpriced: Nat]
AnyBooks == [month: Nat, cost: AnyCost, last: AnyCost, accounts: [Payers -> AnyCost], prices: Nat]
Numbers == [SUBSET UsageEvent -> Int]

(* number tells of every set of events how many of them are in the books.  *)
Agrees(b, number) ==
    /\ b.cost = CostOf(number[Of(b.month)], b.prices)
    /\ b.last = CostOf(number[Before(b.month)], b.prices)
    /\ \A a \in Payers : b.accounts[a] = CostOf(number[OfAccount(b.month, a)], b.prices)

(* The books are in the month of the latest event, or in a later one.      *)
InTime(b, number) ==
    \A E \in SUBSET UsageEvent : (\A e \in E : e.at > b.month) => number[E] = 0

With(number, e) == [E \in SUBSET UsageEvent |-> number[E] + (IF e \in E THEN 1 ELSE 0)]

LEMMA EventTypes ==
    /\ \A e \in UsageEvent : e.at \in Nat
    /\ \A m : Of(m) \in SUBSET UsageEvent /\ Before(m) \in SUBSET UsageEvent
    /\ \A m : From(m) \in SUBSET UsageEvent
    /\ \A m, a : OfAccount(m, a) \in SUBSET UsageEvent
BY BooksAssumption DEF UsageEvent, Months, Of, Before, From, OfAccount

LEMMA OneMore ==
    ASSUME NEW n \in Int, NEW price \in Nat
    PROVE  Plus(CostOf(n, price), price) = CostOf(n + 1, price)
<1>1. CASE price = 0
  BY <1>1 DEF Plus, CostOf
<1>2. CASE price # 0
  <2>1. (n + 1) * price = n * price + price
    OBVIOUS
  <2> QED
    BY <1>2, <2>1 DEF Plus, CostOf
<1> QED
  BY <1>1, <1>2

LEMMA PlusType ==
    ASSUME NEW c \in AnyCost, NEW price \in Nat
    PROVE  Plus(c, price) \in AnyCost
BY DEF Plus, AnyCost

LEMMA NoneYet ==
    ASSUME NEW price \in Nat
    PROVE  NoCost = CostOf(0, price) /\ NoCost \in AnyCost
BY DEF NoCost, CostOf, AnyCost

(* The end of a month, seen now or several months later.                   *)
LEMMA SyncedAgrees ==
    ASSUME NEW b \in AnyBooks, NEW number \in Numbers, NEW m \in Nat, b.month <= m,
           Agrees(b, number), InTime(b, number)
    PROVE  /\ Synced(b, m) \in AnyBooks
           /\ Synced(b, m).month = m /\ Synced(b, m).prices = b.prices
           /\ Agrees(Synced(b, m), number) /\ InTime(Synced(b, m), number)
<1> DEFINE s == Synced(b, m)
<1>1. b.month \in Nat /\ b.prices \in Nat /\ b.cost \in AnyCost
  BY DEF AnyBooks
<1>2. CASE m = b.month
  BY <1>2 DEF Synced
<1>3. CASE m > b.month
  <2>1. /\ s.month = m /\ s.prices = b.prices /\ s.cost = NoCost
        /\ s.accounts = [a \in Payers |-> NoCost]
        /\ s.last = IF m = b.month + 1 THEN b.cost ELSE NoCost
        /\ s \in AnyBooks
    BY <1>1, <1>3, NoneYet DEF Synced, Opening, AnyBooks
  <2> HIDE DEF s
  <2>2. NoCost = CostOf(0, b.prices)
    BY <1>1, NoneYet
  <2>3. InTime(s, number)
    BY <1>1, <1>3, <2>1, EventTypes DEF InTime
  <2>4. /\ number[Of(m)] = 0
        /\ \A a \in Payers : number[OfAccount(m, a)] = 0
        /\ m # b.month + 1 => number[Before(m)] = 0
        /\ m = b.month + 1 => Before(m) = Of(b.month)
    <3>1. \A e \in Of(m) : e.at > b.month
      BY <1>3 DEF Of
    <3>2. ASSUME NEW a \in Payers PROVE \A e \in OfAccount(m, a) : e.at > b.month
      BY <3>1 DEF OfAccount
    <3>3. ASSUME m # b.month + 1 PROVE \A e \in Before(m) : e.at > b.month
      BY <1>1, <1>3, <3>3, EventTypes DEF Before
    <3>4. ASSUME m = b.month + 1 PROVE Before(m) = Of(b.month)
      BY <1>1, <3>4, EventTypes DEF Before, Of
    <3> QED
      BY <3>1, <3>2, <3>3, <3>4, EventTypes DEF InTime
  <2>5. s.last = CostOf(number[Before(m)], b.prices)
    BY <2>1, <2>2, <2>4 DEF Agrees
  <2>6. Agrees(s, number)
    BY <2>1, <2>2, <2>4, <2>5 DEF Agrees
  <2> QED
    BY <2>1, <2>3, <2>6 DEF s
<1> QED
  BY <1>1, <1>2, <1>3

(* An event more, of this month, the last, an earlier or a new one.        *)
LEMMA AppliedAgrees ==
    ASSUME NEW b \in AnyBooks, NEW number \in Numbers, NEW e \in UsageEvent,
           Agrees(b, number), InTime(b, number)
    PROVE  /\ Applied(b, e) \in AnyBooks
           /\ Applied(b, e).prices = b.prices
           /\ Applied(b, e).month = IF e.at > b.month THEN e.at ELSE b.month
           /\ Agrees(Applied(b, e), With(number, e))
           /\ InTime(Applied(b, e), With(number, e))
<1> DEFINE c == Applied(b, e)
           more == With(number, e)
<1>1. /\ b.month \in Nat /\ b.prices \in Nat /\ b.cost \in AnyCost /\ b.last \in AnyCost
      /\ b.accounts \in [Payers -> AnyCost]
  BY DEF AnyBooks
<1>2. e.at \in Nat
  BY EventTypes
<1>3. \A E \in SUBSET UsageEvent :
         more[E] = (IF e \in E THEN number[E] + 1 ELSE number[E]) /\ number[E] \in Int
  BY DEF With, Numbers
<1>4. /\ \A m : e \in Of(m) <=> e.at = m
      /\ \A m : e \in Before(m) <=> e.at + 1 = m
      /\ \A m, a : e \in OfAccount(m, a) <=> e.at = m /\ e.account = a
  BY DEF Of, Before, OfAccount
<1> HIDE DEF more
<1>5. CASE e.at + 1 = b.month
  <2>1. c = [b EXCEPT !.last = Plus(@, b.prices)]
    BY <1>1, <1>2, <1>5 DEF Applied
  <2>2. /\ c \in AnyBooks /\ c.month = b.month /\ c.prices = b.prices /\ c.cost = b.cost
        /\ c.accounts = b.accounts /\ c.last = Plus(b.last, b.prices)
    BY <1>1, <2>1, PlusType DEF AnyBooks
  <2> HIDE DEF c
  <2>3. Agrees(c, more)
    BY <1>1, <1>2, <1>3, <1>4, <1>5, <2>2, EventTypes, OneMore DEF Agrees
  <2>4. InTime(c, more)
    BY <1>1, <1>2, <1>3, <1>5, <2>2 DEF InTime
  <2> QED
    BY <1>1, <1>2, <1>5, <2>2, <2>3, <2>4 DEF c, more
<1>6. CASE e.at + 1 < b.month
  <2>1. c = b
    BY <1>1, <1>2, <1>6 DEF Applied
  <2> HIDE DEF c
  <2>2. Agrees(c, more)
    BY <1>1, <1>2, <1>3, <1>4, <1>6, <2>1, EventTypes DEF Agrees
  <2>3. InTime(c, more)
    BY <1>1, <1>2, <1>3, <1>6, <2>1 DEF InTime
  <2> QED
    BY <1>1, <1>2, <1>6, <2>1, <2>2, <2>3 DEF c, more
<1>7. CASE e.at >= b.month
  <2> DEFINE s == Synced(b, e.at)
  <2>1. /\ s \in AnyBooks /\ s.month = e.at /\ s.prices = b.prices
        /\ Agrees(s, number) /\ InTime(s, number)
    BY <1>1, <1>2, <1>7, SyncedAgrees
  <2>2. c = Charged(s, e.account)
    BY <1>1, <1>2, <1>7 DEF Applied
  <2> HIDE DEF s, c
  <2>3. /\ s.month \in Nat /\ s.cost \in AnyCost /\ s.last \in AnyCost
        /\ s.accounts \in [Payers -> AnyCost]
    BY <2>1 DEF AnyBooks
  <2>4. /\ c.month = e.at /\ c.prices = b.prices /\ c.last = s.last
        /\ c.cost = Plus(s.cost, b.prices)
        /\ \A a \in Payers :
              c.accounts[a] = IF a = e.account THEN Plus(s.accounts[a], b.prices)
                              ELSE s.accounts[a]
        /\ c \in AnyBooks
    BY <1>1, <2>1, <2>2, <2>3, PlusType DEF AnyBooks, Charged
  <2>5. /\ c.cost = CostOf(more[Of(e.at)], b.prices)
        /\ c.last = CostOf(more[Before(e.at)], b.prices)
    BY <1>1, <1>2, <1>3, <1>4, <2>1, <2>4, EventTypes, OneMore DEF Agrees
  <2>6. ASSUME NEW a \in Payers
        PROVE  c.accounts[a] = CostOf(more[OfAccount(e.at, a)], b.prices)
    BY <1>1, <1>2, <1>3, <1>4, <2>1, <2>4, EventTypes, OneMore DEF Agrees
  <2>7. Agrees(c, more)
    BY <2>4, <2>5, <2>6 DEF Agrees
  <2>8. InTime(c, more)
    BY <1>1, <1>2, <1>3, <2>1, <2>4 DEF InTime
  <2> QED
    BY <1>1, <1>2, <1>7, <2>4, <2>7, <2>8 DEF c, more
<1> QED
  BY <1>1, <1>2, <1>5, <1>6, <1>7

------------------------------------------------------------------------------
(* Counting, and the books of what is stored.                              *)

LEMMA Counting ==
    ASSUME NEW s \in Seq(UsageEvent), NEW E
    PROVE  /\ Count(s, 0, E) = 0
           /\ \A n \in Nat : Count(s, n, E) \in Nat
           /\ \A n \in Nat \ {0} :
                 Count(s, n, E) = Count(s, n - 1, E) + (IF s[n] \in E THEN 1 ELSE 0)
<1> DEFINE Among(n) == {i \in 1..n : s[i] \in E}
<1>1. Count(s, 0, E) = 0
  <2>1. Among(0) = {}
    OBVIOUS
  <2> QED
    BY <2>1, FS_EmptySet DEF Count
<1>2. ASSUME NEW n \in Nat
      PROVE  IsFiniteSet(Among(n)) /\ Count(s, n, E) \in Nat
  <2>1. IsFiniteSet(1..n) /\ Among(n) \in SUBSET (1..n)
    BY FS_Interval
  <2> QED
    BY <2>1, FS_Subset, FS_CardinalityType DEF Count
<1>3. ASSUME NEW n \in Nat \ {0}
      PROVE  Count(s, n, E) = Count(s, n - 1, E) + (IF s[n] \in E THEN 1 ELSE 0)
  <2>1. n \notin Among(n - 1) /\ n - 1 \in Nat
    OBVIOUS
  <2>2. IsFiniteSet(Among(n - 1)) /\ Count(s, n - 1, E) \in Nat
    BY <1>2, <2>1
  <2>3. CASE s[n] \in E
    <3>1. Among(n) = Among(n - 1) \cup {n}
      BY <2>3
    <3>2. Cardinality(Among(n)) = Cardinality(Among(n - 1)) + 1
      <4> HIDE DEF Among
      <4> QED
        BY <2>1, <2>2, <3>1, FS_AddElement
    <3> QED
      BY <2>3, <3>2 DEF Count
  <2>4. CASE s[n] \notin E
    <3>1. Among(n) = Among(n - 1)
      BY <2>4
    <3>2. Count(s, n, E) = Count(s, n - 1, E)
      BY <3>1 DEF Count
    <3> QED
      BY <2>2, <2>4, <3>2
  <2> QED
    BY <2>3, <2>4
<1> QED
  BY <1>1, <1>2, <1>3

(* What comes after the first n events does not change their count.        *)
LEMMA CountOfPrefix ==
    ASSUME NEW s, NEW t, NEW n \in Nat, NEW E, \A i \in 1..n : s[i] = t[i]
    PROVE  Count(s, n, E) = Count(t, n, E)
BY DEF Count

CountTo(n) == [E \in SUBSET UsageEvent |-> Count(usage, n, E)]

LEMMA AppliedType ==
    ASSUME NEW b \in AnyBooks, NEW e \in UsageEvent
    PROVE  Applied(b, e) \in AnyBooks
<1> DEFINE s == Synced(b, e.at)
<1>1. /\ b.month \in Nat /\ b.prices \in Nat /\ b.cost \in AnyCost /\ b.last \in AnyCost
      /\ e.at \in Nat
  BY EventTypes DEF AnyBooks
<1>2. s \in AnyBooks
  BY <1>1, NoneYet DEF Synced, Opening, AnyBooks
<1> HIDE DEF s
<1>3. Charged(s, e.account) \in AnyBooks
  <2>1. /\ s.cost \in AnyCost /\ s.prices \in Nat /\ s.accounts \in [Payers -> AnyCost]
    BY <1>2 DEF AnyBooks
  <2>2. Plus(s.cost, s.prices) \in AnyCost
    BY <2>1, PlusType
  <2>3. [a \in Payers |-> IF a = e.account THEN Plus(s.accounts[a], s.prices)
                          ELSE s.accounts[a]] \in [Payers -> AnyCost]
    BY <2>1, PlusType
  <2> QED
    BY <1>2, <2>1, <2>2, <2>3 DEF AnyBooks, Charged
<1>4. [b EXCEPT !.last = Plus(b.last, b.prices)] \in AnyBooks
  BY <1>1, PlusType DEF AnyBooks
<1> QED
  BY <1>1, <1>3, <1>4 DEF Applied, s

(* newPersistentStats and reprice: the events one after the other make the *)
(* books that agree with all of them.                                      *)
LEMMA RebuiltAgrees ==
    ASSUME usage \in Seq(UsageEvent), NEW m \in Nat, NEW price \in Nat,
           \A i \in DOMAIN usage : usage[i].at <= m
    PROVE  /\ Rebuilt(m, price) \in AnyBooks
           /\ Rebuilt(m, price).month = m /\ Rebuilt(m, price).prices = price
           /\ Agrees(Rebuilt(m, price), CountTo(Len(usage)))
           /\ InTime(Rebuilt(m, price), CountTo(Len(usage)))
<1> DEFINE last == Len(usage)
           Loop(f) == [n \in 0..last |->
                          IF n = 0 THEN Opening(m, price) ELSE Applied(f[n - 1], usage[n])]
           sum == CHOOSE f : f = Loop(f)
           next == [n \in 0..last |->
                       [b \in AnyBooks |-> IF n = 0 THEN b ELSE Applied(b, usage[n])]]
<1>1. last \in Nat /\ DOMAIN usage = 1..last /\ \A n \in 1..last : usage[n] \in UsageEvent
  OBVIOUS
<1>2. Opening(m, price) \in AnyBooks
  BY NoneYet DEF Opening, AnyBooks
<1>3. Rebuilt(m, price) = sum[last]
  BY DEF Rebuilt
<1> HIDE DEF last
<1>4. sum = Loop(sum)
  <2>1. next \in [0..last -> [AnyBooks -> AnyBooks]]
    <3>1. ASSUME NEW n \in 0..last, NEW b \in AnyBooks
          PROVE  (IF n = 0 THEN b ELSE Applied(b, usage[n])) \in AnyBooks
      BY <1>1, AppliedType
    <3> QED
      BY <3>1
  <2> HIDE DEF next
  <2>2. PICK f \in [0..last -> AnyBooks] :
           /\ f[0] = Opening(m, price)
           /\ \A n \in 0..last : n > 0 => f[n] = next[n][f[n - 1]]
    <3>1. 0 \in Nat /\ last \in Nat /\ 0 <= last
      BY <1>1
    <3>2. HasValues(AnyBooks, Opening(m, price), 0, last, next)
      BY <1>2, <2>1, <3>1, LoopValues
    <3> QED
      BY <3>2 DEF HasValues
  <2>3. ASSUME NEW n \in 0..last
        PROVE  f[n] = IF n = 0 THEN Opening(m, price) ELSE Applied(f[n - 1], usage[n])
    <3>1. CASE n = 0
      BY <2>2, <3>1
    <3>2. CASE n # 0
      <4>1. n > 0 /\ n - 1 \in 0..last /\ f[n - 1] \in AnyBooks
        BY <1>1, <3>2
      <4>2. next[n][f[n - 1]] = Applied(f[n - 1], usage[n])
        BY <3>2, <4>1 DEF next
      <4> QED
        BY <2>2, <3>2, <4>1, <4>2
    <3> QED
      BY <3>1, <3>2
  <2>4. f = Loop(f)
    BY <2>3
  <2> QED
    BY <2>4
<1> HIDE DEF sum
<1>5. /\ sum[0] = Opening(m, price)
      /\ \A n \in 0..last : n > 0 => sum[n] = Applied(sum[n - 1], usage[n])
  BY <1>1, <1>4
<1> DEFINE Fine(n) == /\ sum[n] \in AnyBooks /\ sum[n].month = m
                      /\ sum[n].prices = price
                      /\ Agrees(sum[n], CountTo(n)) /\ InTime(sum[n], CountTo(n))
           Good == {n \in 0..last : Fine(n)}
<1>6. \A n \in Nat : CountTo(n) \in Numbers
  <2>1. ASSUME NEW n \in Nat, NEW E \in SUBSET UsageEvent PROVE Count(usage, n, E) \in Int
    <3>1. Count(usage, n, E) \in Nat
      BY Counting, Zenon
    <3> QED
      BY <3>1
  <2> QED
    BY <2>1 DEF CountTo, Numbers
<1>7. 0 \in Good
  <2>1. \A E \in SUBSET UsageEvent : CountTo(0)[E] = 0
    BY Counting DEF CountTo
  <2>2. NoCost = CostOf(0, price)
    BY NoneYet
  <2>3. Agrees(Opening(m, price), CountTo(0))
    BY <2>1, <2>2, EventTypes DEF Agrees, Opening
  <2>4. InTime(Opening(m, price), CountTo(0)) /\ Opening(m, price).month = m
        /\ Opening(m, price).prices = price
    BY <2>1 DEF InTime, Opening
  <2> QED
    BY <1>1, <1>2, <1>5, <2>3, <2>4
<1>8. ASSUME NEW n \in 0..last, n > 0, n - 1 \in Good
      PROVE  n \in Good
  <2>1. Fine(n - 1) /\ n - 1 \in Nat /\ usage[n] \in UsageEvent /\ usage[n].at <= m
    BY <1>1, <1>8
  <2>2. sum[n] = Applied(sum[n - 1], usage[n])
    BY <1>5, <1>8
  <2>3. CountTo(n) = With(CountTo(n - 1), usage[n])
    <3>1. \A E \in SUBSET UsageEvent :
             Count(usage, n, E) = Count(usage, n - 1, E) + (IF usage[n] \in E THEN 1 ELSE 0)
      <4>1. n \in Nat \ {0}
        BY <1>1, <1>8
      <4> QED
        BY <4>1, Counting, Zenon
    <3> QED
      BY <3>1 DEF CountTo, With
  <2>4. usage[n].at \in Nat
    BY <2>1, EventTypes
  <2>5. Fine(n)
    BY <1>6, <2>1, <2>2, <2>3, <2>4, AppliedAgrees
  <2> QED
    BY <2>5
<1>9. last \in Good
  <2> HIDE DEF Fine
  <2>1. Good \in SUBSET (0..last) /\ last \in 0..last
    BY <1>1
  <2> HIDE DEF Good
  <2>2. \A n \in 0..last : n > 0 /\ n - 1 \in Good => n \in Good
    BY <1>8
  <2>3. \A n \in 0..last : n \in Good
    BY <1>1, <1>7, <2>1, <2>2, Upwards
  <2> QED
    BY <2>1, <2>3
<1> QED
  BY <1>3, <1>9 DEF last

------------------------------------------------------------------------------
(* UsageBooks: the ledger.                                                 *)

AnyLedger == [month: Nat, prices: Nat, lastID: Nat, cost: AnyCost, lifetime: AnyCost]

(* The ledger has read the first n events.                                 *)
ReadTo(l, n) ==
    /\ l.lastID = n
    /\ l.lifetime = CostOf(n, l.prices)
    /\ l.cost = CostOf(Count(usage, n, From(l.month)), l.prices)

LEMMA EnteredType ==
    ASSUME NEW l \in AnyLedger, NEW e, NEW price \in Nat
    PROVE  Entered(l, e, price) \in AnyLedger
<1>1. l.lastID \in Nat /\ l.lifetime \in AnyCost /\ l.cost \in AnyCost
  BY DEF AnyLedger
<1>2. l.lastID + 1 \in Nat /\ Plus(l.lifetime, price) \in AnyCost /\ Plus(l.cost, price) \in AnyCost
  BY <1>1, PlusType
<1> QED
  BY <1>1, <1>2 DEF Entered, AnyLedger

LEMMA EnteredReads ==
    ASSUME usage \in Seq(UsageEvent), NEW l \in AnyLedger, NEW n \in 1..Len(usage),
           ReadTo(l, n - 1)
    PROVE  LET k == Entered(l, usage[n], l.prices)
           IN  ReadTo(k, n) /\ k.month = l.month /\ k.prices = l.prices
<1> DEFINE k == Entered(l, usage[n], l.prices)
           E == From(l.month)
<1>1. /\ l.prices \in Nat /\ l.month \in Nat /\ usage[n] \in UsageEvent
      /\ n \in Nat \ {0} /\ n - 1 \in Nat
  BY DEF AnyLedger
<1>2. /\ k.lastID = l.lastID + 1 /\ k.month = l.month /\ k.prices = l.prices
      /\ k.lifetime = Plus(l.lifetime, l.prices)
      /\ k.cost = IF usage[n].at >= l.month THEN Plus(l.cost, l.prices) ELSE l.cost
  BY DEF Entered, AnyLedger
<1> HIDE DEF k
<1>3. /\ Count(usage, n, E) = Count(usage, n - 1, E) + (IF usage[n] \in E THEN 1 ELSE 0)
      /\ Count(usage, n - 1, E) \in Nat
  <2> HIDE DEF E
  <2>1. /\ \A i \in Nat : Count(usage, i, E) \in Nat
        /\ \A i \in Nat \ {0} :
              Count(usage, i, E) = Count(usage, i - 1, E) + (IF usage[i] \in E THEN 1 ELSE 0)
    BY Counting, Zenon
  <2> QED
    BY <1>1, <2>1, Zenon
<1>4. usage[n] \in E <=> usage[n].at >= l.month
  BY <1>1 DEF From
<1> HIDE DEF E
<1>5. k.lastID = n /\ k.lifetime = CostOf(n, l.prices)
  <2>1. Plus(CostOf(n - 1, l.prices), l.prices) = CostOf((n - 1) + 1, l.prices)
    <3>1. n - 1 \in Int /\ l.prices \in Nat
      BY <1>1
    <3> QED
      BY <3>1, OneMore, Zenon
  <2> QED
    BY <1>1, <1>2, <2>1 DEF ReadTo
<1>6. k.cost = CostOf(Count(usage, n, E), l.prices)
  <2> DEFINE c == Count(usage, n - 1, E)
  <2>1. l.cost = CostOf(c, l.prices) /\ c \in Nat
    BY <1>3 DEF ReadTo, E
  <2>2. Plus(CostOf(c, l.prices), l.prices) = CostOf(c + 1, l.prices)
    <3>1. c \in Int /\ l.prices \in Nat
      BY <1>1, <2>1
    <3> QED
      BY <3>1, OneMore, Zenon
  <2>3. Count(usage, n, E) = IF usage[n].at >= l.month THEN c + 1 ELSE c
    BY <1>3, <1>4
  <2> HIDE DEF c
  <2> QED
    BY <1>2, <2>1, <2>2, <2>3
<1> QED
  BY <1>2, <1>5, <1>6 DEF ReadTo, E, k

(* totals: a batch of events, one after the other.                         *)
LEMMA BatchReads ==
    ASSUME usage \in Seq(UsageEvent), ledger \in AnyLedger,
           NEW last \in Nat, ledger.lastID <= last, last <= Len(usage),
           ReadTo(ledger, ledger.lastID)
    PROVE  LET k == Batch(last, ledger.prices)
           IN  /\ k \in AnyLedger /\ ReadTo(k, last)
               /\ k.month = ledger.month /\ k.prices = ledger.prices
<1> DEFINE first == ledger.lastID
           price == ledger.prices
           Loop(f) == [n \in first..last |->
                          IF n = first THEN ledger ELSE Entered(f[n - 1], usage[n], price)]
           read == CHOOSE f : f = Loop(f)
           next == [n \in first..last |->
                       [l \in AnyLedger |-> Entered(l, usage[n], price)]]
<1>1. first \in Nat /\ first <= last /\ price \in Nat
  BY DEF AnyLedger
<1>2. Batch(last, price) = read[last]
  BY DEF Batch
<1> HIDE DEF first, price
<1>3. read = Loop(read)
  <2>1. next \in [first..last -> [AnyLedger -> AnyLedger]]
    BY <1>1, EnteredType
  <2> HIDE DEF next
  <2>2. HasValues(AnyLedger, ledger, first, last, next)
    BY <1>1, <2>1, LoopValues
  <2>3. PICK f \in [first..last -> AnyLedger] :
           /\ f[first] = ledger
           /\ \A n \in first..last : n > first => f[n] = next[n][f[n - 1]]
    BY <2>2 DEF HasValues
  <2>4. ASSUME NEW n \in first..last
        PROVE  f[n] = IF n = first THEN ledger ELSE Entered(f[n - 1], usage[n], price)
    <3>1. CASE n = first
      BY <2>3, <3>1
    <3>2. CASE n # first
      <4>1. n > first /\ n - 1 \in first..last /\ f[n - 1] \in AnyLedger
        BY <1>1, <3>2
      <4>2. next[n][f[n - 1]] = Entered(f[n - 1], usage[n], price)
        BY <4>1 DEF next
      <4> QED
        BY <2>3, <3>2, <4>1, <4>2
    <3> QED
      BY <3>1, <3>2
  <2>5. f = Loop(f)
    BY <2>4
  <2> QED
    BY <2>5
<1> HIDE DEF read
<1>4. /\ read[first] = ledger
      /\ \A n \in first..last : n > first => read[n] = Entered(read[n - 1], usage[n], price)
  BY <1>1, <1>3
<1> DEFINE Fine(n) == /\ read[n] \in AnyLedger /\ ReadTo(read[n], n)
                      /\ read[n].month = ledger.month /\ read[n].prices = price
           Good == {n \in first..last : Fine(n)}
<1>5. first \in Good
  BY <1>1, <1>4 DEF first, price
<1>6. ASSUME NEW n \in first..last, n > first, n - 1 \in Good
      PROVE  n \in Good
  <2>1. Fine(n - 1) /\ n \in 1..Len(usage)
    BY <1>1, <1>6
  <2>2. read[n] = Entered(read[n - 1], usage[n], price)
    BY <1>4, <1>6
  <2> DEFINE l == read[n - 1]
  <2>3. l \in AnyLedger /\ ReadTo(l, n - 1) /\ l.prices = price /\ l.month = ledger.month
    BY <2>1
  <2>4. read[n] = Entered(l, usage[n], l.prices)
    BY <2>2, <2>3
  <2> HIDE DEF l
  <2>5. read[n] \in AnyLedger
    BY <1>1, <2>3, <2>4, EnteredType
  <2>6. ReadTo(read[n], n) /\ read[n].month = l.month /\ read[n].prices = l.prices
    BY <2>1, <2>3, <2>4, EnteredReads
  <2> QED
    BY <2>3, <2>5, <2>6
<1>7. last \in Good
  <2> HIDE DEF Fine
  <2>1. Good \in SUBSET (first..last) /\ last \in first..last
    BY <1>1
  <2> HIDE DEF Good
  <2>2. \A n \in first..last : n > first /\ n - 1 \in Good => n \in Good
    BY <1>6
  <2>3. \A n \in first..last : n \in Good
    BY <1>1, <1>5, <2>1, <2>2, Upwards
  <2> QED
    BY <2>1, <2>3
<1> QED
  BY <1>2, <1>7 DEF price

------------------------------------------------------------------------------
(* UsageBooks: the invariant.                                              *)

(* The running books have every event but the one that is being recorded.  *)
Booked ==
    [E \in SUBSET UsageEvent |->
        IF recorder # <<>> /\ recorder[1] \in E THEN Counted(E) - 1 ELSE Counted(E)]

BooksTyped ==
    /\ usage \in Seq(UsageEvent) /\ unsaved \in Seq(UsageEvent)
    /\ books \in AnyBooks
    /\ priceList \in Nat /\ month \in Months
    /\ recorder = <<>> \/ \E e \in UsageEvent : recorder = <<e>>
    /\ repricer = <<>> \/ \E step \in {"install", "publish"}, b \in AnyBooks :
           repricer = <<[step |-> step, books |-> b]>>

(* No event, and no books, of a month to come.                             *)
NothingAhead ==
    /\ \A i \in DOMAIN usage : usage[i].at <= month
    /\ recorder # <<>> => recorder[1].at <= month
    /\ books.month <= month

BooksRight == Agrees(books, Booked) /\ InTime(books, Booked)

(* Nothing is recorded while the books are rebuilt.                        *)
RepriceRight ==
    Repricing =>
        /\ recorder = <<>>
        /\ repricer[1].books.month <= month
        /\ Agrees(repricer[1].books, CountTo(Len(usage)))
        /\ InTime(repricer[1].books, CountTo(Len(usage)))

LedgerRight ==
    /\ ledger \in AnyLedger
    /\ ledger.lastID <= Len(usage)
    /\ ReadTo(ledger, ledger.lastID)
    /\ reader \in [Readers -> [step: {"idle", "waiting", "reading"}, month: Nat, prices: Nat]]
    /\ \A q \in Readers : reader[q].step = "reading" =>
           /\ ledger.month = reader[q].month /\ ledger.prices = reader[q].prices
           /\ \A p \in Readers : reader[p].step = "reading" => p = q

BooksInv == BooksTyped /\ NothingAhead /\ BooksRight /\ RepriceRight /\ LedgerRight

LEMMA CountedType ==
    ASSUME usage \in Seq(UsageEvent), unsaved \in Seq(UsageEvent), NEW E
    PROVE  Counted(E) \in Nat /\ Count(usage, Len(usage), E) \in Nat
<1>1. Len(usage) \in Nat /\ Len(unsaved) \in Nat
  OBVIOUS
<1>2. Count(usage, Len(usage), E) \in Nat
  BY <1>1, Counting, Zenon
<1>3. Count(unsaved, Len(unsaved), E) \in Nat
  BY <1>1, Counting, Zenon
<1> QED
  BY <1>2, <1>3 DEF Counted

LEMMA BookedType ==
    ASSUME usage \in Seq(UsageEvent), unsaved \in Seq(UsageEvent)
    PROVE  Booked \in Numbers
<1>1. \A E \in SUBSET UsageEvent : Counted(E) \in Nat
  BY CountedType
<1> QED
  BY <1>1 DEF Booked, Numbers

(* One event more at the end of a sequence.                                *)
LEMMA CountAppend ==
    ASSUME NEW s \in Seq(UsageEvent), NEW e \in UsageEvent, NEW E
    PROVE  /\ Count(Append(s, e), Len(Append(s, e)), E)
                 = Count(s, Len(s), E) + (IF e \in E THEN 1 ELSE 0)
           /\ \A n \in 0..Len(s) : Count(Append(s, e), n, E) = Count(s, n, E)
<1> DEFINE t == Append(s, e)
<1>1. /\ t \in Seq(UsageEvent) /\ Len(t) = Len(s) + 1 /\ Len(s) \in Nat
      /\ t[Len(s) + 1] = e /\ \A i \in 1..Len(s) : t[i] = s[i]
  OBVIOUS
<1> HIDE DEF t
<1>2. ASSUME NEW n \in 0..Len(s) PROVE Count(t, n, E) = Count(s, n, E)
  <2>1. n \in Nat /\ \A i \in 1..n : t[i] = s[i]
    BY <1>1
  <2> QED
    BY <2>1, CountOfPrefix
<1>3. Count(t, Len(t), E) = Count(t, Len(s), E) + (IF e \in E THEN 1 ELSE 0)
  <2>1. Len(t) \in Nat \ {0} /\ Len(t) - 1 = Len(s) /\ t[Len(t)] = e
    BY <1>1
  <2> QED
    <3>1. Count(t, Len(t), E) = Count(t, Len(t) - 1, E) + (IF t[Len(t)] \in E THEN 1 ELSE 0)
      BY <1>1, <2>1, Counting, Zenon
    <3> QED
      BY <2>1, <3>1
<1>4. Count(t, Len(s), E) = Count(s, Len(s), E)
  BY <1>1, <1>2
<1> QED
  BY <1>2, <1>3, <1>4 DEF t

LEMMA LedgerStays ==
    ASSUME BooksInv, UNCHANGED <<usage, ledger, reader>>
    PROVE  LedgerRight'
BY DEF BooksInv, LedgerRight, ReadTo

LEMMA BooksStart ==
    ASSUME BooksInit
    PROVE  BooksInv
<1>1. BooksTyped /\ NothingAhead
  BY BooksAssumption, NoneYet DEF BooksInit, BooksTyped, NothingAhead, Opening, AnyBooks, Months
<1>2. \A E : Counted(E) = 0 /\ Count(usage, 0, E) = 0
  <2>1. usage \in Seq(UsageEvent) /\ usage = <<>> /\ unsaved = <<>>
    BY DEF BooksInit
  <2>2. ASSUME NEW E PROVE Count(usage, 0, E) = 0
    BY <2>1, Counting, Zenon
  <2>3. Len(usage) = 0 /\ Len(unsaved) = 0 /\ unsaved = usage
    BY <2>1
  <2> QED
    BY <2>2, <2>3 DEF Counted
<1>3. BooksRight
  <2>1. \A E \in SUBSET UsageEvent : Booked[E] = 0
    BY <1>2 DEF BooksInit, Booked
  <2>2. NoCost = CostOf(0, 0)
    BY NoneYet
  <2>3. /\ books.month = 0 /\ books.prices = 0 /\ books.cost = NoCost /\ books.last = NoCost
        /\ \A a \in Payers : books.accounts[a] = NoCost
    BY DEF BooksInit, Opening
  <2>4. Agrees(books, Booked)
    BY <2>1, <2>2, <2>3, EventTypes DEF Agrees
  <2>5. InTime(books, Booked)
    BY <2>1 DEF InTime
  <2> QED
    BY <2>4, <2>5 DEF BooksRight
<1>4. RepriceRight
  BY DEF BooksInit, RepriceRight, Repricing
<1>5. LedgerRight
  <2>1. ledger = [month |-> 0, prices |-> 0, lastID |-> 0, cost |-> NoCost, lifetime |-> NoCost]
    BY DEF BooksInit
  <2>2. NoCost = CostOf(0, 0) /\ NoCost \in AnyCost
    BY NoneYet
  <2>3. ledger \in AnyLedger /\ ReadTo(ledger, ledger.lastID)
    BY <1>2, <2>1, <2>2 DEF AnyLedger, ReadTo
  <2>4. ledger.lastID <= Len(usage)
    BY <2>1 DEF BooksInit
  <2> QED
    BY <2>3, <2>4 DEF BooksInit, LedgerRight
<1> QED
  BY <1>1, <1>3, <1>4, <1>5 DEF BooksInv

(* An event is stored, or lost, before it is in the books.                 *)
LEMMA RecordUsageKeepsBooks ==
    ASSUME BooksInv, NEW a \in Payers \cup {NoPayer}, RecordUsage(a)
    PROVE  BooksInv'
<1> DEFINE e == [at |-> month, account |-> a]
<1>1. /\ recorder = <<>> /\ ~Repricing /\ recorder' = <<e>>
      /\ \/ usage' = Append(usage, e) /\ unsaved' = unsaved
         \/ unsaved' = Append(unsaved, e) /\ usage' = usage
      /\ UNCHANGED <<books, priceList, month, repricer, ledger, reader>>
  BY DEF RecordUsage, PricingMuFree
<1>2. e \in UsageEvent /\ e.at = month
  BY DEF BooksInv, BooksTyped, UsageEvent
<1> HIDE DEF e
<1>3. usage \in Seq(UsageEvent) /\ unsaved \in Seq(UsageEvent) /\ month \in Nat
  BY BooksAssumption DEF BooksInv, BooksTyped, Months
<1>4. BooksTyped'
  <2>1. usage' \in Seq(UsageEvent) /\ unsaved' \in Seq(UsageEvent)
    <3>1. Append(usage, e) \in Seq(UsageEvent) /\ Append(unsaved, e) \in Seq(UsageEvent)
      BY <1>2, <1>3
    <3> QED
      BY <1>1, <1>3, <3>1
  <2>2. \E d \in UsageEvent : recorder' = <<d>>
    BY <1>1, <1>2
  <2> QED
    BY <1>1, <2>1, <2>2 DEF BooksInv, BooksTyped
<1>5. NothingAhead'
  <2>1. ASSUME NEW i \in DOMAIN usage' PROVE usage'[i].at <= month
    <3>1. \A j \in DOMAIN usage : usage[j].at <= month
      BY DEF BooksInv, NothingAhead
    <3>2. CASE usage' = usage
      BY <2>1, <3>1, <3>2
    <3>3. CASE usage' = Append(usage, e)
      <4>1. (i \in DOMAIN usage /\ usage'[i] = usage[i]) \/ usage'[i] = e
        BY <1>3, <2>1, <3>3
      <4> QED
        BY <1>2, <1>3, <3>1, <4>1
    <3> QED
      BY <1>1, <3>2, <3>3
  <2>2. recorder'[1].at <= month
    BY <1>1, <1>2, <1>3
  <2> QED
    BY <1>1, <2>1, <2>2 DEF BooksInv, NothingAhead
<1>6. Booked' = Booked
  <2>1. ASSUME NEW E \in SUBSET UsageEvent
        PROVE  Counted(E)' = Counted(E) + (IF e \in E THEN 1 ELSE 0) /\ Counted(E) \in Nat
    <3>1. Counted(E) \in Nat /\ Count(usage, Len(usage), E) \in Nat
      BY <1>3, CountedType
    <3>2. Count(unsaved, Len(unsaved), E) \in Nat
      <4>1. Len(unsaved) \in Nat
        BY <1>3
      <4> QED
        BY <1>3, <4>1, Counting, Zenon
    <3>3. CASE usage' = Append(usage, e) /\ unsaved' = unsaved
      <4>1. Count(usage', Len(usage'), E) = Count(usage, Len(usage), E) + (IF e \in E THEN 1 ELSE 0)
        BY <1>2, <1>3, <3>3, CountAppend
      <4> QED
        BY <3>1, <3>2, <3>3, <4>1 DEF Counted
    <3>4. CASE unsaved' = Append(unsaved, e) /\ usage' = usage
      <4>1. Count(unsaved', Len(unsaved'), E) = Count(unsaved, Len(unsaved), E) + (IF e \in E THEN 1 ELSE 0)
        BY <1>2, <1>3, <3>4, CountAppend
      <4> QED
        BY <3>1, <3>2, <3>4, <4>1 DEF Counted
    <3> QED
      BY <1>1, <3>1, <3>3, <3>4
  <2>2. ASSUME NEW E \in SUBSET UsageEvent
        PROVE  (IF recorder' # <<>> /\ recorder'[1] \in E THEN Counted(E)' - 1 ELSE Counted(E)')
                   = Counted(E)
    <3>1. recorder' # <<>> /\ recorder'[1] = e
      BY <1>1
    <3> QED
      BY <2>1, <3>1
  <2> QED
    BY <1>1, <2>2 DEF Booked
<1>7. BooksRight'
  BY <1>1, <1>6 DEF BooksInv, BooksRight, Agrees, InTime
<1>8. RepriceRight'
  BY <1>1 DEF RepriceRight, Repricing
<1>9. LedgerRight'
  <2>1. \A n \in 0..Len(usage) : \A E : Count(usage', n, E) = Count(usage, n, E)
    <3>1. CASE usage' = usage
      BY <3>1
    <3>2. CASE usage' = Append(usage, e)
      <4>1. \A E : \A n \in 0..Len(usage) : Count(Append(usage, e), n, E) = Count(usage, n, E)
        BY <1>2, <1>3, CountAppend, Zenon
      <4> QED
        BY <3>2, <4>1
    <3> QED
      BY <1>1, <3>1, <3>2
  <2>2. Len(usage) <= Len(usage') /\ Len(usage) \in Nat /\ Len(usage') \in Nat
    BY <1>1, <1>3
  <2>3. ledger \in AnyLedger /\ ledger.lastID \in 0..Len(usage) /\ ReadTo(ledger, ledger.lastID)
    BY <1>3 DEF BooksInv, LedgerRight, AnyLedger
  <2>4. ReadTo(ledger, ledger.lastID)'
    BY <1>1, <2>1, <2>3 DEF ReadTo
  <2>5. ledger.lastID <= Len(usage')
    BY <2>2, <2>3
  <2> QED
    BY <1>1, <2>4, <2>5 DEF BooksInv, LedgerRight
<1> QED
  BY <1>4, <1>5, <1>7, <1>8, <1>9 DEF BooksInv

LEMMA ApplyUsageKeepsBooks ==
    ASSUME BooksInv, ApplyUsage
    PROVE  BooksInv'
<1>1. PICK e \in UsageEvent : recorder = <<e>>
  BY DEF BooksInv, BooksTyped, ApplyUsage
<1>2. /\ books' = Applied(books, e) /\ recorder' = <<>>
      /\ UNCHANGED <<usage, unsaved, priceList, month, repricer, ledger, reader>>
  BY <1>1 DEF ApplyUsage
<1>3. /\ books \in AnyBooks /\ Agrees(books, Booked) /\ InTime(books, Booked)
      /\ usage \in Seq(UsageEvent) /\ unsaved \in Seq(UsageEvent)
  BY DEF BooksInv, BooksTyped, BooksRight
<1>4. Booked \in Numbers
  BY <1>3, BookedType
<1>5. /\ books' \in AnyBooks /\ books'.prices = books.prices
      /\ books'.month = IF e.at > books.month THEN e.at ELSE books.month
      /\ Agrees(books', With(Booked, e)) /\ InTime(books', With(Booked, e))
  BY <1>2, <1>3, <1>4, AppliedAgrees
<1>6. Booked' = With(Booked, e)
  <2>1. ASSUME NEW E \in SUBSET UsageEvent
        PROVE  Counted(E)' = Booked[E] + (IF e \in E THEN 1 ELSE 0)
    <3>1. Counted(E)' = Counted(E) /\ Counted(E) \in Nat
      BY <1>2, <1>3, CountedType DEF Counted
    <3>2. Booked[E] = IF e \in E THEN Counted(E) - 1 ELSE Counted(E)
      BY <1>1 DEF Booked
    <3> QED
      BY <3>1, <3>2
  <2> QED
    BY <1>2, <2>1 DEF Booked, With
<1>7. BooksTyped' /\ NothingAhead'
  BY <1>1, <1>2, <1>5 DEF BooksInv, BooksTyped, NothingAhead
<1>8. BooksRight'
  BY <1>5, <1>6 DEF BooksRight, Agrees, InTime
<1>9. RepriceRight'
  BY <1>1, <1>2 DEF BooksInv, RepriceRight, Repricing
<1>10. LedgerRight'
  BY <1>2, LedgerStays
<1> QED
  BY <1>7, <1>8, <1>9, <1>10 DEF BooksInv

LEMMA StoredOnly ==
    ASSUME NEW s \in Seq(UsageEvent), NEW E
    PROVE  Count(s, Len(s), E) + Count(<<>>, Len(<<>>), E) = Count(s, Len(s), E)
<1>1. /\ <<>> \in Seq(UsageEvent) /\ Len(<<>>) = 0 /\ Len(s) \in Nat
  OBVIOUS
<1>2. Count(<<>>, 0, E) = 0
  BY <1>1, Counting, Zenon
<1>3. Count(s, Len(s), E) \in Nat
  BY <1>1, Counting, Zenon
<1> QED
  BY <1>1, <1>2, <1>3

LEMMA BeginRepriceKeepsBooks ==
    ASSUME BooksInv, NEW price \in 1..MaxPrice, BeginReprice(price)
    PROVE  BooksInv'
<1> DEFINE b == Rebuilt(month, price)
<1>1. /\ repricer' = <<[step |-> "install", books |-> b]>> /\ recorder = <<>>
      /\ UNCHANGED <<usage, unsaved, books, priceList, month, recorder, ledger, reader>>
  BY DEF BeginReprice, PricingMuFree
<1>2. /\ usage \in Seq(UsageEvent) /\ month \in Nat /\ price \in Nat
      /\ \A i \in DOMAIN usage : usage[i].at <= month
  BY BooksAssumption DEF BooksInv, BooksTyped, NothingAhead, Months
<1>3. /\ b \in AnyBooks /\ b.month = month
      /\ Agrees(b, CountTo(Len(usage))) /\ InTime(b, CountTo(Len(usage)))
  BY <1>2, RebuiltAgrees
<1> HIDE DEF b
<1>4. BooksTyped' /\ NothingAhead'
  BY <1>1, <1>3 DEF BooksInv, BooksTyped, NothingAhead
<1>5. BooksRight'
  BY <1>1 DEF BooksInv, BooksRight, Agrees, InTime, Booked, Counted
<1>6. RepriceRight'
  <2>1. repricer'[1].books = b
    BY <1>1
  <2>2. CountTo(Len(usage))' = CountTo(Len(usage))
    BY <1>1 DEF CountTo
  <2> QED
    BY <1>1, <1>2, <1>3, <2>1, <2>2 DEF RepriceRight, Agrees, InTime
<1>7. LedgerRight'
  BY <1>1, LedgerStays
<1> QED
  BY <1>4, <1>5, <1>6, <1>7 DEF BooksInv

LEMMA InstallBooksKeepsBooks ==
    ASSUME BooksInv, InstallBooks
    PROVE  BooksInv'
<1>1. PICK b \in AnyBooks : repricer = <<[step |-> "install", books |-> b]>>
  BY DEF BooksInv, BooksTyped, InstallBooks, Repricing
<1>2. /\ books' = b /\ unsaved' = <<>> /\ repricer' = <<[step |-> "publish", books |-> b]>>
      /\ UNCHANGED <<usage, priceList, month, recorder, ledger, reader>>
  BY <1>1 DEF InstallBooks
<1>3. /\ recorder = <<>> /\ b.month <= month
      /\ Agrees(b, CountTo(Len(usage))) /\ InTime(b, CountTo(Len(usage)))
  BY <1>1 DEF BooksInv, RepriceRight, InstallBooks
<1>4. usage \in Seq(UsageEvent)
  BY DEF BooksInv, BooksTyped
<1>5. BooksTyped' /\ NothingAhead'
  BY <1>2, <1>3 DEF BooksInv, BooksTyped, NothingAhead
<1>6. Booked' = CountTo(Len(usage))
  <2>1. \A E : Counted(E)' = Count(usage, Len(usage), E)
    BY <1>2, <1>4, StoredOnly DEF Counted
  <2> QED
    BY <1>2, <1>3, <2>1 DEF Booked, CountTo
<1>7. BooksRight'
  BY <1>2, <1>3, <1>6 DEF BooksRight, Agrees, InTime
<1>8. RepriceRight'
  BY <1>2 DEF RepriceRight, Repricing
<1>9. LedgerRight'
  BY <1>2, LedgerStays
<1> QED
  BY <1>5, <1>7, <1>8, <1>9 DEF BooksInv

LEMMA InstallPricesKeepsBooks ==
    ASSUME BooksInv, InstallPrices
    PROVE  BooksInv'
<1>1. PICK b \in AnyBooks : repricer = <<[step |-> "publish", books |-> b]>>
  BY DEF BooksInv, BooksTyped, InstallPrices
<1>2. /\ priceList' = b.prices /\ repricer' = <<>>
      /\ UNCHANGED <<usage, unsaved, books, month, recorder, ledger, reader>>
  BY <1>1 DEF InstallPrices
<1>3. BooksTyped' /\ NothingAhead'
  BY <1>2 DEF BooksInv, BooksTyped, NothingAhead, AnyBooks
<1>4. BooksRight'
  BY <1>2 DEF BooksInv, BooksRight, Agrees, InTime, Booked, Counted
<1>5. RepriceRight'
  BY <1>2 DEF RepriceRight, Repricing
<1>6. LedgerRight'
  BY <1>2, LedgerStays
<1> QED
  BY <1>3, <1>4, <1>5, <1>6 DEF BooksInv

LEMMA DrawSnapshotKeepsBooks ==
    ASSUME BooksInv, DrawSnapshot
    PROVE  BooksInv'
<1>1. /\ books' = Synced(books, month)
      /\ UNCHANGED <<usage, unsaved, priceList, month, recorder, repricer, ledger, reader>>
  BY DEF DrawSnapshot
<1>2. /\ books \in AnyBooks /\ Agrees(books, Booked) /\ InTime(books, Booked)
      /\ usage \in Seq(UsageEvent) /\ unsaved \in Seq(UsageEvent)
      /\ month \in Nat /\ books.month <= month
  BY BooksAssumption DEF BooksInv, BooksTyped, BooksRight, NothingAhead, Months
<1>3. Booked \in Numbers
  BY <1>2, BookedType
<1>4. /\ books' \in AnyBooks /\ books'.month = month
      /\ Agrees(books', Booked) /\ InTime(books', Booked)
  BY <1>1, <1>2, <1>3, SyncedAgrees
<1>5. Booked' = Booked
  BY <1>1 DEF Booked, Counted
<1>6. BooksTyped' /\ NothingAhead'
  BY <1>1, <1>2, <1>4 DEF BooksInv, BooksTyped, NothingAhead
<1>7. BooksRight'
  BY <1>4, <1>5 DEF BooksRight, Agrees, InTime
<1>8. RepriceRight'
  BY <1>1 DEF BooksInv, RepriceRight, Repricing, Agrees, InTime, CountTo
<1>9. LedgerRight'
  BY <1>1, LedgerStays
<1> QED
  BY <1>6, <1>7, <1>8, <1>9 DEF BooksInv

LEMMA MonthEndsKeepsBooks ==
    ASSUME BooksInv, MonthEnds
    PROVE  BooksInv'
<1>1. /\ month < MaxMonth /\ month' = month + 1
      /\ UNCHANGED <<usage, unsaved, books, priceList, recorder, repricer, ledger, reader>>
  BY DEF MonthEnds
<1>2. month \in Nat /\ month' \in Months /\ MaxMonth \in Nat
  BY <1>1, BooksAssumption DEF BooksInv, BooksTyped, Months
<1>3. /\ usage \in Seq(UsageEvent) /\ books.month \in Nat
      /\ \A i \in DOMAIN usage : usage[i].at \in Nat
      /\ recorder # <<>> => recorder[1].at \in Nat
  BY EventTypes DEF BooksInv, BooksTyped, AnyBooks
<1>4. BooksTyped'
  BY <1>1, <1>2 DEF BooksInv, BooksTyped
<1>5. NothingAhead'
  BY <1>1, <1>2, <1>3 DEF BooksInv, NothingAhead
<1>6. BooksRight'
  BY <1>1 DEF BooksInv, BooksRight, Agrees, InTime, Booked, Counted
<1>7. RepriceRight'
  <2>1. Repricing => repricer[1].books.month \in Nat
    BY DEF BooksInv, BooksTyped, AnyBooks, Repricing
  <2> QED
    <3>1. CountTo(Len(usage))' = CountTo(Len(usage)) /\ Repricing' = Repricing
      BY <1>1 DEF CountTo, Repricing
    <3>2. Repricing => repricer[1].books.month <= month + 1
      BY <1>2, <2>1 DEF BooksInv, RepriceRight
    <3> QED
      BY <1>1, <3>1, <3>2 DEF BooksInv, RepriceRight, Agrees, InTime
<1>8. LedgerRight'
  BY <1>1, LedgerStays
<1> QED
  BY <1>4, <1>5, <1>6, <1>7, <1>8 DEF BooksInv

LEMMA RestartBooksKeepsBooks ==
    ASSUME BooksInv, RestartBooks
    PROVE  BooksInv'
<1>1. /\ priceList' = 0 /\ books' = Rebuilt(month, 0) /\ unsaved' = <<>>
      /\ recorder' = <<>> /\ repricer' = <<>>
      /\ ledger' = [month |-> 0, prices |-> 0, lastID |-> 0, cost |-> NoCost, lifetime |-> NoCost]
      /\ reader' = [q \in Readers |-> [step |-> "idle", month |-> 0, prices |-> 0]]
      /\ UNCHANGED <<usage, month>>
  BY DEF RestartBooks
<1>2. /\ usage \in Seq(UsageEvent) /\ month \in Nat
      /\ \A i \in DOMAIN usage : usage[i].at <= month
  BY BooksAssumption DEF BooksInv, BooksTyped, NothingAhead, Months
<1>3. /\ books' \in AnyBooks /\ books'.month = month
      /\ Agrees(books', CountTo(Len(usage))) /\ InTime(books', CountTo(Len(usage)))
  BY <1>1, <1>2, RebuiltAgrees
<1>4. BooksTyped' /\ NothingAhead'
  BY <1>1, <1>2, <1>3 DEF BooksInv, BooksTyped, NothingAhead
<1>5. Booked' = CountTo(Len(usage))
  <2>1. \A E : Counted(E)' = Count(usage, Len(usage), E)
    BY <1>1, <1>2, StoredOnly DEF Counted
  <2> QED
    BY <1>1, <2>1 DEF Booked, CountTo
<1>6. BooksRight'
  BY <1>3, <1>5 DEF BooksRight, Agrees, InTime
<1>7. RepriceRight'
  BY <1>1 DEF RepriceRight, Repricing
<1>8. LedgerRight'
  <2>1. NoCost = CostOf(0, 0) /\ NoCost \in AnyCost
    BY NoneYet
  <2>2. \A E : Count(usage, 0, E) = 0
    BY <1>2, Counting, Zenon
  <2>3. ledger' \in AnyLedger /\ ReadTo(ledger, ledger.lastID)'
    BY <1>1, <2>1, <2>2 DEF AnyLedger, ReadTo
  <2>4. ledger'.lastID <= Len(usage')
    BY <1>1, <1>2
  <2> QED
    BY <1>1, <2>3, <2>4 DEF LedgerRight
<1> QED
  BY <1>4, <1>6, <1>7, <1>8 DEF BooksInv

(* The admin pages leave the events and the running books alone.           *)
LEMMA BooksStay ==
    ASSUME BooksInv, UNCHANGED <<usage, unsaved, books, priceList, month, recorder, repricer>>
    PROVE  BooksTyped' /\ NothingAhead' /\ BooksRight' /\ RepriceRight'
<1>1. BooksTyped' /\ NothingAhead'
  BY DEF BooksInv, BooksTyped, NothingAhead
<1>2. BooksRight'
  BY DEF BooksInv, BooksRight, Agrees, InTime, Booked, Counted
<1>3. RepriceRight'
  BY DEF BooksInv, RepriceRight, Repricing, Agrees, InTime, CountTo
<1> QED
  BY <1>1, <1>2, <1>3

LEMMA AskTotalsKeepsBooks ==
    ASSUME BooksInv, NEW q \in Readers, AskTotals(q)
    PROVE  BooksInv'
<1>1. /\ reader' = [reader EXCEPT ![q] = [step |-> "waiting", month |-> month, prices |-> priceList]]
      /\ UNCHANGED <<usage, unsaved, books, priceList, month, recorder, repricer, ledger>>
  BY DEF AskTotals
<1>2. month \in Nat /\ priceList \in Nat
  BY BooksAssumption DEF BooksInv, BooksTyped, Months
<1>3. LedgerRight'
  <2>1. ReadTo(ledger, ledger.lastID)'
    BY <1>1 DEF BooksInv, LedgerRight, ReadTo
  <2> QED
    BY <1>1, <1>2, <2>1 DEF BooksInv, LedgerRight
<1> QED
  BY <1>1, <1>3, BooksStay DEF BooksInv

(* One page at a time has the ledger, opened for its month and its prices. *)
LEMMA OpenLedgerKeepsBooks ==
    ASSUME BooksInv, NEW q \in Readers, OpenLedger(q)
    PROVE  BooksInv'
<1> DEFINE r == reader[q]
<1>1. /\ \A p \in Readers : reader[p].step # "reading"
      /\ reader' = [reader EXCEPT ![q].step = "reading"]
      /\ ledger' = IF ledger.month # r.month \/ ledger.prices # r.prices
                   THEN [month |-> r.month, prices |-> r.prices, lastID |-> 0,
                         cost |-> NoCost, lifetime |-> NoCost]
                   ELSE ledger
      /\ UNCHANGED <<usage, unsaved, books, priceList, month, recorder, repricer>>
  BY DEF OpenLedger, LedgerMuFree, LedgerIsStale
<1>2. /\ reader \in [Readers -> [step: {"idle", "waiting", "reading"}, month: Nat, prices: Nat]]
      /\ usage \in Seq(UsageEvent) /\ ledger \in AnyLedger /\ ledger.lastID <= Len(usage)
      /\ ReadTo(ledger, ledger.lastID)
  BY DEF BooksInv, BooksTyped, LedgerRight
<1>3. /\ ledger' \in AnyLedger /\ ledger'.lastID <= Len(usage)
      /\ ReadTo(ledger, ledger.lastID)'
      /\ ledger'.month = r.month /\ ledger'.prices = r.prices
  <2>1. CASE ledger.month = r.month /\ ledger.prices = r.prices
    BY <1>1, <1>2, <2>1 DEF ReadTo
  <2>2. CASE ~(ledger.month = r.month /\ ledger.prices = r.prices)
    <3>1. r.month \in Nat /\ r.prices \in Nat /\ Len(usage) \in Nat
      BY <1>2
    <3>2. ledger' = [month |-> r.month, prices |-> r.prices, lastID |-> 0,
                     cost |-> NoCost, lifetime |-> NoCost]
      BY <1>1, <2>2
    <3> HIDE DEF r
    <3>3. NoCost = CostOf(0, r.prices) /\ NoCost \in AnyCost
      BY <3>1, NoneYet
    <3>4. \A E : Count(usage, 0, E) = 0
      BY <1>2, Counting, Zenon
    <3> QED
      BY <1>1, <3>1, <3>2, <3>3, <3>4 DEF AnyLedger, ReadTo
  <2> QED
    BY <2>1, <2>2
<1>4. /\ \A p \in Readers : reader'[p].step = "reading" => p = q
      /\ reader'[q].month = r.month /\ reader'[q].prices = r.prices
      /\ reader' \in [Readers -> [step: {"idle", "waiting", "reading"}, month: Nat, prices: Nat]]
  BY <1>1, <1>2
<1> HIDE DEF r
<1>5. LedgerRight'
  BY <1>1, <1>3, <1>4 DEF LedgerRight
<1> QED
  BY <1>1, <1>5, BooksStay DEF BooksInv

LEMMA ReadBatchKeepsBooks ==
    ASSUME BooksInv, NEW q \in Readers, ReadBatch(q)
    PROVE  BooksInv'
<1> DEFINE first == ledger.lastID
           last == IF first + LedgerBatch < Len(usage) THEN first + LedgerBatch ELSE Len(usage)
<1>1. /\ reader[q].step = "reading"
      /\ \/ /\ ledger' = Batch(last, reader[q].prices)
            /\ reader' = [reader EXCEPT ![q].step = IF last - first < LedgerBatch THEN "idle" ELSE @]
         \/ /\ reader' = [reader EXCEPT ![q].step = "idle"]
            /\ UNCHANGED ledger
      /\ UNCHANGED <<usage, unsaved, books, priceList, month, recorder, repricer>>
  BY DEF ReadBatch
<1>2. /\ reader \in [Readers -> [step: {"idle", "waiting", "reading"}, month: Nat, prices: Nat]]
      /\ usage \in Seq(UsageEvent) /\ ledger \in AnyLedger /\ first <= Len(usage)
      /\ ReadTo(ledger, first)
      /\ ledger.month = reader[q].month /\ ledger.prices = reader[q].prices
      /\ \A p \in Readers : reader[p].step = "reading" => p = q
  BY <1>1 DEF BooksInv, BooksTyped, LedgerRight
<1>3. last \in Nat /\ first <= last /\ last <= Len(usage)
  <2>1. first \in Nat /\ Len(usage) \in Nat /\ LedgerBatch \in Nat
    BY <1>2, BooksAssumption DEF AnyLedger
  <2> QED
    BY <1>2, <2>1
<1> HIDE DEF last
<1>4. /\ \A p \in Readers : reader'[p].step = "reading" => p = q
      /\ reader'[q].month = reader[q].month /\ reader'[q].prices = reader[q].prices
      /\ reader' \in [Readers -> [step: {"idle", "waiting", "reading"}, month: Nat, prices: Nat]]
  <2>1. PICK step \in {"idle", "reading"} : reader' = [reader EXCEPT ![q].step = step]
    BY <1>1
  <2> QED
    BY <1>2, <2>1
<1>5. /\ ledger' \in AnyLedger /\ ledger'.lastID <= Len(usage)
      /\ ReadTo(ledger', ledger'.lastID)
      /\ ledger'.month = ledger.month /\ ledger'.prices = ledger.prices
  <2>1. CASE ledger' = Batch(last, reader[q].prices)
    <3> DEFINE k == Batch(last, ledger.prices)
    <3>1. /\ k \in AnyLedger /\ ReadTo(k, last)
          /\ k.month = ledger.month /\ k.prices = ledger.prices
      BY <1>2, <1>3, BatchReads
    <3>2. ledger' = k
      BY <1>2, <2>1
    <3> HIDE DEF k
    <3>3. k.lastID = last
      BY <3>1 DEF ReadTo
    <3> QED
      BY <1>3, <3>1, <3>2, <3>3
  <2>2. CASE UNCHANGED ledger
    BY <1>2, <2>2
  <2> QED
    BY <1>1, <2>1, <2>2
<1>6. LedgerRight'
  <2>1. ReadTo(ledger, ledger.lastID)'
    BY <1>1, <1>5 DEF ReadTo
  <2> QED
    BY <1>1, <1>2, <1>4, <1>5, <2>1 DEF LedgerRight
<1> QED
  BY <1>1, <1>6, BooksStay DEF BooksInv

LEMMA BooksKept ==
    ASSUME BooksInv, [BooksNext]_booksVars
    PROVE  BooksInv'
<1>1. CASE UNCHANGED booksVars
  BY <1>1, BooksStay, LedgerStays DEF booksVars, BooksInv
<1>2. ASSUME NEW a \in Payers \cup {NoPayer}, RecordUsage(a) PROVE BooksInv'
  BY <1>2, RecordUsageKeepsBooks
<1>3. ASSUME NEW p \in 1..MaxPrice, BeginReprice(p) PROVE BooksInv'
  BY <1>3, BeginRepriceKeepsBooks
<1>4. ASSUME NEW q \in Readers, AskTotals(q) \/ OpenLedger(q) \/ ReadBatch(q) PROVE BooksInv'
  BY <1>4, AskTotalsKeepsBooks, OpenLedgerKeepsBooks, ReadBatchKeepsBooks
<1> QED
  BY <1>1, <1>2, <1>3, <1>4, ApplyUsageKeepsBooks, InstallBooksKeepsBooks,
     InstallPricesKeepsBooks, DrawSnapshotKeepsBooks, MonthEndsKeepsBooks,
     RestartBooksKeepsBooks DEF BooksNext

(* What the running books, the rebuilt ones and the ledger have in common: *)
(* each is what a count of the events says.                                *)
THEOREM BooksInductive == BooksSpec => []BooksInv
<1>1. BooksInit => BooksInv
  BY BooksStart
<1>2. BooksInv /\ [BooksNext]_booksVars => BooksInv'
  BY BooksKept
<1> QED
  BY <1>1, <1>2, PTL DEF BooksSpec

(* Between two calls the running books are those of the events at the      *)
(* current prices, each counted once and in its month, and the ledger      *)
(* agrees with a full count of what it has read: however the recording of  *)
(* responses, new prices, the ends of months, restarts and pages overlap.  *)
THEOREM BooksAgreeHolds == BooksSpec => []BooksAgree
<1>1. BooksInv => BooksAgree
  <2> SUFFICES ASSUME BooksInv PROVE BooksAgree
    OBVIOUS
  <2>1. BooksBalance
    <3> SUFFICES ASSUME recorder = <<>>
                 PROVE  /\ books.cost = CostOf(Counted(Of(books.month)), books.prices)
                        /\ books.last = CostOf(Counted(Before(books.month)), books.prices)
                        /\ \A a \in Payers : books.accounts[a]
                               = CostOf(Counted(OfAccount(books.month, a)), books.prices)
      BY DEF BooksBalance
    <3>1. \A E \in SUBSET UsageEvent : Booked[E] = Counted(E)
      BY DEF Booked
    <3> QED
      BY <3>1, EventTypes DEF BooksInv, BooksRight, Agrees
  <2>2. LedgerAgrees
    BY DEF BooksInv, LedgerRight, ReadTo, LedgerAgrees
  <2> QED
    BY <2>1, <2>2 DEF BooksAgree
<1>2. BooksSpec => []BooksInv
  BY BooksInductive
<1> QED
  BY <1>1, <1>2, PTL

------------------------------------------------------------------------------
(* UsageBooks: how far the sums can go.                                    *)

(* Prices are those of a snapshot, months those that went by, and there    *)
(* are no more events than the bound.                                      *)
BooksBounded ==
    /\ Len(usage) + Len(unsaved) <= MaxUsage
    /\ books.prices \in PriceList
    /\ priceList \in PriceList
    /\ repricer # <<>> => repricer[1].books \in Books
    /\ ledger.month \in Months /\ ledger.prices \in PriceList
    /\ \A q \in Readers : reader[q].month \in Months /\ reader[q].prices \in PriceList

(* What at most MaxUsage events cost is within the type of a cost.         *)
LEMMA CostBound ==
    ASSUME NEW n \in Int, n <= MaxUsage, NEW price \in PriceList, CostOf(n, price) \in AnyCost
    PROVE  CostOf(n, price) \in Cost
<1>1. MaxUsage \in Nat /\ MaxPrice \in Nat /\ price \in Nat /\ price <= MaxPrice
  BY BooksAssumption DEF PriceList
<1>2. MaxPrice * MaxUsage \in Nat
  BY <1>1
<1>3. CASE price = 0
  <2>1. CostOf(n, price) = [paid |-> 0, unpriced |-> n]
    BY <1>3 DEF CostOf
  <2>2. n \in 0..MaxUsage /\ 0 \in 0..(MaxPrice * MaxUsage)
    BY <1>1, <1>2, <2>1 DEF AnyCost
  <2> QED
    BY <2>1, <2>2 DEF Cost
<1>4. CASE price # 0
  <2>1. CostOf(n, price) = [paid |-> n * price, unpriced |-> 0]
    BY <1>4 DEF CostOf
  <2>2. n * price \in Nat
    BY <2>1 DEF AnyCost
  <2>3. n * price <= MaxUsage * price
    BY <1>1
  <2>4. MaxUsage * price <= MaxPrice * MaxUsage
    BY <1>1
  <2>5. n * price \in 0..(MaxPrice * MaxUsage)
    <3> DEFINE x == n * price
               y == MaxUsage * price
               z == MaxPrice * MaxUsage
    <3>1. x \in Nat /\ y \in Int /\ z \in Nat /\ x <= y /\ y <= z
      BY <1>1, <1>2, <2>2, <2>3, <2>4
    <3> HIDE DEF x, y, z
    <3>2. x \in 0..z
      BY <3>1
    <3> QED
      BY <3>2 DEF x, z
  <2>6. 0 \in 0..MaxUsage
    BY <1>1
  <2> QED
    BY <2>1, <2>5, <2>6 DEF Cost
<1> QED
  BY <1>3, <1>4

(* No more events are counted than there are.                              *)
LEMMA CountBound ==
    ASSUME NEW s, NEW n \in Nat, NEW E
    PROVE  Count(s, n, E) \in Nat /\ Count(s, n, E) <= n
<1>1. IsFiniteSet(1..n) /\ Cardinality(1..n) = n
  BY FS_Interval
<1>2. {i \in 1..n : s[i] \in E} \subseteq 1..n
  OBVIOUS
<1> HIDE DEF Count
<1>3. /\ IsFiniteSet({i \in 1..n : s[i] \in E})
      /\ Cardinality({i \in 1..n : s[i] \in E}) <= Cardinality(1..n)
  BY <1>1, <1>2, FS_Subset
<1>4. Cardinality({i \in 1..n : s[i] \in E}) \in Nat
  BY <1>3, FS_CardinalityType
<1> QED
  BY <1>1, <1>3, <1>4 DEF Count

(* Books that agree with numbers of at most MaxUsage events.               *)
LEMMA BooksWithin ==
    ASSUME NEW b \in AnyBooks, NEW number \in Numbers, Agrees(b, number),
           \A E \in SUBSET UsageEvent : number[E] <= MaxUsage,
           b.month \in Months, b.prices \in PriceList
    PROVE  b \in Books
<1>1. /\ b.cost \in AnyCost /\ b.last \in AnyCost /\ b.accounts \in [Payers -> AnyCost]
      /\ b = [month |-> b.month, cost |-> b.cost, last |-> b.last, accounts |-> b.accounts,
              prices |-> b.prices]
  BY DEF AnyBooks
<1>2. \A E \in SUBSET UsageEvent : number[E] \in Int /\ number[E] <= MaxUsage
  BY DEF Numbers
<1>3. ASSUME NEW E \in SUBSET UsageEvent, CostOf(number[E], b.prices) \in AnyCost
      PROVE  CostOf(number[E], b.prices) \in Cost
  BY <1>2, <1>3, CostBound
<1>4. b.cost \in Cost
  <2>1. Of(b.month) \in SUBSET UsageEvent /\ b.cost = CostOf(number[Of(b.month)], b.prices)
    BY EventTypes DEF Agrees
  <2> QED
    BY <1>1, <1>3, <2>1
<1>5. b.last \in Cost
  <2>1. Before(b.month) \in SUBSET UsageEvent /\ b.last = CostOf(number[Before(b.month)], b.prices)
    BY EventTypes DEF Agrees
  <2> QED
    BY <1>1, <1>3, <2>1
<1>6. ASSUME NEW a \in Payers PROVE b.accounts[a] \in Cost
  <2>1. /\ OfAccount(b.month, a) \in SUBSET UsageEvent
        /\ b.accounts[a] = CostOf(number[OfAccount(b.month, a)], b.prices)
    BY EventTypes DEF Agrees
  <2>2. b.accounts[a] \in AnyCost
    BY <1>1
  <2> QED
    BY <1>3, <2>1, <2>2
<1>7. b.accounts \in [Payers -> Cost]
  BY <1>1, <1>6
<1> QED
  BY <1>1, <1>4, <1>5, <1>7 DEF Books

(* An event changes no price.                                              *)
LEMMA AppliedPrices ==
    ASSUME NEW b \in AnyBooks, NEW e
    PROVE  Applied(b, e).prices = b.prices
<1>1. ASSUME NEW m PROVE Synced(b, m).prices = b.prices
  BY DEF Synced, Opening, AnyBooks
<1>2. ASSUME NEW m PROVE Charged(Synced(b, m), e.account).prices = Synced(b, m).prices
  <2>1. Synced(b, m) = b \/ \E k, c : Synced(b, m) = [month |-> k, cost |-> NoCost, last |-> c,
            accounts |-> [a \in Payers |-> NoCost], prices |-> b.prices]
    BY DEF Synced, Opening
  <2> QED
    BY <2>1 DEF Charged, AnyBooks
<1>3. [b EXCEPT !.last = Plus(b.last, b.prices)].prices = b.prices
  BY DEF AnyBooks
<1> QED
  BY <1>1, <1>2, <1>3 DEF Applied

(* The books rebuilt from the stored events.                               *)
LEMMA RebuiltWithin ==
    ASSUME BooksInv, BooksBounded, NEW price \in PriceList
    PROVE  Rebuilt(month, price) \in Books /\ Rebuilt(month, price).prices = price
<1> DEFINE b == Rebuilt(month, price)
<1>1. /\ usage \in Seq(UsageEvent) /\ unsaved \in Seq(UsageEvent)
      /\ month \in Months /\ month \in Nat /\ price \in Nat
      /\ \A i \in DOMAIN usage : usage[i].at <= month
  BY BooksAssumption DEF BooksInv, BooksTyped, NothingAhead, Months, PriceList
<1>2. /\ b \in AnyBooks /\ b.month = month /\ b.prices = price
      /\ Agrees(b, CountTo(Len(usage)))
  BY <1>1, RebuiltAgrees
<1> HIDE DEF b
<1>3. Len(usage) \in Nat /\ Len(usage) <= MaxUsage
  <2>1. Len(usage) \in Nat /\ Len(unsaved) \in Nat /\ MaxUsage \in Nat
    BY <1>1, BooksAssumption
  <2> QED
    BY <2>1 DEF BooksBounded
<1>4. \A E : Count(usage, Len(usage), E) \in Int /\ Count(usage, Len(usage), E) <= MaxUsage
  <2> TAKE E
  <2>1. Count(usage, Len(usage), E) \in Nat /\ Count(usage, Len(usage), E) <= Len(usage)
    BY <1>3, CountBound
  <2> QED
    BY <1>3, <2>1, BooksAssumption
<1>5. /\ CountTo(Len(usage)) \in Numbers
      /\ \A E \in SUBSET UsageEvent : CountTo(Len(usage))[E] <= MaxUsage
  BY <1>4 DEF CountTo, Numbers
<1>6. b \in Books
  BY <1>1, <1>2, <1>5, BooksWithin
<1> QED
  BY <1>2, <1>6 DEF b

LEMMA BoundedStart ==
    ASSUME BooksInit
    PROVE  BooksBounded
BY BooksAssumption DEF BooksInit, BooksBounded, Opening, Months, PriceList

(* The calls that count events and move prices.                            *)
LEMMA BoundedBooks ==
    ASSUME BooksInv, BooksBounded,
           \/ \E a \in Payers \cup {NoPayer} : RecordUsage(a)
           \/ ApplyUsage
           \/ \E p \in 1..MaxPrice : BeginReprice(p)
           \/ InstallBooks \/ InstallPrices \/ DrawSnapshot \/ MonthEnds \/ RestartBooks
    PROVE  BooksBounded'
<1>1. /\ usage \in Seq(UsageEvent) /\ unsaved \in Seq(UsageEvent)
      /\ Len(usage) \in Nat /\ Len(unsaved) \in Nat /\ MaxUsage \in Nat
      /\ Len(usage) + Len(unsaved) <= MaxUsage /\ Len(usage) <= MaxUsage
  <2>1. usage \in Seq(UsageEvent) /\ unsaved \in Seq(UsageEvent)
    BY DEF BooksInv, BooksTyped
  <2>2. Len(usage) \in Nat /\ Len(unsaved) \in Nat /\ MaxUsage \in Nat
    BY <2>1, BooksAssumption
  <2> QED
    BY <2>1, <2>2 DEF BooksBounded
<1>2. books \in AnyBooks
  BY DEF BooksInv, BooksTyped
<1>3. ASSUME NEW a \in Payers \cup {NoPayer}, RecordUsage(a) PROVE BooksBounded'
  <2>1. /\ Len(usage) + Len(unsaved) < MaxUsage
        /\ \E e : \/ usage' = Append(usage, e) /\ UNCHANGED unsaved
                  \/ unsaved' = Append(unsaved, e) /\ UNCHANGED usage
        /\ UNCHANGED <<books, priceList, month, repricer, ledger, reader>>
    BY <1>3 DEF RecordUsage
  <2>2. Len(usage') + Len(unsaved') = Len(usage) + Len(unsaved) + 1
    <3>1. ASSUME NEW e PROVE Len(Append(usage, e)) = Len(usage) + 1
      BY <1>1
    <3>2. ASSUME NEW e PROVE Len(Append(unsaved, e)) = Len(unsaved) + 1
      BY <1>1
    <3>3. CASE \E e : usage' = Append(usage, e) /\ UNCHANGED unsaved
      BY <1>1, <3>1, <3>3
    <3>4. CASE \E e : unsaved' = Append(unsaved, e) /\ UNCHANGED usage
      BY <1>1, <3>2, <3>4
    <3> QED
      BY <2>1, <3>3, <3>4
  <2>3. Len(usage') + Len(unsaved') <= MaxUsage
    BY <1>1, <2>1, <2>2
  <2> QED
    BY <2>1, <2>3 DEF BooksBounded
<1>4. CASE ApplyUsage
  <2>1. /\ books' = Applied(books, recorder[1])
        /\ UNCHANGED <<usage, unsaved, priceList, month, repricer, ledger, reader>>
    BY <1>4 DEF ApplyUsage
  <2>2. books'.prices = books.prices
    BY <1>2, <2>1, AppliedPrices
  <2> QED
    BY <2>1, <2>2 DEF BooksBounded
<1>5. ASSUME NEW p \in 1..MaxPrice, BeginReprice(p) PROVE BooksBounded'
  <2>1. /\ repricer' = <<[step |-> "install", books |-> Rebuilt(month, p)]>>
        /\ UNCHANGED <<usage, unsaved, books, priceList, month, recorder, ledger, reader>>
    BY <1>5 DEF BeginReprice
  <2>2. p \in PriceList
    BY BooksAssumption DEF PriceList
  <2>3. Rebuilt(month, p) \in Books
    BY <2>2, RebuiltWithin
  <2>4. repricer'[1].books \in Books
    BY <2>1, <2>3
  <2> QED
    BY <2>1, <2>4 DEF BooksBounded
<1>6. CASE InstallBooks
  <2>1. /\ repricer # <<>> /\ books' = repricer[1].books /\ unsaved' = <<>>
        /\ repricer' = <<[repricer[1] EXCEPT !.step = "publish"]>>
        /\ UNCHANGED <<usage, priceList, month, recorder, ledger, reader>>
    BY <1>6 DEF InstallBooks, Repricing
  <2>2. repricer[1].books \in Books
    BY <2>1 DEF BooksBounded
  <2>3. PICK step \in {"install", "publish"}, b \in AnyBooks :
            repricer = <<[step |-> step, books |-> b]>>
    BY <2>1 DEF BooksInv, BooksTyped
  <2>4. repricer'[1].books \in Books
    BY <2>1, <2>2, <2>3
  <2>5. books'.prices \in PriceList
    BY <2>1, <2>2 DEF Books
  <2>6. Len(usage') + Len(unsaved') <= MaxUsage
    BY <1>1, <2>1
  <2> QED
    BY <2>1, <2>4, <2>5, <2>6 DEF BooksBounded
<1>7. CASE InstallPrices
  <2>1. /\ repricer # <<>> /\ priceList' = repricer[1].books.prices /\ repricer' = <<>>
        /\ UNCHANGED <<usage, unsaved, books, month, recorder, ledger, reader>>
    BY <1>7 DEF InstallPrices
  <2>2. repricer[1].books.prices \in PriceList
    BY <2>1 DEF BooksBounded, Books
  <2> QED
    BY <2>1, <2>2 DEF BooksBounded
<1>8. CASE DrawSnapshot
  <2>1. /\ books' = Synced(books, month)
        /\ UNCHANGED <<usage, unsaved, priceList, month, recorder, repricer, ledger, reader>>
    BY <1>8 DEF DrawSnapshot
  <2>2. books'.prices = books.prices
    BY <1>2, <2>1 DEF Synced, Opening, AnyBooks
  <2> QED
    BY <2>1, <2>2 DEF BooksBounded
<1>9. CASE MonthEnds
  BY <1>9 DEF MonthEnds, BooksBounded
<1>10. CASE RestartBooks
  <2>1. /\ priceList' = 0 /\ books' = Rebuilt(month, 0) /\ unsaved' = <<>> /\ repricer' = <<>>
        /\ ledger' = [month |-> 0, prices |-> 0, lastID |-> 0, cost |-> NoCost, lifetime |-> NoCost]
        /\ reader' = [q \in Readers |-> [step |-> "idle", month |-> 0, prices |-> 0]]
        /\ UNCHANGED <<usage, month>>
    BY <1>10 DEF RestartBooks
  <2>2. 0 \in PriceList /\ 0 \in Months
    BY BooksAssumption DEF PriceList, Months
  <2>3. books'.prices = 0
    BY <2>1, <2>2, RebuiltWithin
  <2>4. Len(usage') + Len(unsaved') <= MaxUsage
    BY <1>1, <2>1
  <2> QED
    BY <2>1, <2>2, <2>3, <2>4 DEF BooksBounded
<1> QED
  BY <1>3, <1>4, <1>5, <1>6, <1>7, <1>8, <1>9, <1>10

(* The pages: a ledger has the month and the prices that its page read.    *)
LEMMA BoundedPages ==
    ASSUME BooksInv, BooksBounded, NEW q \in Readers,
           AskTotals(q) \/ OpenLedger(q) \/ ReadBatch(q)
    PROVE  BooksBounded'
<1>1. /\ reader \in [Readers -> [step: {"idle", "waiting", "reading"}, month: Nat, prices: Nat]]
      /\ ledger \in AnyLedger /\ month \in Months /\ priceList \in PriceList
      /\ reader[q].month \in Months /\ reader[q].prices \in PriceList
  BY DEF BooksInv, BooksTyped, LedgerRight, BooksBounded
<1>2. UNCHANGED <<usage, unsaved, books, priceList, month, recorder, repricer>>
  BY DEF AskTotals, OpenLedger, ReadBatch
<1>3. SUFFICES /\ ledger'.month \in Months /\ ledger'.prices \in PriceList
               /\ \A p \in Readers : reader'[p].month \in Months /\ reader'[p].prices \in PriceList
  BY <1>2 DEF BooksBounded
<1>4. CASE AskTotals(q)
  <2>1. /\ ledger' = ledger
        /\ reader' = [reader EXCEPT ![q] = [step |-> "waiting", month |-> month, prices |-> priceList]]
    BY <1>4 DEF AskTotals
  <2> QED
    BY <1>1, <2>1 DEF BooksBounded
<1>5. CASE OpenLedger(q)
  <2>1. /\ reader' = [reader EXCEPT ![q].step = "reading"]
        /\ \/ ledger' = [month |-> reader[q].month, prices |-> reader[q].prices, lastID |-> 0,
                         cost |-> NoCost, lifetime |-> NoCost]
           \/ ledger' = ledger
    BY <1>5 DEF OpenLedger
  <2> QED
    BY <1>1, <2>1 DEF BooksBounded
<1>6. CASE ReadBatch(q)
  <2>1. PICK step \in {"idle", "reading"} : reader' = [reader EXCEPT ![q].step = step]
    BY <1>6 DEF ReadBatch
  <2>2. \A p \in Readers : reader'[p].month = reader[p].month /\ reader'[p].prices = reader[p].prices
    BY <1>1, <2>1
  <2>3. /\ BooksInv' /\ ledger.month = reader[q].month /\ ledger.prices = reader[q].prices
        /\ reader[q].step = "reading"
    BY <1>6, ReadBatchKeepsBooks DEF ReadBatch, BooksInv, LedgerRight
  <2>4. ledger'.month = ledger.month /\ ledger'.prices = ledger.prices
    <3> DEFINE first == ledger.lastID
               last == IF first + LedgerBatch < Len(usage) THEN first + LedgerBatch ELSE Len(usage)
    <3>1. ledger' = Batch(last, ledger.prices) \/ ledger' = ledger
      BY <1>6, <2>3 DEF ReadBatch
    <3>2. /\ usage \in Seq(UsageEvent) /\ first <= Len(usage) /\ first \in Nat
          /\ ReadTo(ledger, first) /\ Len(usage) \in Nat /\ LedgerBatch \in Nat
      BY <1>1, BooksAssumption DEF BooksInv, BooksTyped, LedgerRight, AnyLedger
    <3>3. last \in Nat /\ first <= last /\ last <= Len(usage)
      BY <3>2
    <3> HIDE DEF last
    <3>4. /\ Batch(last, ledger.prices).month = ledger.month
          /\ Batch(last, ledger.prices).prices = ledger.prices
      BY <1>1, <3>2, <3>3, BatchReads
    <3> QED
      BY <3>1, <3>4
  <2> QED
    BY <1>1, <2>2, <2>4 DEF BooksBounded
<1> QED
  BY <1>4, <1>5, <1>6

LEMMA BoundedKept ==
    ASSUME BooksInv, BooksBounded, [BooksNext]_booksVars
    PROVE  BooksBounded'
<1>1. CASE UNCHANGED booksVars
  BY <1>1 DEF booksVars, BooksBounded
<1>2. CASE BooksNext
  BY <1>2, BoundedBooks, BoundedPages DEF BooksNext
<1> QED
  BY <1>1, <1>2

(* What the invariant and the bounds say of the sums.                      *)
LEMMA BoundsType ==
    ASSUME BooksInv, BooksBounded
    PROVE  BooksTypeOK
<1>1. /\ usage \in Seq(UsageEvent) /\ unsaved \in Seq(UsageEvent)
      /\ Len(usage) \in Nat /\ Len(unsaved) \in Nat /\ MaxUsage \in Nat
      /\ Len(usage) + Len(unsaved) <= MaxUsage /\ Len(usage) <= MaxUsage
      /\ priceList \in PriceList /\ month \in Months
  <2>1. /\ usage \in Seq(UsageEvent) /\ unsaved \in Seq(UsageEvent) /\ month \in Months
    BY DEF BooksInv, BooksTyped
  <2>2. Len(usage) \in Nat /\ Len(unsaved) \in Nat /\ MaxUsage \in Nat
    BY <2>1, BooksAssumption
  <2> QED
    BY <2>1, <2>2 DEF BooksBounded
<1>2. books \in Books
  <2>1. ASSUME NEW E \in SUBSET UsageEvent PROVE Booked[E] <= MaxUsage
    <3>1. /\ Count(usage, Len(usage), E) \in Nat /\ Count(usage, Len(usage), E) <= Len(usage)
          /\ Count(unsaved, Len(unsaved), E) \in Nat
          /\ Count(unsaved, Len(unsaved), E) <= Len(unsaved)
      BY <1>1, CountBound
    <3>2. Counted(E) \in Nat /\ Counted(E) <= MaxUsage
      BY <1>1, <3>1 DEF Counted
    <3>3. Booked[E] = Counted(E) \/ Booked[E] = Counted(E) - 1
      BY DEF Booked
    <3> QED
      BY <1>1, <3>2, <3>3
  <2>2. /\ books \in AnyBooks /\ Agrees(books, Booked) /\ Booked \in Numbers
        /\ books.prices \in PriceList
    BY <1>1, BookedType DEF BooksInv, BooksTyped, BooksRight, BooksBounded
  <2>3. books.month \in Months
    BY <1>1, <2>2, BooksAssumption DEF BooksInv, NothingAhead, AnyBooks, Months
  <2> QED
    BY <2>1, <2>2, <2>3, BooksWithin
<1>3. recorder \in Seq(UsageEvent) /\ Len(recorder) <= 1
  <2>1. recorder = <<>> \/ \E e \in UsageEvent : recorder = <<e>>
    BY DEF BooksInv, BooksTyped
  <2>2. ASSUME NEW e \in UsageEvent PROVE <<e>> \in Seq(UsageEvent) /\ Len(<<e>>) <= 1
    OBVIOUS
  <2>3. <<>> \in Seq(UsageEvent) /\ Len(<<>>) <= 1
    OBVIOUS
  <2> QED
    BY <2>1, <2>2, <2>3
<1>4. /\ repricer \in Seq([step: {"install", "publish"}, books: Books])
      /\ Len(repricer) <= 1
  <2>1. CASE repricer = <<>>
    BY <2>1
  <2>2. CASE repricer # <<>>
    <3>1. PICK step, b : step \in {"install", "publish"} /\ repricer = <<[step |-> step, books |-> b]>>
      BY <2>2 DEF BooksInv, BooksTyped
    <3>2. b \in Books
      BY <2>2, <3>1 DEF BooksBounded
    <3>3. [step |-> step, books |-> b] \in [step: {"install", "publish"}, books: Books]
      BY <3>1, <3>2
    <3>4. \A S : \A e \in S : <<e>> \in Seq(S) /\ Len(<<e>>) <= 1
      OBVIOUS
    <3> QED
      BY <3>1, <3>3, <3>4, Zenon
  <2> QED
    BY <2>1, <2>2
<1>5. ledger \in [month: Months, prices: PriceList, lastID: 0..Len(usage), cost: Cost, lifetime: Cost]
  <2>1. /\ ledger \in AnyLedger /\ ledger.month \in Months /\ ledger.prices \in PriceList
        /\ ledger.lastID \in 0..Len(usage)
        /\ ledger.lastID \in Nat /\ ledger.cost \in AnyCost /\ ledger.lifetime \in AnyCost
        /\ ReadTo(ledger, ledger.lastID)
    BY <1>1 DEF BooksInv, LedgerRight, AnyLedger, BooksBounded
  <2>2. ledger.lifetime \in Cost
    <3>1. ledger.lastID <= MaxUsage
      BY <1>1, <2>1
    <3>2. ledger.lifetime = CostOf(ledger.lastID, ledger.prices)
      BY <2>1 DEF ReadTo
    <3>3. ledger.lastID \in Int
      BY <2>1
    <3> DEFINE n == ledger.lastID
               price == ledger.prices
    <3>4. n \in Int /\ n <= MaxUsage /\ price \in PriceList /\ CostOf(n, price) \in AnyCost
      BY <2>1, <3>1, <3>2, <3>3
    <3> HIDE DEF n, price
    <3>5. CostOf(n, price) \in Cost
      BY <3>4, CostBound
    <3> QED
      BY <3>2, <3>5 DEF n, price
  <2>3. ledger.cost \in Cost
    <3> DEFINE n == Count(usage, ledger.lastID, From(ledger.month))
    <3>1. n \in Nat /\ n <= ledger.lastID
      BY <2>1, CountBound
    <3>2. ledger.cost = CostOf(n, ledger.prices)
      BY <2>1 DEF ReadTo
    <3> HIDE DEF n
    <3>3. n \in Int /\ n <= MaxUsage
      BY <1>1, <2>1, <3>1
    <3> DEFINE price == ledger.prices
    <3>4. price \in PriceList /\ CostOf(n, price) \in AnyCost /\ ledger.cost = CostOf(n, price)
      BY <2>1, <3>2
    <3> HIDE DEF price
    <3>5. CostOf(n, price) \in Cost
      BY <3>3, <3>4, CostBound
    <3> QED
      BY <3>4, <3>5
  <2> QED
    BY <2>1, <2>2, <2>3 DEF AnyLedger
<1>6. reader \in [Readers -> [step: {"idle", "waiting", "reading"}, month: Months, prices: PriceList]]
  BY DEF BooksInv, LedgerRight, BooksBounded
<1> QED
  BY <1>1, <1>2, <1>3, <1>4, <1>5, <1>6 DEF BooksTypeOK

(* However prices, months, restarts and pages overlap, no sum is more than *)
(* all events at the highest price, and the ledger reads no event that     *)
(* there is not.                                                           *)
THEOREM BooksTypes == BooksSpec => []BooksTypeOK
<1>1. BooksInit => BooksBounded
  BY BoundedStart
<1>2. BooksInv /\ BooksBounded /\ [BooksNext]_booksVars => BooksBounded'
  BY BoundedKept
<1>3. BooksInv /\ BooksBounded => BooksTypeOK
  BY BoundsType
<1>4. BooksSpec => []BooksInv
  BY BooksInductive
<1> QED
  BY <1>1, <1>2, <1>3, <1>4, PTL DEF BooksSpec

------------------------------------------------------------------------------
(* RoutedCredits: what becomes of a window when a point is inserted.       *)

(* b are the sums up to each point before, q those after; c is new at p.   *)
Shift(N, p, c, d, b, q, w) ==
    /\ N \in Nat /\ p \in 1..(N + 1) /\ c \in Int /\ d \in Int
    /\ b \in [0..N -> Int] /\ q \in [0..(N + 1) -> Int] /\ w \in [1..N -> Int]
    /\ \A i \in 1..N : b[i] = b[i - 1] + w[i]
    /\ \A i \in p..N : q[i + 1] = q[i] + w[i]
    /\ q[p] = q[p - 1] + c
    /\ \A n \in 0..(p - 1) : q[n] = b[n] + d

Moved(N, p, c, b, q) ==
    /\ \A n \in 0..(p - 1) : q[N + 1] - q[n] = b[N] - b[n] + c
    /\ \A n \in (p - 1)..N : q[N + 1] - q[n + 1] = b[N] - b[n]

LEMMA Shifted ==
    ASSUME NEW N, NEW p, NEW c, NEW d, NEW b, NEW q, NEW w, Shift(N, p, c, d, b, q, w)
    PROVE  Moved(N, p, c, b, q)
<1> DEFINE lo == p - 1
           Good == {i \in lo..N : q[i + 1] = b[i] + d + c}
<1>0. /\ N \in Nat /\ p \in 1..(N + 1) /\ c \in Int /\ d \in Int
      /\ b \in [0..N -> Int] /\ q \in [0..(N + 1) -> Int] /\ w \in [1..N -> Int]
  BY DEF Shift
<1>1. lo \in Nat /\ lo <= N /\ lo \in 0..N /\ p \in 0..(N + 1)
  BY <1>0
<1>2. lo \in Good
  <2>1. q[p] = q[p - 1] + c /\ q[p - 1] = b[p - 1] + d
    BY <1>0, <1>1 DEF Shift
  <2> QED
    BY <1>0, <1>1, <2>1
<1>3. ASSUME NEW n \in lo..N, n > lo, n - 1 \in Good
      PROVE  n \in Good
  <2>1. n \in p..N /\ n \in 1..N /\ n - 1 \in 0..N /\ n \in 0..(N + 1) /\ n + 1 \in 0..(N + 1)
    BY <1>0, <1>1, <1>3
  <2>2. q[n] = b[n - 1] + d + c
    BY <1>3, <2>1
  <2>3. q[n + 1] = q[n] + w[n] /\ b[n] = b[n - 1] + w[n] /\ w[n] \in Int /\ b[n - 1] \in Int
    BY <1>0, <2>1 DEF Shift
  <2>4. q[n + 1] = b[n] + d + c
    <3> DEFINE x == b[n - 1]
               y == w[n]
    <3>1. x \in Int /\ y \in Int /\ q[n + 1] = (x + d + c) + y /\ b[n] = x + y
      BY <1>0, <2>2, <2>3
    <3> HIDE DEF x, y
    <3>2. (x + d + c) + y = (x + y) + d + c
      BY <1>0, <3>1
    <3> QED
      BY <3>1, <3>2
  <2> QED
    BY <2>4
<1>4. \A n \in lo..N : n \in Good
  <2>1. Good \in SUBSET (lo..N)
    BY <1>0
  <2> HIDE DEF Good, lo
  <2>2. \A n \in lo..N : n > lo /\ n - 1 \in Good => n \in Good
    BY <1>3
  <2> QED
    BY <1>0, <1>1, <1>2, <2>1, <2>2, Upwards
<1>5. \A n \in lo..N : q[n + 1] = b[n] + d + c /\ b[n] \in Int
  BY <1>0, <1>1, <1>4
<1>6. N \in lo..N
  BY <1>0, <1>1
<1>7. ASSUME NEW n \in 0..(p - 1) PROVE q[N + 1] - q[n] = b[N] - b[n] + c
  <2>1. n \in 0..N /\ N \in 0..N
    BY <1>0
  <2>2. b[n] \in Int /\ b[N] \in Int
    BY <1>0, <2>1, Zenon
  <2>3. q[N + 1] = b[N] + d + c /\ q[n] = b[n] + d
    BY <1>5, <1>6, <1>7 DEF Shift
  <2> QED
    <3> DEFINE x == b[n]
               y == b[N]
    <3>1. x \in Int /\ y \in Int /\ q[N + 1] = y + d + c /\ q[n] = x + d
      BY <2>2, <2>3
    <3> HIDE DEF x, y
    <3>2. (y + d + c) - (x + d) = y - x + c
      BY <1>0, <3>1
    <3> QED
      BY <3>1, <3>2 DEF x, y
<1>8. ASSUME NEW n \in (p - 1)..N PROVE q[N + 1] - q[n + 1] = b[N] - b[n]
  <2>1. b[n] \in Int /\ b[N] \in Int
    BY <1>0, <1>1, <1>8
  <2>2. q[N + 1] = b[N] + d + c /\ q[n + 1] = b[n] + d + c
    BY <1>0, <1>5, <1>6, <1>8
  <2> QED
    <3> DEFINE x == b[n]
               y == b[N]
    <3>1. x \in Int /\ y \in Int /\ q[N + 1] = y + d + c /\ q[n + 1] = x + d + c
      BY <2>1, <2>2
    <3> HIDE DEF x, y
    <3>2. (y + d + c) - (x + d + c) = y - x
      BY <1>0, <3>1
    <3> QED
      BY <3>1, <3>2 DEF x, y
<1> QED
  BY <1>7, <1>8 DEF Moved

------------------------------------------------------------------------------
(* RoutedCredits: sequences of points.                                     *)

AnyPoint == [at: Int, credits: Int, unpriced: Int, total: Int, totalUnpriced: Int]

Ordered(s) == \A i, j \in DOMAIN s : i <= j => s[i].at <= s[j].at

(* Each sum is the one before and the credits of the point.                *)
Adjacent(s) ==
    \A i \in 2..Len(s) : /\ s[i].total = s[i - 1].total + s[i].credits
                         /\ s[i].totalUnpriced = s[i - 1].totalUnpriced + s[i].unpriced

LEMMA SearchUnique ==
    ASSUME NEW s \in Seq(AnyPoint), NEW t \in Int, NEW n \in 0..Len(s),
           \A i \in 1..Len(s) : i <= n <=> s[i].at < t
    PROVE  OlderThan(s, t) = n
<1> DEFINE Found(k) == \A i \in DOMAIN s : i <= k <=> s[i].at < t
           o == OlderThan(s, t)
<1>1. Len(s) \in Nat /\ DOMAIN s = 1..Len(s)
  OBVIOUS
<1>2. o \in 0..Len(s) /\ Found(o)
  <2>1. \E k \in 0..Len(s) : Found(k)
    BY <1>1
  <2> QED
    BY <2>1 DEF OlderThan
<1> HIDE DEF o
<1>3. ~(o < n) /\ ~(n < o)
  <2>1. o < n => n \in 1..Len(s)
    BY <1>1, <1>2
  <2>2. n < o => o \in 1..Len(s)
    BY <1>1, <1>2
  <2> QED
    BY <1>1, <1>2, <2>1, <2>2
<1> QED
  BY <1>1, <1>2, <1>3 DEF o

(* sort.Search finds its place in an ordered sequence.                     *)
LEMMA Search ==
    ASSUME NEW s \in Seq(AnyPoint), NEW t \in Int, Ordered(s)
    PROVE  /\ OlderThan(s, t) \in 0..Len(s)
           /\ \A i \in 1..Len(s) : i <= OlderThan(s, t) <=> s[i].at < t
<1> DEFINE L == Len(s)
           Late == {k \in 1..(L + 1) : k = L + 1 \/ s[k].at >= t}
<1>1. L \in Nat /\ DOMAIN s = 1..L /\ \A i \in 1..L : s[i] \in AnyPoint
  OBVIOUS
<1>2. \A i \in 1..L : s[i].at \in Int
  BY <1>1 DEF AnyPoint
<1> HIDE DEF L
<1>3. Late \in SUBSET Nat /\ L + 1 \in Late
  BY <1>1
<1>4. PICK k \in Late : \A j \in Late : k <= j
  BY <1>3, LeastNumber
<1>5. k \in 1..(L + 1) /\ (k = L + 1 \/ s[k].at >= t)
  BY <1>4
<1>6. ASSUME NEW i \in 1..L PROVE i <= k - 1 <=> s[i].at < t
  <2>1. CASE i <= k - 1
    <3>1. i \notin Late
      BY <1>1, <1>4, <1>5, <2>1
    <3> QED
      BY <1>1, <1>2, <2>1, <3>1
  <2>2. CASE i > k - 1
    <3>1. k \in 1..L /\ k <= i /\ s[k].at >= t
      BY <1>1, <1>5, <2>2
    <3>2. s[k].at <= s[i].at
      BY <1>1, <3>1 DEF Ordered
    <3> QED
      BY <1>1, <1>2, <1>5, <2>2, <3>1, <3>2
  <2> QED
    BY <1>1, <1>5, <2>1, <2>2
<1>7. k - 1 \in 0..L
  BY <1>1, <1>5
<1>8. OlderThan(s, t) = k - 1
  BY <1>6, <1>7, SearchUnique DEF L
<1> QED
  BY <1>6, <1>7, <1>8 DEF L

LEMMA Inserting ==
    ASSUME NEW S, NEW s \in Seq(S), NEW p \in 1..(Len(s) + 1), NEW x \in S
    PROVE  /\ InsertAt(s, p, x) \in Seq(S)
           /\ Len(InsertAt(s, p, x)) = Len(s) + 1
           /\ \A i \in 1..(p - 1) : InsertAt(s, p, x)[i] = s[i]
           /\ InsertAt(s, p, x)[p] = x
           /\ \A i \in p..Len(s) : InsertAt(s, p, x)[i + 1] = s[i]
<1> DEFINE before == SubSeq(s, 1, p - 1)
           after == SubSeq(s, p, Len(s))
           L == Len(s)
           r == InsertAt(s, p, x)
<1>1. L \in Nat /\ p \in 1..(L + 1) /\ \A i \in 1..L : s[i] \in S
  OBVIOUS
<1>2. /\ before \in Seq(S) /\ Len(before) = p - 1
      /\ \A j \in 1..(p - 1) : before[j] = s[j]
  <2>1. \A j \in 1..(p - 1) : s[j] \in S
    BY <1>1
  <2>2. /\ before \in Seq(S)
        /\ Len(before) = IF 1 <= p - 1 THEN (p - 1) - 1 + 1 ELSE 0
        /\ \A j \in 1..((p - 1) - 1 + 1) : before[j] = s[1 + j - 1]
    BY <1>1, <2>1, SubSeqProperties
  <2> QED
    BY <1>1, <2>2
<1>3. /\ after \in Seq(S) /\ Len(after) = L - p + 1
      /\ \A j \in 1..(L - p + 1) : after[j] = s[p + j - 1]
  <2>1. \A j \in p..L : s[j] \in S
    BY <1>1
  <2>2. /\ after \in Seq(S)
        /\ Len(after) = IF p <= L THEN L - p + 1 ELSE 0
        /\ \A j \in 1..(L - p + 1) : after[j] = s[p + j - 1]
    BY <1>1, <2>1, SubSeqProperties
  <2> QED
    BY <1>1, <2>2
<1>4. r = before \o <<x>> \o after
  BY DEF InsertAt
<1> HIDE DEF before, after, r, L
<1> DEFINE front == before \o <<x>>
<1>5. /\ front \in Seq(S) /\ Len(front) = p
      /\ \A j \in 1..(p - 1) : front[j] = s[j]
      /\ front[p] = x
  <2>1. <<x>> \in Seq(S) /\ Len(<<x>>) = 1 /\ <<x>>[1] = x
    OBVIOUS
  <2>2. /\ front \in Seq(S) /\ Len(front) = Len(before) + Len(<<x>>)
        /\ \A i \in 1..(Len(before) + Len(<<x>>)) :
              front[i] = IF i <= Len(before) THEN before[i] ELSE <<x>>[i - Len(before)]
    BY <1>2, <2>1, ConcatProperties
  <2>3. (p - 1) + 1 = p /\ p \in Nat /\ p \in 1..p /\ ~(p <= p - 1) /\ p - (p - 1) = 1
    BY <1>1
  <2>4. /\ front \in Seq(S) /\ Len(front) = p
        /\ \A i \in 1..p : front[i] = IF i <= p - 1 THEN before[i] ELSE <<x>>[i - (p - 1)]
    BY <1>2, <2>1, <2>2, <2>3
  <2> HIDE DEF front
  <2>5. front[p] = x
    BY <2>1, <2>3, <2>4
  <2>6. ASSUME NEW j \in 1..(p - 1) PROVE front[j] = s[j]
    <3>1. j \in 1..p /\ j <= p - 1
      BY <1>1
    <3> QED
      BY <1>2, <2>4, <3>1
  <2> QED
    BY <2>4, <2>5, <2>6
<1> HIDE DEF front
<1>6. /\ r \in Seq(S) /\ Len(r) = p + (L - p + 1)
      /\ \A i \in 1..(p + (L - p + 1)) :
            r[i] = IF i <= p THEN front[i] ELSE after[i - p]
  <2>1. r = front \o after
    BY <1>4 DEF front
  <2> QED
    <3>1. /\ front \o after \in Seq(S) /\ Len(front \o after) = Len(front) + Len(after)
          /\ \A i \in 1..(Len(front) + Len(after)) :
                (front \o after)[i] = IF i <= Len(front) THEN front[i] ELSE after[i - Len(front)]
      BY <1>3, <1>5, ConcatProperties
    <3> QED
      BY <1>3, <1>5, <2>1, <3>1
<1>7. Len(r) = L + 1
  BY <1>1, <1>6
<1>8. \A i \in 1..(p - 1) : r[i] = s[i]
  BY <1>1, <1>5, <1>6
<1>9. r[p] = x
  BY <1>1, <1>5, <1>6
<1>10. ASSUME NEW i \in p..L PROVE r[i + 1] = s[i]
  <2>1. i + 1 \in 1..(p + (L - p + 1)) /\ ~(i + 1 <= p) /\ (i + 1) - p \in 1..(L - p + 1)
    BY <1>1
  <2>2. r[i + 1] = after[(i + 1) - p]
    BY <1>6, <2>1
  <2>3. after[(i + 1) - p] = s[p + ((i + 1) - p) - 1]
    BY <1>3, <2>1
  <2>4. p + ((i + 1) - p) - 1 = i
    BY <1>1
  <2> QED
    BY <2>2, <2>3, <2>4
<1> QED
  BY <1>6, <1>7, <1>8, <1>9, <1>10 DEF r, L

AnyTotals == [total: Int, unpriced: Int]

(* The sums before the i-th point.                                         *)
SumsBefore(s, i) ==
    IF i = 1 THEN [total |-> 0, unpriced |-> 0]
    ELSE [total |-> s[i - 1].total, unpriced |-> s[i - 1].totalUnpriced]

(* The loop over the sums: from a position on, each is the one before and  *)
(* the credits of the point.                                               *)
LEMMA Summing ==
    ASSUME NEW s \in Seq(AnyPoint), NEW p \in 1..Len(s)
    PROVE  LET r == Summed(s, p)
           IN  /\ r \in Seq(AnyPoint) /\ Len(r) = Len(s)
               /\ \A i \in 1..(p - 1) : r[i] = s[i]
               /\ \A i \in p..Len(s) :
                     /\ r[i].at = s[i].at /\ r[i].credits = s[i].credits
                     /\ r[i].unpriced = s[i].unpriced
                     /\ r[i].total = SumsBefore(r, i).total + s[i].credits
                     /\ r[i].totalUnpriced = SumsBefore(r, i).unpriced + s[i].unpriced
<1> DEFINE L == Len(s)
           lo == p - 1
           start == SumsBefore(s, p)
           Loop(f) == [i \in lo..L |->
                          IF i = 0 THEN [total |-> 0, unpriced |-> 0]
                          ELSE IF i = lo
                          THEN [total |-> s[i].total, unpriced |-> s[i].totalUnpriced]
                          ELSE [total |-> f[i - 1].total + s[i].credits,
                                unpriced |-> f[i - 1].unpriced + s[i].unpriced]]
           sum == CHOOSE f : f = Loop(f)
           next == [i \in lo..L |->
                       [v \in AnyTotals |->
                           IF i = lo THEN v
                           ELSE [total |-> v.total + s[i].credits,
                                 unpriced |-> v.unpriced + s[i].unpriced]]]
           changed(i) == [s[i] EXCEPT !.total = sum[i].total, !.totalUnpriced = sum[i].unpriced]
           r == Summed(s, p)
<1>1. /\ L \in Nat /\ p \in 1..L /\ lo \in Nat /\ lo <= L
      /\ DOMAIN s = 1..L /\ \A i \in 1..L : s[i] \in AnyPoint
  OBVIOUS
<1>2. r = [i \in 1..L |-> IF i < p THEN s[i] ELSE changed(i)]
  BY <1>1 DEF Summed
<1>3. \A i \in 1..L : /\ s[i].at \in Int /\ s[i].credits \in Int /\ s[i].unpriced \in Int
                      /\ s[i].total \in Int /\ s[i].totalUnpriced \in Int
  BY <1>1 DEF AnyPoint
<1>4. start \in AnyTotals
  <2>1. p # 1 => p - 1 \in 1..L
    BY <1>1
  <2> QED
    BY <1>3, <2>1 DEF SumsBefore, AnyTotals
<1> HIDE DEF L, lo, start, r, sum, changed
<1>5. PICK f \in [lo..L -> AnyTotals] :
         /\ f[lo] = start
         /\ \A i \in lo..L : i > lo => f[i] = next[i][f[i - 1]]
  <2>1. next \in [lo..L -> [AnyTotals -> AnyTotals]]
    <3>1. ASSUME NEW i \in lo..L, NEW v \in AnyTotals, i # lo
          PROVE  [total |-> v.total + s[i].credits, unpriced |-> v.unpriced + s[i].unpriced] \in AnyTotals
      <4>1. i \in 1..L
        BY <1>1, <3>1
      <4> QED
        BY <1>3, <4>1 DEF AnyTotals
    <3> QED
      BY <3>1
  <2> HIDE DEF next
  <2>2. HasValues(AnyTotals, start, lo, L, next)
    BY <1>1, <1>4, <2>1, LoopValues
  <2> QED
    BY <2>2 DEF HasValues
<1>6. ASSUME NEW i \in lo..L, i > lo
      PROVE  /\ f[i - 1] \in AnyTotals
             /\ f[i] = [total |-> f[i - 1].total + s[i].credits,
                        unpriced |-> f[i - 1].unpriced + s[i].unpriced]
  <2>1. i - 1 \in lo..L
    BY <1>1, <1>6
  <2>2. f[i - 1] \in AnyTotals
    BY <2>1
  <2>3. next[i][f[i - 1]] = [total |-> f[i - 1].total + s[i].credits,
                             unpriced |-> f[i - 1].unpriced + s[i].unpriced]
    BY <1>6, <2>2
  <2> QED
    BY <1>5, <1>6, <2>2, <2>3
<1> HIDE DEF next
<1>7. /\ sum \in [lo..L -> AnyTotals] /\ sum[lo] = start
      /\ \A i \in lo..L : i > lo => sum[i] = [total |-> sum[i - 1].total + s[i].credits,
                                              unpriced |-> sum[i - 1].unpriced + s[i].unpriced]
  <2>1. f = Loop(f)
    <3>1. ASSUME NEW i \in lo..L
          PROVE  f[i] = IF i = 0 THEN [total |-> 0, unpriced |-> 0]
                        ELSE IF i = lo
                        THEN [total |-> s[i].total, unpriced |-> s[i].totalUnpriced]
                        ELSE [total |-> f[i - 1].total + s[i].credits,
                              unpriced |-> f[i - 1].unpriced + s[i].unpriced]
      <4>1. CASE i = lo
        BY <1>1, <1>5, <4>1 DEF start, SumsBefore, lo
      <4>2. CASE i # lo
        <5>1. i > lo /\ i # 0
          BY <1>1, <4>2
        <5> QED
          BY <1>6, <4>2, <5>1
      <4> QED
        BY <4>1, <4>2
    <3> QED
      BY <3>1
  <2>2. sum = Loop(sum)
    BY <2>1 DEF sum
  <2>3. ASSUME NEW i \in lo..L
        PROVE  sum[i] = IF i = 0 THEN [total |-> 0, unpriced |-> 0]
                        ELSE IF i = lo
                        THEN [total |-> s[i].total, unpriced |-> s[i].totalUnpriced]
                        ELSE [total |-> sum[i - 1].total + s[i].credits,
                              unpriced |-> sum[i - 1].unpriced + s[i].unpriced]
    BY <2>2
  <2>4. sum[lo] = start
    <3>1. lo \in lo..L
      BY <1>1
    <3>2. CASE lo = 0
      <4>1. sum[lo] = [total |-> 0, unpriced |-> 0]
        BY <2>3, <3>1, <3>2
      <4>2. p = 1
        BY <1>1, <3>2 DEF lo
      <4> QED
        BY <4>1, <4>2 DEF start, SumsBefore
    <3>3. CASE lo # 0
      <4>1. sum[lo] = [total |-> s[lo].total, unpriced |-> s[lo].totalUnpriced]
        BY <2>3, <3>1, <3>3
      <4>2. p # 1 /\ lo = p - 1
        BY <1>1, <3>3 DEF lo
      <4> QED
        BY <4>1, <4>2 DEF start, SumsBefore
    <3> QED
      BY <3>2, <3>3
  <2>5. ASSUME NEW i \in lo..L, i > lo
        PROVE  sum[i] = [total |-> sum[i - 1].total + s[i].credits,
                         unpriced |-> sum[i - 1].unpriced + s[i].unpriced]
    <3>1. i # 0 /\ i # lo
      BY <1>1, <2>5
    <3> QED
      BY <2>3, <3>1
  <2> DEFINE Good == {i \in lo..L : sum[i] = f[i]}
  <2>6. \A i \in lo..L : i \in Good
    <3>1. lo \in Good
      BY <1>1, <1>5, <2>4
    <3>2. ASSUME NEW i \in lo..L, i > lo, i - 1 \in Good PROVE i \in Good
      <4>1. sum[i - 1] = f[i - 1]
        BY <3>2
      <4> QED
        BY <1>6, <2>5, <3>2, <4>1
    <3>3. Good \in SUBSET (lo..L)
      OBVIOUS
    <3> HIDE DEF Good
    <3>4. \A i \in lo..L : i > lo /\ i - 1 \in Good => i \in Good
      BY <3>2
    <3> QED
      BY <1>1, <3>1, <3>3, <3>4, Upwards
  <2>7. \A i \in lo..L : sum[i] \in AnyTotals
    BY <2>6
  <2>8. sum = [i \in lo..L |-> sum[i]]
    BY <2>2
  <2> QED
    BY <2>4, <2>5, <2>7, <2>8
<1>8. ASSUME NEW i \in p..L
      PROVE  /\ r[i].at = s[i].at /\ r[i].credits = s[i].credits
             /\ r[i].unpriced = s[i].unpriced
             /\ r[i].total = sum[i].total /\ r[i].totalUnpriced = sum[i].unpriced
             /\ r[i] \in AnyPoint
  <2>1. i \in 1..L /\ ~(i < p) /\ i \in lo..L
    BY <1>1, <1>8 DEF lo
  <2>2. r[i] = [s[i] EXCEPT !.total = sum[i].total, !.totalUnpriced = sum[i].unpriced]
    BY <1>2, <2>1 DEF changed
  <2>3. sum[i].total \in Int /\ sum[i].unpriced \in Int
    BY <1>7, <2>1 DEF AnyTotals
  <2>4. s[i] \in AnyPoint
    BY <1>1, <2>1
  <2> QED
    BY <2>2, <2>3, <2>4 DEF AnyPoint
<1>9. \A i \in 1..(p - 1) : r[i] = s[i]
  BY <1>1, <1>2
<1>10. r \in Seq(AnyPoint) /\ Len(r) = L
  <2>1. ASSUME NEW i \in 1..L PROVE r[i] \in AnyPoint
    <3>1. i \in p..L \/ i \in 1..(p - 1)
      BY <1>1
    <3> QED
      BY <1>1, <1>8, <1>9, <3>1
  <2>2. r = [i \in 1..L |-> r[i]]
    BY <1>2
  <2>3. r \in [1..L -> AnyPoint]
    BY <2>1, <2>2
  <2> QED
    BY <1>1, <2>3
<1>11. ASSUME NEW i \in p..L
       PROVE  /\ r[i].total = SumsBefore(r, i).total + s[i].credits
              /\ r[i].totalUnpriced = SumsBefore(r, i).unpriced + s[i].unpriced
  <2>1. i \in lo..L /\ i > lo /\ i \in 1..L
    BY <1>1, <1>11 DEF lo
  <2>2. /\ sum[i].total = sum[i - 1].total + s[i].credits
        /\ sum[i].unpriced = sum[i - 1].unpriced + s[i].unpriced
    BY <1>7, <2>1
  <2>3. sum[i - 1].total = SumsBefore(r, i).total /\ sum[i - 1].unpriced = SumsBefore(r, i).unpriced
    <3>1. CASE i = p
      <4>1. i - 1 = lo /\ (p # 1 => p - 1 \in 1..(p - 1))
        BY <1>1, <3>1 DEF lo
      <4> QED
        BY <1>7, <1>9, <3>1, <4>1 DEF start, SumsBefore
    <3>2. CASE i # p
      <4>1. i - 1 \in p..L /\ i # 1
        BY <1>1, <1>11, <3>2
      <4> QED
        BY <1>8, <4>1 DEF SumsBefore
    <3> QED
      BY <3>1, <3>2
  <2> QED
    BY <1>8, <2>2, <2>3
<1> QED
  BY <1>8, <1>9, <1>10, <1>11 DEF r, L

------------------------------------------------------------------------------
(* RoutedCredits: a point more.                                            *)

(* u is the sequence s with the arrival a at the position p.               *)
Grown(s, a, p, u) ==
    /\ p \in 1..(Len(s) + 1)
    /\ u \in Seq(AnyPoint) /\ Len(u) = Len(s) + 1
    /\ \A i \in 1..(p - 1) : u[i] = s[i] /\ s[i].at <= a.at
    /\ u[p].at = a.at /\ u[p].credits = a.credits /\ u[p].unpriced = a.unpriced
    /\ p = 1 => u[1].total = a.credits /\ u[1].totalUnpriced = a.unpriced
    /\ \A i \in p..Len(s) :
          /\ a.at < s[i].at
          /\ u[i + 1].at = s[i].at /\ u[i + 1].credits = s[i].credits
          /\ u[i + 1].unpriced = s[i].unpriced
    /\ Ordered(u) /\ Adjacent(u)

Entry(a) == [at |-> a.at, credits |-> a.credits, unpriced |-> a.unpriced,
             total |-> 0, totalUnpriced |-> 0]

Place(s, a) == OlderThan(s, a.at + 1) + 1

LEMMA ArrivalType ==
    ASSUME NEW a \in Arrival
    PROVE  a.at \in Nat /\ a.credits \in Nat /\ a.unpriced \in Nat
BY CreditsAssumption DEF Arrival, Instants

LEMMA PointType ==
    ASSUME NEW s \in Seq(AnyPoint), NEW i \in 1..Len(s)
    PROVE  /\ s[i].at \in Int /\ s[i].credits \in Int /\ s[i].unpriced \in Int
           /\ s[i].total \in Int /\ s[i].totalUnpriced \in Int
<1>1. s[i] \in AnyPoint
  OBVIOUS
<1> QED
  BY <1>1 DEF AnyPoint

LEMMA Growing ==
    ASSUME NEW s \in Seq(AnyPoint), Ordered(s), Adjacent(s), NEW a \in Arrival
    PROVE  Grown(s, a, Place(s, a), Summed(InsertAt(s, Place(s, a), Entry(a)), Place(s, a)))
<1> DEFINE N == Len(s)
           p == Place(s, a)
           v == InsertAt(s, p, Entry(a))
           u == Summed(v, p)
<1>1. /\ N \in Nat /\ DOMAIN s = 1..N
      /\ a.at \in Int /\ a.credits \in Int /\ a.unpriced \in Int
  BY ArrivalType
<1>2. p \in 1..(N + 1) /\ \A i \in 1..N : i < p <=> s[i].at < a.at + 1
  <2>1. a.at + 1 \in Int
    BY <1>1
  <2>2. /\ OlderThan(s, a.at + 1) \in 0..Len(s)
        /\ \A i \in 1..Len(s) : i <= OlderThan(s, a.at + 1) <=> s[i].at < a.at + 1
    BY <2>1, Search
  <2> QED
    BY <1>1, <2>2 DEF Place
<1> HIDE DEF p
<1>3. Entry(a) \in AnyPoint
  BY <1>1 DEF Entry, AnyPoint
<1>4. /\ v \in Seq(AnyPoint) /\ Len(v) = N + 1
      /\ \A i \in 1..(p - 1) : v[i] = s[i]
      /\ v[p] = Entry(a)
      /\ \A i \in p..N : v[i + 1] = s[i]
  BY <1>2, <1>3, Inserting
<1> HIDE DEF v
<1>5. /\ u \in Seq(AnyPoint) /\ Len(u) = N + 1
      /\ \A i \in 1..(p - 1) : u[i] = v[i]
      /\ \A i \in p..(N + 1) :
            /\ u[i].at = v[i].at /\ u[i].credits = v[i].credits /\ u[i].unpriced = v[i].unpriced
            /\ u[i].total = SumsBefore(u, i).total + v[i].credits
            /\ u[i].totalUnpriced = SumsBefore(u, i).unpriced + v[i].unpriced
  <2>1. p \in 1..Len(v) /\ v \in Seq(AnyPoint)
    BY <1>1, <1>2, <1>4
  <2>2. /\ u \in Seq(AnyPoint) /\ Len(u) = Len(v)
        /\ \A i \in 1..(p - 1) : u[i] = v[i]
        /\ \A i \in p..Len(v) :
              /\ u[i].at = v[i].at /\ u[i].credits = v[i].credits
              /\ u[i].unpriced = v[i].unpriced
              /\ u[i].total = SumsBefore(u, i).total + v[i].credits
              /\ u[i].totalUnpriced = SumsBefore(u, i).unpriced + v[i].unpriced
    BY <2>1, Summing, Zenon
  <2> HIDE DEF u
  <2> QED
    BY <1>4, <2>2
<1> HIDE DEF u
<1>6. \A i \in 1..N : s[i].at \in Int
  BY PointType
<1>7. \A i \in 1..(p - 1) : u[i] = s[i] /\ s[i].at <= a.at
  <2> SUFFICES ASSUME NEW i \in 1..(p - 1) PROVE u[i] = s[i] /\ s[i].at <= a.at
    OBVIOUS
  <2>1. i \in 1..N /\ i < p
    BY <1>1, <1>2
  <2> QED
    BY <1>1, <1>2, <1>4, <1>5, <1>6, <2>1
<1>8. u[p].at = a.at /\ u[p].credits = a.credits /\ u[p].unpriced = a.unpriced
  BY <1>1, <1>2, <1>4, <1>5 DEF Entry
<1>9. \A i \in p..N : /\ a.at < s[i].at
                      /\ u[i + 1].at = s[i].at /\ u[i + 1].credits = s[i].credits
                      /\ u[i + 1].unpriced = s[i].unpriced
  <2> SUFFICES ASSUME NEW i \in p..N
               PROVE  /\ a.at < s[i].at
                      /\ u[i + 1].at = s[i].at /\ u[i + 1].credits = s[i].credits
                      /\ u[i + 1].unpriced = s[i].unpriced
    OBVIOUS
  <2>1. i \in 1..N /\ ~(i < p) /\ i + 1 \in p..(N + 1)
    BY <1>1, <1>2
  <2>2. a.at < s[i].at
    BY <1>1, <1>2, <1>6, <2>1
  <2>3. v[i + 1] = s[i]
    BY <1>4
  <2> QED
    BY <1>5, <2>1, <2>2, <2>3
<1>10. Ordered(u)
  <2> SUFFICES ASSUME NEW i \in 1..(N + 1), NEW j \in 1..(N + 1), i <= j
               PROVE  u[i].at <= u[j].at
    BY <1>1, <1>5 DEF Ordered
  <2>1. \A k \in 1..(N + 1) : \/ k < p /\ k \in 1..(p - 1) /\ k \in 1..N
                              \/ k = p
                              \/ k > p /\ k - 1 \in p..N /\ k - 1 \in 1..N /\ (k - 1) + 1 = k
    BY <1>1, <1>2
  <2>2. \A k \in 1..(N + 1) : /\ k < p => u[k].at = s[k].at /\ s[k].at <= a.at
                              /\ k = p => u[k].at = a.at
                              /\ k > p => u[k].at = s[k - 1].at /\ a.at < s[k - 1].at
    <3> SUFFICES ASSUME NEW k \in 1..(N + 1)
                 PROVE  /\ k < p => u[k].at = s[k].at /\ s[k].at <= a.at
                        /\ k = p => u[k].at = a.at
                        /\ k > p => u[k].at = s[k - 1].at /\ a.at < s[k - 1].at
      OBVIOUS
    <3>1. CASE k < p
      BY <1>2, <1>7, <2>1, <3>1
    <3>2. CASE k = p
      BY <1>2, <1>8, <3>2
    <3>3. CASE k > p
      <4>1. k - 1 \in p..N /\ (k - 1) + 1 = k
        BY <1>2, <2>1, <3>3
      <4>2. u[(k - 1) + 1].at = s[k - 1].at /\ a.at < s[k - 1].at
        BY <1>9, <4>1
      <4> QED
        BY <1>2, <3>3, <4>1, <4>2
    <3> QED
      BY <1>2, <3>1, <3>2, <3>3
  <2>3. CASE i < p /\ j < p
    BY <1>1, <2>1, <2>2, <2>3 DEF Ordered
  <2>4. CASE i > p /\ j > p
    <3>1. s[i - 1].at <= s[j - 1].at
      BY <1>1, <1>2, <2>1, <2>4 DEF Ordered
    <3> QED
      BY <2>2, <2>4, <3>1
  <2>5. CASE i <= p /\ j >= p
    <3>1. u[i].at <= a.at
      <4>1. CASE i = p
        BY <1>1, <2>2, <4>1
      <4>2. CASE i # p
        <5>1. i < p
          BY <1>2, <2>5, <4>2
        <5> QED
          BY <2>2, <5>1
      <4> QED
        BY <4>1, <4>2
    <3>2. u[j].at \in Int /\ a.at <= u[j].at
      <4>1. CASE j = p
        BY <1>1, <2>2, <4>1
      <4>2. CASE j # p
        <5>1. j > p /\ j - 1 \in 1..N
          BY <1>2, <2>1, <2>5, <4>2
        <5>2. u[j].at = s[j - 1].at /\ a.at < s[j - 1].at /\ s[j - 1].at \in Int
          BY <1>6, <2>2, <5>1
        <5> QED
          BY <1>1, <5>2
      <4> QED
        BY <4>1, <4>2
    <3>3. u[i].at \in Int
      BY <1>5, PointType
    <3> QED
      BY <1>1, <3>1, <3>2, <3>3
  <2> QED
    BY <1>2, <2>3, <2>4, <2>5
<1>11. Adjacent(u)
  <2> SUFFICES ASSUME NEW i \in 2..(N + 1)
               PROVE  /\ u[i].total = u[i - 1].total + u[i].credits
                      /\ u[i].totalUnpriced = u[i - 1].totalUnpriced + u[i].unpriced
    BY <1>5 DEF Adjacent
  <2>1. CASE i < p
    <3>1. i \in 1..(p - 1) /\ i - 1 \in 1..(p - 1) /\ i \in 2..N
      BY <1>1, <1>2, <2>1
    <3> QED
      BY <1>7, <3>1 DEF Adjacent
  <2>2. CASE i >= p
    <3>1. i \in p..(N + 1) /\ i # 1
      BY <1>1, <1>2, <2>2
    <3> QED
      BY <1>5, <3>1 DEF SumsBefore
  <2> QED
    BY <1>2, <2>1, <2>2
<1>12. p = 1 => u[1].total = a.credits /\ u[1].totalUnpriced = a.unpriced
  <2> SUFFICES ASSUME p = 1 PROVE u[1].total = a.credits /\ u[1].totalUnpriced = a.unpriced
    OBVIOUS
  <2>1. /\ 1 \in p..(N + 1) /\ v[1].credits = a.credits /\ v[1].unpriced = a.unpriced
    BY <1>1, <1>4 DEF Entry
  <2>2. /\ u[1].total = SumsBefore(u, 1).total + v[1].credits
        /\ u[1].totalUnpriced = SumsBefore(u, 1).unpriced + v[1].unpriced
    BY <1>5, <2>1
  <2> QED
    BY <1>1, <2>1, <2>2 DEF SumsBefore
<1> QED
  BY <1>2, <1>5, <1>7, <1>8, <1>9, <1>10, <1>11, <1>12 DEF Grown, u, v, p

(* What is older than a time, with the new point.                          *)
LEMMA GrownSearch ==
    ASSUME NEW s \in Seq(AnyPoint), Ordered(s), NEW a \in Arrival, NEW p, NEW u,
           Grown(s, a, p, u), NEW t \in Int
    PROVE  /\ OlderThan(s, t) \in 0..Len(s)
           /\ a.at < t => OlderThan(u, t) = OlderThan(s, t) + 1 /\ OlderThan(s, t) >= p - 1
           /\ a.at >= t => OlderThan(u, t) = OlderThan(s, t) /\ OlderThan(s, t) <= p - 1
<1> DEFINE N == Len(s)
           n == OlderThan(s, t)
<1>1. /\ N \in Nat /\ a.at \in Int /\ p \in 1..(N + 1) /\ u \in Seq(AnyPoint) /\ Len(u) = N + 1
  BY ArrivalType DEF Grown
<1>2. n \in 0..N /\ \A i \in 1..N : i <= n <=> s[i].at < t
  BY Search
<1>3. /\ \A i \in 1..(p - 1) : u[i].at = s[i].at /\ s[i].at <= a.at
      /\ u[p].at = a.at
      /\ \A i \in p..N : a.at < s[i].at /\ u[i + 1].at = s[i].at
  BY DEF Grown
<1>4. \A i \in 1..N : s[i].at \in Int
  BY PointType
<1> HIDE DEF N, n
<1>5. \A i \in 1..(N + 1) : \/ i < p /\ i \in 1..(p - 1) /\ i \in 1..N
                            \/ i = p
                            \/ i > p /\ i - 1 \in p..N /\ i - 1 \in 1..N /\ (i - 1) + 1 = i
  BY <1>1
<1>6. ASSUME NEW i \in 1..(N + 1)
      PROVE  /\ i < p => u[i].at = s[i].at
             /\ i > p => u[i].at = s[i - 1].at
  <2>1. CASE i > p
    <3>1. u[(i - 1) + 1].at = s[i - 1].at /\ (i - 1) + 1 = i
      BY <1>1, <1>3, <1>5, <2>1
    <3> QED
      BY <1>1, <2>1, <3>1
  <2> QED
    BY <1>1, <1>3, <1>5, <2>1
<1>7. CASE a.at < t
  <2>1. n >= p - 1
    <3>1. CASE p = 1
      BY <1>1, <1>2, <3>1
    <3>2. CASE p # 1
      <4>1. p - 1 \in 1..(p - 1) /\ p - 1 \in 1..N
        BY <1>1, <3>2
      <4> QED
        <5>1. s[p - 1].at <= a.at /\ s[p - 1].at \in Int
          BY <1>3, <1>4, <4>1
        <5>2. p - 1 <= n
          BY <1>1, <1>2, <1>7, <4>1, <5>1
        <5> QED
          BY <1>1, <1>2, <5>2
    <3> QED
      BY <3>1, <3>2
  <2>2. ASSUME NEW i \in 1..(N + 1) PROVE i <= n + 1 <=> u[i].at < t
    <3>1. CASE i < p
      <4>1. i \in 1..(p - 1) /\ i \in 1..N /\ i <= n + 1
        BY <1>1, <1>2, <1>5, <2>1, <3>1
      <4>2. u[i].at = s[i].at /\ s[i].at <= a.at /\ s[i].at \in Int
        BY <1>3, <1>4, <4>1
      <4>3. s[i].at < t
        BY <1>1, <1>7, <4>2
      <4> QED
        BY <4>1, <4>2, <4>3
    <3>2. CASE i = p
      BY <1>1, <1>2, <1>3, <1>7, <2>1, <3>2
    <3>3. CASE i > p
      <4>1. i - 1 \in 1..N /\ u[i].at = s[i - 1].at
        BY <1>1, <1>5, <1>6, <3>3
      <4> QED
        BY <1>2, <4>1
    <3> QED
      BY <1>1, <3>1, <3>2, <3>3
  <2>3. n + 1 \in 0..Len(u)
    BY <1>1, <1>2
  <2>4. OlderThan(u, t) = n + 1
    BY <1>1, <2>2, <2>3, SearchUnique
  <2> QED
    BY <1>1, <1>2, <1>7, <2>1, <2>4 DEF n, N
<1>8. CASE a.at >= t
  <2>1. n <= p - 1
    <3>1. CASE p = N + 1
      BY <1>1, <1>2, <3>1
    <3>2. CASE p # N + 1
      <4>1. p \in p..N /\ p \in 1..N
        BY <1>1, <3>2
      <4>2. ~(p <= n)
        BY <1>1, <1>2, <1>3, <1>4, <1>8, <4>1
      <4> QED
        BY <1>1, <1>2, <4>2
    <3> QED
      BY <3>1, <3>2
  <2>2. ASSUME NEW i \in 1..(N + 1) PROVE i <= n <=> u[i].at < t
    <3>1. CASE i < p
      <4>1. i \in 1..N /\ u[i].at = s[i].at
        BY <1>1, <1>5, <1>6, <3>1
      <4> QED
        BY <1>2, <4>1
    <3>2. CASE i = p
      BY <1>1, <1>2, <1>3, <1>8, <2>1, <3>2
    <3>3. CASE i > p
      <4>1. i - 1 \in p..N /\ i - 1 \in 1..N /\ u[i].at = s[i - 1].at /\ ~(i <= n)
        BY <1>1, <1>2, <1>5, <1>6, <2>1, <3>3
      <4>2. a.at < s[i - 1].at
        BY <1>3, <4>1
      <4> QED
        BY <1>1, <1>4, <1>8, <4>1, <4>2
    <3> QED
      BY <1>1, <3>1, <3>2, <3>3
  <2>3. n \in 0..Len(u)
    BY <1>1, <1>2
  <2>4. OlderThan(u, t) = n
    BY <1>1, <2>2, <2>3, SearchUnique
  <2> QED
    BY <1>1, <1>2, <1>8, <2>1, <2>4 DEF n, N
<1> QED
  BY <1>1, <1>7, <1>8

(* The sums up to the n-th point; before the first they need not be zero,  *)
(* for what came before it may have been cut off.                          *)
CreditBase(s, n) ==
    IF n > 0 THEN s[n].total ELSE IF s = <<>> THEN 0 ELSE s[1].total - s[1].credits

UnpricedBase(s, n) ==
    IF n > 0 THEN s[n].totalUnpriced
    ELSE IF s = <<>> THEN 0 ELSE s[1].totalUnpriced - s[1].unpriced

(* What is reported for the time since t.                                  *)
Credited(s, t) == CreditBase(s, Len(s)) - CreditBase(s, OlderThan(s, t))
Unpriced(s, t) == UnpricedBase(s, Len(s)) - UnpricedBase(s, OlderThan(s, t))

LEMMA BaseType ==
    ASSUME NEW s \in Seq(AnyPoint), NEW n \in 0..Len(s)
    PROVE  CreditBase(s, n) \in Int /\ UnpricedBase(s, n) \in Int
<1>1. CASE n > 0
  <2>1. n \in 1..Len(s)
    BY <1>1
  <2> QED
    BY <1>1, <2>1, PointType DEF CreditBase, UnpricedBase
<1>2. CASE n = 0 /\ s = <<>>
  BY <1>2 DEF CreditBase, UnpricedBase
<1>3. CASE n = 0 /\ s # <<>>
  <2>1. 1 \in 1..Len(s)
    BY <1>3
  <2> QED
    BY <1>3, <2>1, PointType DEF CreditBase, UnpricedBase
<1> QED
  BY <1>1, <1>2, <1>3

LEMMA BaseSteps ==
    ASSUME NEW s \in Seq(AnyPoint), Adjacent(s), NEW i \in 1..Len(s)
    PROVE  /\ CreditBase(s, i) = CreditBase(s, i - 1) + s[i].credits
           /\ UnpricedBase(s, i) = UnpricedBase(s, i - 1) + s[i].unpriced
<1>1. /\ s[i].credits \in Int /\ s[i].unpriced \in Int
      /\ s[i].total \in Int /\ s[i].totalUnpriced \in Int
  BY PointType
<1>2. CASE i = 1
  BY <1>1, <1>2 DEF CreditBase, UnpricedBase
<1>3. CASE i # 1
  <2>1. i \in 2..Len(s) /\ i > 0 /\ i - 1 > 0
    BY <1>3
  <2>2. /\ s[i].total = s[i - 1].total + s[i].credits
        /\ s[i].totalUnpriced = s[i - 1].totalUnpriced + s[i].unpriced
    BY <2>1 DEF Adjacent
  <2>3. /\ CreditBase(s, i) = s[i].total /\ CreditBase(s, i - 1) = s[i - 1].total
        /\ UnpricedBase(s, i) = s[i].totalUnpriced
        /\ UnpricedBase(s, i - 1) = s[i - 1].totalUnpriced
    BY <2>1 DEF CreditBase, UnpricedBase
  <2> QED
    BY <2>2, <2>3
<1> QED
  BY <1>2, <1>3

(* A new point counts in every interval it is in, and in no other.         *)
LEMMA GrownWindow ==
    ASSUME NEW s \in Seq(AnyPoint), Ordered(s), Adjacent(s), NEW a \in Arrival, NEW p, NEW u,
           Grown(s, a, p, u), NEW t \in Int
    PROVE  /\ Credited(u, t) = Credited(s, t) + (IF a.at >= t THEN a.credits ELSE 0)
           /\ Unpriced(u, t) = Unpriced(s, t) + (IF a.at >= t THEN a.unpriced ELSE 0)
<1> DEFINE N == Len(s)
           n == OlderThan(s, t)
           b1 == [i \in 0..N |-> CreditBase(s, i)]
           q1 == [i \in 0..(N + 1) |-> CreditBase(u, i)]
           w1 == [i \in 1..N |-> s[i].credits]
           d1 == CreditBase(u, p - 1) - CreditBase(s, p - 1)
           b2 == [i \in 0..N |-> UnpricedBase(s, i)]
           q2 == [i \in 0..(N + 1) |-> UnpricedBase(u, i)]
           w2 == [i \in 1..N |-> s[i].unpriced]
           d2 == UnpricedBase(u, p - 1) - UnpricedBase(s, p - 1)
<1>1. /\ N \in Nat /\ a.at \in Int /\ a.credits \in Int /\ a.unpriced \in Int
      /\ p \in 1..(N + 1) /\ u \in Seq(AnyPoint) /\ Len(u) = N + 1 /\ Adjacent(u)
      /\ p - 1 \in 0..N /\ p - 1 \in 0..(N + 1)
  BY ArrivalType DEF Grown
<1>2. /\ n \in 0..N
      /\ a.at < t => OlderThan(u, t) = n + 1 /\ n >= p - 1
      /\ a.at >= t => OlderThan(u, t) = n /\ n <= p - 1
  BY GrownSearch
<1> HIDE DEF N, n
<1>3. \A i \in 0..N : CreditBase(s, i) \in Int /\ UnpricedBase(s, i) \in Int
  BY BaseType DEF N
<1>4. \A i \in 0..(N + 1) : CreditBase(u, i) \in Int /\ UnpricedBase(u, i) \in Int
  BY <1>1, BaseType
<1>5. /\ b1 \in [0..N -> Int] /\ b2 \in [0..N -> Int]
      /\ q1 \in [0..(N + 1) -> Int] /\ q2 \in [0..(N + 1) -> Int]
      /\ d1 \in Int /\ d2 \in Int
  <2>1. b1 \in [0..N -> Int] /\ b2 \in [0..N -> Int]
    BY <1>3
  <2>2. q1 \in [0..(N + 1) -> Int] /\ q2 \in [0..(N + 1) -> Int]
    BY <1>4
  <2>3. /\ CreditBase(u, p - 1) \in Int /\ CreditBase(s, p - 1) \in Int
        /\ UnpricedBase(u, p - 1) \in Int /\ UnpricedBase(s, p - 1) \in Int
    BY <1>1, <1>3, <1>4, Zenon
  <2>4. d1 \in Int /\ d2 \in Int
    BY <2>3
  <2> QED
    BY <2>1, <2>2, <2>4
<1>6. w1 \in [1..N -> Int] /\ w2 \in [1..N -> Int]
  BY PointType DEF N
<1>7. ASSUME NEW i \in 1..N
      PROVE  b1[i] = b1[i - 1] + w1[i] /\ b2[i] = b2[i - 1] + w2[i]
  <2>1. i - 1 \in 0..N /\ i \in 0..N
    BY <1>1
  <2>2. /\ CreditBase(s, i) = CreditBase(s, i - 1) + s[i].credits
        /\ UnpricedBase(s, i) = UnpricedBase(s, i - 1) + s[i].unpriced
    BY BaseSteps DEF N
  <2> QED
    BY <2>1, <2>2
<1>8. ASSUME NEW i \in 1..(N + 1)
      PROVE  q1[i] = q1[i - 1] + u[i].credits /\ q2[i] = q2[i - 1] + u[i].unpriced
  <2>1. i - 1 \in 0..(N + 1) /\ i \in 0..(N + 1)
    BY <1>1
  <2>2. /\ CreditBase(u, i) = CreditBase(u, i - 1) + u[i].credits
        /\ UnpricedBase(u, i) = UnpricedBase(u, i - 1) + u[i].unpriced
    BY <1>1, BaseSteps
  <2> QED
    BY <2>1, <2>2
<1>9. ASSUME NEW i \in p..N
      PROVE  q1[i + 1] = q1[i] + w1[i] /\ q2[i + 1] = q2[i] + w2[i]
  <2>1. i + 1 \in 1..(N + 1) /\ (i + 1) - 1 = i /\ i \in 1..N
    BY <1>1
  <2>2. u[i + 1].credits = s[i].credits /\ u[i + 1].unpriced = s[i].unpriced
    BY DEF Grown, N
  <2>3. q1[i + 1] = q1[(i + 1) - 1] + u[i + 1].credits /\ q2[i + 1] = q2[(i + 1) - 1] + u[i + 1].unpriced
    BY <1>8, <2>1
  <2>4. w1[i] = s[i].credits /\ w2[i] = s[i].unpriced
    BY <2>1
  <2> HIDE DEF q1, q2, w1, w2
  <2> QED
    BY <2>1, <2>2, <2>3, <2>4
<1>10. q1[p] = q1[p - 1] + a.credits /\ q2[p] = q2[p - 1] + a.unpriced
  BY <1>1, <1>8 DEF Grown
<1>11. ASSUME NEW i \in 0..(p - 1)
       PROVE  q1[i] = b1[i] + d1 /\ q2[i] = b2[i] + d2
  <2>1. i \in 0..N /\ i \in 0..(N + 1)
    BY <1>1
  <2>2. CASE p = 1
    <3>1. i = p - 1
      BY <2>2
    <3> QED
      BY <1>1, <1>3, <1>4, <2>1, <3>1
  <2>3. CASE p # 1
    <3>1. \A j \in 1..(p - 1) : u[j] = s[j]
      BY DEF Grown
    <3>2. 1 \in 1..(p - 1) /\ p - 1 \in 1..(p - 1) /\ p - 1 > 0
      BY <1>1, <2>3
    <3>3. s # <<>> /\ u # <<>>
      BY <1>1, <3>2 DEF N
    <3>4. CreditBase(u, i) = CreditBase(s, i) /\ UnpricedBase(u, i) = UnpricedBase(s, i)
      BY <3>1, <3>2, <3>3 DEF CreditBase, UnpricedBase
    <3>5. CreditBase(u, p - 1) = CreditBase(s, p - 1) /\ UnpricedBase(u, p - 1) = UnpricedBase(s, p - 1)
      BY <3>1, <3>2 DEF CreditBase, UnpricedBase
    <3>6. d1 = 0 /\ d2 = 0
      BY <1>1, <1>3, <3>5
    <3> HIDE DEF d1, d2
    <3> QED
      BY <1>3, <2>1, <3>4, <3>6
  <2> QED
    BY <2>2, <2>3
<1> HIDE DEF b1, q1, w1, d1, b2, q2, w2, d2
<1>12. Shift(N, p, a.credits, d1, b1, q1, w1) /\ Shift(N, p, a.unpriced, d2, b2, q2, w2)
  BY <1>1, <1>5, <1>6, <1>7, <1>9, <1>10, <1>11 DEF Shift
<1>13. /\ \A i \in 0..(p - 1) : q1[N + 1] - q1[i] = b1[N] - b1[i] + a.credits
       /\ \A i \in (p - 1)..N : q1[N + 1] - q1[i + 1] = b1[N] - b1[i]
  <2>1. Moved(N, p, a.credits, b1, q1)
    BY <1>12, Shifted
  <2> QED
    BY <2>1 DEF Moved
<1>14. /\ \A i \in 0..(p - 1) : q2[N + 1] - q2[i] = b2[N] - b2[i] + a.unpriced
       /\ \A i \in (p - 1)..N : q2[N + 1] - q2[i + 1] = b2[N] - b2[i]
  <2>1. Moved(N, p, a.unpriced, b2, q2)
    BY <1>12, Shifted
  <2> QED
    BY <2>1 DEF Moved
<1>15. /\ Credited(s, t) = b1[N] - b1[n] /\ Unpriced(s, t) = b2[N] - b2[n]
       /\ b1[N] - b1[n] \in Int /\ b2[N] - b2[n] \in Int
  <2>1. N \in 0..N /\ n \in 0..N
    BY <1>1, <1>2
  <2>2. /\ b1[N] = CreditBase(s, N) /\ b1[n] = CreditBase(s, n)
        /\ b2[N] = UnpricedBase(s, N) /\ b2[n] = UnpricedBase(s, n)
    BY <2>1 DEF b1, b2
  <2> QED
    BY <1>3, <2>1, <2>2 DEF Credited, Unpriced, N, n
<1>16. \A k \in 0..(N + 1) : OlderThan(u, t) = k =>
           Credited(u, t) = q1[N + 1] - q1[k] /\ Unpriced(u, t) = q2[N + 1] - q2[k]
  <2>1. N + 1 \in 0..(N + 1)
    BY <1>1
  <2> QED
    BY <1>1, <2>1 DEF Credited, Unpriced, q1, q2
<1>17. CASE a.at < t
  <2>1. n + 1 \in 0..(N + 1) /\ n \in (p - 1)..N
    BY <1>1, <1>2, <1>17
  <2>2. Credited(u, t) = b1[N] - b1[n] /\ Unpriced(u, t) = b2[N] - b2[n]
    BY <1>2, <1>13, <1>14, <1>16, <1>17, <2>1
  <2> QED
    BY <1>1, <1>15, <1>17, <2>2
<1>18. CASE a.at >= t
  <2>1. n \in 0..(N + 1) /\ n \in 0..(p - 1)
    BY <1>1, <1>2, <1>18
  <2>2. /\ Credited(u, t) = b1[N] - b1[n] + a.credits
        /\ Unpriced(u, t) = b2[N] - b2[n] + a.unpriced
    BY <1>2, <1>13, <1>14, <1>16, <1>18, <2>1
  <2> QED
    BY <1>15, <1>18, <2>2
<1> QED
  BY <1>1, <1>17, <1>18

------------------------------------------------------------------------------
(* RoutedCredits: old points are cut off.                                  *)

LEMMA Cutting ==
    ASSUME NEW u \in Seq(AnyPoint), Ordered(u), Adjacent(u), u # <<>>, NEW cutoff \in Int
    PROVE  LET v == Cut(u, OlderThan(u, cutoff))
           IN  /\ v \in Seq(AnyPoint) /\ v # <<>> /\ Ordered(v) /\ Adjacent(v)
               /\ v[Len(v)] = u[Len(u)]
               /\ v[1] = u[1] \/ v[1].at < cutoff
               /\ \A t \in Int : t >= cutoff =>
                     Credited(v, t) = Credited(u, t) /\ Unpriced(v, t) = Unpriced(u, t)
<1> DEFINE L == Len(u)
           old == OlderThan(u, cutoff)
           v == Cut(u, old)
<1>1. L \in Nat \ {0} /\ DOMAIN u = 1..L /\ \A i \in 1..L : u[i] \in AnyPoint
  OBVIOUS
<1>2. old \in 0..L /\ \A i \in 1..L : i <= old <=> u[i].at < cutoff
  BY Search
<1> HIDE DEF L, old
<1>3. CASE v = u
  BY <1>3 DEF L, old
<1>4. CASE v # u
  <2>1. v = SubSeq(u, old, L) /\ old >= 1
    BY <1>1, <1>2, <1>4, CreditsAssumption DEF Cut, L
  <2> DEFINE M == L - old + 1
  <2>2. old \in 1..L /\ M \in Nat \ {0} /\ M \in 1..L
    BY <1>1, <1>2, <2>1
  <2>3. v \in Seq(AnyPoint) /\ Len(v) = M /\ \A i \in 1..M : v[i] = u[old + i - 1]
    <3>1. \A i \in old..L : u[i] \in AnyPoint
      BY <1>1, <2>2
    <3>2. /\ SubSeq(u, old, L) \in Seq(AnyPoint)
          /\ Len(SubSeq(u, old, L)) = IF old <= L THEN L - old + 1 ELSE 0
          /\ \A i \in 1..(L - old + 1) : SubSeq(u, old, L)[i] = u[old + i - 1]
      BY <1>1, <2>2, <3>1, SubSeqProperties
    <3> QED
      BY <1>1, <2>1, <2>2, <3>2
  <2> HIDE DEF v, M
  <2>4. v # <<>> /\ DOMAIN v = 1..M
    BY <2>2, <2>3
  <2>5. \A i \in 1..M : old + i - 1 \in 1..L
    BY <1>1, <2>2 DEF M
  <2>6. Ordered(v)
    <3> SUFFICES ASSUME NEW i \in 1..M, NEW j \in 1..M, i <= j PROVE v[i].at <= v[j].at
      BY <2>4 DEF Ordered
    <3>1. old + i - 1 \in 1..L /\ old + j - 1 \in 1..L /\ old + i - 1 <= old + j - 1
      <4>1. old + i - 1 \in 1..L /\ old + j - 1 \in 1..L
        BY <2>5
      <4>2. old \in Int /\ i \in Int /\ j \in Int
        BY <2>2
      <4> QED
        BY <4>1, <4>2
    <3>2. u[old + i - 1].at <= u[old + j - 1].at
      BY <1>1, <3>1 DEF Ordered
    <3> QED
      BY <2>3, <3>2
  <2>7. Adjacent(v)
    <3> SUFFICES ASSUME NEW i \in 2..M
                 PROVE  /\ v[i].total = v[i - 1].total + v[i].credits
                        /\ v[i].totalUnpriced = v[i - 1].totalUnpriced + v[i].unpriced
      BY <2>3 DEF Adjacent
    <3> DEFINE k == old + i - 1
    <3>1. k \in 2..L /\ i \in 1..M /\ i - 1 \in 1..M /\ old + (i - 1) - 1 = k - 1
      BY <1>1, <2>2 DEF M
    <3>2. v[i] = u[k] /\ v[i - 1] = u[k - 1]
      BY <2>3, <3>1
    <3> HIDE DEF k
    <3> QED
      BY <3>1, <3>2 DEF Adjacent, L
  <2>8. v[Len(v)] = u[L]
    <3>1. M \in 1..M /\ old + M - 1 = L
      BY <1>1, <2>2 DEF M
    <3> QED
      BY <2>3, <3>1
  <2>9. v[1].at < cutoff
    <3>1. v[1] = u[old]
      BY <1>1, <2>2, <2>3
    <3> QED
      BY <1>2, <2>2, <3>1
  <2>10. ASSUME NEW t \in Int, t >= cutoff
         PROVE  Credited(v, t) = Credited(u, t) /\ Unpriced(v, t) = Unpriced(u, t)
    <3> DEFINE n == OlderThan(u, t)
               m == n - old + 1
    <3>1. n \in 0..L /\ \A i \in 1..L : i <= n <=> u[i].at < t
      BY Search DEF L
    <3> HIDE DEF n
    <3>2. n >= old
      <4>1. u[old].at < cutoff /\ u[old].at \in Int
        BY <1>2, <2>2, PointType DEF L
      <4>2. u[old].at < t
        BY <2>10, <4>1
      <4> QED
        BY <2>2, <3>1, <4>2
    <3>3. m \in 1..M /\ m \in 0..M /\ old + m - 1 = n /\ n > 0 /\ m > 0
      BY <1>1, <2>2, <3>1, <3>2 DEF M
    <3>4. ASSUME NEW i \in 1..M PROVE i <= m <=> v[i].at < t
      <4>1. v[i].at = u[old + i - 1].at /\ old + i - 1 \in 1..L
        BY <2>3, <2>5
      <4>2. i <= m <=> old + i - 1 <= n
        BY <1>1, <2>2, <3>1
      <4> QED
        BY <3>1, <4>1, <4>2
    <3> HIDE DEF m
    <3>5. OlderThan(v, t) = m
      BY <2>3, <3>3, <3>4, SearchUnique
    <3>6. v[m] = u[n]
      BY <2>3, <3>3
    <3>7. v[M] = u[L] /\ M > 0 /\ L > 0
      BY <1>1, <2>2, <2>3, <2>8
    <3>8. CreditBase(v, M) = CreditBase(u, L) /\ UnpricedBase(v, M) = UnpricedBase(u, L)
      BY <3>7 DEF CreditBase, UnpricedBase
    <3>9. CreditBase(v, m) = CreditBase(u, n) /\ UnpricedBase(v, m) = UnpricedBase(u, n)
      BY <3>3, <3>6 DEF CreditBase, UnpricedBase
    <3> QED
      BY <2>3, <3>5, <3>8, <3>9 DEF Credited, Unpriced, L, n
  <2> QED
    BY <2>3, <2>4, <2>6, <2>7, <2>8, <2>9, <2>10 DEF v, old, L
<1> QED
  BY <1>3, <1>4

------------------------------------------------------------------------------
(* RoutedCredits: what arrived.                                            *)

Amount == [credits: Int, unpriced: Int]
Nothing == [credits |-> 0, unpriced |-> 0]
Increased(v, a, t) ==
    IF a.at < t THEN v
    ELSE [credits |-> v.credits + a.credits, unpriced |-> v.unpriced + a.unpriced]

IsSum(f, s, t) ==
    /\ f[0] = Nothing
    /\ \A n \in 1..Len(s) : f[n] = Increased(f[n - 1], s[n], t)

SumUp(s, t) ==
    CHOOSE f : f = [n \in 0..Len(s) |->
                       IF n = 0 THEN [credits |-> 0, unpriced |-> 0]
                       ELSE IF s[n].at < t THEN f[n - 1]
                       ELSE [credits |-> f[n - 1].credits + s[n].credits,
                             unpriced |-> f[n - 1].unpriced + s[n].unpriced]]

LEMMA IncreasedType ==
    ASSUME NEW v \in Amount, NEW a \in Arrival, NEW t
    PROVE  Increased(v, a, t) \in Amount
BY ArrivalType DEF Amount, Increased

LEMMA Adding ==
    ASSUME NEW s \in Seq(Arrival), NEW t
    PROVE  /\ IsSum(SumUp(s, t), s, t)
           /\ \A n \in 0..Len(s) : SumUp(s, t)[n] \in Amount
<1> DEFINE L == Len(s)
           f == SumUp(s, t)
           next == [n \in 0..L |-> [v \in Amount |-> IF n = 0 THEN v ELSE Increased(v, s[n], t)]]
<1>1. L \in Nat /\ \A n \in 1..L : s[n] \in Arrival
  OBVIOUS
<1> HIDE DEF L, f
<1>2. Nothing \in Amount
  BY DEF Nothing, Amount
<1>3. PICK g \in [0..L -> Amount] :
         /\ g[0] = Nothing
         /\ \A n \in 0..L : n > 0 => g[n] = next[n][g[n - 1]]
  <2>1. next \in [0..L -> [Amount -> Amount]]
    <3>1. ASSUME NEW n \in 0..L, NEW v \in Amount, n # 0 PROVE Increased(v, s[n], t) \in Amount
      <4>1. n \in 1..L
        BY <1>1, <3>1
      <4> QED
        BY <1>1, <4>1, IncreasedType
    <3> QED
      BY <3>1
  <2> HIDE DEF next
  <2>2. HasValues(Amount, Nothing, 0, L, next)
    <3>1. 0 \in Nat /\ 0 <= L
      BY <1>1
    <3> QED
      BY <1>1, <1>2, <2>1, <3>1, LoopValues
  <2> QED
    BY <2>2 DEF HasValues
<1>4. ASSUME NEW n \in 1..L
      PROVE  g[n] = Increased(g[n - 1], s[n], t)
  <2>1. n - 1 \in 0..L /\ n \in 0..L /\ n > 0 /\ n # 0
    BY <1>1
  <2>2. g[n - 1] \in Amount
    BY <2>1
  <2>3. next[n][g[n - 1]] = Increased(g[n - 1], s[n], t)
    BY <2>1, <2>2
  <2> QED
    BY <1>3, <2>1, <2>3
<1> HIDE DEF next
<1>5. g = [n \in 0..L |-> IF n = 0 THEN [credits |-> 0, unpriced |-> 0]
                          ELSE IF s[n].at < t THEN g[n - 1]
                          ELSE [credits |-> g[n - 1].credits + s[n].credits,
                                unpriced |-> g[n - 1].unpriced + s[n].unpriced]]
  <2>1. ASSUME NEW n \in 0..L
        PROVE  g[n] = IF n = 0 THEN [credits |-> 0, unpriced |-> 0]
                      ELSE IF s[n].at < t THEN g[n - 1]
                      ELSE [credits |-> g[n - 1].credits + s[n].credits,
                            unpriced |-> g[n - 1].unpriced + s[n].unpriced]
    <3>1. CASE n = 0
      BY <1>3, <3>1 DEF Nothing
    <3>2. CASE n # 0
      <4>1. n \in 1..L
        BY <1>1, <3>2
      <4> QED
        BY <1>4, <3>2, <4>1 DEF Increased
    <3> QED
      BY <3>1, <3>2
  <2> QED
    BY <2>1
<1>6. f = [n \in 0..L |-> IF n = 0 THEN [credits |-> 0, unpriced |-> 0]
                          ELSE IF s[n].at < t THEN f[n - 1]
                          ELSE [credits |-> f[n - 1].credits + s[n].credits,
                                unpriced |-> f[n - 1].unpriced + s[n].unpriced]]
  BY <1>5 DEF f, SumUp, L
<1>7. /\ f[0] = Nothing
      /\ \A n \in 1..L : f[n] = Increased(f[n - 1], s[n], t)
  <2>1. 0 \in 0..L /\ \A n \in 1..L : n \in 0..L /\ n # 0
    BY <1>1
  <2> QED
    BY <1>6, <2>1 DEF Nothing, Increased
<1> DEFINE Good == {n \in 0..L : f[n] \in Amount}
<1>8. \A n \in 0..L : n \in Good
  <2>1. 0 \in Good
    BY <1>1, <1>2, <1>7
  <2>2. ASSUME NEW n \in 0..L, n > 0, n - 1 \in Good PROVE n \in Good
    <3>1. n \in 1..L /\ f[n - 1] \in Amount
      BY <1>1, <2>2
    <3> QED
      BY <1>1, <1>7, <3>1, IncreasedType
  <2>3. Good \in SUBSET (0..L)
    OBVIOUS
  <2> HIDE DEF Good
  <2>4. \A n \in 0..L : n > 0 /\ n - 1 \in Good => n \in Good
    BY <2>2
  <2> QED
    BY <1>1, <2>1, <2>3, <2>4, Upwards
<1> QED
  BY <1>7, <1>8 DEF IsSum, f, L

(* One arrival more is counted when it is not before the start.            *)
LEMMA OneArrival ==
    ASSUME NEW s \in Seq(Arrival), NEW a \in Arrival, NEW t
    PROVE  SumUp(Append(s, a), t)[Len(s) + 1] = Increased(SumUp(s, t)[Len(s)], a, t)
<1> DEFINE L == Len(s)
           r == Append(s, a)
           f == SumUp(s, t)
           g == SumUp(r, t)
           Good == {n \in 0..L : g[n] = f[n]}
<1>1. /\ L \in Nat /\ r \in Seq(Arrival) /\ Len(r) = L + 1
      /\ \A n \in 1..L : r[n] = s[n]
      /\ r[L + 1] = a
  OBVIOUS
<1> HIDE DEF r
<1>2. IsSum(f, s, t) /\ IsSum(g, r, t)
  BY <1>1, Adding
<1> HIDE DEF L, f, g
<1>3. f[0] = Nothing /\ \A n \in 1..L : f[n] = Increased(f[n - 1], s[n], t)
  BY <1>2 DEF IsSum, L
<1>4. g[0] = Nothing /\ \A n \in 1..(L + 1) : g[n] = Increased(g[n - 1], r[n], t)
  BY <1>1, <1>2 DEF IsSum
<1>5. \A n \in 0..L : n \in Good
  <2>1. 0 \in Good
    BY <1>1, <1>3, <1>4
  <2>2. ASSUME NEW n \in 0..L, n > 0, n - 1 \in Good PROVE n \in Good
    <3>1. n \in 1..L /\ n \in 1..(L + 1) /\ g[n - 1] = f[n - 1]
      BY <1>1, <2>2
    <3> QED
      BY <1>1, <1>3, <1>4, <3>1
  <2>3. Good \in SUBSET (0..L)
    OBVIOUS
  <2> HIDE DEF Good
  <2>4. \A n \in 0..L : n > 0 /\ n - 1 \in Good => n \in Good
    BY <2>2
  <2> QED
    BY <1>1, <2>1, <2>3, <2>4, Upwards
<1>6. g[L] = f[L]
  BY <1>1, <1>5
<1>7. g[L + 1] = Increased(g[(L + 1) - 1], r[L + 1], t) /\ (L + 1) - 1 = L
  BY <1>1, <1>4
<1> QED
  BY <1>1, <1>6, <1>7 DEF L, f, g, r

LEMMA ArrivedIs ==
    ASSUME NEW t
    PROVE  /\ Arrived(t) = SumUp(arrived, t)[Len(arrived)]
           /\ Arrived(t)' = SumUp(arrived', t)[Len(arrived')]
BY DEF Arrived, SumUp

------------------------------------------------------------------------------
(* RoutedCredits: the invariant.                                           *)

CreditsTyped ==
    /\ points \in Seq(AnyPoint) /\ Ordered(points) /\ Adjacent(points)
    /\ arrived \in Seq(Arrival)
    /\ points = <<>> => arrived = <<>>

(* What is older than the points is older than the history that is kept.   *)
Reaches ==
    points # <<>> =>
        \/ \A i \in DOMAIN arrived : arrived[i].at >= points[1].at
        \/ points[1].at < points[Len(points)].at - KeptFor

Sums ==
    \A t \in Int :
        (points # <<>> => t >= points[Len(points)].at - KeptFor) =>
            /\ Credited(points, t) = Arrived(t).credits
            /\ Unpriced(points, t) = Arrived(t).unpriced

CreditsInv == CreditsTyped /\ Reaches /\ Sums

LEMMA CreditsStart ==
    ASSUME CreditsInit
    PROVE  CreditsInv
<1>1. points = <<>> /\ arrived = <<>>
  BY DEF CreditsInit
<1>2. CreditsTyped /\ Reaches
  BY <1>1 DEF CreditsTyped, Reaches, Ordered, Adjacent
<1>3. Sums
  <2> SUFFICES ASSUME NEW t \in Int
               PROVE  /\ Credited(points, t) = Arrived(t).credits
                      /\ Unpriced(points, t) = Arrived(t).unpriced
    BY DEF Sums
  <2>1. OlderThan(points, t) = 0
    <3>1. points \in Seq(AnyPoint) /\ Len(points) = 0 /\ Ordered(points)
      BY <1>1 DEF Ordered
    <3>2. OlderThan(points, t) \in 0..Len(points)
      BY <3>1, Search
    <3> QED
      BY <3>1, <3>2
  <2>2. Credited(points, t) = 0 /\ Unpriced(points, t) = 0
    BY <1>1, <2>1 DEF Credited, Unpriced, CreditBase, UnpricedBase
  <2>3. Arrived(t) = Nothing
    <3>1. arrived \in Seq(Arrival) /\ Len(arrived) = 0
      BY <1>1
    <3>2. SumUp(arrived, t)[0] = Nothing
      BY <3>1, Adding DEF IsSum
    <3> QED
      BY <3>1, <3>2, ArrivedIs
  <2> QED
    BY <2>2, <2>3 DEF Nothing
<1> QED
  BY <1>2, <1>3 DEF CreditsInv

LEMMA CreditsAdded ==
    ASSUME CreditsInv, NEW a \in Arrival, AddRoutedCredits(a)
    PROVE  CreditsInv'
<1> DEFINE s == points
           p == Place(s, a)
           u == Summed(InsertAt(s, p, Entry(a)), p)
           N == Len(s)
           last == u[Len(u)]
           cutoff == last.at - KeptFor
<1>1. /\ arrived' = Append(arrived, a)
      /\ points' = Cut(u, OlderThan(u, cutoff))
  BY DEF AddRoutedCredits, Place, Entry
<1>2. /\ s \in Seq(AnyPoint) /\ Ordered(s) /\ Adjacent(s) /\ arrived \in Seq(Arrival)
      /\ s = <<>> => arrived = <<>>
  BY DEF CreditsInv, CreditsTyped
<1>3. Grown(s, a, p, u)
  BY <1>2, Growing
<1> HIDE DEF s, p, u
<1>4. /\ N \in Nat /\ p \in 1..(N + 1) /\ a.at \in Int
      /\ a.credits \in Int /\ a.unpriced \in Int
      /\ u \in Seq(AnyPoint) /\ Len(u) = N + 1 /\ u # <<>> /\ Ordered(u) /\ Adjacent(u)
  BY <1>2, <1>3, ArrivalType DEF Grown
<1>5. last.at \in Int /\ cutoff \in Int /\ KeptFor \in Nat
  <2>1. Len(u) \in 1..Len(u)
    BY <1>4
  <2>2. last.at \in Int
    BY <1>4, <2>1, PointType
  <2> QED
    BY <2>2, CreditsAssumption
<1>6. s # <<>> => s[N].at <= last.at /\ s[N].at \in Int /\ N \in 1..N
  <2> SUFFICES ASSUME s # <<>> PROVE s[N].at <= last.at /\ s[N].at \in Int /\ N \in 1..N
    OBVIOUS
  <2>1. N \in 1..N
    BY <1>2
  <2>2. s[N].at \in Int
    BY <1>2, <2>1, PointType
  <2>3. CASE p = N + 1
    <3>1. N \in 1..(p - 1) /\ Len(u) = p
      BY <1>4, <2>1, <2>3
    <3>2. s[N].at <= a.at /\ last.at = a.at
      BY <1>3, <3>1 DEF Grown
    <3> QED
      BY <2>1, <2>2, <3>2
  <2>4. CASE p # N + 1
    <3>1. N \in p..N
      BY <1>4, <2>4
    <3>2. u[N + 1].at = s[N].at
      BY <1>3, <3>1 DEF Grown
    <3> QED
      BY <1>4, <2>1, <2>2, <3>2
  <2> QED
    BY <2>3, <2>4
<1> HIDE DEF last, cutoff, N
<1>7. /\ points' \in Seq(AnyPoint) /\ points' # <<>> /\ Ordered(points') /\ Adjacent(points')
      /\ points'[Len(points')] = last
      /\ points'[1] = u[1] \/ points'[1].at < cutoff
      /\ \A t \in Int : t >= cutoff =>
            Credited(points', t) = Credited(u, t) /\ Unpriced(points', t) = Unpriced(u, t)
  BY <1>1, <1>4, <1>5, Cutting DEF last
<1>8. CreditsTyped'
  <2>1. arrived' \in Seq(Arrival)
    BY <1>1, <1>2
  <2> QED
    BY <1>7, <2>1 DEF CreditsTyped, Ordered, Adjacent
<1>9. Sums'
  <2> SUFFICES ASSUME NEW t \in Int, t >= cutoff
               PROVE  /\ Credited(points', t) = Arrived(t)'.credits
                      /\ Unpriced(points', t) = Arrived(t)'.unpriced
    BY <1>7 DEF Sums, cutoff, Credited, Unpriced, CreditBase, UnpricedBase, OlderThan
  <2>1. /\ Credited(s, t) = Arrived(t).credits /\ Unpriced(s, t) = Arrived(t).unpriced
    <3>1. s # <<>> => t >= s[N].at - KeptFor
      BY <1>5, <1>6 DEF cutoff
    <3> QED
      BY <3>1 DEF CreditsInv, Sums, s, N
  <2>2. /\ Credited(u, t) = Credited(s, t) + (IF a.at >= t THEN a.credits ELSE 0)
        /\ Unpriced(u, t) = Unpriced(s, t) + (IF a.at >= t THEN a.unpriced ELSE 0)
    BY <1>2, <1>3, GrownWindow
  <2>3. Arrived(t)' = Increased(Arrived(t), a, t) /\ Arrived(t) \in Amount
    <3>1. Len(arrived') = Len(arrived) + 1 /\ Len(arrived) \in 0..Len(arrived)
      BY <1>1, <1>2
    <3>2. Arrived(t) = SumUp(arrived, t)[Len(arrived)] /\ Arrived(t)' = SumUp(arrived', t)[Len(arrived')]
      BY ArrivedIs
    <3>3. SumUp(arrived, t)[Len(arrived)] \in Amount
      BY <1>2, <3>1, Adding
    <3>4. SumUp(Append(arrived, a), t)[Len(arrived) + 1] = Increased(SumUp(arrived, t)[Len(arrived)], a, t)
      BY <1>2, OneArrival
    <3> QED
      BY <1>1, <3>1, <3>2, <3>3, <3>4
  <2>4. Credited(points', t) = Credited(u, t) /\ Unpriced(points', t) = Unpriced(u, t)
    BY <1>7
  <2>5. Arrived(t).credits \in Int /\ Arrived(t).unpriced \in Int
    BY <2>3 DEF Amount
  <2> QED
    BY <1>4, <2>1, <2>2, <2>3, <2>4, <2>5 DEF Increased
<1>10. Reaches'
  <2> SUFFICES ASSUME ~(points'[1].at < last.at - KeptFor)
               PROVE  \A i \in DOMAIN arrived' : arrived'[i].at >= points'[1].at
    BY <1>7 DEF Reaches
  <2>1. points'[1] = u[1] /\ ~(u[1].at < last.at - KeptFor)
    BY <1>7 DEF cutoff
  <2>2. u[1].at \in Int
    BY <1>4, PointType
  <2>3. s # <<>> => u[1].at <= s[1].at /\ s[1].at \in Int
    <3> SUFFICES ASSUME s # <<>> PROVE u[1].at <= s[1].at /\ s[1].at \in Int
      OBVIOUS
    <3>1. 1 \in 1..N /\ s[1].at \in Int
      <4>1. 1 \in 1..N
        BY <1>2 DEF N
      <4> QED
        BY <1>2, <4>1, PointType DEF N
    <3>2. CASE p = 1
      BY <1>3, <1>4, <3>1, <3>2 DEF Grown, N
    <3>3. CASE p # 1
      <4>1. 1 \in 1..(p - 1)
        BY <1>4, <3>3
      <4> QED
        BY <1>3, <3>1, <4>1 DEF Grown
    <3> QED
      BY <3>2, <3>3
  <2>4. u[1].at <= a.at
    <3>1. CASE p = 1
      BY <1>3, <1>4, <3>1 DEF Grown
    <3>2. CASE p # 1
      <4>1. 1 \in 1..(p - 1)
        BY <1>4, <3>2
      <4> QED
        BY <1>3, <4>1 DEF Grown
    <3> QED
      BY <3>1, <3>2
  <2>5. ASSUME NEW i \in DOMAIN arrived PROVE arrived[i].at >= u[1].at /\ arrived[i] \in Arrival
    <3>1. s # <<>> /\ arrived[i] \in Arrival
      BY <1>2, <2>5
    <3>2. s[1].at >= s[N].at - KeptFor
      BY <1>5, <1>6, <2>1, <2>2, <2>3, <3>1
    <3>3. s[N].at - KeptFor \in Int
      BY <1>5, <1>6, <3>1
    <3>4. arrived[i].at >= s[1].at
      BY <2>3, <3>1, <3>2, <3>3 DEF CreditsInv, Reaches, s, N
    <3>5. arrived[i].at \in Int
      BY <3>1, ArrivalType
    <3> QED
      BY <2>2, <2>3, <3>1, <3>4, <3>5
  <2> SUFFICES ASSUME NEW i \in DOMAIN arrived' PROVE arrived'[i].at >= u[1].at
    BY <2>1
  <2>6. (i \in DOMAIN arrived /\ arrived'[i] = arrived[i]) \/ arrived'[i] = a
    BY <1>1, <1>2
  <2> QED
    BY <1>4, <2>2, <2>4, <2>5, <2>6
<1> QED
  BY <1>8, <1>9, <1>10 DEF CreditsInv

(* The points are in order, each sum is the one before and its credits,    *)
(* and every difference of sums is what arrived since.                     *)
THEOREM CreditsInductive == CreditsSpec => []CreditsInv
<1>1. CreditsInit => CreditsInv
  BY CreditsStart
<1>2. CreditsInv /\ [CreditsNext]_creditsVars => CreditsInv'
  <2> SUFFICES ASSUME CreditsInv, [CreditsNext]_creditsVars PROVE CreditsInv'
    OBVIOUS
  <2>1. CASE UNCHANGED creditsVars
    <3>1. points' = points /\ arrived' = arrived
      BY <2>1 DEF creditsVars
    <3>2. CreditsTyped' /\ Reaches'
      BY <3>1 DEF CreditsInv, CreditsTyped, Ordered, Adjacent, Reaches
    <3>3. \A t : Arrived(t)' = Arrived(t)
      BY <3>1, ArrivedIs
    <3>4. Sums'
      BY <3>1, <3>3 DEF CreditsInv, Sums
    <3> QED
      BY <3>2, <3>4 DEF CreditsInv
  <2>2. CASE CreditsNext
    BY <2>2, CreditsAdded DEF CreditsNext
  <2> QED
    BY <2>1, <2>2
<1> QED
  BY <1>1, <1>2, PTL DEF CreditsSpec

(* What is reported for any start within the history that is kept is the   *)
(* sum of what arrived since then, in whatever order it came and however   *)
(* often old points were cut off; and it reaches back to start, or as far  *)
(* as anything that ever arrived.                                          *)
THEOREM SinceIsTheSumHolds == CreditsSpec => []SinceIsTheSum
<1>1. CreditsInv => SinceIsTheSum
  <2> SUFFICES ASSUME CreditsInv, points # <<>>,
                      NEW start \in (points[Len(points)].at - KeptFor)..MaxInstant
               PROVE  /\ Since(start).credits = Arrived(start).credits
                      /\ Since(start).unpriced = Arrived(start).unpriced
                      /\ \/ Since(start).from = start
                         \/ \A i \in DOMAIN arrived : arrived[i].at >= Since(start).from
    BY DEF SinceIsTheSum
  <2> DEFINE L == Len(points)
             n == OlderThan(points, start)
  <2>1. points \in Seq(AnyPoint) /\ Ordered(points) /\ L \in Nat \ {0} /\ 1 \in 1..L /\ L \in 1..L
    BY DEF CreditsInv, CreditsTyped
  <2>2. /\ points[1].at \in Int /\ points[1].credits \in Int /\ points[1].unpriced \in Int
        /\ points[1].total \in Int /\ points[1].totalUnpriced \in Int
        /\ points[L].at \in Int /\ points[L].total \in Int /\ points[L].totalUnpriced \in Int
    BY <2>1, PointType
  <2>3. KeptFor \in Nat /\ start \in Int /\ start >= points[L].at - KeptFor
    <3>1. KeptFor \in Nat /\ MaxInstant \in Nat
      BY CreditsAssumption
    <3>2. points[L].at - KeptFor \in Int
      BY <2>2, <3>1
    <3> HIDE DEF L
    <3>3. start \in (points[L].at - KeptFor)..MaxInstant
      BY DEF L
    <3> QED
      BY <3>1, <3>2, <3>3
  <2>4. n \in 0..L /\ \A i \in 1..L : i <= n <=> points[i].at < start
    BY <2>1, <2>3, Search
  <2>5. Credited(points, start) = Arrived(start).credits
        /\ Unpriced(points, start) = Arrived(start).unpriced
    BY <2>3 DEF CreditsInv, Sums
  <2> HIDE DEF n
  <2>6. CASE n > 0
    <3>1. /\ Since(start).credits = points[L].total - points[n].total
          /\ Since(start).unpriced = points[L].totalUnpriced - points[n].totalUnpriced
          /\ Since(start).from = start
      BY <2>6 DEF Since, n
    <3>2. /\ Credited(points, start) = points[L].total - points[n].total
          /\ Unpriced(points, start) = points[L].totalUnpriced - points[n].totalUnpriced
      BY <2>1, <2>6 DEF Credited, Unpriced, CreditBase, UnpricedBase, n
    <3> QED
      BY <2>5, <3>1, <3>2
  <2>7. CASE n = 0
    <3>1. /\ Since(start).credits = points[L].total - points[1].total + points[1].credits
          /\ Since(start).unpriced
                 = points[L].totalUnpriced - points[1].totalUnpriced + points[1].unpriced
          /\ Since(start).from = IF points[1].at > start THEN points[1].at ELSE start
      BY <2>7 DEF Since, n
    <3>2. /\ Credited(points, start) = points[L].total - (points[1].total - points[1].credits)
          /\ Unpriced(points, start)
                 = points[L].totalUnpriced - (points[1].totalUnpriced - points[1].unpriced)
      BY <2>1, <2>7 DEF Credited, Unpriced, CreditBase, UnpricedBase, n
    <3>3. Since(start).credits = Arrived(start).credits /\ Since(start).unpriced = Arrived(start).unpriced
      BY <2>2, <2>5, <3>1, <3>2
    <3>4. ASSUME Since(start).from # start
          PROVE  \A i \in DOMAIN arrived : arrived[i].at >= Since(start).from
      <4>1. points[1].at > start /\ Since(start).from = points[1].at
        BY <3>1, <3>4
      <4>2. ~(points[1].at < points[L].at - KeptFor)
        BY <2>2, <2>3, <4>1
      <4> QED
        BY <4>1, <4>2 DEF CreditsInv, Reaches
    <3> QED
      BY <3>3, <3>4
  <2> QED
    BY <2>1, <2>4, <2>6, <2>7
<1>2. CreditsSpec => []CreditsInv
  BY CreditsInductive
<1> QED
  BY <1>1, <1>2, PTL

------------------------------------------------------------------------------
(* RoutedCredits: how far the sums can go.                                 *)

(* A point after k arrivals: its sums are at least its own, and no more    *)
(* than k points can have.                                                 *)
Within(k) ==
    {x \in [at: Instants, credits: 0..MaxCredits, unpriced: 0..1,
            total: 0..(MaxCredits * k), totalUnpriced: 0..k] :
        x.credits <= x.total /\ x.unpriced <= x.totalUnpriced}

CreditsBounded ==
    /\ points \in Seq(Within(Len(arrived)))
    /\ Len(points) <= Len(arrived)
    /\ Len(arrived) <= MaxPoints

(* x are the sums before and y those after c came to place p; w is what    *)
(* was there.  A point that comes before the first one drops what the      *)
(* first sum had of the points that were cut off.                          *)
Carried(N, p, c, top, x, y, w) ==
    /\ \A i \in 1..N : w[i] <= x[i] /\ x[i] <= top
    /\ \A i \in 2..N : x[i] = x[i - 1] + w[i]
    /\ \A i \in 1..(p - 1) : y[i] = x[i]
    /\ y[p] = (IF p = 1 THEN 0 ELSE x[p - 1]) + c
    /\ \A i \in p..N : y[i + 1] = y[i] + w[i]

LEMMA SumsGrow ==
    ASSUME NEW N \in Nat, NEW p \in 1..(N + 1), NEW c \in Nat, NEW top \in Nat,
           NEW x \in [1..N -> Nat], NEW y \in [1..(N + 1) -> Int], NEW w \in [1..N -> Nat],
           Carried(N, p, c, top, x, y, w)
    PROVE  /\ \A i \in 1..(N + 1) : y[i] \in 0..(top + c)
           /\ c <= y[p]
           /\ \A i \in p..N : w[i] <= y[i + 1]
<1> DEFINE Good == {i \in p..N : y[i + 1] <= x[i] + c /\ w[i] <= y[i + 1]}
<1>1. y[p] \in Nat /\ c <= y[p] /\ y[p] <= top + c
  <2>1. CASE p = 1
    BY <2>1 DEF Carried
  <2>2. CASE p # 1
    <3>1. p - 1 \in 1..N
      BY <2>2
    <3>2. x[p - 1] \in Nat /\ x[p - 1] <= top
      BY <3>1 DEF Carried
    <3>3. y[p] = x[p - 1] + c
      BY <2>2 DEF Carried
    <3> DEFINE before == x[p - 1]
               new == y[p]
    <3>4. before \in Nat /\ before <= top /\ new = before + c /\ c \in Nat /\ top \in Nat
      BY <3>2, <3>3
    <3> HIDE DEF before, new
    <3>5. new \in Nat /\ c <= new /\ new <= top + c
      BY <3>4
    <3> QED
      BY <3>5 DEF new
  <2> QED
    BY <2>1, <2>2
<1>2. p <= N => p \in Good
  <2> SUFFICES ASSUME p <= N PROVE p \in Good
    OBVIOUS
  <2>1. /\ p \in p..N /\ p \in 1..N /\ y[p + 1] = y[p] + w[p]
        /\ w[p] \in Nat /\ x[p] \in Nat /\ w[p] <= x[p]
    BY DEF Carried
  <2>2. y[p] + w[p] <= x[p] + c
    <3>1. CASE p = 1
      <4>1. y[p] = 0 + c
        BY <3>1 DEF Carried
      <4> QED
        BY <2>1, <4>1
    <3>2. CASE p # 1
      <4>1. p \in 2..N /\ p - 1 \in 1..N
        BY <2>1, <3>2
      <4>2. x[p] = x[p - 1] + w[p]
        BY <4>1 DEF Carried
      <4>3. x[p - 1] \in Nat
        BY <4>1
      <4>4. y[p] = x[p - 1] + c
        BY <3>2 DEF Carried
      <4> DEFINE before == x[p - 1]
                 own == w[p]
                 new == y[p]
                 old == x[p]
      <4>5. /\ before \in Nat /\ own \in Nat /\ new = before + c /\ old = before + own
            /\ c \in Nat
        BY <2>1, <4>2, <4>3, <4>4
      <4> HIDE DEF before, own, new, old
      <4>6. new + own <= old + c
        BY <4>5
      <4> QED
        BY <4>6 DEF own, new, old
    <3> QED
      BY <3>1, <3>2
  <2> QED
    BY <1>1, <2>1, <2>2
<1>3. ASSUME NEW n \in p..N, n > p, n - 1 \in Good PROVE n \in Good
  <2>1. /\ n \in 2..N /\ n \in 1..N /\ n - 1 \in 1..N /\ (n - 1) + 1 = n /\ n \in 1..(N + 1)
    BY <1>3
  <2>2. y[(n - 1) + 1] <= x[n - 1] + c /\ w[n - 1] <= y[(n - 1) + 1]
    BY <1>3
  <2> HIDE DEF Good
  <2>3. y[n] <= x[n - 1] + c /\ w[n - 1] <= y[n]
    BY <2>1, <2>2
  <2>4. y[n + 1] = y[n] + w[n]
    BY DEF Carried
  <2>5. x[n] = x[n - 1] + w[n]
    BY <2>1 DEF Carried
  <2>6. w[n] \in Nat /\ w[n - 1] \in Nat /\ x[n - 1] \in Nat /\ y[n] \in Int
    BY <2>1
  <2> DEFINE before == x[n - 1]
             own == w[n]
             above == w[n - 1]
             new == y[n]
             old == x[n]
             next == y[n + 1]
  <2>7. /\ before \in Nat /\ own \in Nat /\ above \in Nat /\ new \in Int /\ c \in Nat
        /\ new <= before + c /\ above <= new /\ old = before + own /\ next = new + own
    BY <2>3, <2>4, <2>5, <2>6
  <2> HIDE DEF before, own, above, new, old, next
  <2>8. next <= old + c /\ own <= next
    BY <2>7
  <2>9. y[n + 1] <= x[n] + c /\ w[n] <= y[n + 1]
    BY <2>8 DEF own, old, next
  <2> QED
    BY <2>9 DEF Good
<1>4. \A n \in p..N : n \in Good
  <2>1. p \in Nat /\ Good \in SUBSET (p..N)
    OBVIOUS
  <2> HIDE DEF Good
  <2>2. \A n \in p..N : n > p /\ n - 1 \in Good => n \in Good
    BY <1>3
  <2> QED
    BY <1>2, <2>1, <2>2, Upwards
<1>5. \A n \in p..N : y[n + 1] <= x[n] + c /\ w[n] <= y[n + 1]
  BY <1>4
<1> HIDE DEF Good
<1>6. ASSUME NEW i \in 1..(N + 1) PROVE y[i] \in 0..(top + c)
  <2>1. CASE i < p
    <3>1. i \in 1..(p - 1) /\ i \in 1..N
      BY <2>1
    <3>2. y[i] = x[i] /\ x[i] \in Nat /\ x[i] <= top
      BY <3>1 DEF Carried
    <3> QED
      BY <3>2
  <2>2. CASE i = p
    BY <1>1, <2>2
  <2>3. CASE i > p
    <3>1. i - 1 \in p..N /\ i - 1 \in 1..N /\ (i - 1) + 1 = i
      BY <2>3
    <3>2. y[(i - 1) + 1] <= x[i - 1] + c /\ w[i - 1] <= y[(i - 1) + 1]
      BY <1>5, <3>1
    <3>3. y[i] <= x[i - 1] + c /\ w[i - 1] <= y[i]
      BY <3>1, <3>2
    <3>4. y[i] \in Int /\ w[i - 1] \in Nat /\ x[i - 1] \in Nat /\ x[i - 1] <= top
      BY <3>1 DEF Carried
    <3> DEFINE old == x[i - 1]
               new == y[i]
               own == w[i - 1]
    <3>5. /\ new \in Int /\ own \in Nat /\ old \in Nat /\ old <= top /\ c \in Nat /\ top \in Nat
          /\ new <= old + c /\ own <= new
      BY <3>3, <3>4
    <3> HIDE DEF old, new, own
    <3>6. new \in 0..(top + c)
      BY <3>5
    <3> QED
      BY <3>6 DEF new
  <2> QED
    BY <2>1, <2>2, <2>3
<1> QED
  BY <1>1, <1>5, <1>6

LEMMA WithinFields ==
    ASSUME NEW k \in Nat, NEW x \in Within(k)
    PROVE  /\ x \in AnyPoint /\ x.at \in Instants /\ x.credits \in 0..MaxCredits /\ x.unpriced \in 0..1
           /\ x.total \in Nat /\ x.total <= MaxCredits * k /\ x.credits <= x.total
           /\ x.totalUnpriced \in Nat /\ x.totalUnpriced <= k /\ x.unpriced <= x.totalUnpriced
<1>1. MaxCredits * k \in Nat
  BY CreditsAssumption
<1> QED
  BY <1>1, CreditsAssumption DEF Within, AnyPoint, Instants

LEMMA WithinCome ==
    ASSUME NEW k \in Nat, NEW x \in AnyPoint,
           x.at \in Instants, x.credits \in 0..MaxCredits, x.unpriced \in 0..1,
           x.total \in 0..(MaxCredits * k), x.credits <= x.total,
           x.totalUnpriced \in 0..k, x.unpriced <= x.totalUnpriced
    PROVE  x \in Within(k)
BY DEF Within, AnyPoint

(* A point that comes adds to no sum more than its own.                    *)
LEMMA GrownWithin ==
    ASSUME NEW k \in Nat, NEW s \in Seq(Within(k)), Adjacent(s), NEW a \in Arrival,
           NEW p, NEW u, Grown(s, a, p, u)
    PROVE  u \in Seq(Within(k + 1))
<1> DEFINE N == Len(s)
           top == MaxCredits * k
           x == [i \in 1..N |-> s[i].total]
           w == [i \in 1..N |-> s[i].credits]
           y == [i \in 1..(N + 1) |-> u[i].total]
           xu == [i \in 1..N |-> s[i].totalUnpriced]
           wu == [i \in 1..N |-> s[i].unpriced]
           yu == [i \in 1..(N + 1) |-> u[i].totalUnpriced]
<1>1. /\ N \in Nat /\ p \in 1..(N + 1) /\ u \in Seq(AnyPoint) /\ Len(u) = N + 1
      /\ s \in Seq(AnyPoint) /\ DOMAIN s = 1..N
  <2>1. s \in Seq(AnyPoint)
    <3>1. Within(k) \subseteq AnyPoint
      BY WithinFields
    <3> QED
      BY <3>1
  <2> QED
    BY <2>1 DEF Grown
<1>2. top \in Nat /\ MaxCredits \in Nat /\ MaxCredits * (k + 1) = top + MaxCredits
  BY CreditsAssumption
<1>3. a.at \in Instants /\ a.credits \in 0..MaxCredits /\ a.unpriced \in 0..1
  BY DEF Arrival
<1>4. a.credits \in Nat /\ a.unpriced \in Nat /\ a.credits <= MaxCredits /\ a.unpriced <= 1
  BY <1>2, <1>3
<1>5. ASSUME NEW i \in 1..N
      PROVE  /\ s[i].at \in Instants /\ s[i].credits \in 0..MaxCredits /\ s[i].unpriced \in 0..1
             /\ s[i].total \in Nat /\ s[i].total <= top /\ s[i].credits <= s[i].total
             /\ s[i].totalUnpriced \in Nat /\ s[i].totalUnpriced <= k
             /\ s[i].unpriced <= s[i].totalUnpriced
             /\ s[i].credits \in Nat /\ s[i].unpriced \in Nat
  <2>1. s[i] \in Within(k)
    BY <1>1
  <2>2. \A n \in 0..MaxCredits : n \in Nat
    BY <1>2
  <2> QED
    BY <2>1, <2>2, WithinFields
<1>6. ASSUME NEW i \in 1..(N + 1)
      PROVE  /\ u[i] \in AnyPoint /\ u[i].total \in Int /\ u[i].totalUnpriced \in Int
  <2>1. i \in 1..Len(u)
    BY <1>1
  <2> QED
    BY <1>1, <2>1, PointType
<1>7. /\ x \in [1..N -> Nat] /\ w \in [1..N -> Nat] /\ y \in [1..(N + 1) -> Int]
      /\ xu \in [1..N -> Nat] /\ wu \in [1..N -> Nat] /\ yu \in [1..(N + 1) -> Int]
  BY <1>5, <1>6
<1>8. \A i \in 1..(p - 1) : i \in 1..N /\ i \in 1..(N + 1) /\ u[i] = s[i]
  BY <1>1 DEF Grown
<1>9. \A i \in 2..N : /\ i \in 1..N /\ i - 1 \in 1..N
                        /\ s[i].total = s[i - 1].total + s[i].credits
                        /\ s[i].totalUnpriced = s[i - 1].totalUnpriced + s[i].unpriced
  BY <1>1 DEF Adjacent
<1>10. /\ u[p].total = (IF p = 1 THEN 0 ELSE s[p - 1].total) + a.credits
       /\ u[p].totalUnpriced = (IF p = 1 THEN 0 ELSE s[p - 1].totalUnpriced) + a.unpriced
  <2>1. CASE p = 1
    BY <1>4, <2>1 DEF Grown
  <2>2. CASE p # 1
    <3>1. p \in 2..Len(u) /\ p - 1 \in 1..(p - 1)
      BY <1>1, <2>2
    <3>2. u[p - 1] = s[p - 1]
      BY <1>8, <3>1
    <3>3. /\ u[p].total = u[p - 1].total + u[p].credits
          /\ u[p].totalUnpriced = u[p - 1].totalUnpriced + u[p].unpriced
      BY <3>1 DEF Grown, Adjacent
    <3>4. u[p].credits = a.credits /\ u[p].unpriced = a.unpriced
      BY DEF Grown
    <3> QED
      BY <2>2, <3>2, <3>3, <3>4
  <2> QED
    BY <2>1, <2>2
<1>11. ASSUME NEW i \in p..N
       PROVE  /\ i \in 1..N /\ i \in 1..(N + 1) /\ i + 1 \in 1..(N + 1)
              /\ u[i + 1].total = u[i].total + s[i].credits
              /\ u[i + 1].totalUnpriced = u[i].totalUnpriced + s[i].unpriced
              /\ u[i + 1].at = s[i].at /\ u[i + 1].credits = s[i].credits
              /\ u[i + 1].unpriced = s[i].unpriced
  <2>1. /\ i \in 1..N /\ i \in 1..(N + 1) /\ i + 1 \in 1..(N + 1)
        /\ i + 1 \in 2..Len(u) /\ (i + 1) - 1 = i
    BY <1>1
  <2>2. /\ u[i + 1].at = s[i].at /\ u[i + 1].credits = s[i].credits
        /\ u[i + 1].unpriced = s[i].unpriced
    BY DEF Grown
  <2>3. /\ u[i + 1].total = u[(i + 1) - 1].total + u[i + 1].credits
        /\ u[i + 1].totalUnpriced = u[(i + 1) - 1].totalUnpriced + u[i + 1].unpriced
    BY <2>1 DEF Grown, Adjacent
  <2> QED
    BY <2>1, <2>2, <2>3
<1>12. p - 1 \in 1..N \/ p = 1
  BY <1>1
<1>13. Carried(N, p, a.credits, top, x, y, w)
  BY <1>1, <1>5, <1>8, <1>9, <1>10, <1>11, <1>12 DEF Carried
<1>14. Carried(N, p, a.unpriced, k, xu, yu, wu)
  BY <1>1, <1>5, <1>8, <1>9, <1>10, <1>11, <1>12 DEF Carried
<1> HIDE DEF top
<1>15. /\ \A i \in 1..(N + 1) : u[i].total \in 0..(top + a.credits)
       /\ a.credits <= u[p].total
       /\ \A i \in p..N : s[i].credits <= u[i + 1].total
  <2>1. /\ \A i \in 1..(N + 1) : y[i] \in 0..(top + a.credits)
        /\ a.credits <= y[p]
        /\ \A i \in p..N : w[i] <= y[i + 1]
    <3> HIDE DEF x, y, w
    <3> QED
      BY <1>1, <1>2, <1>4, <1>7, <1>13, SumsGrow
  <2> QED
    BY <1>1, <1>11, <2>1
<1>16. /\ \A i \in 1..(N + 1) : u[i].totalUnpriced \in 0..(k + a.unpriced)
       /\ a.unpriced <= u[p].totalUnpriced
       /\ \A i \in p..N : s[i].unpriced <= u[i + 1].totalUnpriced
  <2>1. /\ \A i \in 1..(N + 1) : yu[i] \in 0..(k + a.unpriced)
        /\ a.unpriced <= yu[p]
        /\ \A i \in p..N : wu[i] <= yu[i + 1]
    <3> HIDE DEF xu, yu, wu
    <3> QED
      BY <1>1, <1>4, <1>7, <1>14, SumsGrow
  <2> QED
    BY <1>1, <1>11, <2>1
<1>17. ASSUME NEW i \in 1..(N + 1) PROVE u[i] \in Within(k + 1)
  <2>1. /\ u[i].total \in 0..(top + a.credits) /\ u[i].total \in Int
        /\ u[i].totalUnpriced \in 0..(k + a.unpriced) /\ u[i].totalUnpriced \in Int
        /\ u[i] \in AnyPoint
    BY <1>6, <1>15, <1>16
  <2>2. u[i].total \in 0..(MaxCredits * (k + 1)) /\ u[i].totalUnpriced \in 0..(k + 1) /\ k + 1 \in Nat
    <3> DEFINE sum == u[i].total
               sumUnpriced == u[i].totalUnpriced
               c == a.credits
               d == a.unpriced
    <3>1. /\ sum \in 0..(top + c) /\ sumUnpriced \in 0..(k + d)
          /\ c \in Nat /\ c <= MaxCredits /\ d \in Nat /\ d <= 1
      BY <1>4, <2>1
    <3> HIDE DEF sum, sumUnpriced, c, d
    <3>2. sum \in 0..(top + MaxCredits)
      BY <1>2, <3>1
    <3>3. sumUnpriced \in 0..(k + 1) /\ k + 1 \in Nat
      BY <3>1
    <3> QED
      BY <1>2, <3>2, <3>3 DEF sum, sumUnpriced
  <2>3. /\ u[i].at \in Instants /\ u[i].credits \in 0..MaxCredits /\ u[i].unpriced \in 0..1
        /\ u[i].credits <= u[i].total /\ u[i].unpriced <= u[i].totalUnpriced
    <3>1. CASE i < p
      <4>1. i \in 1..(p - 1)
        BY <1>1, <3>1
      <4> QED
        BY <1>5, <1>8, <4>1
    <3>2. CASE i = p
      <4>1. u[p].at = a.at /\ u[p].credits = a.credits /\ u[p].unpriced = a.unpriced
        BY DEF Grown
      <4> QED
        BY <1>3, <1>15, <1>16, <3>2, <4>1
    <3>3. CASE i > p
      <4>1. i - 1 \in p..N /\ (i - 1) + 1 = i
        BY <1>1, <3>3
      <4>2. PICK j \in p..N : j + 1 = i
        BY <4>1
      <4>3. /\ u[i].at = s[j].at /\ u[i].credits = s[j].credits /\ u[i].unpriced = s[j].unpriced
            /\ s[j].credits <= u[i].total /\ s[j].unpriced <= u[i].totalUnpriced /\ j \in 1..N
        BY <1>11, <1>15, <1>16, <4>2
      <4> QED
        BY <1>5, <4>3
    <3> QED
      BY <1>1, <3>1, <3>2, <3>3
  <2> QED
    BY <2>1, <2>2, <2>3, WithinCome
<1>18. DOMAIN u = 1..(N + 1)
  BY <1>1
<1>19. u \in Seq(Within(k + 1))
  <2>1. u = [i \in 1..(N + 1) |-> u[i]]
    BY <1>1
  <2> HIDE DEF N
  <2>2. u \in [1..(N + 1) -> Within(k + 1)] /\ N + 1 \in Nat
    BY <1>1, <1>17, <2>1
  <2> QED
    BY <2>2
<1> QED
  BY <1>19

LEMMA CutWithin ==
    ASSUME NEW S, NEW u \in Seq(S), NEW n \in 0..Len(u)
    PROVE  Cut(u, n) \in Seq(S) /\ Len(Cut(u, n)) <= Len(u)
<1>1. CASE n < PruneAt \/ n * 2 < Len(u)
  BY <1>1 DEF Cut
<1>2. CASE ~(n < PruneAt \/ n * 2 < Len(u))
  <2>1. n \in 1..Len(u) /\ Len(u) \in Nat
    BY <1>2, CreditsAssumption
  <2>2. Cut(u, n) = SubSeq(u, n, Len(u))
    BY <1>2 DEF Cut
  <2>3. SubSeq(u, n, Len(u)) \in Seq(S)
    BY <2>1
  <2>4. Len(SubSeq(u, n, Len(u))) = Len(u) - n + 1
    BY <2>1
  <2> QED
    BY <2>1, <2>2, <2>3, <2>4
<1> QED
  BY <1>1, <1>2

LEMMA CreditsStayBounded ==
    ASSUME CreditsInv, CreditsBounded, NEW a \in Arrival, AddRoutedCredits(a)
    PROVE  CreditsBounded'
<1> DEFINE s == points
           k == Len(arrived)
           p == Place(s, a)
           u == Summed(InsertAt(s, p, Entry(a)), p)
           cutoff == u[Len(u)].at - KeptFor
<1>1. /\ arrived' = Append(arrived, a) /\ k < MaxPoints
      /\ points' = Cut(u, OlderThan(u, cutoff))
  BY DEF AddRoutedCredits, Place, Entry
<1>2. /\ s \in Seq(AnyPoint) /\ Ordered(s) /\ Adjacent(s) /\ arrived \in Seq(Arrival)
      /\ s \in Seq(Within(k)) /\ Len(s) <= k
  BY DEF CreditsInv, CreditsTyped, CreditsBounded
<1>3. /\ k \in Nat /\ Len(arrived') = k + 1 /\ k + 1 <= MaxPoints
  BY <1>1, <1>2, CreditsAssumption
<1>4. Grown(s, a, p, u)
  BY <1>2, Growing
<1> HIDE DEF s, p, u, k
<1>5. u \in Seq(Within(k + 1))
  BY <1>2, <1>3, <1>4, GrownWithin
<1>6. u \in Seq(AnyPoint) /\ Ordered(u) /\ Len(u) = Len(s) + 1 /\ Len(u) \in 1..Len(u)
  BY <1>2, <1>4 DEF Grown
<1>7. cutoff \in Int
  <2>1. u[Len(u)].at \in Int
    BY <1>6, PointType
  <2> QED
    BY <2>1, CreditsAssumption
<1> HIDE DEF cutoff
<1>8. OlderThan(u, cutoff) \in 0..Len(u)
  BY <1>6, <1>7, Search
<1>9. points' \in Seq(Within(k + 1)) /\ Len(points') <= Len(u)
  BY <1>1, <1>5, <1>8, CutWithin
<1>10. Len(points') <= k + 1
  <2>1. Len(points') \in Nat /\ Len(s) \in Nat
    BY <1>2, <1>9
  <2> QED
    BY <1>2, <1>3, <1>6, <1>9, <2>1
<1> QED
  BY <1>3, <1>9, <1>10 DEF CreditsBounded, Within

LEMMA CreditsBoundsType ==
    ASSUME CreditsInv, CreditsBounded PROVE CreditsTypeOK
<1> DEFINE k == Len(arrived)
<1>1. /\ arrived \in Seq(Arrival) /\ k \in Nat /\ k <= MaxPoints /\ MaxPoints \in Nat
      /\ MaxCredits \in Nat /\ points \in Seq(Within(k)) /\ Len(points) <= k
  BY CreditsAssumption DEF CreditsInv, CreditsTyped, CreditsBounded
<1> HIDE DEF k
<1>2. MaxCredits * k \in Nat /\ MaxCredits * MaxPoints \in Nat /\ MaxCredits * k <= MaxCredits * MaxPoints
  <2>1. PICK d \in Nat : MaxPoints = k + d
    <3>1. MaxPoints - k \in Nat /\ MaxPoints = k + (MaxPoints - k)
      BY <1>1
    <3> QED
      BY <3>1
  <2>2. MaxCredits * (k + d) = MaxCredits * k + MaxCredits * d
    BY <1>1
  <2>3. MaxCredits * k \in Nat /\ MaxCredits * d \in Nat
    BY <1>1
  <2> QED
    BY <2>1, <2>2, <2>3
<1>3. Within(k) \subseteq Point
  <2> SUFFICES ASSUME NEW x \in Within(k) PROVE x \in Point
    OBVIOUS
  <2>1. /\ x.total \in 0..(MaxCredits * MaxPoints) /\ x.totalUnpriced \in 0..MaxPoints
        /\ x.at \in Instants /\ x.credits \in 0..MaxCredits /\ x.unpriced \in 0..1
        /\ x \in AnyPoint
    <3>1. /\ x \in AnyPoint /\ x.at \in Instants /\ x.credits \in 0..MaxCredits /\ x.unpriced \in 0..1
          /\ x.total \in Nat /\ x.total <= MaxCredits * k
          /\ x.totalUnpriced \in Nat /\ x.totalUnpriced <= k
      BY <1>1, WithinFields
    <3>2. x.totalUnpriced \in 0..MaxPoints
      BY <1>1, <3>1
    <3> DEFINE m == MaxCredits * k
               M == MaxCredits * MaxPoints
               sum == x.total
    <3>3. m \in Nat /\ M \in Nat /\ m <= M /\ sum \in Nat /\ sum <= m
      BY <1>2, <3>1
    <3> HIDE DEF m, M, sum
    <3>4. sum \in 0..M
      BY <3>3
    <3> QED
      BY <3>1, <3>2, <3>4 DEF sum, M
  <2> QED
    BY <2>1 DEF Point, AnyPoint
<1>4. points \in Seq(Point)
  BY <1>1, <1>3
<1>5. Len(points) <= MaxPoints
  <2>1. Len(points) \in Nat
    BY <1>1
  <2> QED
    BY <1>1, <2>1
<1> QED
  BY <1>1, <1>4, <1>5 DEF CreditsTypeOK, k

(* However the points arrive and whatever is cut off, the sums that are    *)
(* kept stay within what the points that arrived can have: they neither    *)
(* run away when a late point shifts them, nor fall below a point's own    *)
(* credits.                                                                *)
THEOREM CreditsTypes == CreditsSpec => []CreditsTypeOK
<1>1. CreditsInit => CreditsInv /\ CreditsBounded
  <2> SUFFICES ASSUME CreditsInit PROVE CreditsInv /\ CreditsBounded
    OBVIOUS
  <2>1. points = <<>> /\ arrived = <<>>
    BY DEF CreditsInit
  <2>2. CreditsBounded
    BY <2>1, CreditsAssumption DEF CreditsBounded
  <2> QED
    BY <2>2, CreditsStart
<1>2. CreditsInv /\ CreditsBounded /\ [CreditsNext]_creditsVars => CreditsBounded'
  <2> SUFFICES ASSUME CreditsInv, CreditsBounded, [CreditsNext]_creditsVars PROVE CreditsBounded'
    OBVIOUS
  <2>1. CASE UNCHANGED creditsVars
    BY <2>1 DEF creditsVars, CreditsBounded, Within
  <2>2. CASE CreditsNext
    BY <2>2, CreditsStayBounded DEF CreditsNext
  <2> QED
    BY <2>1, <2>2
<1>3. CreditsInv /\ CreditsBounded => CreditsTypeOK
  BY CreditsBoundsType
<1>4. CreditsSpec => []CreditsInv
  BY CreditsInductive
<1> QED
  BY <1>1, <1>2, <1>3, <1>4, PTL DEF CreditsSpec

=============================================================================
