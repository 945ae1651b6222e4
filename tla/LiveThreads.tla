------------------------------ MODULE LiveThreads ----------------------------
(***************************************************************************)
(* The threads and connections that the dashboards show                    *)
(* (internal/app/stats.go, responses_accounting.go).                       *)
(*                                                                         *)
(* A thread's history is kept while a connection works on it and for       *)
(* threadHistoryWindow after; it starts anew when the thread moves to      *)
(* another account.  Connections report each event in a call of its own,   *)
(* so those of several connections mix.  Stats.mu makes each call atomic.  *)
(***************************************************************************)
EXTENDS Naturals, FiniteSets

CONSTANTS
    Connections,  \* relays, and HTTP requests
    ThreadKeys,   \* statsThread of a turn
    Hosts,        \* accounts
    Window,       \* threadHistoryWindow
    MaxTime       \* bound: time

ASSUME ThreadsAssumption ==
    /\ Hosts # {} /\ ThreadKeys # {}
    /\ IsFiniteSet(Connections)
    /\ Window \in Nat \ {0}
    /\ MaxTime \in Nat

VARIABLES
    threads,      \* Stats.threads: none, or one threadStats
    liveThreads,  \* Stats.liveThreads
    wsOpen,       \* accountStats.wsOpen
    conn,         \* each connection and its turn
    clock         \* time.Now()

threadsVars == <<threads, liveThreads, wsOpen, conn, clock>>

-----------------------------------------------------------------------------

Times == 0..MaxTime

(* charged: accounts whose usage this segment has added up.                *)
ThreadStats == [account: Hosts, charged: SUBSET Hosts, last: Times]

(* live: the relay's liveThreads; shown: those of them it has recorded.    *)
ConnectionType ==
    [step: {"closed", "open", "closing"}, account: Hosts, live: SUBSET ThreadKeys,
     shown: SUBSET ThreadKeys, turn: {"none", "sent", "active", "accepted"}, thread: ThreadKeys]

ThreadsInit ==
    /\ threads = [t \in ThreadKeys |-> {}]
    /\ liveThreads = [t \in ThreadKeys |-> 0]
    /\ wsOpen = [h \in Hosts |-> 0]
    /\ conn = [c \in Connections |->
           [step |-> "closed", account |-> CHOOSE h \in Hosts : TRUE, live |-> {}, shown |-> {},
            turn |-> "none", thread |-> CHOOSE t \in ThreadKeys : TRUE]]
    /\ clock = 0

OutsideWindow(t) == \E x \in threads[t] : x.last + Window <= clock

(* Mutant of Prunable: a connection does not keep the history alive.       *)
PrunableByAge(t) == OutsideWindow(t)

Prunable(t) == liveThreads[t] = 0 /\ OutsideWindow(t)

(* pruneThreadHistory                                                      *)
Pruned == [t \in ThreadKeys |-> IF Prunable(t) THEN {} ELSE threads[t]]

-----------------------------------------------------------------------------

(* websocketOpened                                                         *)
OpenRelay(c, h) ==
    /\ conn[c].step = "closed"
    /\ conn' = [conn EXCEPT ![c].step = "open", ![c].account = h]
    /\ wsOpen' = [wsOpen EXCEPT ![h] = @ + 1]
    /\ UNCHANGED <<threads, liveThreads, clock>>

(* Mutant of SwitchRelay: only the new socket is counted.                  *)
SwitchRelayOpening(c, h) ==
    /\ conn[c].step = "open" /\ conn[c].turn = "none" /\ conn[c].account # h
    /\ conn' = [conn EXCEPT ![c].account = h]
    /\ wsOpen' = [wsOpen EXCEPT ![h] = @ + 1]
    /\ UNCHANGED <<threads, liveThreads, clock>>

(* switchAccount: between two turns.                                       *)
SwitchRelay(c, h) ==
    /\ conn[c].step = "open" /\ conn[c].turn = "none" /\ conn[c].account # h
    /\ conn' = [conn EXCEPT ![c].account = h]
    /\ wsOpen' = [wsOpen EXCEPT ![conn[c].account] = @ - 1, ![h] = @ + 1]
    /\ UNCHANGED <<threads, liveThreads, clock>>

StartTurn(c, t) ==
    /\ conn[c].step = "open" /\ conn[c].turn = "none"
    /\ conn' = [conn EXCEPT ![c].turn = "sent", ![c].thread = t]
    /\ UNCHANGED <<threads, liveThreads, wsOpen, clock>>

(* Mutant of Holds: every turn of a connection counts it again.            *)
HoldsNothing(c, t) == FALSE

Holds(c, t) == t \in conn[c].live

(* activateThread, once per connection and thread.                         *)
ActivateThread(c) ==
    LET t == conn[c].thread IN
    /\ conn[c].step = "open" /\ conn[c].turn = "sent"
    /\ conn' = [conn EXCEPT ![c].turn = "active", ![c].live = @ \cup {t}]
    /\ IF Holds(c, t)
       THEN UNCHANGED <<threads, liveThreads>>
       ELSE /\ threads' = [threads EXCEPT ![t] = IF Prunable(t) THEN {} ELSE @]
            /\ liveThreads' = [liveThreads EXCEPT ![t] = @ + 1]
    /\ UNCHANGED <<wsOpen, clock>>

(* applyRouted: the first turn, the first on another account, or another.  *)
RecordAccepted(c) ==
    LET t == conn[c].thread
        h == conn[c].account
        same == {x \in Pruned[t] : x.account = h}
    IN
    /\ conn[c].step = "open" /\ conn[c].turn = "active"
    /\ threads' = [Pruned EXCEPT ![t] =
           {[account |-> h, charged |-> UNION {x.charged : x \in same}, last |-> clock]}]
    /\ conn' = [conn EXCEPT ![c].turn = "accepted", ![c].shown = @ \cup {t}]
    /\ UNCHANGED <<liveThreads, wsOpen, clock>>

(* Mutant of Charges: usage goes to whatever the thread does now.          *)
ChargesThread(x, h) == TRUE

(* The thread's segment is still one of the account that answered.         *)
Charges(x, h) == x.account = h

(* applyUsageAt, and applyCompleted; or the turn ends without usage.       *)
FinishTurn(c) ==
    LET t == conn[c].thread
        h == conn[c].account
    IN
    /\ conn[c].step = "open" /\ conn[c].turn = "accepted"
    /\ threads' = [threads EXCEPT ![t] =
           {IF Charges(x, h) THEN [x EXCEPT !.charged = @ \cup {h}] ELSE x : x \in @}]
    /\ conn' = [conn EXCEPT ![c].turn = "none"]
    /\ UNCHANGED <<liveThreads, wsOpen, clock>>

(* close, at any point: websocketClosed, and then one thread at a time.    *)
CloseRelay(c) ==
    /\ conn[c].step = "open"
    /\ conn' = [conn EXCEPT ![c].step = "closing", ![c].turn = "none", ![c].shown = {}]
    /\ wsOpen' = [wsOpen EXCEPT ![conn[c].account] = @ - 1]
    /\ UNCHANGED <<threads, liveThreads, clock>>

DeactivateThread(c, t) ==
    /\ conn[c].step = "closing"
    /\ t \in conn[c].live
    /\ liveThreads' = [liveThreads EXCEPT ![t] = IF @ = 0 THEN 0 ELSE @ - 1]
    /\ conn' = [conn EXCEPT ![c].live = @ \ {t}]
    /\ UNCHANGED <<threads, wsOpen, clock>>

CloseEnds(c) ==
    /\ conn[c].step = "closing" /\ conn[c].live = {}
    /\ conn' = [conn EXCEPT ![c].step = "closed"]
    /\ UNCHANGED <<threads, liveThreads, wsOpen, clock>>

(* snapshot                                                                *)
ShowThreads ==
    /\ threads' = Pruned
    /\ UNCHANGED <<liveThreads, wsOpen, conn, clock>>

TimePasses ==
    /\ clock < MaxTime
    /\ clock' = clock + 1
    /\ UNCHANGED <<threads, liveThreads, wsOpen, conn>>

ThreadsNext ==
    \/ \E c \in Connections :
        \/ \E h \in Hosts : OpenRelay(c, h) \/ SwitchRelay(c, h)
        \/ \E t \in ThreadKeys : StartTurn(c, t) \/ DeactivateThread(c, t)
        \/ ActivateThread(c) \/ RecordAccepted(c) \/ FinishTurn(c)
        \/ CloseRelay(c) \/ CloseEnds(c)
    \/ ShowThreads
    \/ TimePasses

ThreadsSpec == ThreadsInit /\ [][ThreadsNext]_threadsVars

-----------------------------------------------------------------------------
(* Properties.                                                             *)

ThreadsTypeOK ==
    /\ threads \in [ThreadKeys -> SUBSET ThreadStats]
    /\ \A t \in ThreadKeys : Cardinality(threads[t]) <= 1
    /\ liveThreads \in [ThreadKeys -> 0..Cardinality(Connections)]
    /\ wsOpen \in [Hosts -> 0..Cardinality(Connections)]
    /\ conn \in [Connections -> ConnectionType]
    /\ clock \in Times

(* The counters are those of the connections there are, through turns,     *)
(* account switches and closes at any point: a thread is shown as live for *)
(* as long as a connection works on it and no longer, and an account's     *)
(* open sockets are all given back.                                        *)
CountersAgree ==
    /\ \A t \in ThreadKeys : liveThreads[t] = Cardinality({c \in Connections : t \in conn[c].live})
    /\ \A h \in Hosts :
        wsOpen[h] = Cardinality({c \in Connections : conn[c].step = "open" /\ conn[c].account = h})

(* No thread that a connection works on loses its history, however long it *)
(* has been quiet and whoever else is closing or drawing.                  *)
LiveThreadKept == \A c \in Connections : \A t \in conn[c].shown : threads[t] # {}

(* A segment sums up the usage of one account: an answer that is late,     *)
(* after another connection moved the thread, is not added to it.          *)
SegmentIsOneAccount == \A t \in ThreadKeys : \A x \in threads[t] : x.charged \subseteq {x.account}

(* What the dashboards show of threads is true of the connections, in      *)
(* whatever order their reports mix.                                       *)
ThreadsAreTrue == CountersAgree /\ LiveThreadKept /\ SegmentIsOneAccount
=============================================================================
