----------------------- MODULE RouteOwnershipProofs -----------------------
(***************************************************************************)
(* Selection, dialing, relaying, acceptance and invalidation use the claim *)
(* registry only as RouteClaims allows: every step of RouteOwnership is a  *)
(* step of the registry or leaves it alone.  So what RouteClaimsProofs     *)
(* shows of the registry holds in the whole server.  OwnershipInv adds to  *)
(* the registry's invariant the types of the other state and what a phase  *)
(* promises: TransferClaim needs an account, CommitClaim keys of the route.*)
(* Three sections follow on what lies between registry and SQLite: claims  *)
(* on accounts whose invalidation has run (FinalInv), the acceptance that  *)
(* holds routeOwnership over several steps (AcceptInv), and the barriers   *)
(* that a restart must find again in the routes table (BoundaryInv).       *)
(***************************************************************************)
EXTENDS RouteOwnership, RouteClaimsProofs

(* The strongest owner in a set of accounts is one of them, if any.        *)
LEMMA FirstOwnerFact ==
  ASSUME NEW c \in Conns, NEW S \in SUBSET Accounts
  PROVE  FirstOwner(c, S) \in S \cup {NoAccount}
<1> DEFINE hits == {n \in 1..6 : Owners(c)[n] \in S}
<1>1. CASE hits = {}
  BY <1>1 DEF FirstOwner
<1>2. CASE hits # {}
  <2>1. \E n \in hits : \A m \in hits : n <= m
    <3>1. \A n \in hits : n \in {1, 2, 3, 4, 5, 6}
      OBVIOUS
    <3> HIDE DEF hits
    <3>2. CASE 1 \in hits
      BY <3>1, <3>2
    <3>3. CASE 1 \notin hits /\ 2 \in hits
      BY <3>1, <3>3
    <3>4. CASE 1 \notin hits /\ 2 \notin hits /\ 3 \in hits
      BY <3>1, <3>4
    <3>5. CASE hits \cap {1, 2, 3} = {} /\ 4 \in hits
      BY <3>1, <3>5
    <3>6. CASE hits \cap {1, 2, 3, 4} = {} /\ 5 \in hits
      BY <3>1, <3>6
    <3>7. CASE hits \cap {1, 2, 3, 4, 5} = {}
      BY <1>2, <3>1, <3>7
    <3> QED
      BY <3>2, <3>3, <3>4, <3>5, <3>6, <3>7
  <2>2. (CHOOSE n \in hits : \A m \in hits : n <= m) \in hits
    BY <2>1
  <2> QED
    BY <1>2, <2>2 DEF FirstOwner
<1> QED
  BY <1>1, <1>2

(* The pool returns accounts, and the prior owner is an account or none.   *)
LEMMA PicksFact ==
  ASSUME NEW c \in Conns
  PROVE  Picks(c) \subseteq Accounts /\ PriorOwner(c) \in AccountOrNone
<1> DEFINE kept == FirstOwner(c, Cooling \cup Fresh(c, "available"))
           paying == FirstOwner(c, Fresh(c, "credits"))
<1>1. /\ Cooling \subseteq Accounts
      /\ Fresh(c, "available") \subseteq Accounts
      /\ Fresh(c, "credits") \subseteq Accounts
  BY DEF Cooling, Fresh
<1>2. kept # NoAccount => kept \in Accounts
  BY <1>1, FirstOwnerFact
<1>3. paying # NoAccount => paying \in Accounts
  BY <1>1, FirstOwnerFact
<1>4. PriorOwner(c) \in AccountOrNone
  BY FirstOwnerFact DEF PriorOwner, AccountOrNone
<1>5. Picks(c) \subseteq Accounts
  <2> HIDE DEF kept, paying
  <2>1. Picks(c) = IF kept # NoAccount THEN {kept} \ Cooling
                   ELSE IF Fresh(c, "available") # {} THEN Fresh(c, "available")
                   ELSE IF paying # NoAccount THEN {paying}
                   ELSE Fresh(c, "credits")
    BY DEF Picks, kept, paying
  <2> QED
    BY <1>1, <1>2, <1>3, <2>1
<1> QED
  BY <1>4, <1>5

-----------------------------------------------------------------------------
(* Every step is a step of the registry.                                   *)

(* A selection joins a claim, creates one, or leaves the registry alone.   *)
LEMMA SelectRefines ==
  ASSUME OwnershipInv, NEW c \in Conns, SelectAccount(c) \/ SelectReplacement(c)
  PROVE  [ClaimsNext]_claimVars
<1>1. CASE SelectAccount(c)
  <2>1. CASE SelectJoin(c)
    BY <2>1, PicksFact DEF SelectJoin, ClaimsNext
  <2>2. CASE SelectUnclaimed(c)
    BY <2>2 DEF SelectUnclaimed
  <2>3. CASE SelectCreate(c)
    BY <2>3, PicksFact DEF SelectCreate, ClaimsNext
  <2>4. CASE SelectRefused(c)
    BY <2>4 DEF SelectRefused
  <2> QED
    BY <1>1, <2>1, <2>2, <2>3, <2>4 DEF SelectAccount
<1>2. CASE SelectReplacement(c)
  BY <1>2 DEF SelectReplacement, ClaimsNext
<1> QED
  BY <1>1, <1>2

(* Whatever ends a connection releases or preserves its handle.            *)
LEMMA ReleaseRefines ==
  ASSUME NEW c \in Conns
  PROVE  /\ ReleaseClaim(c) => [ClaimsNext]_claimVars
         /\ ReleaseIfHeld(c) => [ClaimsNext]_claimVars
         /\ ReleaseSelection(c) => [ClaimsNext]_claimVars
         /\ ReleaseAndEnd(c) => [ClaimsNext]_claimVars
         /\ PreserveAndEnd(c) => [ClaimsNext]_claimVars
<1>1. ReleaseClaim(c) => [ClaimsNext]_claimVars
  BY DEF ClaimsNext
<1>2. ReleaseIfHeld(c) => [ClaimsNext]_claimVars
  BY <1>1 DEF ReleaseIfHeld
<1>3. PreserveClaim(c) => [ClaimsNext]_claimVars
  BY DEF ClaimsNext
<1> QED
  BY <1>1, <1>2, <1>3 DEF ReleaseSelection, ReleaseAndEnd, PreserveAndEnd

(* Reads and dials touch the registry only to release a claim.             *)
LEMMA PlacementRefines ==
  ASSUME OwnershipInv, NEW c \in Conns, Placement(c)
  PROVE  [ClaimsNext]_claimVars
<1>1. CASE ReadThreadOwner(c)
  BY <1>1 DEF ReadThreadOwner
<1>2. CASE ReadSessionOwner(c)
  BY <1>2 DEF ReadSessionOwner
<1>3. CASE SelectAccount(c) \/ SelectReplacement(c)
  BY <1>3, SelectRefines
<1>4. CASE DialFailed(c)
  BY <1>4, ReleaseRefines DEF DialFailed
<1>5. CASE Dialed(c)
  BY <1>5, ReleaseRefines DEF Dialed
<1> QED
  BY <1>1, <1>2, <1>3, <1>4, <1>5 DEF Placement

(* response.created: the keys and the switch flag were fixed before the    *)
(* lock was taken, and the phase still vouches for them.                   *)
LEMMA AcceptRefines ==
  ASSUME OwnershipInv, NEW c \in Conns, EndAccept(c)
  PROVE  [ClaimsNext]_claimVars
<1>1. conn[c].keys \in AcceptedKeySets(c) /\ conn[c].moved \in BOOLEAN
  BY DEF OwnershipInv, PhasesSound, In, EndAccept, StateTypeOK, Connection
<1>2. CASE conn[c].persisted /\ handle[c] # NoHandle
  <2>1. CommitClaim(c, conn[c].keys, conn[c].moved)
    BY <1>2 DEF EndAccept
  <2> QED
    BY <1>1, <2>1 DEF ClaimsNext
<1>3. CASE conn[c].persisted /\ handle[c] = NoHandle
  BY <1>1, <1>3 DEF EndAccept, ClaimsNext
<1>4. CASE ~conn[c].persisted
  BY <1>4 DEF EndAccept, ClaimsNext
<1> QED
  BY <1>2, <1>3, <1>4

(* The account the relay switches to is the one it dialed.                 *)
LEMMA SwitchRefines ==
  ASSUME OwnershipInv, NEW c \in Conns, SwitchAccount(c)
  PROVE  [ClaimsNext]_claimVars
<1>1. conn[c].target \in Accounts /\ conn[c].prior \in AccountOrNone
  BY DEF OwnershipInv, PhasesSound, In, SwitchAccount, StateTypeOK, Connection
<1>2. CASE conn[c].dial = "replacing"
  BY <1>1, <1>2 DEF SwitchAccount, ClaimsNext
<1>3. CASE conn[c].dial # "replacing"
  BY <1>3 DEF SwitchAccount
<1> QED
  BY <1>2, <1>3

(* A relay transfers, commits, releases or preserves its handle.           *)
LEMMA RelayRefines ==
  ASSUME OwnershipInv, NEW c \in Conns, Relay(c)
  PROVE  [ClaimsNext]_claimVars
<1>1. CASE StartRelay(c)
  BY <1>1, ReleaseRefines DEF StartRelay
<1>2. CASE \E portable \in BOOLEAN : SendTurn(c, portable)
  BY <1>2 DEF SendTurn
<1>3. CASE Preflight(c) \/ TurnFailed(c) \/ Created(c)
  BY <1>3 DEF Preflight, TurnFailed, Created
<1>4. CASE SwitchAccount(c)
  BY <1>4, SwitchRefines
<1>5. CASE SendSwitched(c)
  BY <1>5, ReleaseRefines DEF SendSwitched
<1>6. CASE BeginAccept(c)
  BY <1>6, ReleaseRefines DEF BeginAccept
<1>7. CASE EndAccept(c)
  BY <1>7, AcceptRefines
<1>8. CASE \E kind \in RejectionKinds : Rejected(c, kind)
  BY <1>8, ReleaseRefines DEF Rejected
<1>9. CASE Preserved(c) \/ Close(c)
  BY <1>9, ReleaseRefines DEF Preserved, Close
<1> QED
  BY <1>1, <1>2, <1>3, <1>4, <1>5, <1>6, <1>7, <1>8, <1>9 DEF Relay

(* A step of the server is a step of the registry, or leaves it alone.     *)
LEMMA StepRefines == OwnershipInv /\ [Next]_vars => [ClaimsNext]_claimVars
<1> SUFFICES ASSUME OwnershipInv, [Next]_vars
             PROVE  [ClaimsNext]_claimVars
  OBVIOUS
<1>1. CASE \E c \in Conns : Placement(c) \/ Relay(c)
  BY <1>1, PlacementRefines, RelayRefines
<1>2. CASE \E a \in Accounts, s \in Statuses : SetStatus(a, s)
  BY <1>2 DEF SetStatus
<1>3. CASE \E a \in Accounts : Invalidate(a)
  BY <1>3 DEF Invalidate, ClaimsNext
<1>4. CASE Restart
  BY <1>4 DEF Restart, ClaimsNext
<1>5. CASE UNCHANGED vars
  BY <1>5 DEF vars, claimVars
<1> QED
  BY <1>1, <1>2, <1>3, <1>4, <1>5 DEF Next

-----------------------------------------------------------------------------
(* Types and phases are preserved.                                         *)

(* What PhasesSound asks of the record r of connection c.                  *)
Promise(c, r) ==
    /\ r.phase \in {"dialing", "ready"} => r.target \in Accounts
    /\ r.phase \in {"created", "accepting"} => r.keys \in AcceptedKeySets(c)

(* The part of the state that an action on one connection gives back.      *)
ConnsOK == conn \in [Conns -> Connection] /\ \A c \in Conns : Promise(c, conn[c])
TablesOK == /\ routes \in [Keys -> Row]
            /\ clock \in 0..MaxClock
            /\ status \in [Accounts -> Statuses]
            /\ pending \subseteq Accounts

(* The invariant, split by what its parts are about.                       *)
LEMMA InvParts == OwnershipInv <=> RegistryInv /\ TablesOK /\ ConnsOK
  BY DEF OwnershipInv, StateTypeOK, PhasesSound, In, ConnsOK, TablesOK, Promise

(* An idle connection promises nothing.                                    *)
LEMMA IdleFact ==
  ASSUME NEW c \in Conns
  PROVE  Idle \in Connection /\ Promise(c, Idle)
<1>1. Idle \in Connection
  BY OwnershipAssumption
  DEF Idle, Connection, Phases, Dials, AccountOrNone
<1> QED
  BY <1>1 DEF Promise, Idle

(* A step that rewrites one connection has to account for that one only.   *)
LEMMA OneConn ==
  ASSUME ConnsOK, NEW c \in Conns, NEW r \in Connection, Promise(c, r),
         conn' = [conn EXCEPT ![c] = r]
  PROVE  ConnsOK'
<1>1. conn' \in [Conns -> Connection]
  BY DEF ConnsOK
<1>2. \A d \in Conns : conn'[d] = IF d = c THEN r ELSE conn[d]
  BY DEF ConnsOK
<1>3. \A d \in Conns : Promise(d, conn'[d])
  BY <1>2 DEF ConnsOK
<1> QED
  BY <1>1, <1>3 DEF ConnsOK, Promise, AcceptedKeySets, RouteKeys

(* A connection that ends is idle.                                         *)
LEMMA EndOK ==
  ASSUME ConnsOK, NEW c \in Conns, End(c)
  PROVE  ConnsOK'
  BY IdleFact, OneConn DEF End

(* What SQLite returns is an account or none.                              *)
LEMMA ReadOK ==
  ASSUME ConnsOK, TablesOK, NEW c \in Conns, ReadThreadOwner(c) \/ ReadSessionOwner(c)
  PROVE  ConnsOK'
<1>1. DurableOwner(Thread[c]) \in AccountOrNone /\ DurableOwner(Session[c]) \in AccountOrNone
  BY RouteAssumption DEF DurableOwner, TablesOK, Row, AccountOrNone
<1>2. CASE ReadThreadOwner(c)
  <2> DEFINE r == [Idle EXCEPT !.phase = "reading", !.thread = DurableOwner(Thread[c])]
  <2>1. r \in Connection
    BY <1>1, IdleFact DEF Connection, Phases, Idle
  <2>2. Promise(c, r)
    BY DEF Promise, Idle
  <2>3. conn' = [conn EXCEPT ![c] = r]
    BY <1>2 DEF ReadThreadOwner
  <2> QED
    BY <2>1, <2>2, <2>3, OneConn
<1>3. CASE ReadSessionOwner(c)
  <2> DEFINE r == [conn[c] EXCEPT !.phase = "routing", !.session = DurableOwner(Session[c])]
  <2>1. conn[c] \in Connection
    BY DEF ConnsOK
  <2>2. r \in Connection
    BY <1>1, <2>1 DEF Connection, Phases
  <2>3. Promise(c, r)
    BY <2>1 DEF Promise, Connection
  <2>4. conn' = [conn EXCEPT ![c] = r]
    BY <1>3 DEF ReadSessionOwner
  <2> QED
    BY <2>2, <2>3, <2>4, OneConn
<1> QED
  BY <1>2, <1>3

(* Placing c on an account of the pool's choice keeps the promise.         *)
LEMMA PlaceOK ==
  ASSUME ConnsOK, NEW c \in Conns, NEW a \in Accounts, NEW p \in AccountOrNone,
         Place(c, a, p)
  PROVE  ConnsOK'
<1> DEFINE r == [conn[c] EXCEPT !.phase = "dialing", !.target = a, !.prior = p]
<1>1. conn[c] \in Connection
  BY DEF ConnsOK
<1>2. r \in Connection
  BY <1>1 DEF Connection, Phases, AccountOrNone
<1>3. Promise(c, r)
  BY <1>1 DEF Promise, Connection
<1>4. conn' = [conn EXCEPT ![c] = r]
  BY DEF Place
<1> QED
  BY <1>2, <1>3, <1>4, OneConn

(* A selection names an account to dial.                                   *)
LEMMA SelectOK ==
  ASSUME ConnsOK, RegistryInv, NEW c \in Conns, SelectAccount(c) \/ SelectReplacement(c)
  PROVE  ConnsOK'
<1>1. CASE SelectJoin(c)
  <2>1. PICK a \in Accounts : /\ JoinClaim(c, a)
                              /\ Place(c, a, claim[FirstClaimOn(c, a)].priorOwner)
    BY <1>1, PicksFact DEF SelectJoin
  <2>2. claim[FirstClaimOn(c, a)].priorOwner \in AccountOrNone
    <3>1. FirstClaimOn(c, a) \in ClaimIds
      BY <2>1, JoinedClaim
    <3> QED
      BY <3>1 DEF RegistryInv, ClaimsTypeOK, Claim
  <2> QED
    BY <2>1, <2>2, PlaceOK
<1>2. CASE SelectUnclaimed(c)
  BY <1>2, PicksFact, PlaceOK DEF SelectUnclaimed
<1>3. CASE SelectCreate(c)
  BY <1>3, PicksFact, PlaceOK DEF SelectCreate
<1>4. CASE End(c)
  BY <1>4, EndOK
<1>5. CASE SelectReplacement(c)
  BY <1>5, <1>4, PicksFact, PlaceOK DEF SelectReplacement
<1> QED
  BY <1>1, <1>2, <1>3, <1>4, <1>5 DEF SelectAccount

(* A failed dial goes back to routing.                                     *)
LEMMA RetryOK ==
  ASSUME ConnsOK, NEW c \in Conns, NEW skipped \in SUBSET Accounts, Retry(c, skipped)
  PROVE  ConnsOK'
<1> DEFINE r == [conn[c] EXCEPT !.phase = "routing", !.skip = @ \cup skipped,
                                !.target = NoAccount, !.prior = NoAccount]
<1>1. conn[c] \in Connection
  BY DEF ConnsOK
<1>2. r \in Connection
  BY <1>1 DEF Connection, Phases, AccountOrNone
<1>3. Promise(c, r)
  BY <1>1 DEF Promise, Connection
<1>4. conn' = [conn EXCEPT ![c] = r]
  BY <1>1 DEF Retry, ConnsOK
<1> QED
  BY <1>2, <1>3, <1>4, OneConn

(* A step that only moves the phase, away from the phases with a promise,  *)
(* and may mark the first turn as sent.                                    *)
LEMMA PhaseOK ==
  ASSUME ConnsOK, NEW c \in Conns, NEW ph \in Phases, NEW pin \in BOOLEAN,
         ph \notin {"dialing", "created", "accepting"},
         ph = "ready" => conn[c].phase = "dialing",
         conn' = [conn EXCEPT ![c] = [conn[c] EXCEPT !.phase = ph, !.pinned = pin]]
  PROVE  ConnsOK'
<1> DEFINE r == [conn[c] EXCEPT !.phase = ph, !.pinned = pin]
<1>1. conn[c] \in Connection /\ Promise(c, conn[c])
  BY DEF ConnsOK
<1>2. r \in Connection
  BY <1>1 DEF Connection
<1>3. Promise(c, r)
  BY <1>1 DEF Promise, Connection
<1> QED
  BY <1>2, <1>3, OneConn

(* A relay takes over from a dial that has an account.                     *)
LEMMA OpenedOK ==
  ASSUME ConnsOK, NEW c \in Conns, NEW ph \in {"open", "switched"},
         conn' = [conn EXCEPT ![c] = Opened(c, ph)]
  PROVE  ConnsOK'
<1>1. conn[c] \in Connection
  BY DEF ConnsOK
<1>2. (conn[c].prior \notin {NoAccount, conn[c].target}) \in BOOLEAN
  BY Zenon
<1>3. Opened(c, ph) \in Connection
  <2> DEFINE m == conn[c].prior \notin {NoAccount, conn[c].target}
  <2>1. m \in BOOLEAN
    BY <1>2
  <2>2. Opened(c, ph) = [Idle EXCEPT !.phase = ph, !.account = conn[c].target, !.moved = m]
    BY DEF Opened
  <2>3. Idle \in Connection
    BY IdleFact
  <2> HIDE DEF m
  <2> QED
    BY <1>1, <2>1, <2>2, <2>3 DEF Connection, Phases
<1>4. Promise(c, Opened(c, ph))
  BY DEF Promise, Opened, Idle
<1> QED
  BY <1>3, <1>4, OneConn

(* Every outcome of a dial leaves a connection that is well formed.        *)
LEMMA DialOK ==
  ASSUME ConnsOK, NEW c \in Conns, DialFailed(c) \/ Dialed(c)
  PROVE  ConnsOK'
<1>1. conn[c] \in Connection /\ Promise(c, conn[c])
  BY DEF ConnsOK
<1>2. conn[c].phase = "dialing" /\ conn[c].target \in Accounts
  BY <1>1 DEF DialFailed, Dialed, In, Promise
<1>3. CASE DialFailed(c)
  BY <1>2, <1>3, RetryOK DEF DialFailed
<1>4. CASE Dialed(c) /\ conn' = [conn EXCEPT ![c].phase = "ready"]
  <2>1. [conn[c] EXCEPT !.phase = "ready"]
            = [conn[c] EXCEPT !.phase = "ready", !.pinned = conn[c].pinned]
    BY <1>1 DEF Connection
  <2>2. conn[c].pinned \in BOOLEAN
    BY <1>1 DEF Connection
  <2>3. conn' = [conn EXCEPT ![c] = [conn[c] EXCEPT !.phase = "ready",
                                                     !.pinned = conn[c].pinned]]
    BY <1>4, <2>1
  <2> QED
    BY <1>2, <2>2, <2>3, PhaseOK DEF Phases
<1>5. CASE Dialed(c) /\ ~(conn' = [conn EXCEPT ![c].phase = "ready"])
  BY <1>2, <1>5, RetryOK, EndOK DEF Dialed
<1> QED
  BY <1>3, <1>4, <1>5

(* So does every step of a relay up to response.created.                   *)
LEMMA TurnOK ==
  ASSUME ConnsOK, NEW c \in Conns,
         \/ StartRelay(c) \/ SwitchAccount(c) \/ SendSwitched(c) \/ TurnFailed(c)
         \/ \E portable \in BOOLEAN : SendTurn(c, portable)
  PROVE  ConnsOK'
<1>1. conn[c] \in Connection /\ conn[c].pinned \in BOOLEAN
  BY DEF ConnsOK, Connection
<1>2. CASE StartRelay(c)
  BY <1>2, OpenedOK, EndOK DEF StartRelay, ReleaseAndEnd, PreserveAndEnd
<1>3. CASE SwitchAccount(c)
  BY <1>3, OpenedOK, EndOK DEF SwitchAccount
<1>4. CASE conn' = [conn EXCEPT ![c].phase = "sent", ![c].pinned = TRUE]
  <2>1. conn' = [conn EXCEPT ![c] = [conn[c] EXCEPT !.phase = "sent", !.pinned = TRUE]]
    BY <1>4 DEF ConnsOK
  <2> QED
    BY <2>1, PhaseOK DEF Phases
<1>5. CASE SendSwitched(c)
  BY <1>4, <1>5, EndOK DEF SendSwitched, ReleaseAndEnd
<1>6. CASE TurnFailed(c)
  <2>1. [conn[c] EXCEPT !.phase = "open"]
            = [conn[c] EXCEPT !.phase = "open", !.pinned = conn[c].pinned]
    BY <1>1 DEF Connection
  <2>2. conn' = [conn EXCEPT ![c] = [conn[c] EXCEPT !.phase = "open",
                                                     !.pinned = conn[c].pinned]]
    BY <1>6, <2>1 DEF TurnFailed
  <2> QED
    BY <1>1, <2>2, PhaseOK DEF Phases
<1>7. CASE \E portable \in BOOLEAN : SendTurn(c, portable)
  BY <1>4, <1>7 DEF SendTurn
<1> QED
  BY <1>2, <1>3, <1>5, <1>6, <1>7

(* And so does the preflight, which reads the owner of the thread again.   *)
LEMMA PreflightOK ==
  ASSUME ConnsOK, TablesOK, NEW c \in Conns, Preflight(c)
  PROVE  ConnsOK'
<1> DEFINE how == IF handle[c] = NoHandle THEN "again" ELSE "replacing"
           r == [conn[c] EXCEPT !.phase = "reading", !.dial = how,
                                !.thread = DurableOwner(Thread[c])]
<1>1. conn[c] \in Connection
  BY DEF ConnsOK
<1>2. DurableOwner(Thread[c]) \in AccountOrNone
  BY RouteAssumption DEF DurableOwner, TablesOK, Row, AccountOrNone
<1>3. how \in Dials
  BY DEF Dials
<1>4. conn' = [conn EXCEPT ![c] = r]
  BY DEF Preflight
<1> HIDE DEF how
<1>5. r \in Connection
  BY <1>1, <1>2, <1>3 DEF Connection, Phases
<1>6. Promise(c, r)
  BY <1>1 DEF Promise, Connection
<1> QED
  BY <1>4, <1>5, <1>6, OneConn

(* response.created up to the unlock: the keys fixed at the stamp are kept *)
(* until the acceptance has used them.                                     *)
LEMMA AcceptOK ==
  ASSUME ConnsOK, TablesOK, NEW c \in Conns, Created(c) \/ BeginAccept(c) \/ EndAccept(c)
  PROVE  ConnsOK'
<1>1. conn[c] \in Connection /\ Promise(c, conn[c])
  BY DEF ConnsOK
<1>2. CASE Created(c)
  <2>1. PICK ks \in AcceptedKeySets(c) :
            conn' = [conn EXCEPT ![c].phase = "created", ![c].stamp = clock + 1,
                                 ![c].keys = ks]
    BY <1>2 DEF Created
  <2> DEFINE r == [conn[c] EXCEPT !.phase = "created", !.stamp = clock + 1, !.keys = ks]
  <2>2. ks \in SUBSET Keys
    BY RouteKeysFact DEF AcceptedKeySets
  <2>3. clock + 1 \in 0..MaxClock
    BY <1>2, OwnershipAssumption DEF Created, TablesOK
  <2>4. r \in Connection
    BY <1>1, <2>2, <2>3 DEF Connection, Phases
  <2>5. Promise(c, r)
    BY <1>1 DEF Promise, Connection
  <2>6. conn' = [conn EXCEPT ![c] = r]
    BY <2>1 DEF ConnsOK
  <2> QED
    BY <2>4, <2>5, <2>6, OneConn
<1>3. CASE BeginAccept(c) /\ ~End(c)
  <2>1. PICK stored \in BOOLEAN :
            conn' = [conn EXCEPT ![c].phase = "accepting", ![c].persisted = stored]
    BY <1>3 DEF BeginAccept, ReleaseAndEnd, StoreOutcomes
  <2> DEFINE r == [conn[c] EXCEPT !.phase = "accepting", !.persisted = stored]
  <2>2. r \in Connection
    BY <1>1 DEF Connection, Phases
  <2>3. conn[c].keys \in AcceptedKeySets(c)
    BY <1>1, <1>3 DEF BeginAccept, In, Promise
  <2>4. Promise(c, r)
    BY <1>1, <2>3 DEF Promise, Connection
  <2>5. conn' = [conn EXCEPT ![c] = r]
    BY <2>1 DEF ConnsOK
  <2> QED
    BY <2>2, <2>4, <2>5, OneConn
<1>4. CASE EndAccept(c)
  <2> DEFINE r == [conn[c] EXCEPT !.phase = "open", !.moved = FALSE, !.stamp = 0,
                                  !.keys = {}, !.persisted = FALSE]
  <2>0. 0 \in 0..MaxClock
    BY OwnershipAssumption
  <2>1. r \in Connection
    BY <1>1, <2>0 DEF Connection, Phases
  <2>2. Promise(c, r)
    BY <1>1 DEF Promise, Connection
  <2>3. conn' = [conn EXCEPT ![c] = r]
    BY <1>4 DEF EndAccept, ConnsOK
  <2> QED
    BY <2>1, <2>2, <2>3, OneConn
<1> QED
  BY <1>2, <1>3, <1>4, EndOK

(* Every step keeps all connections well formed and their promises true.   *)
LEMMA StepConns ==
  ASSUME OwnershipInv, [Next]_vars
  PROVE  ConnsOK'
<1>1. ConnsOK /\ TablesOK /\ RegistryInv
  BY InvParts
<1>2. ASSUME NEW c \in Conns, Placement(c)
      PROVE  ConnsOK'
  BY <1>1, <1>2, ReadOK, SelectOK, DialOK DEF Placement
<1>3. ASSUME NEW c \in Conns, Relay(c)
      PROVE  ConnsOK'
  <2>1. CASE Preserved(c) \/ Close(c) \/ \E kind \in RejectionKinds : Rejected(c, kind)
    BY <1>1, <2>1, EndOK DEF Preserved, Close, Rejected, ReleaseAndEnd, PreserveAndEnd
  <2> QED
    BY <1>1, <1>3, <2>1, TurnOK, PreflightOK, AcceptOK DEF Relay
<1>4. CASE Restart
  <2>1. conn' = [c \in Conns |-> Idle]
    BY <1>4 DEF Restart
  <2>2. \A c \in Conns : Idle \in Connection /\ Promise(c, Idle)
    BY IdleFact
  <2> QED
    BY <2>1, <2>2 DEF ConnsOK, Promise, AcceptedKeySets, RouteKeys
<1>5. CASE UNCHANGED conn
  BY <1>1, <1>5 DEF ConnsOK, Promise, AcceptedKeySets, RouteKeys
<1> QED
  BY <1>2, <1>3, <1>4, <1>5 DEF Next, SetStatus, Invalidate, vars

-----------------------------------------------------------------------------

(* A write to the routes table, by an acceptance or a preservation.        *)
LEMMA UpsertedOK ==
  ASSUME TablesOK, NEW ks, NEW a \in AccountOrNone, NEW at \in 0..MaxClock
  PROVE  Upserted(ks, a, at) \in [Keys -> Row]
  BY DEF Upserted, TablesOK, Row

(* A preservation writes a row with a timestamp in range, or fails.        *)
LEMMA PreserveOwnersOK ==
  ASSUME TablesOK, NEW ks, NEW a \in AccountOrNone, PreserveOwners(ks, a)
  PROVE  routes' \in [Keys -> Row] /\ clock' \in 0..MaxClock
<1>1. CASE ks = {}
  BY <1>1 DEF PreserveOwners, TablesOK
<1>2. CASE ks # {}
  <2>1. clock + 1 \in 0..MaxClock /\ clock' = clock + 1
    BY <1>2, OwnershipAssumption DEF PreserveOwners, TablesOK
  <2>2. routes' \in {routes, Upserted(ks, a, clock + 1)}
    BY <1>2 DEF PreserveOwners
  <2> QED
    BY <2>1, <2>2, UpsertedOK DEF TablesOK
<1> QED
  BY <1>1, <1>2

(* Whatever ends a connection leaves the routes table well formed.         *)
LEMMA EndTablesOK ==
  ASSUME TablesOK, RegistryInv, NEW c \in Conns, ReleaseAndEnd(c) \/ PreserveAndEnd(c)
  PROVE  routes' \in [Keys -> Row] /\ clock' \in 0..MaxClock
<1>1. handle[c].account \in AccountOrNone
  BY DEF RegistryInv, ClaimsTypeOK, Handle
<1> QED
  BY <1>1, PreserveOwnersOK DEF ReleaseAndEnd, PreserveAndEnd, TablesOK

(* A limit learned from upstream leaves the pool in a known state.         *)
LEMMA LearnedOK ==
  ASSUME TablesOK, NEW a, NEW s,
         \E u \in Learned(a, s) : status' = [status EXCEPT ![a] = u]
  PROVE  status' \in [Accounts -> Statuses]
<1>1. PICK u \in Learned(a, s) : status' = [status EXCEPT ![a] = u]
  OBVIOUS
<1>2. a \in Accounts => u \in Statuses
  BY <1>1 DEF Learned, TablesOK
<1> QED
  BY <1>1, <1>2 DEF TablesOK

(* Every step keeps the routes table, clock and accounts well formed.      *)
LEMMA StepTables ==
  ASSUME OwnershipInv, [Next]_vars
  PROVE  TablesOK'
<1>1. ConnsOK /\ TablesOK /\ RegistryInv
  BY InvParts
<1>2. ASSUME NEW c \in Conns, Placement(c)
      PROVE  TablesOK'
  <2>1. UNCHANGED <<routes, clock, pending>>
    BY <1>2 DEF Placement, ReadThreadOwner, ReadSessionOwner, SelectAccount,
                SelectReplacement, DialFailed, Dialed
  <2>2. CASE UNCHANGED status
    BY <1>1, <2>1, <2>2 DEF TablesOK
  <2>3. CASE DialFailed(c)
    <3>1. CASE UNCHANGED status
      BY <2>2, <3>1
    <3>2. CASE ~UNCHANGED status
      <4>1. PICK s \in Learned(conn[c].target, "cooling")
                        \cup Learned(conn[c].target, "spent") :
               status' = [status EXCEPT ![conn[c].target] = s]
        BY <2>3, <3>2 DEF DialFailed
      <4>2. status' \in [Accounts -> Statuses]
        BY <1>1, <4>1, LearnedOK
      <4> QED
        BY <1>1, <2>1, <4>2 DEF TablesOK
    <3> QED
      BY <3>1, <3>2
  <2> QED
    BY <1>2, <2>2, <2>3 DEF Placement, ReadThreadOwner, ReadSessionOwner,
                            SelectAccount, SelectReplacement, Dialed
<1>3. ASSUME NEW c \in Conns, Relay(c)
      PROVE  TablesOK'
  <2>1. CASE BeginAccept(c) /\ ~ReleaseAndEnd(c)
    <3>1. conn[c].account \in AccountOrNone /\ conn[c].stamp \in 0..MaxClock
      BY <1>1 DEF ConnsOK, Connection
    <3>2. /\ routes' \in {routes, Upserted(conn[c].keys, conn[c].account, conn[c].stamp)}
          /\ UNCHANGED <<clock, status, pending>>
      BY <2>1 DEF BeginAccept
    <3> QED
      BY <1>1, <3>1, <3>2, UpsertedOK DEF TablesOK
  <2>2. CASE Created(c)
    BY <1>1, <2>2, OwnershipAssumption DEF Created, TablesOK
  <2>3. CASE (ReleaseAndEnd(c) \/ PreserveAndEnd(c)) /\ UNCHANGED <<status, pending>>
    BY <1>1, <2>3, EndTablesOK DEF TablesOK
  <2>4. ASSUME NEW kind \in RejectionKinds, Rejected(c, kind)
        PROVE  TablesOK'
    <3>1. status' \in [Accounts -> Statuses]
      <4>1. CASE kind = "rate limited"
        <5>1. \E u \in Learned(conn[c].account, "cooling") :
                  status' = [status EXCEPT ![conn[c].account] = u]
          BY <2>4, <4>1 DEF Rejected
        <5> QED
          BY <1>1, <5>1, LearnedOK
      <4>2. CASE kind = "usage limit"
        <5>1. \E u \in Learned(conn[c].account, "spent") :
                  status' = [status EXCEPT ![conn[c].account] = u]
          BY <2>4, <4>2 DEF Rejected
        <5> QED
          BY <1>1, <5>1, LearnedOK
      <4>3. CASE kind \notin {"rate limited", "usage limit"}
        BY <1>1, <2>4, <4>3 DEF Rejected, TablesOK
      <4> QED
        BY <4>1, <4>2, <4>3
    <3>2. ReleaseAndEnd(c) \/ PreserveAndEnd(c)
      BY <2>4 DEF Rejected
    <3> QED
      BY <1>1, <2>4, <3>1, <3>2, EndTablesOK DEF TablesOK, Rejected
  <2>5. CASE UNCHANGED <<routes, clock, status, pending>>
    BY <1>1, <2>5 DEF TablesOK
  <2> QED
    BY <1>3, <2>1, <2>2, <2>3, <2>4, <2>5
    DEF Relay, StartRelay, SendTurn, Preflight, SwitchAccount, SendSwitched,
        TurnFailed, BeginAccept, EndAccept, Preserved, Close
<1>4. CASE \E a \in Accounts, s \in Statuses : SetStatus(a, s)
  BY <1>1, <1>4 DEF SetStatus, TablesOK
<1>5. ASSUME NEW a \in Accounts, Invalidate(a)
      PROVE  TablesOK'
  <2>1. routes' \in [Keys -> Row] /\ clock' \in 0..MaxClock
    BY <1>1, <1>5, PreserveOwnersOK DEF Invalidate, AccountOrNone
  <2> QED
    BY <1>1, <1>5, <2>1 DEF Invalidate, TablesOK
<1>6. CASE Restart \/ UNCHANGED vars
  BY <1>1, <1>6 DEF Restart, vars, TablesOK
<1> QED
  BY <1>2, <1>3, <1>4, <1>5, <1>6 DEF Next

-----------------------------------------------------------------------------

(* The tables and the idle connections of a fresh server.                  *)
LEMMA InitOwnership == Init => OwnershipInv
<1> SUFFICES ASSUME Init PROVE OwnershipInv
  OBVIOUS
<1>1. RegistryInv
  BY InitRegistry DEF Init
<1>2. TablesOK
  BY OwnershipAssumption DEF Init, TablesOK, Row, AccountOrNone
<1>3. ConnsOK
  BY IdleFact DEF Init, ConnsOK
<1> QED
  BY <1>1, <1>2, <1>3, InvParts

(* The invariant is inductive.                                             *)
LEMMA NextOwnership == OwnershipInv /\ [Next]_vars => OwnershipInv'
<1> SUFFICES ASSUME OwnershipInv, [Next]_vars PROVE OwnershipInv'
  OBVIOUS
<1>1. RegistryInv'
  BY StepRefines, NextRegistry DEF OwnershipInv
<1>2. TablesOK' /\ ConnsOK'
  BY StepTables, StepConns
<1>3. (RegistryInv /\ TablesOK /\ ConnsOK)'
  BY <1>1, <1>2
<1> QED
  BY <1>3, InvParts, PTL

(* In the whole server, whatever interleaving of placements, dials, turns, *)
(* acceptances, invalidations and restarts, the registry's indexes agree   *)
(* and every phase keeps its promise.                                      *)
THEOREM OwnershipCorrect == Spec => []OwnershipInv
<1>1. Init => OwnershipInv
  BY InitOwnership
<1>2. OwnershipInv /\ [Next]_vars => OwnershipInv'
  BY NextOwnership
<1> QED
  BY <1>1, <1>2, PTL DEF Spec

(* The server drives the registry only through the registry's operations:  *)
(* the composition implements RouteClaims.                                 *)
THEOREM OwnershipRefinesClaims == Spec => ClaimsSpec
<1>1. Init => ClaimsInit
  BY DEF Init
<1>2. OwnershipInv /\ [Next]_vars => [ClaimsNext]_claimVars
  BY StepRefines
<1> QED
  BY <1>1, <1>2, OwnershipCorrect, PTL DEF Spec, ClaimsSpec

(* Two sockets of a conversation that are both provisionally placed share  *)
(* one claim and hence one account, in the whole server.                   *)
THEOREM OwnershipOneClaim == Spec => []OneClaimPerConversation
  BY OwnershipRefinesClaims, OneClaimCorrect, PTL

(* In the whole server, unless a first turn switches accounts, every live  *)
(* claim belongs to a connection that will release it.                     *)
THEOREM OwnershipNoOrphan ==
  ASSUME Switchers = {}
  PROVE  Spec => []NoOrphanClaim
<1>1. ClaimsSpec => []NoOrphanClaim
  BY NoOrphanCorrect
<1> QED
  BY <1>1, OwnershipRefinesClaims, PTL

(* In the whole server, unless a first turn switches accounts, a           *)
(* connection that ends or whose response was created takes the claim from *)
(* no joined peer.                                                         *)
THEOREM OwnershipPeersKept ==
  ASSUME Switchers = {}
  PROVE  Spec => DepartureKeepsPeers
<1>1. ClaimsSpec => DepartureKeepsPeers
  BY PeersKept
<1> QED
  BY <1>1, OwnershipRefinesClaims, PTL

-----------------------------------------------------------------------------
(* Claims on accounts whose invalidation has run.                          *)

(* The invalidation of a has run, and nothing brought the account back.    *)
Out(a) == ~Routable(a) /\ a \notin pending

(* The relay of c has still to check the account it moved claim i to.      *)
Awaits(c, i) ==
    /\ In(c, {"switched"}) /\ conn[c].account = claim[i].account
    /\ handle[c].id = i /\ Holds(c)

FinalInv ==
    /\ \A i \in byID : claim[i].account \in Accounts
    /\ \A i \in byID : Out(claim[i].account)
                       => claim[i].refs = 1 /\ \E c \in Conns : Awaits(c, i)

(* A claim that outlives the departure of c keeps its account, and if it   *)
(* counts one reference, that is not the one of c.                         *)
LEMMA Departs ==
  ASSUME RegistryInv, NEW c \in Conns, NEW i \in byID',
         \/ ReleaseClaim(c) \/ PreserveClaim(c)
         \/ \E ks, sw : CommitClaim(c, ks, sw)
  PROVE  /\ i \in byID /\ claim'[i].account = claim[i].account
         /\ claim[i].refs = 1 => /\ claim'[i].refs = 1
                                 /\ ~(handle[c].id = i /\ Holds(c))
<1>1. claim \in [ClaimIds -> Claim] /\ byID \subseteq ClaimIds
  BY DEF RegistryInv, ClaimsTypeOK
<1>2. CASE ~Holds(c)
  BY <1>2 DEF ReleaseClaim, PreserveClaim, CommitClaim
<1> DEFINE n == handle[c].id
<1>3. CASE Holds(c) /\ ReleaseClaim(c)
  <2>1. CASE claim[n].refs = 1
    BY <1>1, <1>3, <2>1 DEF ReleaseClaim, RemoveClaims
  <2>2. CASE claim[n].refs # 1
    <3>1. byID' = byID /\ claim' = [claim EXCEPT ![n].refs = @ - 1]
      BY <1>3, <2>2 DEF ReleaseClaim
    <3> HIDE DEF n
    <3>2. /\ \A j \in ClaimIds : claim'[j].account = claim[j].account
          /\ \A j \in ClaimIds \ {n} : claim'[j] = claim[j]
      BY <1>1, <3>1 DEF Claim
    <3>3. i \in byID /\ i \in ClaimIds
      BY <1>1, <3>1
    <3> QED
      BY <2>2, <3>2, <3>3 DEF n
  <2> QED
    BY <2>1, <2>2
<1>4. CASE Holds(c) /\ PreserveClaim(c)
  BY <1>1, <1>4 DEF PreserveClaim, RemoveClaims
<1>5. ASSUME Holds(c), NEW ks, NEW sw, CommitClaim(c, ks, sw)
      PROVE  /\ i \in byID /\ claim'[i].account = claim[i].account
             /\ claim[i].refs = 1 => /\ claim'[i].refs = 1
                                     /\ ~(handle[c].id = i /\ Holds(c))
  <2>1. CommitHeldClaim(c, ks, sw)
    BY <1>5 DEF CommitClaim
  <2>2. CASE claim[n].refs = 1
    BY <1>1, <2>1, <2>2 DEF CommitHeldClaim
  <2>3. CASE claim[n].refs # 1
    <3>1. /\ byID' = byID
          /\ claim' = [claim EXCEPT ![n].committed = TRUE, ![n].refs = @ - 1,
                                    ![n].accepted = @ \/ sw]
      BY <2>1, <2>3 DEF CommitHeldClaim
    <3> HIDE DEF n
    <3>2. /\ \A j \in ClaimIds : claim'[j].account = claim[j].account
          /\ \A j \in ClaimIds \ {n} : claim'[j] = claim[j]
      BY <1>1, <3>1 DEF Claim
    <3>3. i \in byID /\ i \in ClaimIds
      BY <1>1, <3>1
    <3> QED
      BY <2>3, <3>2, <3>3 DEF n
  <2> QED
    BY <2>2, <2>3
<1> QED
  BY <1>2, <1>3, <1>4, <1>5

(* A selection leaves claims on other accounts as they are.                *)
LEMMA Joins ==
  ASSUME RegistryInv, NEW c \in Conns, NEW a \in Accounts, NEW i \in byID',
         JoinClaim(c, a) \/ \E p : CreateClaim(c, a, p)
  PROVE  claim'[i].account = a \/ (i \in byID /\ claim'[i] = claim[i])
<1>1. claim \in [ClaimIds -> Claim] /\ byID \subseteq ClaimIds
  BY DEF RegistryInv, ClaimsTypeOK
<1>2. CASE JoinClaim(c, a)
  <2> DEFINE n == FirstClaimOn(c, a)
  <2>1. n \in ClaimIds /\ claim[n].account = a
    BY <1>2, JoinedClaim
  <2>2. byID' = byID /\ claim' = [claim EXCEPT ![n].keys = @ \cup Unclaimed(c),
                                               ![n].refs = @ + 1]
    BY <1>2 DEF JoinClaim
  <2> HIDE DEF n
  <2>3. /\ claim'[n].account = claim[n].account
        /\ \A j \in ClaimIds \ {n} : claim'[j] = claim[j]
    BY <1>1, <2>1, <2>2 DEF Claim
  <2> QED
    BY <1>1, <2>1, <2>2, <2>3
<1>3. ASSUME NEW p, CreateClaim(c, a, p)
      PROVE  claim'[i].account = a \/ (i \in byID /\ claim'[i] = claim[i])
  <2> DEFINE n == next + 1
             new == [account |-> a, priorOwner |-> p, keys |-> RouteKeys(c),
                     refs |-> 1, accepted |-> FALSE, committed |-> FALSE]
  <2>1. n \in ClaimIds
    BY <1>3, RouteAssumption DEF CreateClaim, RegistryInv, ClaimsTypeOK, ClaimIds
  <2>2. byID' = byID \cup {n} /\ claim' = [claim EXCEPT ![n] = new] /\ new.account = a
    BY <1>3 DEF CreateClaim
  <2> HIDE DEF n, new
  <2> QED
    BY <1>1, <2>1, <2>2
<1> QED
  BY <1>2, <1>3

(* The pool never returns an account that is not routable.                 *)
LEMMA PicksRoutable ==
  ASSUME NEW c \in Conns, NEW a \in Picks(c)
  PROVE  Routable(a)
<1> DEFINE kept == FirstOwner(c, Cooling \cup Fresh(c, "available"))
           paying == FirstOwner(c, Fresh(c, "credits"))
<1>1. /\ Cooling \cup Fresh(c, "available") \subseteq {b \in Accounts : status[b] # "out"}
      /\ Fresh(c, "credits") \subseteq {b \in Accounts : status[b] # "out"}
  BY DEF Cooling, Fresh
<1>2. /\ kept # NoAccount => status[kept] # "out"
      /\ paying # NoAccount => status[paying] # "out"
  <2>1. /\ Cooling \cup Fresh(c, "available") \in SUBSET Accounts
        /\ Fresh(c, "credits") \in SUBSET Accounts
    BY DEF Cooling, Fresh
  <2>2. kept \in Cooling \cup Fresh(c, "available") \cup {NoAccount}
    BY <2>1, FirstOwnerFact
  <2>3. paying \in Fresh(c, "credits") \cup {NoAccount}
    BY <2>1, FirstOwnerFact
  <2> QED
    BY <1>1, <2>2, <2>3
<1> HIDE DEF kept, paying
<1>3. Picks(c) = IF kept # NoAccount THEN {kept} \ Cooling
                 ELSE IF Fresh(c, "available") # {} THEN Fresh(c, "available")
                 ELSE IF paying # NoAccount THEN {paying}
                 ELSE Fresh(c, "credits")
  BY DEF Picks, kept, paying
<1> QED
  BY <1>1, <1>2, <1>3 DEF Routable

(* A step of c leaves the other connections and their handles alone.       *)
LEMMA OthersStay ==
  ASSUME OwnershipInv, NEW c \in Conns, Placement(c) \/ Relay(c),
         NEW d \in Conns \ {c}
  PROVE  conn'[d] = conn[d] /\ handle'[d] = handle[d]
<1>1. conn \in [Conns -> Connection] /\ handle \in [Conns -> Handle]
  BY DEF OwnershipInv, StateTypeOK, RegistryInv, ClaimsTypeOK
<1>2. /\ End(c) => conn'[d] = conn[d]
      /\ \A S : Retry(c, S) => conn'[d] = conn[d]
      /\ \A a, q : Place(c, a, q) => conn'[d] = conn[d]
  BY <1>1 DEF End, Retry, Place
<1>3. /\ UNCHANGED claimVars => handle'[d] = handle[d]
      /\ ReleaseClaim(c) => handle'[d] = handle[d]
      /\ PreserveClaim(c) => handle'[d] = handle[d]
      /\ \A a : JoinClaim(c, a) => handle'[d] = handle[d]
      /\ \A a, q : CreateClaim(c, a, q) => handle'[d] = handle[d]
      /\ \A a, q : TransferClaim(c, a, q) => handle'[d] = handle[d]
      /\ \A ks, sw : CommitClaim(c, ks, sw) => handle'[d] = handle[d]
  BY <1>1 DEF claimVars, ReleaseClaim, PreserveClaim, JoinClaim, CreateClaim,
              TransferClaim, CommitClaim, DropHandle
<1>4. /\ ReleaseIfHeld(c) => handle'[d] = handle[d]
      /\ ReleaseSelection(c) => handle'[d] = handle[d]
  BY <1>3 DEF ReleaseIfHeld, ReleaseSelection
<1>5. ReleaseAndEnd(c) \/ PreserveAndEnd(c) => conn'[d] = conn[d] /\ handle'[d] = handle[d]
  BY <1>2, <1>3, <1>4 DEF ReleaseAndEnd, PreserveAndEnd
<1>6. CASE SelectAccount(c) \/ SelectReplacement(c)
  BY <1>2, <1>3, <1>6
  DEF SelectAccount, SelectReplacement, SelectJoin, SelectUnclaimed, SelectCreate,
      SelectRefused
<1>7. CASE ReadThreadOwner(c) \/ ReadSessionOwner(c) \/ DialFailed(c) \/ Dialed(c)
  BY <1>1, <1>2, <1>3, <1>4, <1>7 DEF ReadThreadOwner, ReadSessionOwner, DialFailed, Dialed
<1>8. CASE \/ Preflight(c) \/ TurnFailed(c) \/ Created(c)
           \/ \E portable \in BOOLEAN : SendTurn(c, portable)
  BY <1>1, <1>3, <1>8 DEF SendTurn, Preflight, TurnFailed, Created
<1>9. CASE StartRelay(c) \/ SwitchAccount(c) \/ SendSwitched(c)
  BY <1>1, <1>2, <1>3, <1>5, <1>9 DEF StartRelay, SwitchAccount, SendSwitched
<1>10. CASE BeginAccept(c)
  BY <1>1, <1>3, <1>5, <1>10 DEF BeginAccept
<1>11. CASE EndAccept(c)
  BY <1>1, <1>3, <1>11 DEF EndAccept, ClearBarriers, AcceptSwitch
<1>12. CASE Preserved(c) \/ Close(c) \/ \E kind \in RejectionKinds : Rejected(c, kind)
  BY <1>5, <1>12 DEF Preserved, Close, Rejected
<1> QED
  BY <1>6, <1>7, <1>8, <1>9, <1>10, <1>11, <1>12 DEF Placement, Relay

(* A limit learned from upstream never makes an account unavailable.       *)
LEMMA LearnedKeeps ==
  ASSUME TablesOK, NEW a, NEW s \in {"cooling", "spent"}, NEW u \in Learned(a, s),
         status' = [status EXCEPT ![a] = u], NEW b \in Accounts
  PROVE  status'[b] = "out" => status[b] = "out"
<1>1. u = "out" => status[a] = "out"
  BY DEF Learned, Routable
<1> QED
  BY <1>1 DEF TablesOK

(* A connection makes no account unavailable and ends no invalidation.     *)
LEMMA OutStays ==
  ASSUME OwnershipInv, NEW c \in Conns, Placement(c) \/ Relay(c),
         NEW b \in Accounts, Out(b)'
  PROVE  Out(b)
<1>1. TablesOK
  BY InvParts
<1>2. pending' = pending
  BY DEF Placement, ReadThreadOwner, ReadSessionOwner, SelectAccount, SelectReplacement,
         DialFailed, Dialed, Relay, StartRelay, SendTurn, Preflight, SwitchAccount,
         SendSwitched, TurnFailed, Created, BeginAccept, EndAccept, Rejected, Preserved,
         Close
<1>3. status'[b] = "out" => status[b] = "out"
  <2>1. CASE DialFailed(c)
    BY <1>1, <2>1, LearnedKeeps DEF DialFailed
  <2>2. ASSUME NEW kind \in RejectionKinds, Rejected(c, kind)
        PROVE  status'[b] = "out" => status[b] = "out"
    <3>1. CASE kind = "rate limited"
      BY <1>1, <2>2, <3>1, LearnedKeeps DEF Rejected
    <3>2. CASE kind = "usage limit"
      BY <1>1, <2>2, <3>2, LearnedKeeps DEF Rejected
    <3>3. CASE kind \notin {"rate limited", "usage limit"}
      BY <1>1, <2>2, <3>3 DEF Rejected, TablesOK
    <3> QED
      BY <3>1, <3>2, <3>3
  <2>3. CASE status' = status
    BY <2>3
  <2> QED
    BY <2>1, <2>2, <2>3
    DEF Placement, ReadThreadOwner, ReadSessionOwner, SelectAccount, SelectReplacement,
        Dialed, Relay, StartRelay, SendTurn, Preflight, SwitchAccount, SendSwitched,
        TurnFailed, Created, BeginAccept, EndAccept, Preserved, Close
<1> QED
  BY <1>2, <1>3 DEF Out, Routable

(* What a step of c may do to claim i: leave it where it is, without being *)
(* the relay it waits for; move it to an account that is routable; or      *)
(* become the relay it waits for.                                          *)
Stays(c, i) ==
    /\ i \in byID /\ claim'[i].account = claim[i].account
    /\ claim[i].refs = 1 /\ Out(claim[i].account) => claim'[i].refs = 1 /\ ~Awaits(c, i)

Moves(i) == claim'[i].account \in Accounts /\ status'[claim'[i].account] # "out"

Follows(c, i) ==
    /\ claim'[i].account \in Accounts /\ claim'[i].refs = 1
    /\ conn'[c].phase = "switched" /\ conn'[c].account = claim'[i].account
    /\ handle'[c].id = i /\ handle'[c].account = claim'[i].account

LEMMA Settles ==
  ASSUME OwnershipInv, FinalInv, NEW c \in Conns, Placement(c) \/ Relay(c),
         \A i \in byID' : Stays(c, i) \/ Moves(i) \/ Follows(c, i)
  PROVE  FinalInv'
<1>1. ASSUME NEW i \in byID'
      PROVE  claim'[i].account \in Accounts
  BY <1>1 DEF Stays, Moves, Follows, FinalInv
<1>2. ASSUME NEW i \in byID', Out(claim[i].account)'
      PROVE  claim'[i].refs = 1 /\ \E d \in Conns : Awaits(d, i)'
  <2>1. CASE Moves(i)
    BY <1>2, <2>1 DEF Moves, Out, Routable
  <2>2. CASE Follows(c, i)
    BY <1>2, <2>2 DEF Follows, Awaits, In, Holds
  <2>3. CASE Stays(c, i)
    <3>1. i \in byID /\ claim'[i].account = claim[i].account /\ claim[i].account \in Accounts
      BY <2>3 DEF Stays, FinalInv
    <3>2. Out(claim[i].account)
      <4>1. PICK a \in Accounts : a = claim[i].account
        BY <3>1
      <4>2. claim'[i].account = a
        BY <3>1, <4>1
      <4>3. Out(a)'
        BY <1>2, <4>2 DEF Out, Routable
      <4> QED
        BY <4>1, <4>3, OutStays
    <3>3. claim[i].refs = 1 /\ \E d \in Conns : Awaits(d, i)
      BY <3>1, <3>2 DEF FinalInv
    <3>4. claim'[i].refs = 1 /\ ~Awaits(c, i)
      BY <2>3, <3>2, <3>3 DEF Stays
    <3>5. PICK d \in Conns \ {c} : Awaits(d, i)
      BY <3>3, <3>4
    <3>6. conn'[d] = conn[d] /\ handle'[d] = handle[d]
      BY OthersStay
    <3>7. Awaits(d, i)'
      BY <1>2, <3>1, <3>5, <3>6 DEF Awaits, In, Holds
    <3> QED
      BY <3>4, <3>7
  <2> QED
    BY <1>2, <2>1, <2>2, <2>3
<1> QED
  BY <1>1, <1>2 DEF FinalInv

(* A placement: a selection takes claims on accounts that are routable,    *)
(* and a connection that is not running yet is awaited by no claim.        *)
LEMMA PlacementFinal ==
  ASSUME OwnershipInv, FinalInv, NEW c \in Conns, Placement(c)
  PROVE  FinalInv'
<1>1. RegistryInv
  BY DEF OwnershipInv
<1>2. \A i : ~Awaits(c, i)
  BY DEF Placement, ReadThreadOwner, ReadSessionOwner, SelectAccount, SelectReplacement,
         DialFailed, Dialed, Awaits, In
<1>3. ASSUME UNCHANGED claimVars, NEW i \in byID'
      PROVE  Stays(c, i)
  BY <1>2, <1>3 DEF Stays, claimVars
<1>4. ASSUME ReleaseClaim(c), NEW i \in byID'
      PROVE  Stays(c, i)
  BY <1>1, <1>2, <1>4, Departs DEF Stays
<1>5. ASSUME NEW a \in Picks(c), JoinClaim(c, a) \/ \E q : CreateClaim(c, a, q),
             status' = status, NEW i \in byID'
      PROVE  Stays(c, i) \/ Moves(i)
  <2>1. a \in Accounts /\ status'[a] # "out"
    BY <1>5, PicksFact, PicksRoutable DEF Routable
  <2>2. claim'[i].account = a \/ (i \in byID /\ claim'[i] = claim[i])
    BY <1>1, <1>5, <2>1, Joins
  <2> QED
    BY <1>2, <2>1, <2>2 DEF Stays, Moves
<1>6. ASSUME NEW i \in byID'
      PROVE  Stays(c, i) \/ Moves(i)
  <2>1. CASE SelectAccount(c)
    BY <1>3, <1>5, <1>6, <2>1 DEF SelectAccount, SelectJoin, SelectUnclaimed, SelectCreate,
                                 SelectRefused
  <2>2. CASE SelectReplacement(c)
    BY <1>3, <1>4, <1>6, <2>2 DEF SelectReplacement
  <2>3. CASE ReadThreadOwner(c) \/ ReadSessionOwner(c) \/ DialFailed(c) \/ Dialed(c)
    BY <1>3, <1>4, <1>6, <2>3
    DEF ReadThreadOwner, ReadSessionOwner, DialFailed, Dialed, ReleaseSelection,
        ReleaseIfHeld
  <2> QED
    BY <2>1, <2>2, <2>3 DEF Placement
<1> QED
  BY <1>6, Settles

(* The first-turn switch: the claim follows the relay, alone.              *)
LEMMA SwitchFinal ==
  ASSUME OwnershipInv, FinalInv, NEW c \in Conns, SwitchAccount(c), NEW i \in byID'
  PROVE  Stays(c, i) \/ Follows(c, i)
<1>1. /\ claim \in [ClaimIds -> Claim] /\ byID \subseteq ClaimIds /\ byID' = byID
      /\ handle \in [Conns -> Handle] /\ conn \in [Conns -> Connection]
  BY DEF OwnershipInv, StateTypeOK, RegistryInv, ClaimsTypeOK, SwitchAccount,
         TransferClaim, claimVars
<1>2. ~Awaits(c, i) /\ conn[c].target \in Accounts
  BY DEF SwitchAccount, Awaits, In, OwnershipInv, PhasesSound
<1> DEFINE n == handle[c].id
           a == conn[c].target
<1>3. CASE conn[c].dial = "replacing" /\ Transferable(c)
  <2>1. /\ claim' = [claim EXCEPT ![n].account = a, ![n].priorOwner = conn[c].prior,
                                  ![n].refs = 1]
        /\ handle' = [handle EXCEPT ![c] = [id |-> n, account |-> a]]
        /\ n \in ClaimIds
    <3>1. n \in ClaimIds
      BY <1>1, <1>3 DEF Transferable, Holds
    <3>2. TransferClaim(c, conn[c].target, conn[c].prior)
      BY <1>3 DEF SwitchAccount
    <3> QED
      BY <1>3, <3>1, <3>2 DEF TransferClaim
  <2>2. conn'[c].phase = "switched" /\ conn'[c].account = a
    <3>1. conn' = [conn EXCEPT ![c] = Opened(c, "switched")]
      BY <1>3 DEF SwitchAccount
    <3>2. conn'[c] = Opened(c, "switched")
      BY <1>1, <3>1
    <3>3. Opened(c, "switched").phase = "switched" /\ Opened(c, "switched").account = a
      BY DEF Opened, Idle
    <3> QED
      BY <3>2, <3>3
  <2> HIDE DEF n, a
  <2>3. /\ claim'[n].account = a /\ claim'[n].refs = 1
        /\ \A j \in ClaimIds \ {n} : claim'[j] = claim[j]
    BY <1>1, <2>1 DEF Claim
  <2>4. handle'[c].id = n /\ handle'[c].account = a
    BY <1>1, <2>1
  <2>5. a \in Accounts
    BY <1>2 DEF a
  <2> QED
    BY <1>1, <1>2, <2>2, <2>3, <2>4, <2>5 DEF Stays, Follows
<1>4. CASE ~(conn[c].dial = "replacing" /\ Transferable(c))
  <2>1. claim' = claim
    BY <1>4 DEF SwitchAccount, TransferClaim, claimVars
  <2> QED
    BY <1>1, <1>2, <2>1 DEF Stays
<1> QED
  BY <1>3, <1>4

(* A relay that ends takes a claim that waits for it along; the one that   *)
(* sends the turn after a switch is on an account that is routable.        *)
LEMMA RelayFinal ==
  ASSUME OwnershipInv, FinalInv, NEW c \in Conns, Relay(c)
  PROVE  FinalInv'
<1>1. RegistryInv
  BY DEF OwnershipInv
<1>2. ASSUME UNCHANGED claimVars, ~In(c, {"switched"}), NEW i \in byID'
      PROVE  Stays(c, i)
  BY <1>2 DEF Stays, claimVars, Awaits
<1>3. ASSUME ReleaseClaim(c) \/ PreserveClaim(c) \/ \E ks, sw : CommitClaim(c, ks, sw),
             NEW i \in byID'
      PROVE  Stays(c, i)
  BY <1>1, <1>3, Departs DEF Stays, Awaits
<1>4. ASSUME UNCHANGED claimVars, handle[c] = NoHandle, NEW i \in byID'
      PROVE  Stays(c, i)
  <2>1. i # NoClaim /\ i \in byID /\ claim' = claim
    BY <1>1, <1>4 DEF RegistryInv, ClaimsTypeOK, ClaimIds, NoClaim, claimVars
  <2>2. ~Awaits(c, i)
    BY <1>4, <2>1 DEF Awaits, NoHandle
  <2> QED
    BY <2>1, <2>2 DEF Stays
<1>5. ASSUME ReleaseAndEnd(c) \/ PreserveAndEnd(c), NEW i \in byID'
      PROVE  Stays(c, i)
  BY <1>3, <1>4, <1>5 DEF ReleaseAndEnd, PreserveAndEnd, ReleaseIfHeld
<1>6. ASSUME NEW i \in byID'
      PROVE  Stays(c, i) \/ Follows(c, i)
  <2>1. CASE StartRelay(c)
    BY <1>2, <1>5, <1>6, <2>1 DEF StartRelay, In
  <2>2. CASE \/ \E portable \in BOOLEAN : SendTurn(c, portable)
             \/ Preflight(c) \/ TurnFailed(c) \/ Created(c)
    BY <1>2, <1>6, <2>2 DEF SendTurn, Preflight, TurnFailed, Created, In
  <2>3. CASE SwitchAccount(c)
    BY <1>6, <2>3, SwitchFinal
  <2>4. CASE SendSwitched(c)
    <3>1. CASE Routable(conn[c].account) /\ UNCHANGED claimVars
      <4>1. i \in byID /\ claim' = claim
        BY <1>6, <3>1 DEF claimVars
      <4>2. Awaits(c, i) => ~Out(claim[i].account)
        BY <3>1 DEF Awaits, Out
      <4> QED
        BY <4>1, <4>2 DEF Stays
    <3> QED
      BY <1>5, <1>6, <2>4, <3>1 DEF SendSwitched
  <2>5. CASE BeginAccept(c)
    BY <1>2, <1>5, <1>6, <2>5 DEF BeginAccept, In
  <2>6. CASE EndAccept(c)
    <3>1. ~In(c, {"switched"})
      BY <2>6 DEF EndAccept, In
    <3>2. CASE AcceptSwitch(c)
      <4>1. /\ claim \in [ClaimIds -> Claim] /\ byID \subseteq ClaimIds /\ byID' = byID
            /\ claim' = [claim EXCEPT ![handle[c].id].accepted = TRUE]
        BY <1>1, <3>2 DEF AcceptSwitch, RegistryInv, ClaimsTypeOK
      <4>2. claim'[i].account = claim[i].account /\ claim'[i].refs = claim[i].refs
        BY <1>6, <4>1 DEF Claim
      <4> QED
        BY <1>6, <3>1, <4>1, <4>2 DEF Stays, Awaits
    <3>3. CASE ClearBarriers(conn[c].keys)
      BY <1>6, <3>1, <3>3 DEF ClearBarriers, Stays, Awaits
    <3> QED
      BY <1>2, <1>3, <1>6, <2>6, <3>1, <3>2, <3>3 DEF EndAccept
  <2>7. CASE Preserved(c) \/ Close(c) \/ \E kind \in RejectionKinds : Rejected(c, kind)
    BY <1>5, <1>6, <2>7 DEF Preserved, Close, Rejected
  <2> QED
    BY <2>1, <2>2, <2>3, <2>4, <2>5, <2>6, <2>7 DEF Relay
<1> QED
  BY <1>6, Settles

(* Every step keeps the invariant; an invalidation by removing the claims. *)
LEMMA NextFinal ==
  ASSUME OwnershipInv, FinalInv, [Next]_vars
  PROVE  FinalInv'
<1>1. ASSUME UNCHANGED <<claimVars, conn>>, \A a \in Accounts : Out(a)' => Out(a)
      PROVE  FinalInv'
  <2>1. ASSUME NEW i \in byID', Out(claim[i].account)'
        PROVE  claim'[i].refs = 1 /\ \E d \in Conns : Awaits(d, i)'
    <3>1. i \in byID /\ claim' = claim
      BY <1>1, <2>1 DEF claimVars
    <3>2. PICK a \in Accounts : a = claim[i].account
      BY <3>1 DEF FinalInv
    <3>3. Out(a)'
      BY <2>1, <3>1, <3>2 DEF Out, Routable
    <3>4. claim[i].refs = 1 /\ \E d \in Conns : Awaits(d, i)
      BY <1>1, <3>1, <3>2, <3>3 DEF FinalInv
    <3>5. \A d : Awaits(d, i) => Awaits(d, i)'
      BY <1>1 DEF Awaits, In, Holds, claimVars
    <3> QED
      BY <3>1, <3>4, <3>5
  <2>2. \A i \in byID' : claim'[i].account \in Accounts
    BY <1>1 DEF FinalInv, claimVars
  <2> QED
    BY <2>1, <2>2 DEF FinalInv
<1>2. CASE \E c \in Conns : Placement(c) \/ Relay(c)
  BY <1>2, PlacementFinal, RelayFinal
<1>3. ASSUME NEW a \in Accounts, NEW s \in Statuses, SetStatus(a, s)
      PROVE  FinalInv'
  <2>1. status \in [Accounts -> Statuses]
    BY DEF OwnershipInv, StateTypeOK
  <2>2. \A b \in Accounts : Out(b)' => Out(b)
    BY <1>3, <2>1 DEF SetStatus, Out, Routable
  <2> QED
    BY <1>1, <1>3, <2>2 DEF SetStatus
<1>4. ASSUME NEW a \in Accounts, Invalidate(a)
      PROVE  FinalInv'
  <2>1. /\ byID' = {i \in byID : claim[i].account # a}
        /\ \A i \in byID' : claim'[i] = claim[i]
        /\ handle' = handle /\ conn' = conn /\ status' = status
        /\ pending' = pending \ {a}
    BY <1>4 DEF Invalidate, InvalidateClaims, RemoveClaims, ClaimsOn, OwnershipInv,
                RegistryInv, ClaimsTypeOK
  <2>2. ASSUME NEW i \in byID', Out(claim[i].account)'
        PROVE  claim'[i].refs = 1 /\ \E d \in Conns : Awaits(d, i)'
    <3>1. i \in byID /\ claim'[i] = claim[i] /\ claim[i].account # a
      BY <2>1, <2>2
    <3>2. Out(claim[i].account)
      BY <2>1, <2>2, <3>1 DEF Out, Routable
    <3>3. claim[i].refs = 1 /\ \E d \in Conns : Awaits(d, i)
      BY <3>1, <3>2 DEF FinalInv
    <3>4. \A d : Awaits(d, i) => Awaits(d, i)'
      BY <2>1, <2>2, <3>1 DEF Awaits, In, Holds
    <3> QED
      BY <3>1, <3>3, <3>4
  <2> QED
    BY <2>1, <2>2 DEF FinalInv
<1>5. CASE Restart
  BY <1>5 DEF Restart, RestartClaims, FinalInv
<1>6. CASE UNCHANGED vars
  BY <1>1, <1>6 DEF vars, claimVars, Out, Routable
<1> QED
  BY <1>2, <1>3, <1>4, <1>5, <1>6 DEF Next

(* In the whole server, once the invalidation of an unavailable account    *)
(* has run, the only claims on it are those that a first-turn switch moved *)
(* there, each counts that one relay, and the relay has its check ahead.   *)
THEOREM OwnershipFinal == Spec => []InvalidationIsFinal
<1>1. Init => FinalInv
  BY DEF Init, ClaimsInit, FinalInv
<1>2. OwnershipInv /\ FinalInv /\ [Next]_vars => (OwnershipInv /\ FinalInv)'
  BY NextOwnership, NextFinal
<1>3. FinalInv => InvalidationIsFinal
  BY DEF FinalInv, InvalidationIsFinal, Out, Awaits
<1> QED
  BY <1>1, <1>2, <1>3, InitOwnership, PTL DEF Spec

-----------------------------------------------------------------------------
(* The acceptance, which holds routeOwnership over several steps.          *)

(* One connection at a time is inside acceptResponseRoute; its claim, if   *)
(* it has one, is still active; and SQLite has its route or a newer one.   *)
AcceptInv ==
    /\ \A c, d \in Conns : In(c, {"accepting"}) /\ In(d, {"accepting"}) => c = d
    /\ \A c \in Conns : In(c, {"accepting"}) => Active(c)
    /\ \A c \in Conns : In(c, {"accepting"}) /\ conn[c].persisted =>
          \A k \in conn[c].keys : \/ routes[k].account = conn[c].account
                                 \/ routes[k].at > conn[c].stamp

(* The only way in is BeginAccept and the only way out EndAccept.          *)
LEMMA InAndOut ==
  ASSUME OwnershipInv, NEW d \in Conns, Placement(d) \/ Relay(d)
  PROVE  /\ In(d, {"accepting"}) => EndAccept(d)
         /\ conn'[d].phase = "accepting" => BeginAccept(d) /\ ~ReleaseAndEnd(d)
<1>1. conn \in [Conns -> Connection]
  BY DEF OwnershipInv, StateTypeOK
<1>2. /\ End(d) => conn'[d].phase # "accepting"
      /\ \A S : Retry(d, S) => conn'[d].phase # "accepting"
      /\ \A a, q : Place(d, a, q) => conn'[d].phase # "accepting"
      /\ \A ph : Opened(d, ph).phase = ph
  <2>1. \A r \in Connection : r.phase # "accepting" =>
            (conn' = [conn EXCEPT ![d] = r] => conn'[d].phase # "accepting")
    BY <1>1
  <2>2. conn[d] \in Connection
    BY <1>1
  <2>3. End(d) => conn'[d].phase # "accepting"
    BY <2>1, IdleFact DEF End, Idle
  <2>4. \A S : Retry(d, S) => conn'[d].phase # "accepting"
    BY <1>1, <2>2 DEF Retry, Connection
  <2>5. \A a, q : Place(d, a, q) => conn'[d].phase # "accepting"
    BY <1>1, <2>2 DEF Place, Connection
  <2>6. \A ph : Opened(d, ph).phase = ph
    BY DEF Opened, Idle
  <2> QED
    BY <2>3, <2>4, <2>5, <2>6
<1>3. CASE Placement(d)
  <2>1. ~In(d, {"accepting"})
    BY <1>3 DEF Placement, ReadThreadOwner, ReadSessionOwner, SelectAccount,
                SelectReplacement, DialFailed, Dialed, In
  <2>2. conn'[d].phase # "accepting"
    <3>1. CASE ReadThreadOwner(d)
      BY <1>1, <3>1 DEF ReadThreadOwner, Idle
    <3>2. CASE ReadSessionOwner(d)
      BY <1>1, <3>2 DEF ReadSessionOwner, Connection
    <3>3. CASE SelectAccount(d) \/ SelectReplacement(d)
      BY <1>2, <3>3 DEF SelectAccount, SelectReplacement, SelectJoin, SelectUnclaimed,
                        SelectCreate
    <3>4. CASE DialFailed(d) \/ Dialed(d)
      BY <1>1, <1>2, <3>4 DEF DialFailed, Dialed, Connection
    <3> QED
      BY <1>3, <3>1, <3>2, <3>3, <3>4 DEF Placement
  <2> QED
    BY <2>1, <2>2
<1>4. CASE BeginAccept(d)
  BY <1>2, <1>4 DEF BeginAccept, ReleaseAndEnd, In
<1>5. CASE EndAccept(d)
  BY <1>1, <1>5 DEF EndAccept, Connection
<1>6. CASE Relay(d) /\ ~BeginAccept(d) /\ ~EndAccept(d)
  <2>1. ~In(d, {"accepting"})
    BY <1>6 DEF Relay, StartRelay, SendTurn, Preflight, SwitchAccount, SendSwitched,
                TurnFailed, Created, Rejected, Preserved, Close, In, Phases
  <2>2. conn'[d].phase # "accepting"
    <3>1. CASE \/ \E portable \in BOOLEAN : SendTurn(d, portable)
               \/ Preflight(d) \/ TurnFailed(d) \/ Created(d)
      BY <1>1, <3>1 DEF SendTurn, Preflight, TurnFailed, Created, Connection
    <3>2. CASE StartRelay(d) \/ SwitchAccount(d) \/ SendSwitched(d)
      BY <1>1, <1>2, <3>2 DEF StartRelay, SwitchAccount, SendSwitched, ReleaseAndEnd,
                              PreserveAndEnd, Connection
    <3>3. CASE Preserved(d) \/ Close(d) \/ \E kind \in RejectionKinds : Rejected(d, kind)
      BY <1>2, <3>3 DEF Preserved, Close, Rejected, ReleaseAndEnd, PreserveAndEnd
    <3> QED
      BY <1>6, <3>1, <3>2, <3>3 DEF Relay
  <2> QED
    BY <2>1, <2>2
<1> QED
  BY <1>3, <1>4, <1>5, <1>6 DEF Relay

(* What another connection may do to the registry while routeOwnership is  *)
(* held: join, create or release.                                          *)
Quiet(d) ==
    \/ UNCHANGED claimVars
    \/ ReleaseClaim(d)
    \/ \E a \in Accounts : JoinClaim(d, a) \/ \E q \in AccountOrNone : CreateClaim(d, a, q)

LEMMA WhileHeld ==
  ASSUME OwnershipInv, ~OwnershipFree, NEW d \in Conns, ~In(d, {"accepting"}),
         Placement(d) \/ Relay(d)
  PROVE  Quiet(d) /\ routes' = routes /\ barriers' = barriers
<1>1. ASSUME Quiet(d)
      PROVE  barriers' = barriers
  BY <1>1 DEF Quiet, claimVars, ReleaseClaim, JoinClaim, CreateClaim
<1>2. /\ ReleaseIfHeld(d) => Quiet(d)
      /\ ReleaseSelection(d) => Quiet(d)
      /\ ReleaseAndEnd(d) => Quiet(d) /\ routes' = routes
      /\ PreserveAndEnd(d) => Quiet(d) /\ routes' = routes
  BY DEF ReleaseIfHeld, ReleaseSelection, ReleaseAndEnd, PreserveAndEnd, Quiet
<1>3. CASE SelectAccount(d)
  BY <1>1, <1>3, PicksFact DEF SelectAccount, SelectJoin, SelectUnclaimed, SelectCreate,
                               SelectRefused, Quiet
<1>4. CASE \/ SelectReplacement(d) \/ ReadThreadOwner(d) \/ ReadSessionOwner(d)
           \/ DialFailed(d) \/ Dialed(d)
  BY <1>1, <1>2, <1>4 DEF SelectReplacement, ReadThreadOwner, ReadSessionOwner, DialFailed,
                          Dialed, Quiet
<1>5. CASE \/ \E portable \in BOOLEAN : SendTurn(d, portable)
           \/ Preflight(d) \/ TurnFailed(d) \/ Created(d)
  BY <1>1, <1>5 DEF SendTurn, Preflight, TurnFailed, Created, Quiet
<1>6. CASE StartRelay(d) \/ SwitchAccount(d) \/ SendSwitched(d)
  BY <1>1, <1>2, <1>6 DEF StartRelay, SwitchAccount, SendSwitched, Quiet
<1>7. CASE BeginAccept(d) \/ EndAccept(d)
  BY <1>7 DEF BeginAccept, EndAccept
<1>8. CASE Preserved(d) \/ Close(d) \/ \E kind \in RejectionKinds : Rejected(d, kind)
  BY <1>1, <1>2, <1>8 DEF Preserved, Close, Rejected
<1> QED
  BY <1>3, <1>4, <1>5, <1>6, <1>7, <1>8 DEF Placement, Relay

(* None of that takes the claim from the connection that holds it.         *)
LEMMA ActiveKept ==
  ASSUME RegistryInv, CountInv, NEW d \in Conns, Quiet(d),
         NEW c \in Conns \ {d}, Active(c)
  PROVE  Active(c)'
<1>1. CASE UNCHANGED claimVars
  BY <1>1 DEF claimVars, Active, Holds
<1>2. CASE ReleaseClaim(d)
  <2>1. handle'[c] = handle[c]
    BY <1>2 DEF ReleaseClaim, DropHandle, RegistryInv, ClaimsTypeOK
  <2> QED
    BY <1>2, <2>1, DepartCounts DEF Active
<1>3. ASSUME NEW a \in Accounts,
             JoinClaim(d, a) \/ \E q \in AccountOrNone : CreateClaim(d, a, q)
      PROVE  Active(c)'
  <2>1. handle'[c] = handle[c] /\ byID \subseteq byID'
    BY <1>3 DEF JoinClaim, CreateClaim, RegistryInv, ClaimsTypeOK
  <2>2. ASSUME Holds(c)
        PROVE  claim'[handle[c].id].account = claim[handle[c].id].account
    <3>1. handle[c].id \in byID'
      BY <2>1, <2>2 DEF Holds
    <3>2. \/ claim'[handle[c].id].account = a
          \/ claim'[handle[c].id] = claim[handle[c].id]
      BY <1>3, <3>1, Joins
    <3>3. CASE JoinClaim(d, a)
      <4> DEFINE n == FirstClaimOn(d, a)
      <4>1. n \in ClaimIds /\ claim[n].account = a
        BY <3>3, JoinedClaim
      <4>2. claim' = [claim EXCEPT ![n].keys = @ \cup Unclaimed(d), ![n].refs = @ + 1]
        BY <3>3 DEF JoinClaim
      <4> HIDE DEF n
      <4> QED
        BY <2>2, <4>1, <4>2 DEF RegistryInv, ClaimsTypeOK, Claim, Holds
    <3>4. ASSUME NEW q \in AccountOrNone, CreateClaim(d, a, q)
          PROVE  claim'[handle[c].id] = claim[handle[c].id]
      <4>1. next + 1 \notin byID
        BY <3>4, RouteAssumption DEF CreateClaim, RegistryInv, ClaimsTypeOK, IdsIssued,
                                     ClaimIds
      <4> QED
        BY <2>2, <3>4, <4>1 DEF CreateClaim, Holds, RegistryInv, ClaimsTypeOK
    <3> QED
      BY <1>3, <3>3, <3>4
  <2> QED
    BY <2>1, <2>2 DEF Active, Holds
<1> QED
  BY <1>1, <1>2, <1>3 DEF Quiet

(* A commit or a bare clearing removes the barriers of the accepted keys,  *)
(* since the claim is still active; nothing else of a row changes.         *)
LEMMA EndAcceptClears ==
  ASSUME RegistryInv, NEW c \in Conns, EndAccept(c), Active(c)
  PROVE  /\ routes' = routes /\ clock' = clock
         /\ conn[c].persisted => barriers' = ClearedBarriers(conn[c].keys)
         /\ ~conn[c].persisted => barriers' = barriers
<1>1. conn[c].persisted => barriers' = ClearedBarriers(conn[c].keys)
  BY DEF EndAccept, Active, CommitClaim, CommitHeldClaim, ClearBarriers
<1>2. ~conn[c].persisted => barriers' = barriers
  BY DEF EndAccept, AcceptSwitch, claimVars
<1> QED
  BY <1>1, <1>2 DEF EndAccept

(* SQLite has the accepted route, or refused it for a newer one.           *)
LEMMA BeginAcceptStores ==
  ASSUME OwnershipInv, NEW c \in Conns, BeginAccept(c), ~ReleaseAndEnd(c)
  PROVE  /\ Active(c) /\ UNCHANGED <<claimVars, clock>>
         /\ conn'[c].keys = conn[c].keys /\ conn[c].keys \subseteq Keys
         /\ conn'[c].account = conn[c].account /\ conn'[c].stamp = conn[c].stamp
         /\ StoreMayFail = FALSE => conn'[c].persisted
         /\ conn'[c].persisted =>
              routes' = Upserted(conn[c].keys, conn[c].account, conn[c].stamp)
         /\ ~conn'[c].persisted => routes' = routes
<1>1. conn \in [Conns -> Connection]
  BY DEF OwnershipInv, StateTypeOK
<1>2. /\ conn[c] \in Connection /\ conn[c].keys \subseteq Keys
  BY <1>1 DEF Connection
<1>3. PICK stored \in StoreOutcomes :
        /\ conn' = [conn EXCEPT ![c].phase = "accepting", ![c].persisted = stored]
        /\ routes' = IF stored
                     THEN Upserted(conn[c].keys, conn[c].account, conn[c].stamp)
                     ELSE routes
  BY DEF BeginAccept
<1>4. conn'[c] = [conn[c] EXCEPT !.phase = "accepting", !.persisted = stored]
  BY <1>1, <1>3
<1>5. /\ conn'[c].keys = conn[c].keys /\ conn'[c].account = conn[c].account
      /\ conn'[c].stamp = conn[c].stamp /\ conn'[c].persisted = stored
  BY <1>2, <1>4 DEF Connection
<1>6. StoreMayFail = FALSE => stored = TRUE
  BY DEF StoreOutcomes
<1>7. Active(c) /\ UNCHANGED <<claimVars, clock>>
  BY DEF BeginAccept
<1> QED
  BY <1>2, <1>3, <1>5, <1>6, <1>7

(* A row that was written has the account, or a newer timestamp.           *)
LEMMA UpsertedWins ==
  ASSUME TablesOK, NEW ks \in SUBSET Keys, NEW a, NEW at \in 0..MaxClock, NEW k \in ks
  PROVE  Upserted(ks, a, at)[k].account = a \/ Upserted(ks, a, at)[k].at > at
<1>1. routes[k].at \in 0..MaxClock
  BY DEF TablesOK, Row
<1>2. CASE at >= routes[k].at
  BY <1>2 DEF Upserted
<1>3. CASE ~(at >= routes[k].at)
  BY <1>1, <1>3, OwnershipAssumption DEF Upserted
<1> QED
  BY <1>2, <1>3

(* A step of a connection while another one, or none, is accepting.        *)
LEMMA ConnAccept ==
  ASSUME OwnershipInv, CountInv, AcceptInv, NEW d \in Conns, Placement(d) \/ Relay(d)
  PROVE  AcceptInv'
<1>1. RegistryInv /\ TablesOK
  BY InvParts
<1>2. \A c \in Conns \ {d} : conn'[c] = conn[c] /\ handle'[c] = handle[c]
  BY OthersStay
<1>3. CASE In(d, {"accepting"})
  <2>1. \A c \in Conns : ~In(c, {"accepting"})'
    <3>1. conn'[d].phase # "accepting"
      BY <1>3, InAndOut DEF BeginAccept, In
    <3>2. \A c \in Conns \ {d} : ~In(c, {"accepting"})
      BY <1>3 DEF AcceptInv
    <3> QED
      BY <1>2, <3>1, <3>2 DEF In
  <2> QED
    BY <2>1 DEF AcceptInv
<1>4. CASE ~In(d, {"accepting"}) /\ ~OwnershipFree
  <2>1. Quiet(d) /\ routes' = routes
    BY <1>4, WhileHeld
  <2>2. conn'[d].phase # "accepting"
    BY <1>4, InAndOut DEF BeginAccept
  <2>3. \A c \in Conns : In(c, {"accepting"})' => c # d /\ In(c, {"accepting"})
    BY <1>2, <2>2 DEF In
  <2>4. \A c \in Conns : In(c, {"accepting"})' => Active(c)'
    BY <1>1, <2>1, <2>3, ActiveKept DEF AcceptInv
  <2>5. \A c, e \in Conns : In(c, {"accepting"})' /\ In(e, {"accepting"})' => c = e
    BY <2>3 DEF AcceptInv
  <2>6. ASSUME NEW c \in Conns, In(c, {"accepting"})', conn'[c].persisted,
               NEW k \in conn'[c].keys
        PROVE  routes'[k].account = conn'[c].account \/ routes'[k].at > conn'[c].stamp
    <3>1. conn'[c] = conn[c] /\ In(c, {"accepting"})
      BY <1>2, <2>3, <2>6
    <3> QED
      BY <2>1, <2>6, <3>1 DEF AcceptInv
  <2> QED
    BY <2>4, <2>5, <2>6 DEF AcceptInv
<1>5. CASE OwnershipFree
  <2>1. \A c \in Conns : In(c, {"accepting"})' => c = d
    BY <1>2, <1>5 DEF OwnershipFree, In
  <2>2. CASE conn'[d].phase # "accepting"
    BY <2>1, <2>2 DEF AcceptInv, In
  <2>3. CASE conn'[d].phase = "accepting"
    <3>1. BeginAccept(d) /\ ~ReleaseAndEnd(d)
      BY <2>3, InAndOut
    <3>2. Active(d)'
      BY <3>1, BeginAcceptStores DEF Active, Holds, claimVars
    <3>3. ASSUME conn'[d].persisted, NEW k \in conn'[d].keys
          PROVE  routes'[k].account = conn'[d].account \/ routes'[k].at > conn'[d].stamp
      <4>1. /\ routes' = Upserted(conn[d].keys, conn[d].account, conn[d].stamp)
            /\ k \in conn[d].keys /\ conn[d].keys \in SUBSET Keys
            /\ conn'[d].account = conn[d].account /\ conn'[d].stamp = conn[d].stamp
        BY <3>1, <3>3, BeginAcceptStores
      <4>2. conn[d].stamp \in 0..MaxClock
        BY DEF OwnershipInv, StateTypeOK, Connection
      <4> QED
        BY <1>1, <4>1, <4>2, UpsertedWins
    <3> QED
      BY <2>1, <3>2, <3>3 DEF AcceptInv
  <2> QED
    BY <2>2, <2>3
<1> QED
  BY <1>3, <1>4, <1>5

(* Invalidation waits for routeOwnership, and a restart frees it.          *)
LEMMA NextAccept ==
  ASSUME OwnershipInv, CountInv, AcceptInv, [Next]_vars
  PROVE  AcceptInv'
<1>1. CASE \E c \in Conns : Placement(c) \/ Relay(c)
  BY <1>1, ConnAccept
<1>2. CASE UNCHANGED <<claimVars, routes, conn>>
  BY <1>2 DEF AcceptInv, In, Active, Holds, claimVars
<1>3. CASE \E a \in Accounts : Invalidate(a)
  BY <1>3 DEF Invalidate, OwnershipFree, AcceptInv, In
<1>4. CASE Restart
  BY <1>4 DEF Restart, AcceptInv, In, Idle
<1> QED
  BY <1>1, <1>2, <1>3, <1>4 DEF Next, SetStatus, vars, claimVars

(* The invariants of the two theorems below.                               *)
LEMMA AcceptCorrect ==
  ASSUME Switchers = {}
  PROVE  Spec => [](OwnershipInv /\ CountInv /\ AcceptInv)
<1>1. Init => CountInv /\ AcceptInv
  <2>1. ClaimsInit => CountInv
    BY DEF ClaimsInit, CountInv, NoHandle
  <2>2. Init => \A c \in Conns : ~In(c, {"accepting"})
    BY DEF Init, In, Idle
  <2>3. Init => AcceptInv
    BY <2>2 DEF AcceptInv
  <2> QED
    BY <2>1, <2>3 DEF Init
<1>2. /\ OwnershipInv /\ CountInv /\ AcceptInv /\ [Next]_vars
      => (OwnershipInv /\ CountInv /\ AcceptInv)'
  <2>1. OwnershipInv /\ CountInv /\ [Next]_vars => CountInv'
    BY StepRefines, NextCounts DEF OwnershipInv
  <2> QED
    BY <2>1, NextOwnership, NextAccept
<1> QED
  BY <1>1, <1>2, InitOwnership, PTL DEF Spec

(* Unless a first turn switches accounts, a response.created that SQLite   *)
(* recorded takes the route over: whatever joined, left or was preserved   *)
(* meanwhile, no barrier stays on its keys and no older row does.          *)
THEOREM OwnershipTaken ==
  ASSUME Switchers = {}
  PROVE  Spec => AcceptanceTakesRoute
<1>1. OwnershipInv /\ AcceptInv /\ [Next]_vars =>
      [\A c \in Conns :
        conn[c].phase = "accepting" /\ conn[c].persisted /\ conn'[c].phase = "open"
        => \A k \in conn[c].keys :
            /\ barriers'[k] = NoAccount
            /\ \/ routes'[k].account = conn[c].account
               \/ routes'[k].at > conn[c].stamp]_vars
  <2> SUFFICES ASSUME OwnershipInv, AcceptInv, Next, NEW c \in Conns,
                      In(c, {"accepting"}), conn[c].persisted, conn'[c].phase = "open",
                      NEW k \in conn[c].keys
               PROVE  /\ barriers'[k] = NoAccount
                      /\ \/ routes'[k].account = conn[c].account
                         \/ routes'[k].at > conn[c].stamp
    BY DEF In
  <2>1. conn'[c] # conn[c]
    BY DEF In
  <2>2. Placement(c) \/ Relay(c)
    BY <2>1, OthersStay DEF Next, SetStatus, Invalidate, Restart, Idle
  <2>3. EndAccept(c) /\ Active(c) /\ RegistryInv
    BY <2>2, InAndOut DEF AcceptInv, OwnershipInv
  <2>4. routes' = routes /\ barriers' = ClearedBarriers(conn[c].keys)
    BY <2>3, EndAcceptClears
  <2>5. k \in Keys
    BY DEF OwnershipInv, StateTypeOK, Connection
  <2> QED
    BY <2>4, <2>5 DEF AcceptInv, ClearedBarriers
<1>2. Spec => [](OwnershipInv /\ CountInv /\ AcceptInv)
  BY AcceptCorrect
<1> QED
  BY <1>1, <1>2, PTL DEF Spec, AcceptanceTakesRoute

-----------------------------------------------------------------------------
(* Account boundaries.                                                     *)

(* The connection that is accepting has written a route for k that its     *)
(* commit has still to make the barrier of k give way to.                  *)
Superseded(k) ==
    \E c \in Conns : In(c, {"accepting"}) /\ conn[c].persisted /\ k \in conn[c].keys

(* No timestamp is ahead of the clock, so a preservation always writes its *)
(* row; and a barrier is that row until a commit is about to clear it.     *)
BoundaryInv ==
    /\ \A k \in Keys : routes[k].at <= clock
    /\ \A c \in Conns : conn[c].stamp <= clock
    /\ \A k \in Keys : barriers[k] \in {NoAccount, routes[k].account} \/ Superseded(k)

(* A connection keeps its stamp, drops it, or takes the new clock.         *)
LEMMA StampMoves ==
  ASSUME OwnershipInv, NEW d \in Conns, Placement(d) \/ Relay(d)
  PROVE  conn'[d].stamp \in {conn[d].stamp, 0, clock'}
<1>1. conn \in [Conns -> Connection] /\ conn[d] \in Connection
  BY DEF OwnershipInv, StateTypeOK
<1> DEFINE Known == conn'[d].stamp \in {conn[d].stamp, 0, clock'}
<1>2. /\ Idle.stamp = 0 /\ \A ph : Opened(d, ph).stamp = 0
      /\ End(d) => Known
  BY <1>1 DEF Idle, End, Opened
<1>3. /\ \A S : Retry(d, S) => Known
      /\ \A a, q : Place(d, a, q) => Known
  <2>1. ASSUME NEW S, Retry(d, S) PROVE Known
    BY <1>1, <2>1 DEF Retry, Connection
  <2>2. ASSUME NEW a, NEW q, Place(d, a, q) PROVE Known
    BY <1>1, <2>2 DEF Place, Connection
  <2> QED
    BY <2>1, <2>2
<1>4. CASE ReadThreadOwner(d)
  BY <1>1, <1>4 DEF ReadThreadOwner, Idle
<1>5. CASE ReadSessionOwner(d) \/ DialFailed(d) \/ Dialed(d)
  BY <1>1, <1>2, <1>3, <1>5 DEF ReadSessionOwner, DialFailed, Dialed, Connection
<1>6. CASE SelectAccount(d) \/ SelectReplacement(d)
  BY <1>2, <1>3, <1>6 DEF SelectAccount, SelectReplacement, SelectJoin, SelectUnclaimed,
                          SelectCreate
<1>7. CASE \/ \E portable \in BOOLEAN : SendTurn(d, portable)
           \/ Preflight(d) \/ TurnFailed(d) \/ Created(d)
  BY <1>1, <1>7 DEF SendTurn, Preflight, TurnFailed, Created, Connection
<1>8. CASE StartRelay(d) \/ SwitchAccount(d) \/ SendSwitched(d)
  BY <1>1, <1>2, <1>8 DEF StartRelay, SwitchAccount, SendSwitched, ReleaseAndEnd,
                          PreserveAndEnd, Connection
<1>9. CASE BeginAccept(d) \/ EndAccept(d)
  BY <1>1, <1>2, <1>9 DEF BeginAccept, EndAccept, ReleaseAndEnd, Connection
<1>10. CASE Preserved(d) \/ Close(d) \/ \E kind \in RejectionKinds : Rejected(d, kind)
  BY <1>2, <1>10 DEF Preserved, Close, Rejected, ReleaseAndEnd, PreserveAndEnd
<1> QED
  BY <1>4, <1>5, <1>6, <1>7, <1>8, <1>9, <1>10 DEF Placement, Relay

(* A preservation inside routeOwnership writes the rows of its barriers.   *)
LEMMA PreservedDurably ==
  ASSUME TablesOK, BoundaryInv, OwnershipFree, StoreMayFail = FALSE,
         NEW ks \in SUBSET Keys, NEW a, PreserveOwners(ks, a),
         barriers' = [k \in Keys |-> IF k \in ks THEN a ELSE barriers[k]]
  PROVE  /\ clock <= clock' /\ \A k \in Keys : routes'[k].at <= clock'
         /\ \A k \in Keys : barriers'[k] \in {NoAccount, routes'[k].account}
<1>1. /\ \A k \in Keys : barriers[k] \in {NoAccount, routes[k].account}
      /\ \A k \in Keys : routes[k].at \in Nat
      /\ clock \in Nat
  BY OwnershipAssumption DEF BoundaryInv, OwnershipFree, Superseded, TablesOK, Row
<1>2. CASE ks = {}
  BY <1>1, <1>2 DEF PreserveOwners, BoundaryInv
<1>3. CASE ks # {}
  <2>1. clock' = clock + 1 /\ routes' = Upserted(ks, a, clock + 1)
    BY <1>3 DEF PreserveOwners, StoreOutcomes
  <2>2. \A k \in Keys : clock + 1 >= routes[k].at /\ routes[k].at <= clock
    BY <1>1 DEF BoundaryInv
  <2>3. \A k \in Keys : routes'[k] = IF k \in ks THEN [account |-> a, at |-> clock + 1]
                                    ELSE routes[k]
    BY <2>1, <2>2 DEF Upserted
  <2> QED
    BY <1>1, <2>1, <2>2, <2>3
<1> QED
  BY <1>2, <1>3

(* What a step that leaves routeOwnership to its holder changes.           *)
LEMMA Unpreserved ==
  ASSUME OwnershipInv, NEW d \in Conns, Placement(d) \/ Relay(d),
         ~BeginAccept(d), ~EndAccept(d), ~PreserveAndEnd(d)
  PROVE  routes' = routes /\ barriers' = barriers /\ clock' \in {clock, clock + 1}
<1>1. /\ UNCHANGED claimVars => barriers' = barriers
      /\ ReleaseClaim(d) => barriers' = barriers
      /\ \A a : JoinClaim(d, a) => barriers' = barriers
      /\ \A a, q : CreateClaim(d, a, q) \/ TransferClaim(d, a, q) => barriers' = barriers
  BY DEF claimVars, ReleaseClaim, JoinClaim, CreateClaim, TransferClaim
<1>2. /\ ReleaseIfHeld(d) => barriers' = barriers
      /\ ReleaseSelection(d) => barriers' = barriers
      /\ ReleaseAndEnd(d) => barriers' = barriers /\ routes' = routes /\ clock' = clock
  BY <1>1 DEF ReleaseIfHeld, ReleaseSelection, ReleaseAndEnd
<1>3. CASE Placement(d)
  BY <1>1, <1>2, <1>3
  DEF Placement, ReadThreadOwner, ReadSessionOwner, SelectAccount, SelectReplacement,
      SelectJoin, SelectUnclaimed, SelectCreate, SelectRefused, DialFailed, Dialed
<1>4. CASE \/ \E portable \in BOOLEAN : SendTurn(d, portable)
           \/ Preflight(d) \/ TurnFailed(d) \/ Created(d)
  BY <1>1, <1>4 DEF SendTurn, Preflight, TurnFailed, Created
<1>5. CASE StartRelay(d) \/ SwitchAccount(d) \/ SendSwitched(d)
  BY <1>1, <1>2, <1>5 DEF StartRelay, SwitchAccount, SendSwitched
<1>6. CASE Preserved(d) \/ Close(d) \/ \E kind \in RejectionKinds : Rejected(d, kind)
  BY <1>2, <1>6 DEF Preserved, Close, Rejected
<1> QED
  BY <1>3, <1>4, <1>5, <1>6 DEF Relay

(* A step of one connection.                                               *)
LEMMA ConnBoundary ==
  ASSUME StoreMayFail = FALSE, OwnershipInv, AcceptInv, BoundaryInv,
         NEW d \in Conns, Placement(d) \/ Relay(d)
  PROVE  BoundaryInv'
<1>1. RegistryInv /\ TablesOK /\ clock \in Nat /\ \A c \in Conns : conn[c].stamp \in Nat
  BY InvParts, OwnershipAssumption DEF TablesOK, ConnsOK, Connection
<1>2. \A c \in Conns \ {d} : conn'[c] = conn[c]
  BY OthersStay
<1>3. ASSUME clock <= clock', clock' \in Nat
      PROVE  \A c \in Conns : conn'[c].stamp <= clock'
  <2>1. \A c \in Conns : conn[c].stamp <= clock
    BY DEF BoundaryInv
  <2>2. conn'[d].stamp \in {conn[d].stamp, 0, clock'}
    BY StampMoves
  <2>3. conn'[d].stamp <= clock'
    BY <1>1, <1>3, <2>1, <2>2
  <2>4. \A c \in Conns \ {d} : conn'[c].stamp <= clock'
    BY <1>1, <1>2, <1>3, <2>1
  <2> QED
    BY <2>3, <2>4
<1>4. ASSUME NEW k \in Keys, Superseded(k), ~EndAccept(d)
      PROVE  Superseded(k)'
  <2>1. PICK c \in Conns : In(c, {"accepting"}) /\ conn[c].persisted /\ k \in conn[c].keys
    BY <1>4 DEF Superseded
  <2>2. c # d
    BY <1>4, <2>1, InAndOut
  <2> QED
    BY <1>2, <2>1, <2>2 DEF Superseded, In
<1>5. CASE BeginAccept(d) /\ ~ReleaseAndEnd(d)
  <2>1. /\ OwnershipFree /\ clock' = clock /\ barriers' = barriers
        /\ conn[d].keys \in SUBSET Keys /\ conn'[d].keys = conn[d].keys
        /\ conn'[d].persisted
        /\ routes' = Upserted(conn[d].keys, conn[d].account, conn[d].stamp)
    BY <1>5, BeginAcceptStores DEF BeginAccept, claimVars
  <2>2. conn'[d].phase = "accepting"
    BY <1>5 DEF BeginAccept, OwnershipInv, StateTypeOK, Connection
  <2>3. \A k \in conn[d].keys : Superseded(k)'
    BY <2>1, <2>2 DEF Superseded, In
  <2>4. \A k \in Keys \ conn[d].keys : routes'[k] = routes[k]
    BY <2>1 DEF Upserted
  <2>5. \A k \in Keys : routes'[k].at <= clock'
    <3>1. conn[d].stamp <= clock /\ \A k \in Keys : routes[k].at <= clock
      BY DEF BoundaryInv
    <3>2. \A k \in Keys : routes'[k].at \in {conn[d].stamp, routes[k].at}
      BY <2>1 DEF Upserted
    <3> QED
      BY <2>1, <3>1, <3>2
  <2>6. ASSUME NEW k \in Keys
        PROVE  barriers'[k] \in {NoAccount, routes'[k].account} \/ Superseded(k)'
    <3>1. CASE k \in conn[d].keys
      BY <2>3, <3>1
    <3>2. CASE k \notin conn[d].keys
      <4>1. barriers[k] \in {NoAccount, routes[k].account}
        BY <2>1 DEF BoundaryInv, OwnershipFree, Superseded
      <4> QED
        BY <2>1, <2>4, <3>2, <4>1
    <3> QED
      BY <3>1, <3>2
  <2>7. \A c \in Conns : conn'[c].stamp <= clock'
    BY <1>1, <1>3, <2>1
  <2> QED
    BY <2>5, <2>6, <2>7 DEF BoundaryInv
<1>6. CASE EndAccept(d)
  <2>1. In(d, {"accepting"}) /\ Active(d)
    BY <1>6 DEF EndAccept, AcceptInv
  <2>2. /\ routes' = routes /\ clock' = clock
        /\ conn[d].persisted => barriers' = ClearedBarriers(conn[d].keys)
        /\ ~conn[d].persisted => barriers' = barriers
    BY <1>1, <1>6, <2>1, EndAcceptClears
  <2>3. ASSUME NEW k \in Keys
        PROVE  barriers'[k] \in {NoAccount, routes'[k].account}
    <3>1. CASE conn[d].persisted /\ k \in conn[d].keys
      BY <2>2, <3>1 DEF ClearedBarriers
    <3>2. CASE ~(conn[d].persisted /\ k \in conn[d].keys)
      <4>1. ~Superseded(k)
        BY <2>1, <3>2 DEF Superseded, AcceptInv
      <4> QED
        BY <2>2, <3>2, <4>1 DEF BoundaryInv, ClearedBarriers
    <3> QED
      BY <3>1, <3>2
  <2>4. \A c \in Conns : conn'[c].stamp <= clock'
    BY <1>1, <1>3, <2>2
  <2> QED
    BY <2>2, <2>3, <2>4 DEF BoundaryInv
<1>7. CASE PreserveAndEnd(d) /\ handle[d] # NoHandle
  <2>1. /\ OwnershipFree /\ PreserveOwners(PreservedKeys(d), handle[d].account)
        /\ barriers' = [k \in Keys |-> IF k \in PreservedKeys(d)
                                      THEN handle[d].account ELSE barriers[k]]
    BY <1>7 DEF PreserveAndEnd, PreserveClaim
  <2>2. PreservedKeys(d) \in SUBSET Keys
    BY <1>1 DEF PreservedKeys, Holds, RegistryInv, ClaimsTypeOK, Claim
  <2>3. /\ clock <= clock' /\ \A k \in Keys : routes'[k].at <= clock'
        /\ \A k \in Keys : barriers'[k] \in {NoAccount, routes'[k].account}
    BY <1>1, <2>1, <2>2, PreservedDurably
  <2>4. clock' \in Nat
    BY <1>1, <2>1 DEF PreserveOwners
  <2>5. \A c \in Conns : conn'[c].stamp <= clock'
    BY <1>3, <2>3, <2>4
  <2> QED
    BY <2>3, <2>5 DEF BoundaryInv
<1>8. CASE /\ ~EndAccept(d)
           /\ routes' = routes /\ barriers' = barriers /\ clock' \in {clock, clock + 1}
  <2>1. clock <= clock' /\ clock' \in Nat
    BY <1>1, <1>8
  <2>2. \A k \in Keys : routes[k].at \in Nat /\ routes[k].at <= clock
    BY <1>1, OwnershipAssumption DEF BoundaryInv, TablesOK, Row
  <2>3. \A k \in Keys : routes'[k].at <= clock'
    BY <1>1, <1>8, <2>1, <2>2
  <2>4. \A k \in Keys : barriers'[k] \in {NoAccount, routes'[k].account} \/ Superseded(k)'
    BY <1>4, <1>8 DEF BoundaryInv
  <2>5. \A c \in Conns : conn'[c].stamp <= clock'
    BY <1>3, <2>1
  <2> QED
    BY <2>3, <2>4, <2>5 DEF BoundaryInv
<1>9. CASE ~EndAccept(d) /\ (ReleaseAndEnd(d) \/ (PreserveAndEnd(d) /\ handle[d] = NoHandle))
  <2>1. routes' = routes /\ barriers' = barriers /\ clock' = clock
    BY <1>9 DEF ReleaseAndEnd, ReleaseIfHeld, ReleaseClaim, PreserveAndEnd, claimVars
  <2> QED
    BY <1>8, <1>9, <2>1
<1> QED
  BY <1>5, <1>6, <1>7, <1>8, <1>9, Unpreserved

(* Every step.                                                             *)
LEMMA NextBoundary ==
  ASSUME StoreMayFail = FALSE, OwnershipInv, AcceptInv, BoundaryInv, [Next]_vars
  PROVE  BoundaryInv'
<1>1. CASE \E c \in Conns : Placement(c) \/ Relay(c)
  BY <1>1, ConnBoundary
<1>2. CASE UNCHANGED <<claimVars, routes, clock, conn>>
  BY <1>2 DEF BoundaryInv, Superseded, In, claimVars
<1>3. ASSUME NEW a \in Accounts, Invalidate(a)
      PROVE  BoundaryInv'
  <2>1. /\ TablesOK /\ OwnershipFree /\ conn' = conn
        /\ PreserveOwners(InvalidatedKeys(a), a)
        /\ barriers' = [k \in Keys |-> IF k \in InvalidatedKeys(a) THEN a ELSE barriers[k]]
    BY <1>3, InvParts DEF Invalidate, InvalidateClaims
  <2>2. InvalidatedKeys(a) \in SUBSET Keys
    BY DEF InvalidatedKeys, ClaimsOn, OwnershipInv, RegistryInv, ClaimsTypeOK, Claim
  <2>3. /\ clock <= clock' /\ \A k \in Keys : routes'[k].at <= clock'
        /\ \A k \in Keys : barriers'[k] \in {NoAccount, routes'[k].account}
    BY <2>1, <2>2, PreservedDurably
  <2>4. clock \in Nat /\ clock' \in Nat /\ \A c \in Conns : conn[c].stamp \in Nat
    BY <2>1, OwnershipAssumption
    DEF TablesOK, PreserveOwners, OwnershipInv, StateTypeOK, Connection
  <2>5. \A c \in Conns : conn'[c].stamp <= clock'
    BY <2>1, <2>3, <2>4 DEF BoundaryInv
  <2> QED
    BY <2>3, <2>5 DEF BoundaryInv
<1>4. CASE Restart
  <2>1. /\ \A k \in Keys : barriers'[k] = NoAccount
        /\ \A c \in Conns : conn'[c].stamp = 0
        /\ routes' = routes /\ clock' = clock /\ clock \in Nat
    BY <1>4, OwnershipAssumption DEF Restart, RestartClaims, Idle, OwnershipInv, StateTypeOK
  <2> QED
    BY <2>1 DEF BoundaryInv
<1> QED
  BY <1>1, <1>2, <1>3, <1>4 DEF Next, SetStatus, vars, claimVars

(* A connection without a thread has read no owner of one.                 *)
NoThreadOwner == \A c \in Conns : Thread[c] = NoKey => conn[c].thread = NoAccount

LEMMA NextThreadOwner ==
  ASSUME OwnershipInv, NoThreadOwner, [Next]_vars
  PROVE  NoThreadOwner'
<1>1. conn \in [Conns -> Connection]
  BY DEF OwnershipInv, StateTypeOK
<1>2. ASSUME NEW d \in Conns, Placement(d) \/ Relay(d)
      PROVE  conn'[d].thread \in {conn[d].thread, NoAccount, DurableOwner(Thread[d])}
  <2> DEFINE Known == conn'[d].thread \in {conn[d].thread, NoAccount, DurableOwner(Thread[d])}
  <2>1. conn[d] \in Connection
    BY <1>1
  <2>2. /\ Idle.thread = NoAccount /\ \A ph : Opened(d, ph).thread = NoAccount
        /\ End(d) => Known
    BY <1>1 DEF Idle, End, Opened
  <2>3. ASSUME NEW S, Retry(d, S)
        PROVE  Known
    BY <1>1, <2>1, <2>3 DEF Retry, Connection
  <2>4. ASSUME NEW a, NEW q, Place(d, a, q)
        PROVE  Known
    BY <1>1, <2>1, <2>4 DEF Place, Connection
  <2>5. CASE ReadThreadOwner(d)
    BY <1>1, <2>5 DEF ReadThreadOwner, Idle
  <2>6. CASE ReadSessionOwner(d) \/ DialFailed(d) \/ Dialed(d)
    BY <1>1, <2>1, <2>2, <2>3, <2>6 DEF ReadSessionOwner, DialFailed, Dialed, Connection
  <2>7. CASE SelectAccount(d) \/ SelectReplacement(d)
    BY <2>2, <2>4, <2>7 DEF SelectAccount, SelectReplacement, SelectJoin, SelectUnclaimed,
                            SelectCreate
  <2>8. CASE \/ \E portable \in BOOLEAN : SendTurn(d, portable)
             \/ Preflight(d) \/ TurnFailed(d) \/ Created(d)
    BY <1>1, <2>1, <2>8 DEF SendTurn, Preflight, TurnFailed, Created, Connection
  <2>9. CASE StartRelay(d) \/ SwitchAccount(d) \/ SendSwitched(d)
    BY <1>1, <2>1, <2>2, <2>9 DEF StartRelay, SwitchAccount, SendSwitched, ReleaseAndEnd,
                                  PreserveAndEnd, Connection
  <2>10. CASE BeginAccept(d) \/ EndAccept(d)
    BY <1>1, <2>1, <2>2, <2>10 DEF BeginAccept, EndAccept, ReleaseAndEnd, Connection
  <2>11. CASE Preserved(d) \/ Close(d) \/ \E kind \in RejectionKinds : Rejected(d, kind)
    BY <2>2, <2>11 DEF Preserved, Close, Rejected, ReleaseAndEnd, PreserveAndEnd
  <2> QED
    BY <1>2, <2>5, <2>6, <2>7, <2>8, <2>9, <2>10, <2>11 DEF Placement, Relay
<1>3. ASSUME NEW d \in Conns, Placement(d) \/ Relay(d)
      PROVE  NoThreadOwner'
  <2>1. \A c \in Conns \ {d} : conn'[c] = conn[c]
    BY <1>3, OthersStay
  <2>2. Thread[d] = NoKey => conn'[d].thread = NoAccount
    BY <1>2, <1>3 DEF DurableOwner, NoThreadOwner
  <2> QED
    BY <2>1, <2>2 DEF NoThreadOwner
<1>4. CASE Restart
  BY <1>4 DEF Restart, Idle, NoThreadOwner
<1> QED
  BY <1>3, <1>4 DEF Next, SetStatus, Invalidate, vars, NoThreadOwner

(* Where no claim holds a key of the route, a barrier on its strongest key *)
(* is its prior owner.                                                     *)
LEMMA BarrierIsPrior ==
  ASSUME OwnershipInv, NoThreadOwner, NEW c \in Conns, ClaimsFor(c) = {},
         Barrier(RouteKey(c)) # NoAccount
  PROVE  PriorOwner(c) = Barrier(RouteKey(c))
<1> DEFINE b == Barrier(RouteKey(c))
           hits == {n \in 1..6 : Owners(c)[n] \in Accounts}
<1>1. b \in Accounts
  BY RouteAssumption
  DEF Barrier, RouteKey, OwnershipInv, RegistryInv, ClaimsTypeOK, AccountOrNone
<1>2. ClaimOwner(Thread[c]) = NoAccount /\ ClaimOwner(Session[c]) = NoAccount
  BY DEF ClaimOwner, ClaimsFor, RouteKeys
<1>3. ASSUME NEW m \in 1..6, Owners(c)[m] = b,
             \A n \in 1..6 : n < m => Owners(c)[n] = NoAccount
      PROVE  PriorOwner(c) = b
  <2>1. m \in hits /\ \A n \in hits : m <= n
    BY <1>1, <1>3, RouteAssumption
  <2>2. \A n \in hits : (\A k \in hits : n <= k) => n = m
    BY <2>1
  <2>3. m = CHOOSE n \in hits : \A k \in hits : n <= k
    BY <2>1, <2>2
  <2>4. PriorOwner(c) = Owners(c)[CHOOSE n \in hits : \A k \in hits : n <= k]
    BY <2>1 DEF PriorOwner, FirstOwner
  <2> QED
    BY <1>3, <2>3, <2>4
<1>4. CASE Thread[c] # NoKey
  <2>1. Owners(c)[1] = NoAccount /\ Owners(c)[2] = b
    BY <1>2, <1>4 DEF Owners, RouteKey
  <2>2. \A n \in 1..6 : n < 2 => n = 1
    OBVIOUS
  <2> QED
    BY <1>3, <2>1, <2>2
<1>5. CASE Thread[c] = NoKey
  <2>1. conn[c].thread = NoAccount /\ Barrier(Thread[c]) = NoAccount
    BY <1>5 DEF NoThreadOwner, Barrier
  <2>2. /\ Owners(c)[1] = NoAccount /\ Owners(c)[2] = NoAccount /\ Owners(c)[3] = NoAccount
        /\ Owners(c)[4] = NoAccount /\ Owners(c)[5] = b
    BY <1>2, <1>5, <2>1 DEF Owners, RouteKey
  <2>3. \A n \in 1..6 : n < 5 => n \in {1, 2, 3, 4}
    OBVIOUS
  <2> QED
    BY <1>3, <2>2, <2>3
<1> QED
  BY <1>4, <1>5

(* Only a selection places a connection, and without a claim to join it    *)
(* tells it the prior owner it found.                                      *)
LEMMA PlacedKnowing ==
  ASSUME OwnershipInv, NoThreadOwner, Next, NEW c \in Conns, PlacedBy(c),
         ClaimsFor(c) = {}, Barrier(RouteKey(c)) # NoAccount
  PROVE  \/ conn'[c].target = Barrier(RouteKey(c))
         \/ conn'[c].prior \notin {NoAccount, conn'[c].target}
<1>1. conn \in [Conns -> Connection] /\ conn[c] \in Connection
  BY DEF OwnershipInv, StateTypeOK
<1>2. conn[c].phase = "routing" /\ conn'[c].phase = "dialing"
  BY DEF PlacedBy
<1>3. Placement(c) \/ Relay(c)
  BY <1>2, OthersStay DEF Next, SetStatus, Invalidate, Restart, Idle
<1>4. ~End(c)
  BY <1>1, <1>2 DEF End, Idle
<1>5. SelectAccount(c) \/ SelectReplacement(c)
  BY <1>2, <1>3, <1>4
  DEF Placement, ReadThreadOwner, ReadSessionOwner, DialFailed, Dialed, Relay, StartRelay,
      SendTurn, Preflight, SwitchAccount, SendSwitched, TurnFailed, Created, BeginAccept,
      EndAccept, Rejected, Preserved, Close, ReleaseAndEnd, In
<1>6. \E a : Place(c, a, PriorOwner(c))
  BY <1>4, <1>5 DEF SelectAccount, SelectReplacement, SelectJoin, SelectUnclaimed,
                    SelectCreate, JoinClaim
<1>7. PICK a : conn'[c].target = a /\ conn'[c].prior = PriorOwner(c)
  BY <1>1, <1>6 DEF Place, Connection
<1> QED
  BY <1>7, BarrierIsPrior

(* Where SQLite does not fail and no first turn switches accounts, an      *)
(* account boundary holds: whatever acceptances, timestamps and            *)
(* invalidations cross, a barrier is a row that a restart would read       *)
(* again, and the thread's next claim is made by a connection that stays   *)
(* on the account of the barrier or knows that it moved.                   *)
THEOREM BoundariesHold ==
  ASSUME Switchers = {}, StoreMayFail = FALSE
  PROVE  Spec => BarriersHold
<1> DEFINE Inv == OwnershipInv /\ CountInv /\ AcceptInv
<1>1. Spec => []Inv
  BY AcceptCorrect
<1>2. Init => BoundaryInv /\ NoThreadOwner
  <2>1. ASSUME Init PROVE BoundaryInv
    <3>1. /\ clock = 0 /\ \A k \in Keys : routes[k].at = 0 /\ barriers[k] = NoAccount
          /\ \A c \in Conns : conn[c].stamp = 0
      BY <2>1 DEF Init, ClaimsInit, Idle
    <3> QED
      BY <3>1 DEF BoundaryInv
  <2>2. Init => NoThreadOwner
    BY DEF Init, Idle, NoThreadOwner
  <2> QED
    BY <2>1, <2>2
<1>3. Inv /\ BoundaryInv /\ NoThreadOwner /\ [Next]_vars => (BoundaryInv /\ NoThreadOwner)'
  BY NextBoundary, NextThreadOwner
<1>4. BoundaryInv => BarrierIsDurable
  BY DEF BoundaryInv, BarrierIsDurable, OwnershipFree, Superseded
<1>5. /\ Inv /\ BarrierIsDurable' /\ NoThreadOwner /\ [Next]_vars
      => [/\ BarrierIsDurable'
          /\ \A c \in Conns :
               PlacedBy(c) /\ ClaimsFor(c) = {} /\ Barrier(RouteKey(c)) # NoAccount
               => conn'[c].target = Barrier(RouteKey(c))
                  \/ conn'[c].prior \notin {NoAccount, conn'[c].target}]_vars
  BY PlacedKnowing
<1> QED
  BY <1>1, <1>2, <1>3, <1>4, <1>5, PTL DEF Spec, BarriersHold
===========================================================================
