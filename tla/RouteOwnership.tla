--------------------------- MODULE RouteOwnership ---------------------------
(***************************************************************************)
(* Which account owns a conversation, from a connection's first SQLite     *)
(* read to the response.created that makes the route durable.              *)
(*                                                                         *)
(* The module composes the claim registry (RouteClaims) with the account   *)
(* pool's selection (pool.go, logging.go, models.go), the WebSocket dialer *)
(* and relay (websocket_dial.go, websocket_relay.go), the HTTP forwarder   *)
(* (responses_upstream_http.go), the acceptance of a response              *)
(* (responses_accounting.go, responses_routing.go), account invalidation   *)
(* (proxy.go) and the routes table (internal/state/store.go).  Every       *)
(* registry change below is an operator of RouteClaims.                    *)
(*                                                                         *)
(* A connection has at most one turn in flight, and its turns all ask for  *)
(* one model.  The phases of a connection are the points where its         *)
(* goroutine can be overtaken by another one:                              *)
(*   idle       no request (or the request was answered with an error)     *)
(*   reading    the durable owner of the thread was read                   *)
(*   routing    both durable owners are known, no account is selected      *)
(*   dialing    an account is selected, upstream has not answered          *)
(*   ready      upstream answered, the relay has not taken over            *)
(*   switched   the relay moved to the account of the first turn's model   *)
(*   open       relay running, no turn waits for response.created          *)
(*   sent       a turn was written upstream                                *)
(*   created    response.created was read and stamped                      *)
(*   accepting  routeOwnership is held, SQLite was asked to record         *)
(***************************************************************************)
EXTENDS RouteClaims

CONSTANTS
    Serves,        \* Serves[c]: accounts whose catalog carries c's model
    Http,          \* the connections that are HTTP requests
    Statuses,      \* the account states the pool may move through
    StoreMayFail,  \* whether SQLite writes may fail
    MaxClock       \* bound on the timestamps taken

(* What routing can tell about an account: it has included quota; it is in *)
(* cooldown or its quota is unknown; it is spent; only its credits are     *)
(* left; it is paused, signed out, not routable or removed.                *)
AllStatuses == {"available", "cooling", "spent", "credits", "out"}

ASSUME OwnershipAssumption ==
    /\ Serves \in [Conns -> SUBSET Accounts]
    /\ Http \subseteq Conns
    /\ Statuses \subseteq AllStatuses /\ "available" \in Statuses
    /\ StoreMayFail \in BOOLEAN
    /\ MaxClock \in Nat
    /\ Switchers = {c \in Conns \ Http : Serves[c] # Accounts}

VARIABLES
    routes,   \* routes[k]: the row of key k in the routes table
    clock,    \* the last timestamp taken
    status,   \* status[a]: what routing can tell about account a
    pending,  \* accounts that became unavailable and wait for invalidation
    conn      \* conn[c]: the dialer, relay and responseAccount of c

vars == <<next, byID, claim, byKey, barriers, handle,
          routes, clock, status, pending, conn>>

-----------------------------------------------------------------------------

Phases == {"idle", "reading", "routing", "dialing", "ready", "switched", "open",
           "sent", "created", "accepting"}

(* Why a connection is dialing: to be placed, or because the first turn's  *)
(* model needs another account, with a claim to transfer or without one.   *)
Dials == {"first", "replacing", "again"}

Row == [account: AccountOrNone, at: 0..MaxClock]

Connection ==
    [phase: Phases,
     dial: Dials,
     thread: AccountOrNone,    \* durableRouteOwners.thread
     session: AccountOrNone,   \* durableRouteOwners.session
     skip: SUBSET Accounts,    \* responseAccountRouter.skip
     target: AccountOrNone,    \* the account being dialed
     prior: AccountOrNone,     \* routingDecision.priorOwner of the target
     account: AccountOrNone,   \* responseAccount.account
     moved: BOOLEAN,           \* responseAccount.moved
     pinned: BOOLEAN,          \* the first turn was sent
     stamp: 0..MaxClock,       \* acceptedAt
     keys: SUBSET Keys,        \* the thread and session being accepted
     persisted: BOOLEAN]       \* routeAcceptance.persisted

Idle == [phase |-> "idle", dial |-> "first", thread |-> NoAccount,
         session |-> NoAccount, skip |-> {}, target |-> NoAccount,
         prior |-> NoAccount, account |-> NoAccount, moved |-> FALSE,
         pinned |-> FALSE, stamp |-> 0, keys |-> {}, persisted |-> FALSE]

Init ==
    /\ ClaimsInit
    /\ routes = [k \in Keys |-> [account |-> NoAccount, at |-> 0]]
    /\ clock = 0
    /\ status = [a \in Accounts |-> "available"]
    /\ pending = {}
    /\ conn = [c \in Conns |-> Idle]

In(c, phases) == conn[c].phase \in phases

(* No goroutine is inside routeOwnership; the other critical sections of   *)
(* that mutex are single actions.                                          *)
OwnershipFree == \A c \in Conns : ~In(c, {"accepting"})

(* accountRoutable.                                                        *)
Routable(a) == status[a] # "out"

End(c) == conn' = [conn EXCEPT ![c] = Idle]

-----------------------------------------------------------------------------
(* Account selection.                                                      *)

Usable(a) == status[a] \in {"available", "credits"}

(* allowedAccounts: the accounts that carry the model, if one is usable.   *)
Allowed(c) == IF \E a \in Serves[c] : Usable(a) THEN Serves[c] ELSE Accounts

(* A WebSocket is placed before its first turn names a model.              *)
ModelKnown(c) == c \in Http \/ conn[c].dial # "first"

Skipped(c) ==
    conn[c].skip \cup (IF ModelKnown(c) THEN Accounts \ Allowed(c) ELSE {})

ClaimOwner(k) == IF k = NoKey \/ byKey[k] = NoClaim
                 THEN NoAccount ELSE claim[byKey[k]].account
Barrier(k) == IF k = NoKey THEN NoAccount ELSE barriers[k]

(* Mutant of Owners: barriers are not consulted.                           *)
OwnersWithoutBarriers(c) ==
    <<ClaimOwner(Thread[c]), NoAccount, conn[c].thread,
      ClaimOwner(Session[c]), NoAccount, conn[c].session>>

(* The owners of a route, strongest first; NoAccount fills the gaps.       *)
Owners(c) ==
    <<ClaimOwner(Thread[c]), Barrier(Thread[c]), conn[c].thread,
      ClaimOwner(Session[c]), Barrier(Session[c]), conn[c].session>>

(* The strongest owner in S, NoAccount if there is none.                   *)
FirstOwner(c, S) ==
    LET hits == {n \in 1..6 : Owners(c)[n] \in S} IN
    IF hits = {} THEN NoAccount
    ELSE Owners(c)[CHOOSE n \in hits : \A m \in hits : n <= m]

(* routingDecision.priorOwner.                                             *)
PriorOwner(c) == FirstOwner(c, Accounts)

Cooling == {a \in Accounts : status[a] = "cooling"}
Fresh(c, s) == {a \in Accounts \ Skipped(c) : status[a] = s}

(* route: the accounts it may return.  An owner that is spent, exhausted   *)
(* or out is passed over; a cooling one blocks every weaker owner.  Then   *)
(* included quota anywhere goes before credits.  The ranking of fresh      *)
(* accounts is left open.                                                  *)
Picks(c) ==
    LET kept == FirstOwner(c, Cooling \cup Fresh(c, "available"))
        paying == FirstOwner(c, Fresh(c, "credits"))
    IN  IF kept # NoAccount THEN {kept} \ Cooling
        ELSE IF Fresh(c, "available") # {} THEN Fresh(c, "available")
        ELSE IF paying # NoAccount THEN {paying}
        ELSE Fresh(c, "credits")

(* The account's route was retained by SQLite before this dial began.      *)
Durable(c, a) == a \in {conn[c].thread, conn[c].session}

-----------------------------------------------------------------------------
(* A connection is placed: newResponseAccountRouter, then dial or          *)
(* selectHTTPAccount.                                                      *)

DurableOwner(k) == IF k = NoKey THEN NoAccount ELSE routes[k].account

(* The first SQLite read of newResponseAccountRouter.                      *)
ReadThreadOwner(c) ==
    /\ In(c, {"idle"})
    /\ conn' = [conn EXCEPT ![c] = [Idle EXCEPT !.phase = "reading",
                                                !.thread = DurableOwner(Thread[c])]]
    /\ UNCHANGED <<claimVars, routes, clock, status, pending>>

(* The second one.                                                         *)
ReadSessionOwner(c) ==
    /\ In(c, {"reading"})
    /\ conn' = [conn EXCEPT ![c].phase = "routing",
                            ![c].session = DurableOwner(Session[c])]
    /\ UNCHANGED <<claimVars, routes, clock, status, pending>>

(* The selection placed c on account a; a joined claim brings its own      *)
(* prior owner.                                                            *)
Place(c, a, prior) ==
    conn' = [conn EXCEPT ![c].phase = "dialing", ![c].target = a, ![c].prior = prior]

SelectJoin(c) ==
    \E a \in Picks(c) :
        /\ JoinClaim(c, a)
        /\ Place(c, a, claim[FirstClaimOn(c, a)].priorOwner)

(* A durable owner needs no claim, whether or not a claim on another       *)
(* account holds a key; a route without keys never has one.                *)
SelectUnclaimed(c) ==
    \E a \in Picks(c) :
        /\ \A i \in ClaimsFor(c) : claim[i].account # a
        /\ RouteKeys(c) = {} \/ Durable(c, a)
        /\ Place(c, a, PriorOwner(c))
        /\ UNCHANGED claimVars

SelectCreate(c) ==
    \E a \in Picks(c) :
        /\ ~Durable(c, a)
        /\ CreateClaim(c, a, PriorOwner(c))
        /\ Place(c, a, PriorOwner(c))

(* The request is refused: the owner is cooling, a claim on another        *)
(* account is in the way, or no account is left.                           *)
SelectRefused(c) ==
    /\ \/ Picks(c) = {}
       \/ \E a \in Picks(c) :
            /\ ClaimsFor(c) # {}
            /\ \E i \in ClaimsFor(c) : claim[i].account # a
            /\ Durable(c, a) => \E i \in ClaimsFor(c) : claim[i].account = a
    /\ UNCHANGED claimVars

(* claimAccount.  A refused connection ends; so does a relay whose second  *)
(* dial is refused.                                                        *)
SelectAccount(c) ==
    /\ In(c, {"routing"})
    /\ conn[c].dial # "replacing"
    /\ \/ SelectJoin(c)
       \/ SelectUnclaimed(c)
       \/ SelectCreate(c)
       \/ SelectRefused(c) /\ End(c)
    /\ UNCHANGED <<routes, clock, status, pending>>

(* claimReplacement: the claim of c stays in force while another account   *)
(* is dialed.  A claim that was lost, or no other account, closes c.       *)
SelectReplacement(c) ==
    /\ In(c, {"routing"})
    /\ conn[c].dial = "replacing"
    /\ \/ /\ Holds(c)
          /\ \E a \in Picks(c) \ {handle[c].account} : Place(c, a, PriorOwner(c))
          /\ UNCHANGED claimVars
       \/ /\ ~Holds(c) \/ Picks(c) = {} \/ handle[c].account \in Picks(c)
          /\ ReleaseClaim(c)
          /\ End(c)
    /\ UNCHANGED <<routes, clock, status, pending>>

(* Mutant of ReleaseIfHeld: the handle is forgotten, not released.         *)
ForgetHandle(c) ==
    /\ DropHandle(c)
    /\ UNCHANGED <<next, byID, claim, byKey, barriers>>

ReleaseIfHeld(c) ==
    IF handle[c] = NoHandle THEN UNCHANGED claimVars ELSE ReleaseClaim(c)

(* The selection of this attempt gives its claim back; a replacement has   *)
(* none of its own.                                                        *)
ReleaseSelection(c) ==
    IF conn[c].dial = "replacing" THEN UNCHANGED claimVars ELSE ReleaseIfHeld(c)

Retry(c, skipped) ==
    conn' = [conn EXCEPT ![c].phase = "routing", ![c].skip = @ \cup skipped,
                         ![c].target = NoAccount, ![c].prior = NoAccount]

(* rateLimited and markSpent, for an account that is in use.               *)
Learned(a, s) ==
    IF status[a] = "available" \/ (s = "spent" /\ Routable(a))
    THEN {s} \cap Statuses ELSE {status[a]}

(* handleFailure and refreshBeforeDial: upstream refuses the handshake or  *)
(* the credentials cannot be refreshed.  A limit is recorded on the        *)
(* account.  The next attempt skips the account, unless new credentials or *)
(* a new usage snapshot speak for it.                                      *)
DialFailed(c) ==
    /\ In(c, {"dialing"})
    /\ \/ UNCHANGED status
       \/ /\ c \notin Http
          /\ \E s \in Learned(conn[c].target, "cooling")
                   \cup Learned(conn[c].target, "spent") :
                status' = [status EXCEPT ![conn[c].target] = s]
    /\ ReleaseSelection(c)
    /\ \E skipped \in {{}, {conn[c].target}} : Retry(c, skipped)
    /\ UNCHANGED <<routes, clock, pending>>

(* The handshake succeeded: dial checks that the claim and the account     *)
(* survived it.  An HTTP request has no handshake.                         *)
Dialed(c) ==
    /\ In(c, {"dialing"})
    /\ IF c \in Http \/ (Routable(conn[c].target) /\ Active(c))
       THEN /\ conn' = [conn EXCEPT ![c].phase = "ready"]
            /\ UNCHANGED claimVars
       ELSE IF conn[c].dial = "replacing" /\ ~Active(c)
            THEN ReleaseClaim(c) /\ End(c)
            ELSE ReleaseSelection(c) /\ Retry(c, {conn[c].target})
    /\ UNCHANGED <<routes, clock, status, pending>>

-----------------------------------------------------------------------------
(* SQLite, and the preservation of an owner.                               *)

(* Mutant of Upserted: a row once written is never replaced.               *)
InsertedOnce(ks, a, at) ==
    [k \in Keys |-> IF k \in ks /\ routes[k].account = NoAccount
                    THEN [account |-> a, at |-> at] ELSE routes[k]]

(* upsertRouteOwners: a row never goes back to an older timestamp.         *)
Upserted(ks, a, at) ==
    [k \in Keys |-> IF k \in ks /\ at >= routes[k].at
                    THEN [account |-> a, at |-> at] ELSE routes[k]]

StoreOutcomes == IF StoreMayFail THEN BOOLEAN ELSE {TRUE}

(* PreserveRouteOwners with a timestamp taken inside routeOwnership.       *)
PreserveOwners(ks, a) ==
    IF ks = {} THEN UNCHANGED <<routes, clock>>
    ELSE /\ clock < MaxClock
         /\ clock' = clock + 1
         /\ \E stored \in StoreOutcomes :
                routes' = IF stored THEN Upserted(ks, a, clock + 1) ELSE routes

(* preserveResponseOwner, then the connection closes.                      *)
PreserveAndEnd(c) ==
    /\ End(c)
    /\ IF handle[c] = NoHandle
       THEN UNCHANGED <<claimVars, routes, clock>>
       ELSE /\ OwnershipFree
            /\ PreserveClaim(c)
            /\ PreserveOwners(PreservedKeys(c), handle[c].account)

ReleaseAndEnd(c) == ReleaseIfHeld(c) /\ End(c) /\ UNCHANGED <<routes, clock>>

-----------------------------------------------------------------------------
(* The relay.                                                              *)

Opened(c, phase) ==
    [Idle EXCEPT !.phase = phase, !.account = conn[c].target,
                 !.moved = conn[c].prior \notin {NoAccount, conn[c].target}]

(* The start of run, and of forwardHTTPResponse after its selection.       *)
StartRelay(c) ==
    /\ In(c, {"ready"})
    /\ conn[c].dial = "first"
    /\ IF Routable(conn[c].target) /\ Active(c)
       THEN /\ conn' = [conn EXCEPT ![c] = Opened(c, "open")]
            /\ UNCHANGED <<claimVars, routes, clock>>
       ELSE IF c \in Http THEN ReleaseAndEnd(c) ELSE PreserveAndEnd(c)
    /\ UNCHANGED <<status, pending>>

(* The exhausted-account check of handleResponseCreate: a later portable   *)
(* turn stays only when the account's credits are the pool's last resort.  *)
CreditFallback(c) ==
    /\ status[conn[c].account] = "credits"
    /\ conn[c].account \in Allowed(c)
    /\ \A a \in Allowed(c) : status[a] # "available"

(* handleResponseCreate up to writeUpstream on the current account, and    *)
(* the POST of an HTTP request.                                            *)
SendTurn(c, portable) ==
    LET a == conn[c].account IN
    /\ In(c, {"open"})
    /\ conn[c].moved => portable
    /\ IF c \in Http
       THEN ~conn[c].pinned
       ELSE /\ Active(c)
            /\ conn[c].pinned /\ status[a] \in {"spent", "credits"} /\ portable
                  => CreditFallback(c)
            /\ a \in Allowed(c)
            /\ Routable(a)
    /\ conn' = [conn EXCEPT ![c].phase = "sent", ![c].pinned = TRUE]
    /\ UNCHANGED <<claimVars, routes, clock, status, pending>>

(* ensureCompatibleAccount: a portable first turn needs another account.   *)
Preflight(c) ==
    /\ In(c, {"open"})
    /\ c \notin Http
    /\ ~conn[c].pinned
    /\ Active(c)
    /\ conn[c].account \notin Allowed(c)
    /\ conn' = [conn EXCEPT ![c].phase = "reading",
                            ![c].dial = IF handle[c] = NoHandle
                                        THEN "again" ELSE "replacing",
                            ![c].thread = DurableOwner(Thread[c])]
    /\ UNCHANGED <<claimVars, routes, clock, status, pending>>

(* switchAccount.                                                          *)
SwitchAccount(c) ==
    /\ In(c, {"ready"})
    /\ IF conn[c].dial = "replacing"
       THEN /\ OwnershipFree
            /\ TransferClaim(c, conn[c].target, conn[c].prior)
       ELSE conn[c].dial = "again" /\ UNCHANGED claimVars
    /\ IF conn[c].dial = "replacing" /\ ~Transferable(c)
       THEN End(c)
       ELSE conn' = [conn EXCEPT ![c] = Opened(c, "switched")]
    /\ UNCHANGED <<routes, clock, status, pending>>

(* Mutant of SendSwitched: account and claim are not checked again.        *)
SendSwitchedUnchecked(c) ==
    /\ In(c, {"switched"})
    /\ conn' = [conn EXCEPT ![c].phase = "sent", ![c].pinned = TRUE]
    /\ UNCHANGED <<claimVars, routes, clock, status, pending>>

(* The checks after the switch and the write of the turn that asked for it. *)
SendSwitched(c) ==
    /\ In(c, {"switched"})
    /\ IF Routable(conn[c].account) /\ Active(c)
       THEN /\ conn' = [conn EXCEPT ![c].phase = "sent", ![c].pinned = TRUE]
            /\ UNCHANGED <<claimVars, routes, clock>>
       ELSE ReleaseAndEnd(c)
    /\ UNCHANGED <<status, pending>>

(* The turn ends without response.created and without a rejection.         *)
TurnFailed(c) ==
    /\ In(c, {"sent"})
    /\ c \notin Http
    /\ conn' = [conn EXCEPT ![c].phase = "open"]
    /\ UNCHANGED <<claimVars, routes, clock, status, pending>>

(* responseCreated takes its timestamp before it waits for routeOwnership. *)
Created(c) ==
    /\ In(c, {"sent"})
    /\ clock < MaxClock
    /\ clock' = clock + 1
    /\ \E ks \in AcceptedKeySets(c) :
        conn' = [conn EXCEPT ![c].phase = "created", ![c].stamp = clock + 1,
                             ![c].keys = ks]
    /\ UNCHANGED <<claimVars, routes, status, pending>>

(* acceptResponseRoute takes routeOwnership, checks the account and the    *)
(* claim, and asks SQLite to record the route.                             *)
BeginAccept(c) ==
    /\ In(c, {"created"})
    /\ OwnershipFree
    /\ IF Routable(conn[c].account) /\ Active(c)
       THEN /\ \E stored \in StoreOutcomes :
                 /\ conn' = [conn EXCEPT ![c].phase = "accepting", ![c].persisted = stored]
                 /\ routes' = IF stored
                              THEN Upserted(conn[c].keys, conn[c].account, conn[c].stamp)
                              ELSE routes
            /\ UNCHANGED <<claimVars, clock>>
       ELSE ReleaseAndEnd(c)
    /\ UNCHANGED <<status, pending>>

(* acceptResponseRoute marks the switch, commits the claim and unlocks.    *)
EndAccept(c) ==
    /\ In(c, {"accepting"})
    /\ IF conn[c].persisted
       THEN IF handle[c] # NoHandle
            THEN CommitClaim(c, conn[c].keys, conn[c].moved)
            ELSE ClearBarriers(conn[c].keys)
       ELSE IF conn[c].moved /\ Holds(c)
            THEN AcceptSwitch(c)
            ELSE UNCHANGED claimVars
    /\ conn' = [conn EXCEPT ![c].phase = "open", ![c].moved = FALSE, ![c].stamp = 0,
                            ![c].keys = {}, ![c].persisted = FALSE]
    /\ UNCHANGED <<routes, clock, status, pending>>

(* A rejection in the response stream, before or after response.created:   *)
(* the account's limits are recorded and the connection closes.  Capacity  *)
(* rejections preserve the owner; usage and rate limits do so depending on *)
(* what the turn carries.                                                  *)
Rejected(c, kind) ==
    LET a == conn[c].account IN
    /\ In(c, {"sent", "open"}) /\ conn[c].pinned
    /\ \E s \in (CASE kind = "rate limited" -> Learned(a, "cooling")
                   [] kind = "usage limit" -> Learned(a, "spent")
                   [] OTHER -> {status[a]}) :
            status' = [status EXCEPT ![a] = s]
    /\ \/ kind \in {"unauthorized", "rate limited"} /\ ReleaseAndEnd(c)
       \/ kind = "usage limit" /\ c \notin Http /\ ReleaseAndEnd(c)
       \/ kind \in {"capacity", "rate limited"} /\ PreserveAndEnd(c)
       \/ /\ kind = "usage limit"
          /\ c \in Http \/ /\ In(c, {"sent"})
                           /\ \E b \in Allowed(c) \ {a} : status[b] = "available"
          /\ PreserveAndEnd(c)
    /\ UNCHANGED pending

(* The fast-mode policy changed, an HTTP upstream timed out, or the        *)
(* account is not routable when a frame is to be written.                  *)
Preserved(c) ==
    /\ In(c, {"open", "sent", "switched"})
    /\ PreserveAndEnd(c)
    /\ UNCHANGED <<status, pending>>

(* Every other end: the client leaves, a handshake or an upgrade fails, a  *)
(* turn is refused, the socket is told that its account is gone.           *)
Close(c) ==
    /\ In(c, Phases \ {"idle", "created", "accepting"})
    /\ ReleaseAndEnd(c)
    /\ UNCHANGED <<status, pending>>

-----------------------------------------------------------------------------
(* Accounts and the server.                                                *)

(* Usage polls, cooldowns that end, admins and the pool watcher.           *)
SetStatus(a, s) ==
    /\ s # status[a]
    /\ status' = [status EXCEPT ![a] = s]
    /\ pending' = IF s = "out" THEN pending \cup {a} ELSE pending
    /\ UNCHANGED <<claimVars, routes, clock, conn>>

(* invalidateAccountContext.                                               *)
Invalidate(a) ==
    /\ a \in pending
    /\ OwnershipFree
    /\ InvalidateClaims(a)
    /\ PreserveOwners(InvalidatedKeys(a), a)
    /\ pending' = pending \ {a}
    /\ UNCHANGED <<status, conn>>

(* A crash or a restart: SQLite and the accounts survive.                  *)
Restart ==
    /\ RestartClaims
    /\ conn' = [c \in Conns |-> Idle]
    /\ pending' = {}
    /\ UNCHANGED <<routes, clock, status>>

RejectionKinds == {"unauthorized", "rate limited", "usage limit", "capacity"}

Placement(c) ==
    \/ ReadThreadOwner(c) \/ ReadSessionOwner(c) \/ SelectAccount(c)
    \/ SelectReplacement(c) \/ DialFailed(c) \/ Dialed(c)

Relay(c) ==
    \/ StartRelay(c) \/ \E portable \in BOOLEAN : SendTurn(c, portable)
    \/ Preflight(c) \/ SwitchAccount(c) \/ SendSwitched(c)
    \/ TurnFailed(c) \/ Created(c) \/ BeginAccept(c) \/ EndAccept(c)
    \/ \E kind \in RejectionKinds : Rejected(c, kind)
    \/ Preserved(c) \/ Close(c)

Next ==
    \/ \E c \in Conns : Placement(c) \/ Relay(c)
    \/ \E a \in Accounts, s \in Statuses : SetStatus(a, s)
    \/ \E a \in Accounts : Invalidate(a)
    \/ Restart

Spec == Init /\ [][Next]_vars

-----------------------------------------------------------------------------
(* Properties.                                                             *)

(* The state beside the registry has its type, failed writes and crossing  *)
(* timestamps included.                                                    *)
StateTypeOK ==
    /\ routes \in [Keys -> Row]
    /\ clock \in 0..MaxClock
    /\ status \in [Accounts -> Statuses]
    /\ pending \subseteq Accounts
    /\ conn \in [Conns -> Connection]

(* What the phase of a connection promises to the step that leaves it: a   *)
(* dial has an account to transfer the claim to, an acceptance has keys    *)
(* that belong to its route.                                               *)
PhasesSound ==
    \A c \in Conns :
        /\ In(c, {"dialing", "ready"}) => conn[c].target \in Accounts
        /\ In(c, {"created", "accepting"}) => conn[c].keys \in AcceptedKeySets(c)

(* Registry, tables and connections together.                              *)
OwnershipInv == RegistryInv /\ StateTypeOK /\ PhasesSound

(* A barrier in memory is a row in SQLite.                                 *)
BarrierIsDurable ==
    OwnershipFree => \A k \in Keys :
        barriers[k] # NoAccount => routes[k].account = barriers[k]

(* Once the invalidation of an unavailable account has run, no claim on it *)
(* lasts: one that a first-turn switch transferred to it afterwards counts *)
(* the relay that switched alone, and dies in the check which that relay   *)
(* still has to make.                                                      *)
InvalidationIsFinal ==
    \A i \in byID :
        ~Routable(claim[i].account) /\ claim[i].account \notin pending
        => /\ claim[i].refs = 1
           /\ \E c \in Conns :
                /\ In(c, {"switched"}) /\ conn[c].account = claim[i].account
                /\ handle[c].id = i /\ Holds(c)

PlacedBy(c) == conn[c].phase = "routing" /\ conn'[c].phase = "dialing"

(* An account boundary holds.  SQLite keeps it: whatever acceptances,      *)
(* timestamps and invalidations cross, a restart loses none.  And it is    *)
(* respected: a connection that makes the thread's first claim behind it   *)
(* is placed on the account of the barrier or knows that the thread moved, *)
(* so it demands a full replay.  (One that joins a claim inherits what the *)
(* claim knows, route_claims.go:117, and demands what its maker demanded.) *)
BarriersHold ==
    [][/\ BarrierIsDurable'
       /\ \A c \in Conns :
            PlacedBy(c) /\ ClaimsFor(c) = {} /\ Barrier(RouteKey(c)) # NoAccount
            => conn'[c].target = Barrier(RouteKey(c))
               \/ conn'[c].prior \notin {NoAccount, conn'[c].target}]_vars

(* The response.created that SQLite recorded takes the route over: no      *)
(* barrier is left on its keys, and their rows name its account or carry   *)
(* a newer timestamp, whatever ran while it waited for routeOwnership.     *)
AcceptanceTakesRoute ==
    [][\A c \in Conns :
        conn[c].phase = "accepting" /\ conn[c].persisted /\ conn'[c].phase = "open"
        => \A k \in conn[c].keys :
            /\ barriers'[k] = NoAccount
            /\ \/ routes'[k].account = conn[c].account
               \/ routes'[k].at > conn[c].stamp]_vars

(* "A replacement account takes ownership after response.created.  Recovery *)
(* of the old owner's quota leaves the new route in place" (ROUTING.md): a *)
(* row that no barrier marks as a tombstone is an accepted route, and it   *)
(* changes hands at an acceptance, or for a claim that controls the key.   *)
NewOwnerStays ==
    [][\A k \in Keys :
        /\ routes[k].account \notin {NoAccount, routes'[k].account}
        /\ barriers[k] = NoAccount
        => \/ byKey[k] # NoClaim
           \/ \E c \in Conns : conn[c].phase = "created" /\ k \in conn[c].keys]_vars
=============================================================================
