---------------------------- MODULE RouteClaims ----------------------------
(***************************************************************************)
(* The provisional claim registry of internal/app/route_claims.go.         *)
(*                                                                         *)
(* Between a connection's placement and its first response.created, a      *)
(* claim pins the thread and the session of the connection to one account. *)
(* Every operator below is one critical section of routeClaimRegistry.mu.  *)
(* The module is the registry's own contract: the account a selection      *)
(* picks, and when a connection releases, commits, preserves or transfers  *)
(* its handle, are left to the environment (the pick callback and the      *)
(* relay).  RouteOwnership supplies both.                                  *)
(***************************************************************************)
EXTENDS Naturals, FiniteSets

CONSTANTS
    Accounts,   \* account ids
    Keys,       \* thread and session ids, one namespace as in byKey
    Conns,      \* downstream connections (WebSockets and HTTP requests)
    NoAccount,  \* the empty account id
    NoKey,      \* the empty thread or session id
    Thread,     \* Thread[c]: websocketRoute.thread of connection c
    Session,    \* Session[c]: websocketRoute.session of connection c
    Switchers,  \* connections whose first turn may need another account
    MaxClaims,  \* bound on the claims one server process creates
    MaxRefs     \* bound on the reference count of one claim

ASSUME RouteAssumption ==
    /\ NoAccount \notin Accounts
    /\ NoKey \notin Keys
    /\ Thread \in [Conns -> Keys \cup {NoKey}]
    /\ Session \in [Conns -> Keys \cup {NoKey}]
    /\ Switchers \subseteq Conns
    /\ MaxClaims \in Nat
    /\ MaxRefs \in Nat

VARIABLES
    next,      \* id of the newest claim
    byID,      \* ids of the live claims
    claim,     \* claim[i]: the claim with id i (FreeClaim when not live)
    byKey,     \* byKey[k]: id of the claim that holds key k, NoClaim if none
    barriers,  \* barriers[k]: owner left behind by an invalidated claim
    handle     \* handle[c]: the routeClaimHandle of c whose once is unspent

claimVars == <<next, byID, claim, byKey, barriers, handle>>

-----------------------------------------------------------------------------

ClaimIds == 1..MaxClaims
NoClaim == 0
AccountOrNone == Accounts \cup {NoAccount}

Claim == [account: AccountOrNone, priorOwner: AccountOrNone, keys: SUBSET Keys,
          refs: Nat, accepted: BOOLEAN, committed: BOOLEAN]

FreeClaim == [account |-> NoAccount, priorOwner |-> NoAccount, keys |-> {},
              refs |-> 0, accepted |-> FALSE, committed |-> FALSE]

Handle == [id: 0..MaxClaims, account: AccountOrNone]

NoHandle == [id |-> NoClaim, account |-> NoAccount]

(* routeClaimKeys: the nonempty keys of the connection's route.            *)
RouteKeys(c) == {Thread[c], Session[c]} \ {NoKey}

(* websocketRoute.key: the strongest key of the route.                     *)
RouteKey(c) == IF Thread[c] # NoKey THEN Thread[c] ELSE Session[c]

(* The keys a response.created on c may accept.  A route without a thread  *)
(* takes the thread id of the turn's metadata when there is one.           *)
AcceptedKeySets(c) ==
    IF Thread[c] # NoKey
    THEN {RouteKeys(c)}
    ELSE {RouteKeys(c)} \cup {RouteKeys(c) \cup {k} : k \in Keys}

(* The handle still names a live claim on the account it was issued for.   *)
Holds(c) == /\ handle[c].id \in byID
            /\ claim[handle[c].id].account = handle[c].account

(* routeClaimHandle.active: a nil handle is always active.                 *)
Active(c) == handle[c] = NoHandle \/ Holds(c)

-----------------------------------------------------------------------------

ClaimsInit ==
    /\ next = NoClaim
    /\ byID = {}
    /\ claim = [i \in ClaimIds |-> FreeClaim]
    /\ byKey = [k \in Keys |-> NoClaim]
    /\ barriers = [k \in Keys |-> NoAccount]
    /\ handle = [c \in Conns |-> NoHandle]

(* claimsForKeys: the claims that hold a key of c's route.                 *)
ClaimsFor(c) == {byKey[k] : k \in RouteKeys(c)} \ {NoClaim}

(* The claim loop of selectAccount visits the thread's claim first.        *)
FirstClaimOn(c, a) ==
    IF byKey[RouteKey(c)] # NoClaim /\ claim[byKey[RouteKey(c)]].account = a
    THEN byKey[RouteKey(c)]
    ELSE byKey[Session[c]]

Unclaimed(c) == {k \in RouteKeys(c) : byKey[k] = NoClaim}

(* Mutant of Attach: keys that another claim holds are taken over.         *)
AttachAll(c, i) == [k \in Keys |-> IF k \in RouteKeys(c) THEN i ELSE byKey[k]]

(* attachKeys: take the route keys no claim holds yet.                     *)
Attach(c, i) == [k \in Keys |-> IF k \in Unclaimed(c) THEN i ELSE byKey[k]]

(* selectAccount when a claim on the picked account a holds one of the     *)
(* keys and no claim on another account holds the other key: c joins it.   *)
JoinClaim(c, a) ==
    LET i == FirstClaimOn(c, a) IN
    /\ handle[c] = NoHandle
    /\ ClaimsFor(c) # {}
    /\ \A j \in ClaimsFor(c) : claim[j].account = a
    /\ claim[i].refs < MaxRefs
    /\ byKey' = Attach(c, i)
    /\ claim' = [claim EXCEPT ![i].keys = @ \cup Unclaimed(c),
                              ![i].refs = @ + 1]
    /\ handle' = [handle EXCEPT ![c] = [id |-> i, account |-> a]]
    /\ UNCHANGED <<next, byID, barriers>>

(* Mutant of CreateClaim: claims that hold a key are not looked at.        *)
CreateRivalClaim(c, a, prior) ==
    /\ handle[c] = NoHandle
    /\ RouteKeys(c) # {}
    /\ next < MaxClaims
    /\ next' = next + 1
    /\ byID' = byID \cup {next + 1}
    /\ byKey' = Attach(c, next + 1)
    /\ claim' = [claim EXCEPT ![next + 1] =
                    [account |-> a, priorOwner |-> prior, keys |-> RouteKeys(c),
                     refs |-> 1, accepted |-> FALSE, committed |-> FALSE]]
    /\ handle' = [handle EXCEPT ![c] = [id |-> next + 1, account |-> a]]
    /\ UNCHANGED barriers

(* selectAccount when no claim holds a key of the route: a new claim.      *)
CreateClaim(c, a, prior) ==
    /\ handle[c] = NoHandle
    /\ RouteKeys(c) # {}
    /\ ClaimsFor(c) = {}
    /\ next < MaxClaims
    /\ next' = next + 1
    /\ byID' = byID \cup {next + 1}
    /\ byKey' = Attach(c, next + 1)
    /\ claim' = [claim EXCEPT ![next + 1] =
                    [account |-> a, priorOwner |-> prior, keys |-> RouteKeys(c),
                     refs |-> 1, accepted |-> FALSE, committed |-> FALSE]]
    /\ handle' = [handle EXCEPT ![c] = [id |-> next + 1, account |-> a]]
    /\ UNCHANGED barriers

(* detachKeysLocked for a set of claims.                                   *)
Detach(ids) ==
    [k \in Keys |-> IF byKey[k] \in ids /\ k \in claim[byKey[k]].keys
                    THEN NoClaim ELSE byKey[k]]

(* removeLocked for a set of claims.                                       *)
RemoveClaims(ids) ==
    /\ byID' = byID \ ids
    /\ byKey' = Detach(ids)
    /\ claim' = [i \in ClaimIds |-> IF i \in ids THEN FreeClaim ELSE claim[i]]

DropHandle(c) == handle' = [handle EXCEPT ![c] = NoHandle]

(* Mutant of ReleaseClaim: the count is tested before it is lowered.       *)
ReleaseClaimLate(c) ==
    LET i == handle[c].id IN
    /\ handle[c] # NoHandle
    /\ IF ~Holds(c)
       THEN UNCHANGED <<byID, byKey, claim>>
       ELSE IF claim[i].refs = 0
            THEN RemoveClaims({i})
            ELSE /\ claim' = [claim EXCEPT ![i].refs = @ - 1]
                 /\ UNCHANGED <<byID, byKey>>
    /\ DropHandle(c)
    /\ UNCHANGED <<next, barriers>>

(* release: the last reference removes the claim; a handle whose claim is  *)
(* gone or has moved to another account changes nothing.                   *)
ReleaseClaim(c) ==
    LET i == handle[c].id IN
    /\ handle[c] # NoHandle
    /\ IF ~Holds(c)
       THEN UNCHANGED <<byID, byKey, claim>>
       ELSE IF claim[i].refs = 1
            THEN RemoveClaims({i})
            ELSE /\ claim' = [claim EXCEPT ![i].refs = @ - 1]
                 /\ UNCHANGED <<byID, byKey>>
    /\ DropHandle(c)
    /\ UNCHANGED <<next, barriers>>

(* Mutant of ClearedBarriers: barriers outlive the acceptance.             *)
KeptBarriers(ks) == barriers

ClearedBarriers(ks) ==
    [k \in Keys |-> IF k \in ks THEN NoAccount ELSE barriers[k]]

(* Mutants of CommitHeldClaim: a commit that leaves the keys in the index, *)
(* and one that forgets the joined connections.                            *)
CommitKeepsKeys(c, ks, switched) ==
    LET i == handle[c].id IN
    /\ barriers' = ClearedBarriers(ks)
    /\ claim' = [claim EXCEPT ![i].committed = TRUE, ![i].refs = @ - 1]
    /\ byID' = IF claim[i].refs = 1 THEN byID \ {i} ELSE byID
    /\ UNCHANGED byKey

CommitRemovesClaim(c, ks, switched) ==
    /\ barriers' = ClearedBarriers(ks)
    /\ RemoveClaims({handle[c].id})

(* acceptSwitch followed by commit, on a route that SQLite recorded.  The  *)
(* claim gives up all its keys at the first commit and stays in byID, keys *)
(* remembered, while joined connections still hold references.  A handle   *)
(* that lost its claim meanwhile clears no barrier.                        *)
CommitHeldClaim(c, ks, switched) ==
    LET i == handle[c].id IN
    /\ barriers' = ClearedBarriers(ks)
    /\ byKey' = IF claim[i].committed THEN byKey ELSE Detach({i})
    /\ IF claim[i].refs = 1
       THEN /\ byID' = byID \ {i}
            /\ claim' = [claim EXCEPT ![i] = FreeClaim]
       ELSE /\ claim' = [claim EXCEPT ![i].committed = TRUE,
                                      ![i].refs = @ - 1,
                                      ![i].accepted = @ \/ switched]
            /\ UNCHANGED byID

CommitClaim(c, ks, switched) ==
    /\ handle[c] # NoHandle
    /\ IF Holds(c)
       THEN CommitHeldClaim(c, ks, switched)
       ELSE UNCHANGED <<byID, claim, byKey, barriers>>
    /\ DropHandle(c)
    /\ UNCHANGED next

(* acceptSwitch alone: SQLite refused the route, the claim stays.          *)
AcceptSwitch(c) ==
    /\ Holds(c)
    /\ claim' = [claim EXCEPT ![handle[c].id].accepted = TRUE]
    /\ UNCHANGED <<next, byID, byKey, barriers, handle>>

(* clearBarriers, for an accepted connection that holds no claim.          *)
ClearBarriers(ks) ==
    /\ barriers' = ClearedBarriers(ks)
    /\ UNCHANGED <<next, byID, claim, byKey, handle>>

(* The keys preserve returns: the claim's keys, none for a stale handle.   *)
PreservedKeys(c) == IF Holds(c) THEN claim[handle[c].id].keys ELSE {}

(* preserve: the claim's keys become barriers and the claim is removed     *)
(* whatever other references it has.                                       *)
PreserveClaim(c) ==
    /\ handle[c] # NoHandle
    /\ barriers' = [k \in Keys |-> IF k \in PreservedKeys(c)
                                   THEN handle[c].account ELSE barriers[k]]
    /\ IF Holds(c)
       THEN RemoveClaims({handle[c].id})
       ELSE UNCHANGED <<byID, byKey, claim>>
    /\ DropHandle(c)
    /\ UNCHANGED next

Transferable(c) == /\ Holds(c)
                   /\ ~claim[handle[c].id].accepted
                   /\ ~claim[handle[c].id].committed

(* transfer after a model preflight: the claim follows c to account a and  *)
(* counts c alone.  A refused transfer has spent the handle all the same,  *)
(* so the close that follows it releases nothing.                          *)
TransferClaim(c, a, prior) ==
    LET i == handle[c].id IN
    /\ c \in Switchers
    /\ handle[c] # NoHandle
    /\ IF Transferable(c)
       THEN /\ claim' = [claim EXCEPT ![i].account = a,
                                      ![i].priorOwner = prior,
                                      ![i].refs = 1]
            /\ handle' = [handle EXCEPT ![c] = [id |-> i, account |-> a]]
       ELSE /\ DropHandle(c)
            /\ UNCHANGED claim
    /\ UNCHANGED <<next, byID, byKey, barriers>>

(* invalidateAccount: every claim on the account, committed or not.        *)
ClaimsOn(a) == {i \in byID : claim[i].account = a}
InvalidatedKeys(a) == UNION {claim[i].keys : i \in ClaimsOn(a)}

InvalidateClaims(a) ==
    /\ barriers' = [k \in Keys |-> IF k \in InvalidatedKeys(a)
                                   THEN a ELSE barriers[k]]
    /\ RemoveClaims(ClaimsOn(a))
    /\ UNCHANGED <<next, handle>>

(* A restarted server starts with an empty registry and no connections.    *)
RestartClaims ==
    /\ next' = NoClaim
    /\ byID' = {}
    /\ claim' = [i \in ClaimIds |-> FreeClaim]
    /\ byKey' = [k \in Keys |-> NoClaim]
    /\ barriers' = [k \in Keys |-> NoAccount]
    /\ handle' = [c \in Conns |-> NoHandle]

ClaimsNext ==
    \/ \E c \in Conns, a \in Accounts : JoinClaim(c, a)
    \/ \E c \in Conns, a \in Accounts, p \in AccountOrNone : CreateClaim(c, a, p)
    \/ \E c \in Conns : ReleaseClaim(c)
    \/ \E c \in Conns, sw \in BOOLEAN : \E ks \in AcceptedKeySets(c) :
            CommitClaim(c, ks, sw)
    \/ \E c \in Conns : AcceptSwitch(c)
    \/ \E c \in Conns : \E ks \in AcceptedKeySets(c) : ClearBarriers(ks)
    \/ \E c \in Conns : PreserveClaim(c)
    \/ \E c \in Conns, a \in Accounts, p \in AccountOrNone : TransferClaim(c, a, p)
    \/ \E a \in Accounts : InvalidateClaims(a)
    \/ RestartClaims

ClaimsSpec == ClaimsInit /\ [][ClaimsNext]_claimVars

-----------------------------------------------------------------------------
(* Properties.                                                             *)

(* Every registry variable has its type.                                   *)
ClaimsTypeOK ==
    /\ next \in 0..MaxClaims
    /\ byID \in SUBSET ClaimIds
    /\ claim \in [ClaimIds -> Claim]
    /\ byKey \in [Keys -> 0..MaxClaims]
    /\ barriers \in [Keys -> AccountOrNone]
    /\ handle \in [Conns -> Handle]

(* The two indexes of the registry agree: a key leads to a live,           *)
(* uncommitted claim that lists the key, whatever sequence of joins,       *)
(* commits, transfers and invalidations came before.                       *)
KeyIndexConsistent ==
    \A k \in Keys : byKey[k] # NoClaim =>
        /\ byKey[k] \in byID
        /\ ~claim[byKey[k]].committed
        /\ k \in claim[byKey[k]].keys

(* The counters behind the index: a live claim has a reference left, and   *)
(* no claim or handle carries an id that was not issued yet.               *)
IdsIssued ==
    /\ \A i \in byID : i <= next /\ claim[i].refs > 0
    /\ \A c \in Conns : handle[c].id <= next

(* A handle on a live, uncommitted claim, even on the claim's former       *)
(* account, names the claim that its own strongest key leads to.           *)
HandlesFollowKeys ==
    \A c \in Conns :
        /\ handle[c].id \in byID
        /\ ~claim[handle[c].id].committed
        => RouteKey(c) \in Keys /\ byKey[RouteKey(c)] = handle[c].id

(* The registry's inductive invariant: index, counters and handles agree   *)
(* after every critical section of routeClaimRegistry.mu.                  *)
RegistryInv ==
    /\ ClaimsTypeOK
    /\ KeyIndexConsistent
    /\ IdsIssued
    /\ HandlesFollowKeys

(* c is placed, its claim is live and no response.created has committed it. *)
Provisional(c) == Holds(c) /\ ~claim[handle[c].id].committed

(* "Connections for one thread join the same claim": two connections of    *)
(* one conversation whose claims are both undecided share one claim, hence *)
(* one account, however they joined, transferred or retried.               *)
OneClaimPerConversation ==
    \A c, d \in Conns :
        /\ Provisional(c) /\ Provisional(d)
        /\ RouteKey(c) = RouteKey(d)
        => handle[c] = handle[d]

(* A live claim belongs to a connection that will release it: socket       *)
(* closure, failed handshakes and retries give every reference back.       *)
NoOrphanClaim ==
    \A i \in byID : \E c \in Conns : handle[c].id = i /\ Holds(c)

(* A release or a commit by one connection leaves the claims of its joined *)
(* peers active: only invalidation, preservation or a transfer ends them.  *)
DepartureKeepsPeers ==
    [][\A c \in Conns :
        \/ ReleaseClaim(c)
        \/ \E ks \in AcceptedKeySets(c), sw \in BOOLEAN : CommitClaim(c, ks, sw)
        => \A d \in Conns \ {c} : Holds(d) => Holds(d)']_claimVars
=============================================================================
