------------------------- MODULE RouteClaimsProofs -------------------------
(***************************************************************************)
(* The claim registry keeps one claim per conversation, for any number of  *)
(* accounts, keys and connections.  RegistryInv is inductive: it adds to   *)
(* the type and the index the two facts a step needs.  Issued ids stay     *)
(* below next, so a stale handle can never meet a new claim; and a handle  *)
(* on a live undecided claim is reached through its own strongest key, so  *)
(* two handles of one conversation name the same claim.  CountInv adds,    *)
(* for servers in which no first turn switches accounts, that a claim's    *)
(* references are the handles that name it, so none is lost or left over.  *)
(***************************************************************************)
EXTENDS RouteClaims, FiniteSetTheorems, TLAPS

(* The empty handle and the free claim are of their types.                 *)
LEMMA NoHandleType == NoHandle \in Handle /\ FreeClaim \in Claim
  BY RouteAssumption DEF NoHandle, Handle, FreeClaim, Claim, NoClaim, AccountOrNone

(* The strongest key of a route is one of its keys.                        *)
LEMMA RouteKeysFact ==
  ASSUME NEW c \in Conns
  PROVE  /\ RouteKeys(c) \subseteq Keys
         /\ RouteKeys(c) # {} => RouteKey(c) \in RouteKeys(c)
  BY RouteAssumption DEF RouteKeys, RouteKey

(* The empty registry satisfies the invariant.                             *)
LEMMA InitRegistry == ClaimsInit => RegistryInv
  BY RouteAssumption, NoHandleType
  DEF ClaimsInit, RegistryInv, ClaimsTypeOK, KeyIndexConsistent, IdsIssued,
      HandlesFollowKeys, NoClaim, NoHandle, AccountOrNone

(* A restarted server is an initial one.                                   *)
LEMMA RestartRegistry == RestartClaims => RegistryInv'
  BY RouteAssumption, NoHandleType
  DEF RestartClaims, RegistryInv, ClaimsTypeOK, KeyIndexConsistent, IdsIssued,
      HandlesFollowKeys, NoClaim, NoHandle, AccountOrNone

(* The claim that c joins is live, undecided and on the picked account.    *)
LEMMA JoinedClaim ==
  ASSUME RegistryInv, NEW c \in Conns, NEW a \in Accounts, JoinClaim(c, a)
  PROVE  LET i == FirstClaimOn(c, a) IN
         /\ RouteKeys(c) \subseteq Keys
         /\ RouteKey(c) \in RouteKeys(c)
         /\ i \in ClaimsFor(c)
         /\ i \in byID /\ i \in ClaimIds /\ i \in 0..MaxClaims /\ i # NoClaim
         /\ ~claim[i].committed
         /\ claim[i].account = a
<1> DEFINE i == FirstClaimOn(c, a)
<1>1. /\ RouteKeys(c) \subseteq Keys
      /\ RouteKey(c) \in RouteKeys(c)
  <2>1. RouteKeys(c) # {}
    BY DEF JoinClaim, ClaimsFor
  <2> QED
    BY <2>1, RouteKeysFact
<1>2. i \in ClaimsFor(c)
  <2>1. CASE byKey[RouteKey(c)] # NoClaim
    <3>1. byKey[RouteKey(c)] \in ClaimsFor(c)
      BY <1>1, <2>1 DEF ClaimsFor
    <3>2. claim[byKey[RouteKey(c)]].account = a
      BY <3>1 DEF JoinClaim
    <3> QED
      BY <2>1, <3>1, <3>2 DEF FirstClaimOn
  <2>2. CASE byKey[RouteKey(c)] = NoClaim
    <3>1. PICK k \in RouteKeys(c) : byKey[k] # NoClaim
      BY DEF JoinClaim, ClaimsFor
    <3>2. k = Session[c]
      BY <3>1, <2>2 DEF RouteKeys, RouteKey
    <3> QED
      BY <2>2, <3>1, <3>2 DEF FirstClaimOn, ClaimsFor
  <2> QED
    BY <2>1, <2>2
<1>3. /\ i \in byID /\ i \in ClaimIds /\ i \in 0..MaxClaims /\ i # NoClaim
      /\ ~claim[i].committed
      /\ claim[i].account = a
  BY <1>1, <1>2 DEF ClaimsFor, RegistryInv, ClaimsTypeOK, KeyIndexConsistent, JoinClaim
<1> QED
  BY <1>1, <1>2, <1>3

(* c joins the claim that its strongest key leads to, or brings that key   *)
(* to the claim it found through the session.                              *)
LEMMA JoinRegistry ==
  ASSUME RegistryInv, NEW c \in Conns, NEW a \in Accounts, JoinClaim(c, a)
  PROVE  RegistryInv'
<1> DEFINE i == FirstClaimOn(c, a)
<1>1. /\ RouteKeys(c) \subseteq Keys
      /\ RouteKey(c) \in RouteKeys(c)
  BY JoinedClaim
<1>2. i \in ClaimsFor(c)
  BY JoinedClaim
<1>3. /\ i \in byID /\ i \in ClaimIds /\ i \in 0..MaxClaims /\ i # NoClaim
      /\ ~claim[i].committed
      /\ claim[i].account = a
  BY JoinedClaim
<1>4. byKey[RouteKey(c)] # NoClaim => byKey[RouteKey(c)] = i
  <2>1. ASSUME byKey[RouteKey(c)] # NoClaim
        PROVE  claim[byKey[RouteKey(c)]].account = a
    BY <1>1, <2>1 DEF JoinClaim, ClaimsFor
  <2> QED
    BY <2>1 DEF FirstClaimOn
<1>5. /\ byKey' = Attach(c, i)
      /\ claim' = [claim EXCEPT ![i].keys = @ \cup Unclaimed(c), ![i].refs = @ + 1]
      /\ handle' = [handle EXCEPT ![c] = [id |-> i, account |-> a]]
      /\ UNCHANGED <<next, byID, barriers>>
  BY DEF JoinClaim
<1> HIDE DEF i
<1>6. Unclaimed(c) \subseteq Keys /\ \A k \in Unclaimed(c) : byKey[k] = NoClaim
  BY <1>1 DEF Unclaimed
<1>7. ClaimsTypeOK'
  <2>1. claim' \in [ClaimIds -> Claim]
    BY <1>3, <1>5, <1>6 DEF RegistryInv, ClaimsTypeOK, Claim
  <2>2. byKey' \in [Keys -> 0..MaxClaims]
    BY <1>3, <1>5 DEF RegistryInv, ClaimsTypeOK, Attach
  <2>3. handle' \in [Conns -> Handle]
    BY <1>3, <1>5 DEF RegistryInv, ClaimsTypeOK, Handle, AccountOrNone
  <2> QED
    BY <1>5, <2>1, <2>2, <2>3 DEF RegistryInv, ClaimsTypeOK
<1>8. KeyIndexConsistent'
  BY <1>3, <1>5, <1>6
  DEF RegistryInv, ClaimsTypeOK, Claim, KeyIndexConsistent, Attach, NoClaim
<1>9. IdsIssued'
  BY <1>3, <1>5, RouteAssumption
  DEF RegistryInv, ClaimsTypeOK, Claim, ClaimIds, IdsIssued
<1>10. HandlesFollowKeys'
  <2> SUFFICES ASSUME NEW d \in Conns, handle'[d].id \in byID',
                      ~claim'[handle'[d].id].committed
               PROVE  RouteKey(d) \in Keys /\ byKey'[RouteKey(d)] = handle'[d].id
    BY DEF HandlesFollowKeys
  <2>1. CASE d = c
    BY <2>1, <1>1, <1>4, <1>5
    DEF RegistryInv, ClaimsTypeOK, Attach, Unclaimed
  <2>2. CASE d # c
    <3>1. handle'[d] = handle[d] /\ handle[d].id \in byID
      BY <2>2, <1>5 DEF RegistryInv, ClaimsTypeOK
    <3>2. ~claim[handle[d].id].committed
      BY <3>1, <1>3, <1>5 DEF RegistryInv, ClaimsTypeOK, Claim
    <3>3. RouteKey(d) \in Keys /\ byKey[RouteKey(d)] = handle[d].id
      BY <3>1, <3>2 DEF RegistryInv, HandlesFollowKeys
    <3>4. handle[d].id # NoClaim
      BY <3>1 DEF RegistryInv, ClaimsTypeOK, ClaimIds, NoClaim
    <3> QED
      BY <3>1, <3>3, <3>4, <1>5 DEF Attach, Unclaimed
  <2> QED
    BY <2>1, <2>2
<1> QED
  BY <1>7, <1>8, <1>9, <1>10 DEF RegistryInv

(* A new claim has a fresh id and takes every key of the route.            *)
LEMMA CreateRegistry ==
  ASSUME RegistryInv, NEW c \in Conns, NEW a \in Accounts,
         NEW p \in AccountOrNone, CreateClaim(c, a, p)
  PROVE  RegistryInv'
<1> DEFINE n == next + 1
           new == [account |-> a, priorOwner |-> p, keys |-> RouteKeys(c),
                   refs |-> 1, accepted |-> FALSE, committed |-> FALSE]
<1>1. /\ RouteKeys(c) \subseteq Keys
      /\ RouteKey(c) \in RouteKeys(c)
  BY RouteKeysFact DEF CreateClaim
<1>2. Unclaimed(c) = RouteKeys(c)
  BY DEF CreateClaim, ClaimsFor, Unclaimed
<1>3. /\ n \in ClaimIds /\ n \in 0..MaxClaims /\ n # NoClaim
      /\ n \notin byID
      /\ \A d \in Conns : handle[d].id # n
      /\ \A k \in Keys : byKey[k] # n
  <2>1. n \in ClaimIds /\ n \in 0..MaxClaims /\ n # NoClaim
    BY RouteAssumption DEF CreateClaim, RegistryInv, ClaimsTypeOK, ClaimIds, NoClaim
  <2>2. n \notin byID
    BY DEF RegistryInv, ClaimsTypeOK, IdsIssued
  <2>3. \A d \in Conns : handle[d].id # n
    BY DEF RegistryInv, ClaimsTypeOK, IdsIssued, Handle
  <2> QED
    BY <2>1, <2>2, <2>3 DEF RegistryInv, KeyIndexConsistent
<1>4. /\ next' = n
      /\ byID' = byID \cup {n}
      /\ byKey' = Attach(c, n)
      /\ claim' = [claim EXCEPT ![n] = new]
      /\ handle' = [handle EXCEPT ![c] = [id |-> n, account |-> a]]
      /\ UNCHANGED barriers
  BY DEF CreateClaim
<1>5. new \in Claim
  BY <1>1 DEF Claim, AccountOrNone
<1>6. new.keys = RouteKeys(c) /\ new.refs = 1 /\ ~new.committed
  OBVIOUS
<1>7. next \in Nat /\ n = next + 1
  BY DEF RegistryInv, ClaimsTypeOK
<1> HIDE DEF n, new
<1>8. ClaimsTypeOK'
  <2>1. byKey' \in [Keys -> 0..MaxClaims]
    BY <1>3, <1>4 DEF RegistryInv, ClaimsTypeOK, Attach
  <2>2. handle' \in [Conns -> Handle]
    BY <1>3, <1>4 DEF RegistryInv, ClaimsTypeOK, Handle, AccountOrNone
  <2>3. claim' \in [ClaimIds -> Claim]
    BY <1>4, <1>5 DEF RegistryInv, ClaimsTypeOK
  <2> QED
    BY <1>3, <1>4, <2>1, <2>2, <2>3 DEF RegistryInv, ClaimsTypeOK
<1>9. KeyIndexConsistent'
  BY <1>2, <1>3, <1>4, <1>6
  DEF RegistryInv, ClaimsTypeOK, KeyIndexConsistent, Attach
<1>10. IdsIssued'
  BY <1>3, <1>4, <1>6, <1>7
  DEF RegistryInv, ClaimsTypeOK, IdsIssued, Handle, ClaimIds
<1>11. HandlesFollowKeys'
  <2> SUFFICES ASSUME NEW d \in Conns, handle'[d].id \in byID',
                      ~claim'[handle'[d].id].committed
               PROVE  RouteKey(d) \in Keys /\ byKey'[RouteKey(d)] = handle'[d].id
    BY DEF HandlesFollowKeys
  <2>1. CASE d = c
    BY <2>1, <1>1, <1>2, <1>4 DEF RegistryInv, ClaimsTypeOK, Attach
  <2>2. CASE d # c
    <3>1. handle'[d] = handle[d] /\ handle[d].id \in byID
      BY <2>2, <1>3, <1>4 DEF RegistryInv, ClaimsTypeOK
    <3>2. ~claim[handle[d].id].committed
      BY <3>1, <1>3, <1>4 DEF RegistryInv, ClaimsTypeOK
    <3>3. RouteKey(d) \in Keys /\ byKey[RouteKey(d)] = handle[d].id
      BY <3>1, <3>2 DEF RegistryInv, HandlesFollowKeys
    <3>4. handle[d].id # NoClaim
      BY <3>1 DEF RegistryInv, ClaimsTypeOK, ClaimIds, NoClaim
    <3> QED
      BY <3>1, <3>3, <3>4, <1>4 DEF Attach, Unclaimed
  <2> QED
    BY <2>1, <2>2
<1> QED
  BY <1>8, <1>9, <1>10, <1>11 DEF RegistryInv

(* Handles only ever get dropped by the steps below.                       *)
Dropped == /\ handle' \in [Conns -> Handle]
           /\ \A d \in Conns : handle'[d] \in {handle[d], NoHandle}

(* An operation gives up the handle of one connection or of none.          *)
LEMMA DropIsDropped ==
  ASSUME RegistryInv, NEW c \in Conns
  PROVE  /\ DropHandle(c) => Dropped
         /\ UNCHANGED handle => Dropped
  BY NoHandleType DEF RegistryInv, ClaimsTypeOK, DropHandle, Dropped

(* Removing live claims together with their keys keeps the registry        *)
(* consistent: by the index no key of a removed claim is left behind.      *)
LEMMA RemoveRegistry ==
  ASSUME RegistryInv, NEW ids \in SUBSET byID, RemoveClaims(ids),
         next' = next, Dropped, barriers' \in [Keys -> AccountOrNone]
  PROVE  RegistryInv'
<1>1. /\ byID' = byID \ ids
      /\ \A k \in Keys : byKey'[k] = IF byKey[k] \in ids THEN NoClaim ELSE byKey[k]
      /\ \A j \in ClaimIds \ ids : claim'[j] = claim[j]
  <2>1. \A k \in Keys : byKey[k] \in ids => k \in claim[byKey[k]].keys
    BY DEF RegistryInv, ClaimsTypeOK, KeyIndexConsistent, ClaimIds, NoClaim
  <2> QED
    BY <2>1 DEF RemoveClaims, Detach
<1>2. ClaimsTypeOK'
  <2>1. claim' \in [ClaimIds -> Claim]
    BY NoHandleType DEF RemoveClaims, RegistryInv, ClaimsTypeOK
  <2>2. byKey' \in [Keys -> 0..MaxClaims]
    BY RouteAssumption DEF RemoveClaims, Detach, RegistryInv, ClaimsTypeOK, NoClaim
  <2> QED
    BY <1>1, <2>1, <2>2 DEF RegistryInv, ClaimsTypeOK, Dropped
<1>3. KeyIndexConsistent'
  BY <1>1 DEF RegistryInv, ClaimsTypeOK, KeyIndexConsistent
<1>4. IdsIssued'
  <2>1. \A d \in Conns : handle'[d].id <= next'
    BY DEF Dropped, RegistryInv, ClaimsTypeOK, IdsIssued, NoHandle, NoClaim
  <2> QED
    BY <1>1, <2>1 DEF RegistryInv, ClaimsTypeOK, IdsIssued
<1>5. HandlesFollowKeys'
  <2> SUFFICES ASSUME NEW d \in Conns, handle'[d].id \in byID',
                      ~claim'[handle'[d].id].committed
               PROVE  RouteKey(d) \in Keys /\ byKey'[RouteKey(d)] = handle'[d].id
    BY DEF HandlesFollowKeys
  <2>1. handle'[d] = handle[d]
    BY <1>1 DEF Dropped, RegistryInv, ClaimsTypeOK, ClaimIds, NoHandle, NoClaim
  <2>2. handle[d].id \in byID \ ids /\ ~claim[handle[d].id].committed
    BY <1>1, <2>1 DEF RegistryInv, ClaimsTypeOK
  <2>3. RouteKey(d) \in Keys /\ byKey[RouteKey(d)] = handle[d].id
    BY <2>2 DEF RegistryInv, HandlesFollowKeys
  <2> QED
    BY <1>1, <2>1, <2>2, <2>3
<1> QED
  BY <1>2, <1>3, <1>4, <1>5 DEF RegistryInv

(* A step that changes one claim without reviving it, and leaves the index *)
(* alone.                                                                  *)
LEMMA UpdateRegistry ==
  ASSUME RegistryInv, NEW i \in byID, claim' \in [ClaimIds -> Claim],
         \A j \in ClaimIds \ {i} : claim'[j] = claim[j],
         claim'[i].keys = claim[i].keys, claim'[i].refs > 0,
         claim'[i].committed = claim[i].committed,
         UNCHANGED <<next, byID, byKey>>,
         handle' \in [Conns -> Handle],
         \A d \in Conns : handle'[d].id \in {handle[d].id, NoClaim},
         barriers' \in [Keys -> AccountOrNone]
  PROVE  RegistryInv'
<1>1. ClaimsTypeOK'
  BY DEF RegistryInv, ClaimsTypeOK
<1>2. KeyIndexConsistent'
  BY DEF RegistryInv, ClaimsTypeOK, KeyIndexConsistent
<1>3. IdsIssued'
  BY DEF RegistryInv, ClaimsTypeOK, IdsIssued, NoClaim
<1>4. HandlesFollowKeys'
  <2> SUFFICES ASSUME NEW d \in Conns, handle'[d].id \in byID',
                      ~claim'[handle'[d].id].committed
               PROVE  RouteKey(d) \in Keys /\ byKey'[RouteKey(d)] = handle'[d].id
    BY DEF HandlesFollowKeys
  <2>1. handle'[d].id = handle[d].id /\ handle[d].id \in byID
    <3>1. NoClaim \notin byID
      BY DEF RegistryInv, ClaimsTypeOK, ClaimIds, NoClaim
    <3>2. handle'[d].id \in {handle[d].id, NoClaim} /\ byID' = byID
      OBVIOUS
    <3> QED
      BY <3>1, <3>2
  <2>2. ~claim[handle[d].id].committed
    BY <2>1 DEF RegistryInv, ClaimsTypeOK
  <2> QED
    BY <2>1, <2>2 DEF RegistryInv, HandlesFollowKeys
<1> QED
  BY <1>1, <1>2, <1>3, <1>4 DEF RegistryInv

(* A step that touches barriers and handles only.                          *)
LEMMA KeepRegistry ==
  ASSUME RegistryInv, UNCHANGED <<next, byID, claim, byKey>>, Dropped,
         barriers' \in [Keys -> AccountOrNone]
  PROVE  RegistryInv'
<1>1. ClaimsTypeOK' /\ KeyIndexConsistent'
  BY DEF RegistryInv, ClaimsTypeOK, KeyIndexConsistent, Dropped
<1>2. IdsIssued'
  BY DEF RegistryInv, ClaimsTypeOK, IdsIssued, Dropped, NoHandle, NoClaim
<1>3. HandlesFollowKeys'
  BY DEF RegistryInv, ClaimsTypeOK, HandlesFollowKeys, Dropped, ClaimIds, NoHandle, NoClaim
<1> QED
  BY <1>1, <1>2, <1>3 DEF RegistryInv

(* A held handle names a live claim with a reference.                      *)
LEMMA HeldClaim ==
  ASSUME RegistryInv, NEW c \in Conns, Holds(c)
  PROVE  /\ handle[c].id \in byID /\ handle[c].id \in ClaimIds
         /\ claim[handle[c].id] \in Claim
         /\ claim[handle[c].id].refs \in Nat /\ claim[handle[c].id].refs > 0
  BY DEF RegistryInv, ClaimsTypeOK, IdsIssued, Holds, Claim

(* release: a stale handle, the last reference, or one of several.         *)
LEMMA ReleaseRegistry ==
  ASSUME RegistryInv, NEW c \in Conns, ReleaseClaim(c)
  PROVE  RegistryInv'
<1> DEFINE i == handle[c].id
<1>1. Dropped /\ next' = next /\ barriers' = barriers
  BY DropIsDropped DEF ReleaseClaim
<1>2. barriers' \in [Keys -> AccountOrNone]
  BY <1>1 DEF RegistryInv, ClaimsTypeOK
<1>3. CASE ~Holds(c)
  BY <1>1, <1>2, <1>3, KeepRegistry DEF ReleaseClaim
<1>4. CASE Holds(c) /\ claim[i].refs = 1
  <2>1. {i} \in SUBSET byID
    BY <1>4, HeldClaim
  <2>2. RemoveClaims({i})
    BY <1>4 DEF ReleaseClaim
  <2> QED
    BY <1>1, <1>2, <2>1, <2>2, RemoveRegistry
<1>5. CASE Holds(c) /\ claim[i].refs # 1
  <2>1. /\ claim' = [claim EXCEPT ![i].refs = @ - 1]
        /\ UNCHANGED <<byID, byKey>>
    BY <1>5 DEF ReleaseClaim
  <2>2. /\ i \in byID /\ i \in ClaimIds
        /\ claim[i].refs - 1 \in Nat /\ claim[i].refs - 1 > 0
    BY <1>5, HeldClaim
  <2>3. claim' \in [ClaimIds -> Claim]
    BY <2>1, <2>2 DEF RegistryInv, ClaimsTypeOK, Claim
  <2>4. /\ \A j \in ClaimIds \ {i} : claim'[j] = claim[j]
        /\ claim'[i].keys = claim[i].keys /\ claim'[i].refs > 0
        /\ claim'[i].committed = claim[i].committed
    BY <2>1, <2>2 DEF RegistryInv, ClaimsTypeOK, Claim
  <2>5. \A d \in Conns : handle'[d].id \in {handle[d].id, NoClaim}
    BY <1>1 DEF Dropped, NoHandle
  <2> QED
    BY <1>1, <1>2, <2>1, <2>2, <2>3, <2>4, <2>5, UpdateRegistry DEF Dropped
<1> QED
  BY <1>3, <1>4, <1>5

(* The first commit gives up every key of the claim in the same step that  *)
(* marks it committed, so the index never leads to a decided claim.        *)
LEMMA CommitRegistry ==
  ASSUME RegistryInv, NEW c \in Conns, NEW ks, NEW sw \in BOOLEAN, CommitClaim(c, ks, sw)
  PROVE  RegistryInv'
<1> DEFINE i == handle[c].id
<1>1. Dropped /\ next' = next
  BY DropIsDropped DEF CommitClaim
<1>2. barriers' \in [Keys -> AccountOrNone]
  BY DEF CommitClaim, CommitHeldClaim, ClearedBarriers, RegistryInv, ClaimsTypeOK, AccountOrNone
<1>3. CASE ~Holds(c)
  BY <1>1, <1>2, <1>3, KeepRegistry DEF CommitClaim
<1>4. CASE Holds(c)
  <2>1. i \in byID /\ i \in ClaimIds /\ claim[i].refs \in Nat /\ claim[i].refs > 0
    BY <1>4, HeldClaim
  <2>2. \A k \in Keys : byKey[k] = i => k \in claim[i].keys /\ ~claim[i].committed
    BY <2>1 DEF RegistryInv, ClaimsTypeOK, KeyIndexConsistent, ClaimIds, NoClaim
  <2>3. byKey' = IF claim[i].committed THEN byKey ELSE Detach({i})
    BY <1>4 DEF CommitClaim, CommitHeldClaim
  <2>4. \A k \in Keys : byKey'[k] = IF byKey[k] = i THEN NoClaim ELSE byKey[k]
    BY <2>2, <2>3 DEF Detach
  <2>5. byKey' \in [Keys -> 0..MaxClaims]
    BY <2>3, RouteAssumption DEF Detach, RegistryInv, ClaimsTypeOK, NoClaim
  <2>6. CASE claim[i].refs = 1
    <3>1. byID' = byID \ {i} /\ claim' = [claim EXCEPT ![i] = FreeClaim]
      BY <1>4, <2>6 DEF CommitClaim, CommitHeldClaim
    <3>2. byKey' = Detach({i})
      BY <2>2, <2>3 DEF Detach, RegistryInv, ClaimsTypeOK
    <3>3. claim' = [j \in ClaimIds |-> IF j \in {i} THEN FreeClaim ELSE claim[j]]
      BY <2>1, <3>1 DEF RegistryInv, ClaimsTypeOK
    <3>4. RemoveClaims({i})
      BY <3>1, <3>2, <3>3 DEF RemoveClaims
    <3> QED
      BY <1>1, <1>2, <2>1, <3>4, RemoveRegistry
  <2>7. CASE claim[i].refs # 1
    <3>1. /\ byID' = byID
          /\ claim' = [claim EXCEPT ![i].committed = TRUE, ![i].refs = @ - 1,
                                    ![i].accepted = @ \/ sw]
      BY <1>4, <2>7 DEF CommitClaim, CommitHeldClaim
    <3>2. claim[i].refs - 1 \in Nat /\ claim[i].refs - 1 > 0
      BY <2>1, <2>7
    <3>3. (claim[i].accepted \/ sw) \in BOOLEAN
      BY Zenon
    <3>4. claim' \in [ClaimIds -> Claim]
      BY <2>1, <3>1, <3>2, <3>3 DEF RegistryInv, ClaimsTypeOK, Claim
    <3>5. /\ \A j \in ClaimIds \ {i} : claim'[j] = claim[j]
          /\ claim'[i].refs > 0 /\ claim'[i].committed
      <4> DEFINE new == [claim[i] EXCEPT !.committed = TRUE, !.refs = @ - 1, !.accepted = @ \/ sw]
      <4>1. claim \in [ClaimIds -> Claim] /\ claim[i] \in Claim
        BY <2>1 DEF RegistryInv, ClaimsTypeOK
      <4>2. claim' = [claim EXCEPT ![i] = new]
        BY <2>1, <3>1, <4>1
      <4>3. new.refs > 0 /\ new.committed
        BY <3>2, <4>1 DEF Claim
      <4> HIDE DEF new
      <4> QED
        BY <2>1, <4>1, <4>2, <4>3
    <3>6. ClaimsTypeOK'
      BY <1>1, <1>2, <2>5, <3>1, <3>4 DEF RegistryInv, ClaimsTypeOK, Dropped
    <3>7. KeyIndexConsistent'
      <4> SUFFICES ASSUME NEW k \in Keys, byKey'[k] # NoClaim
                   PROVE  /\ byKey'[k] \in byID' /\ ~claim'[byKey'[k]].committed
                          /\ k \in claim'[byKey'[k]].keys
        BY DEF KeyIndexConsistent
      <4>1. byKey'[k] = byKey[k] /\ byKey[k] # i
        BY <2>4
      <4>2. byKey[k] \in byID /\ ~claim[byKey[k]].committed /\ k \in claim[byKey[k]].keys
        BY <4>1 DEF RegistryInv, KeyIndexConsistent
      <4>3. byKey[k] \in ClaimIds
        BY <4>2 DEF RegistryInv, ClaimsTypeOK
      <4> QED
        BY <3>1, <3>5, <4>1, <4>2, <4>3
    <3>8. IdsIssued'
      <4>1. \A j \in byID' : j <= next' /\ claim'[j].refs > 0
        <5>1. byID \subseteq ClaimIds /\ \A j \in byID : j <= next /\ claim[j].refs > 0
          BY DEF RegistryInv, ClaimsTypeOK, IdsIssued
        <5> QED
          BY <1>1, <3>1, <3>5, <5>1
      <4>2. \A d \in Conns : handle'[d].id <= next'
        <5>1. next \in Nat /\ \A d \in Conns : handle[d].id <= next
          BY DEF RegistryInv, ClaimsTypeOK, IdsIssued
        <5>2. NoHandle.id = 0
          BY DEF NoHandle, NoClaim
        <5> QED
          BY <1>1, <5>1, <5>2 DEF Dropped
      <4> QED
        BY <4>1, <4>2 DEF IdsIssued
    <3>9. HandlesFollowKeys'
      <4> SUFFICES ASSUME NEW d \in Conns, handle'[d].id \in byID',
                          ~claim'[handle'[d].id].committed
                   PROVE  RouteKey(d) \in Keys /\ byKey'[RouteKey(d)] = handle'[d].id
        BY DEF HandlesFollowKeys
      <4>1. handle'[d] = handle[d] /\ handle[d].id \in byID /\ handle[d].id # i
        <5>1. handle'[d].id \in ClaimIds
          BY <3>1 DEF RegistryInv, ClaimsTypeOK
        <5>2. handle'[d] # NoHandle
          BY <5>1 DEF NoHandle, NoClaim, ClaimIds
        <5>3. handle'[d] = handle[d]
          BY <1>1, <5>2 DEF Dropped
        <5> QED
          BY <3>1, <3>5, <5>3
      <4>2. ~claim[handle[d].id].committed
        BY <4>1, <3>5 DEF RegistryInv, ClaimsTypeOK
      <4> QED
        BY <2>4, <4>1, <4>2 DEF RegistryInv, HandlesFollowKeys
    <3> QED
      BY <3>6, <3>7, <3>8, <3>9 DEF RegistryInv
  <2> QED
    BY <2>6, <2>7
<1> QED
  BY <1>3, <1>4

(* acceptSwitch touches a flag that no index depends on.                   *)
LEMMA AcceptSwitchRegistry ==
  ASSUME RegistryInv, NEW c \in Conns, AcceptSwitch(c)
  PROVE  RegistryInv'
<1> DEFINE i == handle[c].id
<1>1. i \in byID /\ i \in ClaimIds /\ claim[i].refs > 0
  BY HeldClaim DEF AcceptSwitch
<1>2. /\ claim' = [claim EXCEPT ![i].accepted = TRUE]
      /\ UNCHANGED <<next, byID, byKey, barriers, handle>>
  BY DEF AcceptSwitch
<1>3. claim' \in [ClaimIds -> Claim]
  BY <1>1, <1>2 DEF RegistryInv, ClaimsTypeOK, Claim
<1>4. /\ \A j \in ClaimIds \ {i} : claim'[j] = claim[j]
      /\ claim'[i].keys = claim[i].keys /\ claim'[i].refs > 0
      /\ claim'[i].committed = claim[i].committed
  BY <1>1, <1>2 DEF RegistryInv, ClaimsTypeOK, Claim
<1>5. /\ handle' \in [Conns -> Handle] /\ barriers' \in [Keys -> AccountOrNone]
      /\ \A d \in Conns : handle'[d].id \in {handle[d].id, NoClaim}
  BY <1>2 DEF RegistryInv, ClaimsTypeOK
<1> QED
  BY <1>1, <1>2, <1>3, <1>4, <1>5, UpdateRegistry

(* Barriers are independent of the claims.                                 *)
LEMMA ClearBarriersRegistry ==
  ASSUME RegistryInv, NEW ks, ClearBarriers(ks)
  PROVE  RegistryInv'
<1>1. barriers' \in [Keys -> AccountOrNone]
  BY DEF ClearBarriers, ClearedBarriers, RegistryInv, ClaimsTypeOK, AccountOrNone
<1>2. Dropped
  BY DEF ClearBarriers, Dropped, RegistryInv, ClaimsTypeOK
<1> QED
  BY <1>1, <1>2, KeepRegistry DEF ClearBarriers

(* preserve removes a claim and adds barriers.                             *)
LEMMA PreserveRegistry ==
  ASSUME RegistryInv, NEW c \in Conns, PreserveClaim(c)
  PROVE  RegistryInv'
<1>1. Dropped /\ next' = next
  BY DropIsDropped DEF PreserveClaim
<1>2. handle[c].account \in AccountOrNone
  BY DEF RegistryInv, ClaimsTypeOK, Handle
<1>3. barriers' \in [Keys -> AccountOrNone]
  BY <1>2 DEF PreserveClaim, RegistryInv, ClaimsTypeOK
<1>4. CASE Holds(c)
  <2>1. {handle[c].id} \in SUBSET byID
    BY <1>4, HeldClaim
  <2> QED
    BY <1>1, <1>3, <1>4, <2>1, RemoveRegistry DEF PreserveClaim
<1>5. CASE ~Holds(c)
  BY <1>1, <1>3, <1>5, KeepRegistry DEF PreserveClaim
<1> QED
  BY <1>4, <1>5

(* The claim keeps its id and its keys when it changes account, so even a  *)
(* handle on the former account still follows its key.                     *)
LEMMA TransferRegistry ==
  ASSUME RegistryInv, NEW c \in Conns, NEW a \in Accounts,
         NEW p \in AccountOrNone, TransferClaim(c, a, p)
  PROVE  RegistryInv'
<1> DEFINE i == handle[c].id
<1>1. barriers' \in [Keys -> AccountOrNone] /\ UNCHANGED <<next, byID, byKey>>
  BY DEF TransferClaim, RegistryInv, ClaimsTypeOK
<1>2. CASE Transferable(c)
  <2>1. i \in byID /\ i \in ClaimIds /\ i \in 0..MaxClaims
    BY <1>2, HeldClaim DEF Transferable, ClaimIds
  <2>2. /\ claim' = [claim EXCEPT ![i].account = a, ![i].priorOwner = p, ![i].refs = 1]
        /\ handle' = [handle EXCEPT ![c] = [id |-> i, account |-> a]]
    BY <1>2 DEF TransferClaim
  <2>3. claim' \in [ClaimIds -> Claim]
    <3>1. a \in AccountOrNone
      BY DEF AccountOrNone
    <3>2. claim \in [ClaimIds -> Claim]
      BY DEF RegistryInv, ClaimsTypeOK
    <3> DEFINE moved == [claim[i] EXCEPT !.account = a, !.priorOwner = p, !.refs = 1]
    <3>3. claim[i] \in Claim
      BY <2>1, <3>2
    <3> HIDE DEF i
    <3>4. moved \in Claim
      BY <3>1, <3>3 DEF Claim
    <3>5. claim' = [claim EXCEPT ![i] = moved]
      BY <2>1, <2>2, <3>2, <3>3 DEF Claim
    <3> HIDE DEF moved
    <3> QED
      BY <2>1, <3>2, <3>4, <3>5
  <2>4. /\ \A j \in ClaimIds \ {i} : claim'[j] = claim[j]
        /\ claim'[i].keys = claim[i].keys /\ claim'[i].refs > 0
        /\ claim'[i].committed = claim[i].committed
    BY <2>1, <2>2 DEF RegistryInv, ClaimsTypeOK, Claim
  <2>5. /\ handle' \in [Conns -> Handle]
        /\ \A d \in Conns : handle'[d].id \in {handle[d].id, NoClaim}
    BY <2>1, <2>2 DEF RegistryInv, ClaimsTypeOK, Handle, AccountOrNone
  <2> QED
    BY <1>1, <2>1, <2>3, <2>4, <2>5, UpdateRegistry
<1>3. CASE ~Transferable(c)
  BY <1>1, <1>3, DropIsDropped, KeepRegistry DEF TransferClaim
<1> QED
  BY <1>2, <1>3

(* invalidateAccount removes every claim on an account.                    *)
LEMMA InvalidateRegistry ==
  ASSUME RegistryInv, NEW a \in Accounts, InvalidateClaims(a)
  PROVE  RegistryInv'
<1>1. Dropped /\ next' = next
  BY DEF InvalidateClaims, Dropped, RegistryInv, ClaimsTypeOK
<1>2. barriers' \in [Keys -> AccountOrNone]
  BY DEF InvalidateClaims, RegistryInv, ClaimsTypeOK, AccountOrNone
<1>3. ClaimsOn(a) \in SUBSET byID
  BY DEF ClaimsOn
<1> QED
  BY <1>1, <1>2, <1>3, RemoveRegistry DEF InvalidateClaims

(* Every critical section preserves the invariant.                         *)
LEMMA NextRegistry == RegistryInv /\ [ClaimsNext]_claimVars => RegistryInv'
<1> SUFFICES ASSUME RegistryInv, [ClaimsNext]_claimVars
             PROVE  RegistryInv'
  OBVIOUS
<1>1. CASE \E c \in Conns, a \in Accounts : JoinClaim(c, a)
  BY <1>1, JoinRegistry
<1>2. CASE \E c \in Conns, a \in Accounts, p \in AccountOrNone : CreateClaim(c, a, p)
  BY <1>2, CreateRegistry
<1>3. CASE \E c \in Conns : ReleaseClaim(c)
  BY <1>3, ReleaseRegistry
<1>4. CASE \E c \in Conns, sw \in BOOLEAN : \E ks \in AcceptedKeySets(c) :
              CommitClaim(c, ks, sw)
  BY <1>4, CommitRegistry
<1>5. CASE \E c \in Conns : AcceptSwitch(c)
  BY <1>5, AcceptSwitchRegistry
<1>6. CASE \E c \in Conns : \E ks \in AcceptedKeySets(c) : ClearBarriers(ks)
  BY <1>6, ClearBarriersRegistry
<1>7. CASE \E c \in Conns : PreserveClaim(c)
  BY <1>7, PreserveRegistry
<1>8. CASE \E c \in Conns, a \in Accounts, p \in AccountOrNone : TransferClaim(c, a, p)
  BY <1>8, TransferRegistry
<1>9. CASE \E a \in Accounts : InvalidateClaims(a)
  BY <1>9, InvalidateRegistry
<1>10. CASE RestartClaims
  BY <1>10, RestartRegistry
<1>11. CASE UNCHANGED claimVars
  BY <1>11
  DEF claimVars, RegistryInv, ClaimsTypeOK, KeyIndexConsistent, IdsIssued,
      HandlesFollowKeys
<1> QED
  BY <1>1, <1>2, <1>3, <1>4, <1>5, <1>6, <1>7, <1>8, <1>9, <1>10, <1>11
  DEF ClaimsNext

(* The registry invariant holds in every reachable state of the registry   *)
(* of route_claims.go, whatever the selections and the relays do.          *)
THEOREM RegistryCorrect == ClaimsSpec => []RegistryInv
  BY InitRegistry, NextRegistry, PTL DEF ClaimsSpec

(* Every variable of the registry keeps its type; in particular the        *)
(* reference counts that release and commit decrement stay natural.        *)
THEOREM ClaimsTypeCorrect == ClaimsSpec => []ClaimsTypeOK
<1>1. RegistryInv => ClaimsTypeOK
  BY DEF RegistryInv
<1> QED
  BY <1>1, RegistryCorrect, PTL

(* byKey and byID agree: a key leads to a live, undecided claim listing it. *)
THEOREM KeyIndexCorrect == ClaimsSpec => []KeyIndexConsistent
<1>1. RegistryInv => KeyIndexConsistent
  BY DEF RegistryInv
<1> QED
  BY <1>1, RegistryCorrect, PTL

(* Two connections of one conversation whose claims are live and undecided *)
(* hold the same claim and the same account.                               *)
THEOREM OneClaimCorrect == ClaimsSpec => []OneClaimPerConversation
<1>1. RegistryInv => OneClaimPerConversation
  <2> SUFFICES ASSUME RegistryInv, NEW c \in Conns, NEW d \in Conns,
                      Provisional(c), Provisional(d), RouteKey(c) = RouteKey(d)
               PROVE  handle[c] = handle[d]
    BY DEF OneClaimPerConversation
  <2>1. handle[c].id = handle[d].id
    BY DEF RegistryInv, HandlesFollowKeys, Provisional, Holds
  <2>2. handle[c].account = handle[d].account
    BY <2>1 DEF Provisional, Holds
  <2> QED
    BY <2>1, <2>2 DEF RegistryInv, ClaimsTypeOK, Handle
<1> QED
  BY <1>1, RegistryCorrect, PTL

-----------------------------------------------------------------------------
(* References are counted, when no first turn switches accounts.  With     *)
(* transfers they are not: transfer counts its caller alone.               *)

Holders(i) == {c \in Conns : handle[c].id = i}

(* A live claim counts the handles that name it, and they are on its       *)
(* account.                                                                *)
CountInv ==
    /\ \A i \in byID : /\ IsFiniteSet(Holders(i))
                       /\ claim[i].refs = Cardinality(Holders(i))
    /\ \A c \in Conns : handle[c].id \in byID
                        => handle[c].account = claim[handle[c].id].account

(* The holders of a claim after one handle changed.                        *)
LEMMA NextHolders ==
  ASSUME RegistryInv, NEW c \in Conns, NEW h \in Handle, NEW i,
         handle' = [handle EXCEPT ![c] = h]
  PROVE  Holders(i)' = IF h.id = i THEN Holders(i) \cup {c} ELSE Holders(i) \ {c}
  BY DEF Holders, RegistryInv, ClaimsTypeOK

(* No handle changed, and no surviving claim its account or its count.     *)
LEMMA KeepCounts ==
  ASSUME CountInv, handle' = handle, byID' \subseteq byID,
         \A j \in byID' : /\ claim'[j].refs = claim[j].refs
                          /\ claim'[j].account = claim[j].account
  PROVE  CountInv'
<1>1. \A j : Holders(j)' = Holders(j)
  BY DEF Holders
<1> QED
  BY <1>1 DEF CountInv

(* c gave up its handle, and the claim it names, if it lives on, counts    *)
(* one reference less.                                                     *)
LEMMA DropCounts ==
  ASSUME RegistryInv, CountInv, NEW c \in Conns, DropHandle(c), byID' \subseteq byID,
         \A j \in byID' :
            /\ claim'[j].account = claim[j].account
            /\ claim'[j].refs = IF j = handle[c].id THEN claim[j].refs - 1
                                ELSE claim[j].refs
  PROVE  CountInv'
<1>1. handle' = [handle EXCEPT ![c] = NoHandle] /\ handle \in [Conns -> Handle]
  BY DEF DropHandle, RegistryInv, ClaimsTypeOK
<1>2. NoHandle \in Handle /\ NoHandle.id = NoClaim
  BY NoHandleType DEF NoHandle
<1>3. ASSUME NEW j \in byID'
      PROVE  IsFiniteSet(Holders(j)') /\ claim'[j].refs = Cardinality(Holders(j)')
  <2>1. j \in byID /\ j # NoClaim
    BY <1>3 DEF RegistryInv, ClaimsTypeOK, ClaimIds, NoClaim
  <2>2. Holders(j)' = Holders(j) \ {c}
    <3>1. handle'[c].id # j /\ \A d \in Conns \ {c} : handle'[d] = handle[d]
      BY <1>1, <1>2, <2>1
    <3> QED
      BY <3>1 DEF Holders
  <2>3. IsFiniteSet(Holders(j)) /\ claim[j].refs = Cardinality(Holders(j))
    BY <2>1 DEF CountInv
  <2>4. c \in Holders(j) <=> j = handle[c].id
    BY DEF Holders
  <2>5. claim'[j].refs = IF j = handle[c].id THEN claim[j].refs - 1 ELSE claim[j].refs
    BY <1>3
  <2>6. /\ IsFiniteSet(Holders(j) \ {c})
        /\ Cardinality(Holders(j) \ {c}) = IF c \in Holders(j) THEN Cardinality(Holders(j)) - 1
                                           ELSE Cardinality(Holders(j))
    BY <2>3, FS_RemoveElement
  <2> QED
    BY <2>2, <2>3, <2>4, <2>5, <2>6
<1>4. ASSUME NEW d \in Conns, handle'[d].id \in byID'
      PROVE  handle'[d].account = claim'[handle'[d].id].account
  <2>1. d # c
    BY <1>1, <1>2, <1>4 DEF RegistryInv, ClaimsTypeOK, ClaimIds, NoClaim
  <2>2. handle'[d] = handle[d]
    BY <1>1, <2>1
  <2> QED
    BY <1>4, <2>2 DEF CountInv
<1> QED
  BY <1>3, <1>4 DEF CountInv

(* c, which had no handle, took one of a claim that counts it.             *)
LEMMA TakeCounts ==
  ASSUME RegistryInv, CountInv, NEW c \in Conns, handle[c] = NoHandle,
         NEW i \in ClaimIds, NEW a \in Accounts,
         handle' = [handle EXCEPT ![c] = [id |-> i, account |-> a]],
         byID' = byID \cup {i}, claim'[i].account = a,
         i \in byID => claim'[i].refs = claim[i].refs + 1 /\ claim[i].account = a,
         i \notin byID => claim'[i].refs = 1 /\ Holders(i) = {},
         \A j \in byID \ {i} : claim'[j] = claim[j]
  PROVE  CountInv'
<1> DEFINE h == [id |-> i, account |-> a]
<1>1. /\ h \in Handle /\ h.id = i /\ h.account = a /\ handle' = [handle EXCEPT ![c] = h]
      /\ handle \in [Conns -> Handle] /\ handle[c].id = NoClaim
  BY DEF Handle, ClaimIds, AccountOrNone, RegistryInv, ClaimsTypeOK, NoHandle
<1> HIDE DEF h
<1>2. ASSUME NEW j \in byID'
      PROVE  IsFiniteSet(Holders(j)') /\ claim'[j].refs = Cardinality(Holders(j)')
  <2>1. j # NoClaim /\ c \in Conns /\ c \notin Holders(j)
    BY <1>1, <1>2 DEF RegistryInv, ClaimsTypeOK, ClaimIds, NoClaim, Holders
  <2>2. CASE j = i /\ i \in byID
    <3>1. Holders(j)' = Holders(j) \cup {c}
      BY <1>1, <2>2, NextHolders
    <3>2. IsFiniteSet(Holders(j)) /\ claim[j].refs = Cardinality(Holders(j))
      BY <2>2 DEF CountInv
    <3> QED
      BY <2>1, <2>2, <3>1, <3>2, FS_AddElement
  <2>3. CASE j = i /\ i \notin byID
    <3>1. Holders(j)' = {c}
      <4>1. Holders(j)' = Holders(j) \cup {c}
        BY <1>1, <2>3, NextHolders
      <4>2. Holders(j) = {}
        BY <2>3
      <4> QED
        BY <4>1, <4>2
    <3>2. IsFiniteSet({c}) /\ Cardinality({c}) = 1
      BY FS_Singleton
    <3> QED
      BY <2>3, <3>1, <3>2
  <2>4. CASE j # i
    <3>1. j \in byID
      BY <1>2, <2>4
    <3>2. Holders(j)' = Holders(j)
      BY <1>1, <2>1, <2>4 DEF Holders
    <3>3. IsFiniteSet(Holders(j)) /\ claim[j].refs = Cardinality(Holders(j))
      BY <3>1 DEF CountInv
    <3>4. claim'[j] = claim[j]
      BY <2>4, <3>1
    <3> QED
      BY <3>2, <3>3, <3>4
  <2> QED
    BY <2>2, <2>3, <2>4
<1>3. ASSUME NEW d \in Conns, handle'[d].id \in byID'
      PROVE  handle'[d].account = claim'[handle'[d].id].account
  <2>1. CASE d = c
    BY <1>1, <2>1
  <2>2. CASE d # c /\ handle[d].id = i
    <3>1. handle'[d] = handle[d]
      BY <1>1, <2>2
    <3>2. i \in byID
      BY <2>2 DEF Holders
    <3> QED
      BY <2>2, <3>1, <3>2 DEF CountInv
  <2>3. CASE d # c /\ handle[d].id # i
    <3>1. handle'[d] = handle[d] /\ handle[d].id \in byID \ {i}
      BY <1>1, <1>3, <2>3
    <3> QED
      BY <3>1 DEF CountInv
  <2> QED
    BY <2>1, <2>2, <2>3
<1> QED
  BY <1>2, <1>3 DEF CountInv

(* A selection joins a claim or creates one.                               *)
LEMMA SelectCounts ==
  ASSUME RegistryInv, CountInv, NEW c \in Conns, NEW a \in Accounts,
         JoinClaim(c, a) \/ \E p \in AccountOrNone : CreateClaim(c, a, p)
  PROVE  CountInv'
<1>1. CASE JoinClaim(c, a)
  <2> DEFINE i == FirstClaimOn(c, a)
  <2>1. i \in byID /\ i \in ClaimIds /\ claim[i].account = a
    BY <1>1, JoinedClaim
  <2>2. /\ handle[c] = NoHandle
        /\ claim' = [claim EXCEPT ![i].keys = @ \cup Unclaimed(c), ![i].refs = @ + 1]
        /\ handle' = [handle EXCEPT ![c] = [id |-> i, account |-> a]]
        /\ byID' = byID
    BY <1>1 DEF JoinClaim
  <2> HIDE DEF i
  <2>3. /\ \A j \in byID \ {i} : claim'[j] = claim[j]
        /\ claim'[i].refs = claim[i].refs + 1 /\ claim'[i].account = a
    BY <2>1, <2>2 DEF RegistryInv, ClaimsTypeOK, Claim
  <2>4. byID' = byID \cup {i}
    BY <2>1, <2>2
  <2> QED
    BY <2>1, <2>2, <2>3, <2>4, TakeCounts
<1>2. ASSUME NEW p \in AccountOrNone, CreateClaim(c, a, p)
      PROVE  CountInv'
  <2> DEFINE i == next + 1
             new == [account |-> a, priorOwner |-> p, keys |-> RouteKeys(c),
                     refs |-> 1, accepted |-> FALSE, committed |-> FALSE]
  <2>1. i \in ClaimIds /\ i \notin byID /\ Holders(i) = {}
    BY <1>2, RouteAssumption
    DEF CreateClaim, RegistryInv, ClaimsTypeOK, IdsIssued, ClaimIds, Holders, Handle
  <2>2. /\ handle[c] = NoHandle /\ byID' = byID \cup {i}
        /\ claim' = [claim EXCEPT ![i] = new]
        /\ handle' = [handle EXCEPT ![c] = [id |-> i, account |-> a]]
    BY <1>2 DEF CreateClaim
  <2>3. /\ new.account = a /\ new.refs = 1
    OBVIOUS
  <2> HIDE DEF i, new
  <2>4. /\ claim'[i] = new
        /\ \A j \in byID \ {i} : claim'[j] = claim[j]
    BY <2>1, <2>2 DEF RegistryInv, ClaimsTypeOK
  <2> QED
    BY <2>1, <2>2, <2>3, <2>4, TakeCounts
<1> QED
  BY <1>1, <1>2

(* A release or a commit gives one reference back.                         *)
LEMMA DepartCounts ==
  ASSUME RegistryInv, CountInv, NEW c \in Conns,
         \/ ReleaseClaim(c)
         \/ \E ks \in AcceptedKeySets(c), sw \in BOOLEAN : CommitClaim(c, ks, sw)
  PROVE  /\ CountInv'
         /\ \A d \in Conns \ {c} : Holds(d) => Holds(d)'
<1> DEFINE i == handle[c].id
<1>1. /\ handle' = [handle EXCEPT ![c] = NoHandle] /\ DropHandle(c)
      /\ handle \in [Conns -> Handle]
  BY DEF ReleaseClaim, CommitClaim, DropHandle, RegistryInv, ClaimsTypeOK
<1>2. \A d \in Conns \ {c} : handle'[d] = handle[d]
  BY <1>1
<1>3. CASE ~Holds(c)
  <2>1. byID' = byID /\ claim' = claim
    BY <1>3 DEF ReleaseClaim, CommitClaim
  <2>2. i \notin byID
    BY <1>3 DEF Holds, CountInv
  <2>3. CountInv'
    BY <1>1, <2>1, <2>2, DropCounts
  <2> QED
    BY <1>2, <2>1, <2>3 DEF Holds
<1>4. CASE Holds(c)
  <2>1. i \in byID /\ i \in ClaimIds /\ claim \in [ClaimIds -> Claim]
    BY <1>4 DEF Holds, RegistryInv, ClaimsTypeOK
  <2>2. /\ byID' = IF claim[i].refs = 1 THEN byID \ {i} ELSE byID
        /\ \A j \in byID' : /\ claim'[j].account = claim[j].account
                            /\ claim'[j].refs = IF j = i THEN claim[j].refs - 1
                                                ELSE claim[j].refs
    <3>1. CASE ReleaseClaim(c)
      <4>1. CASE claim[i].refs = 1
        BY <1>4, <2>1, <3>1, <4>1
        DEF ReleaseClaim, RemoveClaims, RegistryInv, ClaimsTypeOK
      <4>2. CASE claim[i].refs # 1
        <5>1. byID' = byID /\ claim' = [claim EXCEPT ![i].refs = @ - 1]
          BY <1>4, <3>1, <4>2 DEF ReleaseClaim
        <5> HIDE DEF i
        <5>2. /\ claim'[i].account = claim[i].account
              /\ claim'[i].refs = claim[i].refs - 1
              /\ \A j \in ClaimIds \ {i} : claim'[j] = claim[j]
          BY <2>1, <5>1 DEF Claim
        <5>3. byID \subseteq ClaimIds /\ byID' = byID
          BY <5>1 DEF RegistryInv, ClaimsTypeOK
        <5> QED
          BY <4>2, <5>2, <5>3
      <4> QED
        BY <4>1, <4>2
    <3>2. ASSUME NEW ks, NEW sw \in BOOLEAN, CommitClaim(c, ks, sw)
          PROVE  /\ byID' = IF claim[i].refs = 1 THEN byID \ {i} ELSE byID
                 /\ \A j \in byID' :
                      /\ claim'[j].account = claim[j].account
                      /\ claim'[j].refs = IF j = i THEN claim[j].refs - 1
                                          ELSE claim[j].refs
      <4>1. CommitHeldClaim(c, ks, sw)
        BY <1>4, <3>2 DEF CommitClaim
      <4>2. CASE claim[i].refs = 1
        BY <2>1, <4>1, <4>2 DEF CommitHeldClaim, RegistryInv, ClaimsTypeOK
      <4>3. CASE claim[i].refs # 1
        <5>1. /\ byID' = byID
              /\ claim' = [claim EXCEPT ![i].committed = TRUE, ![i].refs = @ - 1,
                                        ![i].accepted = @ \/ sw]
          BY <4>1, <4>3 DEF CommitHeldClaim
        <5> HIDE DEF i
        <5>2. /\ claim'[i].account = claim[i].account
              /\ claim'[i].refs = claim[i].refs - 1
              /\ \A j \in ClaimIds \ {i} : claim'[j] = claim[j]
          BY <2>1, <5>1 DEF Claim
        <5>3. byID \subseteq ClaimIds
          BY DEF RegistryInv, ClaimsTypeOK
        <5>4. byID' = byID
          BY <5>1
        <5> QED
          BY <4>3, <5>2, <5>3, <5>4
      <4> QED
        BY <4>2, <4>3
    <3> QED
      BY <3>1, <3>2
  <2>3. CountInv'
    BY <1>1, <2>2, DropCounts
  <2>4. ASSUME NEW d \in Conns \ {c}, Holds(d)
        PROVE  Holds(d)'
    <3>1. handle[d].id \in byID'
      <4>1. CASE handle[d].id # i
        BY <2>2, <2>4, <4>1 DEF Holds
      <4>2. CASE handle[d].id = i
        <5>1. c \in Holders(i) /\ d \in Holders(i) /\ c # d
          BY <4>2 DEF Holders
        <5>2. IsFiniteSet(Holders(i)) /\ claim[i].refs = Cardinality(Holders(i))
          BY <2>1 DEF CountInv
        <5>3. Cardinality(Holders(i)) # 1
          <6>1. ~ \E x : Holders(i) = {x}
            BY <5>1
          <6> HIDE DEF i
          <6> QED
            BY <5>2, <6>1, FS_Singleton
        <5> QED
          BY <2>1, <2>2, <4>2, <5>2, <5>3
      <4> QED
        BY <4>1, <4>2
    <3> QED
      BY <1>2, <2>2, <2>4, <3>1 DEF Holds
  <2> QED
    BY <2>3, <2>4
<1> QED
  BY <1>3, <1>4

(* Preservation and invalidation take whole claims away.                   *)
LEMMA RemoveCounts ==
  ASSUME RegistryInv, CountInv,
         (\E c \in Conns : PreserveClaim(c)) \/ \E a \in Accounts : InvalidateClaims(a)
  PROVE  CountInv'
<1>1. ASSUME NEW c \in Conns, PreserveClaim(c)
      PROVE  CountInv'
  <2>1. CASE Holds(c)
    <3>1. /\ byID' = byID \ {handle[c].id} /\ DropHandle(c)
          /\ \A j \in byID' : claim'[j] = claim[j]
      BY <1>1, <2>1 DEF PreserveClaim, RemoveClaims, RegistryInv, ClaimsTypeOK
    <3> QED
      BY <3>1, DropCounts
  <2>2. CASE ~Holds(c)
    <3>1. byID' = byID /\ claim' = claim /\ DropHandle(c)
      BY <1>1, <2>2 DEF PreserveClaim
    <3>2. handle[c].id \notin byID
      BY <2>2 DEF Holds, CountInv
    <3> QED
      BY <3>1, <3>2, DropCounts
  <2> QED
    BY <2>1, <2>2
<1>2. ASSUME NEW a \in Accounts, InvalidateClaims(a)
      PROVE  CountInv'
  <2>1. /\ byID' \subseteq byID /\ handle' = handle
        /\ \A j \in byID' : claim'[j] = claim[j]
    BY <1>2 DEF InvalidateClaims, RemoveClaims, RegistryInv, ClaimsTypeOK
  <2> QED
    BY <2>1, KeepCounts
<1> QED
  BY <1>1, <1>2

(* Every critical section keeps the count.                                 *)
LEMMA NextCounts ==
  ASSUME Switchers = {}, RegistryInv, CountInv, [ClaimsNext]_claimVars
  PROVE  CountInv'
<1>1. CASE \E c \in Conns, a \in Accounts : JoinClaim(c, a)
  BY <1>1, SelectCounts
<1>2. CASE \E c \in Conns, a \in Accounts, p \in AccountOrNone : CreateClaim(c, a, p)
  BY <1>2, SelectCounts
<1>3. CASE \/ \E c \in Conns : ReleaseClaim(c)
           \/ \E c \in Conns, sw \in BOOLEAN : \E ks \in AcceptedKeySets(c) :
                CommitClaim(c, ks, sw)
  BY <1>3, DepartCounts
<1>4. ASSUME NEW c \in Conns, AcceptSwitch(c)
      PROVE  CountInv'
  <2>1. /\ byID' = byID /\ handle' = handle
        /\ claim' = [claim EXCEPT ![handle[c].id].accepted = TRUE]
        /\ claim \in [ClaimIds -> Claim] /\ byID \subseteq ClaimIds
    BY <1>4 DEF AcceptSwitch, RegistryInv, ClaimsTypeOK
  <2>2. \A j \in byID : /\ claim'[j].refs = claim[j].refs
                        /\ claim'[j].account = claim[j].account
    BY <2>1 DEF Claim
  <2> QED
    BY <2>1, <2>2, KeepCounts
<1>5. CASE \/ \E c \in Conns : \E ks \in AcceptedKeySets(c) : ClearBarriers(ks)
           \/ UNCHANGED claimVars
  BY <1>5, KeepCounts DEF ClearBarriers, claimVars
<1>6. CASE \/ \E c \in Conns : PreserveClaim(c)
           \/ \E a \in Accounts : InvalidateClaims(a)
  BY <1>6, RemoveCounts
<1>7. CASE \E c \in Conns, a \in Accounts, p \in AccountOrNone : TransferClaim(c, a, p)
  BY <1>7 DEF TransferClaim
<1>8. CASE RestartClaims
  <2>1. byID' = {} /\ \A c \in Conns : handle'[c].id = NoClaim
    BY <1>8 DEF RestartClaims, NoHandle
  <2> QED
    BY <2>1 DEF CountInv
<1> QED
  BY <1>1, <1>2, <1>3, <1>4, <1>5, <1>6, <1>7, <1>8 DEF ClaimsNext

(* A counted claim has a holder, and the holder's handle is active.        *)
LEMMA CountedIsHeld == RegistryInv /\ CountInv => NoOrphanClaim
<1> SUFFICES ASSUME RegistryInv, CountInv, NEW i \in byID
             PROVE  \E c \in Conns : handle[c].id = i /\ Holds(c)
  BY DEF NoOrphanClaim
<1>1. IsFiniteSet(Holders(i)) /\ Cardinality(Holders(i)) > 0
  BY DEF CountInv, RegistryInv, IdsIssued
<1>2. Holders(i) # {}
  BY <1>1, FS_EmptySet
<1>3. PICK c \in Conns : handle[c].id = i
  BY <1>2 DEF Holders
<1> QED
  BY <1>3 DEF CountInv, Holds

(* The invariant of both theorems below.                                   *)
LEMMA CountsCorrect ==
  ASSUME Switchers = {}
  PROVE  ClaimsSpec => [](RegistryInv /\ CountInv)
<1>1. ClaimsInit => CountInv
  BY DEF ClaimsInit, CountInv, NoHandle
<1>2. RegistryInv /\ CountInv /\ [ClaimsNext]_claimVars => (RegistryInv /\ CountInv)'
  BY NextRegistry, NextCounts
<1> QED
  BY <1>1, <1>2, InitRegistry, PTL DEF ClaimsSpec

(* Where no first turn switches accounts, every live claim belongs to a    *)
(* connection that will release it: no sequence of joins, releases,        *)
(* commits, preservations and invalidations leaves a claim behind.         *)
THEOREM NoOrphanCorrect ==
  ASSUME Switchers = {}
  PROVE  ClaimsSpec => []NoOrphanClaim
  BY CountsCorrect, CountedIsHeld, PTL

(* Where no first turn switches accounts, a release or a commit never ends *)
(* the claim of a joined peer: the last reference is the last handle.      *)
THEOREM PeersKept ==
  ASSUME Switchers = {}
  PROVE  ClaimsSpec => DepartureKeepsPeers
<1>1. RegistryInv /\ CountInv /\ [ClaimsNext]_claimVars =>
      [\A c \in Conns :
        \/ ReleaseClaim(c)
        \/ \E ks \in AcceptedKeySets(c), sw \in BOOLEAN : CommitClaim(c, ks, sw)
        => \A d \in Conns \ {c} : Holds(d) => Holds(d)']_claimVars
  BY DepartCounts
<1> QED
  BY <1>1, CountsCorrect, PTL DEF ClaimsSpec, DepartureKeepsPeers
=============================================================================
