----------------------------- MODULE ModelCatalog ---------------------------
(***************************************************************************)
(* The model catalog (internal/app/models.go).                             *)
(*                                                                         *)
(* Upstream gates each model on a client version, so an account's list is  *)
(* worth the version it was fetched for.  Clients of several versions, the *)
(* periodic watcher and the pool watcher all start refreshes; refreshMu    *)
(* lets one of them run.  The newest version is kept in the database and   *)
(* seeds the catalog when the server starts again.                         *)
(*                                                                         *)
(* A version is a number, 0 for none; a list is the version it was fetched *)
(* for; time is counted in modelRetryInterval.                             *)
(***************************************************************************)
EXTENDS Naturals, FiniteSets

CONSTANTS
    Members,          \* accounts of the pool
    Refreshers,       \* goroutines that run refreshModels
    MaxVersion,       \* bound: client versions
    RefreshInterval,  \* modelRefreshInterval, in retry intervals
    MaxChanges        \* bound: changes of the pool, and restarts

ASSUME CatalogAssumption ==
    /\ IsFiniteSet(Members)
    /\ MaxVersion \in Nat \ {0}
    /\ RefreshInterval \in Nat \ {0, 1}
    /\ MaxChanges \in Nat

VARIABLES
    catalog,     \* modelCatalog
    kept,        \* settings.models_client_version
    eligible,    \* accounts that are neither paused nor signed out
    refresher,   \* the refresh each goroutine runs
    changes,     \* changes and restarts so far
    answering    \* upstream has stopped failing

catalogVars == <<catalog, kept, eligible, refresher, changes, answering>>

-----------------------------------------------------------------------------

Versions == 0..MaxVersion
RetryInterval == 1

CatalogType ==
    [lists: [Members -> Versions],     \* 0: accounts has no entry
     active: SUBSET Members,
     version: Versions,
     left: 0..RefreshInterval]         \* until nextRefresh

(* waiting: before refreshMu; fetching and persisting: with it.            *)
RefresherType ==
    [step: {"idle", "waiting", "fetching", "persisting"}, version: Versions,
     previous: Versions, active: SUBSET Members, asked: SUBSET Members,
     fresh: SUBSET Members]

AtRest == [step |-> "idle", version |-> 0, previous |-> 0,
           active |-> {}, asked |-> {}, fresh |-> {}]

Emptied(version) == [lists |-> [a \in Members |-> 0], active |-> {},
                     version |-> version, left |-> 0]

CatalogInit ==
    /\ catalog = Emptied(0)
    /\ kept = 0
    /\ eligible = Members
    /\ refresher = [r \in Refreshers |-> AtRest]
    /\ changes = 0
    /\ answering = FALSE

RefreshMuHeld == \E r \in Refreshers : refresher[r].step \in {"fetching", "persisting"}

Larger(v, w) == IF v > w THEN v ELSE w

(* Mutant of NewestVersion: the client's own version is fetched.           *)
AskedVersion(v) == v

NewestVersion(v) == Larger(catalog.version, v)

(* Mutant of NeedsRefresh: only a change leads to another refresh.         *)
NeedsRefreshOnChange(active, v) == catalog.version # v \/ catalog.active # active

NeedsRefresh(active, v) ==
    \/ catalog.version # v
    \/ catalog.left = 0
    \/ catalog.active # active

-----------------------------------------------------------------------------

StartRefresh(r, v) ==
    /\ refresher[r].step = "idle"
    /\ v # 0
    /\ refresher' = [refresher EXCEPT ![r] = [AtRest EXCEPT !.step = "waiting", !.version = v]]

(* GET /v1/models?client_version=v.  The client's answer waits for the     *)
(* refresh unless the catalog serves it; the refresh goes on in any case.  *)
ClientAsks(r, v) ==
    /\ StartRefresh(r, v)
    /\ UNCHANGED <<catalog, kept, eligible, changes, answering>>

(* A tick of watchModels.                                                  *)
WatchModels(r) ==
    /\ StartRefresh(r, catalog.version)
    /\ catalog' = [catalog EXCEPT !.left = IF @ = 0 THEN 0 ELSE @ - 1]
    /\ UNCHANGED <<kept, eligible, changes, answering>>

(* The pool watcher reports a change: it invalidates and refreshes.        *)
PoolChanges(r, a) ==
    /\ changes < MaxChanges
    /\ changes' = changes + 1
    /\ eligible' = IF a \in eligible THEN eligible \ {a} ELSE eligible \cup {a}
    /\ catalog' = [catalog EXCEPT !.left = 0]
    /\ \/ StartRefresh(r, catalog.version)
       \/ catalog.version = 0 /\ UNCHANGED refresher
    /\ UNCHANGED <<kept, answering>>

(* refreshModels, up to the start of its fetches.                          *)
BeginRefresh(r) ==
    LET version == NewestVersion(refresher[r].version) IN
    /\ refresher[r].step = "waiting"
    /\ ~RefreshMuHeld
    /\ refresher' = [refresher EXCEPT ![r] =
           IF NeedsRefresh(eligible, version)
           THEN [step |-> "fetching", version |-> version, previous |-> catalog.version,
                 active |-> eligible, asked |-> eligible, fresh |-> {}]
           ELSE AtRest]
    /\ UNCHANGED <<catalog, kept, eligible, changes, answering>>

(* fetchAccountModels of one account: its one refresh of a refused token   *)
(* is part of the call.                                                    *)
FetchAccountModels(r, a) ==
    /\ refresher[r].step = "fetching"
    /\ a \in refresher[r].asked
    /\ \/ refresher' = [refresher EXCEPT ![r].asked = @ \ {a}, ![r].fresh = @ \cup {a}]
       \/ ~answering /\ refresher' = [refresher EXCEPT ![r].asked = @ \ {a}]
    /\ UNCHANGED <<catalog, kept, eligible, changes, answering>>

(* Mutant of NextRefresh: the retry interval is added to the hour.         *)
NextRefreshLater(active, fresh) ==
    RefreshInterval + (IF Cardinality(fresh) # Cardinality(active) THEN RetryInterval ELSE 0)

NextRefresh(active, fresh) ==
    IF Cardinality(fresh) # Cardinality(active) THEN RetryInterval ELSE RefreshInterval

(* Mutant of Replaced: accounts that failed lose the list they had.        *)
ReplacedByFresh(active, fresh, v) ==
    [lists |-> [a \in Members |-> IF a \in fresh THEN v ELSE 0],
     active |-> active, version |-> v, left |-> NextRefresh(active, fresh)]

(* replace: the lists of accounts that failed stay, those of accounts that *)
(* left the pool go.                                                       *)
Replaced(active, fresh, v) ==
    [lists |-> [a \in Members |-> IF a \in fresh THEN v
                                  ELSE IF a \in active THEN catalog.lists[a] ELSE 0],
     active |-> active, version |-> v, left |-> NextRefresh(active, fresh)]

ReplaceCatalog(r) ==
    LET task == refresher[r] IN
    /\ task.step = "fetching"
    /\ task.asked = {}
    /\ catalog' = Replaced(task.active, task.fresh, task.version)
    /\ refresher' = [refresher EXCEPT ![r] =
           IF task.version # task.previous THEN [task EXCEPT !.step = "persisting"] ELSE AtRest]
    /\ UNCHANGED <<kept, eligible, changes, answering>>

(* SetModelsClientVersion; a failure is only logged.                       *)
PersistVersion(r) ==
    /\ refresher[r].step = "persisting"
    /\ kept' \in {kept, refresher[r].version}
    /\ refresher' = [refresher EXCEPT ![r] = AtRest]
    /\ UNCHANGED <<catalog, eligible, changes, answering>>

(* The server ends and starts again: seed gives it the version that was    *)
(* kept, and watchModels refreshes at once.                                *)
RestartCatalog ==
    /\ changes < MaxChanges
    /\ changes' = changes + 1
    /\ catalog' = Emptied(kept)
    /\ refresher' = [r \in Refreshers |-> AtRest]
    /\ UNCHANGED <<kept, eligible, answering>>

(* Upstream answers every fetch from here on.                              *)
UpstreamRecovers ==
    /\ ~answering
    /\ answering' = TRUE
    /\ UNCHANGED <<catalog, kept, eligible, refresher, changes>>

Refresh(r) ==
    \/ BeginRefresh(r)
    \/ \E a \in Members : FetchAccountModels(r, a)
    \/ ReplaceCatalog(r)
    \/ PersistVersion(r)

CatalogNext ==
    \/ \E r \in Refreshers :
        \/ \E v \in 1..MaxVersion : ClientAsks(r, v)
        \/ WatchModels(r)
        \/ \E a \in Members : PoolChanges(r, a)
        \/ Refresh(r)
    \/ RestartCatalog
    \/ UpstreamRecovers

(* Goroutines run and the ticker ticks; pool and clients need not act.     *)
CatalogFairness ==
    /\ \A r \in Refreshers : WF_catalogVars(Refresh(r))
    /\ SF_catalogVars(\E r \in Refreshers : WatchModels(r))

CatalogSpec == CatalogInit /\ [][CatalogNext]_catalogVars /\ CatalogFairness

-----------------------------------------------------------------------------
(* Properties.                                                             *)

CatalogTypeOK ==
    /\ catalog \in CatalogType
    /\ kept \in Versions
    /\ eligible \subseteq Members
    /\ refresher \in [Refreshers -> RefresherType]
    /\ changes \in 0..MaxChanges
    /\ answering \in BOOLEAN

(* An account whose list is missing or older than the catalog's version is *)
(* asked again after the retry interval, never only an hour later.         *)
StaleListsAreRetried ==
    (\E a \in catalog.active : catalog.lists[a] < catalog.version)
        => catalog.left <= RetryInterval

(* Lists only get better.  An older client, a late refresh or a failed one *)
(* never withdraws what a newer client discovered: while an account stays  *)
(* in the catalog its list is never replaced by one of an older version,   *)
(* and neither is the version that a restart will start from.  And while a *)
(* list could still get better, it is soon asked for.                      *)
ListsImprove ==
    [][/\ StaleListsAreRetried'
       /\ kept' >= kept
       /\ changes' = changes =>
            \A a \in Members : a \in catalog'.active => catalog'.lists[a] >= catalog.lists[a]]_catalogVars

(* If upstream answers from some time on, the catalog comes to hold the    *)
(* list of every eligible account for its version, and no other list:      *)
(* whatever overlapped, nothing is left out for good.                      *)
CatalogComplete ==
    \A a \in Members : catalog.lists[a] = IF a \in eligible THEN catalog.version ELSE 0

CatalogConverges ==
    <>[](answering /\ catalog.version # 0) => <>[]CatalogComplete
=============================================================================
