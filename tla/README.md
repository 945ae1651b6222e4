# A verification model of codex-balancer

codex-balancer is a Go server that stands between Codex clients and a pool of
ChatGPT accounts. It places every conversation on an account, keeps it there,
moves it only when the account can no longer serve it, and survives accounts
that are paused, signed out, rate limited or removed while sockets are open.
This directory holds TLA+ modules for the parts of the server where that is
hard, the TLC configurations that check them, and TLAPS proofs.

## 1. Inventory

| Component | State | Operations | Talks to | Correct when |
|---|---|---|---|---|
| Claim registry, `route_claims.go` | `byID`, `byKey`, `barriers`, `next`; a handle per connection | selectAccount, release, commit, acceptSwitch, clearBarriers, preserve, transfer, invalidateAccount | pool selection through a callback | indexes and counters agree; one claim per conversation; a departing socket harms no other |
| Response routing and acceptance, `responses_routing.go`, `responses_accounting.go` | durable owners read at the start, skip set, `moved`, `acceptedAt` | newResponseAccountRouter, claimAccount, claimReplacement, acceptResponseRoute, preserveResponseOwner | registry, SQLite, `routeOwnership` lock | an accepted response takes the route; a boundary between accounts survives crossing writes and a restart |
| WebSocket dialer and relay, `websocket_dial.go`, `websocket_relay.go` | current account, pinned flag, invalidations mailbox | dial, handleFailure, run, switchAccount, ensureCompatibleAccount, handleResponseCreate, close | everything above, live-socket registry | no relay keeps a dead account; no invalidation waits for a relay |
| HTTP forwarding, `responses_upstream_http.go` | one turn | selectHTTPAccount, forwardHTTPResponse | routing | as for a socket with one turn |
| Account pool, `pool.go`, `credit_routing.go`, `routing_retry.go` | quota, cooldowns, ranking | route, allowedAccounts, retry hints | catalog, usage | owner precedence; credits last; no wait hint in the past |
| Pool persistence and watcher, `pool_store.go`, `state/store.go` | SQLite tables, the pool in memory | mutateContext, reload, reconcile, watch, upsertRouteOwners | other processes through SQLite | every account that became unavailable is reported once |
| Credential refresh, `account.go`, `account_refresh.go`, `refresh_operations.go` | one exchange per account, its waiters | begin, wait, finishRefresh, completion callback, stop | pool, invalidation | one exchange at a time; all published before SQLite closes |
| Live-socket registry, `active_websockets.go` | sockets by account | add, move, remove, detachAccount | relay, invalidation | follows the sockets |
| Account invalidation, `proxy.go` | none of its own | invalidateAccountContext | registry, SQLite, sockets | final for claims and sockets |
| Admission and drain, `admission.go`, `listener.go` | permits, drain flag | acquire, release, drain | HTTP server | permits come back; the drain ends |
| Model catalog, `models.go` | models by account | refresh, merge | upstream | merged list is the union of the accounts' lists |
| Settings, `settings.go` | fast-mode policy | reloadSettings, watchSettings | relays | a change reaches every relay |
| Usage polling, `usage.go`, `credits.go` | quota and credits by account, credit points by time | poll, markExhausted, addCredits, since | pool, upstream | a poll never hides an account for good; an interval's credits are the sum of its points |
| Statistics and pricing, `stats.go`, `price_catalog.go`, `api_key_costs.go` | month totals, price snapshot, ledger, live threads, open sockets | record, reprice, roll over, prune, ledger read | SQLite, relays, admin pages | each event counted once, at the current prices; live counters agree with the connections |
| Tools and transcription, `tools_http.go`, `transcription_http.go` | skip and retry sets of one request | proxyTool, transcribe | pool, refresh | bounded; nothing sent twice; one retry per account |
| Account login, `accounts_http.go`, `device_login.go` | the active login, its outcome | accounts page, completeAccountLogin, status | issuer, pool | one code is polled; every login ends unless the issuer leaves its exchange hanging |
| Log rotation, `internal/logrotate/log.go` | the open file, dated archives | open, write, rotate, compress, retain | file system | no accepted line is lost before its time; logging resumes |
| Admin, commands | sessions, flags | handlers | pool, settings, SQLite | account edits reach sockets |
| Dashboards, telemetry | screens | | | input and output |

The hard behaviours: reads of SQLite that are used after a lock is taken later;
a handle that outlives its claim; timestamps taken before a lock and written
after it; account changes by three independent writers; a notification that
must find a socket which is just being registered or moved; a bounded mailbox
whose reader is inside a dial; a shared exchange whose waiters come and go; a
shutdown that must outlive what it stops; prices that change under arriving
usage; failed SQLite writes, failed file operations; restarts. `PROJECT.json`
lists each of them at its line, with the properties that guard it.

## 2. Modules and the code

Every definition carries a comment that names the function it models, and
`PROJECT.json` gives the lines.

### RouteClaims

One operator per critical section of `routeClaimRegistry.mu`. The variables are
the fields of the Go struct: `byID`, `byKey`, `barriers`, `next`, plus `claim`
(the `routeClaim` records) and `handle` (the handle of each connection whose
`sync.Once` is unspent). `selectAccount` is split by outcome into `JoinClaim`
and `CreateClaim`; the account that is picked, and the moment a connection
releases, commits, preserves or transfers, are left to the environment, so the
module is the registry's contract. Thread ids and session ids share one
namespace, as in `byKey`. A turn on a connection without a thread header may
accept a thread that the turn's metadata names (`AcceptedKeySets`).

### RouteOwnership

Extends RouteClaims with the rest of a conversation's way: SQLite rows
(`routes`, with the timestamp that `upsertRouteOwners` compares), account
statuses, accounts whose invalidation has not run (`pending`), and one record
per connection. The phases of a connection are the points where its goroutine
can be overtaken: between the two reads of `newResponseAccountRouter`, before
the selection, during the handshake, before the relay starts, after a switch,
around a turn, between `response.created` and the lock, and inside
`acceptResponseRoute` between the SQLite write and the commit. The
`routeOwnership` lock is held by a connection in phase `accepting`; all its
other critical sections are single actions guarded by `OwnershipFree`.

`Owners` is the precedence of `ROUTING.md` and of the code: claim, barrier and
durable owner of the thread, then of the session. `Picks` gives the accounts
that `route` may return for it.

### AccountLifecycle

How an account that is paused, signed out or removed takes its sockets down.
`stored` is SQLite, `pool` the server's memory, `fetched` what a refresh has
persisted and not yet published, `due` the invalidations about to run,
`byAccount` the live-socket registry, `callbacks` the sockets detached but not
yet told, and each relay has a phase, an account and a mailbox. The writers are
the accounts command (`EditStored`), an admin or the dashboard (`AdminSet`) and
a refresh (`RefreshPersist`, `RefreshPublish`). The phases of a relay separate
registration from the check that follows it, in `run` and in `switchAccount`.

### AccountRefresh, ServerShutdown, RefreshContract

AccountRefresh is the life of a credential refresh. `inflight[a]` is the
exchange other callers join, `op[i]` a refresh and its goroutine, whose steps
are the points where it may be overtaken: before and after the exchange, the
write to SQLite, the publication in memory, the report of a signed-out account
and the answer to its waiters. `memory` and `stored` are the credential in the
pool and in SQLite; `Login` and `Reload` bring in the credentials of another
login. `refreshOperations` is `active`, `stopping`, `ended` and `failure`. What
an operation writes and publishes is decided against the row and the memory it
finds then (`Row`, `Superseded`), not against what it started with.

ServerShutdown extends it with the permits and the drain of `admissionGate` and
the order of `serverCmd`: drain or give up, stop registrations, cancel, join,
close SQLite. A request may return at any time, time-outs may strike at any
time.

RefreshContract is the abstract specification: an account has one holder,
nothing starts once registration is shut, SQLite closes when nobody uses it. It
has no callers, tokens, time-outs, permits or drain. `Contract` in
ServerShutdown is the refinement mapping: `holder <- inflight`,
`running <- Registered`, `open <- ~stopping`, `closed <- server = "closed"`.

### PoolRouting

What the pool believes of an account (quota, cooldown, credits) and what a
request does with it: `PickAccount` is `route` with its precedence of owners,
`Allowed` is `allowedAccounts`, `RetryAt` the hint that a refused client gets. The request
is the loop of `proxyTool` or of the transcription handler, with its bound, its
skip set and its single refresh per account. Meanwhile polls, rate-limit
headers, an admin's reset and time change the pool. A cooldown is the time left
of it, with the moment of its end (0) told apart from the past.

### The housekeeping modules

Each is one part of the server whose state no other modelled part touches.

* **LogRotation**: `current` and `archives` are the directory, `log` the open
  log and how far its running call has come. Every call of the file system is
  a step that may fail; `Stop` ends the process between any two of them.
* **ModelCatalog**: a list stands for the client version it was fetched for.
  Refreshes by requests, by the ticker and by the pool watcher take turns under
  `refreshMu`; `kept` is the version in SQLite, from which a restart begins.
* **Settings**: `policy` with its notification channel, the worker that polls
  the row, the form that saves it, the command that writes it from another
  process, and relays that have captured a policy.
* **UsageBooks**: `usage` is the table, `books` the running totals, `recorder`
  an event between SQLite and the totals, `repricer` a new price list between
  its steps, `ledger` the totals of the API keys read in batches.
* **LiveThreads**: `threads`, `liveThreads` and `wsOpen` of `Stats`, and the
  reports of each connection: request, response, retry on another account,
  close, prune.
* **RoutedCredits**: `addRoutedCredits`, with late points and the cut of old
  ones, and the interval sum of `routedCreditsSince`.
* **AccountRanking**: the loop of `selectFreshAccount`, one comparison a step,
  over every order of the accounts.
* **AccountLogin**: the login that all pages share, the poller of each login,
  and what the pages are told.

### MC modules

MCRouteClaims, MCRouteOwnership, MCAccountLifecycle, MCServerShutdown and
MCPoolRouting hold model values, routes and symmetry sets for TLC.
MCHousekeeping checks the eight housekeeping modules in one run: its variable
`focus` is chosen in the initial state, the part it names moves and the others
rest. As the parts share no variable, an interleaving of two of them shows
nothing that each alone does not; the run's states are the sum, not the
product (section 5, `PartsRunAsAlone`). Fairness is stated for each part.

### Proof modules

RouteClaimsProofs, RouteOwnershipProofs, AccountLifecycleProofs,
ServerShutdownProofs, PoolRoutingProofs, LogRotationProofs, StatisticsProofs
for LiveThreads, UsageBooks and RoutedCredits, and HousekeepingProofs for
Settings, ModelCatalog, AccountLogin, AccountRanking and for MCHousekeeping as a
whole; see section 5.

### Abstractions

* A connection has at most one turn in flight, and all its turns ask for one
  model. Each connection of RouteOwnership may reconnect without bound; each
  socket of AccountLifecycle connects once.
* Quota is reduced to what `route` can tell apart (`AllStatuses`); a poll or an
  admin may set any status at any time. The ranking among fresh accounts is
  left open, so every account the ranking could prefer is explored.
* SQLite is atomic per call. With `StoreMayFail` any write may be lost.
* Time is the counter `clock`: only the order of timestamps matters.
* In AccountLifecycle an account that was signed out or removed does not come
  back, several invalidations of one account that have not started are one
  (`due` is a set), and callbacks are called in any order.
* In AccountRefresh a credential is its token, the time of its last refresh and
  whether it was refused; tokens are numbered as they are issued.
* In UsageBooks every event has the same usage, so its cost is the price; in
  RoutedCredits credits are small numbers. Decimal arithmetic is left out.
* In LogRotation a size is a number of lines and a compressed archive has size
  one. Opening a file and writing to it succeed or fail together, and the
  temporary `.log-*.gz` that a crash leaves behind is not a file of the model, so
  `MaintainTidies` speaks of archives only.
* The catalog of RouteOwnership knows every account's list (`Serves`): it allows
  the accounts that serve the model, or all when none of them is usable. While an
  available account has no list yet the code allows all of them
  (`models.go:93-95`); that case is left out there.
* In PoolRouting the rejection for credits and the mark on the account
  (`tools_http.go:103-104`) take the locks one after the other and are one step.
* In ServerShutdown a listener that fails starts no drain; its failure during a
  drain that a signal began is left out.
* In LiveThreads the two counter calls of `SwitchRelay` are one step; between
  them a screen could see the socket on no account.
* Bodies, frames, SSE, headers and the text of log lines are left out.

## 3. Runs

| Run | Configuration | Distinct states | What it shows |
|---|---|---|---|
| RouteClaims | 3 connections of one session (2 threads, one without session header), 2 accounts, 2 claims | 0.3 million | `RegistryInv`, `OneClaimPerConversation` under every order of the registry's operations, transfers included |
| OwnershipThread | 2 sockets of a thread; available, spent, out; 3 timestamps | 1.3 million | `BarriersHold` (durable, and respected by the next claim), `NoOrphanClaim`, `DepartureKeepsPeers` |
| OwnershipMixed | a socket and an HTTP request of one session, failing writes; available, cooling, credits | 0.6 million | `OwnershipInv`, `AcceptanceTakesRoute` |
| OwnershipSwitching | 2 sockets whose models live on different accounts, failing writes, accounts that go out | 0.8 million | `InvalidationIsFinal` across a switch, and `ClaimsSpec`: the server implements the registry's specification, and with it `OneClaimPerConversation` |
| LifecycleWatcher | the accounts command, 1 socket, 2 accounts | 28 thousand | `RelayIsReached`, and the liveness property `PausedAccountDrains` |
| LifecycleServer | admin and refreshes, 2 sockets, 2 accounts | 4.1 million | `DeliveryNeverBlocks`, `GoneAccountIsReached`, `LifecycleInv` |
| ServerShutdown | 1 account, a request and a background caller, 1 permit, 2 refreshes | 1.0 million | `ExchangeIsShared` (one exchange, no waiter forgotten), `LoginSurvives` (a login that crosses a refresh is not undone), `ExitTellsLoss`, `DrainIsComplete`, `ShutdownEnds`, and `ContractHolds`: the detailed server implements RefreshContract, so nothing uses SQLite after it closed |
| PoolRouting | 2 accounts, one with credits; all statuses and catalogs a poll can bring | 0.27 million | `HintKept`, `BoundIsEnough` and `RequestsEnd` (the loop ends, and never hides an account), `RepeatsAreSafe` (no double send, one retry per account), `CreditsLast` |
| Housekeeping | see the bounds below | 0.58 million | `LinesAreKept`, `MaintainTidies`; `ListsImprove`, `CatalogConverges`; `ChangesArrive`, `SettingsReachRelays`; `BooksAgree`; `ThreadsAreTrue`; `SinceIsTheSum`; `SelectedAsPromised`; `LoginIsShared`, `LoginsEnd` |
| OwnershipOldClaim, OwnershipTransferBack, LifecycleLostPause | the smallest instance that shows it | | disagreements, section 4 |

**Bounds.** Two accounts are enough to tell "the owner" from "another one", and
a claim can move away and back between them. Two sockets give every race
between a connection and one competitor; the registry run has a third, because
a key can be reached through thread or session. `MaxClaims` bounds the claims a
process creates (2: a claim and its replacement), `MaxRefs` the joins of one
claim, `MaxClock` the timestamps (3: an acceptance, a preservation that crosses
it, and an acceptance after that). `Mailbox` is the capacity in the code, 4.
In ServerShutdown a second refresh (`MaxOps` 2) is what a waiter that joins too
late starts, and two ticks of `MaxClock` allow one token from the exchange and
one from a login elsewhere. In PoolRouting a cooldown lasts one or two ticks, so
that one can end while another runs. In Housekeeping: 4 log lines over 2 days
with files of 2 lines (a rotation by size, by day, and both in a row); 2
accounts, 2 refreshers and 2 client versions in the catalog; 3 modes, 2 relays
and 2 writes of the setting; 2 usage events, 2 months, one new price list and
ledger batches of 1; 2 connections on 1 thread and 2 accounts; 4 credit points
at 3 instants; 3 accounts to rank, in every order and with every combination of
candidates; 2 pages and 3 logins.
A bound only disables steps that would exceed it; no run stops at a bound
before the cases above happen, and the mutants of `PROJECT.json` show for every
property that the run reaches the case in which it would fail.

**Symmetry** is used only in runs without liveness properties, over accounts
and connections that the constants of the run treat alike.

**Deadlock** is checked in the RouteClaims, RouteOwnership and PoolRouting runs.
In AccountLifecycle all accounts may be removed and all sockets closed, a
server that has shut down does nothing more, and the housekeeping parts come to
rest at their bounds: nothing is left to do, so those configurations do not
check it.

**Fairness.** In AccountLifecycle: weak fairness of `Poll`: the
watcher is a ticker that runs as long as the server. Of `Invalidate`,
`RefreshPublish` and `Deliver`: these are goroutines that have already been
started, and the lock and the mailbox they wait for become free (the latter is
`DeliveryNeverBlocks`). Of a relay's own steps: handshakes have timeouts, and
Go's `select` picks among ready cases at random, so a ready mailbox is not
passed over for ever. Nobody is obliged to connect, edit, refresh or leave.
The model gives every invalidation the `routeOwnership` lock in the end; in the
code an invalidation from a refresh completion gives up when its context ends,
which is what the first disjunct of `Notify` in AccountRefresh models and `ExitTellsLoss`
is about.

In ServerShutdown: weak fairness of the operations' `Work`, whose exchange runs
in a context of 30 seconds (`refreshTimeout`) and whose completion has a budget
of 30 seconds more, and of `Proceed`, the straight line of `serverCmd`.
Clients and handlers owe nothing; `ShutdownEnds` holds because the drain has a
timeout of its own. In PoolRouting: weak fairness of `Proceed`, the request's
own loop, whose every wait has a deadline. In Housekeeping: weak fairness of a
refresh, a reload, a save, a relay and an accounts page that have begun, and of
a login poller except in its exchange; strong
fairness of the tickers that begin a catalog refresh or a reload, because they
wait for a mutex (`refreshMu`, `settingsMu`) that others take and release again,
and Go's mutex hands itself to a waiter that starves. A reload may fail any
number of times but not always (strong fairness of `ReadRow`); the next tick
tries again. Nobody is obliged to write,
restart, connect or open a page.

The exception of the login poller is the code's. The poll runs in a context of
15 minutes and adding an account waits at most for SQLite, but `exchangeCodeAt`
runs in the context of the server, and the client bounds only the wait for
response headers. `LoginsEnd` therefore states its assumption about the issuer:
a login whose exchange does not hang ends. Without that premise TLC shows the
poller that stays in its exchange.

## 4. Where the code and its documents disagree

Three runs are expected to end with a counterexample. Each states a sentence of
the documentation.

* **OwnershipOldClaim / `NewOwnerStays`.** A committed claim lives on, keys
  remembered, while joined sockets hold references. When one of them preserves
  its owner, or its account is invalidated, those keys become barriers and rows
  of the old account, over a replacement accepted since. `ROUTING.md:240-241`:
  "A replacement account takes ownership after `response.created`. Recovery of
  the old owner's quota leaves the new route in place."
* **OwnershipTransferBack / `DepartureKeepsPeers`.** Handles are matched by
  claim id and account. After a claim moved away and back, the handle of a
  socket left behind is valid again, and its release ends the claim under
  another socket. Without transfers the property holds (OwnershipThread).
* **LifecycleLostPause / `PausedAccountDrains`.** `mutateContext` reconciles the
  whole pool and drops what `reconcile` reports. A pause by the accounts command
  that a refresh in the server picks up before the watcher is never turned into
  an invalidation, so the sockets of the paused account stay. `README.md:45`:
  "Existing connections restart so clients can reconnect to another account."
  With the accounts command as the only writer the property holds
  (LifecycleWatcher).

More were met while modelling and have no run of their own. On routing:

* The durable owners are read before the registry is locked. An acceptance in
  between leaves neither claim nor durable owner visible, and the thread is
  placed afresh; with a third connection, one that joins the claim made that way
  passes even a barrier, so `BarriersHold` speaks of the connection that makes
  the first claim behind it. `ROUTING.md:90-91` limits fresh placement to "a session tree with neither
  an accepted route nor a provisional claim".
* A refused `transfer` has spent the handle's `once`, so the socket's close
  releases nothing and a committed claim keeps a reference nobody holds
  (`ROUTING.md:181-183`). `NoOrphanClaim` is therefore checked where nobody
  transfers; it fails in OwnershipSwitching.
* The early return for a durable owner precedes the conflict check, so a
  recovered owner is used next to a live claim on another account
  (`ROUTING.md:179-180`).
* A connection that joins a claim takes the claim's prior owner for its own. A
  thread with an accepted owner that is resumed in another session joins a
  sibling's fresh claim and is sent to its account without the replay check
  (`ROUTING.md:4-6`).
* An owner in cooldown that cannot serve the requested model still blocks its
  conversation until the cooldown ends. The retry after it may find another
  account, or wait again: with two durable owners the stronger one blocks first
  although it does not offer the model, and after its cooldown a weaker one that
  was hidden behind it blocks for its own. `HintKept` says exactly that: after
  the hinted time some account is found, or the wait is for a weaker owner.
* A usage poll that was asked before a rejection and answered after it takes
  back that the account has spent its quota or its credits (`credit_routing.go`);
  the next rejection repairs it.

On the rest of the server:

* Archives are compressed in the order of their names. After a crash that left
  two of them uncompressed the newer one gets the earlier modification time and
  may be removed first. `TestRotatingLogRemovesOldestFilesOverTotalLimit`
  speaks of the oldest.
* While closing and reopening keep failing the log can grow past its limit, and
  a temporary `.log-*.gz` that a crash leaves behind is never removed.
* `invalidate` during a running catalog refresh is overwritten by its merge when
  the set of accounts has not changed; the next refresh then comes an interval
  later. A client version that could not be persisted is not written again until
  a newer one is adopted.
* If the page that created a login cannot be rendered after another page has
  shown the same code, nobody polls that code. The outcome is global, so a page
  that shows an older code is told of the newer login.
* The exchange of an approved code has no deadline (`login.go:203-213`, called
  with the server's context): if the issuer sends headers and then stalls the
  body, the login stays active and every page shows its used code until a
  restart. `expiresAt` of the login is set and never read. No document promises
  that the browser login ends, so this is not a finding; `LoginsEnd` names the
  assumption.

## 5. Proofs

All theorems hold for any sets of accounts, keys and connections and for any
bounds; the assumptions are the named `ASSUME` of each module, which only give
the constants their types, keep the null values apart from the proper ones,
make the sets that are counted finite, and (in RouteOwnership) say that the
connections whose first turn may switch accounts are the sockets whose model is
not on every account. The bounds of the runs are any numbers here.

* `RegistryCorrect`: `ClaimsSpec => []RegistryInv`. `KeyIndexConsistent` is not
  inductive: to remove a claim without leaving a key behind, its counter must be
  positive and its id must not be issued again (`IdsIssued`). To prove that two
  connections of a conversation share a claim one needs to know where a handle
  leads: `HandlesFollowKeys` says that a handle on a live, undecided claim, even
  one on the claim's former account, names the claim its own strongest key leads
  to. The conjunction is inductive: one lemma per operation, with
  `RemoveRegistry` and `KeepRegistry` shared by those that remove a claim or
  leave the index alone.
* `ClaimsTypeCorrect`, `KeyIndexCorrect`, `OneClaimCorrect` follow from it.
* `OwnershipCorrect`: `Spec => []OwnershipInv`. The invariant adds to
  `RegistryInv` the types of the other variables and `PhasesSound`, what a phase
  promises to the step that leaves it: a dial has an account, which the transfer
  that ends it needs, and an acceptance has keys of its own route, which the
  commit needs. `StepRefines` shows that every step is a step of the registry,
  so `NextRegistry` is used instead of a second proof of `RegistryInv`.
* `OwnershipRefinesClaims`: `Spec => ClaimsSpec`, from `StepRefines` and the
  invariant.
* `OwnershipOneClaim` carries `OneClaimPerConversation` over to the whole server
  through the refinement.
* `NoOrphanCorrect` and `PeersKept`, where no first turn switches accounts
  (`Switchers = {}`): `CountInv` says that a live claim's references are the
  cardinality of the set of handles that name it. A transfer sets the count to
  one whatever the number of handles, which is why the assumption is needed.
  `OwnershipNoOrphan` and `OwnershipPeersKept` carry both over to the server.
* `OwnershipFinal`: `Spec => []InvalidationIsFinal`, with switches. `FinalInv`
  adds that a live claim is on a proper account. A step of a connection leaves a
  claim where it is (`Stays`), moves it to an account that is routable (`Moves`),
  or takes it along in a switch and has its check to make (`Follows`).
* `OwnershipTaken`: where no first turn switches, `Spec => AcceptanceTakesRoute`.
  `AcceptInv` says that one connection at a time is inside
  `acceptResponseRoute`, that its claim stays active until it commits (this needs
  `CountInv`: others may release, but never the last reference), and that SQLite
  has its route or a newer one. `WhileHeld` lists what others can do meanwhile.
* `BoundariesHold`: where in addition SQLite does not fail, `Spec =>
  BarriersHold`. `BoundaryInv` says that no timestamp, written or in flight, is
  ahead of the clock, so a preservation always wins its row, and that a barrier
  which is not its key's row belongs to an acceptance about to clear it.
  `BarrierIsPrior` shows that selection finds the barrier first when no claim
  holds a key. A failed write loses the row, hence the assumption.
* `LifecycleCorrect`: `Spec => []LifecycleInv` of AccountLifecycle. The types and
  `RegistryFollowsSockets` are inductive together with `HasAccount`: what
  registers has an account.
* `WatcherReaches`: if `Writers = {"cli"}`, then `Spec => []RelayIsReached`. The
  strengthening is `RegisteredOrTold`: from its registration on, a relay is in
  the registry, or its detachment left a callback or a message. So an
  invalidation that starts finds every relay of its account, and `SocketReach`
  shows that a relay which runs after any step was either just checked or was
  running before and keeps what reached it.
* `ServerReaches`: if no other process writes, `Spec => []GoneAccountIsReached`.
  On top of `RegisteredOrTold` it needs `GoneIsKnown`: SQLite and the pool agree
  on accounts that are gone, and no refresh in flight can bring one back. The
  assumption is needed: with the accounts command as another writer, a removal
  can be lost as in LifecycleLostPause.
* `DeliveriesPass`: if `Mailbox >= 2`, then `Spec => []DeliveryNeverBlocks`. The code
  has four places. The invariant `RoomInv` counts, per relay, the registrations it
  may still make (two at its start, one until it has switched), the one in force,
  the callbacks to it and its mail: each step of a relay, an invalidation and a
  delivery only move an account from one to the next, so the sum stays at most 2.
* ServerShutdownProofs: `TypeOK`, `ExchangeIsShared`, `ClosedIsQuiet`,
  `DrainIsComplete`, `LoginSurvives` and `ExitTellsLoss` of the whole server, and
  `ContractImplemented`, the refinement. `OneExchange` needs `Linked` (an
  operation that has not answered is the one its account points at, and no other)
  and `NobodyIsForgotten` needs `Waits` (who waits, waits for an operation that was
  launched). `Counted` says that `active` is the
  number of operations that are registered, which turns the join (`active = 0`) into
  `ClosedIsQuiet`; `GateCounted` does the same for permits and the drain.
  `Ordered` says which stages of the shutdown imply that registration is shut.
  Each step of the server is then shown to be a step of RefreshContract or a
  stutter.
  `LoginSurvives` needs to know what an operation carries (`CarriedInv`): a
  credential anywhere was issued by now and is signed out only if refused
  (`Known`); an operation began with credentials that its account has not gone
  back behind (`StartSound`); an answer on its way is newer than they are
  (`AnswerSound`). Publishing is then safe because an account that was not
  superseded still has the credentials the operation began with, or those it just
  stored. `ExitTellsLoss` needs `ToldInv`: a failure stays with its operation
  until `Finish` hands it to `failure`, which `CloseStore` reads when nothing is
  left to work.
* PoolRoutingProofs: `TypeOK`, `BoundIsEnough`, `RepeatsAreSafe`, `CreditsLast`
  and `HintKept`. The first three come from an invariant of the loop. `Spending`
  counts: each try of a tool request ends in a refusal or in the one refresh of
  its account, so the tries are at most the skipped accounts and the refreshed
  ones together, and at twice the number of accounts everybody was skipped.
  `Seen` says where an account is that has seen the request: skipped, refreshed,
  or trying it now. `CreditsLast` and `HintKept` are about `route`. An owner's
  claim on its conversation does not depend on its cooldown, so the owner waited
  for is ready when its wait is over (`AfterWaiting`); the accounts the hint is
  computed from are never empty and one of them becomes routable then
  (`HintIsAnEnd`, `RoutableIsPlaced`); and whoever blocks now was a holder
  before and not the strongest (`WaitsForStrongest`), hence weaker.
* LogRotationProofs: `LinesAreKept` and `MaintainTidies`. `Names` says that a
  file is recognised by its name: two archives with one day and number are an
  original and its copy and hold the same lines, and no line is in two files
  otherwise. It needs `FreeNumber`, a pigeonhole argument that `nextArchivePath`
  finds a number that is neither an archive nor a compressed one, and
  `Numbered`, that the line being written is in no file yet. A step then archives
  the file, copies an archive, removes an original that has a copy, retires an
  archive or appends the line (`Moves`), and only the fourth takes lines from
  disk (`LinesStay`, `LinesRetired`). `Course` says what maintenance has done
  when it gets as far as it is. `Recovery`, for `LoggingResumes`: a line that was
  refused by a sound file system has left the log open, or the server has been
  started again since.
* HousekeepingProofs, Settings: `ChangesArrive`, from `StaleRelayIsTold` and
  `PolicyFollowsRow`. The invariant says
  what a worker that holds `settingsMu` knows (`WorkerKnows`: at rest the policy
  is the row, between read and apply the mode it carries is) and what a relay
  has captured (`RelayKnows`: never a channel that is yet to come, and with the
  current channel the current mode).
* HousekeepingProofs, ModelCatalog: `ListsImprove`, a property of every step. `OneHolder` is the mutex, `Tasks` says that a
  running refresh never has an older version than the catalog, `Newest` that
  neither a list nor the persisted version is ahead of it.
* StatisticsProofs, LiveThreads: `ThreadsAreTrue`, from `CountersAgree`, `LiveThreadKept`
  and `SegmentIsOneAccount`.
  The counters are cardinalities of sets of connections (`CountersRight`), which a
  step changes by at most one connection; `TurnsSound` says that an active turn
  holds its thread.
* StatisticsProofs, UsageBooks: `BooksAgree`. `Agrees` states what books are
  right for: a count, for every set of events, of how many of them they hold.
  Applying one event adds one to the counts of the sets it is in
  (`AppliedAgrees`: an event of this month, of the last, of an earlier one, or
  of a month nobody has opened yet), and closing months changes none
  (`SyncedAgrees`); both need `InTime`, that the books are not behind an event
  they hold, for otherwise a month that was closed could still grow. The running
  books hold every event but the one between SQLite and the totals (`Booked`);
  while books are being rebuilt nothing is recorded, so the rebuilt ones, which
  hold the stored events, can replace them (`RepriceRight`). For the ledger,
  one page reads at a time and its month and prices are the ledger's.
* StatisticsProofs, RoutedCredits: `SinceIsTheSum`. The points are in order
  and each sum is the one before and the point's credits (`Adjacent`), but the
  sum before the first point is arbitrary: it is what was cut off, and it
  changes when a point arrives before all others. `Shifted` is the argument: with
  a point inserted, the sums before it and those after it each move by a
  constant, and the two constants differ by its credits. So every difference
  across it grows by them and every other stays (`GrownWindow`). A cut keeps
  the differences that start within the history (`Cutting`), because the point it
  leaves as base is older than that; `Reaches` gives what an interval without
  such a base says of its beginning.

  Both sum over sequences of any length. What their loops compute is proved
  without the induction theorems: a loop has values for every number of steps
  (`LoopValues`), and a claim about them that fails somewhere fails at a least
  number, whose predecessor contradicts it (`LeastNumber`, `Upwards`).
* HousekeepingProofs, AccountLogin: `LoginIsShared`, from `OneCodeIsPolled` and
  `CompletedMeansAdded`. `CreatorOwns`
  says that a page that created a login has the active one and has not started
  its poller, so two pages cannot start two; `LastLogin` and `Outcome`
  say that the store's outcome is that of the last login granted.
* HousekeepingProofs, AccountRanking: `SelectedAsPromised`. Priority is a weak
  order and idleness a total one (`PriorityOrder`, `IdleOrder`). The invariant
  says what each pass has found of the accounts it has seen: after the first the
  least used of those that nobody outranks, and from then on a fixed anchor, so
  that the second pass compares within one set although its best moves.

* `BooksTypes` and `CreditsTypes`: the types of UsageBooks and RoutedCredits,
  which bound how far their sums can go. For the books this follows from what
  is proved of them: they are a count of the stored events (`Agrees`), there are
  at most `MaxUsage` of those (`CountBound`), each at a price of the snapshot
  (`CostBound`); `BooksBounded` adds that prices and months are known ones in
  every place that carries them. For the credits the running sums do not say how
  much was ever added, because a cut leaves them and an early arrival drops the
  base. `CreditsBounded` is inductive instead: after k arrivals every sum is at
  least its own point's credits and at most what k points can have. `SumsGrow` is
  the step: with a point inserted, no sum grows by more than its credits, and one
  that loses the base keeps its own.
* HousekeepingProofs, MCHousekeeping: a step of the whole is a step of one part
  and a stutter of every other (`PartsMove`). So the whole implements the
  specifications of the log, the books, the threads and the credits
  (`PartsRunAsAlone`). The other four keep their invariants in it (`WholeInductive`);
  for Settings, ModelCatalog and AccountLogin the fairness their own
  specifications state is not needed for that, and a ranking at rest never gets
  to its second pass. `HousekeepingTypes` is `TypeOK` of the run,
  `HousekeepingSafe` all its other safety and action properties.

Every invariant and every action property that a passing run checks is a theorem,
under the assumptions named above, which that run satisfies. Model-checked only is liveness, which is outside the
prover's reach: `PausedAccountDrains`, `ShutdownEnds`, `RequestsEnd`,
`CatalogConverges`, `SettingsReachRelays` and `LoginsEnd`.

## 6. Not modelled

The terminal and web dashboards draw snapshots; the keys that change accounts
act like `AdminSet`. Telemetry, redaction, the country lookup and command-line
handling are input and output with no effect on routing. Request bodies, SSE
framing, WebSocket frames and output assembly are data conversions that no
property above depends on; so are decimal prices, the merge of two accounts'
entries for one model, and the JSON of the statistics. The SQLite schema
migrations run once before the server starts. Admin sessions and password
hashing are cryptography and one map under one mutex. The consumption of reset
credits and the browser login of the accounts command are single goroutines
without a competitor inside this process. `PROJECT.json` lists every part with
its status.

## 7. What could follow

* **Conversation ownership**, an abstract specification (the owner of a
  conversation, tombstones, replay demands) that RouteOwnership implements
  where section 4 does not apply.
* Proofs of `AcceptanceTakesRoute` and `BarriersHold` where first turns switch
  accounts: the invariant would have to say which handles a transfer left
  behind, and section 4 shows that one of them can come back to life.
* The consumption of reset credits, with its confirmation by a later poll.
