-------------------------- MODULE AccountLifecycle --------------------------
(***************************************************************************)
(* How an account that is paused, signed out or removed takes its live     *)
(* sockets down with it.                                                   *)
(*                                                                         *)
(* Account state lives in SQLite and in the server's pool (pool_store.go). *)
(* Three writers change it: another process (the accounts command), an     *)
(* admin or the TUI in the server, and the completion of a credential      *)
(* refresh (account.go).  The pool watcher, the admin and the refresh each *)
(* end in invalidateAccountContext (proxy.go), which detaches the sockets  *)
(* of the account from activeWebSocketRegistry and then posts to the       *)
(* mailbox of each relay (websocket_relay.go).                             *)
(*                                                                         *)
(* Claims are left to RouteOwnership, and so are turns beyond the first.   *)
(* An account that was signed out or removed does not come back.           *)
(***************************************************************************)
EXTENDS Naturals, Sequences, FiniteSets

CONSTANTS
    Accounts,   \* account ids
    Sockets,    \* downstream WebSockets, each connected once
    NoAccount,  \* the empty account id
    Writers,    \* who changes accounts: "cli", "admin", "refresh"
    Mailbox     \* capacity of a relay's invalidations channel

ASSUME LifecycleAssumption ==
    /\ NoAccount \notin Accounts
    /\ Writers \subseteq {"cli", "admin", "refresh"}
    /\ Mailbox \in Nat \ {0}

VARIABLES
    stored,     \* stored[a]: account a in SQLite
    pool,       \* pool[a]: account a in the server's memory
    fetched,    \* fetched[a]: what a refresh of a persisted and will publish
    due,        \* accounts about to be passed to invalidateAccountContext
    byAccount,  \* activeWebSocketRegistry: the registered <<socket, account>>
    callbacks,  \* <<socket, account>> detached, callback not called yet
    relay       \* relay[s]: the relay of socket s

vars == <<stored, pool, fetched, due, byAccount, callbacks, relay>>

-----------------------------------------------------------------------------

States == {"in", "paused", "signed out", "removed"}
NotFetched == "none"

(* A relay registers, checks its account, runs; it dials another account   *)
(* for its first turn, moves its registration there and checks again.      *)
Phases == {"new", "dialed", "registered", "running", "dialing", "switching",
           "moved", "closing", "closed"}

Relay == [phase: Phases,
          account: Accounts \cup {NoAccount},   \* r.current.account
          previous: Accounts \cup {NoAccount},  \* the account switched from
          pinned: BOOLEAN,                      \* the first turn was sent
          mail: Seq(Accounts)]                  \* r.invalidations

Init ==
    /\ stored = [a \in Accounts |-> "in"]
    /\ pool = [a \in Accounts |-> "in"]
    /\ fetched = [a \in Accounts |-> NotFetched]
    /\ due = {}
    /\ byAccount = {}
    /\ callbacks = {}
    /\ relay = [s \in Sockets |-> [phase |-> "new", account |-> NoAccount,
                                   previous |-> NoAccount, pinned |-> FALSE,
                                   mail |-> <<>>]]

accountVars == <<stored, pool, fetched>>
invalidationVars == <<due, byAccount, callbacks>>

(* accountRoutable.                                                        *)
Routable(a) == pool[a] = "in"

-----------------------------------------------------------------------------
(* Accounts.                                                               *)

(* updatePause, updateRoutingMode and remove in the SQLite transaction;    *)
(* pausing twice is allowed.                                               *)
Settable(a, st) ==
    \/ stored[a] \in {"in", "paused"} /\ st \in {"in", "paused"}
    \/ stored[a] # "removed" /\ st = "removed"

(* Another process edits SQLite.                                           *)
EditStored(a, st) ==
    /\ "cli" \in Writers
    /\ Settable(a, st)
    /\ stored' = [stored EXCEPT ![a] = st]
    /\ UNCHANGED <<pool, fetched, invalidationVars, relay>>

(* mutateContext: the whole pool is reconciled with the result of the      *)
(* transaction, and what reconcile reports is dropped.                     *)
Mutate(next) == stored' = next /\ pool' = next

(* An admin or the TUI changes an account, then invalidates it unless it   *)
(* was resumed.                                                            *)
AdminSet(a, st) ==
    /\ "admin" \in Writers
    /\ Settable(a, st)
    /\ Mutate([stored EXCEPT ![a] = st])
    /\ due' = IF st = "in" THEN due ELSE due \cup {a}
    /\ UNCHANGED <<fetched, byAccount, callbacks, relay>>

(* finishRefresh persists the result of the exchange: new tokens, or a     *)
(* permanent refusal.  It keeps what the transaction returned.             *)
RefreshPersist(a, permanent) ==
    LET st == IF permanent THEN "signed out" ELSE stored[a] IN
    /\ "refresh" \in Writers
    /\ fetched[a] = NotFetched
    /\ pool[a] \in {"in", "paused"}
    /\ stored[a] # "removed"
    /\ Mutate([stored EXCEPT ![a] = st])
    /\ fetched' = [fetched EXCEPT ![a] = st]
    /\ UNCHANGED <<invalidationVars, relay>>

(* Mutant of RefreshPublish: a refused refresh invalidates nothing.        *)
PublishQuietly(a) ==
    /\ fetched[a] # NotFetched
    /\ pool' = [pool EXCEPT ![a] = IF @ = "removed" THEN @ ELSE fetched[a]]
    /\ fetched' = [fetched EXCEPT ![a] = NotFetched]
    /\ UNCHANGED <<stored, invalidationVars, relay>>

(* It then overwrites the account in memory with it, whatever happened to  *)
(* the account meanwhile, and the completion callback invalidates an       *)
(* account that needs a new sign-in.                                       *)
RefreshPublish(a) ==
    /\ fetched[a] # NotFetched
    /\ pool' = [pool EXCEPT ![a] = IF @ = "removed" THEN @ ELSE fetched[a]]
    /\ due' = IF fetched[a] = "signed out" THEN due \cup {a} ELSE due
    /\ fetched' = [fetched EXCEPT ![a] = NotFetched]
    /\ UNCHANGED <<stored, byAccount, callbacks, relay>>

(* accountBecameUnavailable, and the accounts that are gone.               *)
BecameUnavailable == {a \in Accounts : stored[a] \notin {"in", pool[a]}}

(* The watcher: reload, then an invalidation for every such account.       *)
Poll ==
    /\ pool # stored
    /\ pool' = stored
    /\ due' = due \cup BecameUnavailable
    /\ UNCHANGED <<stored, fetched, byAccount, callbacks, relay>>

-----------------------------------------------------------------------------
(* Invalidation.                                                           *)

SocketsOn(a) == {e \in byAccount : e[2] = a}

(* Mutant of Invalidate: the sockets stay registered.                      *)
InvalidateKeepsSockets(a) ==
    /\ a \in due
    /\ due' = due \ {a}
    /\ callbacks' = callbacks \cup SocketsOn(a)
    /\ UNCHANGED <<accountVars, byAccount, relay>>

(* invalidateAccountContext up to the unlock: detachAccount.               *)
Invalidate(a) ==
    /\ a \in due
    /\ due' = due \ {a}
    /\ byAccount' = byAccount \ SocketsOn(a)
    /\ callbacks' = callbacks \cup SocketsOn(a)
    /\ UNCHANGED <<accountVars, relay>>

(* One callback: it blocks on a full mailbox, unless the relay's context   *)
(* is done.                                                                *)
Deliver(s, a) ==
    /\ <<s, a>> \in callbacks
    /\ callbacks' = callbacks \ {<<s, a>>}
    /\ IF relay[s].phase \in {"closing", "closed"}
       THEN UNCHANGED relay
       ELSE /\ Len(relay[s].mail) < Mailbox
            /\ relay' = [relay EXCEPT ![s].mail = Append(@, a)]
    /\ UNCHANGED <<accountVars, due, byAccount>>

-----------------------------------------------------------------------------
(* The relay.                                                              *)

At(s, phase) == relay[s].phase = phase
Goto(s, phase) == relay' = [relay EXCEPT ![s].phase = phase]

(* The dial succeeded and found its account routable.                      *)
Connect(s, a) ==
    /\ At(s, "new")
    /\ Routable(a)
    /\ relay' = [relay EXCEPT ![s].phase = "dialed", ![s].account = a]
    /\ UNCHANGED <<accountVars, invalidationVars>>

(* registerActiveSocket, the first thing run does.                         *)
Register(s) ==
    /\ At(s, "dialed")
    /\ byAccount' = byAccount \cup {<<s, relay[s].account>>}
    /\ Goto(s, "registered")
    /\ UNCHANGED <<accountVars, due, callbacks>>

(* Mutant of CheckSetup: the account is not checked again.                 *)
RunUnchecked(s) ==
    /\ At(s, "registered")
    /\ Goto(s, "running")
    /\ UNCHANGED <<accountVars, invalidationVars>>

(* The check after it: an invalidation that came before the registration   *)
(* has left its mark in the pool.                                          *)
CheckSetup(s) ==
    /\ At(s, "registered")
    /\ Goto(s, IF Routable(relay[s].account) THEN "running" ELSE "closing")
    /\ UNCHANGED <<accountVars, invalidationVars>>

(* The first turn goes out on the current account.                         *)
SendFirstTurn(s) ==
    /\ At(s, "running")
    /\ ~relay[s].pinned
    /\ IF Routable(relay[s].account)
       THEN relay' = [relay EXCEPT ![s].pinned = TRUE]
       ELSE Goto(s, "closing")
    /\ UNCHANGED <<accountVars, invalidationVars>>

(* ensureCompatibleAccount: the loop waits for another handshake and reads *)
(* no mail.                                                                *)
DialReplacement(s) ==
    /\ At(s, "running")
    /\ ~relay[s].pinned
    /\ Goto(s, "dialing")
    /\ UNCHANGED <<accountVars, invalidationVars>>

(* The dial finds another account or gives up, within its timeouts.        *)
Dialed(s) ==
    /\ At(s, "dialing")
    /\ \/ \E b \in Accounts \ {relay[s].account} :
            /\ Routable(b)
            /\ relay' = [relay EXCEPT ![s].phase = "switching",
                                      ![s].previous = relay[s].account,
                                      ![s].account = b]
       \/ Goto(s, "closing")
    /\ UNCHANGED <<accountVars, invalidationVars>>

(* Mutant of MoveSocket: a registration that is still there is not moved.  *)
RegisterAgain(s) ==
    /\ At(s, "switching")
    /\ byAccount' = byAccount \cup {<<s, relay[s].account>>}
    /\ Goto(s, "moved")
    /\ UNCHANGED <<accountVars, due, callbacks>>

(* activeWebSockets.move, or a new registration when the old one was       *)
(* detached meanwhile.                                                     *)
MoveSocket(s) ==
    /\ At(s, "switching")
    /\ byAccount' = (byAccount \ {<<s, relay[s].previous>>})
                        \cup {<<s, relay[s].account>>}
    /\ Goto(s, "moved")
    /\ UNCHANGED <<accountVars, due, callbacks>>

(* The check after the move; then the turn that asked for it is sent.      *)
CheckSwitch(s) ==
    /\ At(s, "moved")
    /\ relay' = [relay EXCEPT ![s].phase = IF Routable(relay[s].account)
                                           THEN "running" ELSE "closing",
                              ![s].pinned = TRUE]
    /\ UNCHANGED <<accountVars, invalidationVars>>

(* Mutant of Receive: mail is read only until the first turn.              *)
ReceiveUnpinned(s) ==
    /\ At(s, "running")
    /\ ~relay[s].pinned
    /\ relay[s].mail # <<>>
    /\ relay' = [relay EXCEPT ![s].mail = Tail(@),
                              ![s].phase = IF Head(relay[s].mail) = relay[s].account
                                           THEN "closing" ELSE @]
    /\ UNCHANGED <<accountVars, invalidationVars>>

(* The loop takes an invalidation; one for another account is ignored.     *)
Receive(s) ==
    /\ At(s, "running")
    /\ relay[s].mail # <<>>
    /\ relay' = [relay EXCEPT ![s].mail = Tail(@),
                              ![s].phase = IF Head(relay[s].mail) = relay[s].account
                                           THEN "closing" ELSE @]
    /\ UNCHANGED <<accountVars, invalidationVars>>

(* Every other end of the loop.                                            *)
Leave(s) ==
    /\ At(s, "running")
    /\ Goto(s, "closing")
    /\ UNCHANGED <<accountVars, invalidationVars>>

(* close, after the context was cancelled.                                 *)
Close(s) ==
    /\ At(s, "closing")
    /\ byAccount' = byAccount \ {<<s, relay[s].account>>}
    /\ Goto(s, "closed")
    /\ UNCHANGED <<accountVars, due, callbacks>>

-----------------------------------------------------------------------------

(* What a relay's goroutine does by itself, without a client or upstream.  *)
Progress(s) ==
    \/ Register(s) \/ CheckSetup(s) \/ Dialed(s) \/ MoveSocket(s)
    \/ CheckSwitch(s) \/ Receive(s) \/ Close(s)

Client(s) ==
    \/ \E a \in Accounts : Connect(s, a)
    \/ SendFirstTurn(s) \/ DialReplacement(s) \/ Leave(s)

Writes(a) ==
    \/ \E st \in States : EditStored(a, st) \/ AdminSet(a, st)
    \/ \E permanent \in BOOLEAN : RefreshPersist(a, permanent)

Next ==
    \/ \E a \in Accounts : Writes(a) \/ RefreshPublish(a) \/ Invalidate(a)
    \/ Poll
    \/ \E s \in Sockets : Client(s) \/ Progress(s)
    \/ \E s \in Sockets, a \in Accounts : Deliver(s, a)

(* The watcher ticks, started invalidations and refreshes run to their     *)
(* end, dials time out, and the relay's select does not starve its         *)
(* mailbox.  Nobody is obliged to connect, to edit or to leave.            *)
Fairness ==
    /\ WF_vars(Poll)
    /\ \A a \in Accounts : WF_vars(Invalidate(a)) /\ WF_vars(RefreshPublish(a))
    /\ \A s \in Sockets : WF_vars(Progress(s))
    /\ \A s \in Sockets, a \in Accounts : WF_vars(Deliver(s, a))

Spec == Init /\ [][Next]_vars /\ Fairness

-----------------------------------------------------------------------------
(* Properties.                                                             *)

(* Every variable has its type; the mailboxes respect their capacity.      *)
TypeOK ==
    /\ stored \in [Accounts -> States]
    /\ pool \in [Accounts -> States]
    /\ fetched \in [Accounts -> States \cup {NotFetched}]
    /\ due \subseteq Accounts
    /\ byAccount \subseteq Sockets \X Accounts
    /\ callbacks \subseteq Sockets \X Accounts
    /\ relay \in [Sockets -> Relay]
    /\ \A s \in Sockets : Len(relay[s].mail) <= Mailbox

InMail(s, a) == \E n \in 1..Len(relay[s].mail) : relay[s].mail[n] = a

(* The invalidation of a is about to start, its callback is on its way to  *)
(* s, or the news is in the mailbox of s.                                  *)
Reached(s, a) == a \in due \/ <<s, a>> \in callbacks \/ InMail(s, a)

(* A relay that runs on an account that another process paused or removed  *)
(* will be told as soon as the pool knows.  The order of registering and   *)
(* checking, in run and in switchAccount, is what makes it so.             *)
RelayIsReached ==
    \A s \in Sockets : At(s, "running") /\ ~Routable(relay[s].account) =>
        Reached(s, relay[s].account)

(* An account that cannot come back takes every relay with it, also while  *)
(* refreshes and admins overwrite each other's view of the account: the    *)
(* relay is reached, at the latest when the refused refresh completes.     *)
GoneAccountIsReached ==
    \A s \in Sockets :
        At(s, "running") /\ pool[relay[s].account] \in {"signed out", "removed"} =>
            \/ Reached(s, relay[s].account)
            \/ fetched[relay[s].account] = "signed out"

(* An invalidation never waits for a relay that is busy with a dial, and   *)
(* the dial may itself be waiting for the refresh that invalidates: the    *)
(* mailbox has room for every callback, because detaching ends a           *)
(* registration and a socket registers at most twice.                      *)
DeliveryNeverBlocks ==
    \A e \in callbacks : At(e[1], "closing") \/ At(e[1], "closed")
                            \/ Len(relay[e[1]].mail) < Mailbox

(* The registry follows the sockets: a socket has at most one              *)
(* registration, on the account it runs on or switches from, and none      *)
(* after its end.                                                          *)
RegistryFollowsSockets ==
    \A e \in byAccount :
        /\ relay[e[1]].phase \notin {"new", "dialed", "closed"}
        /\ e[2] = IF At(e[1], "switching") THEN relay[e[1]].previous
                  ELSE relay[e[1]].account

(* Types and registry together.                                            *)
LifecycleInv == TypeOK /\ RegistryFollowsSockets

(* "Existing connections restart so clients can reconnect to another       *)
(* account" (README.md): when an account stays paused, signed out or       *)
(* removed in SQLite, the time comes when no relay runs on it any more.    *)
PausedAccountDrains ==
    \A a \in Accounts :
        <>[](stored[a] # "in") =>
            <>[](\A s \in Sockets : At(s, "running") => relay[s].account # a)
=============================================================================
