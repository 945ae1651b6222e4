--------------------------- MODULE AccountRefresh ---------------------------
(***************************************************************************)
(* The refresh of account credentials (account_refresh.go, account.go).    *)
(*                                                                         *)
(* Many callers may want fresh credentials for one account: requests that  *)
(* were refused with 401, polls, the model catalog.  They share one        *)
(* exchange with the token endpoint.  An exchange is an operation of its   *)
(* own, with its own goroutine: it outlives the callers, persists what it  *)
(* got in SQLite, publishes it in memory, reports a signed-out account,    *)
(* and only then answers those who still wait.  refreshOperations counts   *)
(* the operations, so that the server can join them before it closes       *)
(* SQLite (ServerShutdown).                                                *)
(*                                                                         *)
(* A credential is abstracted to its refresh token, the time of its last   *)
(* refresh and whether it was refused for good.  A login in another        *)
(* process may replace it at any time.                                     *)
(***************************************************************************)
EXTENDS Naturals, FiniteSets

CONSTANTS
    Accounts,     \* account ids
    NoAccount,    \* no account yet
    Callers,      \* goroutines that ask for a refresh
    MaxOps,       \* bound: refresh operations of one process
    MaxClock      \* bound: timestamps

ASSUME RefreshAssumption ==
    /\ NoAccount \notin Accounts
    /\ IsFiniteSet(Callers)
    /\ MaxOps \in Nat
    /\ MaxClock \in Nat

VARIABLES
    memory,        \* memory[a]: Account.accountState in the pool
    stored,        \* stored[a]: the account's row in SQLite
    clock,         \* time.Now, and the last token that was issued
    refused,       \* history: tokens the endpoint refused for good
    inflight,      \* inflight[a]: Account.inflight
    op,            \* op[i]: the i-th accountRefresh and its goroutine
    caller,        \* caller[c]: where caller c is in refreshOwned
    active,        \* refreshOperations.active; idle is closed when it is 0
    stopping,      \* refreshOperations.stopping
    ended,         \* refreshOperations.completion is canceled
    failure,       \* refreshOperations.failure is set
    lifetimeEnded  \* the server's context is canceled

credentialVars == <<memory, stored, clock, refused>>
registryVars == <<active, stopping, ended, failure, lifetimeEnded>>
refreshVars == <<credentialVars, inflight, op, caller, registryVars>>

-----------------------------------------------------------------------------

Ops == 1..MaxOps
NoOp == 0

Credential == [token: Nat, at: Nat, reauth: BOOLEAN]
Unused == [token |-> 0, at |-> 0, reauth |-> FALSE]

(* What the goroutine of an operation does next.                           *)
Steps == {"unborn", "exchange", "persist", "publish", "notify", "close",
          "finish", "done"}
Answers == {"tokens", "refused", "error"}

Operation == [step: Steps,
              account: Accounts \cup {NoAccount},
              waiters: SUBSET Callers,
              abandoned: BOOLEAN,
              from: Credential,   \* the account when it started
              next: Credential,   \* what it will publish
              answer: Answers,    \* of the token endpoint
              lost: BOOLEAN,      \* persisting failed
              err: BOOLEAN,       \* what its waiters are told
              failed: BOOLEAN]    \* completionErr

Registered == {i \in Ops : op[i].step \notin {"unborn", "done"}}
Closed == {i \in Ops : op[i].step \in {"finish", "done"}}

CallerState == [step: {"idle", "waiting", "blocked"},
                account: Accounts \cup {NoAccount},
                op: Ops \cup {NoOp}]

RefreshInit ==
    /\ memory = [a \in Accounts |-> Unused]
    /\ stored = memory
    /\ clock = 0
    /\ refused = {}
    /\ inflight = [a \in Accounts |-> NoOp]
    /\ op = [i \in Ops |-> [step |-> "unborn", account |-> NoAccount,
                            waiters |-> {}, abandoned |-> FALSE,
                            from |-> Unused, next |-> Unused,
                            answer |-> "error", lost |-> FALSE, err |-> FALSE,
                            failed |-> FALSE]]
    /\ caller = [c \in Callers |-> [step |-> "idle", account |-> NoAccount,
                                    op |-> NoOp]]
    /\ active = 0
    /\ stopping = FALSE
    /\ ended = FALSE
    /\ failure = FALSE
    /\ lifetimeEnded = FALSE

-----------------------------------------------------------------------------
(* Callers: refreshOwned.                                                  *)

(* The head of the loop: a caller arrives, or the abandoned operation it   *)
(* waited for is done.                                                     *)
AtLoop(c, a) ==
    \/ caller[c].step = "idle"
    \/ /\ caller[c].step = "blocked"
       /\ caller[c].account = a
       /\ caller[c].op \in Closed

Return(c) == caller' = [caller EXCEPT ![c] = [step |-> "idle",
                                             account |-> NoAccount, op |-> NoOp]]

(* Mutant of WaitForAbandoned: the abandoned operation is forgotten.       *)
ForgetAbandoned(c, a) ==
    /\ AtLoop(c, a)
    /\ inflight[a] # NoOp
    /\ op[inflight[a]].abandoned
    /\ inflight' = [inflight EXCEPT ![a] = NoOp]
    /\ UNCHANGED <<credentialVars, op, caller, registryVars>>

(* An abandoned exchange is on its way: wait until it has finished.        *)
WaitForAbandoned(c, a) ==
    /\ AtLoop(c, a)
    /\ inflight[a] # NoOp
    /\ op[inflight[a]].abandoned
    /\ caller' = [caller EXCEPT ![c] = [step |-> "blocked", account |-> a,
                                        op |-> inflight[a]]]
    /\ UNCHANGED <<credentialVars, inflight, op, registryVars>>

(* Mutant of JoinRefresh: an abandoned exchange takes waiters again.       *)
JoinAnyRefresh(c, a) ==
    /\ AtLoop(c, a)
    /\ inflight[a] # NoOp
    /\ op' = [op EXCEPT ![inflight[a]].waiters = @ \cup {c}]
    /\ caller' = [caller EXCEPT ![c] = [step |-> "waiting", account |-> a,
                                        op |-> inflight[a]]]
    /\ UNCHANGED <<credentialVars, inflight, registryVars>>

(* The first waiter's exchange serves whoever comes while it runs.         *)
JoinRefresh(c, a) ==
    /\ AtLoop(c, a)
    /\ inflight[a] # NoOp
    /\ ~op[inflight[a]].abandoned
    /\ op' = [op EXCEPT ![inflight[a]].waiters = @ \cup {c}]
    /\ caller' = [caller EXCEPT ![c] = [step |-> "waiting", account |-> a,
                                        op |-> inflight[a]]]
    /\ UNCHANGED <<credentialVars, inflight, registryVars>>

(* The server is ending, or the account is signed out.                     *)
RefuseRefresh(c, a) ==
    /\ AtLoop(c, a)
    /\ inflight[a] = NoOp
    /\ lifetimeEnded \/ memory[a].reauth \/ stopping
    /\ Return(c)
    /\ UNCHANGED <<credentialVars, inflight, op, registryVars>>

(* Mutant of Launch: the operation is not counted.                         *)
LaunchUncounted(c, a, i) ==
    /\ op[i].step = "unborn"
    /\ inflight' = [inflight EXCEPT ![a] = i]
    /\ op' = [op EXCEPT ![i] = [@ EXCEPT !.step = "exchange", !.account = a,
                                         !.waiters = {c}, !.from = memory[a]]]
    /\ caller' = [caller EXCEPT ![c] = [step |-> "waiting", account |-> a,
                                        op |-> i]]
    /\ UNCHANGED <<credentialVars, registryVars>>

(* The caller registers an operation and becomes its first waiter.         *)
Launch(c, a, i) ==
    /\ op[i].step = "unborn"
    /\ active' = active + 1
    /\ inflight' = [inflight EXCEPT ![a] = i]
    /\ op' = [op EXCEPT ![i] = [@ EXCEPT !.step = "exchange", !.account = a,
                                         !.waiters = {c}, !.from = memory[a]]]
    /\ caller' = [caller EXCEPT ![c] = [step |-> "waiting", account |-> a,
                                        op |-> i]]
    /\ UNCHANGED <<credentialVars, stopping, ended, failure, lifetimeEnded>>

(* Mutant of StartRefresh: registration stays open while stopping.         *)
StartWhileStopping(c, a, i) ==
    /\ AtLoop(c, a)
    /\ inflight[a] = NoOp
    /\ ~lifetimeEnded /\ ~memory[a].reauth
    /\ Launch(c, a, i)

StartRefresh(c, a, i) ==
    /\ AtLoop(c, a)
    /\ inflight[a] = NoOp
    /\ ~lifetimeEnded /\ ~memory[a].reauth /\ ~stopping
    /\ Launch(c, a, i)

(* done is closed: the caller takes the operation's error.                 *)
TakeAnswer(c) ==
    /\ caller[c].step = "waiting"
    /\ caller[c].op \in Closed
    /\ op' = [op EXCEPT ![caller[c].op].waiters = @ \ {c}]
    /\ Return(c)
    /\ UNCHANGED <<credentialVars, inflight, registryVars>>

(* The caller's own context ends: a client left or its wait was too long.  *)
(* The last one to leave abandons the operation and cancels its exchange.  *)
GiveUp(c) ==
    LET i == caller[c].op
        left == op[i].waiters \ {c} IN
    /\ \/ /\ caller[c].step = "waiting"
          /\ op' = [op EXCEPT ![i].waiters = left,
                              ![i].abandoned = @ \/ ( /\ left = {}
                                                      /\ inflight[op[i].account] = i)]
       \/ /\ caller[c].step = "blocked"
          /\ UNCHANGED op
    /\ Return(c)
    /\ UNCHANGED <<credentialVars, inflight, registryVars>>

-----------------------------------------------------------------------------
(* The goroutine of an operation.                                          *)

Goes(i, next) == op' = [op EXCEPT ![i] = next]

(* The result is in memory: only its error, if any, is still of interest.  *)
Published(o) == [o EXCEPT !.step = "notify", !.next = Unused,
                          !.answer = "error", !.lost = FALSE]

(* exchangeRefreshToken: new tokens, a permanent refusal, or an error; a   *)
(* canceled exchange may end in any of them.  finishRefresh stamps new     *)
(* tokens before it waits for storage.  The endpoint rotates tokens.       *)
Exchange(i) ==
    LET from == op[i].from
        got(answer, next) ==
            Goes(i, [op[i] EXCEPT !.step = IF answer = "error" THEN "publish"
                                                               ELSE "persist",
                                  !.answer = answer, !.next = next,
                                  !.err = answer # "tokens"]) IN
    /\ op[i].step = "exchange"
    /\ \/ /\ clock < MaxClock
          /\ clock' = clock + 1
          /\ got("tokens", [token |-> clock', at |-> clock', reauth |-> FALSE])
          /\ UNCHANGED refused
       \/ /\ got("refused", [from EXCEPT !.reauth = TRUE])
          /\ refused' = refused \cup {from.token}
          /\ UNCHANGED clock
       \/ /\ got("error", from)
          /\ UNCHANGED <<clock, refused>>
    /\ UNCHANGED <<memory, stored, inflight, caller, registryVars>>

(* applyPersisted: older credentials in SQLite do not replace newer ones.  *)
Adopted(mine, next) == IF next.at < mine.at THEN mine ELSE next

Reconciled(rows) == [a \in Accounts |-> Adopted(memory[a], rows[a])]

(* persistAccountState: a newer row stays, and is what gets published.     *)
(* Storing fails when SQLite refuses, when the completion budget of 30     *)
(* seconds is over, and always after the shutdown canceled completions.    *)
Row(i) == LET row == stored[op[i].account] IN
          IF row.at > op[i].next.at THEN row ELSE op[i].next

Persist(i) ==
    /\ op[i].step = "persist"
    /\ \/ /\ ~ended
          /\ stored' = [stored EXCEPT ![op[i].account] = Row(i)]
          /\ memory' = Reconciled(stored')
          /\ Goes(i, [op[i] EXCEPT !.step = "publish", !.next = Row(i)])
       \/ /\ Goes(i, [op[i] EXCEPT !.step = "publish", !.lost = TRUE,
                                   !.err = TRUE, !.failed = TRUE])
          /\ UNCHANGED <<memory, stored>>
    /\ UNCHANGED <<clock, refused, inflight, caller, registryVars>>

(* Mutant of Superseded: what the exchange could not store counts as done. *)
SupersededByAny(i) == memory[op[i].account].token # op[i].next.token

(* Mutant of Superseded: a login while the exchange ran is overlooked.     *)
NeverSuperseded(i) == FALSE

(* The account in memory has moved on to other credentials.                *)
Superseded(i) ==
    LET mine == memory[op[i].account] IN
    /\ mine.token # op[i].from.token
    /\ op[i].lost \/ mine.token # op[i].next.token

Publish(i) ==
    LET a == op[i].account IN
    /\ op[i].step = "publish"
    /\ \/ /\ Superseded(i)
          /\ Goes(i, [Published(op[i]) EXCEPT !.err = FALSE, !.failed = FALSE])
          /\ UNCHANGED memory
       \/ /\ ~Superseded(i)
          /\ Goes(i, Published(op[i]))
          /\ memory' = [memory EXCEPT ![a] =
                 CASE op[i].answer = "refused" -> [@ EXCEPT !.reauth = op[i].next.reauth]
                   [] op[i].answer = "tokens" /\ ~op[i].lost -> op[i].next
                   [] OTHER -> @]
    /\ UNCHANGED <<stored, clock, refused, inflight, caller, registryVars>>

(* The completed callback invalidates a signed-out account; it gives up    *)
(* when its budget ends while it waits for routeOwnership.                 *)
Notify(i) ==
    /\ op[i].step = "notify"
    /\ \/ /\ memory[op[i].account].reauth
          /\ Goes(i, [op[i] EXCEPT !.step = "close", !.err = TRUE, !.failed = TRUE])
       \/ /\ memory[op[i].account].reauth => ~ended
          /\ Goes(i, [op[i] EXCEPT !.step = "close"])
    /\ UNCHANGED <<credentialVars, inflight, caller, registryVars>>

(* done is closed; a caller may now start another operation.               *)
Close(i) ==
    /\ op[i].step = "close"
    /\ inflight' = [inflight EXCEPT ![op[i].account] = NoOp]
    /\ Goes(i, [op[i] EXCEPT !.step = "finish", !.abandoned = FALSE])
    /\ UNCHANGED <<credentialVars, caller, registryVars>>

(* What is left of an operation without its goroutine; a failure before    *)
(* the shutdown was logged, and nobody is told of it any more.             *)
Gone(i) == [op[i] EXCEPT !.step = "done", !.from = Unused, !.err = FALSE,
                         !.failed = @ /\ stopping]

(* Mutant of Finish: the count returns with the answer to the waiters,     *)
(* before the goroutine has reported its failure.                          *)
FinishQuietly(i) ==
    /\ op[i].step = "finish"
    /\ active' = active - 1
    /\ Goes(i, Gone(i))
    /\ UNCHANGED <<credentialVars, inflight, caller, stopping, ended, failure,
                   lifetimeEnded>>

(* Mutant of Finish: the operation counts until its waiters have left.     *)
FinishLast(i) ==
    /\ op[i].step = "finish"
    /\ op[i].waiters = {}
    /\ active' = active - 1
    /\ failure' = (failure \/ (stopping /\ op[i].failed))
    /\ Goes(i, Gone(i))
    /\ UNCHANGED <<credentialVars, inflight, caller, stopping, ended, lifetimeEnded>>

(* operations.finish: the last thing the goroutine does.                   *)
Finish(i) ==
    /\ op[i].step = "finish"
    /\ active' = active - 1
    /\ failure' = (failure \/ (stopping /\ op[i].failed))
    /\ Goes(i, Gone(i))
    /\ UNCHANGED <<credentialVars, inflight, caller, stopping, ended, lifetimeEnded>>

-----------------------------------------------------------------------------
(* Other writers of credentials.                                           *)

(* A login, here or in another process, replaces the account's row.        *)
Login(a) ==
    /\ clock < MaxClock
    /\ clock' = clock + 1
    /\ stored' = [stored EXCEPT ![a] = [token |-> clock', at |-> clock',
                                        reauth |-> FALSE]]
    /\ UNCHANGED <<memory, refused, inflight, op, caller, registryVars>>

(* The pool watcher adopts what SQLite holds.                              *)
Reload ==
    /\ memory' = Reconciled(stored)
    /\ memory' # memory
    /\ UNCHANGED <<stored, clock, refused, inflight, op, caller, registryVars>>

-----------------------------------------------------------------------------

AskRefresh(c) ==
    \E a \in Accounts :
        \/ WaitForAbandoned(c, a)
        \/ JoinRefresh(c, a)
        \/ RefuseRefresh(c, a)
        \/ \E i \in Ops : StartRefresh(c, a, i)

Work(i) ==
    \/ Exchange(i)
    \/ Persist(i)
    \/ Publish(i)
    \/ Notify(i)
    \/ Close(i)
    \/ Finish(i)

RefreshNext ==
    \/ \E i \in Ops : Work(i)
    \/ \E c \in Callers : TakeAnswer(c) \/ GiveUp(c)
    \/ \E a \in Accounts : Login(a)
    \/ Reload

-----------------------------------------------------------------------------
(* Properties of the credentials and the operations.                       *)

(* An account has one operation at a time between registration and the     *)
(* answer to its waiters, even when callers abandon it and others come:    *)
(* the token endpoint never sees one refresh token twice at once           *)
(* (account_refresh.go:13-14).                                             *)
OneExchange ==
    \A i, j \in Registered \ Closed :
        op[i].account = op[j].account => i = j

(* Whoever waits is counted by a live operation or has its answer ready,   *)
(* and nobody waits for an exchange that was canceled: the decision to     *)
(* abandon and the decision to join exclude each other.                    *)
NobodyIsForgotten ==
    \A c \in Callers : caller[c].step = "waiting" =>
        LET i == caller[c].op IN
        /\ i # NoOp
        /\ c \in op[i].waiters
        /\ i \notin Closed => inflight[op[i].account] = i /\ ~op[i].abandoned

(* A credential is marked as signed out only if that very token was        *)
(* refused: a login that crosses a failing exchange survives it, in        *)
(* memory and in SQLite.                                                   *)
OnlyRefusedSignOut ==
    \A a \in Accounts :
        /\ memory[a].reauth => memory[a].token \in refused
        /\ stored[a].reauth => stored[a].token \in refused

(* A caller that is told of success finds newer credentials than those it  *)
(* complained about, also when the success is a login that superseded the  *)
(* exchange.                                                               *)
SuccessIsFresh ==
    \A i \in Registered \cap Closed :
        ~op[i].err => memory[op[i].account].at > op[i].from.at

(* A refresh can be shared: one exchange for all, and an answer for each,  *)
(* in whatever order callers join, leave, abandon and come back.           *)
ExchangeIsShared == OneExchange /\ NobodyIsForgotten

(* A login that crosses an exchange is not undone: not by a refusal of the *)
(* old token, not by a reload, not by tokens that were persisted before it *)
(* and are published after it; and callers get what is newer.              *)
LoginSurvives ==
    [][/\ OnlyRefusedSignOut'
       /\ SuccessIsFresh'
       /\ \A a \in Accounts : memory'[a].at >= memory[a].at]_refreshVars
=============================================================================
