---------------------------- MODULE AccountLogin ----------------------------
(***************************************************************************)
(* Adding an account from the browser (accounts_http.go, device_login.go). *)
(*                                                                         *)
(* The accounts page shows the code of a device login, and every page      *)
(* shows the same one while it is active.  The page that created the login *)
(* starts a goroutine that polls the issuer until the code is approved,    *)
(* exchanges what it gets, and adds the account to the pool.  Pages keep   *)
(* asking how the login went.                                              *)
(*                                                                         *)
(* Logins are numbered in the order in which the issuer grants them.       *)
(***************************************************************************)
EXTENDS Naturals, FiniteSets

CONSTANTS
    Pages,      \* handlers of the accounts page
    MaxLogins   \* bound: device authorizations that the issuer grants

ASSUME LoginAssumption == IsFiniteSet(Pages) /\ MaxLogins \in Nat

VARIABLES
    logins,   \* accountLoginStore: active (0 is nil) and completed
    page,     \* page[p]: where the handler is, its login, whether it created it
    poller,   \* poller[n]: completeAccountLogin of login n
    granted,  \* the last login that the issuer granted
    added     \* history: logins whose account is in the pool

loginVars == <<logins, page, poller, granted, added>>

-----------------------------------------------------------------------------

Logins == 1..MaxLogins
NoLogin == 0

LoginStep == {"none", "polling", "exchange", "add", "added", "failed", "ended"}
NoPage == [step |-> "none", login |-> NoLogin, created |-> FALSE]

LoginInit ==
    /\ logins = [active |-> NoLogin, completed |-> FALSE]
    /\ page = [p \in Pages |-> NoPage]
    /\ poller = [n \in Logins |-> "none"]
    /\ granted = 0
    /\ added = {}

(* accountLoginStatus: what a page that polls it is told.                  *)
LoginStatus == IF logins.completed THEN "completed"
               ELSE IF logins.active # NoLogin THEN "active" ELSE "failed"

-----------------------------------------------------------------------------
(* The accounts page.                                                      *)

ShowLogin(p, n, created) ==
    page' = [page EXCEPT ![p] = [step |-> "render", login |-> n, created |-> created]]

(* Mutant of JoinLogin: the check for an active login is missing.          *)
JoinLoginUnchecked(p) ==
    /\ page[p].step = "none"
    /\ ShowLogin(p, logins.active, FALSE)
    /\ UNCHANGED <<logins, poller, granted, added>>

(* getOrCreate returns the active login to every page.                     *)
JoinLogin(p) ==
    /\ page[p].step = "none"
    /\ logins.active # NoLogin
    /\ ShowLogin(p, logins.active, FALSE)
    /\ UNCHANGED <<logins, poller, granted, added>>

(* Mutant of CreateLogin: the outcome of the last login is kept.           *)
CreateLoginKeeping(p) ==
    /\ page[p].step = "none"
    /\ logins.active = NoLogin
    /\ granted < MaxLogins
    /\ granted' = granted + 1
    /\ logins' = [logins EXCEPT !.active = granted']
    /\ ShowLogin(p, granted', TRUE)
    /\ UNCHANGED <<poller, added>>

(* getOrCreate holds the store's mutex while it asks the issuer, so the    *)
(* request and its effect are one step; a failed request changes nothing.  *)
CreateLogin(p) ==
    /\ page[p].step = "none"
    /\ logins.active = NoLogin
    /\ granted < MaxLogins
    /\ granted' = granted + 1
    /\ logins' = [active |-> granted', completed |-> FALSE]
    /\ ShowLogin(p, granted', TRUE)
    /\ UNCHANGED <<poller, added>>

PageShown(p) ==
    /\ page[p].step = "render"
    /\ page' = [page EXCEPT ![p] = NoPage]
    /\ poller' = IF page[p].created THEN [poller EXCEPT ![page[p].login] = "polling"]
                 ELSE poller
    /\ UNCHANGED <<logins, granted, added>>

(* Mutant of PageFails: the login of a page that failed stays active.      *)
PageFailsHolding(p) ==
    /\ page[p].step = "render"
    /\ page' = [page EXCEPT ![p] = NoPage]
    /\ UNCHANGED <<logins, poller, granted, added>>

(* Mutant of PageFails: any page that fails releases its login.            *)
PageFailsReleasing(p) ==
    /\ page[p].step = "render"
    /\ page' = [page EXCEPT ![p] = NoPage]
    /\ logins' = IF logins.active = page[p].login
                 THEN [logins EXCEPT !.active = NoLogin] ELSE logins
    /\ UNCHANGED <<poller, granted, added>>

(* release: only the page that created the login, while it is active.      *)
PageFails(p) ==
    /\ page[p].step = "render"
    /\ page' = [page EXCEPT ![p] = NoPage]
    /\ logins' = IF page[p].created /\ logins.active = page[p].login
                 THEN [logins EXCEPT !.active = NoLogin] ELSE logins
    /\ UNCHANGED <<poller, granted, added>>

-----------------------------------------------------------------------------
(* completeAccountLogin.                                                   *)

Advance(n, from, to) ==
    /\ poller[n] = from
    /\ poller' = [poller EXCEPT ![n] = to]
    /\ UNCHANGED <<logins, page, granted>>

(* The poll ends with an answer, or with the 15 minutes of a login.  The   *)
(* exchange has no deadline: the client waits a limited time for response  *)
(* headers, but as long as the server runs for the body that follows.      *)
PollAuthorization(n) == Advance(n, "polling", "exchange") /\ UNCHANGED added
ExchangeCode(n) == Advance(n, "exchange", "add") /\ UNCHANGED added
AddAccount(n) == Advance(n, "add", "added") /\ added' = added \cup {n}

LoginFails(n) ==
    /\ \E step \in {"polling", "exchange", "add"} : Advance(n, step, "failed")
    /\ UNCHANGED added

(* finish: the outcome counts while the login is active.                   *)
FinishLogin(n) ==
    /\ poller[n] \in {"added", "failed"}
    /\ poller' = [poller EXCEPT ![n] = "ended"]
    /\ logins' = IF logins.active = n
                 THEN [active |-> NoLogin, completed |-> poller[n] = "added"]
                 ELSE logins
    /\ UNCHANGED <<page, granted, added>>

RunPoller(n) == PollAuthorization(n) \/ ExchangeCode(n) \/ AddAccount(n) \/ LoginFails(n)

LoginNext ==
    \/ \E p \in Pages : JoinLogin(p) \/ CreateLogin(p) \/ PageShown(p) \/ PageFails(p)
    \/ \E n \in Logins : RunPoller(n) \/ FinishLogin(n)

(* A handler renders its page, the poll has its 15 minutes, and adding an  *)
(* account is a bounded wait for SQLite.  Nothing obliges the issuer to    *)
(* let an exchange end.                                                    *)
LoginFairness ==
    /\ \A p \in Pages : WF_loginVars(PageShown(p) \/ PageFails(p))
    /\ \A n \in Logins :
         WF_loginVars(poller[n] # "exchange" /\ (RunPoller(n) \/ FinishLogin(n)))

LoginSpec == LoginInit /\ [][LoginNext]_loginVars /\ LoginFairness

-----------------------------------------------------------------------------
(* Properties.                                                             *)

LoginTypeOK ==
    /\ logins \in [active: Logins \cup {NoLogin}, completed: BOOLEAN]
    /\ page \in [Pages -> {NoPage} \cup [step: {"render"}, login: Logins, created: BOOLEAN]]
    /\ poller \in [Logins -> LoginStep]
    /\ granted \in Nat
    /\ added \subseteq Logins

(* Only the code that pages show is being polled, by one goroutine: no     *)
(* account enters the pool through a login that was given up.              *)
OneCodeIsPolled ==
    \A n \in Logins : poller[n] \notin {"none", "ended"} => logins.active = n

(* A page that is told its login completed finds an account in the pool:   *)
(* the outcome is never that of an earlier login, and never comes early.   *)
CompletedMeansAdded == LoginStatus = "completed" => granted \in added /\ logins.active = NoLogin

(* Pages, pollers and the pool agree on which login there is and how it    *)
(* went.                                                                   *)
LoginIsShared == OneCodeIsPolled /\ CompletedMeansAdded

(* Every login ends, so that the page offers a new code at last: whatever  *)
(* fails gives the store back.  This rests on the issuer: it must not      *)
(* leave the exchange of the login hanging.  exchangeCodeAt sets no        *)
(* deadline and nothing reads expiresAt, so a response whose body never    *)
(* ends would keep the login, and its used code, until a restart.          *)
LoginsEnd ==
    \A n \in Logins :
        []<>(poller[n] # "exchange") => (logins.active = n ~> logins.active # n)
=============================================================================
