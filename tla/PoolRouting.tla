---------------------------- MODULE PoolRouting -----------------------------
(***************************************************************************)
(* Which account a request goes to, and for how long it is tried again     *)
(* (pool.go, credit_routing.go, routing_retry.go, tools_http.go,           *)
(* transcription_http.go, usage.go).                                       *)
(*                                                                         *)
(* The pool routes on what it believes of the accounts: quota from usage   *)
(* polls and response headers, cooldowns from rate limits, credits.  A     *)
(* request loops over accounts; meanwhile polls, other requests, an admin  *)
(* and time change what the pool believes.  Upstream answers anything.     *)
(*                                                                         *)
(* A cooldown is the time that is left of it: positive while it lies       *)
(* ahead, 0 when now is exactly its end, Past afterwards.  The ranking of  *)
(* eligible accounts is left open here and is the subject of               *)
(* AccountRanking.                                                         *)
(***************************************************************************)
EXTENDS Integers, FiniteSets

CONSTANTS
    Accounts,      \* account ids
    NoAccount,     \* no account
    Included,      \* accounts with a routable plan
    AllowCredits,  \* accounts whose owner allows to spend credits
    MinCooldown,   \* minCooldown, in ticks
    MaxCooldown,   \* maxCooldown, in ticks
    Snapshots,     \* Snapshots[a]: the usage upstream may report for a
    Catalogs       \* model lists a tool request may find (see Allowed)

(* "full" is a weekly window at 100 %, "unknown" no window seen yet.       *)
Levels == {"unknown", "low", "full"}
Snapshot == [level: Levels, capped: BOOLEAN, funds: BOOLEAN, reached: BOOLEAN]

ASSUME PoolAssumption ==
    /\ IsFiniteSet(Accounts) /\ NoAccount \notin Accounts
    /\ Included \subseteq Accounts
    /\ AllowCredits \subseteq Accounts
    /\ MinCooldown \in Nat \ {0} /\ MaxCooldown \in Nat
    /\ MinCooldown <= MaxCooldown
    /\ Snapshots \in [Accounts -> SUBSET Snapshot]
    /\ Catalogs \subseteq [Accounts -> {"missing", "lacks", "offers"}]

VARIABLES
    account,  \* account[a]: what the pool believes of a
    polled,   \* the account a poll still has to mark as spent
    request   \* the tool or transcription request

vars == <<account, polled, request>>

-----------------------------------------------------------------------------

Past == -1

Account == [open: BOOLEAN,      \* in the pool, not paused, not signed out
            spent: BOOLEAN,     \* markSpent
            level: Levels,      \* the longest quota window
            capped: BOOLEAN,    \* spendLimitReached
            funds: BOOLEAN,     \* credits.spendable
            rejected: BOOLEAN,  \* creditsRejected
            left: Past..MaxCooldown]

Kinds == {"tool", "transcription"}
NoRequest == [step |-> "idle", kind |-> "tool", allowed |-> {}, skip |-> {},
              reauthed |-> {}, tries |-> 0, retry |-> NoAccount,
              account |-> NoAccount, tried |-> {}, resent |-> {},
              unknown |-> FALSE]

Init ==
    /\ account = [a \in Accounts |->
           [open |-> TRUE, spent |-> FALSE, level |-> "unknown", capped |-> FALSE,
            funds |-> FALSE, rejected |-> FALSE, left |-> Past]]
    /\ polled = NoAccount
    /\ request = NoRequest

-----------------------------------------------------------------------------
(* Pool.route.                                                             *)

Exhausted(s) == s.level = "full"

(* Included quota, as far as a cooldown and an unseen window leave open.   *)
Keeps(s, a) == /\ a \in Included
               /\ s.open /\ ~s.spent /\ ~s.capped /\ ~Exhausted(s)
Ready(s) == s.level # "unknown" /\ s.left = Past

Available(s, a) == Keeps(s, a) /\ Ready(s)

CreditAvailable(s, a) ==
    /\ a \in AllowCredits
    /\ s.open /\ s.left = Past /\ ~s.capped /\ ~s.rejected /\ s.funds
    /\ Exhausted(s) \/ a \notin Included

Routable(s, a) == Available(s, a) \/ CreditAvailable(s, a)

Decision(a, blocked) == [account |-> a, blocked |-> blocked]

Eligible(state, skip) == {a \in Accounts \ skip : Available(state[a], a)}
Chargeable(state, skip) == {a \in Accounts \ skip : CreditAvailable(state[a], a)}

(* The first of the owners in S, who are listed from the strongest on.     *)
Strongest(owners, S) ==
    LET hits == {i \in DOMAIN owners : owners[i] \in S} IN
    IF hits = {} THEN NoAccount ELSE owners[CHOOSE i \in hits : \A j \in hits : i <= j]

(* Mutant of Fresh: credits before somebody else's quota.                  *)
CreditsBeforeQuota(state, owners, skip) ==
    IF Chargeable(state, skip) # {} THEN Chargeable(state, skip)
    ELSE IF Eligible(state, skip) # {} THEN Eligible(state, skip)
    ELSE {NoAccount}

(* Included quota throughout the pool, the strongest owner's credits, then *)
(* credits throughout the pool.                                            *)
Fresh(state, owners, skip) ==
    LET funded == Chargeable(state, skip)
        owner == Strongest(owners, funded) IN
    IF Eligible(state, skip) # {} THEN Eligible(state, skip)
    ELSE IF owner # NoAccount THEN {owner}
    ELSE IF funded # {} THEN funded
    ELSE {NoAccount}

(* The decisions the pool may take for a conversation with these owners,   *)
(* the strongest first, when the accounts in skip are out of the question. *)
(* An owner that keeps its quota holds the conversation, even if nobody    *)
(* can serve it before its cooldown ends.                                  *)
Route(state, owners, skip) ==
    LET holders == {a \in Accounts : Keeps(state[a], a) /\ (~Ready(state[a]) \/ a \notin skip)}
        owner == Strongest(owners, holders) IN
    IF owner = NoAccount THEN {Decision(a, NoAccount) : a \in Fresh(state, owners, skip)}
    ELSE IF Ready(state[owner]) THEN {Decision(owner, NoAccount)}
    ELSE {Decision(NoAccount, owner)}

(* modelCatalog.allowedAccounts: catalog[a] tells whether the model list   *)
(* of a is known and offers the model.  When it cannot decide, or nobody   *)
(* available offers the model, every account is allowed.                   *)
Allowed(state, catalog) ==
    LET available == {a \in Accounts : Routable(state[a], a)}
        offers == {a \in Accounts : catalog[a] = "offers"}
    IN  IF (\E a \in available : catalog[a] = "missing") \/ available \cap offers = {}
        THEN Accounts ELSE offers

(* Mutant of Recoveries: accounts that will not be back by then count.     *)
AnyRecovery(state, d, allowed) ==
    {a \in IF d.blocked # NoAccount THEN {d.blocked} ELSE allowed : state[a].left > 0}

(* cooldownRecovery: the accounts that are only waiting for a cooldown.    *)
Recoveries(state, d, allowed) ==
    {a \in IF d.blocked # NoAccount THEN {d.blocked} ELSE allowed :
        state[a].left > 0 /\ Routable([state[a] EXCEPT !.left = Past], a)}

NoHint == 0

(* The earliest of their ends; no hint when there is none, or an account.  *)
RetryAt(state, d, allowed) ==
    LET ends == {state[a].left : a \in Recoveries(state, d, allowed)} IN
    IF d.account # NoAccount \/ ends = {} THEN NoHint
    ELSE CHOOSE t \in ends : \A u \in ends : t <= u

(* server.pickAccount.                                                     *)
PickAccount(state, owners, catalog, skip) ==
    Route(state, owners, skip \cup (Accounts \ Allowed(state, catalog)))

-----------------------------------------------------------------------------
(* What the pool learns.                                                   *)

Learn(a, s) == account' = [account EXCEPT ![a] = s]

Extended(s, ticks) == [s EXCEPT !.left = IF ticks > @ THEN ticks ELSE @]
Spent(s) == [s EXCEPT !.rejected = TRUE, !.spent = TRUE]

(* Mutant of Limited: the header is not bounded.                           *)
Unbounded(s) == {Extended(s, t) : t \in 0..(MaxCooldown + 1)}

(* rateLimited: a Retry-After header within the bounds of a cooldown.      *)
Limited(s) == {Extended(s, t) : t \in MinCooldown..MaxCooldown}

(* observe: headers without windows change nothing.                        *)
Observed(s, a) == {s} \cup {[s EXCEPT !.level = t.level] : t \in
                            {u \in Snapshots[a] : u.level # "unknown"}}

(* adopt: a snapshot brings credits back into play, and clears spent when  *)
(* it shows quota.                                                         *)
Adopt(a, t) ==
    LET s == account[a]
        seen == [s EXCEPT !.capped = t.capped, !.funds = t.funds, !.rejected = FALSE,
                          !.level = IF t.level = "unknown" THEN @ ELSE t.level] IN
    [seen EXCEPT !.spent = @ /\ (seen.level # "low" \/ seen.capped)]

(* pollUsage adopts the snapshot, and then marks a reached limit.          *)
PollUsage(a) ==
    /\ polled = NoAccount
    /\ account[a].open
    /\ \E t \in Snapshots[a] :
        /\ Learn(a, Adopt(a, t))
        /\ polled' = IF t.reached THEN a ELSE NoAccount
    /\ UNCHANGED request

PollMarks ==
    /\ polled # NoAccount
    /\ Learn(polled, [account[polled] EXCEPT !.spent = TRUE])
    /\ polled' = NoAccount
    /\ UNCHANGED request

(* Other requests meet a rate limit, a failure or the end of the quota.    *)
OtherTraffic(a) ==
    /\ \E s \in Limited(account[a]) \cup {Spent(account[a])} : Learn(a, s)
    /\ UNCHANGED <<polled, request>>

(* An admin pauses, resumes, removes or signs in an account.               *)
Administer(a) ==
    /\ Learn(a, [account[a] EXCEPT !.open = ~@])
    /\ UNCHANGED <<polled, request>>

Tick ==
    /\ account' = [a \in Accounts |->
           [account[a] EXCEPT !.left = IF @ = Past THEN Past ELSE @ - 1]]
    /\ UNCHANGED <<polled, request>>

-----------------------------------------------------------------------------
(* proxyTool and transcribe.                                               *)

Go(r) == request' = r

(* The request is over: upstream's answer, its last rejection, or 503.     *)
Answered == [NoRequest EXCEPT !.step = "done"]

Start(kind, catalog) ==
    /\ request.step = "idle"
    /\ Go([NoRequest EXCEPT !.step = "choose", !.kind = kind,
              !.allowed = IF kind = "tool" THEN Allowed(account, catalog) ELSE Accounts])
    /\ UNCHANGED <<account, polled>>

Deliver ==
    /\ request.step = "done"
    /\ Go(NoRequest)
    /\ UNCHANGED <<account, polled>>

(* Mutant of Bound: every account is tried once.                           *)
BoundOnce == Cardinality(Accounts)

(* proxyTool's loop; transcribe's ends when every account is skipped.      *)
Bound == 2 * Cardinality(Accounts)

Chooses == request.step = "choose" /\ (request.kind = "tool" => request.tries < Bound)

Tries == IF request.kind = "tool" THEN request.tries + 1 ELSE 0

(* tried and resent are history: who saw the request, and who saw it twice.*)
Dispatched(a) ==
    [request EXCEPT !.step = "sent", !.account = a, !.retry = NoAccount,
                    !.tries = Tries, !.tried = @ \cup {a},
                    !.resent = @ \cup (request.tried \cap {a})]

(* Mutant of Sent: a transcription does not note whom it tried.            *)
SentUnnoted(a) == Dispatched(a)

(* A transcription skips whom it tries, a tool request whoever refuses.    *)
Sent(a) == [Dispatched(a) EXCEPT !.skip = IF request.kind = "tool" THEN @ ELSE @ \cup {a}]

(* The account whose credentials were refreshed gets its one retry.        *)
Resend ==
    LET a == request.retry IN
    /\ Chooses
    /\ a # NoAccount
    /\ Routable(account[a], a)
    /\ Go(Sent(a))
    /\ UNCHANGED <<account, polled>>

Choose ==
    /\ Chooses
    /\ request.retry = NoAccount \/ ~Routable(account[request.retry], request.retry)
    /\ \E d \in Route(account, <<>>, request.skip) :
        Go(IF d.account = NoAccount THEN Answered
           ELSE IF d.account \in request.allowed THEN Sent(d.account)
           ELSE [request EXCEPT !.skip = @ \cup {d.account}, !.tries = Tries,
                                !.retry = NoAccount])
    /\ UNCHANGED <<account, polled>>

OutOfTries ==
    /\ request.step = "choose"
    /\ request.kind = "tool"
    /\ request.tries = Bound
    /\ Go(Answered)
    /\ UNCHANGED <<account, polled>>

(* Mutant of TransportFailed: another account gets the request.            *)
TransportFailedOver ==
    /\ request.step = "sent"
    /\ Go([request EXCEPT !.step = "choose", !.skip = @ \cup {request.account},
                          !.account = NoAccount, !.unknown = TRUE])
    /\ UNCHANGED <<account, polled>>

(* The connection broke: upstream may have had the whole request.          *)
TransportFailed ==
    /\ request.step = "sent"
    /\ Go([Answered EXCEPT !.unknown = TRUE])
    /\ UNCHANGED <<account, polled>>

RefreshFor(a) ==
    /\ \E seen \in Observed(account[a], a) :
        Learn(a, IF request.kind = "tool" THEN seen ELSE account[a])
    /\ Go([request EXCEPT !.step = "refreshing", !.reauthed = @ \cup {a}])
    /\ UNCHANGED polled

(* Mutant of Unauthorized: credentials are refreshed again and again.      *)
UnauthorizedAlways ==
    /\ request.step = "sent"
    /\ RefreshFor(request.account)

(* 401: refresh once per account, later rejections go to the client.       *)
Unauthorized ==
    /\ request.step = "sent"
    /\ request.account \notin request.reauthed
    /\ RefreshFor(request.account)

Refreshed ==
    LET a == request.account IN
    /\ request.step = "refreshing"
    /\ Go([request EXCEPT !.step = "choose", !.account = NoAccount, !.retry = a])
    /\ UNCHANGED <<account, polled>>

(* A refused tool request skips the account; a transcription did so first. *)
Refuse(a) == [request EXCEPT !.step = "choose", !.account = NoAccount,
                             !.skip = IF request.kind = "tool" THEN @ \cup {a} ELSE @]

(* The refresh took too long, or signed the account out.                   *)
NotRefreshed ==
    LET a == request.account IN
    /\ request.step = "refreshing"
    /\ \E open \in {account[a].open, FALSE} : Learn(a, [account[a] EXCEPT !.open = open])
    /\ Go(Refuse(a))
    /\ UNCHANGED polled

(* 429, or a 403 that tells of a usage limit: another account, if any.     *)
Rejected ==
    LET a == request.account IN
    /\ request.step = "sent"
    /\ \E seen \in Observed(account[a], a) :
        \E s \in Limited(seen) \cup {Spent(seen)} : Learn(a, s)
    /\ Go(Refuse(a))
    /\ UNCHANGED polled

(* Any other answer, a second 401 too, is the client's.                    *)
Responded ==
    LET a == request.account IN
    /\ request.step = "sent"
    /\ \E seen \in Observed(account[a], a) : Learn(a, seen)
    /\ Go(Answered)
    /\ UNCHANGED polled

-----------------------------------------------------------------------------

Proceed ==
    \/ Resend \/ Choose \/ OutOfTries
    \/ TransportFailed \/ Unauthorized \/ Rejected \/ Responded
    \/ Refreshed \/ NotRefreshed
    \/ Deliver

Next ==
    \/ \E kind \in Kinds, catalog \in Catalogs : Start(kind, catalog)
    \/ Proceed
    \/ \E a \in Accounts : PollUsage(a) \/ OtherTraffic(a) \/ Administer(a)
    \/ PollMarks
    \/ Tick

(* A request has a deadline: each of its steps ends.                       *)
Fairness == WF_vars(Proceed)

Spec == Init /\ [][Next]_vars /\ Fairness

-----------------------------------------------------------------------------
(* Properties.                                                             *)

TypeOK ==
    /\ account \in [Accounts -> Account]
    /\ polled \in Accounts \cup {NoAccount}
    /\ request \in [step: {"idle", "choose", "sent", "refreshing", "done"},
                    kind: Kinds, allowed: SUBSET Accounts, skip: SUBSET Accounts,
                    reauthed: SUBSET Accounts, tries: 0..Bound,
                    retry: Accounts \cup {NoAccount}, account: Accounts \cup {NoAccount},
                    tried: SUBSET Accounts, resent: SUBSET Accounts, unknown: BOOLEAN]

(* appendUniqueOwner: no owner is listed twice.                            *)
OwnerLists ==
    UNION {{o \in [1..n -> Accounts] : \A i, j \in 1..n : o[i] = o[j] => i = j} :
               n \in 0..Cardinality(Accounts)}

Later(t) == [a \in Accounts |->
                [account[a] EXCEPT !.left = IF @ <= t THEN Past ELSE @ - t - 1]]

Weaker(owners, a, b) == \E i, j \in DOMAIN owners : i < j /\ owners[i] = a /\ owners[j] = b

(* A hint is a promise: when Retry-After names a time, and nothing happens *)
(* to the accounts until just after it, the next request of that           *)
(* conversation for that model is routed, whoever owns it and whatever     *)
(* this attempt had skipped (routing_retry.go:8-9).  Only if the request   *)
(* waited for an owner may it meet another wait, for a weaker owner: no    *)
(* owner is waited for twice.                                              *)
HintKept ==
    request.step = "idle" /\ polled = NoAccount =>
        \A owners \in OwnerLists, catalog \in [Accounts -> {"missing", "lacks", "offers"}],
           skip \in SUBSET Accounts :
            \A d \in PickAccount(account, owners, catalog, skip) :
                LET t == RetryAt(account, d, Allowed(account, catalog)) IN
                t # NoHint => \A e \in PickAccount(Later(t), owners, catalog, {}) :
                                  e.account # NoAccount \/ Weaker(owners, d.blocked, e.blocked)

(* The bound of proxyTool's loop never hides an account: when it is        *)
(* reached, every account was refused for this request.                    *)
BoundIsEnough ==
    request.step = "choose" /\ request.kind = "tool" /\ request.tries = Bound =>
        request.skip = Accounts

(* A POST that upstream may have acted on ends the request; no account     *)
(* sees it again (tools_http.go:77-78).                                    *)
NothingSentTwice == request.unknown => request.step = "done"

(* A request is repeated only where that can do no harm and may help: not  *)
(* when upstream may have acted on it, and to one account once more, with  *)
(* the credentials of the one refresh this request has asked for.          *)
RepeatsAreSafe ==
    [][/\ NothingSentTwice'
       /\ request'.step = "sent" /\ request.step = "choose" =>
            LET a == request'.account IN
            /\ a \notin request.resent
            /\ a \in request.tried => a \in request.reauthed]_vars

(* Included quota is used throughout the pool before credits are charged   *)
(* (pool.go:260): a request turns to credits when every account with quota *)
(* has refused it.                                                         *)
CreditsLast ==
    [][request'.step = "sent" /\ request.step = "choose" /\ request.retry # request'.account =>
        (~Available(account[request'.account], request'.account) =>
            \A a \in Accounts \ request.skip : ~Available(account[a], a))]_vars

(* Every request is answered, whatever the pool does meanwhile.            *)
RequestsEnd == request.step # "idle" ~> request.step = "idle"
=============================================================================
