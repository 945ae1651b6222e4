-------------------------- MODULE PoolRoutingProofs ---------------------------
(***************************************************************************)
(* Theorems about PoolRouting, for any accounts, cooldowns, snapshots and  *)
(* model lists: the loop of a tool request ends in time and repeats only   *)
(* what it may, credits come last, and a retry hint is kept.               *)
(***************************************************************************)
EXTENDS PoolRouting, FiniteSetTheorems, WellFoundedInduction, TLAPS

Requests == [step: {"idle", "choose", "sent", "refreshing", "done"},
             kind: Kinds, allowed: SUBSET Accounts, skip: SUBSET Accounts,
             reauthed: SUBSET Accounts, tries: 0..Bound,
             retry: Accounts \cup {NoAccount}, account: Accounts \cup {NoAccount},
             tried: SUBSET Accounts, resent: SUBSET Accounts, unknown: BOOLEAN]

(* Each try of a tool request ends in a refusal or in the refresh of its   *)
(* account; only the one under way is in neither set yet.                  *)
Spending(r) ==
    r.kind = "tool" =>
        /\ r.step \in {"choose", "refreshing"} =>
               r.tries <= Cardinality(r.skip) + Cardinality(r.reauthed)
        /\ r.step = "sent" => r.tries <= Cardinality(r.skip) + Cardinality(r.reauthed) + 1
        /\ r.step \in {"sent", "refreshing"} => r.account \notin r.skip
        /\ r.retry \notin r.skip

(* An account has seen the request if it is skipped, was refreshed, or is  *)
(* trying it now; twice only after its refresh.                            *)
Seen(r) ==
    /\ r.retry # NoAccount => r.step = "choose" /\ r.retry \in r.reauthed \ r.resent
    /\ r.step \in {"choose", "sent", "refreshing"} =>
         /\ r.resent \subseteq r.reauthed
         /\ r.kind = "transcription" => r.tried \subseteq r.skip /\ r.resent \subseteq r.tried
    /\ r.step = "choose" => r.tried \subseteq r.skip \cup r.reauthed /\ r.resent \subseteq r.skip
    /\ r.step = "sent" => /\ r.account \in Accounts
                          /\ r.tried \subseteq r.skip \cup r.reauthed \cup {r.account}
                          /\ r.resent \subseteq r.skip \cup {r.account}
    /\ r.step = "refreshing" => /\ r.account \in r.reauthed \ r.resent
                                /\ r.tried \subseteq r.skip \cup r.reauthed
                                /\ r.resent \subseteq r.skip
    /\ r.unknown => r.step = "done"

LoopInv == TypeOK /\ Spending(request) /\ Seen(request)

LEMMA Counts ==
    /\ Bound = 2 * Cardinality(Accounts) /\ Cardinality(Accounts) \in Nat
    /\ \A S \in SUBSET Accounts :
          /\ IsFiniteSet(S)
          /\ Cardinality(S) \in Nat /\ Cardinality(S) <= Cardinality(Accounts)
          /\ Cardinality(S) = Cardinality(Accounts) => S = Accounts
          /\ \A a \in Accounts \ S : Cardinality(S \cup {a}) = Cardinality(S) + 1
BY PoolAssumption, FS_Subset, FS_CardinalityType, FS_AddElement DEF Bound

LEMMA NullsDiffer == NoAccount \notin Accounts
BY PoolAssumption

(* What the pool believes stays well-typed, whatever it learns.            *)
LEMMA AccountTypes ==
    ASSUME LoopInv, Next
    PROVE  account' \in [Accounts -> Account] /\ polled' \in Accounts \cup {NoAccount}
<1>1. account \in [Accounts -> Account] /\ polled \in Accounts \cup {NoAccount}
  BY DEF LoopInv, TypeOK
<1>2. ASSUME NEW a \in Accounts, NEW s \in Account, Learn(a, s)
      PROVE  account' \in [Accounts -> Account]
  BY <1>1, <1>2 DEF Learn
<1>3. ASSUME NEW a \in Accounts, NEW s \in Account
      PROVE  Limited(s) \cup {Spent(s)} \subseteq Account
  <2>1. Spent(s) \in Account
    BY DEF Spent, Account
  <2>2. ASSUME NEW t \in MinCooldown..MaxCooldown PROVE Extended(s, t) \in Account
    <3>1. t \in Past..MaxCooldown
      BY PoolAssumption DEF Past
    <3>2. (IF t > s.left THEN t ELSE s.left) \in Past..MaxCooldown
      BY <3>1 DEF Account
    <3> QED
      BY <3>2 DEF Extended, Account
  <2> QED
    BY <2>1, <2>2 DEF Limited
<1>4. ASSUME NEW a \in Accounts PROVE Observed(account[a], a) \subseteq Account
  <2>1. account[a] \in Account /\ Snapshots[a] \subseteq Snapshot
    BY <1>1, PoolAssumption
  <2> QED
    BY <2>1 DEF Observed, Account, Snapshot
<1>5. ASSUME NEW a \in Accounts, NEW t \in Snapshots[a] PROVE Adopt(a, t) \in Account
  <2>1. account[a] \in Account /\ t \in Snapshot
    BY <1>1, PoolAssumption
  <2> DEFINE level == IF t.level = "unknown" THEN account[a].level ELSE t.level
             seen == [account[a] EXCEPT !.capped = t.capped, !.funds = t.funds, !.rejected = FALSE,
                                        !.level = level]
  <2>2. level \in Levels /\ t.capped \in BOOLEAN /\ t.funds \in BOOLEAN
    BY <2>1 DEF Account, Snapshot
  <2>3. seen \in Account
    BY <2>1, <2>2 DEF Account
  <2>4. Adopt(a, t) = [seen EXCEPT !.spent = seen.spent /\ (seen.level # "low" \/ seen.capped)]
    BY DEF Adopt
  <2>5. (seen.spent /\ (seen.level # "low" \/ seen.capped)) \in BOOLEAN
    OBVIOUS
  <2> HIDE DEF seen
  <2> QED
    BY <2>3, <2>4, <2>5 DEF Account
<1>6. CASE UNCHANGED <<account, polled>>
  BY <1>1, <1>6
<1>7. ASSUME NEW a \in Accounts, PollUsage(a)
      PROVE  account' \in [Accounts -> Account] /\ polled' \in Accounts \cup {NoAccount}
  BY <1>2, <1>5, <1>7 DEF PollUsage
<1>8. ASSUME NEW a \in Accounts, OtherTraffic(a) \/ Administer(a)
      PROVE  account' \in [Accounts -> Account] /\ polled' \in Accounts \cup {NoAccount}
  <2>1. account[a] \in Account
    BY <1>1
  <2>2. CASE OtherTraffic(a)
    BY <1>1, <1>2, <1>3, <2>1, <2>2 DEF OtherTraffic
  <2>3. CASE Administer(a)
    <3>1. [account[a] EXCEPT !.open = ~account[a].open] \in Account
      BY <2>1 DEF Account
    <3> QED
      BY <1>1, <1>2, <2>3, <3>1 DEF Administer
  <2> QED
    BY <1>8, <2>2, <2>3
<1>9. CASE PollMarks
  <2>1. polled \in Accounts /\ [account[polled] EXCEPT !.spent = TRUE] \in Account
    BY <1>1, <1>9 DEF PollMarks, Account
  <2> QED
    BY <1>2, <1>9, <2>1 DEF PollMarks
<1>10. CASE Tick
  <2>1. ASSUME NEW a \in Accounts
        PROVE  [account[a] EXCEPT !.left = IF account[a].left = Past THEN Past
                                           ELSE account[a].left - 1] \in Account
    <3>1. account[a] \in Account /\ MaxCooldown \in Nat
      BY <1>1, PoolAssumption
    <3>2. (IF account[a].left = Past THEN Past ELSE account[a].left - 1) \in Past..MaxCooldown
      BY <3>1 DEF Account, Past
    <3> QED
      BY <3>1, <3>2 DEF Account
  <2> QED
    BY <1>1, <1>10, <2>1 DEF Tick
<1>11. CASE Unauthorized \/ Rejected \/ Responded \/ NotRefreshed
  <2> DEFINE a == request.account
  <2>1. a \in Accounts
    BY <1>11 DEF LoopInv, TypeOK, Seen, Unauthorized, Rejected, Responded, NotRefreshed
  <2>2. account[a] \in Account /\ Observed(account[a], a) \subseteq Account
    BY <1>1, <1>4, <2>1
  <2>3. CASE Unauthorized
    BY <1>1, <1>2, <2>1, <2>2, <2>3 DEF Unauthorized, RefreshFor
  <2>4. CASE Rejected
    BY <1>1, <1>2, <1>3, <2>1, <2>2, <2>4 DEF Rejected
  <2>5. CASE Responded
    BY <1>1, <1>2, <2>1, <2>2, <2>5 DEF Responded
  <2>6. CASE NotRefreshed
    <3>1. \A open \in {account[a].open, FALSE} : [account[a] EXCEPT !.open = open] \in Account
      BY <2>2 DEF Account
    <3> QED
      BY <1>1, <1>2, <2>1, <2>6, <3>1 DEF NotRefreshed
  <2> QED
    BY <1>11, <2>3, <2>4, <2>5, <2>6
<1>12. CASE (\E kind \in Kinds, catalog \in Catalogs : Start(kind, catalog)) \/ Resend \/ Choose
            \/ OutOfTries \/ TransportFailed \/ Refreshed \/ Deliver
  BY <1>6, <1>12 DEF Start, Resend, Choose, OutOfTries, TransportFailed, Refreshed, Deliver
<1> QED
  BY <1>7, <1>8, <1>9, <1>10, <1>11, <1>12 DEF Next, Proceed

-----------------------------------------------------------------------------
(* The request loop.                                                       *)

Good(r) == r \in Requests /\ Spending(r) /\ Seen(r)

(* Without owners the pool's decision is a fresh one, and never skipped.   *)
LEMMA FreshDecision ==
    ASSUME NEW skip \in SUBSET Accounts, NEW d \in Route(account, <<>>, skip)
    PROVE  /\ d.account \in Fresh(account, <<>>, skip)
           /\ d.account # NoAccount => d.account \in Accounts \ skip
<1>1. \A S : Strongest(<<>>, S) = NoAccount
  BY DEF Strongest
<1>2. PICK a \in Fresh(account, <<>>, skip) : d = Decision(a, NoAccount)
  BY <1>1 DEF Route
<1>3. d.account = a
  BY <1>2 DEF Decision
<1>4. a # NoAccount => a \in Accounts \ skip
  BY <1>1, <1>2 DEF Fresh, Eligible, Chargeable
<1> QED
  BY <1>2, <1>3, <1>4

LEMMA SentFields ==
    ASSUME LoopInv, NEW a \in Accounts, Chooses, request' = Sent(a)
    PROVE  /\ request' \in Requests
           /\ request'.step = "sent" /\ request'.account = a /\ request'.retry = NoAccount
           /\ request'.kind = request.kind /\ request'.reauthed = request.reauthed
           /\ request'.unknown = request.unknown
           /\ request'.tries = Tries
           /\ request'.skip = IF request.kind = "tool" THEN request.skip ELSE request.skip \cup {a}
           /\ request'.tried = request.tried \cup {a}
           /\ request'.resent = request.resent \cup (request.tried \cap {a})
<1>1. request \in Requests
  BY DEF LoopInv, TypeOK, Requests
<1>2. Tries \in 0..Bound
  BY <1>1, Counts DEF Tries, Chooses, Requests
<1>3. Dispatched(a) \in Requests
  BY <1>1, <1>2 DEF Dispatched, Requests
<1>4. /\ Dispatched(a).kind = request.kind /\ Dispatched(a).reauthed = request.reauthed
      /\ Dispatched(a).unknown = request.unknown /\ Dispatched(a).retry = NoAccount
      /\ Dispatched(a).step = "sent" /\ Dispatched(a).account = a
      /\ Dispatched(a).tries = Tries
      /\ Dispatched(a).skip = request.skip /\ Dispatched(a).tried = request.tried \cup {a}
      /\ Dispatched(a).resent = request.resent \cup (request.tried \cap {a})
  BY <1>1 DEF Dispatched, Requests
<1> DEFINE d == Dispatched(a)
           sk == IF request.kind = "tool" THEN request.skip ELSE request.skip \cup {a}
<1>5. sk \in SUBSET Accounts
  BY <1>1 DEF Requests
<1>6. request' = [d EXCEPT !.skip = sk]
  BY <1>4 DEF Sent
<1> HIDE DEF d, sk
<1>7. d \in Requests
  BY <1>3 DEF d
<1>8. /\ request' \in Requests /\ request'.skip = sk
      /\ request'.step = d.step /\ request'.account = d.account /\ request'.retry = d.retry
      /\ request'.kind = d.kind /\ request'.reauthed = d.reauthed /\ request'.unknown = d.unknown
      /\ request'.tries = d.tries /\ request'.tried = d.tried /\ request'.resent = d.resent
  BY <1>5, <1>6, <1>7 DEF Requests
<1> QED
  BY <1>4, <1>8 DEF d, sk

LEMMA AnsweredGood ==
    ASSUME NEW r \in {Answered, [Answered EXCEPT !.unknown = TRUE], NoRequest}
    PROVE  Good(r)
<1>1. /\ r.step \in {"idle", "done"} /\ r.kind = "tool" /\ r.retry = NoAccount /\ r.skip = {}
      /\ r.unknown => r.step = "done"
  <2>1. CASE r = NoRequest
    BY <2>1 DEF NoRequest
  <2>2. CASE r = Answered
    BY <2>2 DEF Answered, NoRequest
  <2>3. CASE r = [Answered EXCEPT !.unknown = TRUE]
    BY <2>3 DEF Answered, NoRequest
  <2> QED
    BY <2>1, <2>2, <2>3
<1>2. NoRequest \in Requests
  BY Counts DEF NoRequest, Requests, Kinds
<1>3. Answered \in Requests
  BY <1>2 DEF Answered, Requests
<1>4. [Answered EXCEPT !.unknown = TRUE] \in Requests
  BY <1>3 DEF Requests
<1> QED
  BY <1>1, <1>2, <1>3, <1>4 DEF Good, Spending, Seen

(* A dispatch: to the account that was refreshed, or to one not skipped.   *)
LEMMA SentGood ==
    ASSUME LoopInv, NEW a \in Accounts, Chooses, request' = Sent(a),
           a = request.retry \/ a \notin request.skip
    PROVE  Good(request)'
<1>0. /\ request' \in Requests
      /\ request'.step = "sent" /\ request'.account = a /\ request'.retry = NoAccount
      /\ request'.kind = request.kind /\ request'.reauthed = request.reauthed
      /\ request'.unknown = request.unknown
      /\ request'.tries = Tries
      /\ request'.skip = IF request.kind = "tool" THEN request.skip ELSE request.skip \cup {a}
      /\ request'.tried = request.tried \cup {a}
      /\ request'.resent = request.resent \cup (request.tried \cap {a})
  BY SentFields
<1>1. request \in Requests /\ Spending(request) /\ Seen(request)
  BY DEF LoopInv, TypeOK, Requests
<1>2. request.step = "choose"
  BY DEF Chooses
<1>3. Spending(request)'
  <2>1. CASE request.kind = "tool"
    <3>1. /\ request.tries <= Cardinality(request.skip) + Cardinality(request.reauthed)
          /\ a \notin request.skip
      BY <1>1, <1>2, <2>1 DEF Spending
    <3>2. request'.tries = request.tries + 1 /\ request'.skip = request.skip
      BY <2>1, <1>0 DEF Tries
    <3>3. /\ request.tries \in Nat /\ Cardinality(request.skip) \in Nat
          /\ Cardinality(request.reauthed) \in Nat
      BY <1>1, Counts DEF Requests
    <3>4. request'.retry \notin request'.skip
      BY <1>1, <3>2, <1>0, NullsDiffer DEF Requests
    <3> QED
      BY <3>1, <3>2, <3>3, <3>4, <1>0 DEF Spending
  <2>2. CASE request.kind = "transcription"
    BY <2>2, <1>0 DEF Spending
  <2> QED
    BY <1>1, <2>1, <2>2 DEF Requests, Kinds
<1>4. Seen(request)'
  <2>1. /\ request.resent \subseteq request.reauthed
        /\ request.tried \subseteq request.skip \cup request.reauthed
        /\ request.resent \subseteq request.skip
        /\ request.kind = "transcription" =>
             request.tried \subseteq request.skip /\ request.resent \subseteq request.tried
        /\ ~request.unknown
    BY <1>1, <1>2 DEF Seen
  <2>2. a \in request.tried => a \in request.reauthed
    <3>1. CASE a = request.retry
      BY <1>1, <3>1, NullsDiffer DEF Seen
    <3>2. CASE a \notin request.skip
      BY <2>1, <3>2
    <3> QED
      BY <3>1, <3>2
  <2> QED
    BY <2>1, <2>2, <1>0 DEF Seen
<1> QED
  BY <1>3, <1>4, <1>0 DEF Good

(* The other ways a request moves on.                                      *)
LEMMA RefusedGood ==
    ASSUME LoopInv, request.step \in {"sent", "refreshing"},
           request' = Refuse(request.account)
    PROVE  Good(request)'
<1> DEFINE a == request.account
<1>1. request \in Requests /\ Spending(request) /\ Seen(request)
  BY DEF LoopInv, TypeOK, Requests
<1>2. a \in Accounts
  BY <1>1 DEF Seen, Requests
<1>3. request' \in Requests
  BY <1>1, <1>2 DEF Refuse, Requests
<1>4. /\ request'.step = "choose" /\ request'.retry = request.retry
      /\ request'.kind = request.kind /\ request'.reauthed = request.reauthed
      /\ request'.unknown = request.unknown /\ request'.tries = request.tries
      /\ request'.skip = IF request.kind = "tool" THEN request.skip \cup {a} ELSE request.skip
      /\ request'.tried = request.tried /\ request'.resent = request.resent
  BY <1>1 DEF Refuse, Requests
<1>5. request.retry = NoAccount /\ ~request.unknown
  BY <1>1 DEF Seen
<1>6. Spending(request)'
  <2>1. CASE request.kind = "tool"
    <3>1. /\ request.tries <= Cardinality(request.skip) + Cardinality(request.reauthed) + 1
          /\ a \notin request.skip
      <4>1. /\ Cardinality(request.skip) \in Nat /\ Cardinality(request.reauthed) \in Nat
            /\ request.tries \in Nat
        BY <1>1, Counts DEF Requests
      <4> QED
        BY <1>1, <2>1, <4>1 DEF Spending
    <3>2. /\ Cardinality(request'.skip) = Cardinality(request.skip) + 1
          /\ Cardinality(request.skip) \in Nat /\ Cardinality(request.reauthed) \in Nat
          /\ request.tries \in Nat
      BY <1>1, <1>2, <1>4, <2>1, <3>1, Counts DEF Requests
    <3>3. request'.retry \notin request'.skip
      BY <1>3, <1>4, <1>5, NullsDiffer DEF Requests
    <3> QED
      BY <1>4, <3>1, <3>2, <3>3 DEF Spending
  <2>2. CASE request.kind = "transcription"
    BY <1>4, <2>2 DEF Spending
  <2> QED
    BY <1>1, <2>1, <2>2 DEF Requests, Kinds
<1>7. Seen(request)'
  <2>1. /\ request.resent \subseteq request.reauthed
        /\ request.tried \subseteq request.skip \cup request.reauthed \cup {a}
        /\ request.resent \subseteq request.skip \cup {a}
        /\ request.kind = "transcription" =>
             request.tried \subseteq request.skip /\ request.resent \subseteq request.tried
    BY <1>1 DEF Seen
  <2>2. request.kind = "tool" \/ request.kind = "transcription"
    BY <1>1 DEF Requests, Kinds
  <2> QED
    BY <1>4, <1>5, <2>1, <2>2 DEF Seen
<1> QED
  BY <1>3, <1>6, <1>7 DEF Good

LEMMA RefreshGood ==
    ASSUME LoopInv, Unauthorized \/ Refreshed
    PROVE  Good(request)'
<1> DEFINE a == request.account
<1>1. request \in Requests /\ Spending(request) /\ Seen(request)
  BY DEF LoopInv, TypeOK, Requests
<1>2. a \in Accounts
  BY <1>1 DEF Seen, Requests, Unauthorized, Refreshed
<1>3. CASE Unauthorized
  <2>1. /\ request.step = "sent" /\ a \notin request.reauthed
        /\ request' = [request EXCEPT !.step = "refreshing", !.reauthed = request.reauthed \cup {a}]
    BY <1>3 DEF Unauthorized, RefreshFor, Go
  <2>2. request' \in Requests
    BY <1>1, <1>2, <2>1 DEF Requests
  <2>3. /\ request'.step = "refreshing" /\ request'.retry = request.retry
        /\ request'.kind = request.kind /\ request'.reauthed = request.reauthed \cup {a}
        /\ request'.unknown = request.unknown /\ request'.tries = request.tries
        /\ request'.skip = request.skip /\ request'.account = a
        /\ request'.tried = request.tried /\ request'.resent = request.resent
    BY <1>1, <2>1 DEF Requests
  <2>4. Cardinality(request'.reauthed) = Cardinality(request.reauthed) + 1
    BY <1>1, <1>2, <2>1, <2>3, Counts DEF Requests
  <2>5. /\ Cardinality(request.skip) \in Nat /\ Cardinality(request.reauthed) \in Nat
        /\ request.tries \in Nat
    BY <1>1, Counts DEF Requests
  <2>6. Spending(request)'
    BY <1>1, <2>1, <2>3, <2>4, <2>5 DEF Spending
  <2>7. Seen(request)'
    BY <1>1, <2>1, <2>3 DEF Seen
  <2> QED
    BY <2>2, <2>6, <2>7 DEF Good
<1>4. CASE Refreshed
  <2>1. /\ request.step = "refreshing"
        /\ request' = [request EXCEPT !.step = "choose", !.account = NoAccount, !.retry = a]
    BY <1>4 DEF Refreshed, Go
  <2>2. request' \in Requests
    BY <1>1, <1>2, <2>1 DEF Requests
  <2>3. /\ request'.step = "choose" /\ request'.retry = a
        /\ request'.kind = request.kind /\ request'.reauthed = request.reauthed
        /\ request'.unknown = request.unknown /\ request'.tries = request.tries
        /\ request'.skip = request.skip
        /\ request'.tried = request.tried /\ request'.resent = request.resent
    BY <1>1, <2>1 DEF Requests
  <2>4. Spending(request)'
    BY <1>1, <2>1, <2>3 DEF Spending
  <2>5. Seen(request)'
    BY <1>1, <2>1, <2>3 DEF Seen
  <2> QED
    BY <2>2, <2>4, <2>5 DEF Good
<1> QED
  BY <1>3, <1>4

LEMMA ChooseGood == ASSUME LoopInv, Choose PROVE Good(request)'
<1>1. request \in Requests /\ Spending(request) /\ Seen(request) /\ Chooses
  BY DEF LoopInv, TypeOK, Requests, Choose
<1>2. PICK d \in Route(account, <<>>, request.skip) :
         request' = IF d.account = NoAccount THEN Answered
                    ELSE IF d.account \in request.allowed THEN Sent(d.account)
                    ELSE [request EXCEPT !.skip = request.skip \cup {d.account}, !.tries = Tries,
                                         !.retry = NoAccount]
  BY DEF Choose, Go
<1>3. d.account # NoAccount => d.account \in Accounts \ request.skip
  BY <1>1, FreshDecision DEF Requests
<1>4. CASE d.account = NoAccount
  BY <1>2, <1>4, AnsweredGood
<1>5. CASE d.account # NoAccount /\ d.account \in request.allowed
  BY <1>1, <1>2, <1>3, <1>5, SentGood
<1>6. CASE d.account # NoAccount /\ d.account \notin request.allowed
  <2> DEFINE a == d.account
  <2>1. a \in Accounts \ request.skip /\ request.step = "choose"
    BY <1>1, <1>3, <1>6 DEF Chooses
  <2>2. Tries \in 0..Bound
    BY <1>1, Counts DEF Tries, Chooses, Requests
  <2>3. request' = [request EXCEPT !.skip = request.skip \cup {a}, !.tries = Tries, !.retry = NoAccount]
    BY <1>2, <1>6
  <2>4. request' \in Requests
    BY <1>1, <2>1, <2>2, <2>3 DEF Requests
  <2>5. /\ request'.step = "choose" /\ request'.retry = NoAccount
        /\ request'.kind = request.kind /\ request'.reauthed = request.reauthed
        /\ request'.unknown = request.unknown /\ request'.tries = Tries
        /\ request'.skip = request.skip \cup {a}
        /\ request'.tried = request.tried /\ request'.resent = request.resent
    BY <1>1, <2>1, <2>3 DEF Requests
  <2>6. /\ Cardinality(request.skip) \in Nat /\ Cardinality(request.reauthed) \in Nat
        /\ request.tries \in Nat /\ Cardinality(request'.skip) = Cardinality(request.skip) + 1
    BY <1>1, <2>1, <2>5, Counts DEF Requests
  <2>7. NoAccount \notin request'.skip
    BY <2>4, NullsDiffer DEF Requests
  <2>8. Spending(request)'
    BY <1>1, <2>1, <2>5, <2>6, <2>7 DEF Spending, Tries
  <2>9. Seen(request)'
    BY <1>1, <2>1, <2>5 DEF Seen
  <2> QED
    BY <2>4, <2>8, <2>9 DEF Good
<1> QED
  BY <1>4, <1>5, <1>6

LEMMA StartGood ==
    ASSUME LoopInv, NEW kind \in Kinds, NEW catalog \in Catalogs, Start(kind, catalog)
    PROVE  Good(request)'
<1> DEFINE allowed == IF kind = "tool" THEN Allowed(account, catalog) ELSE Accounts
<1>1. NoRequest \in Requests /\ allowed \subseteq Accounts
  BY AnsweredGood DEF Good, Allowed
<1>2. request' = [NoRequest EXCEPT !.step = "choose", !.kind = kind, !.allowed = allowed]
  BY DEF Start, Go
<1> HIDE DEF allowed
<1>3. request' \in Requests
  BY <1>1, <1>2 DEF Requests
<1>4. /\ request'.step = "choose" /\ request'.retry = NoAccount /\ request'.skip = {}
      /\ request'.reauthed = {} /\ request'.unknown = FALSE /\ request'.tries = 0
      /\ request'.tried = {} /\ request'.resent = {}
  BY <1>2 DEF NoRequest
<1>5. Cardinality({}) = 0
  BY FS_EmptySet
<1> QED
  BY <1>3, <1>4, <1>5 DEF Good, Spending, Seen

LEMMA LoopStep == ASSUME LoopInv, Next PROVE LoopInv'
<1>1. account' \in [Accounts -> Account] /\ polled' \in Accounts \cup {NoAccount}
  BY AccountTypes
<1>2. Good(request)
  BY DEF LoopInv, TypeOK, Good, Requests
<1>3. Good(request)'
  <2>1. CASE UNCHANGED request
    BY <1>2, <2>1
  <2>2. CASE \E kind \in Kinds, catalog \in Catalogs : Start(kind, catalog)
    BY <2>2, StartGood
  <2>3. CASE Resend
    <3>1. request.retry \in Accounts /\ Chooses /\ request' = Sent(request.retry)
      BY <1>2, <2>3 DEF Resend, Go, Good, Requests
    <3> QED
      BY <3>1, SentGood
  <2>4. CASE OutOfTries \/ TransportFailed \/ Responded \/ Deliver
    <3>1. request' \in {Answered, [Answered EXCEPT !.unknown = TRUE], NoRequest}
      BY <2>4 DEF OutOfTries, TransportFailed, Responded, Deliver, Go
    <3> QED
      BY <3>1, AnsweredGood
  <2>5. CASE Rejected \/ NotRefreshed
    BY <2>5, RefusedGood DEF Rejected, NotRefreshed, Go
  <2>6. CASE \E a \in Accounts : PollUsage(a) \/ OtherTraffic(a) \/ Administer(a)
    BY <2>1, <2>6 DEF PollUsage, OtherTraffic, Administer
  <2>7. CASE PollMarks \/ Tick
    BY <2>1, <2>7 DEF PollMarks, Tick
  <2> QED
    BY <2>2, <2>3, <2>4, <2>5, <2>6, <2>7, RefreshGood, ChooseGood DEF Next, Proceed
<1> QED
  BY <1>1, <1>3 DEF LoopInv, TypeOK, Good, Requests

LEMMA LoopInit == Init => LoopInv
<1> SUFFICES ASSUME Init PROVE LoopInv
  OBVIOUS
<1>1. account \in [Accounts -> Account]
  BY PoolAssumption DEF Init, Account, Levels, Past
<1>2. Good(request) /\ polled \in Accounts \cup {NoAccount}
  BY AnsweredGood DEF Init
<1> QED
  BY <1>1, <1>2 DEF LoopInv, TypeOK, Good, Requests

THEOREM LoopInductive == Spec => []LoopInv
<1>1. LoopInv /\ [Next]_vars => LoopInv'
  <2>1. CASE UNCHANGED vars
    BY <2>1 DEF vars, LoopInv, TypeOK, Spending, Seen
  <2> QED
    BY <2>1, LoopStep
<1> QED
  BY LoopInit, <1>1, PTL DEF Spec

(* The pool's and the request's variables keep their types: a cooldown     *)
(* never exceeds its maximum, the tries never their bound.                 *)
THEOREM PoolTypes == Spec => []TypeOK
BY LoopInductive, PTL DEF LoopInv

(* When the loop of proxyTool gives up for its bound, every account has    *)
(* refused the request: the bound never hides one.                         *)
THEOREM BoundIsEnoughHolds == Spec => []BoundIsEnough
<1>1. LoopInv => BoundIsEnough
  <2> SUFFICES ASSUME LoopInv, request.step = "choose", request.kind = "tool",
                      request.tries = Bound
               PROVE  request.skip = Accounts
    BY DEF BoundIsEnough
  <2>1. Bound <= Cardinality(request.skip) + Cardinality(request.reauthed)
    BY DEF LoopInv, Spending
  <2>2. request.skip \in SUBSET Accounts /\ request.reauthed \in SUBSET Accounts
    BY DEF LoopInv, TypeOK
  <2>3. /\ Bound = 2 * Cardinality(Accounts) /\ Cardinality(Accounts) \in Nat
        /\ Cardinality(request.skip) \in Nat /\ Cardinality(request.reauthed) \in Nat
        /\ Cardinality(request.skip) <= Cardinality(Accounts)
        /\ Cardinality(request.reauthed) <= Cardinality(Accounts)
        /\ Cardinality(request.skip) = Cardinality(Accounts) => request.skip = Accounts
    BY <2>2, Counts
  <2> QED
    BY <2>1, <2>3
<1> QED
  BY <1>1, LoopInductive, PTL

(* A dispatch resends to the refreshed account, or follows the pool.       *)
LEMMA DispatchedTo ==
    ASSUME LoopInv, Next, request.step = "choose", request'.step = "sent"
    PROVE  \/ request'.account = request.retry /\ request.retry # NoAccount
           \/ /\ request'.account \in Fresh(account, <<>>, request.skip)
              /\ request'.account \in Accounts \ request.skip
<1>1. request \in Requests
  BY DEF LoopInv, TypeOK, Requests
<1>2. Resend \/ Choose
  <2>1. ~(\E kind \in Kinds, catalog \in Catalogs : Start(kind, catalog)) /\ ~Deliver
    BY DEF Start, Deliver
  <2>2. ~TransportFailed /\ ~Unauthorized /\ ~Rejected /\ ~Responded /\ ~Refreshed /\ ~NotRefreshed
    BY DEF TransportFailed, Unauthorized, Rejected, Responded, Refreshed, NotRefreshed
  <2>3. ~OutOfTries
    BY DEF OutOfTries, Go, Answered, NoRequest
  <2>4. ~(\E a \in Accounts : PollUsage(a) \/ OtherTraffic(a) \/ Administer(a)) /\ ~PollMarks /\ ~Tick
    BY DEF PollUsage, OtherTraffic, Administer, PollMarks, Tick
  <2> QED
    BY <2>1, <2>2, <2>3, <2>4 DEF Next, Proceed
<1>3. CASE Resend
  <2>1. request.retry \in Accounts /\ Chooses /\ request' = Sent(request.retry)
    BY <1>1, <1>3 DEF Resend, Go, Requests
  <2> QED
    BY <2>1, SentFields, NullsDiffer
<1>4. CASE Choose
  <2>1. PICK d \in Route(account, <<>>, request.skip) :
           request' = IF d.account = NoAccount THEN Answered
                      ELSE IF d.account \in request.allowed THEN Sent(d.account)
                      ELSE [request EXCEPT !.skip = request.skip \cup {d.account}, !.tries = Tries,
                                           !.retry = NoAccount]
    BY <1>4 DEF Choose, Go
  <2>2. /\ d.account \in Fresh(account, <<>>, request.skip)
        /\ d.account # NoAccount => d.account \in Accounts \ request.skip
    BY <1>1, <2>1, FreshDecision DEF Requests
  <2>3. d.account # NoAccount
    BY <2>1 DEF Answered, NoRequest
  <2>4. d.account \in request.allowed
    <3>1. SUFFICES ASSUME d.account \notin request.allowed PROVE FALSE
      OBVIOUS
    <3>2. request'.step = request.step
      BY <1>1, <2>1, <2>3, <3>1 DEF Requests
    <3> QED
      BY <3>2
  <2>5. Chooses /\ request' = Sent(d.account)
    BY <1>4, <2>1, <2>3, <2>4 DEF Choose
  <2>6. request'.account = d.account
    BY <2>2, <2>3, <2>5, SentFields
  <2> QED
    BY <2>2, <2>3, <2>6
<1> QED
  BY <1>2, <1>3, <1>4

(* Nothing that upstream may have acted on is sent again, and an account   *)
(* sees a request twice only after the one refresh of its credentials.     *)
THEOREM RepeatsAreSafeHolds == Spec => RepeatsAreSafe
<1>1. LoopInv /\ LoopInv' /\ [Next]_vars =>
        [/\ NothingSentTwice'
         /\ request'.step = "sent" /\ request.step = "choose" =>
              LET a == request'.account IN
              /\ a \notin request.resent
              /\ a \in request.tried => a \in request.reauthed]_vars
  <2> SUFFICES ASSUME LoopInv, LoopInv', Next
               PROVE  /\ NothingSentTwice'
                      /\ request'.step = "sent" /\ request.step = "choose" =>
                           /\ request'.account \notin request.resent
                           /\ request'.account \in request.tried =>
                                request'.account \in request.reauthed
    OBVIOUS
  <2>1. NothingSentTwice'
    BY DEF LoopInv, Seen, NothingSentTwice
  <2>2. ASSUME request'.step = "sent", request.step = "choose"
        PROVE  /\ request'.account \notin request.resent
               /\ request'.account \in request.tried => request'.account \in request.reauthed
    <3>1. Seen(request)
      BY DEF LoopInv
    <3>2. CASE request'.account = request.retry /\ request.retry # NoAccount
      BY <3>1, <3>2 DEF Seen
    <3>3. CASE request'.account \in Accounts \ request.skip
      BY <2>2, <3>1, <3>3 DEF Seen
    <3> QED
      BY <2>2, <3>2, <3>3, DispatchedTo
  <2> QED
    BY <2>1, <2>2
<1>2. Spec => []LoopInv
  BY LoopInductive
<1> QED
  BY <1>1, <1>2, PTL DEF RepeatsAreSafe, Spec

(* A request is sent to be paid with credits only when every account with  *)
(* included quota is out of the question for it.                           *)
THEOREM CreditsLastHolds == Spec => CreditsLast
<1>1. LoopInv /\ [Next]_vars =>
        [request'.step = "sent" /\ request.step = "choose" /\ request.retry # request'.account =>
            (~Available(account[request'.account], request'.account) =>
                \A a \in Accounts \ request.skip : ~Available(account[a], a))]_vars
  <2> SUFFICES ASSUME LoopInv, Next, request'.step = "sent", request.step = "choose",
                      request.retry # request'.account,
                      ~Available(account[request'.account], request'.account)
               PROVE  Eligible(account, request.skip) = {}
    BY DEF Eligible
  <2>1. request'.account \in Fresh(account, <<>>, request.skip)
    BY DispatchedTo
  <2> QED
    BY <2>1 DEF Fresh, Eligible
<1>2. Spec => []LoopInv
  BY LoopInductive
<1> QED
  BY <1>1, <1>2, PTL DEF CreditsLast, Spec

-----------------------------------------------------------------------------
(* Retry hints.                                                            *)

LEMMA SmallestExists ==
    ASSUME NEW S \in SUBSET Nat, S # {}
    PROVE  \E t \in S : \A u \in S : t <= u
<1> DEFINE R == {ss \in Nat \X Nat : ss[1] < ss[2]}
<1>1. IsWellFoundedOn(R, Nat)
  BY NatLessThanWellFounded, Zenon DEF OpToRel
<1>3. \A u, t \in Nat : <<u, t>> \notin R => t <= u
  OBVIOUS
<1> HIDE DEF R
<1>2. \E t \in S : \A u \in S : ~(<<u, t>> \in R)
  <2>1. S \subseteq Nat /\ S # {}
    OBVIOUS
  <2> QED
    BY <1>1, <2>1, WFMin
<1> QED
  BY <1>2, <1>3

(* Strongest is the first owner of the list that is in the set.            *)
LEMMA StrongestIsFirst ==
    ASSUME NEW owners \in OwnerLists, NEW S \in SUBSET Accounts
    PROVE  /\ Strongest(owners, S) = NoAccount => \A i \in DOMAIN owners : owners[i] \notin S
           /\ Strongest(owners, S) # NoAccount =>
                \E i \in DOMAIN owners :
                   /\ owners[i] = Strongest(owners, S) /\ owners[i] \in S
                   /\ \A j \in DOMAIN owners : owners[j] \in S => i <= j
<1>1. PICK n \in 0..Cardinality(Accounts) : owners \in [1..n -> Accounts]
  BY DEF OwnerLists
<1> DEFINE hits == {i \in DOMAIN owners : owners[i] \in S}
<1>2. hits \subseteq Nat /\ DOMAIN owners = 1..n
  BY <1>1, Counts
<1>3. CASE hits = {}
  BY <1>3 DEF Strongest
<1>4. CASE hits # {}
  <2>1. PICK i \in hits : \A j \in hits : i <= j
    BY <1>2, <1>4, SmallestExists
  <2> DEFINE first == CHOOSE k \in hits : \A j \in hits : k <= j
  <2>2. first \in hits /\ \A j \in hits : first <= j
    BY <2>1
  <2>3. Strongest(owners, S) = owners[first]
    BY <1>4 DEF Strongest
  <2> HIDE DEF first
  <2>4. owners[first] # NoAccount
    BY <2>2, NullsDiffer
  <2> QED
    BY <2>2, <2>3, <2>4
<1> QED
  BY <1>3, <1>4

(* The owners that hold a conversation (see Route).                        *)
Holders(state, skip) ==
    {a \in Accounts : Keeps(state[a], a) /\ (~Ready(state[a]) \/ a \notin skip)}

(* A decision without an account waits for the strongest holder, or there  *)
(* is none.                                                                *)
LEMMA WaitsForStrongest ==
    ASSUME NEW state, NEW owners \in OwnerLists, NEW skip,
           NEW d \in Route(state, owners, skip), d.account = NoAccount
    PROVE  /\ d.blocked = NoAccount => \A i \in DOMAIN owners : owners[i] \notin Holders(state, skip)
           /\ d.blocked # NoAccount =>
                /\ d.blocked \in Holders(state, skip) /\ ~Ready(state[d.blocked])
                /\ \E i \in DOMAIN owners :
                      /\ owners[i] = d.blocked
                      /\ \A j \in DOMAIN owners : owners[j] \in Holders(state, skip) => i <= j
<1> DEFINE owner == Strongest(owners, Holders(state, skip))
<1>1. Holders(state, skip) \in SUBSET Accounts
  BY DEF Holders
<1>2. Route(state, owners, skip) =
        IF owner = NoAccount THEN {Decision(a, NoAccount) : a \in Fresh(state, owners, skip)}
        ELSE IF Ready(state[owner]) THEN {Decision(owner, NoAccount)}
        ELSE {Decision(NoAccount, owner)}
  BY Zenon DEF Route, Holders
<1> HIDE DEF owner
<1>3. \/ owner = NoAccount /\ d.blocked = NoAccount
      \/ owner # NoAccount /\ d.blocked = owner /\ ~Ready(state[owner])
  BY <1>2 DEF Decision
<1> QED
  BY <1>1, <1>3, StrongestIsFirst DEF owner

(* If anybody can serve a new conversation, the pool places the request or *)
(* waits for an owner: what Allowed excludes leaves somebody in.           *)
LEMMA RoutableIsPlaced ==
    ASSUME NEW state, NEW owners, NEW catalog, NEW r \in Accounts, Routable(state[r], r),
           NEW e \in PickAccount(state, owners, catalog, {}), e.account = NoAccount
    PROVE  e.blocked # NoAccount
<1> DEFINE skip == Accounts \ Allowed(state, catalog)
<1>1. \E a \in Accounts \ skip : Routable(state[a], a)
  <2>1. CASE Allowed(state, catalog) = Accounts
    BY <2>1
  <2>2. CASE Allowed(state, catalog) # Accounts
    BY <2>2 DEF Allowed
  <2> QED
    BY <2>1, <2>2
<1>2. e \in Route(state, owners, skip)
  <2>1. {} \cup (Accounts \ Allowed(state, catalog)) = skip
    OBVIOUS
  <2> QED
    BY <2>1 DEF PickAccount
<1> HIDE DEF skip
<1>3. Eligible(state, skip) # {} \/ Chargeable(state, skip) # {}
  BY <1>1 DEF Routable, Eligible, Chargeable
<1>4. NoAccount \notin Fresh(state, owners, skip)
  BY <1>3, NullsDiffer DEF Fresh, Eligible, Chargeable
<1> QED
  BY <1>2, <1>4 DEF Route, Decision

(* What waiting does to an account, and what it leaves.                    *)
LEMMA AfterWaiting ==
    ASSUME account \in [Accounts -> Account], NEW t \in Nat, NEW a \in Accounts
    PROVE  /\ Keeps(Later(t)[a], a) <=> Keeps(account[a], a)
           /\ Ready(account[a]) => Ready(Later(t)[a])
           /\ account[a].left = t => Later(t)[a] = [account[a] EXCEPT !.left = Past]
<1> DEFINE s == account[a]
           left == IF s.left <= t THEN Past ELSE s.left - t - 1
<1>1. s \in Account /\ Later(t)[a] = [s EXCEPT !.left = left]
  BY DEF Later
<1>2. s.left \in Int
  BY <1>1, PoolAssumption DEF Account, Past
<1>3. s.left = Past => left = Past
  BY <1>2 DEF Past
<1>4. s.left = t => left = Past
  BY <1>2
<1> HIDE DEF s, left
<1>5. /\ Later(t)[a].open = s.open /\ Later(t)[a].spent = s.spent
      /\ Later(t)[a].level = s.level /\ Later(t)[a].capped = s.capped
      /\ Later(t)[a].left = left
  BY <1>1 DEF Account
<1>6. Keeps(Later(t)[a], a) <=> Keeps(s, a)
  BY <1>5 DEF Keeps, Exhausted
<1>7. Ready(s) => Ready(Later(t)[a])
  BY <1>3, <1>5 DEF Ready
<1> QED
  BY <1>1, <1>4, <1>6, <1>7 DEF s

(* A hint is the end of a cooldown that keeps a routable account.          *)
LEMMA HintIsAnEnd ==
    ASSUME account \in [Accounts -> Account], NEW d, NEW allowed \in SUBSET Accounts,
           d.blocked \in Accounts \cup {NoAccount}, RetryAt(account, d, allowed) # NoHint
    PROVE  /\ d.account = NoAccount /\ RetryAt(account, d, allowed) \in Nat
           /\ \E a \in Recoveries(account, d, allowed) :
                  a \in Accounts /\ account[a].left = RetryAt(account, d, allowed)
<1> DEFINE ends == {account[a].left : a \in Recoveries(account, d, allowed)}
<1>1. Recoveries(account, d, allowed) \subseteq Accounts
  BY DEF Recoveries
<1>2. ASSUME NEW a \in Recoveries(account, d, allowed) PROVE account[a].left \in Nat
  <2>1. account[a] \in Account /\ account[a].left > 0
    BY <1>1 DEF Recoveries
  <2> QED
    BY <2>1, PoolAssumption DEF Account, Past
<1>3. ends \in SUBSET Nat
  BY <1>2
<1>4. /\ d.account = NoAccount /\ ends # {}
      /\ RetryAt(account, d, allowed) = CHOOSE t \in ends : \A u \in ends : t <= u
  BY DEF RetryAt
<1>5. RetryAt(account, d, allowed) \in ends
  <2> HIDE DEF ends
  <2>1. \E t \in ends : \A u \in ends : t <= u
    BY <1>3, <1>4, SmallestExists
  <2> QED
    BY <1>4, <2>1
<1> QED
  BY <1>1, <1>3, <1>4, <1>5

(* A client that waits as long as it is told, while nothing else happens,  *)
(* is served; only an owner weaker than the one it waited for can make it  *)
(* wait again.                                                             *)
THEOREM HintKeptHolds == Spec => []HintKept
<1>1. TypeOK => HintKept
  <2> SUFFICES ASSUME TypeOK, NEW owners \in OwnerLists,
                      NEW catalog \in [Accounts -> {"missing", "lacks", "offers"}],
                      NEW skip \in SUBSET Accounts,
                      NEW d \in PickAccount(account, owners, catalog, skip),
                      RetryAt(account, d, Allowed(account, catalog)) # NoHint,
                      NEW e \in PickAccount(Later(RetryAt(account, d, Allowed(account, catalog))),
                                            owners, catalog, {}),
                      e.account = NoAccount
               PROVE  Weaker(owners, d.blocked, e.blocked)
    BY DEF HintKept
  <2> DEFINE allowed == Allowed(account, catalog)
             t == RetryAt(account, d, allowed)
             out == skip \cup (Accounts \ allowed)
             then == Accounts \ Allowed(Later(t), catalog)
  <2>1. account \in [Accounts -> Account] /\ allowed \in SUBSET Accounts
    BY DEF TypeOK, Allowed
  <2>2. d \in Route(account, owners, out) /\ e \in Route(Later(t), owners, then)
    <3>1. {} \cup then = then
      OBVIOUS
    <3> QED
      BY <3>1 DEF PickAccount
  <2> HIDE DEF out, then
  <2>3. d.blocked \in Accounts \cup {NoAccount}
    <3>1. d.account = NoAccount
      BY DEF RetryAt, NoHint
    <3> QED
      BY <2>2, <3>1, WaitsForStrongest DEF Holders
  <2>4. d.account = NoAccount /\ t \in Nat
    BY <2>1, <2>3, HintIsAnEnd
  <2>5. PICK r \in Recoveries(account, d, allowed) : r \in Accounts /\ account[r].left = t
    BY <2>1, <2>3, HintIsAnEnd
  <2> HIDE DEF t
  <2>6. Routable(Later(t)[r], r)
    BY <2>1, <2>4, <2>5, AfterWaiting DEF Recoveries
  <2>7. e.blocked # NoAccount
    BY <2>5, <2>6, RoutableIsPlaced DEF t
  <2>8. /\ e.blocked \in Holders(Later(t), then) /\ ~Ready(Later(t)[e.blocked])
        /\ \E k \in DOMAIN owners : owners[k] = e.blocked
    BY <2>2, <2>7, WaitsForStrongest
  <2>9. e.blocked \in Holders(account, out)
    BY <2>1, <2>4, <2>8, AfterWaiting DEF Holders
  <2>10. d.blocked # NoAccount
    BY <2>2, <2>4, <2>8, <2>9, WaitsForStrongest
  <2>11. PICK i \in DOMAIN owners :
            /\ owners[i] = d.blocked
            /\ \A j \in DOMAIN owners : owners[j] \in Holders(account, out) => i <= j
    BY <2>2, <2>4, <2>10, WaitsForStrongest
  <2>12. Ready(Later(t)[d.blocked])
    <3>1. r = d.blocked
      BY <2>5, <2>10 DEF Recoveries
    <3>2. Keeps(account[r], r)
      BY <2>2, <2>4, <2>10, <3>1, WaitsForStrongest DEF Holders
    <3>3. Keeps(Later(t)[r], r)
      BY <2>1, <2>4, <2>5, <3>2, AfterWaiting
    <3> QED
      BY <2>6, <3>1, <3>3 DEF Routable, Available, CreditAvailable, Keeps
  <2>13. PICK k \in DOMAIN owners : owners[k] = e.blocked
    BY <2>8
  <2>14. i <= k /\ i # k
    BY <2>8, <2>9, <2>11, <2>12, <2>13
  <2>15. i \in Nat /\ k \in Nat
    BY <2>11, <2>13, Counts DEF OwnerLists
  <2> QED
    BY <2>11, <2>13, <2>14, <2>15 DEF Weaker
<1> QED
  BY <1>1, PoolTypes, PTL

=============================================================================
