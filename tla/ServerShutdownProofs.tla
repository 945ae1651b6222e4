------------------------ MODULE ServerShutdownProofs ------------------------
(***************************************************************************)
(* Theorems about ServerShutdown: a refresh operation that is registered   *)
(* is counted and joined, its waiters are never forgotten, an account has  *)
(* one exchange at a time, a login that crosses a refresh is not undone, a *)
(* failure reaches the exit, and the server keeps RefreshContract, for any *)
(* accounts, callers, limits and number of operations.                     *)
(***************************************************************************)
EXTENDS ServerShutdown, FiniteSetTheorems, TLAPS

Live == Registered \ Closed
LiveSteps == {"exchange", "persist", "publish", "notify", "close"}

CredentialTypes ==
    /\ memory \in [Accounts -> Credential]
    /\ stored \in [Accounts -> Credential]
    /\ clock \in Nat
    /\ refused \subseteq Nat

OperationTypes ==
    /\ inflight \in [Accounts -> Ops \cup {NoOp}]
    /\ op \in [Ops -> Operation]
    /\ caller \in [Callers -> CallerState]

FlagTypes ==
    /\ stopping \in BOOLEAN
    /\ ended \in BOOLEAN
    /\ failure \in BOOLEAN
    /\ lifetimeEnded \in BOOLEAN
    /\ draining \in BOOLEAN
    /\ admitted \subseteq Requests
    /\ server \in Stages
    /\ exit \in {"ok", "failed"}

(* Account.inflight and the goroutines that have not answered yet point at *)
(* each other.                                                             *)
Linked ==
    /\ \A a \in Accounts : inflight[a] # NoOp =>
           inflight[a] \in Live /\ op[inflight[a]].account = a
    /\ \A i \in Live : op[i].account \in Accounts /\ inflight[op[i].account] = i

(* Whoever waits does so for an operation that was launched, and nobody    *)
(* has abandoned one that was not.                                         *)
Waits ==
    /\ NobodyIsForgotten
    /\ \A c \in Callers : caller[c].step = "waiting" => op[caller[c].op].step # "unborn"
    /\ \A i \in Ops : op[i].step = "unborn" => ~op[i].abandoned

Counted == active = Cardinality(Registered)
GateCounted == permits = Cardinality(admitted)

Ordered ==
    /\ server \in {"canceling", "joining", "closed"} => stopping
    /\ ClosedIsQuiet

OpsInv == OperationTypes /\ Linked /\ Waits /\ Counted

IInv == CredentialTypes /\ FlagTypes /\ OpsInv /\ GateCounted /\ Ordered

-----------------------------------------------------------------------------

(* There are finitely many operations and requests.                        *)
LEMMA Finite ==
  /\ IsFiniteSet(Registered)
  /\ admitted \subseteq Requests => IsFiniteSet(admitted)
<1>1. IsFiniteSet(Ops)
  BY RefreshAssumption, FS_Interval DEF Ops
<1>2. Registered \subseteq Ops
  BY DEF Registered
<1> QED
  BY <1>1, <1>2, RefreshAssumption, ShutdownAssumption, FS_Subset

(* The initial state.                                                      *)
LEMMA InitInv == Init => IInv
<1> SUFFICES ASSUME Init PROVE IInv
  OBVIOUS
<1> USE DEF Init, RefreshInit
<1>1. CredentialTypes
  BY DEF CredentialTypes, Credential, Unused
<1>2. OperationTypes
  BY DEF OperationTypes, Operation, CallerState, Credential, Unused, Steps, Answers, NoOp
<1>3. Registered = {} /\ admitted = {}
  BY DEF Registered
<1>4. Linked /\ Waits
  BY <1>3 DEF Linked, Waits, NobodyIsForgotten, Live, NoOp, Ops
<1>5. Counted /\ GateCounted
  BY <1>3, FS_EmptySet DEF Counted, GateCounted
<1>6. FlagTypes /\ Ordered
  BY <1>3 DEF FlagTypes, Ordered, ClosedIsQuiet, Stages
<1> QED
  BY <1>1, <1>2, <1>4, <1>5, <1>6 DEF IInv, OpsInv

-----------------------------------------------------------------------------
(* Operations.                                                             *)

(* An operation that goes on without an answer keeps its place.            *)
LEMMA Carry ==
  ASSUME OpsInv, NEW i \in Ops, NEW o \in Operation, Goes(i, o),
         op[i].step \in LiveSteps, o.step \in LiveSteps,
         o.account = op[i].account, o.waiters = op[i].waiters,
         o.abandoned = op[i].abandoned,
         UNCHANGED <<inflight, caller, active>>
  PROVE  OpsInv' /\ UNCHANGED Registered
<1>1. \A j \in Ops : op'[j] = IF j = i THEN o ELSE op[j]
  BY DEF OpsInv, OperationTypes, Goes
<1>2. UNCHANGED <<Registered, Closed, Live>>
  BY <1>1 DEF Registered, Closed, Live, LiveSteps
<1>3. OperationTypes'
  BY DEF OpsInv, OperationTypes, Goes
<1>4. \A j \in Ops : /\ op'[j].account = op[j].account
                     /\ op'[j].waiters = op[j].waiters
                     /\ op'[j].abandoned = op[j].abandoned
                     /\ op'[j].step = "unborn" <=> op[j].step = "unborn"
  BY <1>1 DEF LiveSteps
<1>5. Linked'
  BY <1>2, <1>4 DEF OpsInv, Linked, Live, Registered, OperationTypes
<1>6. Waits'
  BY <1>2, <1>4 DEF OpsInv, Waits, NobodyIsForgotten, OperationTypes, CallerState, NoOp
<1>7. Counted'
  BY <1>2 DEF OpsInv, Counted
<1> QED
  BY <1>2, <1>3, <1>5, <1>6, <1>7 DEF OpsInv

(* What the endpoint answered is a credential.                             *)
LEMMA ExchangeStep ==
  ASSUME IInv, NEW i \in Ops, Exchange(i)
  PROVE  OpsInv' /\ CredentialTypes' /\ UNCHANGED Registered
<1> DEFINE got(answer, next) ==
        [op[i] EXCEPT !.step = IF answer = "error" THEN "publish" ELSE "persist",
                      !.answer = answer, !.next = next, !.err = answer # "tokens"]
<1>1. op[i] \in Operation /\ op[i].from \in Credential /\ op[i].step = "exchange"
  BY DEF IInv, OpsInv, OperationTypes, Operation, Exchange
<1>2. ASSUME NEW answer \in Answers, NEW next \in Credential, Goes(i, got(answer, next))
      PROVE  OpsInv' /\ UNCHANGED Registered
  <2>1. /\ got(answer, next) \in Operation
        /\ got(answer, next).step \in LiveSteps
        /\ got(answer, next).account = op[i].account
        /\ got(answer, next).waiters = op[i].waiters
        /\ got(answer, next).abandoned = op[i].abandoned
    BY <1>1, <1>2 DEF Operation, LiveSteps, Steps
  <2> HIDE DEF got
  <2> QED
    BY <1>1, <1>2, <2>1, Carry DEF Exchange, IInv, registryVars, LiveSteps
<1>3. clock \in Nat /\ refused \subseteq Nat /\ op[i].from.token \in Nat
  BY <1>1 DEF IInv, CredentialTypes, Credential
<1>4. CredentialTypes'
  BY <1>3 DEF Exchange, IInv, CredentialTypes
<1>5. CASE /\ clock' = clock + 1
           /\ Goes(i, got("tokens", [token |-> clock', at |-> clock', reauth |-> FALSE]))
  <2> DEFINE issued == [token |-> clock', at |-> clock', reauth |-> FALSE]
  <2>1. issued \in Credential /\ Goes(i, got("tokens", issued))
    BY <1>3, <1>5 DEF Credential
  <2> HIDE DEF issued, got
  <2> QED
    BY <1>2, <1>4, <2>1 DEF Answers
<1>6. CASE Goes(i, got("refused", [op[i].from EXCEPT !.reauth = TRUE]))
  <2>1. [op[i].from EXCEPT !.reauth = TRUE] \in Credential
    BY <1>1 DEF Credential
  <2> QED
    BY <1>2, <1>4, <1>6, <2>1 DEF Answers
<1>7. CASE Goes(i, got("error", op[i].from))
  BY <1>1, <1>2, <1>4, <1>7 DEF Answers
<1>8. \/ /\ clock' = clock + 1
         /\ Goes(i, got("tokens", [token |-> clock', at |-> clock', reauth |-> FALSE]))
      \/ Goes(i, got("refused", [op[i].from EXCEPT !.reauth = TRUE]))
      \/ Goes(i, got("error", op[i].from))
  BY DEF Exchange
<1> HIDE DEF got
<1> QED
  BY <1>5, <1>6, <1>7, <1>8

(* A row that stays, or the one that is stored, is a credential.           *)
LEMMA PersistStep ==
  ASSUME IInv, NEW i \in Ops, Persist(i)
  PROVE  OpsInv' /\ CredentialTypes' /\ UNCHANGED Registered
<1>1. op[i] \in Operation /\ op[i].next \in Credential /\ op[i].step = "persist"
  BY DEF IInv, OpsInv, OperationTypes, Operation, Persist
<1>2. op[i].account \in Accounts
  BY <1>1 DEF IInv, OpsInv, Linked, Live, Registered, Closed
<1>3. Row(i) \in Credential
  BY <1>1, <1>2 DEF Row, IInv, CredentialTypes
<1>4. CASE /\ ~ended
           /\ stored' = [stored EXCEPT ![op[i].account] = Row(i)]
           /\ memory' = Reconciled(stored')
           /\ Goes(i, [op[i] EXCEPT !.step = "publish", !.next = Row(i)])
  <2>1. [op[i] EXCEPT !.step = "publish", !.next = Row(i)] \in Operation
    BY <1>1, <1>3 DEF Operation, Steps
  <2>2. CredentialTypes'
    BY <1>3, <1>4 DEF Persist, IInv, CredentialTypes, Reconciled, Adopted
  <2> QED
    BY <1>1, <1>4, <2>1, <2>2, Carry DEF Persist, IInv, registryVars, LiveSteps, Operation
<1>5. CASE /\ Goes(i, [op[i] EXCEPT !.step = "publish", !.lost = TRUE,
                                    !.err = TRUE, !.failed = TRUE])
           /\ UNCHANGED <<memory, stored>>
  <2>1. [op[i] EXCEPT !.step = "publish", !.lost = TRUE, !.err = TRUE, !.failed = TRUE]
            \in Operation
    BY <1>1 DEF Operation, Steps
  <2>2. CredentialTypes'
    BY <1>5 DEF Persist, IInv, CredentialTypes
  <2> QED
    BY <1>1, <1>5, <2>1, <2>2, Carry DEF Persist, IInv, registryVars, LiveSteps, Operation
<1> QED
  BY <1>4, <1>5 DEF Persist

(* Publishing writes what the operation holds, or nothing.                 *)
LEMMA PublishStep ==
  ASSUME IInv, NEW i \in Ops, Publish(i)
  PROVE  OpsInv' /\ CredentialTypes' /\ UNCHANGED Registered
<1>1. op[i] \in Operation /\ op[i].next \in Credential /\ op[i].step = "publish"
  BY DEF IInv, OpsInv, OperationTypes, Operation, Publish
<1>2. op[i].account \in Accounts
  BY <1>1 DEF IInv, OpsInv, Linked, Live, Registered, Closed
<1>3. /\ Published(op[i]) \in Operation
      /\ Published(op[i]).step = "notify"
      /\ Published(op[i]).account = op[i].account
      /\ Published(op[i]).waiters = op[i].waiters
      /\ Published(op[i]).abandoned = op[i].abandoned
  BY <1>1 DEF Published, Operation, Steps, Answers, Unused, Credential
<1>4. CASE /\ Goes(i, [Published(op[i]) EXCEPT !.err = FALSE, !.failed = FALSE])
           /\ UNCHANGED memory
  <2> DEFINE o == [Published(op[i]) EXCEPT !.err = FALSE, !.failed = FALSE]
  <2>1. /\ o \in Operation /\ o.step = "notify" /\ o.account = op[i].account
        /\ o.waiters = op[i].waiters /\ o.abandoned = op[i].abandoned
    BY <1>3 DEF Operation
  <2>2. CredentialTypes'
    BY <1>4 DEF Publish, IInv, CredentialTypes
  <2> QED
    BY <1>1, <1>4, <2>1, <2>2, Carry DEF Publish, IInv, registryVars, LiveSteps
<1>5. CASE /\ Goes(i, Published(op[i]))
           /\ memory' = [memory EXCEPT ![op[i].account] =
                  CASE op[i].answer = "refused" -> [@ EXCEPT !.reauth = op[i].next.reauth]
                    [] op[i].answer = "tokens" /\ ~op[i].lost -> op[i].next
                    [] OTHER -> @]
  <2> DEFINE mine == memory[op[i].account]
             told == CASE op[i].answer = "refused" -> [mine EXCEPT !.reauth = op[i].next.reauth]
                       [] op[i].answer = "tokens" /\ ~op[i].lost -> op[i].next
                       [] OTHER -> mine
  <2>1. mine \in Credential
    BY <1>2 DEF IInv, CredentialTypes
  <2>2. [mine EXCEPT !.reauth = op[i].next.reauth] \in Credential
    BY <1>1, <2>1 DEF Credential
  <2>3. told \in Credential
    BY <1>1, <2>1, <2>2
  <2>4. memory' = [memory EXCEPT ![op[i].account] = told]
    BY <1>5
  <2> HIDE DEF told, mine
  <2>5. CredentialTypes'
    BY <2>3, <2>4 DEF Publish, IInv, CredentialTypes
  <2> QED
    BY <1>1, <1>3, <1>5, <2>5, Carry DEF Publish, IInv, registryVars, LiveSteps
<1> QED
  BY <1>4, <1>5 DEF Publish

LEMMA NotifyStep ==
  ASSUME IInv, NEW i \in Ops, Notify(i)
  PROVE  OpsInv' /\ CredentialTypes' /\ UNCHANGED Registered
<1>1. op[i] \in Operation /\ op[i].step = "notify"
  BY DEF IInv, OpsInv, OperationTypes, Notify
<1>2. CredentialTypes'
  BY DEF Notify, IInv, CredentialTypes, credentialVars
<1>3. [op[i] EXCEPT !.step = "close", !.err = TRUE, !.failed = TRUE] \in Operation
  BY <1>1 DEF Operation, Steps
<1>4. [op[i] EXCEPT !.step = "close"] \in Operation
  BY <1>1 DEF Operation, Steps
<1>5. CASE Goes(i, [op[i] EXCEPT !.step = "close", !.err = TRUE, !.failed = TRUE])
  BY <1>1, <1>2, <1>3, <1>5, Carry DEF Notify, IInv, registryVars, LiveSteps, Operation
<1>6. CASE Goes(i, [op[i] EXCEPT !.step = "close"])
  BY <1>1, <1>2, <1>4, <1>6, Carry DEF Notify, IInv, registryVars, LiveSteps, Operation
<1> QED
  BY <1>5, <1>6 DEF Notify

(* Answering frees the account; the operation still counts.                *)
LEMMA CloseStep ==
  ASSUME IInv, NEW i \in Ops, Close(i)
  PROVE  /\ OpsInv' /\ CredentialTypes' /\ UNCHANGED Registered
         /\ op[i].account \in Accounts
         /\ inflight[op[i].account] # NoOp
<1> DEFINE o == [op[i] EXCEPT !.step = "finish", !.abandoned = FALSE]
<1>1. op[i] \in Operation /\ op[i].step = "close"
  BY DEF IInv, OpsInv, OperationTypes, Close
<1>2. op[i].account \in Accounts /\ inflight[op[i].account] = i /\ i # NoOp
  BY <1>1 DEF IInv, OpsInv, Linked, Live, Registered, Closed, Ops, NoOp
<1>3. /\ o \in Operation /\ o.step = "finish" /\ o.account = op[i].account
      /\ o.waiters = op[i].waiters
  BY <1>1 DEF Operation, Steps
<1>4. op' = [op EXCEPT ![i] = o]
  BY DEF Close, Goes
<1> HIDE DEF o
<1>5. \A j \in Ops : op'[j] = IF j = i THEN o ELSE op[j]
  BY <1>4 DEF IInv, OpsInv, OperationTypes
<1>6. UNCHANGED Registered /\ Closed' = Closed \cup {i} /\ Live' = Live \ {i}
  BY <1>1, <1>3, <1>5 DEF Registered, Closed, Live
<1>7. OperationTypes'
  BY <1>2, <1>3, <1>4 DEF Close, IInv, OpsInv, OperationTypes
<1>8. \A a \in Accounts : inflight'[a] = IF a = op[i].account THEN NoOp ELSE inflight[a]
  BY <1>2 DEF Close, IInv, OpsInv, OperationTypes
<1>9. Linked'
  BY <1>2, <1>3, <1>5, <1>6, <1>8 DEF IInv, OpsInv, Linked, Live, Registered
<1>10. Waits'
  <2> SUFFICES ASSUME NEW c \in Callers, caller'[c].step = "waiting"
               PROVE  LET j == caller'[c].op IN
                      /\ j # NoOp /\ c \in op'[j].waiters
                      /\ j \notin Closed' => inflight'[op'[j].account] = j /\ ~op'[j].abandoned
                      /\ op'[j].step # "unborn"
    BY <1>1, <1>3, <1>5 DEF IInv, OpsInv, Waits, NobodyIsForgotten
  <2> DEFINE j == caller[c].op
  <2>1. UNCHANGED caller
    BY DEF Close
  <2>2. /\ j # NoOp /\ c \in op[j].waiters /\ op[j].step # "unborn" /\ j \in Ops
        /\ j \notin Closed => inflight[op[j].account] = j /\ ~op[j].abandoned
    BY <2>1 DEF IInv, OpsInv, Waits, NobodyIsForgotten, OperationTypes, CallerState
  <2>3. CASE j = i
    BY <1>3, <1>5, <1>6, <2>1, <2>2, <2>3
  <2>4. CASE j # i
    <3>1. j \notin Closed => op[j].account \in Accounts /\ op[j].account # op[i].account
      BY <1>2, <2>2, <2>4 DEF IInv, OpsInv, Linked, Live, Registered, Closed, OperationTypes,
         Operation, Steps
    <3> QED
      BY <1>5, <1>6, <1>8, <2>1, <2>2, <2>4, <3>1
  <2> QED
    BY <2>3, <2>4
<1>11. Counted' /\ CredentialTypes'
  BY <1>6 DEF Close, IInv, OpsInv, Counted, CredentialTypes, credentialVars, registryVars
<1> QED
  BY <1>2, <1>6, <1>7, <1>9, <1>10, <1>11 DEF OpsInv

(* The goroutine ends, and the count follows.                              *)
LEMMA FinishStep ==
  ASSUME IInv, NEW i \in Ops, Finish(i)
  PROVE  /\ OpsInv' /\ failure' \in BOOLEAN
         /\ i \in Registered /\ Registered' = Registered \ {i}
         /\ \A a \in Accounts : inflight[a] # i
<1>1. op[i] \in Operation /\ op[i].step = "finish" /\ stopping \in BOOLEAN
  BY DEF IInv, OpsInv, OperationTypes, FlagTypes, Finish
<1>2. /\ Gone(i) \in Operation /\ Gone(i).step = "done" /\ Gone(i).account = op[i].account
      /\ Gone(i).waiters = op[i].waiters /\ Gone(i).abandoned = op[i].abandoned
  BY <1>1 DEF Gone, Operation, Steps, Unused, Credential
<1>3. \A j \in Ops : op'[j] = IF j = i THEN Gone(i) ELSE op[j]
  BY DEF Finish, Goes, IInv, OpsInv, OperationTypes
<1>4. /\ i \in Registered /\ Registered' = Registered \ {i}
      /\ UNCHANGED <<Closed, Live>>
      /\ \A j \in Ops : op'[j].step = "unborn" <=> op[j].step = "unborn"
  BY <1>1, <1>2, <1>3 DEF Registered, Closed, Live
<1>5. OperationTypes'
  BY <1>2 DEF Finish, Goes, IInv, OpsInv, OperationTypes
<1>6. \A j \in Ops : /\ op'[j].account = op[j].account
                     /\ op'[j].waiters = op[j].waiters
                     /\ op'[j].abandoned = op[j].abandoned
  BY <1>2, <1>3
<1>7. Linked' /\ \A a \in Accounts : inflight[a] # i
  BY <1>1, <1>4, <1>6 DEF Finish, IInv, OpsInv, Linked, Live, Registered, Closed, Ops, NoOp
<1>8. Waits'
  BY <1>4, <1>6 DEF Finish, IInv, OpsInv, Waits, NobodyIsForgotten, OperationTypes, CallerState, NoOp
<1>9. Counted'
  BY <1>4, Finite, FS_RemoveElement DEF Finish, IInv, OpsInv, Counted
<1>10. failure' \in BOOLEAN
  BY DEF Finish
<1> QED
  BY <1>4, <1>5, <1>7, <1>8, <1>9, <1>10 DEF OpsInv

-----------------------------------------------------------------------------
(* Callers.                                                                *)

(* A new operation has the account for itself, and one waiter.             *)
LEMMA LaunchStep ==
  ASSUME IInv, NEW c \in Callers, NEW a \in Accounts, NEW i \in Ops,
         Launch(c, a, i), inflight[a] = NoOp
  PROVE  /\ OpsInv'
         /\ i \notin Registered /\ Registered' = Registered \cup {i}
<1> DEFINE o == [op[i] EXCEPT !.step = "exchange", !.account = a,
                              !.waiters = {c}, !.from = memory[a]]
<1>1. op[i] \in Operation /\ op[i].step = "unborn" /\ memory[a] \in Credential
  BY DEF IInv, OpsInv, OperationTypes, CredentialTypes, Launch
<1>2. o \in Operation /\ o.step = "exchange" /\ o.account = a /\ o.waiters = {c}
      /\ o.abandoned = op[i].abandoned
  BY <1>1 DEF Operation, Steps
<1>3. op' = [op EXCEPT ![i] = o]
  BY DEF Launch
<1> HIDE DEF o
<1>4. \A j \in Ops : op'[j] = IF j = i THEN o ELSE op[j]
  BY <1>3 DEF IInv, OpsInv, OperationTypes
<1>5. /\ i \notin Registered /\ Registered' = Registered \cup {i}
      /\ UNCHANGED Closed /\ Live' = Live \cup {i} /\ i \notin Live /\ i \notin Closed
  BY <1>1, <1>2, <1>4 DEF Registered, Closed, Live
<1>6. /\ inflight' = [inflight EXCEPT ![a] = i]
      /\ caller' = [caller EXCEPT ![c] = [step |-> "waiting", account |-> a, op |-> i]]
  BY DEF Launch
<1>7. OperationTypes'
  BY <1>2, <1>3, <1>6 DEF IInv, OpsInv, OperationTypes, CallerState
<1>8. \A b \in Accounts : inflight'[b] = IF b = a THEN i ELSE inflight[b]
  BY <1>6 DEF IInv, OpsInv, OperationTypes
<1>9. Linked'
  <2>1. \A b \in Accounts : inflight'[b] # NoOp =>
            inflight'[b] \in Live' /\ op'[inflight'[b]].account = b
    BY <1>2, <1>4, <1>5, <1>8 DEF IInv, OpsInv, Linked, Live, Registered
  <2>2. \A j \in Live' : op'[j].account \in Accounts /\ inflight'[op'[j].account] = j
    <3> SUFFICES ASSUME NEW j \in Live'
                 PROVE  op'[j].account \in Accounts /\ inflight'[op'[j].account] = j
      OBVIOUS
    <3>1. CASE j = i
      BY <1>2, <1>4, <1>8, <3>1
    <3>2. CASE j # i
      <4>1. j \in Live /\ j \in Ops /\ op'[j] = op[j]
        BY <1>4, <1>5, <3>2 DEF Live, Registered
      <4>2. op[j].account \in Accounts /\ inflight[op[j].account] = j /\ j # NoOp
        BY <4>1 DEF IInv, OpsInv, Linked, Ops, NoOp
      <4> QED
        BY <1>8, <4>1, <4>2
    <3> QED
      BY <3>1, <3>2
  <2> QED
    BY <2>1, <2>2 DEF Linked
<1>10. Waits'
  <2> SUFFICES ASSUME NEW d \in Callers, caller'[d].step = "waiting"
               PROVE  LET j == caller'[d].op IN
                      /\ j # NoOp /\ d \in op'[j].waiters
                      /\ j \notin Closed' => inflight'[op'[j].account] = j /\ ~op'[j].abandoned
                      /\ op'[j].step # "unborn"
    BY <1>2, <1>4 DEF IInv, OpsInv, Waits, NobodyIsForgotten
  <2>1. CASE d = c
    <3>1. caller'[d].op = i
      BY <1>6, <2>1 DEF IInv, OpsInv, OperationTypes
    <3>2. ~op[i].abandoned
      BY <1>1 DEF IInv, OpsInv, Waits
    <3> QED
      BY <1>2, <1>4, <1>5, <1>8, <2>1, <3>1, <3>2 DEF Ops, NoOp
  <2>2. CASE d # c
    <3> DEFINE j == caller[d].op
    <3>1. caller'[d] = caller[d]
      BY <1>6, <2>2 DEF IInv, OpsInv, OperationTypes
    <3>2. /\ j # NoOp /\ d \in op[j].waiters /\ op[j].step # "unborn" /\ j \in Ops
          /\ j \notin Closed => inflight[op[j].account] = j /\ ~op[j].abandoned
      BY <3>1 DEF IInv, OpsInv, Waits, NobodyIsForgotten, OperationTypes, CallerState
    <3>3. j # i /\ op'[j] = op[j]
      BY <1>1, <1>4, <3>2
    <3>4. j \notin Closed => op[j].account \in Accounts /\ op[j].account # a
      BY <3>2 DEF IInv, OpsInv, Linked, Live, Registered, Closed, OperationTypes, Operation, Steps
    <3> QED
      BY <1>5, <1>8, <3>1, <3>2, <3>3, <3>4
  <2> QED
    BY <2>1, <2>2
<1>11. Counted'
  BY <1>5, Finite, FS_AddElement DEF Launch, IInv, OpsInv, Counted
<1> QED
  BY <1>5, <1>7, <1>9, <1>10, <1>11 DEF OpsInv

(* What an operation knows of its waiters does not move it.                *)
LEMMA WaitersStep ==
  ASSUME IInv, NEW i \in Ops, NEW o \in Operation, op' = [op EXCEPT ![i] = o],
         o.step = op[i].step, o.account = op[i].account,
         caller' \in [Callers -> CallerState],
         UNCHANGED <<inflight, active>>
  PROVE  /\ OperationTypes' /\ Linked' /\ Counted' /\ UNCHANGED <<Registered, Closed>>
         /\ \A j \in Ops : op'[j] = IF j = i THEN o ELSE op[j]
<1>1. \A j \in Ops : op'[j] = IF j = i THEN o ELSE op[j]
  BY DEF IInv, OpsInv, OperationTypes
<1>2. \A j \in Ops : op'[j].step = op[j].step /\ op'[j].account = op[j].account
  BY <1>1
<1>3. UNCHANGED <<Registered, Closed, Live>>
  BY <1>2 DEF Registered, Closed, Live
<1>4. OperationTypes'
  BY DEF IInv, OpsInv, OperationTypes
<1>5. Linked'
  BY <1>2, <1>3 DEF IInv, OpsInv, Linked, Live, Registered
<1> QED
  BY <1>1, <1>3, <1>4, <1>5 DEF IInv, OpsInv, Counted

(* A caller that does not wait for an answer concerns nobody else.         *)
LEMMA CallerStep ==
  ASSUME IInv, NEW c \in Callers, NEW s \in CallerState, s.step # "waiting",
         caller' = [caller EXCEPT ![c] = s], UNCHANGED <<inflight, op, active>>
  PROVE  OpsInv' /\ UNCHANGED Registered
<1>1. UNCHANGED <<Registered, Closed, Live>>
  BY DEF Registered, Closed, Live
<1>2. OperationTypes'
  BY DEF IInv, OpsInv, OperationTypes
<1>3. \A d \in Callers : caller'[d].step = "waiting" => caller'[d] = caller[d]
  BY DEF IInv, OpsInv, OperationTypes
<1>4. Waits'
  BY <1>1, <1>3 DEF IInv, OpsInv, Waits, NobodyIsForgotten
<1> QED
  BY <1>1, <1>2, <1>4 DEF IInv, OpsInv, Linked, Counted

(* Joining: the operation is live and not abandoned.                       *)
LEMMA JoinStep ==
  ASSUME IInv, NEW c \in Callers, NEW a \in Accounts, JoinRefresh(c, a)
  PROVE  OpsInv' /\ UNCHANGED Registered
<1> DEFINE i == inflight[a]
           o == [op[i] EXCEPT !.waiters = @ \cup {c}]
<1>1. i \in Ops /\ i \in Live /\ op[i].account = a /\ i # NoOp /\ ~op[i].abandoned
  BY DEF JoinRefresh, IInv, OpsInv, OperationTypes, Linked
<1>2. op[i] \in Operation
  BY <1>1 DEF IInv, OpsInv, OperationTypes
<1>3. /\ o \in Operation /\ o.step = op[i].step /\ o.account = op[i].account
      /\ o.abandoned = op[i].abandoned /\ o.waiters = op[i].waiters \cup {c}
  BY <1>2 DEF Operation
<1>4. op' = [op EXCEPT ![i] = o] /\ UNCHANGED <<inflight, active>>
  BY DEF JoinRefresh, registryVars
<1>5. caller' = [caller EXCEPT ![c] = [step |-> "waiting", account |-> a, op |-> i]]
  BY DEF JoinRefresh
<1>6. caller' \in [Callers -> CallerState]
  BY <1>1, <1>5 DEF IInv, OpsInv, OperationTypes, CallerState
<1> HIDE DEF o
<1>7. /\ OperationTypes' /\ Linked' /\ Counted' /\ UNCHANGED <<Registered, Closed>>
      /\ \A j \in Ops : op'[j] = IF j = i THEN o ELSE op[j]
  BY <1>1, <1>3, <1>4, <1>6, WaitersStep
<1> HIDE DEF i
<1>8. \A d \in Callers : caller'[d] = IF d = c
          THEN [step |-> "waiting", account |-> a, op |-> i] ELSE caller[d]
  BY <1>5 DEF IInv, OpsInv, OperationTypes
<1>9. \A j \in Ops : /\ op'[j].step = op[j].step
                     /\ op'[j].account = op[j].account
                     /\ op'[j].abandoned = op[j].abandoned
                     /\ op[j].waiters \subseteq op'[j].waiters
  BY <1>3, <1>7
<1>10. c \in op'[i].waiters /\ op[i].step # "unborn" /\ inflight[a] = i
  BY <1>1, <1>3, <1>7 DEF Live, Registered, i
<1>11. Waits'
  <2> SUFFICES ASSUME NEW d \in Callers, caller'[d].step = "waiting"
               PROVE  LET j == caller'[d].op IN
                      /\ j # NoOp /\ d \in op'[j].waiters
                      /\ j \notin Closed' => inflight'[op'[j].account] = j /\ ~op'[j].abandoned
                      /\ op'[j].step # "unborn"
    BY <1>9 DEF IInv, OpsInv, Waits, NobodyIsForgotten
  <2>1. CASE d = c
    BY <1>1, <1>4, <1>7, <1>8, <1>9, <1>10, <2>1
  <2>2. CASE d # c
    BY <1>4, <1>7, <1>8, <1>9, <2>2
       DEF IInv, OpsInv, Waits, NobodyIsForgotten, OperationTypes, CallerState, NoOp
  <2> QED
    BY <2>1, <2>2
<1> QED
  BY <1>7, <1>11 DEF OpsInv

(* Leaving: the others stay, and only the last one may abandon.            *)
LEMMA LeaveStep ==
  ASSUME IInv, NEW c \in Callers, NEW b \in BOOLEAN,
         caller[c].step = "waiting", Return(c),
         LET i == caller[c].op IN
         /\ op' = [op EXCEPT ![i] = [op[i] EXCEPT !.waiters = @ \ {c}, !.abandoned = b]]
         /\ b => op[i].abandoned \/ op[i].waiters \ {c} = {},
         UNCHANGED <<inflight, active>>
  PROVE  OpsInv' /\ UNCHANGED Registered
<1> DEFINE i == caller[c].op
           o == [op[i] EXCEPT !.waiters = @ \ {c}, !.abandoned = b]
<1>1. i \in Ops /\ op[i].step # "unborn"
  BY DEF IInv, OpsInv, OperationTypes, CallerState, Waits, NobodyIsForgotten
<1>2. op[i] \in Operation
  BY <1>1 DEF IInv, OpsInv, OperationTypes
<1>3. /\ o \in Operation /\ o.step = op[i].step /\ o.account = op[i].account
      /\ o.abandoned = b /\ o.waiters = op[i].waiters \ {c}
  BY <1>2 DEF Operation
<1>4. op' = [op EXCEPT ![i] = o] /\ (b => op[i].abandoned \/ op[i].waiters \ {c} = {})
  OBVIOUS
<1>5. /\ caller' \in [Callers -> CallerState]
      /\ \A d \in Callers : caller'[d].step = "waiting" => d # c /\ caller'[d] = caller[d]
  BY DEF Return, IInv, OpsInv, OperationTypes, CallerState
<1> HIDE DEF o, i
<1>6. /\ OperationTypes' /\ Linked' /\ Counted' /\ UNCHANGED <<Registered, Closed>>
      /\ \A j \in Ops : op'[j] = IF j = i THEN o ELSE op[j]
  BY <1>1, <1>3, <1>4, <1>5, WaitersStep
<1>7. Waits'
  <2>1. \A j \in Ops : op'[j].step = "unborn" => ~op'[j].abandoned
    BY <1>1, <1>3, <1>6 DEF IInv, OpsInv, Waits
  <2> SUFFICES ASSUME NEW d \in Callers, caller'[d].step = "waiting"
               PROVE  LET j == caller'[d].op IN
                      /\ j # NoOp /\ d \in op'[j].waiters
                      /\ j \notin Closed' => inflight'[op'[j].account] = j /\ ~op'[j].abandoned
                      /\ op'[j].step # "unborn"
    BY <2>1 DEF Waits, NobodyIsForgotten
  <2> DEFINE j == caller[d].op
  <2>2. d # c /\ caller'[d] = caller[d]
    BY <1>5
  <2>3. /\ j # NoOp /\ d \in op[j].waiters /\ op[j].step # "unborn" /\ j \in Ops
        /\ j \notin Closed => inflight[op[j].account] = j /\ ~op[j].abandoned
    BY <2>2 DEF IInv, OpsInv, Waits, NobodyIsForgotten, OperationTypes, CallerState
  <2>4. /\ op'[j].step = op[j].step /\ op'[j].account = op[j].account /\ d \in op'[j].waiters
        /\ ~op[j].abandoned => ~op'[j].abandoned
    BY <1>3, <1>4, <1>6, <2>2, <2>3
  <2> QED
    BY <1>6, <2>2, <2>3, <2>4
<1> QED
  BY <1>6, <1>7 DEF OpsInv

LEMMA TakeAnswerStep ==
  ASSUME IInv, NEW c \in Callers, TakeAnswer(c)
  PROVE  OpsInv' /\ UNCHANGED Registered
<1> DEFINE i == caller[c].op
<1>1. i \in Ops /\ op[i] \in Operation /\ caller[c].step = "waiting"
  BY DEF TakeAnswer, IInv, OpsInv, OperationTypes, CallerState, Waits, NobodyIsForgotten
<1>2. op[i].abandoned \in BOOLEAN
  BY <1>1 DEF Operation
<1>3. [op[i] EXCEPT !.waiters = @ \ {c}] = [op[i] EXCEPT !.waiters = @ \ {c}, !.abandoned = op[i].abandoned]
  BY <1>1 DEF Operation
<1>4. op' = [op EXCEPT ![i] = [op[i] EXCEPT !.waiters = @ \ {c}, !.abandoned = op[i].abandoned]]
  BY <1>3 DEF TakeAnswer
<1>5. Return(c) /\ UNCHANGED <<inflight, active>>
  BY DEF TakeAnswer, registryVars
<1> QED
  BY <1>1, <1>2, <1>4, <1>5, LeaveStep

LEMMA GiveUpStep ==
  ASSUME IInv, NEW c \in Callers, GiveUp(c)
  PROVE  OpsInv' /\ UNCHANGED Registered
<1> DEFINE i == caller[c].op
           left == op[i].waiters \ {c}
           last == left = {} /\ inflight[op[i].account] = i
<1>1. Return(c) /\ UNCHANGED <<inflight, active>>
  BY DEF GiveUp, registryVars
<1>2. CASE /\ caller[c].step = "waiting"
           /\ op' = [op EXCEPT ![i].waiters = left, ![i].abandoned = @ \/ last]
  <2> DEFINE b == op[i].abandoned \/ last
  <2>1. i \in Ops /\ op[i] \in Operation
    BY <1>2 DEF IInv, OpsInv, OperationTypes, CallerState, Waits, NobodyIsForgotten
  <2>2. b \in BOOLEAN /\ (b => op[i].abandoned \/ op[i].waiters \ {c} = {})
    OBVIOUS
  <2>3. op' = [op EXCEPT ![i] = [op[i] EXCEPT !.waiters = @ \ {c}, !.abandoned = b]]
    BY <1>2, <2>1 DEF IInv, OpsInv, OperationTypes
  <2> HIDE DEF b
  <2> QED
    BY <1>1, <1>2, <2>2, <2>3, LeaveStep
<1>3. CASE caller[c].step = "blocked" /\ UNCHANGED op
  <2>1. [step |-> "idle", account |-> NoAccount, op |-> NoOp] \in CallerState
    BY DEF CallerState
  <2> QED
    BY <1>1, <1>3, <2>1, CallerStep DEF Return
<1> QED
  BY <1>2, <1>3 DEF GiveUp

(* A caller at the head of the loop starts an operation, or joins, waits   *)
(* or returns without touching the accounts' operations.                   *)
LEMMA AskStep ==
  ASSUME IInv, NEW c \in Callers, AskRefresh(c)
  PROVE  /\ OpsInv' /\ UNCHANGED <<credentialVars, stopping, ended, failure, lifetimeEnded>>
         /\ \/ UNCHANGED <<inflight, Registered>>
            \/ \E a \in Accounts, i \in Ops :
                  /\ ~stopping /\ inflight[a] = NoOp /\ i \notin Registered
                  /\ inflight' = [inflight EXCEPT ![a] = i]
                  /\ Registered' = Registered \cup {i}
<1> PICK a \in Accounts : \/ WaitForAbandoned(c, a)
                          \/ JoinRefresh(c, a)
                          \/ RefuseRefresh(c, a)
                          \/ \E i \in Ops : StartRefresh(c, a, i)
  BY DEF AskRefresh
<1>1. CASE WaitForAbandoned(c, a)
  <2>1. [step |-> "blocked", account |-> a, op |-> inflight[a]] \in CallerState
    BY DEF CallerState, IInv, OpsInv, OperationTypes
  <2> QED
    BY <1>1, <2>1, CallerStep DEF WaitForAbandoned, registryVars
<1>2. CASE JoinRefresh(c, a)
  BY <1>2, JoinStep DEF JoinRefresh, registryVars
<1>3. CASE RefuseRefresh(c, a)
  <2>1. [step |-> "idle", account |-> NoAccount, op |-> NoOp] \in CallerState
    BY DEF CallerState
  <2> QED
    BY <1>3, <2>1, CallerStep DEF RefuseRefresh, Return, registryVars
<1>4. CASE \E i \in Ops : StartRefresh(c, a, i)
  <2> PICK i \in Ops : StartRefresh(c, a, i)
    BY <1>4
  <2>1. Launch(c, a, i) /\ inflight[a] = NoOp /\ ~stopping
    BY DEF StartRefresh
  <2>2. OpsInv' /\ i \notin Registered /\ Registered' = Registered \cup {i}
    BY <2>1, LaunchStep
  <2> QED
    BY <2>1, <2>2 DEF Launch
<1> QED
  BY <1>1, <1>2, <1>3, <1>4

(* The goroutine of an operation: its account is freed, and later its      *)
(* place in the count.                                                     *)
LEMMA WorkStep ==
  ASSUME IInv, NEW i \in Ops, Work(i)
  PROVE  /\ OpsInv' /\ CredentialTypes' /\ failure' \in BOOLEAN
         /\ UNCHANGED <<stopping, ended, lifetimeEnded>>
         /\ \/ UNCHANGED <<inflight, Registered>>
            \/ \E a \in Accounts : /\ inflight[a] # NoOp
                                   /\ inflight' = [inflight EXCEPT ![a] = NoOp]
                                   /\ UNCHANGED Registered
            \/ /\ i \in Registered /\ \A a \in Accounts : inflight[a] # i
               /\ Registered' = Registered \ {i}
               /\ UNCHANGED inflight
<1>1. failure \in BOOLEAN
  BY DEF IInv, FlagTypes
<1>2. CASE Exchange(i)
  BY <1>1, <1>2, ExchangeStep DEF Exchange, registryVars
<1>3. CASE Persist(i)
  BY <1>1, <1>3, PersistStep DEF Persist, registryVars
<1>4. CASE Publish(i)
  BY <1>1, <1>4, PublishStep DEF Publish, registryVars
<1>5. CASE Notify(i)
  BY <1>1, <1>5, NotifyStep DEF Notify, registryVars
<1>6. CASE Close(i)
  BY <1>1, <1>6, CloseStep DEF Close, registryVars
<1>7. CASE Finish(i)
  <2>1. CredentialTypes'
    BY <1>7 DEF Finish, IInv, CredentialTypes, credentialVars
  <2> QED
    BY <1>7, <2>1, FinishStep DEF Finish
<1> QED
  BY <1>2, <1>3, <1>4, <1>5, <1>6, <1>7 DEF Work

(* Other writers of credentials leave the operations alone.                *)
LEMMA WriterStep ==
  ASSUME IInv, Reload \/ \E a \in Accounts : Login(a)
  PROVE  /\ OpsInv' /\ CredentialTypes'
         /\ UNCHANGED <<registryVars, inflight, Registered>>
<1>1. UNCHANGED <<registryVars, inflight, op, caller>>
  BY DEF Reload, Login
<1>2. UNCHANGED <<Registered, Closed, Live>>
  BY <1>1 DEF Registered, Closed, Live
<1>3. OpsInv'
  BY <1>1, <1>2 DEF IInv, OpsInv, OperationTypes, Linked, Waits, NobodyIsForgotten, Counted,
     registryVars
<1>4. CASE Reload
  <2>1. memory' \in [Accounts -> Credential]
    BY <1>4 DEF Reload, Reconciled, Adopted, IInv, CredentialTypes
  <2> QED
    BY <1>1, <1>2, <1>3, <1>4, <2>1 DEF Reload, IInv, CredentialTypes
<1>5. CASE \E a \in Accounts : Login(a)
  <2> PICK a \in Accounts : Login(a)
    BY <1>5
  <2>1. clock' \in Nat
    BY DEF Login, IInv, CredentialTypes
  <2>2. stored' \in [Accounts -> Credential]
    BY <2>1 DEF Login, IInv, CredentialTypes, Credential
  <2> QED
    BY <1>1, <1>2, <1>3, <2>1, <2>2 DEF Login, IInv, CredentialTypes
<1> QED
  BY <1>4, <1>5

-----------------------------------------------------------------------------
(* The gate and the server.                                                *)

(* A step that leaves the operations alone.                                *)
LEMMA OpsKept ==
  ASSUME IInv, UNCHANGED <<credentialVars, inflight, op, caller, active>>
  PROVE  OpsInv' /\ CredentialTypes' /\ UNCHANGED Registered
<1>1. UNCHANGED <<Registered, Closed, Live>>
  BY DEF Registered, Closed, Live
<1> QED
  BY <1>1 DEF IInv, OpsInv, OperationTypes, Linked, Waits, NobodyIsForgotten, Counted,
     CredentialTypes, credentialVars

(* The permits that are out are those of the requests inside.              *)
LEMMA GateStep ==
  ASSUME IInv, NEW c \in Requests, Acquire(c) \/ Release(c)
  PROVE  IInv' /\ UNCHANGED <<inflight, Registered, stopping, server>>
<1>1. UNCHANGED <<refreshVars, serverVars, draining>>
  BY DEF Acquire, Enter, Release
<1>2. OpsInv' /\ CredentialTypes' /\ UNCHANGED Registered
  BY <1>1, OpsKept DEF refreshVars, registryVars
<1>3. IsFiniteSet(admitted) /\ GateCounted
  BY Finite DEF IInv, FlagTypes
<1>4. CASE Acquire(c)
  <2>1. GateCounted'
    BY <1>3, <1>4, FS_AddElement DEF Acquire, Enter, GateCounted
  <2> QED
    BY <1>1, <1>2, <1>4, <2>1
       DEF Acquire, Enter, IInv, FlagTypes, Ordered, ClosedIsQuiet, refreshVars, registryVars, serverVars
<1>5. CASE Release(c)
  <2>1. GateCounted'
    BY <1>3, <1>5, FS_RemoveElement DEF Release, GateCounted
  <2> QED
    BY <1>1, <1>2, <1>5, <2>1
       DEF Release, IInv, FlagTypes, Ordered, ClosedIsQuiet, refreshVars, registryVars, serverVars
<1> QED
  BY <1>4, <1>5

(* serverCmd: SQLite is closed after the count has come to zero.           *)
LEMMA ServerStep ==
  ASSUME IInv, BeginDrain \/ ServeFailed \/ Proceed \/ JoinTimeout
  PROVE  /\ IInv' /\ UNCHANGED <<inflight, Registered>>
         /\ stopping => stopping'
         /\ \/ UNCHANGED <<stopping, server>>
            \/ server' # "closed" /\ server # "closed"
            \/ /\ UNCHANGED stopping /\ stopping /\ Registered = {}
               /\ server # "closed" /\ server' = "closed"
<1>1. UNCHANGED <<credentialVars, inflight, op, caller, active, permits, admitted>>
  BY DEF BeginDrain, ServeFailed, Proceed, EndDrain, DrainTimeout, StopRegistration,
     CancelLifetime, CloseStore, JoinTimeout, refreshVars, registryVars, gateVars
<1>2. OpsInv' /\ CredentialTypes' /\ UNCHANGED Registered
  BY <1>1, OpsKept
<1>3. GateCounted'
  BY <1>1 DEF IInv, GateCounted
<1>4. FlagTypes'
  BY <1>1 DEF IInv, FlagTypes, Stages, Reaches, refreshVars, registryVars, gateVars,
     BeginDrain, ServeFailed, Proceed, EndDrain, DrainTimeout, StopRegistration,
     CancelLifetime, CloseStore, JoinTimeout
<1>5. CASE BeginDrain \/ ServeFailed \/ EndDrain \/ DrainTimeout
  BY <1>1, <1>2, <1>3, <1>4, <1>5 DEF BeginDrain, ServeFailed, EndDrain, DrainTimeout, IInv,
     Ordered, ClosedIsQuiet, Reaches, refreshVars, registryVars
<1>6. CASE StopRegistration
  BY <1>1, <1>2, <1>3, <1>4, <1>6 DEF StopRegistration, IInv, Ordered, ClosedIsQuiet, Reaches
<1>7. CASE CancelLifetime
  BY <1>1, <1>2, <1>3, <1>4, <1>7 DEF CancelLifetime, IInv, Ordered, ClosedIsQuiet, Reaches
<1>8. CASE JoinTimeout
  BY <1>1, <1>2, <1>3, <1>4, <1>8 DEF JoinTimeout, IInv, Ordered, ClosedIsQuiet
<1>9. CASE CloseStore
  <2>1. Registered = {}
    BY <1>9, Finite, FS_EmptySet DEF CloseStore, IInv, OpsInv, Counted
  <2> QED
    BY <1>1, <1>2, <1>3, <1>4, <1>9, <2>1 DEF CloseStore, IInv, Ordered, ClosedIsQuiet, Reaches
<1> QED
  BY <1>5, <1>6, <1>7, <1>8, <1>9 DEF Proceed

(* What a step of callers and operations is to the account that asked, to  *)
(* the count and to the server.                                            *)
LEMMA RefreshesStep ==
  ASSUME IInv,
         \/ \E c \in Callers : Refresh(c)
         \/ RefreshNext /\ UNCHANGED <<gateVars, serverVars>>
  PROVE  /\ IInv' /\ UNCHANGED <<gateVars, server, stopping>>
         /\ \/ UNCHANGED <<inflight, Registered>>
            \/ \E a \in Accounts, i \in Ops :
                  /\ ~stopping /\ inflight[a] = NoOp /\ i \notin Registered
                  /\ inflight' = [inflight EXCEPT ![a] = i]
                  /\ Registered' = Registered \cup {i}
            \/ \E a \in Accounts : /\ inflight[a] # NoOp
                                   /\ inflight' = [inflight EXCEPT ![a] = NoOp]
                                   /\ UNCHANGED Registered
            \/ \E i \in Ops : /\ i \in Registered /\ \A a \in Accounts : inflight[a] # i
                              /\ Registered' = Registered \ {i}
                              /\ UNCHANGED inflight
<1> DEFINE Kept == UNCHANGED <<inflight, Registered>>
           Begun == \E a \in Accounts, i \in Ops :
                      /\ ~stopping /\ inflight[a] = NoOp /\ i \notin Registered
                      /\ inflight' = [inflight EXCEPT ![a] = i]
                      /\ Registered' = Registered \cup {i}
           Answered == \E a \in Accounts : /\ inflight[a] # NoOp
                                          /\ inflight' = [inflight EXCEPT ![a] = NoOp]
                                          /\ UNCHANGED Registered
           Left == \E i \in Ops : /\ i \in Registered /\ \A a \in Accounts : inflight[a] # i
                                 /\ Registered' = Registered \ {i}
                                 /\ UNCHANGED inflight
<1>1. UNCHANGED <<gateVars, serverVars>>
  BY DEF Refresh
<1>2. /\ OpsInv' /\ CredentialTypes' /\ failure' \in BOOLEAN
      /\ UNCHANGED <<stopping, ended, lifetimeEnded>>
      /\ Kept \/ Begun \/ Answered \/ Left
  <2>0. IInv /\ failure \in BOOLEAN /\ CredentialTypes
    BY DEF IInv, FlagTypes
  <2>1. CASE \E c \in Callers : Refresh(c)
    <3> PICK c \in Callers : AskRefresh(c)
      BY <2>1 DEF Refresh
    <3>1. CredentialTypes'
      BY <2>0, AskStep DEF credentialVars, CredentialTypes
    <3> QED
      BY <2>0, <3>1, AskStep
  <2>2. CASE \E i \in Ops : Work(i)
    BY <2>0, <2>2, WorkStep
  <2>3. CASE \E c \in Callers : TakeAnswer(c) \/ GiveUp(c)
    <3> PICK c \in Callers : TakeAnswer(c) \/ GiveUp(c)
      BY <2>3
    <3>1. OpsInv' /\ UNCHANGED Registered
      BY TakeAnswerStep, GiveUpStep
    <3>2. UNCHANGED <<credentialVars, inflight, registryVars>>
      BY DEF TakeAnswer, GiveUp
    <3>3. CredentialTypes'
      BY <2>0, <3>2 DEF credentialVars, CredentialTypes
    <3> QED
      BY <2>0, <3>1, <3>2, <3>3 DEF registryVars
  <2>4. CASE Reload \/ \E a \in Accounts : Login(a)
    BY <2>0, <2>4, WriterStep DEF registryVars
  <2> QED
    BY <2>1, <2>2, <2>3, <2>4 DEF RefreshNext
<1> HIDE DEF Kept, Begun, Answered, Left
<1>3. FlagTypes' /\ GateCounted'
  BY <1>1, <1>2 DEF IInv, FlagTypes, GateCounted, gateVars, serverVars
<1>4. server = "closed" => stopping /\ Registered = {}
  BY DEF IInv, Ordered, ClosedIsQuiet
<1>5. server = "closed" => Registered' = {}
  BY <1>2, <1>4 DEF Kept, Begun, Answered, Left
<1>6. Ordered'
  BY <1>1, <1>2, <1>5 DEF IInv, Ordered, ClosedIsQuiet, serverVars
<1> QED
  BY <1>1, <1>2, <1>3, <1>6 DEF IInv, serverVars, Kept, Begun, Answered, Left

-----------------------------------------------------------------------------
(* Theorems.                                                               *)

LEMMA StutterInv == ASSUME IInv, UNCHANGED vars PROVE IInv'
<1>1. OpsInv' /\ CredentialTypes' /\ UNCHANGED Registered
  BY OpsKept DEF vars, refreshVars, registryVars
<1> QED
  BY <1>1 DEF IInv, FlagTypes, GateCounted, Ordered, ClosedIsQuiet, vars, refreshVars,
     registryVars, gateVars, serverVars

LEMMA StepInv == ASSUME IInv, [Next]_vars PROVE IInv'
  BY StutterInv, GateStep, ServerStep, RefreshesStep DEF Next

(* The inductive invariant.                                                *)
THEOREM Inductive == Spec => []IInv
<1>1. IInv /\ [Next]_vars => IInv'
  BY StepInv
<1> QED
  BY InitInv, <1>1, PTL DEF Spec

(* Every variable has its type; the counts of refreshes and of permits     *)
(* never become negative.                                                  *)
THEOREM Types == Spec => []TypeOK
<1>1. ASSUME IInv PROVE TypeOK
  <2>1. active \in Nat /\ permits \in Nat
    BY <1>1, Finite, FS_CardinalityType DEF IInv, OpsInv, Counted, GateCounted, FlagTypes
  <2> QED
    BY <1>1, <2>1 DEF IInv, OpsInv, CredentialTypes, OperationTypes, FlagTypes, TypeOK
<1> QED
  BY <1>1, Inductive, PTL

(* An account has one exchange with the token endpoint at a time, whoever  *)
(* joins, gives up, abandons and comes back.                               *)
THEOREM OneExchangeHolds == Spec => []OneExchange
<1>1. IInv => OneExchange
  BY DEF IInv, OpsInv, Linked, OneExchange, Live
<1> QED
  BY <1>1, Inductive, PTL

(* Whoever waits for a refresh will be answered by its operation.          *)
THEOREM NobodyIsForgottenHolds == Spec => []NobodyIsForgotten
<1>1. IInv => NobodyIsForgotten
  BY DEF IInv, OpsInv, Waits
<1> QED
  BY <1>1, Inductive, PTL

(* A refresh can be shared.                                                *)
THEOREM ExchangeIsSharedHolds == Spec => []ExchangeIsShared
  BY OneExchangeHolds, NobodyIsForgottenHolds, PTL DEF ExchangeIsShared

(* SQLite is closed when no operation is left.                             *)
THEOREM ClosedIsQuietHolds == Spec => []ClosedIsQuiet
<1>1. IInv => ClosedIsQuiet
  BY DEF IInv, Ordered
<1> QED
  BY <1>1, Inductive, PTL

(* A drain that ends by itself left no request inside, and let none in.    *)
THEOREM DrainIsCompleteHolds == Spec => DrainIsComplete
<1>1. ASSUME IInv, [Next]_vars, draining
      PROVE  admitted' \subseteq admitted /\ (EndDrain => admitted = {})
  <2>1. EndDrain => admitted = {}
    BY <1>1, Finite, FS_EmptySet DEF EndDrain, IInv, GateCounted, FlagTypes
  <2>2. admitted' \subseteq admitted
    BY <1>1, RefreshesStep DEF Next, Acquire, Release, BeginDrain, ServeFailed, Proceed, EndDrain,
       DrainTimeout, StopRegistration, CancelLifetime, CloseStore, JoinTimeout, gateVars, vars
  <2> QED
    BY <2>1, <2>2
<1> QED
  BY <1>1, Inductive, PTL DEF Spec, DrainIsComplete

(* The server implements the contract: its initial state is one of the     *)
(* contract's, and every step is a step of the contract or none.           *)
THEOREM ContractImplemented == Spec => ContractHolds
<1>1. Init => Contract!ContractInit
  BY DEF Init, RefreshInit, Contract!ContractInit, Registered
<1>2. ASSUME IInv, [Next]_vars PROVE [Contract!ContractNext]_Contract!contractVars
  <2> USE DEF Contract!contractVars
  <2>1. CASE UNCHANGED vars
    BY <2>1 DEF vars, refreshVars, registryVars, serverVars, Registered
  <2>2. CASE \E c \in Requests : Acquire(c) \/ Release(c)
    BY <1>2, <2>2, GateStep
  <2>3. CASE BeginDrain \/ ServeFailed \/ Proceed \/ JoinTimeout
    BY <1>2, <2>3, ServerStep DEF Contract!ContractNext, Contract!ShutRegistration,
       Contract!CloseStorage, IInv, FlagTypes
  <2>4. CASE \/ \E c \in Callers : Refresh(c)
             \/ RefreshNext /\ UNCHANGED <<gateVars, serverVars>>
    BY <1>2, <2>4, RefreshesStep DEF Contract!ContractNext, Contract!BeginOperation,
       Contract!AnswerWaiters, Contract!LeaveStorage
  <2> QED
    BY <1>2, <2>1, <2>2, <2>3, <2>4 DEF Next
<1> QED
  BY <1>1, <1>2, Inductive, PTL DEF Spec, ContractHolds, Contract!ContractSpec

-----------------------------------------------------------------------------
(* What a credential and an operation carry.                               *)

(* A credential that was issued by time clk; only refused ones are signed  *)
(* out.  Tokens are numbered by the time they were issued.                 *)
Known(x, clk, ref) ==
    /\ x.token = x.at
    /\ x.at <= clk
    /\ x.reauth => x.token \in ref

(* An operation o that began with credentials the account mem[o.account]   *)
(* has not gone back behind.                                               *)
StartSound(o, mem, clk, ref) ==
    /\ o.account \in Accounts
    /\ Known(o.from, clk, ref)
    /\ o.from.at <= mem[o.account].at

(* What the endpoint answered, until it is published.                      *)
AnswerSound(o, clk, ref) ==
    /\ Known(o.next, clk, ref)
    /\ o.answer = "tokens" => o.next.at > o.from.at
    /\ o.answer = "refused" => o.from.token \in ref
    /\ ~o.err => o.answer = "tokens" /\ ~o.lost

Sound(o, mem, clk, ref) ==
    /\ o.step \in {"unborn", "exchange", "persist"} => ~o.lost
    /\ o.step \notin {"unborn", "done"} => StartSound(o, mem, clk, ref)
    /\ o.step \in {"persist", "publish"} => AnswerSound(o, clk, ref)
    /\ o.step \in {"notify", "close", "finish"} /\ ~o.err =>
           mem[o.account].at > o.from.at

KnownCredentials ==
    \A a \in Accounts : /\ Known(memory[a], clock, refused)
                        /\ Known(stored[a], clock, refused)

CarriedInv ==
    /\ KnownCredentials
    /\ \A i \in Ops : Sound(op[i], memory, clock, refused)

(* Time, refusals and the credentials in memory only move forward.         *)
Forward ==
    /\ clock' >= clock
    /\ refused \subseteq refused'
    /\ \A a \in Accounts : memory'[a].at >= memory[a].at

(* What was sound stays so while the rest of the world moves forward.      *)
LEMMA SoundStays ==
  ASSUME CredentialTypes, CredentialTypes', Forward, NEW o \in Operation,
         Sound(o, memory, clock, refused)
  PROVE  Sound(o, memory', clock', refused')
<1>1. o.from \in Credential /\ o.next \in Credential
  BY DEF Operation
<1>2. /\ clock \in Nat /\ clock' \in Nat
      /\ \A a \in Accounts : memory[a].at \in Nat /\ memory'[a].at \in Nat
  BY DEF CredentialTypes, Credential
<1>3. ASSUME NEW x \in Credential, Known(x, clock, refused)
      PROVE  Known(x, clock', refused')
  BY <1>2, <1>3 DEF Known, Forward, Credential
<1>4. o.from.at \in Nat
  BY <1>1 DEF Credential
<1>5. ASSUME StartSound(o, memory, clock, refused) PROVE StartSound(o, memory', clock', refused')
  BY <1>1, <1>2, <1>3, <1>4, <1>5 DEF StartSound, Forward
<1>6. ASSUME AnswerSound(o, clock, refused) PROVE AnswerSound(o, clock', refused')
  BY <1>1, <1>3, <1>6 DEF AnswerSound, Forward
<1>7. ASSUME o.step \in {"notify", "close", "finish"}, ~o.err
      PROVE  memory'[o.account].at > o.from.at
  <2>1. o.account \in Accounts /\ memory[o.account].at > o.from.at
    BY <1>7 DEF Sound, StartSound
  <2> QED
    BY <1>2, <1>4, <2>1 DEF Forward
<1> QED
  BY <1>5, <1>6, <1>7 DEF Sound

(* One operation moves, the others stay as they are.                       *)
LEMMA OneMoves ==
  ASSUME IInv, CarriedInv, CredentialTypes', Forward, KnownCredentials',
         NEW i \in Ops, NEW o, Goes(i, o), Sound(o, memory', clock', refused')
  PROVE  CarriedInv'
<1>1. \A j \in Ops : op'[j] = IF j = i THEN o ELSE op[j]
  BY DEF Goes, IInv, OpsInv, OperationTypes
<1>2. \A j \in Ops : op[j] \in Operation
  BY DEF IInv, OpsInv, OperationTypes
<1>3. ASSUME NEW j \in Ops PROVE Sound(op'[j], memory', clock', refused')
  BY <1>1, <1>2, SoundStays DEF IInv, CarriedInv
<1> QED
  BY <1>3 DEF CarriedInv

(* Operations that differ in who waits for them, and in nothing else.      *)
Alike(o, m) ==
    /\ m.step = o.step /\ m.account = o.account
    /\ m.from = o.from /\ m.next = o.next
    /\ m.answer = o.answer /\ m.lost = o.lost
    /\ m.err = o.err /\ m.failed = o.failed

(* Who waits is nothing that the answer depends on.                        *)
LEMMA NoneMoves ==
  ASSUME IInv, CarriedInv, IInv', Forward, KnownCredentials',
         \A j \in Ops : Alike(op[j], op'[j])
  PROVE  CarriedInv'
<1>1. ASSUME NEW j \in Ops PROVE Sound(op'[j], memory', clock', refused')
  <2>1. Sound(op'[j], memory, clock, refused)
    BY DEF CarriedInv, Alike, Sound, StartSound, AnswerSound
  <2>2. op'[j] \in Operation
    BY DEF IInv, OpsInv, OperationTypes
  <2> QED
    BY <2>1, <2>2, SoundStays DEF IInv
<1> QED
  BY <1>1 DEF CarriedInv

(* Nothing moves in memory, SQLite, time and refusals.                     *)
LEMMA CredentialsStay ==
  ASSUME IInv, CarriedInv, UNCHANGED credentialVars
  PROVE  Forward /\ KnownCredentials' /\ CredentialTypes'
<1>1. UNCHANGED <<memory, stored, clock, refused>>
  BY DEF credentialVars
<1>2. clock \in Nat /\ \A a \in Accounts : memory[a].at \in Nat
  BY DEF IInv, CredentialTypes, Credential
<1> QED
  BY <1>1, <1>2 DEF Forward, CarriedInv, KnownCredentials, CredentialTypes, IInv

-----------------------------------------------------------------------------
(* The steps of an operation.                                              *)

LEMMA CarryExchange ==
  ASSUME IInv, CarriedInv, NEW i \in Ops, Exchange(i)
  PROVE  CarriedInv' /\ Forward
<1> DEFINE o == op[i]
           got(answer, next) ==
               [op[i] EXCEPT !.step = IF answer = "error" THEN "publish" ELSE "persist",
                             !.answer = answer, !.next = next, !.err = answer # "tokens"]
<1>0. CredentialTypes'
  BY ExchangeStep
<1>1. /\ o \in Operation /\ o.step = "exchange" /\ o.from \in Credential
      /\ CredentialTypes'
  BY <1>0 DEF IInv, OpsInv, OperationTypes, Operation, Exchange
<1>2. /\ o.account \in Accounts /\ ~o.lost /\ Known(o.from, clock, refused)
      /\ o.from.at <= memory[o.account].at
  BY <1>1 DEF CarriedInv, Sound, StartSound
<1>3. /\ clock \in Nat /\ o.from.at \in Nat
      /\ \A a \in Accounts : /\ memory[a] \in Credential /\ memory[a].at \in Nat
                             /\ stored[a] \in Credential
  BY <1>1 DEF IInv, CredentialTypes, Credential
<1>4. UNCHANGED <<memory, stored>> /\ clock' \in Nat /\ clock' >= clock /\ refused \subseteq refused'
  BY <1>1, <1>3 DEF Exchange, CredentialTypes
<1>5. Forward
  BY <1>3, <1>4 DEF Forward
<1>6. ASSUME NEW x \in Credential, Known(x, clock, refused)
      PROVE  Known(x, clock', refused')
  BY <1>3, <1>4, <1>6 DEF Known, Credential
<1>7. KnownCredentials'
  BY <1>3, <1>4, <1>6 DEF CarriedInv, KnownCredentials
<1>8. StartSound(o, memory', clock', refused')
  BY <1>1, <1>2, <1>4, <1>6 DEF StartSound
<1>9. ASSUME NEW answer \in Answers, NEW next \in Credential,
             Goes(i, got(answer, next)),
             Known(next, clock', refused'),
             answer = "tokens" => next.at > o.from.at,
             answer = "refused" => o.from.token \in refused'
      PROVE  CarriedInv'
  <2> DEFINE m == got(answer, next)
  <2>1. /\ m.step \in {"persist", "publish"} /\ m.account = o.account /\ m.from = o.from
        /\ m.next = next /\ m.answer = answer /\ m.lost = o.lost
        /\ m.err = (answer # "tokens")
    BY <1>1 DEF Operation
  <2>2. Goes(i, m)
    BY <1>9
  <2> HIDE DEF m, o, got
  <2>3. StartSound(m, memory', clock', refused')
    BY <1>8, <2>1 DEF StartSound
  <2>4. AnswerSound(m, clock', refused')
    BY <1>2, <1>9, <2>1 DEF AnswerSound
  <2>5. Sound(m, memory', clock', refused')
    BY <1>2, <2>1, <2>3, <2>4 DEF Sound
  <2> QED
    BY <1>1, <1>5, <1>7, <2>2, <2>5, OneMoves
<1> DEFINE issued == [token |-> clock', at |-> clock', reauth |-> FALSE]
           signedOut == [op[i].from EXCEPT !.reauth = TRUE]
<1>10. \/ clock' = clock + 1 /\ Goes(i, got("tokens", issued))
       \/ Goes(i, got("refused", signedOut)) /\ o.from.token \in refused'
       \/ Goes(i, got("error", o.from))
  BY DEF Exchange
<1> HIDE DEF got
<1>11. CASE clock' = clock + 1 /\ Goes(i, got("tokens", issued))
  <2>1. issued \in Credential /\ Known(issued, clock', refused') /\ issued.at > o.from.at
    BY <1>2, <1>3, <1>4, <1>11 DEF Credential, Known
  <2> HIDE DEF issued
  <2> QED
    BY <1>5, <1>9, <1>11, <2>1 DEF Answers
<1>12. CASE Goes(i, got("refused", signedOut)) /\ o.from.token \in refused'
  <2>1. signedOut \in Credential /\ signedOut.token = o.from.token /\ signedOut.at = o.from.at
    BY <1>1 DEF Credential
  <2>2. Known(signedOut, clock', refused')
    BY <1>1, <1>2, <1>6, <1>12, <2>1 DEF Known
  <2> HIDE DEF signedOut
  <2> QED
    BY <1>5, <1>9, <1>12, <2>1, <2>2 DEF Answers
<1>13. CASE Goes(i, got("error", o.from))
  <2>1. Known(o.from, clock', refused')
    BY <1>1, <1>2, <1>6
  <2> QED
    BY <1>1, <1>5, <1>9, <1>13, <2>1 DEF Answers
<1> QED
  BY <1>10, <1>11, <1>12, <1>13

(* A row that was newer than the answer is what the operation goes on with. *)
LEMMA CarryPersist ==
  ASSUME IInv, CarriedInv, NEW i \in Ops, Persist(i)
  PROVE  CarriedInv' /\ Forward
<1> DEFINE o == op[i]
<1>0. CredentialTypes'
  BY PersistStep
<1>1. /\ o \in Operation /\ o.step = "persist" /\ o.next \in Credential
      /\ o.from \in Credential
  BY DEF IInv, OpsInv, OperationTypes, Operation, Persist
<1>2. StartSound(o, memory, clock, refused) /\ AnswerSound(o, clock, refused)
  BY <1>1 DEF CarriedInv, Sound
<1>3. /\ UNCHANGED <<clock, refused>> /\ clock \in Nat /\ o.from.at \in Nat /\ o.next.at \in Nat
      /\ \A a \in Accounts : /\ memory[a] \in Credential /\ memory[a].at \in Nat
                             /\ stored[a] \in Credential /\ stored[a].at \in Nat
  BY <1>1 DEF Persist, IInv, CredentialTypes, Credential
<1>4. CASE /\ stored' = [stored EXCEPT ![op[i].account] = Row(i)]
           /\ memory' = Reconciled(stored')
           /\ Goes(i, [op[i] EXCEPT !.step = "publish", !.next = Row(i)])
  <2> DEFINE m == [op[i] EXCEPT !.step = "publish", !.next = Row(i)]
  <2>1. o.account \in Accounts
    BY <1>2 DEF StartSound
  <2>2. /\ Known(Row(i), clock, refused) /\ Row(i).at >= o.next.at /\ Row(i).at \in Nat
    BY <1>2, <1>3, <2>1 DEF Row, AnswerSound, CarriedInv, KnownCredentials
  <2>3. \A a \in Accounts : stored'[a] = IF a = o.account THEN Row(i) ELSE stored[a]
    BY <1>4, <2>1 DEF IInv, CredentialTypes
  <2>4. \A a \in Accounts : memory'[a] = Adopted(memory[a], stored'[a])
    BY <1>4 DEF Reconciled
  <2>5. Forward
    BY <1>3, <2>2, <2>3, <2>4 DEF Forward, Adopted
  <2>6. KnownCredentials'
    BY <1>3, <2>2, <2>3, <2>4 DEF Adopted, CarriedInv, KnownCredentials
  <2>7. /\ m.step = "publish" /\ m.account = o.account /\ m.from = o.from /\ m.next = Row(i)
        /\ m.answer = o.answer /\ m.lost = o.lost /\ m.err = o.err
    BY <1>1 DEF Operation
  <2>8. Goes(i, m)
    BY <1>4
  <2> HIDE DEF m, o
  <2>9. StartSound(m, memory', clock', refused')
    <3>1. /\ memory[o.account].at \in Nat /\ memory'[o.account].at \in Nat
          /\ memory'[o.account].at >= memory[o.account].at
      BY <1>0, <1>3, <2>1, <2>5 DEF Forward, CredentialTypes, Credential
    <3> QED
      BY <1>2, <1>3, <2>1, <2>7, <3>1 DEF StartSound
  <2>10. AnswerSound(m, clock', refused')
    BY <1>2, <1>3, <2>2, <2>7 DEF AnswerSound
  <2>11. Sound(m, memory', clock', refused')
    BY <2>7, <2>9, <2>10 DEF Sound
  <2> QED
    BY <1>0, <2>5, <2>6, <2>8, <2>11, OneMoves
<1>5. CASE /\ Goes(i, [op[i] EXCEPT !.step = "publish", !.lost = TRUE,
                                    !.err = TRUE, !.failed = TRUE])
           /\ UNCHANGED <<memory, stored>>
  <2> DEFINE m == [op[i] EXCEPT !.step = "publish", !.lost = TRUE, !.err = TRUE, !.failed = TRUE]
  <2>1. Forward /\ KnownCredentials'
    BY <1>3, <1>5, CredentialsStay DEF credentialVars
  <2>2. /\ m.step = "publish" /\ m.account = o.account /\ m.from = o.from /\ m.next = o.next
        /\ m.answer = o.answer /\ m.err = TRUE
    BY <1>1 DEF Operation
  <2>3. Goes(i, m)
    BY <1>5
  <2> HIDE DEF m, o
  <2>4. Sound(m, memory', clock', refused')
    BY <1>2, <1>3, <1>5, <2>2 DEF Sound, StartSound, AnswerSound
  <2> QED
    BY <1>0, <2>1, <2>3, <2>4, OneMoves
<1> QED
  BY <1>4, <1>5 DEF Persist

(* What is published is newer than what it replaces: the account still has *)
(* the credentials the operation began with, or those it just stored.      *)
LEMMA CarryPublish ==
  ASSUME IInv, CarriedInv, NEW i \in Ops, Publish(i)
  PROVE  CarriedInv' /\ Forward
<1> DEFINE o == op[i]
           a == op[i].account
           mine == memory[a]
<1>0. CredentialTypes'
  BY PublishStep
<1>1. /\ o \in Operation /\ o.step = "publish" /\ o.next \in Credential
      /\ o.from \in Credential
  BY DEF IInv, OpsInv, OperationTypes, Operation, Publish
<1>2. StartSound(o, memory, clock, refused) /\ AnswerSound(o, clock, refused)
  BY <1>1 DEF CarriedInv, Sound
<1>3. /\ UNCHANGED <<stored, clock, refused>> /\ clock \in Nat
      /\ o.from.at \in Nat /\ o.next.at \in Nat
      /\ \A b \in Accounts : memory[b] \in Credential /\ memory[b].at \in Nat
  BY <1>1 DEF Publish, IInv, CredentialTypes, Credential
<1>4. /\ a \in Accounts /\ Known(mine, clock, refused) /\ Known(o.from, clock, refused)
      /\ Known(o.next, clock, refused) /\ o.from.at <= mine.at
  BY <1>2 DEF StartSound, AnswerSound, CarriedInv, KnownCredentials
<1>5. /\ Published(o).step = "notify" /\ Published(o).account = a
      /\ Published(o).from = o.from /\ Published(o).err = o.err
  BY <1>1 DEF Published, Operation
<1>6. ASSUME NEW m, Goes(i, m), Forward, KnownCredentials',
             m.step = "notify", m.account = a, m.from = o.from,
             ~m.err => memory'[a].at > o.from.at
      PROVE  CarriedInv'
  <2>1. memory'[a].at \in Nat /\ memory'[a].at >= mine.at
    BY <1>0, <1>4, <1>6 DEF Forward, CredentialTypes, Credential
  <2>2. StartSound(m, memory', clock', refused')
    BY <1>3, <1>4, <1>6, <2>1 DEF StartSound
  <2>3. Sound(m, memory', clock', refused')
    BY <1>6, <2>2 DEF Sound
  <2> QED
    BY <1>0, <1>6, <2>3, OneMoves
<1>7. CASE /\ Superseded(i)
           /\ Goes(i, [Published(op[i]) EXCEPT !.err = FALSE, !.failed = FALSE])
           /\ UNCHANGED memory
  <2> DEFINE m == [Published(op[i]) EXCEPT !.err = FALSE, !.failed = FALSE]
  <2>1. Forward /\ KnownCredentials'
    BY <1>3, <1>7, CredentialsStay DEF credentialVars
  <2>2. m.step = "notify" /\ m.account = a /\ m.from = o.from
    BY <1>1, <1>5 DEF Published, Operation
  <2>3. memory'[a].at > o.from.at
    BY <1>3, <1>4, <1>7 DEF Superseded, Known
  <2> QED
    BY <1>6, <1>7, <2>1, <2>2, <2>3
<1>8. CASE /\ ~Superseded(i)
           /\ Goes(i, Published(op[i]))
           /\ memory' = [memory EXCEPT ![a] =
                  CASE op[i].answer = "refused" -> [@ EXCEPT !.reauth = op[i].next.reauth]
                    [] op[i].answer = "tokens" /\ ~op[i].lost -> op[i].next
                    [] OTHER -> @]
  <2>1. mine.at = o.from.at \/ (~o.lost /\ mine.at = o.next.at)
    BY <1>4, <1>8 DEF Superseded, Known
  <2>2. \A b \in Accounts \ {a} : memory'[b] = memory[b]
    BY <1>8 DEF IInv, CredentialTypes
  <2>3. ASSUME Known(memory'[a], clock, refused), memory'[a].at >= mine.at,
               ~o.err => memory'[a].at > o.from.at
        PROVE  CarriedInv' /\ Forward
    <3>1. Forward
      BY <1>3, <2>2, <2>3 DEF Forward
    <3>2. KnownCredentials'
      BY <1>3, <2>2, <2>3 DEF CarriedInv, KnownCredentials
    <3> QED
      BY <1>5, <1>6, <1>8, <2>3, <3>1, <3>2
  <2>4. CASE o.answer = "refused"
    <3>1. memory'[a] = [mine EXCEPT !.reauth = o.next.reauth]
      BY <1>4, <1>8, <2>4 DEF IInv, CredentialTypes
    <3>2. /\ memory'[a].token = mine.token /\ memory'[a].at = mine.at
          /\ memory'[a].reauth = o.next.reauth
      BY <1>3, <1>4, <3>1 DEF Credential
    <3>3. o.from.token \in refused /\ o.err
      BY <1>2, <2>4 DEF AnswerSound
    <3>4. o.next.reauth => mine.token \in refused
      BY <1>4, <2>1, <3>3 DEF Known
    <3> QED
      BY <1>3, <1>4, <2>3, <3>2, <3>3, <3>4 DEF Known
  <2>5. CASE o.answer = "tokens" /\ ~o.lost
    <3>1. memory'[a] = o.next
      BY <1>4, <1>8, <2>5 DEF IInv, CredentialTypes
    <3>2. o.next.at > o.from.at
      BY <1>2, <2>5 DEF AnswerSound
    <3> QED
      BY <1>3, <1>4, <2>1, <2>3, <3>1, <3>2
  <2>6. CASE o.answer # "refused" /\ ~(o.answer = "tokens" /\ ~o.lost)
    <3>1. memory'[a] = mine
      BY <1>4, <1>8, <2>6 DEF IInv, CredentialTypes
    <3>2. o.err
      BY <1>2, <2>6 DEF AnswerSound
    <3> QED
      BY <1>3, <1>4, <2>3, <3>1, <3>2
  <2> QED
    BY <2>4, <2>5, <2>6
<1> QED
  BY <1>7, <1>8 DEF Publish

(* What follows the publication tells its waiters success only less often. *)
LEMMA CarryEnd ==
  ASSUME IInv, CarriedInv, NEW i \in Ops, Notify(i) \/ Close(i) \/ Finish(i)
  PROVE  CarriedInv' /\ Forward
<1> DEFINE o == op[i]
<1>1. UNCHANGED credentialVars
  BY DEF Notify, Close, Finish
<1>2. Forward /\ KnownCredentials' /\ CredentialTypes'
  BY <1>1, CredentialsStay
<1>3. o \in Operation /\ o.step \in {"notify", "close", "finish"}
  BY DEF IInv, OpsInv, OperationTypes, Notify, Close, Finish
<1>4. Sound(o, memory, clock, refused) /\ UNCHANGED <<memory, clock, refused>>
  BY <1>1 DEF CarriedInv, credentialVars
<1>5. ASSUME NEW m, Goes(i, m), m.step \in {"close", "finish"},
             m.account = o.account, m.from = o.from, ~m.err => ~o.err
      PROVE  CarriedInv'
  <2>1. Sound(m, memory', clock', refused')
    BY <1>3, <1>4, <1>5 DEF Sound, StartSound
  <2> QED
    BY <1>2, <1>5, <2>1, OneMoves
<1>6. CASE Notify(i)
  <2>1. \/ Goes(i, [o EXCEPT !.step = "close", !.err = TRUE, !.failed = TRUE])
        \/ Goes(i, [o EXCEPT !.step = "close"])
    BY <1>6 DEF Notify
  <2> QED
    BY <1>2, <1>3, <1>5, <2>1 DEF Operation
<1>7. CASE Close(i)
  BY <1>2, <1>3, <1>5, <1>7 DEF Close, Operation
<1>8. CASE Finish(i)
  <2>1. Goes(i, Gone(i)) /\ Gone(i).step = "done"
    BY <1>3, <1>8 DEF Finish, Gone, Operation
  <2>2. Sound(Gone(i), memory', clock', refused')
    BY <2>1 DEF Sound
  <2> QED
    BY <1>2, <2>1, <2>2, OneMoves
<1> QED
  BY <1>6, <1>7, <1>8

-----------------------------------------------------------------------------
(* The other steps, and what follows for the credentials.                  *)

(* A login is newer than all that was issued before it; a reload takes     *)
(* only what is not older.                                                 *)
LEMMA CarryWriters ==
  ASSUME IInv, CarriedInv, Reload \/ \E a \in Accounts : Login(a)
  PROVE  CarriedInv' /\ Forward
<1>1. OpsInv' /\ CredentialTypes' /\ UNCHANGED <<op, refused>>
  BY WriterStep DEF Reload, Login
<1>2. /\ clock \in Nat
      /\ \A a \in Accounts : /\ memory[a] \in Credential /\ memory[a].at \in Nat
                             /\ stored[a] \in Credential /\ stored[a].at \in Nat
  BY DEF IInv, CredentialTypes, Credential
<1>3. ASSUME Forward, KnownCredentials' PROVE CarriedInv'
  <2>1. \A j \in Ops : op[j] \in Operation /\ Sound(op[j], memory, clock, refused)
    BY DEF IInv, OpsInv, OperationTypes, CarriedInv
  <2>2. ASSUME NEW j \in Ops PROVE Sound(op'[j], memory', clock', refused')
    BY <1>1, <1>3, <2>1, SoundStays DEF IInv
  <2> QED
    BY <1>3, <2>2 DEF CarriedInv
<1>4. CASE Reload
  <2>1. /\ UNCHANGED <<stored, clock, refused>>
        /\ \A a \in Accounts : memory'[a] = Adopted(memory[a], stored[a])
    BY <1>4 DEF Reload, Reconciled
  <2>2. Forward
    BY <1>2, <2>1 DEF Forward, Adopted
  <2>3. KnownCredentials'
    BY <2>1 DEF Adopted, CarriedInv, KnownCredentials
  <2> QED
    BY <1>3, <2>2, <2>3
<1>5. CASE \E a \in Accounts : Login(a)
  <2> PICK a \in Accounts : Login(a)
    BY <1>5
  <2> DEFINE fresh == [token |-> clock', at |-> clock', reauth |-> FALSE]
  <2>1. /\ clock' = clock + 1 /\ UNCHANGED <<memory, refused>>
        /\ \A b \in Accounts : stored'[b] = IF b = a THEN fresh ELSE stored[b]
    BY DEF Login, IInv, CredentialTypes
  <2>2. Forward
    BY <1>2, <2>1 DEF Forward
  <2>3. Known(fresh, clock', refused')
    BY <1>2, <2>1 DEF Known
  <2>4. ASSUME NEW x \in Credential, Known(x, clock, refused)
        PROVE  Known(x, clock', refused')
    BY <1>2, <2>1, <2>4 DEF Known, Credential
  <2> HIDE DEF fresh
  <2>5. KnownCredentials'
    BY <1>2, <2>1, <2>3, <2>4 DEF CarriedInv, KnownCredentials
  <2> QED
    BY <1>3, <2>2, <2>5
<1> QED
  BY <1>4, <1>5

(* A new operation begins with the credentials in memory.                  *)
LEMMA CarryLaunch ==
  ASSUME IInv, CarriedInv, NEW c \in Callers, NEW a \in Accounts, NEW i \in Ops,
         Launch(c, a, i)
  PROVE  CarriedInv' /\ Forward
<1> DEFINE o == [op[i] EXCEPT !.step = "exchange", !.account = a,
                              !.waiters = {c}, !.from = memory[a]]
<1>1. UNCHANGED credentialVars /\ Goes(i, o)
  BY DEF Launch, Goes
<1>2. Forward /\ KnownCredentials' /\ CredentialTypes'
  BY <1>1, CredentialsStay
<1>3. op[i] \in Operation /\ op[i].step = "unborn" /\ memory[a].at \in Nat
  BY DEF Launch, IInv, OpsInv, OperationTypes, CredentialTypes, Credential
<1>4. /\ o.step = "exchange" /\ o.account = a /\ o.from = memory[a] /\ ~o.lost
  BY <1>3 DEF Operation, CarriedInv, Sound
<1> HIDE DEF o
<1>5. UNCHANGED <<memory, clock, refused>>
  BY <1>1 DEF credentialVars
<1>6. Sound(o, memory', clock', refused')
  BY <1>3, <1>4, <1>5 DEF Sound, StartSound, CarriedInv, KnownCredentials
<1> QED
  BY <1>1, <1>2, <1>6, OneMoves

(* A step of a caller that does not start an operation.                    *)
Calls(c) ==
    \/ \E a \in Accounts : WaitForAbandoned(c, a) \/ JoinRefresh(c, a) \/ RefuseRefresh(c, a)
    \/ TakeAnswer(c)
    \/ GiveUp(c)

(* Callers that join, wait, return or leave change who waits, and no more. *)
LEMMA CallsAlike ==
  ASSUME IInv, NEW c \in Callers, Calls(c)
  PROVE  /\ \A j \in Ops : Alike(op[j], op'[j])
         /\ UNCHANGED <<credentialVars, registryVars>>
<1>1. \A j \in Ops : op[j] \in Operation
  BY DEF IInv, OpsInv, OperationTypes
<1>2. ASSUME NEW i \in Ops, NEW w, op' = [op EXCEPT ![i] = [op[i] EXCEPT !.waiters = w]]
      PROVE  \A j \in Ops : Alike(op[j], op'[j])
  BY <1>1, <1>2 DEF Alike, Operation, IInv, OpsInv, OperationTypes
<1>3. ASSUME NEW i \in Ops, NEW w, NEW b,
             op' = [op EXCEPT ![i] = [op[i] EXCEPT !.waiters = w, !.abandoned = b]]
      PROVE  \A j \in Ops : Alike(op[j], op'[j])
  BY <1>1, <1>3 DEF Alike, Operation, IInv, OpsInv, OperationTypes
<1>4. ASSUME UNCHANGED op PROVE \A j \in Ops : Alike(op[j], op'[j])
  BY <1>4 DEF Alike
<1>5. caller[c].step = "waiting" => caller[c].op \in Ops
  BY DEF IInv, OpsInv, OperationTypes, CallerState, Waits, NobodyIsForgotten
<1>6. CASE \E a \in Accounts : WaitForAbandoned(c, a) \/ RefuseRefresh(c, a)
  BY <1>4, <1>6 DEF WaitForAbandoned, RefuseRefresh
<1>7. CASE \E a \in Accounts : JoinRefresh(c, a)
  <2> PICK a \in Accounts : JoinRefresh(c, a)
    BY <1>7
  <2>1. inflight[a] \in Ops
    BY DEF JoinRefresh, IInv, OpsInv, OperationTypes
  <2>2. op' = [op EXCEPT ![inflight[a]] = [op[inflight[a]] EXCEPT !.waiters = @ \cup {c}]]
    BY DEF JoinRefresh
  <2> QED
    BY <1>2, <2>1, <2>2 DEF JoinRefresh
<1>8. CASE TakeAnswer(c)
  BY <1>2, <1>5, <1>8 DEF TakeAnswer
<1>9. CASE GiveUp(c)
  <2> DEFINE i == caller[c].op
             w == op[i].waiters \ {c}
             b == op[i].abandoned \/ (w = {} /\ inflight[op[i].account] = i)
  <2>1. CASE /\ caller[c].step = "waiting"
             /\ op' = [op EXCEPT ![i].waiters = w, ![i].abandoned = b]
    <3> HIDE DEF w, b
    <3>1. i \in Ops /\ op[i] \in Operation
      BY <1>1, <1>5, <2>1
    <3>2. op' = [op EXCEPT ![i] = [op[i] EXCEPT !.waiters = w, !.abandoned = b]]
      BY <2>1, <3>1 DEF IInv, OpsInv, OperationTypes
    <3> HIDE DEF i
    <3>3. \A j \in Ops : Alike(op[j], op'[j])
      BY <1>3, <3>1, <3>2
    <3> QED
      BY <1>9, <3>3 DEF GiveUp
  <2>2. CASE UNCHANGED op
    BY <1>4, <1>9, <2>2 DEF GiveUp
  <2> QED
    BY <1>9, <2>1, <2>2 DEF GiveUp
<1> QED
  BY <1>6, <1>7, <1>8, <1>9 DEF Calls

(* What any step does to the operations: one of them works, a writer of    *)
(* credentials comes, one is launched, a caller moves, or nothing changes. *)
LEMMA StepKinds ==
  ASSUME [Next]_vars
  PROVE  \/ \E i \in Ops : Work(i) /\ UNCHANGED serverVars
         \/ (Reload \/ \E a \in Accounts : Login(a)) /\ UNCHANGED serverVars
         \/ \E c \in Callers, a \in Accounts, i \in Ops :
                Launch(c, a, i) /\ UNCHANGED serverVars
         \/ \E c \in Callers : Calls(c) /\ UNCHANGED serverVars
         \/ UNCHANGED <<credentialVars, op, failure, serverVars>>
         \/ /\ BeginDrain \/ ServeFailed \/ Proceed \/ JoinTimeout
            /\ UNCHANGED <<credentialVars, op, failure>>
<1>1. CASE UNCHANGED vars
  BY <1>1 DEF vars, refreshVars, registryVars
<1>2. CASE \E c \in Requests : Acquire(c) \/ Release(c)
  BY <1>2 DEF Acquire, Enter, Release, refreshVars, registryVars
<1>3. CASE \E c \in Callers : Refresh(c)
  BY <1>3 DEF Refresh, AskRefresh, StartRefresh, Calls
<1>4. CASE RefreshNext /\ UNCHANGED <<gateVars, serverVars>>
  BY <1>4 DEF RefreshNext, Calls
<1>5. CASE BeginDrain \/ ServeFailed \/ Proceed \/ JoinTimeout
  BY <1>5 DEF BeginDrain, ServeFailed, Proceed, EndDrain, DrainTimeout, StopRegistration,
     CancelLifetime, CloseStore, JoinTimeout, refreshVars, registryVars
<1> QED
  BY <1>1, <1>2, <1>3, <1>4, <1>5 DEF Next

LEMMA CarriedStep ==
  ASSUME IInv, CarriedInv, [Next]_vars
  PROVE  CarriedInv' /\ Forward
<1>0. IInv'
  BY StepInv
<1>1. ASSUME UNCHANGED credentialVars, \A j \in Ops : Alike(op[j], op'[j])
      PROVE  CarriedInv' /\ Forward
  BY <1>0, <1>1, CredentialsStay, NoneMoves
<1>2. CASE \E i \in Ops : Work(i)
  BY <1>2, CarryExchange, CarryPersist, CarryPublish, CarryEnd DEF Work
<1>3. CASE Reload \/ \E a \in Accounts : Login(a)
  BY <1>3, CarryWriters
<1>4. CASE \E c \in Callers, a \in Accounts, i \in Ops : Launch(c, a, i)
  BY <1>4, CarryLaunch
<1>5. CASE \E c \in Callers : Calls(c)
  BY <1>1, <1>5, CallsAlike
<1>6. CASE UNCHANGED <<credentialVars, op>>
  BY <1>1, <1>6 DEF Alike
<1> QED
  BY <1>2, <1>3, <1>4, <1>5, <1>6, StepKinds

(* No sequence of refreshes, refusals, reloads and logins in other         *)
(* processes undoes a login, signs out an account whose token was not      *)
(* refused, or tells a caller of success without newer credentials.        *)
THEOREM LoginSurvivesHolds == Spec => LoginSurvives
<1>1. Init => CarriedInv
  <2> SUFFICES ASSUME Init PROVE CarriedInv
    OBVIOUS
  <2>1. KnownCredentials
    BY DEF Init, RefreshInit, KnownCredentials, Known, Unused
  <2>2. \A i \in Ops : op[i].step = "unborn" /\ ~op[i].lost
    BY DEF Init, RefreshInit
  <2> QED
    BY <2>1, <2>2 DEF CarriedInv, Sound
<1>2. IInv /\ CarriedInv /\ [Next]_vars => CarriedInv'
  BY CarriedStep
<1>3. ASSUME IInv, CarriedInv, [Next]_vars
      PROVE  [/\ OnlyRefusedSignOut'
              /\ SuccessIsFresh'
              /\ \A a \in Accounts : memory'[a].at >= memory[a].at]_refreshVars
  <2>1. CarriedInv' /\ Forward
    BY <1>3, CarriedStep
  <2>2. OnlyRefusedSignOut'
    BY <2>1 DEF CarriedInv, KnownCredentials, Known, OnlyRefusedSignOut
  <2>3. SuccessIsFresh'
    BY <2>1 DEF CarriedInv, Sound, SuccessIsFresh, Registered, Closed
  <2> QED
    BY <2>1, <2>2, <2>3 DEF Forward
<1> QED
  BY <1>1, <1>2, <1>3, Inductive, PTL DEF Spec, LoginSurvives

-----------------------------------------------------------------------------
(* What the server tells when it ends.                                     *)

(* A failure belongs to an operation until it has been reported.           *)
Tells(o, reported) ==
    /\ o.step = "unborn" => ~o.failed
    /\ o.step = "done" /\ o.failed => reported

ToldInv ==
    /\ \A i \in Ops : Tells(op[i], failure)
    /\ server = "closed" /\ exit = "ok" => ~failure

(* An operation that works has not failed yet, or says so when it is done. *)
LEMMA WorkTells ==
  ASSUME IInv, NEW i \in Ops, Work(i)
  PROVE  /\ \A j \in Ops \ {i} : op'[j] = op[j]
         /\ Tells(op'[i], failure')
         /\ failure => failure'
         /\ server # "closed"
<1>1. op[i] \in Operation /\ i \in Registered
  BY DEF IInv, OpsInv, OperationTypes, Registered, Work, Exchange, Persist, Publish, Notify,
     Close, Finish
<1>2. server # "closed"
  BY <1>1 DEF IInv, Ordered, ClosedIsQuiet
<1>3. ASSUME NEW o, Goes(i, o), Tells(o, failure') PROVE Tells(op'[i], failure')
  BY <1>3 DEF Goes, IInv, OpsInv, OperationTypes
<1>4. \A j \in Ops \ {i} : op'[j] = op[j]
  BY DEF Work, Exchange, Persist, Publish, Notify, Close, Finish, Goes, IInv, OpsInv,
     OperationTypes
<1>5. CASE Finish(i)
  <2>1. Gone(i).step = "done" /\ Gone(i).failed = (op[i].failed /\ stopping)
    BY <1>1 DEF Gone, Operation
  <2>2. failure' = (failure \/ (stopping /\ op[i].failed)) /\ Goes(i, Gone(i))
    BY <1>5 DEF Finish
  <2> QED
    BY <1>2, <1>3, <1>4, <2>1, <2>2 DEF Tells
<1>6. CASE ~Finish(i)
  <2>1. UNCHANGED failure
    BY <1>6 DEF Work, Exchange, Persist, Publish, Notify, Close, registryVars
  <2>2. ASSUME NEW o, Goes(i, o), o.step \in LiveSteps \cup {"finish"}
        PROVE  Tells(op'[i], failure')
    BY <1>3, <2>2 DEF Tells, LiveSteps
  <2>3. ASSUME Exchange(i) PROVE Tells(op'[i], failure')
    BY <1>1, <2>2, <2>3 DEF Exchange, Operation, LiveSteps
  <2>4. ASSUME Persist(i) PROVE Tells(op'[i], failure')
    BY <1>1, <2>2, <2>4 DEF Persist, Operation, LiveSteps
  <2>5. ASSUME Publish(i) PROVE Tells(op'[i], failure')
    BY <1>1, <2>2, <2>5 DEF Publish, Published, Operation, LiveSteps
  <2>6. ASSUME Notify(i) \/ Close(i) PROVE Tells(op'[i], failure')
    BY <1>1, <2>2, <2>6 DEF Notify, Close, Operation, LiveSteps
  <2> QED
    BY <1>2, <1>4, <1>6, <2>1, <2>3, <2>4, <2>5, <2>6 DEF Work
<1> QED
  BY <1>5, <1>6

LEMMA ToldStep ==
  ASSUME IInv, ToldInv, [Next]_vars
  PROVE  ToldInv'
<1>1. ASSUME \A j \in Ops : Alike(op[j], op'[j]), UNCHANGED <<failure, serverVars>>
      PROVE  ToldInv'
  BY <1>1 DEF ToldInv, Tells, Alike, serverVars
<1>2. CASE \E i \in Ops : Work(i) /\ UNCHANGED serverVars
  <2> PICK i \in Ops : Work(i) /\ UNCHANGED serverVars
    BY <1>2
  <2>1. ASSUME NEW j \in Ops PROVE Tells(op'[j], failure')
    BY <2>1, WorkTells DEF ToldInv, Tells
  <2> QED
    BY <2>1, WorkTells DEF ToldInv, serverVars
<1>3. CASE (Reload \/ \E a \in Accounts : Login(a)) /\ UNCHANGED serverVars
  BY <1>1, <1>3 DEF Reload, Login, Alike, registryVars
<1>4. CASE \E c \in Callers, a \in Accounts, i \in Ops : Launch(c, a, i) /\ UNCHANGED serverVars
  <2> PICK c \in Callers, a \in Accounts, i \in Ops : Launch(c, a, i) /\ UNCHANGED serverVars
    BY <1>4
  <2>1. \A j \in Ops : IF j = i THEN op'[j].step = "exchange" ELSE op'[j] = op[j]
    BY DEF Launch, IInv, OpsInv, OperationTypes, Operation
  <2> QED
    BY <2>1 DEF ToldInv, Tells, Launch, serverVars
<1>5. CASE \E c \in Callers : Calls(c) /\ UNCHANGED serverVars
  BY <1>1, <1>5, CallsAlike DEF registryVars
<1>6. CASE UNCHANGED <<credentialVars, op, failure, serverVars>>
  BY <1>1, <1>6 DEF Alike
<1>7. CASE /\ BeginDrain \/ ServeFailed \/ Proceed \/ JoinTimeout
           /\ UNCHANGED <<credentialVars, op, failure>>
  <2>1. server' = "closed" /\ exit' = "ok" => ~failure
    BY <1>7 DEF ToldInv, BeginDrain, ServeFailed, Proceed, EndDrain, DrainTimeout,
       StopRegistration, CancelLifetime, CloseStore, JoinTimeout, Reaches
  <2> QED
    BY <1>7, <2>1 DEF ToldInv
<1> QED
  BY <1>2, <1>3, <1>4, <1>5, <1>6, <1>7, StepKinds

(* A server that ends with success has persisted and reported all that was *)
(* under way when its shutdown began, however many operations there were.  *)
THEOREM ExitTellsLossHolds == Spec => []ExitTellsLoss
<1>1. Init => ToldInv
  BY DEF Init, RefreshInit, ToldInv, Tells
<1>2. IInv /\ ToldInv /\ [Next]_vars => ToldInv'
  BY ToldStep
<1>3. ASSUME IInv, ToldInv PROVE ExitTellsLoss
  <2> SUFFICES ASSUME server = "closed", exit = "ok", NEW i \in Ops PROVE ~op[i].failed
    BY DEF ExitTellsLoss
  <2>1. op[i].step \in {"unborn", "done"}
    BY <1>3 DEF IInv, Ordered, ClosedIsQuiet, Registered
  <2> QED
    BY <1>3, <2>1 DEF ToldInv, Tells
<1> QED
  BY <1>1, <1>2, <1>3, Inductive, PTL DEF Spec
=============================================================================
