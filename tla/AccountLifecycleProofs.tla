----------------------- MODULE AccountLifecycleProofs -----------------------
(***************************************************************************)
(* Theorems about AccountLifecycle: the live-socket registry follows the   *)
(* relays, and an account that became unavailable reaches every relay that *)
(* runs on it, for any number of accounts and sockets; and the callback    *)
(* that tells a relay never waits for room in its mailbox.                 *)
(***************************************************************************)
EXTENDS AccountLifecycle, FiniteSetTheorems, TLAPS

AccountTypes ==
    /\ stored \in [Accounts -> States]
    /\ pool \in [Accounts -> States]
    /\ fetched \in [Accounts -> States \cup {NotFetched}]
    /\ due \subseteq Accounts
    /\ byAccount \subseteq Sockets \X Accounts
    /\ callbacks \subseteq Sockets \X Accounts

RelayTypes ==
    /\ relay \in [Sockets -> Relay]
    /\ \A s \in Sockets : Len(relay[s].mail) <= Mailbox

(* A relay that was dialed has an account; it is what registers.           *)
HasAccount ==
    \A s \in Sockets : relay[s].phase # "new" => relay[s].account \in Accounts

TypesInv == AccountTypes /\ RelayTypes /\ HasAccount /\ RegistryFollowsSockets

(* The next relay of a socket, and what the other sockets keep.            *)
Rewritten(s, r) == relay' = [relay EXCEPT ![s] = r]

-----------------------------------------------------------------------------

(* The initial state.                                                      *)
LEMMA InitTypes == Init => TypesInv
  BY LifecycleAssumption
  DEF Init, TypesInv, AccountTypes, RelayTypes, HasAccount, RegistryFollowsSockets,
      Relay, States, Phases, NotFetched

(* Whoever writes an account leaves the sockets alone.                     *)
LEMMA WriterTypes ==
  ASSUME AccountTypes, NEW a \in Accounts, Writes(a) \/ RefreshPublish(a) \/ Poll
  PROVE  /\ AccountTypes'
         /\ UNCHANGED <<byAccount, callbacks, relay>>
<1>1. CASE \E st \in States : EditStored(a, st)
  BY <1>1 DEF EditStored, AccountTypes, invalidationVars
<1>2. CASE \E st \in States : AdminSet(a, st)
  BY <1>2 DEF AdminSet, Mutate, AccountTypes
<1>3. CASE \E permanent \in BOOLEAN : RefreshPersist(a, permanent)
  BY <1>3 DEF RefreshPersist, Mutate, AccountTypes, invalidationVars, States
<1>4. CASE RefreshPublish(a)
  <2>1. fetched[a] \in States
    BY <1>4 DEF RefreshPublish, AccountTypes
  <2> QED
    BY <1>4, <2>1 DEF RefreshPublish, AccountTypes
<1>5. CASE Poll
  BY <1>5 DEF Poll, AccountTypes, BecameUnavailable
<1> QED
  BY <1>1, <1>2, <1>3, <1>4, <1>5 DEF Writes

(* A step that rewrites one relay has to account for that one only.        *)
LEMMA OneRelay ==
  ASSUME RelayTypes, HasAccount, NEW s \in Sockets, NEW r \in Relay,
         Len(r.mail) <= Mailbox, r.phase # "new" => r.account \in Accounts,
         Rewritten(s, r)
  PROVE  RelayTypes' /\ HasAccount'
<1>1. relay' \in [Sockets -> Relay]
  BY DEF RelayTypes, Rewritten
<1>2. \A t \in Sockets : relay'[t] = IF t = s THEN r ELSE relay[t]
  BY DEF RelayTypes, Rewritten
<1> QED
  BY <1>1, <1>2 DEF RelayTypes, HasAccount

(* What a relay becomes in any of its own steps: mail is only taken.       *)
LEMMA RelayStep ==
  ASSUME TypesInv, NEW s \in Sockets, Client(s) \/ Progress(s)
  PROVE  RelayTypes' /\ HasAccount'
<1>1. /\ relay[s] \in Relay /\ Len(relay[s].mail) <= Mailbox
      /\ relay[s].phase # "new" => relay[s].account \in Accounts
  BY DEF TypesInv, RelayTypes, HasAccount
<1>2. ASSUME NEW ph \in Phases \ {"new"}, relay[s].phase # "new", Goto(s, ph)
      PROVE  RelayTypes' /\ HasAccount'
  <2> DEFINE r == [relay[s] EXCEPT !.phase = ph]
  <2>1. r \in Relay /\ r.mail = relay[s].mail /\ r.account = relay[s].account
    BY <1>1, <1>2 DEF Relay
  <2>2. Rewritten(s, r)
    BY <1>2 DEF Goto, Rewritten, TypesInv, RelayTypes
  <2> HIDE DEF r
  <2> QED
    BY <1>1, <1>2, <2>1, <2>2, OneRelay DEF TypesInv
<1>3. CASE \E a \in Accounts : Connect(s, a)
  <2>1. PICK a \in Accounts : Connect(s, a)
    BY <1>3
  <2> DEFINE r == [relay[s] EXCEPT !.phase = "dialed", !.account = a]
  <2>2. r \in Relay /\ r.mail = relay[s].mail /\ r.account \in Accounts
    BY <1>1 DEF Relay, Phases
  <2>3. Rewritten(s, r)
    BY <2>1 DEF Connect, Rewritten, TypesInv, RelayTypes
  <2> HIDE DEF r
  <2> QED
    BY <1>1, <2>2, <2>3, OneRelay DEF TypesInv
<1>4. CASE SendFirstTurn(s) /\ Routable(relay[s].account)
  <2> DEFINE r == [relay[s] EXCEPT !.pinned = TRUE]
  <2>1. r \in Relay /\ r.mail = relay[s].mail /\ r.account = relay[s].account
        /\ r.phase = relay[s].phase
    BY <1>1 DEF Relay
  <2>2. Rewritten(s, r)
    BY <1>4 DEF SendFirstTurn, Rewritten, TypesInv, RelayTypes
  <2> HIDE DEF r
  <2> QED
    BY <1>1, <2>1, <2>2, OneRelay DEF TypesInv
<1>5. CASE SendFirstTurn(s) /\ ~Routable(relay[s].account)
  BY <1>2, <1>5 DEF SendFirstTurn, At, Phases
<1>6. CASE DialReplacement(s) \/ Leave(s) \/ Register(s) \/ CheckSetup(s)
             \/ MoveSocket(s) \/ Close(s)
  BY <1>2, <1>6 DEF DialReplacement, Leave, Register, CheckSetup, MoveSocket, Close,
                    At, Phases
<1>7. CASE Dialed(s)
  <2>1. CASE Goto(s, "closing")
    BY <1>2, <1>7, <2>1 DEF Dialed, At, Phases
  <2>2. CASE ~Goto(s, "closing")
    <3>1. PICK b \in Accounts :
            relay' = [relay EXCEPT ![s].phase = "switching",
                                   ![s].previous = relay[s].account, ![s].account = b]
      BY <1>7, <2>2 DEF Dialed
    <3> DEFINE r == [relay[s] EXCEPT !.phase = "switching",
                                     !.previous = relay[s].account, !.account = b]
    <3>2. r \in Relay /\ r.mail = relay[s].mail /\ r.account \in Accounts
      BY <1>1 DEF Relay, Phases
    <3>3. Rewritten(s, r)
      BY <3>1 DEF Rewritten, TypesInv, RelayTypes
    <3> HIDE DEF r
    <3> QED
      BY <1>1, <3>2, <3>3, OneRelay DEF TypesInv
  <2> QED
    BY <2>1, <2>2
<1>8. CASE CheckSwitch(s)
  <2> DEFINE ph == IF Routable(relay[s].account) THEN "running" ELSE "closing"
             r == [relay[s] EXCEPT !.phase = ph, !.pinned = TRUE]
  <2>1. r \in Relay /\ r.mail = relay[s].mail /\ r.account = relay[s].account
    BY <1>1 DEF Relay, Phases
  <2>2. Rewritten(s, r)
    BY <1>8 DEF CheckSwitch, Rewritten, TypesInv, RelayTypes
  <2>3. relay[s].phase # "new"
    BY <1>8 DEF CheckSwitch, At
  <2> HIDE DEF r
  <2> QED
    BY <1>1, <2>1, <2>2, <2>3, OneRelay DEF TypesInv
<1>9. CASE Receive(s)
  <2> DEFINE mail == Tail(relay[s].mail)
             ph == IF Head(relay[s].mail) = relay[s].account THEN "closing"
                   ELSE relay[s].phase
             r == [relay[s] EXCEPT !.mail = mail, !.phase = ph]
  <2>1. /\ relay[s].mail \in Seq(Accounts) /\ relay[s].mail # <<>>
        /\ relay[s].phase \in Phases /\ relay[s].phase # "new"
    BY <1>1, <1>9 DEF Receive, Relay, At
  <2>2. /\ mail \in Seq(Accounts)
        /\ Len(mail) <= Mailbox
    BY <1>1, <2>1, LifecycleAssumption
  <2>3. ph \in Phases
    BY <2>1 DEF Phases
  <2>4. Rewritten(s, r)
    BY <1>9 DEF Receive, Rewritten, TypesInv, RelayTypes
  <2> HIDE DEF mail, ph
  <2>5. r \in Relay /\ r.mail = mail /\ r.account = relay[s].account
    BY <1>1, <2>2, <2>3 DEF Relay
  <2> HIDE DEF r
  <2> QED
    BY <1>1, <2>1, <2>2, <2>4, <2>5, OneRelay DEF TypesInv
<1> QED
  BY <1>3, <1>4, <1>5, <1>6, <1>7, <1>8, <1>9 DEF Client, Progress

(* A callback adds one message to a mailbox with room, or is dropped.      *)
LEMMA DeliverStep ==
  ASSUME TypesInv, NEW s \in Sockets, NEW a \in Accounts, Deliver(s, a)
  PROVE  RelayTypes' /\ HasAccount'
<1>1. /\ relay[s] \in Relay /\ Len(relay[s].mail) <= Mailbox
      /\ relay[s].phase # "new" => relay[s].account \in Accounts
  BY DEF TypesInv, RelayTypes, HasAccount
<1>2. CASE UNCHANGED relay
  BY <1>2 DEF TypesInv, RelayTypes, HasAccount
<1>3. CASE ~UNCHANGED relay
  <2> DEFINE mail == Append(relay[s].mail, a)
             r == [relay[s] EXCEPT !.mail = mail]
  <2>1. /\ Len(relay[s].mail) < Mailbox
        /\ relay' = [relay EXCEPT ![s].mail = mail]
    BY <1>3 DEF Deliver
  <2>2. relay[s].mail \in Seq(Accounts)
    BY <1>1 DEF Relay
  <2>3. mail \in Seq(Accounts) /\ Len(mail) <= Mailbox
    BY <2>1, <2>2, LifecycleAssumption
  <2>4. Rewritten(s, r)
    BY <2>1 DEF Rewritten, TypesInv, RelayTypes
  <2> HIDE DEF mail
  <2>5. r \in Relay /\ r.mail = mail /\ r.account = relay[s].account
        /\ r.phase = relay[s].phase
    BY <1>1, <2>3 DEF Relay
  <2> HIDE DEF r
  <2> QED
    BY <1>1, <2>3, <2>4, <2>5, OneRelay DEF TypesInv
<1> QED
  BY <1>2, <1>3

(* What is registered for s after a step of s, and that nobody else moves. *)
LEMMA OthersStay ==
  ASSUME TypesInv, NEW s \in Sockets, Client(s) \/ Progress(s)
  PROVE  /\ \A t \in Sockets \ {s} : relay'[t] = relay[t]
         /\ \A e \in byAccount' : e \in byAccount \/ e = <<s, relay[s].account>>
         /\ \A e \in byAccount : e[1] # s => e \in byAccount'
         /\ UNCHANGED <<accountVars, due, callbacks>>
<1>1. relay \in [Sockets -> Relay]
  BY DEF TypesInv, RelayTypes
<1>2. CASE Client(s)
  BY <1>1, <1>2 DEF Client, Connect, SendFirstTurn, DialReplacement, Leave, Goto,
                    accountVars, invalidationVars
<1>3. CASE Register(s) \/ MoveSocket(s) \/ Close(s)
  BY <1>1, <1>3 DEF Register, MoveSocket, Close, Goto, accountVars
<1>4. CASE CheckSetup(s) \/ Dialed(s) \/ CheckSwitch(s) \/ Receive(s)
  BY <1>1, <1>4 DEF CheckSetup, Dialed, CheckSwitch, Receive, Goto,
                    accountVars, invalidationVars
<1> QED
  BY <1>2, <1>3, <1>4 DEF Progress

(* A relay registers once, moves its registration when it switches, and    *)
(* takes it along to the end.                                              *)
LEMMA RegistryStep ==
  ASSUME TypesInv, NEW s \in Sockets, Client(s) \/ Progress(s)
  PROVE  RegistryFollowsSockets' /\ byAccount' \subseteq Sockets \X Accounts
<1>1. relay[s] \in Relay
  BY DEF TypesInv, RelayTypes
<1>2. relay \in [Sockets -> Relay] /\ byAccount \subseteq Sockets \X Accounts
  BY DEF TypesInv, RelayTypes, AccountTypes
<1>3. relay[s].phase # "new" => relay[s].account \in Accounts
  BY DEF TypesInv, HasAccount
<1>4. byAccount' \subseteq Sockets \X Accounts
  <2>1. CASE Register(s) \/ MoveSocket(s)
    BY <1>2, <1>3, <2>1 DEF Register, MoveSocket, At
  <2>2. CASE ~(Register(s) \/ MoveSocket(s))
    BY <1>2, <2>2 DEF Client, Progress, Connect, SendFirstTurn, DialReplacement, Leave,
                      CheckSetup, Dialed, CheckSwitch, Receive, Close, invalidationVars
  <2> QED
    BY <2>1, <2>2
<1>5. ASSUME NEW e \in byAccount', e[1] # s
      PROVE  /\ relay'[e[1]].phase \notin {"new", "dialed", "closed"}
             /\ e[2] = IF relay'[e[1]].phase = "switching" THEN relay'[e[1]].previous
                       ELSE relay'[e[1]].account
  <2>1. e \in byAccount /\ e[1] \in Sockets \ {s}
    BY <1>2, <1>5, OthersStay
  <2>2. relay'[e[1]] = relay[e[1]]
    BY <2>1, OthersStay
  <2> QED
    BY <2>1, <2>2 DEF TypesInv, RegistryFollowsSockets, At
<1>6. ASSUME NEW e \in byAccount', e[1] = s
      PROVE  /\ relay'[s].phase \notin {"new", "dialed", "closed"}
             /\ e[2] = IF relay'[s].phase = "switching" THEN relay'[s].previous
                       ELSE relay'[s].account
  <2>1. e = <<s, e[2]>>
    BY <1>4, <1>6
  <2>2. e \in byAccount =>
          /\ relay[s].phase \notin {"new", "dialed", "closed"}
          /\ e[2] = IF relay[s].phase = "switching" THEN relay[s].previous
                    ELSE relay[s].account
    BY <1>6 DEF TypesInv, RegistryFollowsSockets, At
  <2>3. CASE Client(s)
    <3>1. e \in byAccount
      BY <2>3 DEF Client, Connect, SendFirstTurn, DialReplacement, Leave, invalidationVars
    <3>2. relay[s].phase = "running"
      BY <2>2, <2>3, <3>1 DEF Client, Connect, SendFirstTurn, DialReplacement, Leave, At
    <3>3. /\ relay'[s].phase \in {"running", "closing", "dialing"}
          /\ relay'[s].account = relay[s].account
      <4>1. CASE SendFirstTurn(s)
        BY <1>1, <1>2, <3>2, <4>1 DEF SendFirstTurn, Goto, Relay
      <4>2. CASE DialReplacement(s) \/ Leave(s)
        BY <1>1, <1>2, <4>2 DEF DialReplacement, Leave, Goto, Relay
      <4> QED
        BY <2>3, <3>2, <4>1, <4>2 DEF Client, Connect, At
    <3> QED
      BY <2>2, <3>1, <3>2, <3>3
  <2>4. CASE Register(s)
    BY <1>1, <1>2, <2>1, <2>2, <2>4 DEF Register, Goto, At
  <2>5. CASE MoveSocket(s)
    BY <1>1, <1>2, <2>1, <2>2, <2>5 DEF MoveSocket, Goto, At
  <2>6. CASE Close(s)
    BY <1>1, <1>2, <2>1, <2>2, <2>6 DEF Close, Goto, At
  <2>7. CASE CheckSetup(s) \/ CheckSwitch(s) \/ Receive(s)
    <3>1. e \in byAccount /\ relay[s].phase \in {"registered", "moved", "running"}
      BY <2>7 DEF CheckSetup, CheckSwitch, Receive, invalidationVars, At
    <3>2. /\ relay'[s].phase \in {"running", "closing"}
          /\ relay'[s].account = relay[s].account
      <4>1. CASE CheckSetup(s)
        BY <1>1, <1>2, <4>1 DEF CheckSetup, Goto, Relay
      <4>2. CASE CheckSwitch(s)
        BY <1>1, <1>2, <4>2 DEF CheckSwitch, Relay
      <4>3. CASE Receive(s)
        BY <1>1, <1>2, <4>3 DEF Receive, Relay, At
      <4> QED
        BY <2>7, <4>1, <4>2, <4>3
    <3> QED
      BY <2>2, <3>1, <3>2
  <2>8. CASE Dialed(s)
    <3>1. e \in byAccount /\ e[2] = relay[s].account
      BY <2>2, <2>8 DEF Dialed, invalidationVars, At
    <3>2. CASE Goto(s, "closing")
      BY <1>1, <1>2, <3>1, <3>2 DEF Goto, Relay
    <3>3. CASE ~Goto(s, "closing")
      BY <1>1, <1>2, <2>8, <3>1, <3>3 DEF Dialed, Relay
    <3> QED
      BY <3>2, <3>3
  <2> QED
    BY <2>3, <2>4, <2>5, <2>6, <2>7, <2>8 DEF Progress
<1> QED
  BY <1>4, <1>5, <1>6 DEF RegistryFollowsSockets, At

(* Types and registry survive every step.                                  *)
LEMMA NextTypes == TypesInv /\ [Next]_vars => TypesInv'
<1> SUFFICES ASSUME TypesInv, [Next]_vars
             PROVE  TypesInv'
  OBVIOUS
<1>1. ASSUME NEW a \in Accounts, Writes(a) \/ RefreshPublish(a) \/ Poll
      PROVE  TypesInv'
  <2>1. AccountTypes' /\ UNCHANGED <<byAccount, callbacks, relay>>
    BY <1>1, WriterTypes DEF TypesInv
  <2> QED
    BY <2>1 DEF TypesInv, RelayTypes, HasAccount, RegistryFollowsSockets, At
<1>2. ASSUME NEW a \in Accounts, Invalidate(a)
      PROVE  TypesInv'
  BY <1>2 DEF Invalidate, SocketsOn, accountVars, TypesInv, AccountTypes, RelayTypes,
              HasAccount, RegistryFollowsSockets, At
<1>3. ASSUME NEW s \in Sockets, Client(s) \/ Progress(s)
      PROVE  TypesInv'
  <2>1. AccountTypes'
    BY <1>3, OthersStay, RegistryStep DEF TypesInv, AccountTypes, accountVars
  <2> QED
    BY <1>3, <2>1, RelayStep, RegistryStep DEF TypesInv
<1>4. ASSUME NEW s \in Sockets, NEW a \in Accounts, Deliver(s, a)
      PROVE  TypesInv'
  <2>1. AccountTypes' /\ byAccount' = byAccount
    BY <1>4 DEF Deliver, TypesInv, AccountTypes, accountVars
  <2>2. \A t \in Sockets : /\ relay'[t].phase = relay[t].phase
                           /\ relay'[t].account = relay[t].account
                           /\ relay'[t].previous = relay[t].previous
    <3> SUFFICES ASSUME NEW t \in Sockets
                 PROVE  /\ relay'[t].phase = relay[t].phase
                        /\ relay'[t].account = relay[t].account
                        /\ relay'[t].previous = relay[t].previous
      OBVIOUS
    <3>1. relay \in [Sockets -> Relay] /\ relay[s] \in Relay
      BY DEF TypesInv, RelayTypes
    <3>2. CASE UNCHANGED relay
      BY <3>2
    <3>3. CASE relay' = [relay EXCEPT ![s].mail = Append(@, a)]
      BY <3>1, <3>3 DEF Relay
    <3> QED
      BY <1>4, <3>2, <3>3 DEF Deliver
  <2>3. RegistryFollowsSockets'
    BY <2>1, <2>2 DEF TypesInv, AccountTypes, RegistryFollowsSockets, At
  <2> QED
    BY <1>4, <2>1, <2>3, DeliverStep DEF TypesInv
<1>5. CASE Poll
  <2>1. AccountTypes' /\ UNCHANGED <<byAccount, callbacks, relay>>
    BY <1>5 DEF Poll, AccountTypes, BecameUnavailable, TypesInv
  <2> QED
    BY <2>1 DEF TypesInv, RelayTypes, HasAccount, RegistryFollowsSockets, At
<1>6. CASE UNCHANGED vars
  BY <1>6 DEF vars, TypesInv, AccountTypes, RelayTypes, HasAccount,
              RegistryFollowsSockets, At
<1> QED
  BY <1>1, <1>2, <1>3, <1>4, <1>5, <1>6 DEF Next

(* The strengthened invariant of every behaviour.                          *)
LEMMA TypesHold == Spec => []TypesInv
  BY InitTypes, NextTypes, PTL DEF Spec

(* The variables keep their types, no mailbox exceeds its capacity, and    *)
(* the live-socket registry of active_websockets.go has at most one entry  *)
(* per socket, on the account its relay uses, and none after its end.      *)
THEOREM LifecycleCorrect == Spec => []LifecycleInv
<1>1. TypesInv => LifecycleInv
  BY DEF TypesInv, AccountTypes, RelayTypes, LifecycleInv, TypeOK
<1> QED
  BY <1>1, TypesHold, PTL

-----------------------------------------------------------------------------
(* The news of an invalidation.                                            *)

News(s, a) == <<s, a>> \in callbacks \/ InMail(s, a)

(* The phases in which a relay has registered its account.                 *)
Listed == {"registered", "running", "dialing", "moved"}

(* A relay that has registered is still listed or was detached, and then   *)
(* the news is on its way.  This is what an invalidation relies on.        *)
RegisteredOrTold ==
    \A s \in Sockets : relay[s].phase \in Listed =>
        <<s, relay[s].account>> \in byAccount \/ News(s, relay[s].account)

(* Taking a message leaves the others in the mailbox.                      *)
LEMMA TailKeeps ==
  ASSUME NEW q \in Seq(Accounts), NEW a, q # <<>>, Head(q) # a,
         \E n \in 1..Len(q) : q[n] = a
  PROVE  \E n \in 1..Len(Tail(q)) : Tail(q)[n] = a
<1>1. PICK n \in 1..Len(q) : q[n] = a
  OBVIOUS
<1>2. n # 1
  BY <1>1
<1>3. n - 1 \in 1..Len(Tail(q)) /\ Tail(q)[n - 1] = a
  BY <1>1, <1>2
<1> QED
  BY <1>3

(* Adding a message keeps the others, and adds that one.                   *)
LEMMA AppendKeeps ==
  ASSUME NEW q \in Seq(Accounts), NEW a \in Accounts, NEW b,
         b = a \/ \E n \in 1..Len(q) : q[n] = b
  PROVE  \E n \in 1..Len(Append(q, a)) : Append(q, a)[n] = b
<1>1. CASE b = a
  <2>1. Len(q) + 1 \in 1..Len(Append(q, a)) /\ Append(q, a)[Len(q) + 1] = a
    OBVIOUS
  <2> QED
    BY <1>1, <2>1
<1>2. CASE \E n \in 1..Len(q) : q[n] = b
  <2>1. PICK n \in 1..Len(q) : q[n] = b
    BY <1>2
  <2>2. n \in 1..Len(Append(q, a)) /\ Append(q, a)[n] = b
    BY <2>1
  <2> QED
    BY <2>2
<1> QED
  BY <1>1, <1>2

(* A relay that stays listed without having been checked again keeps its   *)
(* account, its registration and every piece of news about it.             *)
LEMMA RelayKeepsNews ==
  ASSUME TypesInv, NEW s \in Sockets, Client(s) \/ Progress(s),
         relay'[s].phase \in Listed, relay[s].phase \in Listed
  PROVE  LET a == relay[s].account
         IN  /\ relay'[s].account = a
             /\ <<s, a>> \in byAccount => <<s, a>> \in byAccount'
             /\ News(s, a) => <<s, a>> \in callbacks' \/ InMail(s, a)'
<1> DEFINE a == relay[s].account
<1>1. relay[s] \in Relay /\ relay \in [Sockets -> Relay]
  BY DEF TypesInv, RelayTypes
<1>2. CASE Client(s)
  <2>1. UNCHANGED <<byAccount, callbacks>> /\ relay'[s].mail = relay[s].mail
        /\ relay'[s].account = a
    <3>1. CASE SendFirstTurn(s)
      BY <1>1, <3>1 DEF SendFirstTurn, Goto, invalidationVars, Relay
    <3>2. CASE DialReplacement(s) \/ Leave(s)
      BY <1>1, <3>2 DEF DialReplacement, Leave, Goto, invalidationVars, Relay
    <3> QED
      BY <1>2, <3>1, <3>2 DEF Client, Connect, At, Listed
  <2> QED
    BY <2>1 DEF News, InMail
<1>3. CASE CheckSetup(s)
  <2>1. UNCHANGED <<byAccount, callbacks>> /\ relay'[s].mail = relay[s].mail
        /\ relay'[s].account = a
    BY <1>1, <1>3 DEF CheckSetup, Goto, invalidationVars, Relay
  <2> QED
    BY <2>1 DEF News, InMail
<1>4. CASE CheckSwitch(s)
  <2>1. UNCHANGED <<byAccount, callbacks>> /\ relay'[s].mail = relay[s].mail
        /\ relay'[s].account = a
    BY <1>1, <1>4 DEF CheckSwitch, invalidationVars, Relay
  <2> QED
    BY <2>1 DEF News, InMail
<1>5. CASE Receive(s)
  <2>1. UNCHANGED <<byAccount, callbacks>> /\ relay'[s].mail = Tail(relay[s].mail)
        /\ relay'[s].account = a
    BY <1>1, <1>5 DEF Receive, invalidationVars, Relay
  <2>2. relay[s].mail \in Seq(Accounts) /\ relay[s].mail # <<>>
    BY <1>1, <1>5 DEF Receive, Relay
  <2>3. Head(relay[s].mail) # a
    BY <1>1, <1>5 DEF Receive, Relay, Listed
  <2>4. InMail(s, a) => InMail(s, a)'
    BY <2>1, <2>2, <2>3, TailKeeps DEF InMail
  <2> QED
    BY <2>1, <2>4 DEF News
<1>6. CASE Register(s) \/ MoveSocket(s)
  BY <1>6 DEF Register, MoveSocket, At, Listed
<1>7. CASE Dialed(s)
  <2>1. relay'[s].phase \in {"switching", "closing"}
    BY <1>1, <1>7 DEF Dialed, Goto, Relay
  <2> QED
    BY <2>1 DEF Listed
<1>8. CASE Close(s)
  BY <1>8 DEF Close, At, Listed
<1> QED
  BY <1>2, <1>3, <1>4, <1>5, <1>6, <1>7, <1>8 DEF Progress

(* Delivering turns a callback into mail, unless the relay is at its end.  *)
LEMMA DeliveryKeepsNews ==
  ASSUME TypesInv, NEW s \in Sockets, NEW a \in Accounts, Deliver(s, a),
         NEW t \in Sockets, relay'[t].phase \in Listed
  PROVE  LET b == relay[t].account
         IN  /\ relay'[t].account = b /\ relay[t].phase \in Listed
             /\ News(t, b) => <<t, b>> \in callbacks' \/ InMail(t, b)'
<1> DEFINE b == relay[t].account
<1>1. relay[t] \in Relay /\ relay \in [Sockets -> Relay] /\ relay[t].mail \in Seq(Accounts)
  BY DEF TypesInv, RelayTypes, Relay
<1>2. CASE t # s
  <2>1. relay'[t] = relay[t]
    BY <1>1, <1>2 DEF Deliver
  <2>2. <<t, b>> \in callbacks => <<t, b>> \in callbacks'
    BY <1>2 DEF Deliver
  <2> QED
    BY <2>1, <2>2 DEF News, InMail
<1>3. CASE t = s
  <2>1. relay[s].phase \notin {"closing", "closed"}
    BY <1>1, <1>3 DEF Deliver, Listed
  <2>2. relay' = [relay EXCEPT ![s].mail = Append(@, a)]
    BY <2>1 DEF Deliver
  <2>3. /\ relay'[s].mail = Append(relay[s].mail, a)
        /\ relay'[s].account = relay[s].account /\ relay'[s].phase = relay[s].phase
    BY <1>1, <1>3, <2>2 DEF Relay
  <2>4. <<s, b>> \in callbacks => b = a \/ <<s, b>> \in callbacks'
    BY DEF Deliver
  <2>5. b = a \/ InMail(s, b) => InMail(s, b)'
    BY <1>1, <1>3, <2>3, AppendKeeps DEF InMail
  <2> QED
    BY <1>3, <2>3, <2>4, <2>5 DEF News
<1> QED
  BY <1>2, <1>3

(* Detaching the sockets of an account leaves each of them a callback.     *)
LEMMA InvalidationTells ==
  ASSUME TypesInv, RegisteredOrTold, NEW a \in Accounts, Invalidate(a),
         NEW s \in Sockets, relay[s].phase \in Listed
  PROVE  LET b == relay[s].account
         IN  /\ relay' = relay
             /\ <<s, b>> \in byAccount' \/ <<s, b>> \in callbacks' \/ InMail(s, b)'
             /\ News(s, b) => <<s, b>> \in callbacks' \/ InMail(s, b)'
             /\ b = a => <<s, b>> \in callbacks' \/ InMail(s, b)'
<1> DEFINE b == relay[s].account
<1>1. relay' = relay /\ callbacks \subseteq callbacks'
  BY DEF Invalidate
<1>2. <<s, b>> \in byAccount \/ News(s, b)
  BY DEF RegisteredOrTold
<1>3. News(s, b) => <<s, b>> \in callbacks' \/ InMail(s, b)'
  BY <1>1 DEF News, InMail
<1>4. <<s, b>> \in byAccount => IF b = a THEN <<s, b>> \in callbacks'
                               ELSE <<s, b>> \in byAccount'
  BY DEF Invalidate, SocketsOn
<1> QED
  BY <1>1, <1>2, <1>3, <1>4

(* Registered or told: every step keeps it.                                *)
LEMMA NextTold == TypesInv /\ RegisteredOrTold /\ [Next]_vars => RegisteredOrTold'
<1> SUFFICES ASSUME TypesInv, RegisteredOrTold, [Next]_vars,
                    NEW s \in Sockets, relay'[s].phase \in Listed
             PROVE  (<<s, relay[s].account>> \in byAccount \/ News(s, relay[s].account))'
  BY DEF RegisteredOrTold
<1>1. CASE UNCHANGED <<byAccount, callbacks, relay>>
  BY <1>1 DEF RegisteredOrTold, News, InMail
<1>2. ASSUME NEW a \in Accounts, Invalidate(a)
      PROVE  (<<s, relay[s].account>> \in byAccount \/ News(s, relay[s].account))'
  <2>1. relay' = relay
    BY <1>2 DEF Invalidate
  <2> QED
    BY <1>2, <2>1, InvalidationTells DEF News
<1>3. ASSUME NEW t \in Sockets, Client(t) \/ Progress(t), t # s
      PROVE  (<<s, relay[s].account>> \in byAccount \/ News(s, relay[s].account))'
  <2>1. relay'[s] = relay[s] /\ callbacks' = callbacks
    BY <1>3, OthersStay
  <2>2. <<s, relay[s].account>> \in byAccount => <<s, relay[s].account>> \in byAccount'
    BY <1>3, OthersStay
  <2> QED
    BY <2>1, <2>2 DEF RegisteredOrTold, News, InMail
<1>4. ASSUME Client(s) \/ Progress(s)
      PROVE  (<<s, relay[s].account>> \in byAccount \/ News(s, relay[s].account))'
  <2>1. CASE relay[s].phase \in Listed
    BY <1>4, <2>1, RelayKeepsNews DEF RegisteredOrTold, News
  <2>2. CASE Register(s) \/ MoveSocket(s)
    <3>1. relay'[s].account = relay[s].account
      BY <2>2 DEF Register, MoveSocket, Goto, TypesInv, RelayTypes, Relay
    <3> QED
      BY <2>2, <3>1 DEF Register, MoveSocket
  <2>3. CASE relay[s].phase \notin Listed /\ ~Register(s) /\ ~MoveSocket(s)
    <3>1. Close(s) \/ \E a \in Accounts : Connect(s, a)
      BY <1>4, <2>3 DEF Client, Progress, SendFirstTurn, DialReplacement, Leave,
                        CheckSetup, Dialed, CheckSwitch, Receive, At, Listed
    <3>2. relay'[s].phase \in {"closed", "dialed"}
      BY <3>1 DEF Close, Connect, Goto, TypesInv, RelayTypes, Relay
    <3> QED
      BY <3>2 DEF Listed
  <2> QED
    BY <2>1, <2>2, <2>3
<1>5. ASSUME NEW t \in Sockets, NEW a \in Accounts, Deliver(t, a)
      PROVE  (<<s, relay[s].account>> \in byAccount \/ News(s, relay[s].account))'
  <2>1. byAccount' = byAccount
    BY <1>5 DEF Deliver
  <2> QED
    BY <1>5, <2>1, DeliveryKeepsNews DEF RegisteredOrTold, News
<1>6. CASE \/ \E a \in Accounts : Writes(a) \/ RefreshPublish(a)
           \/ Poll \/ UNCHANGED vars
  <2>1. UNCHANGED <<byAccount, callbacks, relay>>
    BY <1>6 DEF Writes, EditStored, AdminSet, RefreshPersist, RefreshPublish, Poll,
                invalidationVars, vars
  <2> QED
    BY <1>1, <2>1
<1> QED
  BY <1>2, <1>3, <1>4, <1>5, <1>6 DEF Next

(* A relay that runs after a step of the sockets has just been checked, or *)
(* it ran before on the same account and what reached it still does.       *)
LEMMA SocketReach ==
  ASSUME TypesInv, RegisteredOrTold, NEW s \in Sockets, relay'[s].phase = "running",
         \/ \E a \in Accounts : Invalidate(a)
         \/ \E t \in Sockets : Client(t) \/ Progress(t)
         \/ \E t \in Sockets, a \in Accounts : Deliver(t, a)
  PROVE  /\ UNCHANGED accountVars
         /\ \/ Routable(relay'[s].account)
            \/ /\ relay[s].phase = "running" /\ relay'[s].account = relay[s].account
               /\ Reached(s, relay[s].account) => Reached(s, relay[s].account)'
<1>1. relay[s] \in Relay /\ relay \in [Sockets -> Relay] /\ relay'[s].phase \in Listed
  BY DEF TypesInv, RelayTypes, Listed
<1>2. ASSUME NEW a \in Accounts, Invalidate(a)
      PROVE  /\ UNCHANGED accountVars
             /\ relay[s].phase = "running" /\ relay'[s].account = relay[s].account
             /\ Reached(s, relay[s].account) => Reached(s, relay[s].account)'
  <2>1. UNCHANGED accountVars /\ relay' = relay /\ due' = due \ {a}
    BY <1>2 DEF Invalidate
  <2> QED
    BY <1>1, <1>2, <2>1, InvalidationTells DEF Reached, News
<1>3. ASSUME NEW t \in Sockets, Client(t) \/ Progress(t), t # s
      PROVE  /\ UNCHANGED accountVars
             /\ relay[s].phase = "running" /\ relay'[s].account = relay[s].account
             /\ Reached(s, relay[s].account) => Reached(s, relay[s].account)'
  <2>1. relay'[s] = relay[s] /\ UNCHANGED <<accountVars, due, callbacks>>
    BY <1>3, OthersStay
  <2> QED
    BY <2>1 DEF Reached, InMail
<1>4. ASSUME Client(s) \/ Progress(s)
      PROVE  /\ UNCHANGED accountVars
             /\ \/ Routable(relay'[s].account)
                \/ /\ relay[s].phase = "running" /\ relay'[s].account = relay[s].account
                   /\ Reached(s, relay[s].account) => Reached(s, relay[s].account)'
  <2>1. UNCHANGED <<accountVars, due, callbacks>>
    BY <1>4, OthersStay
  <2>2. CASE CheckSetup(s) \/ CheckSwitch(s)
    BY <1>1, <2>1, <2>2 DEF CheckSetup, CheckSwitch, Goto, Relay
  <2>3. CASE relay[s].phase = "running"
    BY <1>1, <1>4, <2>1, <2>3, RelayKeepsNews DEF Reached, News, Listed
  <2>4. CASE ~CheckSetup(s) /\ ~CheckSwitch(s) /\ relay[s].phase # "running"
    <3>1. \/ Register(s) \/ MoveSocket(s) \/ Close(s) \/ Dialed(s)
          \/ \E a \in Accounts : Connect(s, a)
      BY <1>4, <2>4 DEF Client, Progress, SendFirstTurn, DialReplacement, Leave, Receive, At
    <3>2. relay'[s].phase # "running"
      BY <1>1, <3>1 DEF Register, MoveSocket, Close, Dialed, Connect, Goto, Relay
    <3> QED
      BY <3>2
  <2> QED
    BY <2>2, <2>3, <2>4
<1>5. ASSUME NEW t \in Sockets, NEW a \in Accounts, Deliver(t, a)
      PROVE  /\ UNCHANGED accountVars
             /\ relay[s].phase = "running" /\ relay'[s].account = relay[s].account
             /\ Reached(s, relay[s].account) => Reached(s, relay[s].account)'
  <2>1. UNCHANGED <<accountVars, due>>
    BY <1>5 DEF Deliver
  <2>2. relay'[s].phase = relay[s].phase
    <3>1. CASE UNCHANGED relay
      BY <3>1
    <3>2. CASE relay' = [relay EXCEPT ![t].mail = Append(@, a)]
      BY <1>1, <3>2 DEF Relay
    <3> QED
      BY <1>5, <3>1, <3>2 DEF Deliver
  <2> QED
    BY <1>1, <1>5, <2>1, <2>2, DeliveryKeepsNews DEF Reached, News
<1> QED
  BY <1>2, <1>3, <1>4, <1>5

-----------------------------------------------------------------------------
(* The accounts command is the only writer.                                *)

WatcherInv ==
    /\ TypesInv
    /\ RegisteredOrTold
    /\ \A a \in Accounts : fetched[a] = NotFetched
    /\ RelayIsReached

(* Nothing runs yet.                                                       *)
LEMMA InitWatcher == Init => WatcherInv
<1> SUFFICES ASSUME Init
             PROVE  WatcherInv
  OBVIOUS
<1>1. \A s \in Sockets : relay[s].phase = "new"
  BY DEF Init
<1> QED
  BY <1>1, InitTypes
  DEF Init, WatcherInv, RegisteredOrTold, RelayIsReached, Listed, At

(* The watcher puts every account that it makes unroutable on the list of  *)
(* invalidations; the sockets keep what reached them.                      *)
LEMMA NextWatcher ==
  ASSUME Writers = {"cli"}, WatcherInv, [Next]_vars
  PROVE  WatcherInv'
<1>1. TypesInv' /\ RegisteredOrTold'
  BY NextTypes, NextTold DEF WatcherInv
<1>2. \/ \E a \in Accounts, st \in States : EditStored(a, st)
      \/ Poll \/ UNCHANGED vars
      \/ \E a \in Accounts : Invalidate(a)
      \/ \E t \in Sockets : Client(t) \/ Progress(t)
      \/ \E t \in Sockets, a \in Accounts : Deliver(t, a)
  BY DEF Next, Writes, AdminSet, RefreshPersist, RefreshPublish, WatcherInv
<1>3. \A a \in Accounts : fetched'[a] = NotFetched
  BY <1>2, OthersStay
  DEF WatcherInv, EditStored, Poll, vars, Invalidate, Deliver, accountVars
<1>4. ASSUME NEW s \in Sockets, relay'[s].phase = "running", ~Routable(relay[s].account)'
      PROVE  Reached(s, relay[s].account)'
  <2>1. CASE (\E a \in Accounts, st \in States : EditStored(a, st)) \/ UNCHANGED vars
    BY <1>4, <2>1
    DEF EditStored, vars, invalidationVars, WatcherInv, RelayIsReached, Routable, At,
        Reached, InMail
  <2>2. CASE Poll
    <3> DEFINE b == relay[s].account
    <3>1. relay' = relay /\ callbacks' = callbacks /\ due \subseteq due'
      BY <2>2 DEF Poll
    <3>2. b \in Accounts
      BY <1>4, <3>1 DEF WatcherInv, TypesInv, HasAccount
    <3>3. CASE Routable(b)
      BY <1>4, <2>2, <3>1, <3>2, <3>3 DEF Poll, BecameUnavailable, Routable, Reached
    <3>4. CASE ~Routable(b)
      <4>1. Reached(s, b)
        BY <1>4, <3>1, <3>4 DEF WatcherInv, RelayIsReached, At
      <4> QED
        BY <3>1, <4>1 DEF Reached, InMail
    <3> QED
      BY <3>3, <3>4
  <2>3. CASE \/ \E a \in Accounts : Invalidate(a)
             \/ \E t \in Sockets : Client(t) \/ Progress(t)
             \/ \E t \in Sockets, a \in Accounts : Deliver(t, a)
    <3>1. /\ UNCHANGED accountVars
          /\ \/ Routable(relay'[s].account)
             \/ /\ relay[s].phase = "running" /\ relay'[s].account = relay[s].account
                /\ Reached(s, relay[s].account) => Reached(s, relay[s].account)'
      BY <1>4, <2>3, SocketReach DEF WatcherInv
    <3> QED
      BY <1>4, <3>1 DEF WatcherInv, RelayIsReached, Routable, At, accountVars
  <2> QED
    BY <1>2, <2>1, <2>2, <2>3
<1> QED
  BY <1>1, <1>3, <1>4 DEF WatcherInv, RelayIsReached, At

(* When the accounts command is the only one to pause and remove accounts, *)
(* the watcher of pool_store.go reaches every relay that runs on one: no   *)
(* relay slips between its registration and its check.                     *)
THEOREM WatcherReaches ==
  ASSUME Writers = {"cli"}
  PROVE  Spec => []RelayIsReached
<1>1. WatcherInv /\ [Next]_vars => WatcherInv'
  BY NextWatcher
<1>2. WatcherInv => RelayIsReached
  BY DEF WatcherInv
<1> QED
  BY <1>1, <1>2, InitWatcher, PTL DEF Spec

-----------------------------------------------------------------------------
(* Everybody but another process writes.                                   *)

(* An account that is gone in SQLite is gone in the pool and the other way *)
(* round, and no refresh in flight can bring it back.                      *)
GoneIsKnown ==
    \A a \in Accounts :
        /\ stored[a] \in {"signed out", "removed"} <=> pool[a] \in {"signed out", "removed"}
        /\ stored[a] \in {"signed out", "removed"} => pool[a] = stored[a]
        /\ fetched[a] \in {"in", "paused"} => stored[a] # "signed out"
        /\ fetched[a] = "signed out" => stored[a] \in {"signed out", "removed"}
        /\ fetched[a] # "removed"

ServerInv == TypesInv /\ RegisteredOrTold /\ GoneIsKnown /\ GoneAccountIsReached

(* Nothing runs and nothing is gone yet.                                   *)
LEMMA InitServer == Init => ServerInv
<1> SUFFICES ASSUME Init
             PROVE  ServerInv
  OBVIOUS
<1>1. \A s \in Sockets : relay[s].phase = "new"
  BY DEF Init
<1>2. GoneIsKnown
  BY DEF Init, GoneIsKnown, NotFetched
<1> QED
  BY <1>1, <1>2, InitTypes
  DEF Init, ServerInv, RegisteredOrTold, GoneAccountIsReached, Listed, At

(* Admins and refreshes write SQLite and the pool together.                *)
LEMMA GoneStep ==
  ASSUME "cli" \notin Writers, AccountTypes, GoneIsKnown,
         NEW b \in Accounts, Writes(b) \/ RefreshPublish(b) \/ Poll
  PROVE  GoneIsKnown'
<1>1. CASE \E st \in States : AdminSet(b, st)
  BY <1>1 DEF AdminSet, Settable, Mutate, AccountTypes, GoneIsKnown
<1>2. CASE \E permanent \in BOOLEAN : RefreshPersist(b, permanent)
  BY <1>2 DEF RefreshPersist, Mutate, AccountTypes, GoneIsKnown
<1>3. CASE RefreshPublish(b)
  BY <1>3 DEF RefreshPublish, AccountTypes, GoneIsKnown, NotFetched, States
<1>4. CASE Poll
  BY <1>4 DEF Poll, GoneIsKnown
<1> QED
  BY <1>1, <1>2, <1>3, <1>4 DEF Writes, EditStored

(* An account that is gone gets there with an invalidation of its own.     *)
LEMMA GoneIsDue ==
  ASSUME "cli" \notin Writers, AccountTypes, GoneIsKnown, NEW a \in Accounts,
         NEW b \in Accounts, Writes(b) \/ RefreshPublish(b) \/ Poll,
         pool'[a] \in {"signed out", "removed"}
  PROVE  \/ a \in due' \/ fetched'[a] = "signed out"
         \/ /\ pool[a] \in {"signed out", "removed"}
            /\ due \subseteq due' /\ fetched[a] # "signed out"
<1>1. CASE \E st \in States : AdminSet(b, st)
  BY <1>1 DEF AdminSet, Settable, Mutate, AccountTypes, GoneIsKnown
<1>2. CASE \E permanent \in BOOLEAN : RefreshPersist(b, permanent)
  BY <1>2 DEF RefreshPersist, Mutate, AccountTypes, GoneIsKnown, invalidationVars
<1>3. CASE RefreshPublish(b)
  BY <1>3 DEF RefreshPublish, AccountTypes, GoneIsKnown, NotFetched, States
<1>4. CASE Poll
  BY <1>4 DEF Poll, GoneIsKnown
<1> QED
  BY <1>1, <1>2, <1>3, <1>4 DEF Writes, EditStored

(* Writers keep what reached a relay, or make the invalidation due.        *)
LEMMA NextServer ==
  ASSUME "cli" \notin Writers, ServerInv, [Next]_vars
  PROVE  ServerInv'
<1>1. TypesInv' /\ RegisteredOrTold'
  BY NextTypes, NextTold DEF ServerInv
<1> SUFFICES GoneIsKnown' /\ GoneAccountIsReached'
  BY <1>1 DEF ServerInv
<1>2. ASSUME NEW b \in Accounts, Writes(b) \/ RefreshPublish(b) \/ Poll
      PROVE  GoneIsKnown' /\ GoneAccountIsReached'
  <2>1. GoneIsKnown'
    BY <1>2, GoneStep DEF ServerInv, TypesInv
  <2>2. UNCHANGED <<byAccount, callbacks, relay>>
    BY <1>2, WriterTypes DEF ServerInv, TypesInv
  <2> SUFFICES ASSUME NEW s \in Sockets, relay[s].phase = "running",
                      pool'[relay[s].account] \in {"signed out", "removed"}
               PROVE  \/ Reached(s, relay[s].account)'
                      \/ fetched'[relay[s].account] = "signed out"
    BY <2>1, <2>2 DEF GoneAccountIsReached, At
  <2>3. relay[s].account \in Accounts
    BY DEF ServerInv, TypesInv, HasAccount
  <2>4. \/ relay[s].account \in due' \/ fetched'[relay[s].account] = "signed out"
        \/ /\ pool[relay[s].account] \in {"signed out", "removed"}
           /\ due \subseteq due' /\ fetched[relay[s].account] # "signed out"
    BY <1>2, <2>3, GoneIsDue DEF ServerInv, TypesInv
  <2>5. CASE /\ pool[relay[s].account] \in {"signed out", "removed"}
             /\ due \subseteq due' /\ fetched[relay[s].account] # "signed out"
    <3>1. Reached(s, relay[s].account)
      BY <2>5 DEF ServerInv, GoneAccountIsReached, At
    <3> QED
      BY <2>2, <2>5, <3>1 DEF Reached, InMail
  <2> QED
    BY <2>2, <2>4, <2>5 DEF Reached
<1>3. CASE \/ \E a \in Accounts : Invalidate(a)
           \/ \E t \in Sockets : Client(t) \/ Progress(t)
           \/ \E t \in Sockets, a \in Accounts : Deliver(t, a)
  <2>1. UNCHANGED accountVars
    BY <1>3, OthersStay DEF Invalidate, Deliver, ServerInv
  <2>2. GoneIsKnown'
    BY <2>1 DEF GoneIsKnown, ServerInv, accountVars
  <2>3. ASSUME NEW s \in Sockets, relay'[s].phase = "running",
               pool[relay'[s].account] \in {"signed out", "removed"}
        PROVE  \/ Reached(s, relay[s].account)'
               \/ fetched[relay'[s].account] = "signed out"
    <3>1. /\ relay[s].phase = "running" /\ relay'[s].account = relay[s].account
          /\ Reached(s, relay[s].account) => Reached(s, relay[s].account)'
      BY <1>3, <2>1, <2>3, SocketReach DEF ServerInv, Routable
    <3> QED
      BY <2>3, <3>1 DEF ServerInv, GoneAccountIsReached, At
  <2>4. pool' = pool /\ fetched' = fetched
    BY <2>1 DEF accountVars
  <2>5. GoneAccountIsReached'
    BY <2>3, <2>4 DEF GoneAccountIsReached, At
  <2> QED
    BY <2>2, <2>5
<1>4. CASE UNCHANGED vars
  <2>1. GoneIsKnown'
    BY <1>4 DEF vars, ServerInv, GoneIsKnown
  <2>2. UNCHANGED <<pool, fetched, due, callbacks, relay>>
    BY <1>4 DEF vars
  <2>3. ASSUME NEW s \in Sockets, relay[s].phase = "running",
               pool[relay[s].account] \in {"signed out", "removed"}
        PROVE  Reached(s, relay[s].account)' \/ fetched[relay[s].account] = "signed out"
    <3>1. Reached(s, relay[s].account) \/ fetched[relay[s].account] = "signed out"
      BY <2>3 DEF ServerInv, GoneAccountIsReached, At
    <3> QED
      BY <2>2, <3>1 DEF Reached, InMail
  <2>4. GoneAccountIsReached'
    BY <2>2, <2>3 DEF GoneAccountIsReached, At
  <2> QED
    BY <2>1, <2>4
<1>5. CASE Poll
  <2>1. PICK b \in Accounts : pool[b] # stored[b]
    BY <1>5 DEF Poll, ServerInv, TypesInv, AccountTypes
  <2> QED
    BY <1>2, <1>5, <2>1
<1> QED
  BY <1>2, <1>3, <1>4, <1>5 DEF Next

(* While admins and refreshes change accounts, and overwrite each other's  *)
(* pauses, an account that is signed out or removed for good still reaches *)
(* every relay that runs on it.                                            *)
THEOREM ServerReaches ==
  ASSUME "cli" \notin Writers
  PROVE  Spec => []GoneAccountIsReached
<1>1. ServerInv /\ [Next]_vars => ServerInv'
  BY NextServer
<1>2. ServerInv => GoneAccountIsReached
  BY DEF ServerInv
<1> QED
  BY <1>1, <1>2, InitServer, PTL DEF Spec

-----------------------------------------------------------------------------
(* The mailbox has room.                                                   *)

RegisteredAs(s) == {e \in byAccount : e[1] = s}
CallbacksTo(s) == {e \in callbacks : e[1] = s}

(* How many registrations a relay r has still ahead: one when it starts    *)
(* and one when it switches, which it does at most once.                   *)
Ahead(r) ==
    IF r.phase \in {"new", "dialed"} THEN 2
    ELSE IF \/ r.phase \in {"registered", "dialing", "switching"}
            \/ r.phase = "running" /\ ~r.pinned THEN 1
    ELSE 0

(* Every message of s was a callback, every callback a registration.       *)
RoomFor(s) ==
    /\ IsFiniteSet(RegisteredAs(s)) /\ IsFiniteSet(CallbacksTo(s))
    /\ Ahead(relay[s]) + Cardinality(RegisteredAs(s)) + Cardinality(CallbacksTo(s))
            + Len(relay[s].mail) <= 2

RoomInv == \A s \in Sockets : RoomFor(s)

(* The numbers that RoomFor adds.                                          *)
LEMMA RoomTypes ==
  ASSUME TypesInv, NEW s \in Sockets, RoomFor(s)
  PROVE  /\ relay[s] \in Relay /\ relay \in [Sockets -> Relay]
         /\ Ahead(relay[s]) \in Nat /\ Len(relay[s].mail) \in Nat
         /\ Cardinality(RegisteredAs(s)) \in Nat /\ Cardinality(CallbacksTo(s)) \in Nat
<1>1. relay \in [Sockets -> Relay] /\ relay[s] \in Relay /\ relay[s].mail \in Seq(Accounts)
  BY DEF TypesInv, RelayTypes, Relay
<1>2. Ahead(relay[s]) \in Nat /\ Len(relay[s].mail) \in Nat
  BY <1>1 DEF Ahead
<1> QED
  BY <1>1, <1>2, FS_CardinalityType DEF RoomFor

(* A relay's own step takes mail, or spends a registration it had ahead.   *)
LEMMA OwnRoom ==
  ASSUME TypesInv, NEW s \in Sockets, RoomFor(s), Client(s) \/ Progress(s)
  PROVE  RoomFor(s)'
<1> DEFINE r == relay[s]
           r2 == relay'[s]
           regs == RegisteredAs(s)
           regs2 == RegisteredAs(s)'
<1>1. /\ r \in Relay /\ relay \in [Sockets -> Relay]
      /\ Ahead(r) \in Nat /\ Len(r.mail) \in Nat
      /\ Cardinality(regs) \in Nat /\ Cardinality(CallbacksTo(s)) \in Nat
      /\ IsFiniteSet(regs) /\ IsFiniteSet(CallbacksTo(s))
  BY RoomTypes DEF RoomFor
<1>2. CallbacksTo(s)' = CallbacksTo(s)
  BY OthersStay DEF CallbacksTo
<1>3. ASSUME r2.mail = r.mail \/ (r.mail # <<>> /\ r2.mail = Tail(r.mail)),
             IsFiniteSet(regs2), Ahead(r2) + Cardinality(regs2) <= Ahead(r) + Cardinality(regs)
      PROVE  RoomFor(s)'
  <2>1. Len(r2.mail) \in Nat /\ Len(r2.mail) <= Len(r.mail)
    BY <1>1, <1>3 DEF Relay
  <2>2. Cardinality(regs2) \in Nat /\ Ahead(r2) \in Nat
    BY <1>3, FS_CardinalityType DEF Ahead
  <2> HIDE DEF r, r2, regs, regs2
  <2>3. Ahead(r) + Cardinality(regs) + Cardinality(CallbacksTo(s)) + Len(r.mail) <= 2
    BY DEF RoomFor, r, regs
  <2>4. Ahead(r2) + Cardinality(regs2) + Cardinality(CallbacksTo(s)) + Len(r2.mail) <= 2
    <3> DEFINE m == Len(r.mail)
               m2 == Len(r2.mail)
    <3> HIDE DEF m, m2
    <3>1. m \in Nat /\ m2 \in Nat /\ m2 <= m
      BY <1>1, <2>1 DEF m, m2
    <3>2. Ahead(r2) + Cardinality(regs2) + Cardinality(CallbacksTo(s)) + m2 <= 2
      BY <1>1, <1>3, <2>2, <2>3, <3>1 DEF m
    <3> QED
      BY <3>2 DEF m2
  <2> QED
    BY <1>1, <1>2, <1>3, <2>4 DEF RoomFor, r2, regs2
<1>4. ASSUME UNCHANGED byAccount, Ahead(r2) <= Ahead(r),
             r2.mail = r.mail \/ (r.mail # <<>> /\ r2.mail = Tail(r.mail))
      PROVE  RoomFor(s)'
  <2>1. regs2 = regs /\ Ahead(r2) \in Nat
    BY <1>4 DEF RegisteredAs, Ahead
  <2> HIDE DEF r, r2, regs, regs2
  <2> QED
    BY <1>1, <1>3, <1>4, <2>1
<1>5. CASE Client(s)
  <2>1. UNCHANGED byAccount
    BY <1>5 DEF Client, Connect, SendFirstTurn, DialReplacement, Leave, invalidationVars
  <2>2. r2.mail = r.mail /\ Ahead(r2) <= Ahead(r)
    <3>1. CASE \E a \in Accounts : Connect(s, a)
      BY <1>1, <3>1 DEF Connect, At, Relay, Ahead
    <3>2. CASE SendFirstTurn(s)
      BY <1>1, <3>2 DEF SendFirstTurn, Goto, At, Relay, Ahead
    <3>3. CASE DialReplacement(s) \/ Leave(s)
      BY <1>1, <3>3 DEF DialReplacement, Leave, Goto, At, Relay, Ahead
    <3> QED
      BY <1>5, <3>1, <3>2, <3>3 DEF Client
  <2> QED
    BY <1>4, <2>1, <2>2
<1>6. CASE CheckSetup(s) \/ Dialed(s) \/ CheckSwitch(s)
  <2>1. UNCHANGED byAccount
    BY <1>6 DEF CheckSetup, Dialed, CheckSwitch, invalidationVars
  <2>2. r2.mail = r.mail /\ Ahead(r2) <= Ahead(r)
    <3>1. CASE CheckSetup(s)
      BY <1>1, <3>1 DEF CheckSetup, Goto, At, Relay, Ahead
    <3>2. CASE Dialed(s)
      BY <1>1, <3>2 DEF Dialed, Goto, At, Relay, Ahead
    <3>3. CASE CheckSwitch(s)
      BY <1>1, <3>3 DEF CheckSwitch, At, Relay, Ahead
    <3> QED
      BY <1>6, <3>1, <3>2, <3>3
  <2> QED
    BY <1>4, <2>1, <2>2
<1>7. CASE Receive(s)
  <2>1. UNCHANGED byAccount
    BY <1>7 DEF Receive, invalidationVars
  <2>2. r.mail # <<>> /\ r2.mail = Tail(r.mail) /\ Ahead(r2) <= Ahead(r)
    BY <1>1, <1>7 DEF Receive, At, Relay, Ahead
  <2> QED
    BY <1>4, <2>1, <2>2
<1>8. CASE Close(s)
  <2>1. regs2 \subseteq regs
    BY <1>8 DEF Close, RegisteredAs
  <2>2. IsFiniteSet(regs2) /\ Cardinality(regs2) <= Cardinality(regs) /\ Cardinality(regs2) \in Nat
    BY <1>1, <2>1, FS_Subset, FS_CardinalityType
  <2>3. r2.mail = r.mail /\ Ahead(r2) = 0 /\ Ahead(r) = 0
    BY <1>1, <1>8 DEF Close, Goto, At, Relay, Ahead
  <2> HIDE DEF r, r2, regs, regs2
  <2> QED
    BY <1>1, <1>3, <2>2, <2>3
<1>9. CASE Register(s)
  <2>1. regs = {}
    BY <1>9 DEF Register, RegisteredAs, At, TypesInv, RegistryFollowsSockets
  <2>2. regs2 = {<<s, r.account>>}
    BY <1>9, <2>1 DEF Register, RegisteredAs
  <2>3. r2.mail = r.mail /\ Ahead(r2) = 1 /\ Ahead(r) = 2
    BY <1>1, <1>9 DEF Register, Goto, At, Relay, Ahead
  <2>4. IsFiniteSet(regs2) /\ Cardinality(regs2) = 1
    BY <2>2, FS_Singleton
  <2> HIDE DEF r, r2, regs, regs2
  <2> QED
    BY <1>1, <1>3, <2>3, <2>4
<1>10. CASE MoveSocket(s)
  <2>1. \A e \in regs : e = <<s, r.previous>>
    BY <1>10 DEF MoveSocket, RegisteredAs, At, TypesInv, AccountTypes, RegistryFollowsSockets
  <2>2. regs2 = {<<s, r.account>>}
    BY <1>10, <2>1 DEF MoveSocket, RegisteredAs
  <2>3. r2.mail = r.mail /\ Ahead(r2) = 0 /\ Ahead(r) = 1
    BY <1>1, <1>10 DEF MoveSocket, Goto, At, Relay, Ahead
  <2>4. IsFiniteSet(regs2) /\ Cardinality(regs2) = 1
    BY <2>2, FS_Singleton
  <2> HIDE DEF r, r2, regs, regs2
  <2> QED
    BY <1>1, <1>3, <2>3, <2>4
<1> QED
  BY <1>5, <1>6, <1>7, <1>8, <1>9, <1>10 DEF Progress

(* An invalidation turns a registration of s into a callback.              *)
LEMMA InvalidateRoom ==
  ASSUME TypesInv, NEW s \in Sockets, RoomFor(s), NEW a \in Accounts, Invalidate(a)
  PROVE  RoomFor(s)'
<1> DEFINE regs == RegisteredAs(s)
           calls == CallbacksTo(s)
<1>1. /\ Ahead(relay[s]) \in Nat /\ Len(relay[s].mail) \in Nat
      /\ Cardinality(regs) \in Nat /\ Cardinality(calls) \in Nat
      /\ IsFiniteSet(regs) /\ IsFiniteSet(calls) /\ UNCHANGED relay
  BY RoomTypes DEF RoomFor, Invalidate
<1>2. RegisteredAs(s)' = regs \ {<<s, a>>}
  BY DEF Invalidate, SocketsOn, RegisteredAs, TypesInv, AccountTypes
<1>3. CallbacksTo(s)' = IF <<s, a>> \in regs THEN calls \cup {<<s, a>>} ELSE calls
  BY DEF Invalidate, SocketsOn, RegisteredAs, CallbacksTo, TypesInv, AccountTypes
<1> HIDE DEF regs, calls
<1>4. /\ IsFiniteSet(regs \ {<<s, a>>})
      /\ Cardinality(regs \ {<<s, a>>}) = IF <<s, a>> \in regs THEN Cardinality(regs) - 1
                                           ELSE Cardinality(regs)
  BY <1>1, FS_RemoveElement
<1>5. /\ IsFiniteSet(calls \cup {<<s, a>>})
      /\ Cardinality(calls \cup {<<s, a>>}) = IF <<s, a>> \in calls THEN Cardinality(calls)
                                               ELSE Cardinality(calls) + 1
  BY <1>1, FS_AddElement
<1>6. Ahead(relay[s]) + Cardinality(regs) + Cardinality(calls) + Len(relay[s].mail) <= 2
  BY DEF RoomFor, regs, calls
<1> QED
  BY <1>1, <1>2, <1>3, <1>4, <1>5, <1>6 DEF RoomFor

(* A delivery turns a callback into a message, or drops it.                *)
LEMMA DeliverRoom ==
  ASSUME TypesInv, NEW s \in Sockets, RoomFor(s), NEW a \in Accounts, Deliver(s, a)
  PROVE  RoomFor(s)'
<1> DEFINE calls == CallbacksTo(s)
<1>1. /\ relay[s] \in Relay /\ relay \in [Sockets -> Relay]
      /\ Ahead(relay[s]) \in Nat /\ Len(relay[s].mail) \in Nat
      /\ Cardinality(RegisteredAs(s)) \in Nat /\ Cardinality(calls) \in Nat
      /\ IsFiniteSet(RegisteredAs(s)) /\ IsFiniteSet(calls)
  BY RoomTypes DEF RoomFor
<1>2. RegisteredAs(s)' = RegisteredAs(s)
  BY DEF Deliver, RegisteredAs
<1>3. CallbacksTo(s)' = calls \ {<<s, a>>} /\ <<s, a>> \in calls
  BY DEF Deliver, CallbacksTo
<1>4. /\ IsFiniteSet(calls \ {<<s, a>>})
      /\ Cardinality(calls \ {<<s, a>>}) = Cardinality(calls) - 1
  BY <1>1, <1>3, FS_RemoveElement
<1>5. /\ Ahead(relay'[s]) = Ahead(relay[s])
      /\ Len(relay'[s].mail) \in {Len(relay[s].mail), Len(relay[s].mail) + 1}
  <2>1. CASE UNCHANGED relay
    BY <2>1
  <2>2. CASE relay' = [relay EXCEPT ![s].mail = Append(@, a)]
    BY <1>1, <2>2 DEF Relay, Ahead
  <2> QED
    BY <2>1, <2>2 DEF Deliver
<1>6. Ahead(relay[s]) + Cardinality(RegisteredAs(s)) + Cardinality(calls)
          + Len(relay[s].mail) <= 2
  BY DEF RoomFor
<1> HIDE DEF calls
<1>7. Ahead(relay'[s]) + Cardinality(RegisteredAs(s)) + Cardinality(calls \ {<<s, a>>})
          + Len(relay'[s].mail) <= 2
  <2> DEFINE ahead == Ahead(relay[s])
             rs == Cardinality(RegisteredAs(s))
             cs == Cardinality(calls)
             n == Len(relay[s].mail)
             m == Len(relay'[s].mail)
  <2>1. /\ ahead \in Nat /\ rs \in Nat /\ cs \in Nat /\ n \in Nat /\ m \in {n, n + 1}
        /\ ahead + rs + cs + n <= 2
    BY <1>1, <1>5, <1>6
  <2> HIDE DEF ahead, rs, cs, n, m
  <2>2. ahead + rs + (cs - 1) + m <= 2
    BY <2>1
  <2> QED
    BY <1>4, <1>5, <2>2 DEF ahead, rs, cs, m
<1> QED
  BY <1>1, <1>2, <1>3, <1>4, <1>7 DEF RoomFor

LEMMA NextRoom ==
  ASSUME TypesInv, RoomInv, [Next]_vars
  PROVE  RoomInv'
<1> SUFFICES ASSUME NEW s \in Sockets PROVE RoomFor(s)'
  BY DEF RoomInv
<1>0. RoomFor(s)
  BY DEF RoomInv
<1>1. ASSUME relay'[s] = relay[s], RegisteredAs(s)' = RegisteredAs(s),
             CallbacksTo(s)' = CallbacksTo(s)
      PROVE  RoomFor(s)'
  BY <1>0, <1>1 DEF RoomFor
<1>2. CASE (\E a \in Accounts : Writes(a) \/ RefreshPublish(a)) \/ Poll \/ UNCHANGED vars
  <2>1. UNCHANGED <<byAccount, callbacks, relay>>
    BY <1>2 DEF Writes, EditStored, AdminSet, RefreshPersist, RefreshPublish, Poll, vars,
       invalidationVars
  <2> QED
    BY <1>1, <2>1 DEF RegisteredAs, CallbacksTo
<1>3. CASE \E a \in Accounts : Invalidate(a)
  BY <1>0, <1>3, InvalidateRoom
<1>4. CASE Client(s) \/ Progress(s)
  BY <1>0, <1>4, OwnRoom
<1>5. CASE \E t \in Sockets \ {s} : Client(t) \/ Progress(t)
  <2> PICK t \in Sockets \ {s} : Client(t) \/ Progress(t)
    BY <1>5
  <2>1. /\ relay'[s] = relay[s] /\ UNCHANGED callbacks
        /\ \A e \in byAccount' : e \in byAccount \/ e = <<t, relay[t].account>>
        /\ \A e \in byAccount : e[1] # t => e \in byAccount'
    BY OthersStay
  <2>2. RegisteredAs(s)' = RegisteredAs(s)
    BY <2>1 DEF RegisteredAs
  <2> QED
    BY <1>1, <2>1, <2>2 DEF CallbacksTo
<1>6. CASE \E a \in Accounts : Deliver(s, a)
  BY <1>0, <1>6, DeliverRoom
<1>7. CASE \E t \in Sockets \ {s}, a \in Accounts : Deliver(t, a)
  <2> PICK t \in Sockets \ {s}, a \in Accounts : Deliver(t, a)
    BY <1>7
  <2>1. relay'[s] = relay[s] /\ UNCHANGED byAccount
    BY DEF Deliver, TypesInv, RelayTypes
  <2>2. CallbacksTo(s)' = CallbacksTo(s)
    BY DEF Deliver, CallbacksTo
  <2> QED
    BY <1>1, <2>1, <2>2 DEF RegisteredAs
<1> QED
  BY <1>2, <1>3, <1>4, <1>5, <1>6, <1>7 DEF Next

(* The callback of an invalidation never waits for a relay: with room for  *)
(* two messages (the code has four) no mailbox is ever full while a        *)
(* callback is on its way, for any number of accounts and sockets.         *)
THEOREM DeliveriesPass ==
  ASSUME Mailbox >= 2
  PROVE  Spec => []DeliveryNeverBlocks
<1>1. Init => RoomInv
  <2> SUFFICES ASSUME Init, NEW s \in Sockets PROVE RoomFor(s)
    BY DEF RoomInv
  <2>1. RegisteredAs(s) = {} /\ CallbacksTo(s) = {}
    BY DEF Init, RegisteredAs, CallbacksTo
  <2>2. Ahead(relay[s]) = 2 /\ Len(relay[s].mail) = 0
    BY DEF Init, Ahead
  <2> QED
    BY <2>1, <2>2, FS_EmptySet DEF RoomFor
<1>2. TypesInv /\ RoomInv /\ [Next]_vars => RoomInv'
  BY NextRoom
<1>3. ASSUME TypesInv, RoomInv, NEW e \in callbacks
      PROVE  Len(relay[e[1]].mail) < Mailbox
  <2> DEFINE s == e[1]
             calls == CallbacksTo(s)
  <2>1. s \in Sockets /\ RoomFor(s)
    BY <1>3 DEF TypesInv, AccountTypes, RoomInv
  <2>2. e \in calls /\ IsFiniteSet(calls)
    BY <2>1 DEF CallbacksTo, RoomFor
  <2> HIDE DEF s, calls
  <2>3. Cardinality(calls) \in Nat /\ Cardinality(calls) # 0
    BY <2>2, FS_EmptySet, FS_CardinalityType
  <2>4. /\ Ahead(relay[s]) \in Nat /\ Len(relay[s].mail) \in Nat
        /\ Cardinality(RegisteredAs(s)) \in Nat
    BY <1>3, <2>1, RoomTypes
  <2>5. Len(relay[s].mail) <= 1
    BY <2>1, <2>3, <2>4 DEF RoomFor, calls
  <2> QED
    BY <2>4, <2>5, LifecycleAssumption DEF s
<1>4. TypesInv /\ RoomInv => DeliveryNeverBlocks
  BY <1>3 DEF DeliveryNeverBlocks
<1> QED
  BY <1>1, <1>2, <1>4, TypesHold, PTL DEF Spec
=============================================================================
