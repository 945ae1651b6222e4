------------------------- MODULE HousekeepingProofs --------------------------
(***************************************************************************)
(* Theorems about four of the parts around the request path, and about all *)
(* eight together, for any value of their constants.                       *)
(*   Settings: a relay that works under another mode than the policy's is  *)
(*     told, and at rest the policy is the row.                            *)
(*   AccountLogin: one code is polled, and "completed" speaks of the last  *)
(*     login.                                                              *)
(*   ModelCatalog: nothing that a client discovered is withdrawn, and      *)
(*     lists that are behind are asked for again soon.                     *)
(*   AccountRanking: one pass over the accounts, in any order, finds what  *)
(*     the rule of the ranking names.                                      *)
(*   MCHousekeeping: what holds of each part alone holds of the whole.     *)
(***************************************************************************)
EXTENDS MCHousekeeping, LogRotationProofs, StatisticsProofs

-----------------------------------------------------------------------------
(* Settings.                                                               *)

Changed(x, y) == IF x = y THEN 0 ELSE 1

(* The channels that the writes so far have replaced, or still may.        *)
Channels ==
    policy.channel + (IF watcher.step = "apply"
                      THEN Changed(policy.mode, watcher.mode) + Changed(watcher.mode, row)
                      ELSE IF admin.step = "apply"
                      THEN Changed(policy.mode, admin.mode) + Changed(admin.mode, row)
                      ELSE Changed(policy.mode, row))

SettingsTypes ==
    /\ row \in Modes
    /\ policy \in [mode: Modes, channel: Nat]
    /\ watcher \in WorkerType
    /\ admin \in WorkerType
    /\ relay \in [Relays -> [step: {"none", "setup", "loop"}, mode: Modes, channel: Nat]]
    /\ writes \in 0..MaxWrites
    /\ unseen \in BOOLEAN

(* settingsMu                                                              *)
OneWorker == watcher.step = "idle" \/ admin.step = "idle"

(* What the worker will apply is the row, unless the command was faster.   *)
WorkerKnows ==
    ~unseen => /\ watcher.step = "apply" => watcher.mode = row
               /\ admin.step = "apply" => admin.mode = row
               /\ watcher.step # "apply" /\ admin.step # "apply" => policy.mode = row

(* A relay never captured a channel that is yet to come.                   *)
RelayKnows ==
    \A r \in Relays : /\ relay[r].channel <= policy.channel
                      /\ relay[r].step # "none" /\ relay[r].channel = policy.channel
                           => relay[r].mode = policy.mode

SettingsIInv == SettingsTypes /\ OneWorker /\ WorkerKnows /\ RelayKnows /\ Channels <= writes

LEMMA SettingsInitInv == SettingsInit => SettingsIInv
<1> SUFFICES ASSUME SettingsInit PROVE SettingsIInv
  OBVIOUS
<1> USE SettingsAssumption DEF SettingsInit
<1>1. SettingsTypes
  <2>1. NoRelay \in [step: {"none", "setup", "loop"}, mode: Modes, channel: Nat]
    BY DEF NoRelay
  <2>2. watcher \in WorkerType /\ admin \in WorkerType /\ policy \in [mode: Modes, channel: Nat]
    BY DEF WorkerType
  <2>3. writes \in 0..MaxWrites
    OBVIOUS
  <2>4. unseen \in BOOLEAN
    OBVIOUS
  <2> QED
    BY <2>1, <2>2, <2>3, <2>4 DEF SettingsTypes
<1>2. RelayKnows
  BY DEF RelayKnows, NoRelay
<1>3. WorkerKnows /\ OneWorker
  BY DEF WorkerKnows, OneWorker
<1>4. Channels = 0
  BY DEF Channels, Changed
<1> QED
  BY <1>1, <1>2, <1>3, <1>4 DEF SettingsIInv

(* What fastModePolicy.set leaves behind: every relay under another mode   *)
(* has a channel that is closed.                                           *)
LEMMA SetStep ==
  ASSUME SettingsTypes, RelayKnows, NEW mode \in Modes, SetPolicy(mode), UNCHANGED relay
  PROVE  /\ policy' \in [mode: Modes, channel: Nat]
         /\ policy'.mode = mode
         /\ policy'.channel = policy.channel + Changed(policy.mode, mode)
         /\ RelayKnows'
<1>1. /\ policy' \in [mode: Modes, channel: Nat]
      /\ policy'.mode = mode
      /\ policy'.channel = policy.channel + Changed(policy.mode, mode)
  BY DEF SetPolicy, SettingsTypes, Changed
<1>2. policy \in [mode: Modes, channel: Nat] /\ \A r \in Relays : relay[r].channel \in Nat
  BY DEF SettingsTypes
<1>3. RelayKnows'
  BY <1>1, <1>2 DEF RelayKnows, Changed
<1> QED
  BY <1>1, <1>3

(* The command, the watcher's poll and the admin page.                     *)
LEMMA WorkerStep ==
  ASSUME SettingsIInv,
         \/ \E mode \in Modes : CommandWrites(mode) \/ BeginSave(mode)
         \/ ReloadSettings \/ ReadFails \/ SaveFastMode
  PROVE  SettingsIInv'
<1> USE DEF SettingsIInv, OneWorker, WorkerType, LockSettings
<1>0. SettingsTypes /\ RelayKnows /\ policy.channel \in Nat /\ writes \in Nat
  BY DEF SettingsTypes
<1>1. CASE \E mode \in Modes : CommandWrites(mode)
  <2>1. SettingsTypes' /\ RelayKnows' /\ OneWorker'
    BY <1>0, <1>1, SettingsAssumption DEF CommandWrites, SettingsTypes, RelayKnows
  <2> QED
    BY <1>0, <1>1, <2>1 DEF CommandWrites, WorkerKnows, Channels, Changed
<1>2. CASE (\E mode \in Modes : BeginSave(mode)) \/ BeginReload \/ ReadFails \/ WriteFails
  <2>1. SettingsTypes' /\ OneWorker'
    BY <1>0, <1>2 DEF BeginSave, BeginReload, ReadFails, WriteFails, SettingsMuFree, SettingsTypes
  <2>2. /\ UNCHANGED <<row, policy, relay, writes, unseen>>
        /\ watcher.step # "apply" /\ admin.step # "apply"
        /\ watcher'.step # "apply" /\ admin'.step # "apply"
    BY <1>0, <1>2 DEF BeginSave, BeginReload, ReadFails, WriteFails, SettingsMuFree, SettingsTypes
  <2> QED
    BY <1>0, <2>1, <2>2 DEF WorkerKnows, RelayKnows, Channels
<1>3. CASE ReadRow
  <2>1. SettingsTypes' /\ OneWorker' /\ RelayKnows'
    BY <1>0, <1>3 DEF ReadRow, SettingsTypes, RelayKnows
  <2>2. watcher'.step = "apply" /\ watcher'.mode = row /\ watcher.step # "apply" /\ admin.step = "idle"
    BY <1>3 DEF ReadRow
  <2> QED
    BY <1>0, <1>3, <2>1, <2>2 DEF ReadRow, WorkerKnows, Channels, Changed
<1>4. CASE WriteRow
  <2>a. unseen' \in BOOLEAN
    BY <1>4 DEF WriteRow
  <2>0. /\ writes' \in 0..MaxWrites /\ row' \in Modes
        /\ admin' \in WorkerType /\ watcher.step = "idle"
        /\ UNCHANGED <<policy, watcher, relay>>
    BY <1>0, <1>4, SettingsAssumption DEF WriteRow, SettingsTypes
  <2>1. SettingsTypes' /\ OneWorker' /\ RelayKnows'
    BY <1>0, <2>a, <2>0 DEF SettingsTypes, RelayKnows
  <2>2. admin'.step = "apply" /\ admin'.mode = row' /\ admin.step # "apply" /\ watcher.step = "idle"
    BY <1>0, <1>4 DEF WriteRow, SettingsTypes
  <2> QED
    BY <1>0, <1>4, <2>1, <2>2 DEF WriteRow, WorkerKnows, Channels, Changed
<1>5. CASE ApplyReload
  <2>1. /\ watcher.mode \in Modes /\ SetPolicy(watcher.mode)
        /\ watcher.step = "apply" /\ admin.step = "idle"
        /\ watcher' = [watcher EXCEPT !.step = "idle"] /\ watcher'.step = "idle"
        /\ UNCHANGED <<row, admin, relay, writes, unseen>>
    BY <1>0, <1>5 DEF ApplyReload, SettingsTypes
  <2>2. /\ policy' \in [mode: Modes, channel: Nat] /\ policy'.mode = watcher.mode
        /\ policy'.channel = policy.channel + Changed(policy.mode, watcher.mode)
        /\ RelayKnows'
    BY <1>0, <2>1, SetStep
  <2>3. SettingsTypes' /\ OneWorker'
    BY <1>0, <2>1, <2>2 DEF SettingsTypes
  <2> QED
    BY <1>0, <2>1, <2>2, <2>3 DEF WorkerKnows, Channels, Changed
<1>6. CASE ApplySave
  <2>1. /\ admin.mode \in Modes /\ SetPolicy(admin.mode)
        /\ admin.step = "apply" /\ watcher.step = "idle"
        /\ admin' = [admin EXCEPT !.step = "idle"] /\ admin'.step = "idle"
        /\ UNCHANGED <<row, watcher, relay, writes, unseen>>
    BY <1>0, <1>6 DEF ApplySave, SettingsTypes
  <2>2. /\ policy' \in [mode: Modes, channel: Nat] /\ policy'.mode = admin.mode
        /\ policy'.channel = policy.channel + Changed(policy.mode, admin.mode)
        /\ RelayKnows'
    BY <1>0, <2>1, SetStep
  <2>3. SettingsTypes' /\ OneWorker'
    BY <1>0, <2>1, <2>2 DEF SettingsTypes
  <2> QED
    BY <1>0, <2>1, <2>2, <2>3 DEF WorkerKnows, Channels, Changed
<1> QED
  BY <1>1, <1>2, <1>3, <1>4, <1>5, <1>6 DEF ReloadSettings, SaveFastMode

(* A relay captures mode and channel together.                             *)
LEMMA RelayStep ==
  ASSUME SettingsIInv, NEW r \in Relays,
         CapturePolicy(r) \/ EnterLoop(r) \/ RestartRelay(r) \/ RelayEnds(r)
  PROVE  SettingsIInv'
<1>0. SettingsTypes /\ RelayKnows /\ policy.mode \in Modes /\ policy.channel \in Nat /\ relay[r].channel \in Nat
  BY DEF SettingsIInv, SettingsTypes
<1>1. UNCHANGED <<row, policy, watcher, admin, writes, unseen>>
  BY DEF CapturePolicy, EnterLoop, RestartRelay, RelayEnds
<1>2. PICK x \in [step: {"none", "setup", "loop"}, mode: Modes, channel: Nat] :
        /\ relay' = [relay EXCEPT ![r] = x]
        /\ x.channel <= policy.channel
        /\ x.step # "none" /\ x.channel = policy.channel => x.mode = policy.mode
  <2>1. CASE CapturePolicy(r)
    <3> DEFINE x == [step |-> "setup", mode |-> policy.mode, channel |-> policy.channel]
    <3>1. /\ x \in [step: {"none", "setup", "loop"}, mode: Modes, channel: Nat]
          /\ x.channel = policy.channel /\ x.mode = policy.mode
          /\ relay' = [relay EXCEPT ![r] = x]
      BY <1>0, <2>1 DEF CapturePolicy
    <3>2. x.channel <= policy.channel
      BY <1>0
    <3> HIDE DEF x
    <3> QED
      BY <3>1, <3>2
  <2>2. CASE EnterLoop(r)
    <3> DEFINE x == [relay[r] EXCEPT !.step = "loop"]
    <3>1. /\ x \in [step: {"none", "setup", "loop"}, mode: Modes, channel: Nat]
          /\ x.channel = relay[r].channel /\ x.mode = relay[r].mode /\ relay[r].step # "none"
          /\ relay' = [relay EXCEPT ![r] = x]
      BY <1>0, <2>2 DEF EnterLoop, SettingsTypes
    <3>2. /\ relay[r].channel <= policy.channel
          /\ relay[r].channel = policy.channel => relay[r].mode = policy.mode
      BY <1>0, <3>1 DEF RelayKnows
    <3> HIDE DEF x
    <3> QED
      BY <3>1, <3>2
  <2>3. CASE RestartRelay(r) \/ RelayEnds(r)
    <3>1. /\ NoRelay \in [step: {"none", "setup", "loop"}, mode: Modes, channel: Nat]
          /\ NoRelay.channel = 0 /\ NoRelay.step = "none"
      BY SettingsAssumption DEF NoRelay
    <3> QED
      BY <1>0, <2>3, <3>1 DEF RestartRelay, RelayEnds
  <2> QED
    BY <2>1, <2>2, <2>3
<1>3. SettingsTypes' /\ \A q \in Relays : relay'[q] = IF q = r THEN x ELSE relay[q]
  BY <1>0, <1>1, <1>2 DEF SettingsTypes
<1>4. RelayKnows'
  BY <1>0, <1>1, <1>2, <1>3 DEF RelayKnows
<1> QED
  BY <1>1, <1>3, <1>4 DEF SettingsIInv, OneWorker, WorkerKnows, Channels

LEMMA SettingsStepInv == ASSUME SettingsIInv, [SettingsNext]_settingsVars PROVE SettingsIInv'
<1>1. CASE UNCHANGED settingsVars
  BY <1>1 DEF settingsVars, SettingsIInv, SettingsTypes, OneWorker, WorkerKnows, RelayKnows, Channels
<1> QED
  BY <1>1, WorkerStep, RelayStep DEF SettingsNext

THEOREM SettingsInductive == SettingsSpec => []SettingsIInv
<1>1. SettingsIInv /\ [SettingsNext]_settingsVars => SettingsIInv'
  BY SettingsStepInv
<1> QED
  BY SettingsInitInv, <1>1, PTL DEF SettingsSpec

LEMMA SettingsTypesFollow == SettingsIInv => SettingsTypeOK
<1>1. ASSUME SettingsIInv PROVE SettingsTypeOK
  <2>1. policy.channel \in 0..MaxWrites
    BY <1>1, SettingsAssumption DEF SettingsIInv, SettingsTypes, Channels, Changed
  <2>2. policy \in [mode: Modes, channel: 0..MaxWrites]
    BY <1>1, <2>1 DEF SettingsIInv, SettingsTypes
  <2>3. \A r \in Relays : relay[r].channel \in 0..MaxWrites
    BY <1>1, <2>1, SettingsAssumption DEF SettingsIInv, SettingsTypes, RelayKnows
  <2>4. \A r \in Relays : relay[r] \in RelayType
    BY <1>1, <2>3 DEF SettingsIInv, SettingsTypes, RelayType
  <2> QED
    BY <1>1, <2>2, <2>4 DEF SettingsIInv, SettingsTypes, SettingsTypeOK
<1> QED
  BY <1>1

(* SettingsTypes; no more channels are closed than the row was written.    *)
THEOREM SettingsTypesHold == SettingsSpec => []SettingsTypeOK
  BY SettingsTypesFollow, SettingsInductive, PTL

(* A relay that works under another mode than the policy's is told.        *)
THEOREM StaleRelayIsToldHolds == SettingsSpec => []StaleRelayIsTold
<1>1. SettingsIInv => StaleRelayIsTold
  BY DEF SettingsIInv, RelayKnows, StaleRelayIsTold, ChannelClosed
<1> QED
  BY <1>1, SettingsInductive, PTL

(* At rest the policy is the row, whatever overlapped.                     *)
THEOREM PolicyFollowsRowHolds == SettingsSpec => []PolicyFollowsRow
<1>1. SettingsIInv => PolicyFollowsRow
  BY DEF SettingsIInv, WorkerKnows, PolicyFollowsRow, SettingsMuFree
<1> QED
  BY <1>1, SettingsInductive, PTL

(* From the row to the relays no change is lost.                           *)
THEOREM ChangesArriveHolds == SettingsSpec => []ChangesArrive
  BY StaleRelayIsToldHolds, PolicyFollowsRowHolds, PTL DEF ChangesArrive

-----------------------------------------------------------------------------
(* AccountLogin.                                                           *)

Creates(p) == page[p].step = "render" /\ page[p].created

(* The page that created the active login has not started its poller.      *)
CreatorOwns ==
    /\ \A p \in Pages : Creates(p) => /\ logins.active = page[p].login
                                      /\ poller[page[p].login] = "none"
    /\ \A p, q \in Pages : Creates(p) /\ Creates(q) => p = q

(* The store speaks of the last login that the issuer granted.             *)
LastLogin ==
    /\ logins.active # NoLogin => logins.active = granted
    /\ granted <= MaxLogins
    /\ \A n \in Logins : poller[n] # "none" => n <= granted

Outcome ==
    /\ logins.completed => granted \in added /\ logins.active = NoLogin
    /\ \A n \in Logins : poller[n] = "added" => n \in added

LoginIInv == LoginTypeOK /\ OneCodeIsPolled /\ CreatorOwns /\ LastLogin /\ Outcome

(* Logins are numbered from one.                                           *)
LEMMA NotALogin == NoLogin \notin Logins /\ \A n \in Logins : n \in Nat
  BY LoginAssumption DEF NoLogin, Logins

LEMMA LoginInitInv == LoginInit => LoginIInv
  BY NotALogin, LoginAssumption
  DEF LoginInit, LoginIInv, LoginTypeOK, LoginStep, OneCodeIsPolled, CreatorOwns, Creates, LastLogin,
      Outcome, NoPage, NoLogin, Logins

(* A handler of the accounts page.                                         *)
LEMMA LoginPageStep ==
  ASSUME LoginIInv, NEW p \in Pages,
         JoinLogin(p) \/ CreateLogin(p) \/ PageShown(p) \/ PageFails(p)
  PROVE  LoginIInv'
<1> USE NotALogin
<1>1. CASE JoinLogin(p)
  <2> DEFINE shown == [step |-> "render", login |-> logins.active, created |-> FALSE]
  <2>1. /\ page' = [page EXCEPT ![p] = shown]
        /\ shown \in [step: {"render"}, login: Logins, created: BOOLEAN]
        /\ UNCHANGED <<logins, poller, granted, added>>
    BY <1>1 DEF JoinLogin, ShowLogin, LoginIInv, LoginTypeOK
  <2>2. LoginTypeOK'
    BY <2>1 DEF LoginIInv, LoginTypeOK
  <2>3. \A q \in Pages : Creates(q)' => Creates(q) /\ page'[q] = page[q]
    BY <2>1 DEF Creates, LoginIInv, LoginTypeOK
  <2> QED
    BY <2>1, <2>2, <2>3 DEF LoginIInv, OneCodeIsPolled, CreatorOwns, LastLogin, Outcome
<1>2. CASE CreateLogin(p)
  <2> DEFINE n == granted + 1
             shown == [step |-> "render", login |-> n, created |-> TRUE]
  <2>1. n \in Logins /\ n \in Nat
    BY <1>2, LoginAssumption DEF CreateLogin, Logins, LoginIInv, LoginTypeOK
  <2>2. /\ page' = [page EXCEPT ![p] = shown]
        /\ shown \in [step: {"render"}, login: Logins, created: BOOLEAN]
        /\ logins' = [active |-> n, completed |-> FALSE]
        /\ granted' = n /\ granted \in Nat
        /\ UNCHANGED <<poller, added>>
    BY <1>2, <2>1 DEF CreateLogin, ShowLogin, LoginIInv, LoginTypeOK
  <2>3. LoginTypeOK'
    BY <2>1, <2>2 DEF LoginIInv, LoginTypeOK
  <2>4. poller[n] = "none" /\ logins.active = NoLogin /\ n <= MaxLogins
    BY <1>2, <2>1, <2>2 DEF CreateLogin, LoginIInv, LastLogin, Logins
  <2>5. \A m \in Logins : poller[m] \in {"none", "ended"}
    BY <2>4 DEF LoginIInv, OneCodeIsPolled
  <2>6. \A q \in Pages : Creates(q)' => q = p
    BY <2>2, <2>4 DEF Creates, LoginIInv, CreatorOwns, LoginTypeOK, NoPage
  <2>7. page'[p] = shown
    BY <2>2 DEF LoginIInv, LoginTypeOK
  <2>8. OneCodeIsPolled' /\ CreatorOwns'
    BY <2>2, <2>4, <2>5, <2>6, <2>7 DEF OneCodeIsPolled, CreatorOwns
  <2>9. LastLogin' /\ Outcome'
    BY <2>2, <2>4, <2>5 DEF LoginIInv, LastLogin, Outcome
  <2> QED
    BY <2>3, <2>8, <2>9 DEF LoginIInv
<1>3. CASE PageShown(p)
  <2> DEFINE n == page[p].login
  <2>1. /\ n \in Logins /\ page[p].step = "render"
        /\ page' = [page EXCEPT ![p] = NoPage]
        /\ UNCHANGED <<logins, granted, added>>
    BY <1>3 DEF PageShown, LoginIInv, LoginTypeOK, NoPage
  <2>2. \A q \in Pages : Creates(q)' => q # p /\ Creates(q) /\ page'[q] = page[q]
    BY <2>1 DEF Creates, LoginIInv, LoginTypeOK, NoPage
  <2>3. CASE page[p].created
    <3>1. poller' = [poller EXCEPT ![n] = "polling"] /\ logins.active = n /\ Creates(p)
      BY <1>3, <2>1, <2>3 DEF PageShown, LoginIInv, CreatorOwns, Creates
    <3>2. LoginTypeOK'
      BY <2>1, <3>1 DEF LoginIInv, LoginTypeOK, LoginStep
    <3>3. \A m \in Logins : poller'[m] = IF m = n THEN "polling" ELSE poller[m]
      BY <3>1 DEF LoginIInv, LoginTypeOK
    <3>4. \A q \in Pages : ~Creates(q)'
      BY <2>2, <3>1 DEF LoginIInv, CreatorOwns
    <3> QED
      BY <2>1, <3>1, <3>2, <3>3, <3>4
         DEF LoginIInv, OneCodeIsPolled, CreatorOwns, LastLogin, Outcome, LoginTypeOK
  <2>4. CASE ~page[p].created
    <3>1. UNCHANGED poller
      BY <1>3, <2>4 DEF PageShown
    <3>2. LoginTypeOK'
      BY <2>1, <3>1 DEF LoginIInv, LoginTypeOK
    <3> QED
      BY <2>1, <2>2, <3>1, <3>2 DEF LoginIInv, OneCodeIsPolled, CreatorOwns, LastLogin, Outcome
  <2> QED
    BY <2>3, <2>4
<1>4. CASE PageFails(p)
  <2>1. /\ page[p].step = "render"
        /\ page' = [page EXCEPT ![p] = NoPage]
        /\ UNCHANGED <<poller, granted, added>>
        /\ logins' = IF page[p].created /\ logins.active = page[p].login
                     THEN [logins EXCEPT !.active = NoLogin] ELSE logins
    BY <1>4 DEF PageFails
  <2>2. \A q \in Pages : Creates(q)' => q # p /\ Creates(q) /\ page'[q] = page[q]
    BY <2>1 DEF Creates, LoginIInv, LoginTypeOK, NoPage
  <2>3. LoginTypeOK'
    BY <2>1 DEF LoginIInv, LoginTypeOK
  <2>4. CASE Creates(p)
    <3>1. logins' = [logins EXCEPT !.active = NoLogin] /\ poller[logins.active] = "none"
      BY <2>1, <2>4 DEF LoginIInv, CreatorOwns, Creates
    <3>2. logins'.active = NoLogin /\ logins'.completed = logins.completed
      BY <3>1 DEF LoginIInv, LoginTypeOK
    <3>3. \A m \in Logins : poller[m] \in {"none", "ended"}
      BY <3>1 DEF LoginIInv, OneCodeIsPolled
    <3>4. \A q \in Pages : ~Creates(q)'
      BY <2>2, <2>4 DEF LoginIInv, CreatorOwns
    <3> QED
      BY <2>1, <2>3, <3>2, <3>3, <3>4 DEF LoginIInv, OneCodeIsPolled, CreatorOwns, LastLogin, Outcome
  <2>5. CASE ~Creates(p)
    <3>1. UNCHANGED logins
      BY <2>1, <2>5 DEF Creates
    <3> QED
      BY <2>1, <2>2, <2>3, <3>1 DEF LoginIInv, OneCodeIsPolled, CreatorOwns, LastLogin, Outcome
  <2> QED
    BY <2>4, <2>5
<1> QED
  BY <1>1, <1>2, <1>3, <1>4

(* The goroutine of the login that is active.                              *)
LEMMA LoginPollerStep ==
  ASSUME LoginIInv, NEW n \in Logins, RunPoller(n) \/ FinishLogin(n)
  PROVE  LoginIInv'
<1> USE NotALogin
<1>1. /\ poller[n] \notin {"none", "ended"} /\ logins.active = n
      /\ UNCHANGED <<page, granted>>
      /\ \A p \in Pages : ~Creates(p) /\ ~Creates(p)'
  BY DEF RunPoller, PollAuthorization, ExchangeCode, AddAccount, LoginFails, Advance, FinishLogin,
     LoginIInv, OneCodeIsPolled, CreatorOwns, Creates
<1>2. CASE RunPoller(n)
  <2> PICK to \in {"exchange", "add", "added", "failed"} :
           /\ poller' = [poller EXCEPT ![n] = to]
           /\ UNCHANGED logins
           /\ added' \in {added, added \cup {n}}
           /\ to = "added" => added' = added \cup {n}
    BY <1>2 DEF RunPoller, PollAuthorization, ExchangeCode, AddAccount, LoginFails, Advance
  <2>1. LoginTypeOK'
    BY <1>1 DEF LoginIInv, LoginTypeOK, LoginStep
  <2>2. \A m \in Logins : poller'[m] = IF m = n THEN to ELSE poller[m]
    BY DEF LoginIInv, LoginTypeOK
  <2> QED
    BY <1>1, <2>1, <2>2 DEF LoginIInv, OneCodeIsPolled, CreatorOwns, LastLogin, Outcome
<1>3. CASE FinishLogin(n)
  <2>1. /\ poller' = [poller EXCEPT ![n] = "ended"]
        /\ logins' = [active |-> NoLogin, completed |-> poller[n] = "added"]
        /\ UNCHANGED added
    BY <1>1, <1>3 DEF FinishLogin
  <2>2. LoginTypeOK'
    BY <1>1, <2>1 DEF LoginIInv, LoginTypeOK, LoginStep
  <2>3. \A m \in Logins : poller'[m] = IF m = n THEN "ended" ELSE poller[m]
    BY <2>1 DEF LoginIInv, LoginTypeOK
  <2>4. logins'.active = NoLogin /\ (logins'.completed <=> poller[n] = "added") /\ n = granted
    BY <1>1, <2>1 DEF LoginIInv, LastLogin
  <2> QED
    BY <1>1, <2>1, <2>2, <2>3, <2>4 DEF LoginIInv, OneCodeIsPolled, CreatorOwns, LastLogin, Outcome
<1> QED
  BY <1>2, <1>3

LEMMA LoginStepInv == ASSUME LoginIInv, [LoginNext]_loginVars PROVE LoginIInv'
<1>1. CASE UNCHANGED loginVars
  BY <1>1 DEF loginVars, LoginIInv, LoginTypeOK, OneCodeIsPolled, CreatorOwns, Creates, LastLogin, Outcome
<1> QED
  BY <1>1, LoginPageStep, LoginPollerStep DEF LoginNext

THEOREM LoginInductive == LoginSpec => []LoginIInv
<1>1. LoginIInv /\ [LoginNext]_loginVars => LoginIInv'
  BY LoginStepInv
<1> QED
  BY LoginInitInv, <1>1, PTL DEF LoginSpec

(* Only the code that pages show is polled, by one goroutine.              *)
THEOREM OneCodeIsPolledHolds == LoginSpec => []OneCodeIsPolled
<1>1. LoginIInv => OneCodeIsPolled
  BY DEF LoginIInv
<1> QED
  BY <1>1, LoginInductive, PTL

(* "Completed" means that the last login has added its account.            *)
THEOREM CompletedMeansAddedHolds == LoginSpec => []CompletedMeansAdded
<1>1. LoginIInv => CompletedMeansAdded
  BY DEF LoginIInv, Outcome, CompletedMeansAdded, LoginStatus
<1> QED
  BY <1>1, LoginInductive, PTL

(* Pages, pollers and the pool agree on the login.                         *)
THEOREM LoginIsSharedHolds == LoginSpec => []LoginIsShared
  BY OneCodeIsPolledHolds, CompletedMeansAddedHolds, PTL DEF LoginIsShared

-----------------------------------------------------------------------------
(* ModelCatalog.                                                           *)

Held(r) == refresher[r].step \in {"fetching", "persisting"}

(* refreshMu                                                               *)
OneHolder == \A r, s \in Refreshers : Held(r) /\ Held(s) => r = s

(* What the refresh that holds refreshMu will do to the catalog.           *)
Tasks ==
    \A r \in Refreshers :
        /\ refresher[r].step = "fetching" =>
             /\ refresher[r].version >= catalog.version
             /\ refresher[r].asked \subseteq refresher[r].active
             /\ refresher[r].fresh \subseteq refresher[r].active
        /\ refresher[r].step = "persisting" => refresher[r].version = catalog.version

Newest ==
    /\ kept <= catalog.version
    /\ \A a \in Members : catalog.lists[a] <= catalog.version

CatalogTypes ==
    /\ catalog \in CatalogType
    /\ kept \in Versions
    /\ eligible \subseteq Members
    /\ refresher \in [Refreshers -> RefresherType]

CatalogBounds == changes \in 0..MaxChanges /\ answering \in BOOLEAN

CatalogIInv == CatalogTypes /\ CatalogBounds /\ OneHolder /\ Tasks /\ Newest /\ StaleListsAreRetried

(* Versions are numbers, and nothing is a refresh at rest.                 *)
LEMMA CatalogConstants ==
  /\ Versions \subseteq Nat /\ 0 \in Versions
  /\ 0 \in 0..RefreshInterval /\ RetryInterval \in 0..RefreshInterval
  /\ RefreshInterval \in 0..RefreshInterval
  /\ AtRest \in RefresherType /\ AtRest.step = "idle"
  /\ \A v \in Versions : Emptied(v) \in CatalogType
<1>1. Versions \subseteq Nat /\ 0 \in Versions
  BY CatalogAssumption DEF Versions
<1>2. /\ 0 \in 0..RefreshInterval /\ RetryInterval \in 0..RefreshInterval
      /\ RefreshInterval \in 0..RefreshInterval
  BY CatalogAssumption DEF RetryInterval
<1>3. AtRest \in RefresherType /\ AtRest.step = "idle"
  BY <1>1 DEF AtRest, RefresherType
<1>4. \A v \in Versions : Emptied(v) \in CatalogType
  BY <1>1, <1>2 DEF Emptied, CatalogType
<1> QED
  BY <1>1, <1>2, <1>3, <1>4

LEMMA CatalogInitInv == CatalogInit => CatalogIInv
<1> SUFFICES ASSUME CatalogInit PROVE CatalogIInv
  OBVIOUS
<1> USE DEF CatalogInit
<1>1. CatalogTypes
  BY CatalogConstants DEF CatalogTypes
<1>2. changes \in 0..MaxChanges
  BY CatalogAssumption
<1>3. answering \in BOOLEAN
  OBVIOUS
<1>4. \A r \in Refreshers : refresher[r].step = "idle"
  BY CatalogConstants
<1>5. OneHolder /\ Tasks
  BY <1>4 DEF OneHolder, Held, Tasks
<1>6. Newest /\ StaleListsAreRetried
  BY DEF Newest, StaleListsAreRetried, Emptied
<1> QED
  BY <1>1, <1>2, <1>3, <1>5, <1>6 DEF CatalogIInv, CatalogBounds

-----------------------------------------------------------------------------

(* A refresh that is not in its critical section, or stays in it.          *)
LEMMA TaskStep ==
  ASSUME CatalogIInv, NEW r \in Refreshers, NEW x \in RefresherType,
         refresher' = [refresher EXCEPT ![r] = x],
         x.step \in {"fetching", "persisting"} => \A s \in Refreshers : Held(s) => s = r,
         x.step = "fetching" => /\ x.version >= catalog'.version
                                /\ x.asked \subseteq x.active
                                /\ x.fresh \subseteq x.active,
         x.step = "persisting" => x.version = catalog'.version,
         catalog'.version = catalog.version \/ \A s \in Refreshers : Held(s) => s = r
  PROVE  refresher' \in [Refreshers -> RefresherType] /\ OneHolder' /\ Tasks'
<1>1. \A s \in Refreshers : refresher'[s] = IF s = r THEN x ELSE refresher[s]
  BY DEF CatalogIInv, CatalogTypes
<1>2. OneHolder'
  BY <1>1 DEF CatalogIInv, OneHolder, Held
<1>3. Tasks'
  BY <1>1 DEF CatalogIInv, Tasks, Held
<1> QED
  BY <1>2, <1>3 DEF CatalogIInv, CatalogTypes

(* A refresh that is asked for, by a client, a tick or a change of the     *)
(* pool; the tick and the change touch nextRefresh only.                   *)
LEMMA AskStep ==
  ASSUME CatalogIInv, NEW left \in 0..RefreshInterval, left <= catalog.left,
         catalog' = [catalog EXCEPT !.left = left] \/ UNCHANGED catalog,
         (\E r \in Refreshers, v \in Versions : StartRefresh(r, v)) \/ UNCHANGED refresher,
         eligible' \subseteq Members, UNCHANGED kept
  PROVE  /\ CatalogTypes' /\ OneHolder' /\ Tasks' /\ Newest' /\ StaleListsAreRetried'
         /\ UNCHANGED <<catalog.lists, catalog.version>>
<1>1. catalog \in CatalogType
  BY DEF CatalogIInv, CatalogTypes
<1>2. /\ catalog' \in CatalogType
      /\ catalog'.lists = catalog.lists /\ catalog'.version = catalog.version
      /\ catalog'.active = catalog.active /\ catalog'.left <= catalog.left
      /\ catalog'.left \in Nat /\ catalog.left \in Nat
  BY <1>1, CatalogAssumption DEF CatalogType
<1>3. Newest' /\ StaleListsAreRetried'
  BY <1>2 DEF CatalogIInv, Newest, StaleListsAreRetried, RetryInterval
<1>4. refresher' \in [Refreshers -> RefresherType] /\ OneHolder' /\ Tasks'
  <2>1. CASE UNCHANGED refresher
    BY <1>2, <2>1 DEF CatalogIInv, CatalogTypes, OneHolder, Held, Tasks
  <2>2. CASE \E r \in Refreshers, v \in Versions : StartRefresh(r, v)
    <3> PICK r \in Refreshers, v \in Versions : StartRefresh(r, v)
      BY <2>2
    <3> DEFINE x == [AtRest EXCEPT !.step = "waiting", !.version = v]
    <3>1. x \in RefresherType /\ x.step = "waiting"
      BY CatalogConstants DEF AtRest, RefresherType
    <3>2. refresher' = [refresher EXCEPT ![r] = x]
      BY DEF StartRefresh
    <3> HIDE DEF x
    <3> QED
      BY <1>2, <3>1, <3>2, TaskStep
  <2> QED
    BY <2>1, <2>2
<1> QED
  BY <1>2, <1>3, <1>4 DEF CatalogIInv, CatalogTypes

(* The part of the invariant that bounds the model.                        *)
LEMMA BoundsStep == ASSUME CatalogIInv, CatalogNext PROVE CatalogBounds'
<1>1. changes \in 0..MaxChanges /\ MaxChanges \in Nat
  BY CatalogAssumption DEF CatalogIInv, CatalogBounds
<1>2. answering' \in BOOLEAN
  BY DEF CatalogIInv, CatalogBounds, CatalogNext, ClientAsks, WatchModels, PoolChanges, Refresh, BeginRefresh,
     FetchAccountModels, ReplaceCatalog, PersistVersion, RestartCatalog, UpstreamRecovers
<1>3. UNCHANGED changes \/ (changes < MaxChanges /\ changes' = changes + 1)
  BY DEF CatalogNext, ClientAsks, WatchModels, PoolChanges, Refresh, BeginRefresh,
     FetchAccountModels, ReplaceCatalog, PersistVersion, RestartCatalog, UpstreamRecovers
<1> QED
  BY <1>1, <1>2, <1>3 DEF CatalogBounds

CatalogSafe == CatalogTypes /\ OneHolder /\ Tasks /\ Newest /\ StaleListsAreRetried

Withdrawn == ~( /\ kept' >= kept
                /\ changes' = changes =>
                     \A a \in Members : a \in catalog'.active => catalog'.lists[a] >= catalog.lists[a])

LEMMA NumbersOf ==
  ASSUME CatalogTypes
  PROVE  /\ kept \in Nat /\ catalog.version \in Nat /\ catalog.version \in Versions
         /\ catalog.left \in 0..RefreshInterval /\ catalog.left \in Nat
         /\ catalog.active \subseteq Members
         /\ \A a \in Members : catalog.lists[a] \in Nat /\ catalog.lists[a] \in Versions
<1>1. /\ kept \in Versions /\ catalog.version \in Versions /\ catalog.left \in 0..RefreshInterval
      /\ catalog.active \subseteq Members /\ catalog.lists \in [Members -> Versions]
  BY DEF CatalogTypes, CatalogType
<1>2. catalog.left \in Nat
  BY <1>1, CatalogAssumption
<1>3. \A a \in Members : catalog.lists[a] \in Versions
  BY <1>1
<1>4. kept \in Nat /\ catalog.version \in Nat
  BY <1>1, CatalogConstants
<1>5. \A a \in Members : catalog.lists[a] \in Nat
  BY <1>3, CatalogConstants
<1> QED
  BY <1>1, <1>2, <1>3, <1>4, <1>5

LEMMA AskedStep ==
  ASSUME CatalogIInv,
         \E r \in Refreshers : \/ \E v \in 1..MaxVersion : ClientAsks(r, v)
                               \/ WatchModels(r)
                               \/ \E a \in Members : PoolChanges(r, a)
  PROVE  CatalogSafe' /\ ~Withdrawn
<1> PICK r \in Refreshers : \/ \E v \in 1..MaxVersion : ClientAsks(r, v)
                            \/ WatchModels(r)
                            \/ \E a \in Members : PoolChanges(r, a)
  OBVIOUS
<1>0. CatalogTypes
  BY DEF CatalogIInv
<1>1. \E left \in 0..RefreshInterval :
        /\ left <= catalog.left
        /\ catalog' = [catalog EXCEPT !.left = left] \/ UNCHANGED catalog
  <2>1. CASE \E v \in 1..MaxVersion : ClientAsks(r, v)
    BY <1>0, <2>1, NumbersOf DEF ClientAsks
  <2>2. CASE WatchModels(r)
    <3> DEFINE left == IF catalog.left = 0 THEN 0 ELSE catalog.left - 1
    <3>1. left \in 0..RefreshInterval /\ left <= catalog.left
      BY <1>0, NumbersOf, CatalogAssumption
    <3>2. catalog' = [catalog EXCEPT !.left = left]
      BY <2>2 DEF WatchModels
    <3> HIDE DEF left
    <3> QED
      BY <3>1, <3>2
  <2>3. CASE \E a \in Members : PoolChanges(r, a)
    <3>1. 0 \in 0..RefreshInterval /\ 0 <= catalog.left
      BY <1>0, NumbersOf, CatalogAssumption
    <3>2. catalog' = [catalog EXCEPT !.left = 0]
      BY <2>3 DEF PoolChanges
    <3> QED
      BY <3>1, <3>2
  <2> QED
    BY <2>1, <2>2, <2>3
<1>2. /\ (\E q \in Refreshers, v \in Versions : StartRefresh(q, v)) \/ UNCHANGED refresher
      /\ eligible' \subseteq Members
      /\ UNCHANGED kept
  <2>1. 1..MaxVersion \subseteq Versions
    BY CatalogAssumption DEF Versions
  <2> QED
    BY <1>0, <2>1, NumbersOf DEF ClientAsks, WatchModels, PoolChanges, CatalogTypes
<1>3. CatalogSafe' /\ UNCHANGED <<catalog.lists, catalog.version>>
  BY <1>1, <1>2, AskStep DEF CatalogSafe
<1> QED
  BY <1>0, <1>2, <1>3, NumbersOf DEF Withdrawn

LEMMA BeginStep ==
  ASSUME CatalogIInv, NEW r \in Refreshers, BeginRefresh(r)
  PROVE  CatalogSafe' /\ UNCHANGED <<catalog, kept>>
<1> DEFINE version == NewestVersion(refresher[r].version)
           task == [step |-> "fetching", version |-> version, previous |-> catalog.version,
                    active |-> eligible, asked |-> eligible, fresh |-> {}]
           x == IF NeedsRefresh(eligible, version) THEN task ELSE AtRest
<1>0. /\ CatalogTypes /\ refresher' = [refresher EXCEPT ![r] = x]
      /\ UNCHANGED <<catalog, kept, eligible>>
      /\ \A s \in Refreshers : ~Held(s)
  BY DEF CatalogIInv, BeginRefresh, RefreshMuHeld, Held
<1>1. refresher[r].version \in Versions /\ eligible \subseteq Members
  BY <1>0 DEF CatalogTypes, RefresherType
<1>2. version \in Versions /\ version >= catalog.version
  <2>1. /\ catalog.version \in Versions /\ catalog.version \in Nat /\ refresher[r].version \in Nat
        /\ version = IF catalog.version > refresher[r].version THEN catalog.version
                     ELSE refresher[r].version
    BY <1>0, <1>1, NumbersOf, CatalogConstants DEF NewestVersion, Larger
  <2> HIDE DEF version
  <2> QED
    BY <1>1, <2>1
<1>3. task \in RefresherType /\ task.step = "fetching" /\ task.version = version
      /\ task.asked = task.active /\ task.fresh = {}
  BY <1>0, <1>1, <1>2, NumbersOf DEF RefresherType
<1> HIDE DEF task, version
<1>4. x \in RefresherType /\ (x = task \/ x.step = "idle")
  BY <1>3, CatalogConstants
<1> HIDE DEF x
<1>5. refresher' \in [Refreshers -> RefresherType] /\ OneHolder' /\ Tasks'
  BY <1>0, <1>2, <1>3, <1>4, TaskStep
<1> QED
  BY <1>0, <1>5 DEF CatalogIInv, CatalogSafe, CatalogTypes, Newest, StaleListsAreRetried

LEMMA FetchStep ==
  ASSUME CatalogIInv, NEW r \in Refreshers, NEW a \in Members, FetchAccountModels(r, a)
  PROVE  CatalogSafe' /\ UNCHANGED <<catalog, kept>>
<1>0. /\ CatalogTypes /\ refresher[r] \in RefresherType /\ refresher[r].step = "fetching"
      /\ a \in refresher[r].asked
      /\ UNCHANGED <<catalog, kept, eligible>>
      /\ \A s \in Refreshers : Held(s) => s = r
      /\ refresher[r].version >= catalog.version
      /\ refresher[r].asked \subseteq refresher[r].active
      /\ refresher[r].fresh \subseteq refresher[r].active
  BY DEF CatalogIInv, CatalogTypes, FetchAccountModels, OneHolder, Held, Tasks
<1>1. \E fresh \in {refresher[r].fresh, refresher[r].fresh \cup {a}} :
        refresher' = [refresher EXCEPT ![r] =
            [refresher[r] EXCEPT !.asked = @ \ {a}, !.fresh = fresh]]
  <2>1. refresher[r] = [refresher[r] EXCEPT !.fresh = refresher[r].fresh]
    BY <1>0 DEF RefresherType
  <2>2. CASE refresher' = [refresher EXCEPT ![r].asked = @ \ {a}, ![r].fresh = @ \cup {a}]
    BY <1>0, <2>2 DEF CatalogTypes
  <2>3. CASE refresher' = [refresher EXCEPT ![r].asked = @ \ {a}]
    BY <1>0, <2>1, <2>3 DEF CatalogTypes, RefresherType
  <2> QED
    BY <2>2, <2>3 DEF FetchAccountModels
<1> PICK fresh \in {refresher[r].fresh, refresher[r].fresh \cup {a}} :
        refresher' = [refresher EXCEPT ![r] =
            [refresher[r] EXCEPT !.asked = @ \ {a}, !.fresh = fresh]]
  BY <1>1
<1> DEFINE x == [refresher[r] EXCEPT !.asked = @ \ {a}, !.fresh = fresh]
<1>2. /\ x \in RefresherType /\ x.step = "fetching" /\ x.version = refresher[r].version
      /\ x.active = refresher[r].active
      /\ x.asked \subseteq x.active /\ x.fresh \subseteq x.active
  BY <1>0 DEF RefresherType
<1> HIDE DEF x
<1>3. refresher' \in [Refreshers -> RefresherType] /\ OneHolder' /\ Tasks'
  BY <1>0, <1>1, <1>2, TaskStep DEF x
<1> QED
  BY <1>0, <1>3 DEF CatalogIInv, CatalogSafe, CatalogTypes, Newest, StaleListsAreRetried

LEMMA ReplaceStep ==
  ASSUME CatalogIInv, NEW r \in Refreshers, ReplaceCatalog(r)
  PROVE  CatalogSafe' /\ ~Withdrawn
<1> DEFINE task == refresher[r]
           x == IF task.version # task.previous THEN [task EXCEPT !.step = "persisting"] ELSE AtRest
<1>0. /\ CatalogTypes /\ task \in RefresherType /\ task.step = "fetching" /\ task.asked = {}
      /\ catalog' = Replaced(task.active, task.fresh, task.version)
      /\ refresher' = [refresher EXCEPT ![r] = x]
      /\ UNCHANGED <<kept, eligible, changes>>
      /\ \A s \in Refreshers : Held(s) => s = r
      /\ task.version >= catalog.version
      /\ task.fresh \subseteq task.active
  BY DEF CatalogIInv, CatalogTypes, ReplaceCatalog, OneHolder, Held, Tasks
<1>1. task.version \in Versions /\ task.active \subseteq Members /\ task.version \in Nat
  BY <1>0, CatalogConstants DEF RefresherType
<1>2. /\ x \in RefresherType /\ x.step # "fetching"
      /\ x.step = "persisting" => x.version = task.version
  BY <1>0, CatalogConstants DEF RefresherType
<1> HIDE DEF x
<1>3. /\ catalog'.version = task.version /\ catalog'.active = task.active
      /\ catalog'.left = NextRefresh(task.active, task.fresh)
      /\ \A a \in Members : catalog'.lists[a] = IF a \in task.fresh THEN task.version
                              ELSE IF a \in task.active THEN catalog.lists[a] ELSE 0
  BY <1>0 DEF Replaced
<1>4. NextRefresh(task.active, task.fresh) \in 0..RefreshInterval
  BY CatalogConstants DEF NextRefresh
<1>5. catalog' \in CatalogType
  <2>1. \A a \in Members : (IF a \in task.fresh THEN task.version
                            ELSE IF a \in task.active THEN catalog.lists[a] ELSE 0) \in Versions
    BY <1>0, <1>1, NumbersOf, CatalogConstants
  <2> HIDE DEF task
  <2>2. [a \in Members |-> IF a \in task.fresh THEN task.version
                           ELSE IF a \in task.active THEN catalog.lists[a] ELSE 0]
           \in [Members -> Versions]
    BY <2>1
  <2> QED
    BY <1>0, <1>1, <1>4, <2>2 DEF Replaced, CatalogType
<1>6. refresher' \in [Refreshers -> RefresherType] /\ OneHolder' /\ Tasks'
  BY <1>0, <1>2, <1>3, TaskStep
<1>7. Newest'
  BY <1>0, <1>1, <1>3, NumbersOf DEF CatalogIInv, Newest
<1>8. StaleListsAreRetried'
  <2> SUFFICES ASSUME NEW a \in catalog'.active, catalog'.lists[a] < catalog'.version
               PROVE  catalog'.left <= RetryInterval
    BY DEF StaleListsAreRetried
  <2>1. a \in task.active /\ a \in Members /\ a \notin task.fresh
    BY <1>1, <1>3
  <2>2. IsFiniteSet(task.active)
    BY <1>1, CatalogAssumption, FS_Subset
  <2>3. Cardinality(task.fresh) # Cardinality(task.active)
    BY <1>0, <2>1, <2>2, FS_Subset
  <2> QED
    BY <1>3, <2>3 DEF NextRefresh, RetryInterval
<1>9. ~Withdrawn
  BY <1>0, <1>1, <1>3, NumbersOf DEF Withdrawn, CatalogIInv, Newest
<1> QED
  BY <1>0, <1>5, <1>6, <1>7, <1>8, <1>9 DEF CatalogSafe, CatalogTypes

LEMMA PersistStep ==
  ASSUME CatalogIInv, NEW r \in Refreshers, PersistVersion(r)
  PROVE  CatalogSafe' /\ ~Withdrawn
<1>1. /\ CatalogTypes /\ kept' \in {kept, refresher[r].version}
      /\ refresher' = [refresher EXCEPT ![r] = AtRest]
      /\ UNCHANGED <<catalog, eligible, changes>>
      /\ refresher[r].version = catalog.version /\ kept <= catalog.version
  BY DEF PersistVersion, CatalogIInv, Tasks, Newest
<1>2. refresher' \in [Refreshers -> RefresherType] /\ OneHolder' /\ Tasks'
  BY <1>1, CatalogConstants, TaskStep
<1>3. kept' \in Versions /\ kept' <= catalog.version /\ kept' >= kept
  BY <1>1, NumbersOf DEF CatalogTypes
<1>4. Newest' /\ StaleListsAreRetried'
  BY <1>1, <1>3 DEF CatalogIInv, Newest, StaleListsAreRetried
<1>5. ~Withdrawn
  BY <1>1, <1>3, NumbersOf DEF Withdrawn, CatalogTypes, CatalogType
<1> QED
  BY <1>1, <1>2, <1>3, <1>4, <1>5 DEF CatalogSafe, CatalogTypes

LEMMA RestartStep ==
  ASSUME CatalogIInv, RestartCatalog \/ UpstreamRecovers
  PROVE  CatalogSafe' /\ ~Withdrawn
<1>0. CatalogTypes /\ changes \in Nat
  BY CatalogAssumption DEF CatalogIInv, CatalogBounds
<1>1. CASE RestartCatalog
  <2>1. /\ catalog' = Emptied(kept) /\ UNCHANGED <<kept, eligible>>
        /\ refresher' = [q \in Refreshers |-> AtRest] /\ changes' # changes
    BY <1>0, <1>1 DEF RestartCatalog
  <2>2. \A r \in Refreshers : refresher'[r].step = "idle"
    BY <2>1, CatalogConstants
  <2>3. OneHolder' /\ Tasks'
    BY <2>2 DEF OneHolder, Held, Tasks
  <2>4. catalog'.version = kept /\ catalog'.active = {} /\ \A a \in Members : catalog'.lists[a] = 0
    BY <2>1 DEF Emptied
  <2>5. Newest' /\ StaleListsAreRetried'
    BY <1>0, <2>1, <2>4, NumbersOf DEF Newest, StaleListsAreRetried
  <2>6. CatalogTypes'
    BY <1>0, <2>1, CatalogConstants DEF CatalogTypes
  <2> QED
    BY <1>0, <2>1, <2>3, <2>5, <2>6, NumbersOf DEF CatalogSafe, Withdrawn
<1>2. CASE UpstreamRecovers
  BY <1>0, <1>2, NumbersOf DEF UpstreamRecovers, CatalogIInv, CatalogSafe, CatalogTypes, OneHolder, Held, Tasks, Newest,
     StaleListsAreRetried, Withdrawn
<1> QED
  BY <1>1, <1>2

LEMMA CatalogStepInv == ASSUME CatalogIInv, CatalogNext PROVE CatalogIInv' /\ ~Withdrawn
<1>1. ASSUME UNCHANGED <<catalog, kept>> PROVE ~Withdrawn
  BY <1>1, NumbersOf DEF CatalogIInv, Withdrawn
<1>2. CatalogSafe' /\ ~Withdrawn
  BY <1>1, AskedStep, BeginStep, FetchStep, ReplaceStep, PersistStep, RestartStep DEF CatalogNext, Refresh
<1> QED
  BY <1>2, BoundsStep DEF CatalogIInv, CatalogSafe

-----------------------------------------------------------------------------

THEOREM CatalogInductive == CatalogSpec => []CatalogIInv
<1>1. CatalogIInv /\ UNCHANGED catalogVars => CatalogIInv'
  BY DEF catalogVars, CatalogIInv, CatalogTypes, CatalogBounds, OneHolder, Held, Tasks, Newest, StaleListsAreRetried
<1>2. CatalogIInv /\ [CatalogNext]_catalogVars => CatalogIInv'
  BY <1>1, CatalogStepInv
<1> QED
  BY CatalogInitInv, <1>2, PTL DEF CatalogSpec

LEMMA CatalogTypesFollow == CatalogIInv => CatalogTypeOK
  BY DEF CatalogIInv, CatalogTypes, CatalogBounds, CatalogTypeOK

(* Every variable has its type: versions stay those that clients brought.  *)
THEOREM CatalogTypesHold == CatalogSpec => []CatalogTypeOK
  BY CatalogTypesFollow, CatalogInductive, PTL

(* A list that is missing or behind is asked for after the retry interval. *)
THEOREM StaleListsAreRetriedHolds == CatalogSpec => []StaleListsAreRetried
<1>1. CatalogIInv => StaleListsAreRetried
  BY DEF CatalogIInv
<1> QED
  BY <1>1, CatalogInductive, PTL

Improves == /\ StaleListsAreRetried'
            /\ kept' >= kept
            /\ changes' = changes =>
                 \A a \in Members : a \in catalog'.active => catalog'.lists[a] >= catalog.lists[a]

LEMMA ListsGetBetter == CatalogIInv /\ [CatalogNext]_catalogVars => [Improves]_catalogVars
<1>1. ASSUME CatalogIInv, CatalogNext PROVE Improves
  BY <1>1, CatalogStepInv DEF Withdrawn, CatalogIInv, Improves
<1> QED
  BY <1>1

(* Lists only get better, and what could be better is soon asked for.      *)
THEOREM ListsImproveHolds == CatalogSpec => ListsImprove
<1>1. [][Improves]_catalogVars => ListsImprove
  BY PTL DEF ListsImprove, Improves
<1> QED
  BY <1>1, ListsGetBetter, CatalogInductive, PTL DEF CatalogSpec

-----------------------------------------------------------------------------
(* AccountRanking.                                                         *)

(* Of the accounts the loop has passed nobody comes before least.          *)
LeastOf(n) ==
    \A i \in 1..n : /\ ~Outranks(order[i], scan.least)
                    /\ SamePriority(order[i], scan.least) =>
                         facts[order[i]].pressure >= facts[scan.least].pressure

(* Whom the tolerance lets compete with least.                             *)
Near(a) == /\ SamePriority(a, scan.least)
           /\ facts[a].pressure <= facts[scan.least].pressure + 1

LongestOf(n) ==
    \A i \in 1..n : Near(order[i]) => scan.best = order[i] \/ LongerIdle(scan.best, order[i])

Listed == /\ facts \in [Ranked -> Candidates]
          /\ order \in Seq(Ranked) /\ Len(order) >= 1

Complete == \A a \in Ranked : \E i \in 1..Len(order) : order[i] = a

Scans == [pass: {1, 2}, at: Nat, least: Ranked, best: Ranked]

RankingInv ==
    /\ Listed /\ Complete
    /\ scan \in Scans /\ scan.at \in 1..(Len(order) + 1)
    /\ scan.pass = 1 => scan.at >= 2 /\ LeastOf(scan.at - 1)
    /\ scan.pass = 2 => LeastOf(Len(order)) /\ Near(scan.best) /\ LongestOf(scan.at - 1)

(* Priority is a weak order: whoever shares a priority is outranked by the *)
(* same accounts.                                                          *)
LEMMA PriorityOrder ==
    ASSUME facts \in [Ranked -> Candidates], NEW a \in Ranked, NEW b \in Ranked, NEW c \in Ranked
    PROVE  /\ ~Outranks(a, a)
           /\ Outranks(a, b) => ~Outranks(b, a)
           /\ Outranks(a, b) /\ Outranks(b, c) => Outranks(a, c)
           /\ Outranks(a, b) /\ SamePriority(b, c) => Outranks(a, c)
           /\ SamePriority(a, b) /\ Outranks(b, c) => Outranks(a, c)
<1> DEFINE m(x) == facts[x].manual = TRUE
           u(x) == facts[x].urgency
           later(x, y) == u(x) # 0 /\ (u(y) = 0 \/ u(x) < u(y))
<1>1. \A x \in Ranked : facts[x].manual \in BOOLEAN /\ u(x) \in Nat
  BY RankingAssumption
<1>2. \A x, y \in Ranked : Outranks(x, y) <=> (m(x) /\ ~m(y)) \/ ((m(x) <=> m(y)) /\ later(x, y))
  <2> SUFFICES ASSUME NEW x \in Ranked, NEW y \in Ranked
               PROVE  Outranks(x, y) <=> (m(x) /\ ~m(y)) \/ ((m(x) <=> m(y)) /\ later(x, y))
    OBVIOUS
  <2>1. facts[x].manual \in BOOLEAN /\ facts[y].manual \in BOOLEAN
    BY <1>1
  <2> QED
    BY <2>1, Zenon DEF Outranks
<1>3. \A x, y, z \in Ranked : /\ ~later(x, x)
                              /\ later(x, y) => ~later(y, x)
                              /\ later(x, y) /\ later(y, z) => later(x, z)
                              /\ later(x, z) => later(x, y) \/ later(y, z)
  BY <1>1
<1> HIDE DEF m, u, later
<1> QED
  BY <1>2, <1>3 DEF SamePriority

(* Idleness, with the id, is a total order.                                *)
LEMMA IdleOrder ==
    ASSUME facts \in [Ranked -> Candidates], NEW a \in Ranked, NEW b \in Ranked, NEW c \in Ranked
    PROVE  /\ LongerIdle(a, b) /\ LongerIdle(b, c) => LongerIdle(a, c)
           /\ a = b \/ LongerIdle(a, b) \/ LongerIdle(b, a)
<1>1. \A x \in Ranked : facts[x].used \in Nat /\ x \in Nat
  BY RankingAssumption
<1> QED
  BY <1>1 DEF LongerIdle

LEMMA RankingInitInv == RankingInit => RankingInv
<1> SUFFICES ASSUME RankingInit PROVE RankingInv
  OBVIOUS
<1> DEFINE N == Cardinality(Ranked)
<1>1. N \in Nat /\ N >= 1
  BY RankingAssumption, FS_CardinalityType, FS_EmptySet
<1>2. order \in [1..N -> Ranked] /\ \A a \in Ranked : \E i \in 1..N : order[i] = a
  BY DEF RankingInit
<1>3. order \in Seq(Ranked) /\ Len(order) = N
  BY <1>1, <1>2, IsASeq, LenProperties
<1>4. Listed /\ Complete
  BY <1>1, <1>2, <1>3 DEF Listed, Complete, RankingInit
<1>5. order[1] \in Ranked
  BY <1>1, <1>2
<1>6. LeastOf(1)
  <2>1. \A i \in 1..1 : order[i] = scan.least
    BY DEF RankingInit
  <2>2. ~Outranks(order[1], order[1]) /\ facts[order[1]].pressure \in Nat
    BY <1>4, <1>5, PriorityOrder, RankingAssumption DEF Listed
  <2> QED
    BY <2>1, <2>2 DEF LeastOf, RankingInit
<1> QED
  BY <1>1, <1>3, <1>4, <1>5, <1>6 DEF RankingInv, RankingInit, Scans

(* First pass: whoever is less becomes the least; those it is compared     *)
(* with through its predecessor do not come before it.                     *)
LEMMA FindLeastStep == ASSUME RankingInv, FindLeast PROVE RankingInv'
<1> DEFINE a == order[scan.at]
<1>1. /\ Listed /\ Complete /\ scan.pass = 1 /\ scan.at \in 2..Len(order) /\ LeastOf(scan.at - 1)
      /\ scan.least \in Ranked /\ scan.best \in Ranked /\ a \in Ranked
      /\ Len(order) \in Nat
  BY DEF RankingInv, FindLeast, Listed, Scans
<1>2. UNCHANGED <<facts, order>>
  BY DEF FindLeast
<1> HIDE DEF a
<1>3. /\ scan' \in Scans
      /\ scan'.pass = 1 /\ scan'.at = scan.at + 1
      /\ scan'.least = IF Less(a) THEN a ELSE scan.least
  <2>1. /\ scan \in Scans
        /\ scan' = [scan EXCEPT !.at = scan.at + 1, !.least = IF Less(a) THEN a ELSE scan.least]
    BY DEF RankingInv, FindLeast, a
  <2>2. /\ scan' = [pass |-> scan.pass, at |-> scan.at + 1, least |-> scan'.least, best |-> scan'.best]
        /\ scan'.least = (IF Less(a) THEN a ELSE scan.least) /\ scan'.best = scan.best
    BY <2>1 DEF Scans
  <2> QED
    BY <1>1, <2>2 DEF Scans
<1>4. LeastOf(scan.at - 1)'
  <2> SUFFICES ASSUME NEW i \in 1..scan.at
               PROVE  /\ ~Outranks(order[i], scan'.least)
                      /\ SamePriority(order[i], scan'.least) =>
                           facts[order[i]].pressure >= facts[scan'.least].pressure
    <3>1. scan'.at - 1 = scan.at
      BY <1>1, <1>3
    <3> QED
      BY <1>2, <3>1 DEF LeastOf, Outranks, SamePriority
  <2> DEFINE b == order[i]
  <2>1. b \in Ranked /\ (i \in 1..(scan.at - 1) \/ b = a)
    BY <1>1 DEF Listed, a
  <2>2. facts \in [Ranked -> Candidates]
    BY <1>1 DEF Listed
  <2>3. \A x \in Ranked : facts[x].pressure \in Nat
    BY <2>2, RankingAssumption
  <2>4. i \in 1..(scan.at - 1) => /\ ~Outranks(b, scan.least)
                                  /\ SamePriority(b, scan.least) =>
                                       facts[b].pressure >= facts[scan.least].pressure
    BY <1>1 DEF LeastOf
  <2> HIDE DEF a, b
  <2>5. CASE Less(a)
    <3>1. b = a => ~Outranks(b, a) /\ facts[b].pressure >= facts[a].pressure
      BY <2>1, <2>2, <2>3, PriorityOrder
    <3>2. CASE Outranks(a, scan.least)
      <4>1. /\ Outranks(b, a) => Outranks(b, scan.least)
            /\ SamePriority(b, a) => Outranks(b, scan.least)
        BY <1>1, <2>1, <2>2, <3>2, PriorityOrder
      <4> QED
        BY <1>3, <2>1, <2>4, <2>5, <3>1, <4>1 DEF b
    <3>3. CASE SamePriority(a, scan.least) /\ facts[a].pressure < facts[scan.least].pressure
      <4>1. /\ Outranks(b, a) => Outranks(b, scan.least)
            /\ SamePriority(b, a) => SamePriority(b, scan.least)
        BY <1>1, <2>1, <2>2, <3>3, PriorityOrder DEF SamePriority
      <4>2. /\ ~Outranks(b, a)
            /\ SamePriority(b, a) => facts[b].pressure >= facts[a].pressure
        BY <1>1, <2>1, <2>3, <2>4, <3>1, <3>3, <4>1
      <4> QED
        BY <1>3, <2>5, <4>2 DEF b
    <3> QED
      BY <2>5, <3>2, <3>3 DEF Less
  <2>6. CASE ~Less(a)
    <3>1. /\ ~Outranks(a, scan.least)
          /\ SamePriority(a, scan.least) => facts[a].pressure >= facts[scan.least].pressure
      BY <1>1, <2>3, <2>6 DEF Less
    <3> QED
      BY <1>3, <2>1, <2>4, <2>6, <3>1 DEF b
  <2> QED
    BY <2>5, <2>6
<1> QED
  BY <1>1, <1>2, <1>3, <1>4 DEF RankingInv, Listed, Complete

LEMMA AnchorStep == ASSUME RankingInv, AnchorTolerance PROVE RankingInv'
<1>1. /\ Listed /\ Complete /\ scan.at = Len(order) + 1 /\ LeastOf(Len(order)) /\ scan.least \in Ranked
      /\ Len(order) \in Nat
  BY DEF RankingInv, AnchorTolerance, Listed, Scans
<1>2. UNCHANGED <<facts, order>>
  BY DEF AnchorTolerance
<1>3. /\ scan' \in Scans
      /\ scan'.pass = 2 /\ scan'.at = 1 /\ scan'.least = scan.least /\ scan'.best = scan.least
  BY <1>1 DEF RankingInv, AnchorTolerance, Scans
<1>4. Near(scan.best)'
  <2>1. SamePriority(scan.least, scan.least)
    BY <1>1, PriorityOrder DEF Listed, SamePriority
  <2>2. facts[scan.least].pressure \in Nat
    BY <1>1, RankingAssumption DEF Listed
  <2> QED
    BY <1>2, <1>3, <2>1, <2>2 DEF Near, SamePriority, Outranks
<1>5. LeastOf(Len(order))' /\ LongestOf(scan.at - 1)'
  BY <1>1, <1>2, <1>3 DEF LeastOf, LongestOf, SamePriority, Outranks
<1>6. Listed' /\ Complete'
  BY <1>1, <1>2 DEF Listed, Complete
<1>7. scan'.at \in 1..(Len(order') + 1)
  BY <1>1, <1>2, <1>3
<1>8. scan'.pass # 1
  BY <1>3
<1> QED
  BY <1>3, <1>4, <1>5, <1>6, <1>7, <1>8 DEF RankingInv

(* Second pass: least stays, and whoever is better has been idle longer    *)
(* than all before it that the tolerance admits.                           *)
LEMMA FindBestStep == ASSUME RankingInv, FindBest PROVE RankingInv'
<1> DEFINE a == order[scan.at]
<1>1. /\ Listed /\ Complete /\ scan.pass = 2 /\ scan.at \in 1..Len(order) /\ LeastOf(Len(order))
      /\ Near(scan.best) /\ LongestOf(scan.at - 1)
      /\ scan.least \in Ranked /\ scan.best \in Ranked /\ a \in Ranked
      /\ Len(order) \in Nat
  BY DEF RankingInv, FindBest, Listed, Scans
<1>2. UNCHANGED <<facts, order>>
  BY DEF FindBest
<1> HIDE DEF a
<1>3. /\ scan' \in Scans
      /\ scan'.pass = 2 /\ scan'.at = scan.at + 1 /\ scan'.least = scan.least
      /\ scan'.best = IF Better(a) THEN a ELSE scan.best
  <2>1. /\ scan \in Scans
        /\ scan' = [scan EXCEPT !.at = scan.at + 1, !.best = IF Better(a) THEN a ELSE scan.best]
    BY DEF RankingInv, FindBest, a
  <2>2. /\ scan' = [pass |-> scan.pass, at |-> scan.at + 1, least |-> scan'.least, best |-> scan'.best]
        /\ scan'.least = scan.least /\ scan'.best = (IF Better(a) THEN a ELSE scan.best)
    BY <2>1 DEF Scans
  <2> QED
    BY <1>1, <2>2 DEF Scans
<1>4. Better(a) <=> Near(a) /\ LongerIdle(a, scan.best)
  BY DEF Better, Near
<1>5. Near(scan.best)'
  BY <1>1, <1>2, <1>3, <1>4 DEF Near, SamePriority, Outranks
<1>6. LeastOf(Len(order))'
  BY <1>1, <1>2, <1>3 DEF LeastOf, SamePriority, Outranks
<1>7. LongestOf(scan.at - 1)'
  <2> SUFFICES ASSUME NEW i \in 1..scan.at, Near(order[i])
               PROVE  scan'.best = order[i] \/ LongerIdle(scan'.best, order[i])
    <3>1. scan'.at - 1 = scan.at
      BY <1>1, <1>3
    <3> QED
      BY <1>2, <1>3, <3>1 DEF LongestOf, LongerIdle, Near, SamePriority, Outranks
  <2> DEFINE b == order[i]
  <2>1. b \in Ranked /\ (i \in 1..(scan.at - 1) \/ b = a) /\ Near(b)
    BY <1>1 DEF Listed, a
  <2>2. i \in 1..(scan.at - 1) => scan.best = b \/ LongerIdle(scan.best, b)
    BY <1>1, <2>1 DEF LongestOf
  <2>3. /\ LongerIdle(a, scan.best) /\ LongerIdle(scan.best, b) => LongerIdle(a, b)
        /\ scan.best = a \/ LongerIdle(scan.best, a) \/ LongerIdle(a, scan.best)
    BY <1>1, <2>1, IdleOrder DEF Listed
  <2> HIDE DEF a, b
  <2>4. scan'.best = b \/ LongerIdle(scan'.best, b)
    BY <1>3, <1>4, <2>1, <2>2, <2>3
  <2> QED
    BY <2>4 DEF b
<1>8. Listed' /\ Complete'
  BY <1>1, <1>2 DEF Listed, Complete
<1>9. Len(order') = Len(order)
  BY <1>2
<1> QED
  BY <1>1, <1>3, <1>5, <1>6, <1>7, <1>8, <1>9 DEF RankingInv

LEMMA RankingStepInv == ASSUME RankingInv, [RankingNext]_rankingVars PROVE RankingInv'
<1>1. CASE UNCHANGED rankingVars
  BY <1>1 DEF rankingVars, RankingInv, Listed, Complete, LeastOf, LongestOf, Near, SamePriority,
              Outranks, LongerIdle
<1> QED
  BY <1>1, FindLeastStep, AnchorStep, FindBestStep DEF RankingNext

THEOREM RankingInductive == RankingSpec => []RankingInv
<1>1. RankingInv /\ [RankingNext]_rankingVars => RankingInv'
  BY RankingStepInv
<1> QED
  BY RankingInitInv, <1>1, PTL DEF RankingSpec

LEMMA RankingPromise == RankingInv => SelectedAsPromised
<1> SUFFICES ASSUME RankingInv, scan.pass = 2, scan.at > Len(order)
             PROVE  LET first == {a \in Ranked : \A b \in Ranked : ~Outranks(b, a)}
                        near == {a \in first :
                                    \A b \in first : facts[a].pressure <= facts[b].pressure + 1}
                    IN scan.best \in near
                       /\ \A a \in near : a = scan.best \/ LongerIdle(scan.best, a)
  BY DEF SelectedAsPromised
<1> DEFINE first == {a \in Ranked : \A b \in Ranked : ~Outranks(b, a)}
           near == {a \in first :
                       \A b \in first : facts[a].pressure <= facts[b].pressure + 1}
<1>1. /\ Listed /\ Complete /\ LeastOf(Len(order)) /\ Near(scan.best) /\ LongestOf(Len(order))
      /\ scan.least \in Ranked /\ scan.best \in Ranked
  <2>1. scan.at = Len(order) + 1 /\ Len(order) \in Nat
    BY DEF RankingInv, Listed, Scans
  <2> QED
    BY <2>1 DEF RankingInv, Scans
<1>2. facts \in [Ranked -> Candidates] /\ \A a \in Ranked : facts[a].pressure \in Nat
  BY <1>1, RankingAssumption DEF Listed
<1>3. ASSUME NEW a \in Ranked
      PROVE  /\ ~Outranks(a, scan.least)
             /\ SamePriority(a, scan.least) => facts[a].pressure >= facts[scan.least].pressure
             /\ Near(a) => scan.best = a \/ LongerIdle(scan.best, a)
  <2>1. PICK i \in 1..Len(order) : order[i] = a
    BY <1>1 DEF Complete
  <2> QED
    BY <1>1, <2>1 DEF LeastOf, LongestOf
<1>4. \A a \in Ranked : a \in first <=> SamePriority(a, scan.least)
  <2> SUFFICES ASSUME NEW a \in Ranked PROVE a \in first <=> SamePriority(a, scan.least)
    OBVIOUS
  <2>1. a \in first => SamePriority(a, scan.least)
    BY <1>1, <1>3 DEF SamePriority
  <2>2. ASSUME SamePriority(a, scan.least), NEW b \in Ranked PROVE ~Outranks(b, a)
    BY <1>1, <1>2, <1>3, <2>2, PriorityOrder
  <2> QED
    BY <2>1, <2>2
<1>5. \A a \in Ranked : a \in near <=> Near(a)
  <2> SUFFICES ASSUME NEW a \in Ranked PROVE a \in near <=> Near(a)
    OBVIOUS
  <2>1. scan.least \in first
    BY <1>1, <1>2, <1>4, PriorityOrder DEF SamePriority
  <2>2. \A b \in first : facts[b].pressure >= facts[scan.least].pressure
    BY <1>3, <1>4
  <2> HIDE DEF first
  <2>3. first \subseteq Ranked
    BY DEF first
  <2> QED
    BY <1>1, <1>2, <1>4, <2>1, <2>2, <2>3 DEF Near
<1> HIDE DEF near
<1>6. near \subseteq Ranked
  BY DEF near
<1>7. scan.best \in near /\ \A a \in near : a = scan.best \/ LongerIdle(scan.best, a)
  BY <1>1, <1>3, <1>5, <1>6
<1> QED
  BY <1>7 DEF near

(* Whatever the accounts and in whatever order they are listed, the loop   *)
(* of selectFreshAccount ends with the account the documentation promises. *)
THEOREM SelectedAsPromisedHolds == RankingSpec => []SelectedAsPromised
  BY RankingPromise, RankingInductive, PTL

-----------------------------------------------------------------------------
(* MCHousekeeping: the parts together.                                     *)

LEMMA PartsStart ==
    Init => /\ LogInit /\ CatalogInit /\ SettingsInit /\ BooksInit
            /\ ThreadsInit /\ CreditsInit /\ LoginInit
BY DEF Init, SettingsStart

(* What one part does the others do not see.                               *)
LEMMA PartsMove ==
    [Next]_vars => /\ [LogNext]_logVars /\ [CatalogNext]_catalogVars
                   /\ [SettingsNext]_settingsVars /\ [BooksNext]_booksVars
                   /\ [ThreadsNext]_threadsVars /\ [CreditsNext]_creditsVars
                   /\ [LoginNext]_loginVars
<1> SUFFICES ASSUME [Next]_vars
             PROVE  /\ [LogNext]_logVars /\ [CatalogNext]_catalogVars
                    /\ [SettingsNext]_settingsVars /\ [BooksNext]_booksVars
                    /\ [ThreadsNext]_threadsVars /\ [CreditsNext]_creditsVars
                    /\ [LoginNext]_loginVars
  OBVIOUS
<1>1. CASE UNCHANGED vars
  BY <1>1 DEF vars
<1>2. CASE Next
  BY <1>2 DEF Next, Rest
<1> QED
  BY <1>1, <1>2

(* The parts that assume no fairness run within the whole as they do alone *)
(* (those that do assume it here only for the behaviours in which they     *)
(* move).                                                                  *)
THEOREM PartsRunAsAlone == Spec => LogSpec /\ BooksSpec /\ ThreadsSpec /\ CreditsSpec
<1>1. Init => LogInit /\ BooksInit /\ ThreadsInit /\ CreditsInit
  BY PartsStart
<1>2. [Next]_vars => /\ [LogNext]_logVars /\ [BooksNext]_booksVars
                     /\ [ThreadsNext]_threadsVars /\ [CreditsNext]_creditsVars
  BY PartsMove
<1> QED
  BY <1>1, <1>2, PTL DEF Spec, LogSpec, BooksSpec, ThreadsSpec, CreditsSpec

(* The order of a part that rests is empty, and its loop never starts.     *)
RankingHere == IF focus = "ranking" THEN RankingInv ELSE scan = [pass |-> 1]

WholeInv == CatalogIInv /\ SettingsIInv /\ LoginIInv /\ RankingHere

LEMMA WholeStart == Init => WholeInv
<1> SUFFICES ASSUME Init PROVE WholeInv
  OBVIOUS
<1>1. CatalogIInv /\ SettingsIInv /\ LoginIInv
  BY PartsStart, CatalogInitInv, SettingsInitInv, LoginInitInv
<1>2. RankingHere
  BY RankingInitInv DEF Init, RankingStart, RankingHere
<1> QED
  BY <1>1, <1>2 DEF WholeInv

LEMMA WholeStep == ASSUME WholeInv, [Next]_vars PROVE WholeInv'
<1>1. /\ [CatalogNext]_catalogVars /\ [SettingsNext]_settingsVars /\ [LoginNext]_loginVars
      /\ CatalogIInv /\ SettingsIInv /\ LoginIInv /\ RankingHere
  BY PartsMove DEF WholeInv
<1>2. SettingsIInv' /\ LoginIInv'
  BY <1>1, SettingsStepInv, LoginStepInv
<1>3. CatalogIInv'
  <2>1. CASE UNCHANGED catalogVars
    BY <1>1, <2>1 DEF catalogVars, CatalogIInv, CatalogTypes, CatalogBounds, OneHolder, Held, Tasks,
                      Newest, StaleListsAreRetried
  <2> QED
    BY <1>1, <2>1, CatalogStepInv
<1>4. RankingHere'
  <2>1. UNCHANGED focus
    BY DEF Next, vars
  <2>2. CASE focus = "ranking"
    <3>1. [RankingNext]_rankingVars
      BY <2>2 DEF Next, vars
    <3> QED
      BY <1>1, <2>1, <2>2, <3>1, RankingStepInv DEF RankingHere
  <2>3. CASE focus # "ranking"
    <3>1. UNCHANGED rankingVars
      BY <2>3 DEF Next, Rest, vars
    <3> QED
      BY <1>1, <2>1, <2>3, <3>1 DEF RankingHere, rankingVars
  <2> QED
    BY <2>2, <2>3
<1> QED
  BY <1>2, <1>3, <1>4 DEF WholeInv

THEOREM WholeInductive == Spec => []WholeInv
<1>1. WholeInv /\ [Next]_vars => WholeInv'
  BY WholeStep
<1> QED
  BY WholeStart, <1>1, PTL DEF Spec

(* Every variable of the eight parts keeps its type, and what counts stays *)
(* within its bound: the number of archives, the channels that are         *)
(* replaced, the versions clients bring, the sums of the books and of the  *)
(* credits.                                                                *)
THEOREM HousekeepingTypes == Spec => []TypeOK
<1>1. WholeInv => CatalogTypeOK /\ SettingsTypeOK /\ LoginTypeOK
  BY CatalogTypesFollow, SettingsTypesFollow DEF WholeInv, LoginIInv
<1>2. Spec => [](LogTypeOK /\ BooksTypeOK /\ ThreadsTypeOK /\ CreditsTypeOK)
  BY PartsRunAsAlone, LogTypes, BooksTypes, ThreadTypesHold, CreditsTypes, PTL
<1> QED
  BY <1>1, <1>2, WholeInductive, PTL DEF TypeOK

(* The other properties of the run, of the whole: no accepted line of the  *)
(* log is lost and maintenance tidies, a change of the mode arrives at     *)
(* every relay, the books agree with the ledger, threads and credits are   *)
(* counted as they came, the account that is selected is the promised one, *)
(* pages share one login, and no list of models gets worse.                *)
THEOREM HousekeepingSafe ==
    Spec => /\ []LinesAreKept /\ []ChangesArrive /\ []BooksAgree /\ []ThreadsAreTrue
            /\ []SinceIsTheSum /\ []SelectedAsPromised /\ []LoginIsShared
            /\ MaintainTidies /\ ListsImprove
<1>1. WholeInv => ChangesArrive
  BY DEF WholeInv, SettingsIInv, RelayKnows, WorkerKnows, ChangesArrive, StaleRelayIsTold,
         PolicyFollowsRow, ChannelClosed, SettingsMuFree
<1>2. WholeInv => LoginIsShared
  BY DEF WholeInv, LoginIInv, Outcome, LoginIsShared, CompletedMeansAdded, LoginStatus
<1>3. WholeInv => SelectedAsPromised
  <2>1. scan = [pass |-> 1] => SelectedAsPromised
    BY DEF SelectedAsPromised
  <2> QED
    BY <2>1, RankingPromise DEF WholeInv, RankingHere
<1>4. WholeInv /\ [Next]_vars => [Improves]_catalogVars
  BY PartsMove, ListsGetBetter DEF WholeInv
<1>5. [][Improves]_catalogVars => ListsImprove
  BY PTL DEF ListsImprove, Improves
<1>6. Spec => [][Next]_vars
  BY PTL DEF Spec
<1>7. Spec => ListsImprove
  BY <1>4, <1>5, <1>6, WholeInductive, PTL
<1>8. Spec => []LinesAreKept /\ []BooksAgree /\ []ThreadsAreTrue /\ []SinceIsTheSum /\ MaintainTidies
  BY PartsRunAsAlone, LinesAreKeptHolds, BooksAgreeHolds, ThreadsAreTrueHolds, SinceIsTheSumHolds,
     MaintainTidiesHolds
<1> QED
  BY <1>1, <1>2, <1>3, <1>7, <1>8, WholeInductive, PTL

=============================================================================
