------------------------------- MODULE Settings ------------------------------
(***************************************************************************)
(* The fast-mode setting (internal/app/settings.go).                       *)
(*                                                                         *)
(* The setting is a row of the database.  The admin page of the server     *)
(* writes it, and so may the settings command, another process; the server *)
(* polls it.  A relay takes the mode and the channel that announces its    *)
(* change when its handshake begins, and rewrites requests by that mode    *)
(* until the channel is closed.                                            *)
(*                                                                         *)
(* A channel is a number: it is closed when the policy has a later one.    *)
(***************************************************************************)
EXTENDS Naturals

CONSTANTS
    Modes,       \* values of fastMode
    DefaultMode, \* fastModeDefault
    Relays,      \* connections, one after another or at once
    MaxWrites    \* bound: writes of the row

ASSUME SettingsAssumption == DefaultMode \in Modes /\ MaxWrites \in Nat

VARIABLES
    row,        \* settings.fast_mode
    policy,     \* fastModePolicy
    watcher,    \* reloadSettings
    admin,      \* saveFastMode
    relay,      \* what each relay has captured, and how far it is
    writes,     \* writes of the row so far
    unseen      \* history: the command wrote the row after this process last looked

settingsVars == <<row, policy, watcher, admin, relay, writes, unseen>>

-----------------------------------------------------------------------------

(* locked, apply: the worker holds settingsMu.                             *)
WorkerType == [step: {"idle", "locked", "apply"}, mode: Modes]
RelayType == [step: {"none", "setup", "loop"}, mode: Modes, channel: 0..MaxWrites]

NoRelay == [step |-> "none", mode |-> DefaultMode, channel |-> 0]

(* The server loads the row before it serves.                              *)
SettingsInit ==
    /\ row \in Modes
    /\ policy = [mode |-> row, channel |-> 0]
    /\ watcher = [step |-> "idle", mode |-> DefaultMode]
    /\ admin = [step |-> "idle", mode |-> DefaultMode]
    /\ relay = [r \in Relays |-> NoRelay]
    /\ writes = 0
    /\ unseen = FALSE

(* Mutant of SettingsMuFree: no settingsMu.                                *)
SettingsMuIgnored == TRUE

SettingsMuFree == watcher.step = "idle" /\ admin.step = "idle"

(* Mutant of SetPolicy: the channel stays open.                            *)
SetPolicyQuietly(mode) == policy' = [policy EXCEPT !.mode = mode]

(* Mutant of SetPolicy: a mode that is set again restarts every relay.     *)
SetPolicyAgain(mode) == policy' = [mode |-> mode, channel |-> policy.channel + 1]

(* fastModePolicy.set                                                      *)
SetPolicy(mode) ==
    policy' = IF policy.mode = mode THEN policy
              ELSE [mode |-> mode, channel |-> policy.channel + 1]

ChannelClosed(r) == relay[r].channel # policy.channel

-----------------------------------------------------------------------------

(* `codex-balancer settings fast-mode`, in another process.                *)
CommandWrites(mode) ==
    /\ writes < MaxWrites
    /\ writes' = writes + 1
    /\ row' = mode
    /\ unseen' = TRUE
    /\ UNCHANGED <<policy, watcher, admin, relay>>

LockSettings(worker, mode) == [worker EXCEPT !.step = "locked", !.mode = mode]

BeginReload ==
    /\ watcher.step = "idle"
    /\ SettingsMuFree
    /\ watcher' = LockSettings(watcher, watcher.mode)
    /\ UNCHANGED <<row, policy, admin, relay, writes, unseen>>

ReadRow ==
    /\ watcher.step = "locked"
    /\ watcher' = [step |-> "apply", mode |-> row]
    /\ unseen' = FALSE
    /\ UNCHANGED <<row, policy, admin, relay, writes>>

(* The read of the row may fail.                                           *)
ReadFails ==
    /\ watcher.step = "locked"
    /\ watcher' = [watcher EXCEPT !.step = "idle"]
    /\ UNCHANGED <<row, policy, admin, relay, writes, unseen>>

ApplyReload ==
    /\ watcher.step = "apply"
    /\ SetPolicy(watcher.mode)
    /\ watcher' = [watcher EXCEPT !.step = "idle"]
    /\ UNCHANGED <<row, admin, relay, writes, unseen>>

BeginSave(mode) ==
    /\ admin.step = "idle"
    /\ SettingsMuFree
    /\ writes < MaxWrites
    /\ admin' = LockSettings(admin, mode)
    /\ UNCHANGED <<row, policy, watcher, relay, writes, unseen>>

WriteRow ==
    /\ admin.step = "locked"
    /\ writes < MaxWrites
    /\ writes' = writes + 1
    /\ row' = admin.mode
    /\ unseen' = FALSE
    /\ admin' = [admin EXCEPT !.step = "apply"]
    /\ UNCHANGED <<policy, watcher, relay>>

WriteFails ==
    /\ admin.step = "locked"
    /\ admin' = [admin EXCEPT !.step = "idle"]
    /\ UNCHANGED <<row, policy, watcher, relay, writes, unseen>>

ApplySave ==
    /\ admin.step = "apply"
    /\ SetPolicy(admin.mode)
    /\ admin' = [admin EXCEPT !.step = "idle"]
    /\ UNCHANGED <<row, watcher, relay, writes, unseen>>

(* snapshot, at the start of the handshake.                                *)
CapturePolicy(r) ==
    /\ relay[r].step = "none"
    /\ relay' = [relay EXCEPT ![r] = [step |-> "setup", mode |-> policy.mode,
                                      channel |-> policy.channel]]
    /\ UNCHANGED <<row, policy, watcher, admin, writes, unseen>>

(* The dial and the handshake are over.                                    *)
EnterLoop(r) ==
    /\ relay[r].step = "setup"
    /\ relay' = [relay EXCEPT ![r].step = "loop"]
    /\ UNCHANGED <<row, policy, watcher, admin, writes, unseen>>

(* restartForFastMode: from the select, or from the check that precedes    *)
(* the handling of a message.  A setup that fails ends the relay as well.  *)
RestartRelay(r) ==
    /\ relay[r].step = "loop"
    /\ ChannelClosed(r)
    /\ relay' = [relay EXCEPT ![r] = NoRelay]
    /\ UNCHANGED <<row, policy, watcher, admin, writes, unseen>>

(* The client leaves.                                                      *)
RelayEnds(r) ==
    /\ relay[r].step # "none"
    /\ relay' = [relay EXCEPT ![r] = NoRelay]
    /\ UNCHANGED <<row, policy, watcher, admin, writes, unseen>>

ReloadSettings == BeginReload \/ ReadRow \/ ApplyReload
SaveFastMode == WriteRow \/ WriteFails \/ ApplySave

SettingsNext ==
    \/ \E mode \in Modes : CommandWrites(mode) \/ BeginSave(mode)
    \/ ReloadSettings \/ ReadFails
    \/ SaveFastMode
    \/ \E r \in Relays : CapturePolicy(r) \/ EnterLoop(r) \/ RestartRelay(r) \/ RelayEnds(r)

(* The ticker polls, settingsMu starves nobody, and a read works now and   *)
(* then; a save that has begun goes on; a handshake ends, and the event    *)
(* loop selects.                                                           *)
SettingsFairness ==
    /\ SF_settingsVars(BeginReload) /\ SF_settingsVars(ReadRow) /\ WF_settingsVars(ApplyReload)
    /\ WF_settingsVars(SaveFastMode)
    /\ \A r \in Relays : WF_settingsVars(EnterLoop(r) \/ RestartRelay(r))

SettingsSpec == SettingsInit /\ [][SettingsNext]_settingsVars /\ SettingsFairness

-----------------------------------------------------------------------------
(* Properties.                                                             *)

SettingsTypeOK ==
    /\ row \in Modes
    /\ policy \in [mode: Modes, channel: 0..MaxWrites]
    /\ watcher \in WorkerType
    /\ admin \in WorkerType
    /\ relay \in [Relays -> RelayType]
    /\ writes \in 0..MaxWrites
    /\ unseen \in BOOLEAN

(* "Closing a policy's notification channel reaches every relay that       *)
(* captured it, even a relay that has not yet entered its event loop": a   *)
(* relay that works under another mode than the policy's holds a channel   *)
(* that is closed.                                                         *)
StaleRelayIsTold ==
    \A r \in Relays :
        relay[r].step # "none" /\ relay[r].mode # policy.mode => ChannelClosed(r)

(* At rest the policy is the row, unless the command wrote it since: a     *)
(* poll that overlaps a save of the admin page does not undo it.           *)
PolicyFollowsRow == SettingsMuFree /\ ~unseen => policy.mode = row

(* The way from the row to a relay loses nothing: the policy follows the   *)
(* row, and a relay that the policy has left behind knows of it.           *)
ChangesArrive == StaleRelayIsTold /\ PolicyFollowsRow

(* A mode that stays in the row comes to hold for every relay.             *)
SettingsReachRelays ==
    \A mode \in Modes :
        <>[](row = mode) =>
            <>[](\A r \in Relays : relay[r].step # "none" => relay[r].mode = mode)
=============================================================================
