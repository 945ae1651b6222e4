--------------------------- MODULE ServerShutdown ---------------------------
(***************************************************************************)
(* How the server ends (cmd_server.go, admission.go).                      *)
(*                                                                         *)
(* Requests hold a permit of admissionGate.  A signal starts a drain: no   *)
(* new permits, and a bounded wait for the last one to come back.  Then    *)
(* registration of refreshes is closed, the server's context is canceled,  *)
(* and the refresh operations are joined, at first patiently, after 30     *)
(* seconds by canceling their completion.  SQLite is closed last.  A       *)
(* server that fails to listen or to serve skips the drain, never the join.*)
(***************************************************************************)
EXTENDS AccountRefresh

CONSTANTS
    Requests,  \* the callers that are admitted HTTP requests
    Limit      \* maxActiveProxyRequests

ASSUME ShutdownAssumption ==
    /\ Requests \subseteq Callers
    /\ Limit \in Nat

VARIABLES
    permits,   \* admissionGate.active; its idle channel is closed at 0
    draining,  \* admissionGate.draining
    admitted,  \* requests inside admitted's handler
    server,    \* how far serverCmd has come
    exit       \* what serverCmd returns about the refreshes

gateVars == <<permits, draining, admitted>>
serverVars == <<server, exit>>
vars == <<refreshVars, gateVars, serverVars>>

Stages == {"serving", "draining", "stopping", "canceling", "joining", "closed"}

Init ==
    /\ RefreshInit
    /\ permits = 0
    /\ draining = FALSE
    /\ admitted = {}
    /\ server = "serving"
    /\ exit = "ok"

-----------------------------------------------------------------------------
(* admissionGate and the handler around it.                                *)

Enter(c) ==
    /\ permits' = permits + 1
    /\ admitted' = admitted \cup {c}
    /\ UNCHANGED <<draining, refreshVars, serverVars>>

(* Mutant of Acquire: the gate lets requests in while it drains.           *)
AcquireDraining(c) ==
    /\ c \notin admitted
    /\ permits < Limit
    /\ Enter(c)

Acquire(c) ==
    /\ c \notin admitted
    /\ ~draining
    /\ permits < Limit
    /\ Enter(c)

(* The handler returns; it has no refresh to wait for.                     *)
Release(c) ==
    /\ c \in admitted
    /\ caller[c].step = "idle"
    /\ permits' = permits - 1
    /\ admitted' = admitted \ {c}
    /\ UNCHANGED <<draining, refreshVars, serverVars>>

(* Only a handler that runs, or a background task, refreshes.              *)
Refresh(c) ==
    /\ c \in admitted \/ c \notin Requests
    /\ AskRefresh(c)
    /\ UNCHANGED <<gateVars, serverVars>>

-----------------------------------------------------------------------------
(* drainServer, stopRefreshes and the deferred calls of serverCmd.         *)

Reaches(stage) == server' = stage

BeginDrain ==
    /\ server = "serving"
    /\ draining' = TRUE
    /\ Reaches("draining")
    /\ UNCHANGED <<refreshVars, permits, admitted, exit>>

(* admission.wait: the idle channel is closed, or ten seconds have passed. *)
EndDrain ==
    /\ server = "draining"
    /\ permits = 0
    /\ Reaches("stopping")
    /\ UNCHANGED <<refreshVars, gateVars, exit>>

DrainTimeout ==
    /\ server = "draining"
    /\ Reaches("stopping")
    /\ UNCHANGED <<refreshVars, gateVars, exit>>

(* The listener or the dashboard failed.                                   *)
ServeFailed ==
    /\ server = "serving"
    /\ Reaches("stopping")
    /\ UNCHANGED <<refreshVars, gateVars, exit>>

(* refreshOperations.stop closes registration before anything is canceled. *)
StopRegistration ==
    /\ server = "stopping"
    /\ stopping' = TRUE
    /\ Reaches("canceling")
    /\ UNCHANGED <<credentialVars, inflight, op, caller, active, ended, failure,
                   lifetimeEnded, gateVars, exit>>

CancelLifetime ==
    /\ server = "canceling"
    /\ lifetimeEnded' = TRUE
    /\ Reaches("joining")
    /\ UNCHANGED <<credentialVars, inflight, op, caller, active, stopping, ended,
                   failure, gateVars, exit>>

(* The grace period is over: completions are canceled, and still joined.   *)
JoinTimeout ==
    /\ server = "joining"
    /\ ~ended
    /\ ended' = TRUE
    /\ exit' = "failed"
    /\ UNCHANGED <<credentialVars, inflight, op, caller, active, stopping,
                   failure, lifetimeEnded, gateVars, server>>

(* Mutant of CloseStore: after the grace period nothing is joined.         *)
CloseAnyway ==
    /\ server = "joining"
    /\ active = 0 \/ ended
    /\ ended' = TRUE
    /\ exit' = IF failure THEN "failed" ELSE exit
    /\ Reaches("closed")
    /\ UNCHANGED <<credentialVars, inflight, op, caller, active, stopping,
                   failure, lifetimeEnded, gateVars>>

(* refreshOperations.wait returns; the deferred store.Close runs.          *)
CloseStore ==
    /\ server = "joining"
    /\ active = 0
    /\ ended' = TRUE
    /\ exit' = IF failure THEN "failed" ELSE exit
    /\ Reaches("closed")
    /\ UNCHANGED <<credentialVars, inflight, op, caller, active, stopping,
                   failure, lifetimeEnded, gateVars>>

(* The goroutine that drains, and then serverCmd.                          *)
Proceed ==
    \/ EndDrain
    \/ DrainTimeout
    \/ StopRegistration
    \/ CancelLifetime
    \/ CloseStore

Next ==
    \/ \E c \in Requests : Acquire(c) \/ Release(c)
    \/ \E c \in Callers : Refresh(c)
    \/ RefreshNext /\ UNCHANGED <<gateVars, serverVars>>
    \/ BeginDrain
    \/ ServeFailed
    \/ Proceed
    \/ JoinTimeout

(* Every step of an operation ends: the exchange has a timeout and the     *)
(* completion a budget.  The waits of the shutdown have timeouts too.      *)
(* Nothing is assumed of clients and other callers.                        *)
Fairness ==
    /\ WF_vars((\E i \in Ops : Work(i)) /\ UNCHANGED <<gateVars, serverVars>>)
    /\ WF_vars(Proceed)

Spec == Init /\ [][Next]_vars /\ Fairness

-----------------------------------------------------------------------------
(* Properties.                                                             *)

TypeOK ==
    /\ memory \in [Accounts -> Credential]
    /\ stored \in [Accounts -> Credential]
    /\ clock \in Nat
    /\ refused \subseteq Nat
    /\ inflight \in [Accounts -> Ops \cup {NoOp}]
    /\ op \in [Ops -> Operation]
    /\ caller \in [Callers -> CallerState]
    /\ active \in Nat
    /\ stopping \in BOOLEAN
    /\ ended \in BOOLEAN
    /\ failure \in BOOLEAN
    /\ lifetimeEnded \in BOOLEAN
    /\ permits \in Nat
    /\ draining \in BOOLEAN
    /\ admitted \subseteq Requests
    /\ server \in Stages
    /\ exit \in {"ok", "failed"}

(* When SQLite is closed no refresh is under way that could still write to *)
(* it, publish or notify, and none can start: registration and stopping    *)
(* share a lock (refresh_operations.go:12-14).                             *)
ClosedIsQuiet == server = "closed" => Registered = {}

(* Permits come back on every path: the drain cannot end by itself while a *)
(* request is inside its handler, and no request enters behind its back.   *)
DrainIsComplete ==
    [][draining => /\ admitted' \subseteq admitted
                   /\ EndDrain => admitted = {}]_vars

(* A server that ends with success lost nothing that was under way when    *)
(* the shutdown began: a failure to persist tokens, or to report a         *)
(* signed-out account, is in what serverCmd returns                        *)
(* (refresh_operations.go:23).                                             *)
ExitTellsLoss ==
    server = "closed" /\ exit = "ok" => \A i \in Ops : ~op[i].failed

(* The refreshes keep the contract.                                        *)
Contract == INSTANCE RefreshContract WITH
    holder <- inflight,
    running <- Registered,
    open <- ~stopping,
    closed <- server = "closed"

ContractHolds == Contract!ContractSpec

(* A shutdown that has begun closes SQLite in the end, whatever clients    *)
(* and operations are doing.                                               *)
ShutdownEnds == server # "serving" ~> server = "closed"
=============================================================================
