--------------------------- MODULE RefreshContract --------------------------
(***************************************************************************)
(* What the server promises about credential refreshes, without callers,   *)
(* tokens, timeouts or a drain.                                            *)
(*                                                                         *)
(*   - An account has at most one exchange with the token endpoint.        *)
(*   - Once registration is shut, no operation starts.                     *)
(*   - SQLite is closed when every operation has left it.                  *)
(***************************************************************************)
EXTENDS Naturals

CONSTANTS
    Accounts,  \* account ids
    Ops,       \* refresh operations
    NoOp       \* no operation

VARIABLES
    holder,   \* holder[a]: the operation that may talk about account a
    running,  \* operations that may use SQLite
    open,     \* operations may start
    closed    \* SQLite is closed

contractVars == <<holder, running, open, closed>>

ContractInit ==
    /\ holder = [a \in Accounts |-> NoOp]
    /\ running = {}
    /\ open = TRUE
    /\ closed = FALSE

BeginOperation(a, i) ==
    /\ open
    /\ holder[a] = NoOp
    /\ i \notin running
    /\ holder' = [holder EXCEPT ![a] = i]
    /\ running' = running \cup {i}
    /\ UNCHANGED <<open, closed>>

AnswerWaiters(a) ==
    /\ holder[a] # NoOp
    /\ holder' = [holder EXCEPT ![a] = NoOp]
    /\ UNCHANGED <<running, open, closed>>

LeaveStorage(i) ==
    /\ i \in running
    /\ \A a \in Accounts : holder[a] # i
    /\ running' = running \ {i}
    /\ UNCHANGED <<holder, open, closed>>

ShutRegistration ==
    /\ open' = FALSE
    /\ UNCHANGED <<holder, running, closed>>

CloseStorage ==
    /\ ~open
    /\ running = {}
    /\ closed' = TRUE
    /\ UNCHANGED <<holder, running, open>>

ContractNext ==
    \/ \E a \in Accounts, i \in Ops : BeginOperation(a, i)
    \/ \E a \in Accounts : AnswerWaiters(a)
    \/ \E i \in Ops : LeaveStorage(i)
    \/ ShutRegistration
    \/ CloseStorage

ContractSpec == ContractInit /\ [][ContractNext]_contractVars
=============================================================================
