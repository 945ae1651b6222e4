SPECIFICATION Spec
CONSTANTS
    A = A
    B = B
    s1 = s1
    s2 = s2
    NoAccount = NoAccount
    Accounts = {A, B}
    Sockets = {s1}
    Writers = {"cli"}
    Mailbox = 4
CHECK_DEADLOCK FALSE
INVARIANTS
    RelayIsReached
PROPERTIES
    PausedAccountDrains
