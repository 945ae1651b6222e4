SPECIFICATION Spec
CONSTANTS
    A = A
    B = B
    NoAccount = NoAccount
    Accounts = {A, B}
    Included = {A, B}
    AllowCredits = {B}
    MinCooldown = 1
    MaxCooldown = 2
    Snapshots <- MCSnapshots
    Catalogs <- MCCatalogs
INVARIANTS
    TypeOK
    HintKept
    BoundIsEnough
PROPERTIES
    RepeatsAreSafe
    CreditsLast
    RequestsEnd
