SPECIFICATION Spec
CONSTANTS
    Width = 3
    Options <- MCOptions
    Lifetime = 3
    MaxChainSize = 4
    MaxEvents = 4
    MaxTicks = 3
    MaxTransfers = 1
INVARIANTS
    PendingCovered
    CopyAgrees
    RefusedOnlyAfterRejection
PROPERTIES
    AcceptedStays
CHECK_DEADLOCK FALSE
