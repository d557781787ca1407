SPECIFICATION FairCallbackSpec
CONSTANTS
    Block = {c1, c2}
    Call = {k1, k2}
    NULL = NULL
    NotifyInUse = FALSE
    MaxCreated = 4
CHECK_DEADLOCK FALSE
INVARIANTS
    UsedAlive
    ClosuresOwned
PROPERTIES
    DataReleased
