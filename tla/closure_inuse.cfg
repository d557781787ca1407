SPECIFICATION CallbackSpec
CONSTANTS
    Block = {c1, c2}
    Call = {k1}
    NULL = NULL
    NotifyInUse = TRUE
    MaxCreated = 2

CHECK_DEADLOCK FALSE
INVARIANTS
    UsedAlive
