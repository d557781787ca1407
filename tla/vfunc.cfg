SPECIFICATION Spec
CONSTANTS
    NULL = NULL
    Root = "r"
    Interfaces = {"I", "J"}
    Vfuncs <- SomeVfuncs
    CSignals = {"c"}
    Programs <- SomePrograms
    Tries = 5
INVARIANTS
    CallsNearest
    FailsForReason
    ReadyIsWhole
CHECK_DEADLOCK FALSE
