SPECIFICATION Spec
CONSTANTS
    NULL = NULL
    MaxGiven = 5
    MaxNamed = 2
    Callable <- Callables
CHECK_DEADLOCK FALSE
INVARIANTS
    SignatureKept
    CallableGets
