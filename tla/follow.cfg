SPECIFICATION WeakSpec
CONSTANTS
    Closure = {c1, c2}
    Weak = {w1, w2}
    MaxHeld = 2
    MaxMade = 3
    LateUse = FALSE
SYMMETRY Interchangeable
CHECK_DEADLOCK FALSE
INVARIANTS
    ClosuresListed
    ClearedNotCalled
    WeakRefsKept
