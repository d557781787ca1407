SPECIFICATION Spec
CONSTANTS
    o1 = o1
    o2 = o2
    w1 = w1
    w2 = w2
    w3 = w3
    base = base
    sub = sub
    v0 = v0
    v1 = v1
    NULL = NULL
    Object = {o1, o2}
    Wrapper = {w1, w2, w3}
    Class = {base, sub}
    Val = {v0, v1}
    Runner = {r1}
    PyTyped = {o1}
    TypeOf <- MixedType
    CustomDispose = {sub}
    Empty = v0
    RewrapDying = FALSE
    MaxRefs = 1
    MaxHeld = 1
SYMMETRY Blocks
CHECK_DEADLOCK FALSE
INVARIANTS
    HandlesUsable
    OneWrapper
    RefCountExact
    DisposeSeesObject
PROPERTIES
    InstancePersists
    DisposedInTime
