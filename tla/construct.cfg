SPECIFICATION Spec
CONSTANTS
    NULL = NULL
    o1 = o1
    o2 = o2
    o3 = o3
    Object = {o1, o2, o3}
    Wrapper = {w1, w2, w3}
    Class <- Classes
    TypeOf <- Types
    Levels <- LevelsOf
    Unowned = {"Widget", "Button"}
    Templates = {"Widget"}
    EarlyUse = FALSE
    KeptByNew = FALSE
    MaxDepth = 3
    MaxRefs = 1
    MaxHeld = 1
SYMMETRY Blocks
CHECK_DEADLOCK FALSE
INVARIANTS
    ConstructionBalanced
PROPERTIES
    IsInstance
