SPECIFICATION Spec
CONSTANTS
    MaxFloat = 40
    MaxDouble = 100
    Enums <- Classes
    Declarations <- Places
    Objects <- Given
    Bounds <- BoundsOf
    CValues <- OfC
CHECK_DEADLOCK FALSE
INVARIANTS
    ValuesKept
    TakesItsRange
    SpecAsDeclared
PROPERTY
    RefusedLeavesAlone
