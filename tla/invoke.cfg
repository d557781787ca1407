SPECIFICATION Spec
CONSTANTS
    NULL = NULL
    Call = {c1, c2}
    Signature <- Signatures
    Block = {b1, b2, b3, b4}
    NMax = 3
SYMMETRY Memory
INVARIANTS
    BlocksOwned
    MemoryBalanced
    ReadBeforeFree
