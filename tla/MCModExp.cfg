CONSTANTS
    WordBits = 3
    Length   = 2
    Base     = 64
    Problems <- MCProblems
CHECK_DEADLOCK FALSE
SPECIFICATION Spec
INVARIANTS
    ModExpTypeOK
    NothingOverflows
    PartialProduct
    LoopInvariant
    ResultIsPower
    WordArithmetic
PROPERTIES
    Terminates
