CONSTANTS
    PageSize   = 4096
    WaitLimit  = 3
    HugeBlocks = 3
    NumWords   = 2
    Rounds     = 2
    Scenarios  <- MCLongFile
CHECK_DEADLOCK FALSE
SPECIFICATION Spec
INVARIANTS
    DigestOfAnyFile
