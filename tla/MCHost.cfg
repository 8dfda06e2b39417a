CONSTANTS
    PageSize   = 4096
    WaitLimit  = 3
    HugeBlocks = 3
    NumWords   = 2
    Rounds     = 2
    Scenarios  <- MCScenarios
CHECK_DEADLOCK FALSE
SPECIFICATION Spec
INVARIANTS
    HostTypeOK
    NoFalseAlarm
    CommandHeard
    NoStaleRead
    RightCore
    DigestIsRight
    ProgramIsRight
    AccessReachesItsAddress
    FpgaUsedWhenConfigured
PROPERTIES
    EveryRunEnds
