SPECIFICATION Spec
CONSTANTS
    BUFFER_MAX = 3
    Data <- MCData
    Addresses <- MCAddresses
    Commands <- Known
    Window = 1
    MaxCommands = 3
INVARIANTS
    TypeOK
    CounterCountsElements
PROPERTIES
    IsRemoteMemory
    CommandsAreAnswered
