SPECIFICATION Spec
CONSTANTS
    BUFFER_MAX = 15
    Data <- MCData
    Addresses <- MCAddresses
    Commands <- Any
    Window = 1
    MaxCommands = 2
INVARIANTS
    CounterCountsElements
