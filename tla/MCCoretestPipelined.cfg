SPECIFICATION Spec
CONSTANTS
    BUFFER_MAX = 3
    Data <- MCData
    Addresses <- MCAddresses
    Commands <- Any
    Window = 2
    MaxCommands = 2
INVARIANTS
    NeverOverrun
PROPERTIES
    BusStable
    ResponseFrozen
    BytesAreTaken
