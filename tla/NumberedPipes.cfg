SPECIFICATION Spec
CONSTANTS
    InitLen = 4
    PipeNumMax = 3
    Offsets <- MCOffsets
    Fds <- MCFds
    MaxCmds = 4
    Work = 1
    Capacity = 1
INVARIANTS
    TypeOK
    Routing
    OffsetInTable
    EofReachable
    PipesAccounted
    InputComplete
PROPERTIES
    ImplementsFlow
CHECK_DEADLOCK FALSE
