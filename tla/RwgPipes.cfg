SPECIFICATION Spec
CONSTANTS
    MaxUsers = 2
    InitLen = 4
    PipeNumMax = 4
    Offsets <- MCOffsets
    Fds <- MCFds
    MaxRefused = 1
    MaxSessions = 3
    MaxCmds = 3
INVARIANTS
    TypeOK
    LookupsFind
    NothingInherited
    DeliveredWhileAligned
    ServerLetsGo
CHECK_DEADLOCK FALSE
