SPECIFICATION Spec
CONSTANTS
    MaxUsers = 2
    InitLen = 4
    PipeNumMax = 4
    Offsets <- MCOffsets
    Fds <- MCFds
    MaxRefused = 1
    MaxSessions = 3
    MaxCmds = 4
INVARIANTS
    Delivered
CHECK_DEADLOCK FALSE
