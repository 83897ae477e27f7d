SPECIFICATION FairSpec
CONSTANTS
    InitLen = 4
    PipeNumMax = 3
    Offsets <- MCOffsets
    Fds <- MCFds
    MaxCmds = 3
    Work = 1
    Capacity = 1
PROPERTIES
    NothingHangs
CHECK_DEADLOCK FALSE
