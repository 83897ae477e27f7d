SPECIFICATION Spec
CONSTANTS
    anon = anon
    std = std
    MaxUsers = 6
    Fds <- MCManyFds
    Saved = 3
    Names = {}
    NoName = anon
    Vars = {}
    Values = {}
    DefaultEnv <- MCNoEnv
    MaxSessions = 12
INVARIANTS
    WhoListsOnlineUsers
CHECK_DEADLOCK FALSE
