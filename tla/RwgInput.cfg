SPECIFICATION InputSpec
CONSTANTS
    ann = ann
    bob = bob
    anon = anon
    PATH = PATH
    std = std
    own = own
    MaxUsers = 3
    Fds <- MCFds
    Saved = 3
    Names <- MCNames
    NoName = anon
    Vars <- MCVars
    Values <- MCValues
    DefaultEnv <- MCDefault
    MaxSessions = 3
    MaxTyped = 3
    MaxTerminal = 1
INVARIANTS
    TypeOK
    LookupFindsCaller
    UsersAreConnections
    EnvIsOwn
    Attribution
CHECK_DEADLOCK FALSE
