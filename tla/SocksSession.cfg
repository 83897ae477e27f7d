SPECIFICATION Spec
CONSTANTS
    web = web
    ssh = ssh
    nobody = nobody
    Hosts <- MCHosts
    NoHost = nobody
    CWhites <- MCCWhites
    BWhites <- MCBWhites
    MaxUnits = 2
    Capacity = 2
    BufSize = 2
INVARIANTS
    TypeOK
    StreamIntact
    OnlyPermitted
PROPERTY ImplementsStream
CHECK_DEADLOCK FALSE
