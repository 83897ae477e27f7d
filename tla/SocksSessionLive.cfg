SPECIFICATION FairSpec
CONSTANTS
    web = web
    ssh = ssh
    nobody = nobody
    Hosts <- MCOneHost
    NoHost = nobody
    CWhites <- MCAnyone
    BWhites <- MCAnyone
    MaxUnits = 1
    Capacity = 1
    BufSize = 1
PROPERTIES
    Arrives
    SessionEnds
CHECK_DEADLOCK FALSE
