SPECIFICATION FairSpec
CONSTANTS
    MaxConns = 3
    Programs <- MCPrograms
    Rows <- MCRows
    Hosts <- MCHosts
    MaxFails = 1
INVARIANTS
    TypeOK
    OpenedAsAsked
PROPERTIES
    Served
CHECK_DEADLOCK FALSE
