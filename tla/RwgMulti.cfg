SPECIFICATION Spec
CONSTANTS
    c1 = c1
    c2 = c2
    none = none
    ann = ann
    anon = anon
    MaxUsers = 2
    Clients <- MCClients
    Nobody = none
    Names <- MCNames
    NoName = anon
    Commands <- MCAll
    MaxLines = 1
INVARIANTS
    TypeOK
    OwnEntry
    NamesUnique
    NewsReach
    PipeAddressed
    ReadEndOpened
    LeaversErased
    CircleNeedsClash
SYMMETRY MCEither
CHECK_DEADLOCK FALSE
