SPECIFICATION Spec
CONSTANTS
    c1 = c1
    c2 = c2
    none = none
    ann = ann
    anon = anon
    MaxUsers = 2
    Clients <- MCClients
    Nobody = none
    Names <- MCNames
    NoName = anon
    Commands <- MCOut
    MaxLines = 1
PROPERTY RefusedAbsent
CHECK_DEADLOCK FALSE
