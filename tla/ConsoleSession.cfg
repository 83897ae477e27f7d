CONSTANTS
    Sessions = {1, 2}
    Programs = {"cgi", "socks", "web"}
    Script <- MCScript
    LineCap = 1
    PageCap = 2
    MaxLines = 3
    MaxNoise = 1
    MaxOwed = 2
SPECIFICATION FairSpec
INVARIANTS
    TypeOK
    OneTurn
    LinesInOrder
    PageFaithful
PROPERTY ScriptRuns
CHECK_DEADLOCK FALSE
