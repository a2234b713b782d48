SPECIFICATION LifeSpec
CONSTANTS
    Workers = {w1, w2}
    Requests = {r1, r2}
    MaxRequests = 2
    NoRequest = NoRequest
    Main = main
    Callers = {w1, w2, main}
    MaxLines = 4
INVARIANTS
    PermitAccounting
    PopFindsRequest
    JoinersHavePermits
    LinesInOrder
PROPERTIES
    QueuedIsTaken
    LineIsWritten
    ProcessEnds
