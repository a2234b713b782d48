SPECIFICATION Spec
CONSTANTS
    Workers = {w1, w2}
    NoRequest = NoRequest
    MaxRequests = 2
    OsFds = 2
    MaxFd = 2
    ReqLen = 2
    RespLen = 2
    SndBuf = 1
    MaxBacklog = 1
    MaxEarly = 2
INVARIANTS
    StreamConservation
    AlwaysAttended
PROPERTIES
    RequestIsAnswered
    HangupIsClosed
    PoolInside
