SPECIFICATION Spec
CONSTANTS
    Workers = {w1, w2}
    NoRequest = NoRequest
    MaxRequests = 1
    OsFds = 3
    MaxFd = 3
    ReqLen = 2
    RespLen = 1
    SndBuf = 1
    MaxBacklog = 1
    MaxEarly = 1
SYMMETRY WorkerSymmetry
INVARIANTS
    SingleOwner
    UserCountExact
