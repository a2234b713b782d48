SPECIFICATION Spec
CONSTANTS
    t1 = t1
    t2 = t2
    web1 = web1
    Threads = {t1, t2}
    Backend <- OneProcess
    Users = {u1}
    MaxId = 1
    MaxWrites = 2
    MaxFaults = 1
    FaultKinds = {"redis", "statement", "reply"}
PROPERTIES
    EventuallyFresh
    RequestIsAnswered
