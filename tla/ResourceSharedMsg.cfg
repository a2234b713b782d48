SPECIFICATION Spec
CONSTANTS
    t1 = t1
    t2 = t2
    web1 = web1
    Threads = {t1, t2}
    Backend <- OneProcess
    Users = {u1, u2}
    MaxId = 1
    MaxWrites = 1
    MaxFaults = 1
    FaultKinds = {"statement"}
INVARIANTS
    ListIsFromDatabase
