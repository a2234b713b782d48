SPECIFICATION LeasesSpec
CONSTANTS
    Threads = {t1, t2, t3, t4}
    Conns = {c1, c2}
    NoConn = NoConn
    RedisThreads = {t1, t2, t3, t4}
    Contexts = {x1, x2, x3}
    RedisPoolSize = 2
    NoContext = NoContext
INVARIANTS
    LeaseExclusive
    NoConnectionLost
    PermitFindsConnection
    AcquireNeverBlocks
    ContextsConserved
    NoLostWakeup
PROPERTIES
    SomeWaiterIsServed
    GiveUpFreesWaiters
