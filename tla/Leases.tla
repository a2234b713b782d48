------------------------------- MODULE Leases -------------------------------
(***************************************************************************)
(* The two connection pools of a backend together: main() initialises      *)
(* ConnectionPool, which may end the process, then RedisClient, which may  *)
(* leave it without cache, and only then reads requests.  A worker thread  *)
(* is inside one pool at a time: the DAO gives its connection back before  *)
(* the service goes to the cache, and every cache command returns its      *)
(* context before the DAO is called.                                       *)
(***************************************************************************)
EXTENDS ConnectionPool, RedisClient

ASSUME LeasesAssumption == RedisThreads = Threads

leaseVars == <<vars, redisVars>>

LeasesInit == Init /\ RedisInit

\* main(): PostgreSQL first.
StartPostgres ==
    /\ (\E c \in Conns : OpenConnection(c)) \/ OpenFails \/ InitDone
    /\ UNCHANGED redisVars

StartRedis == phase = "ready" /\ RedisStart /\ UNCHANGED vars

\* A DAO call of a thread that is not inside a cache command.
CallDao(t) ==
    /\ redisPhase = "done"
    /\ redisPc[t] = "out"
    /\ Call(t)
    /\ UNCHANGED redisVars

\* A cache command of a thread that is not inside a DAO call.
CallCache(t) == pc[t] = "idle" /\ RedisCall(t) /\ UNCHANGED vars

InDao(t) == Lease(t) /\ UNCHANGED redisVars

InCache(t) == RedisStep(t) /\ UNCHANGED vars

WakesAlone(t) == RedisSpuriousWake(t) /\ UNCHANGED vars

\* connection_pool::init() has called exit(1).
NotStarted == phase = "exit" /\ UNCHANGED leaseVars

LeasesNext ==
    \/ StartPostgres \/ StartRedis \/ NotStarted
    \/ \E t \in Threads :
          CallDao(t) \/ CallCache(t) \/ InDao(t) \/ InCache(t) \/ WakesAlone(t)

\* A thread inside a call keeps running, libpq and hiredis return.  A thread is
\* free never to start a call, and a sleeper need not wake on its own.
LeasesSpec ==
    /\ LeasesInit /\ [][LeasesNext]_leaseVars
    /\ \A t \in Threads : WF_leaseVars(InDao(t)) /\ WF_leaseVars(InCache(t))
=============================================================================
