---------------------------- MODULE RedisClient -----------------------------
(***************************************************************************)
(* The Redis connection pool of src/src/cache/redis_client.cpp.  A thread  *)
(* that runs GET, SETEX or DEL leases a context; a context whose command   *)
(* failed is freed and replaced; when the replacement fails the whole pool *)
(* is given up and available_ stays false until the process restarts.      *)
(*                                                                         *)
(* A critical section of mtx_ is one action; create_connection(), the      *)
(* commands and the notifications of cv_ happen outside it and are actions *)
(* of their own.                                                           *)
(***************************************************************************)
EXTENDS Integers, Sequences, FiniteSets

CONSTANTS
    RedisThreads,   \* the worker threads
    Contexts,       \* the redisContext* values create_connection() may return
    RedisPoolSize,  \* DEFAULT_REDIS_POOL_SIZE
    NoContext       \* nullptr

ASSUME RedisAssumption ==
    /\ IsFiniteSet(RedisThreads)
    /\ IsFiniteSet(Contexts)
    /\ RedisPoolSize \in Nat \ {0}
    /\ RedisPoolSize <= Cardinality(Contexts)
    /\ NoContext \notin Contexts

VARIABLES
    conn_pool_,   \* the idle contexts, oldest first
    available_,
    opened,       \* the contexts that are allocated and connected
    redisPhase,   \* "init" while main runs init(), then "done"
    redisPc,      \* where each thread is in a command
    context       \* the context each thread holds

redisVars == <<conn_pool_, available_, opened, redisPhase, redisPc, context>>

\* "get" wants the mutex in get_connection(), "asleep" is inside cv_.wait(),
\* "command" holds a context, "replace" has freed it in discard_connection(),
\* "put" is about to release a context, "notify" has released it, "giveup" has
\* no replacement, "notifyAll" has cleared the pool.
RedisStates ==
    {"out", "get", "asleep", "command", "replace", "put", "notify", "giveup", "notifyAll"}

RedisAt(label) == {t \in RedisThreads : redisPc[t] = label}

RedisGoto(t, label) == redisPc' = [redisPc EXCEPT ![t] = label]

Pooled == {conn_pool_[i] : i \in DOMAIN conn_pool_}

RedisInit ==
    /\ conn_pool_ = <<>>
    /\ available_ = FALSE
    /\ opened = {}
    /\ redisPhase = "init"
    /\ redisPc = [t \in RedisThreads |-> "out"]
    /\ context = [t \in RedisThreads |-> NoContext]

-----------------------------------------------------------------------------
(* init(), called by main before the first request is read *)

RedisOpen(c) ==
    /\ redisPhase = "init"
    /\ Len(conn_pool_) < RedisPoolSize
    /\ c \notin opened
    /\ opened' = opened \cup {c}
    /\ conn_pool_' = Append(conn_pool_, c)
    /\ UNCHANGED <<available_, redisPhase, redisPc, context>>

\* create_connection() fails: clear_pool(), the process goes on without cache.
\* With an empty pool this is also a process started with REDIS_ENABLED off.
RedisOpenFails ==
    /\ redisPhase = "init"
    /\ Len(conn_pool_) < RedisPoolSize
    /\ opened' = opened \ Pooled
    /\ conn_pool_' = <<>>
    /\ redisPhase' = "done"
    /\ UNCHANGED <<available_, redisPc, context>>

RedisReady ==
    /\ redisPhase = "init"
    /\ Len(conn_pool_) = RedisPoolSize
    /\ available_' = TRUE
    /\ redisPhase' = "done"
    /\ UNCHANGED <<conn_pool_, opened, redisPc, context>>

-----------------------------------------------------------------------------
(* get_connection() *)

\* get(), set() with a positive ttl, or del() is called.
RedisCall(t) ==
    /\ redisPhase = "done"
    /\ redisPc[t] = "out"
    /\ RedisGoto(t, "get")
    /\ UNCHANGED <<conn_pool_, available_, opened, redisPhase, context>>

\* The critical section, from the first test of available_ or from the return
\* of the wait: both lead to the same three ways out.
RedisLease(t) ==
    /\ redisPc[t] = "get"
    /\ \/ /\ ~available_
          /\ RedisGoto(t, "out")
          /\ UNCHANGED <<conn_pool_, context>>
       \/ /\ available_ /\ conn_pool_ = <<>>
          /\ RedisGoto(t, "asleep")
          /\ UNCHANGED <<conn_pool_, context>>
       \/ /\ available_ /\ conn_pool_ # <<>>
          /\ context' = [context EXCEPT ![t] = Head(conn_pool_)]
          /\ conn_pool_' = Tail(conn_pool_)
          /\ RedisGoto(t, "command")
    /\ UNCHANGED <<available_, opened, redisPhase>>

\* cv_.wait() may return on its own.
RedisSpuriousWake(t) ==
    /\ redisPc[t] = "asleep"
    /\ RedisGoto(t, "get")
    /\ UNCHANGED <<conn_pool_, available_, opened, redisPhase, context>>

-----------------------------------------------------------------------------
(* The command, then release_connection() or discard_connection() *)

\* redisCommand() returns a reply, an error reply included.
RedisReply(t) ==
    /\ redisPc[t] = "command"
    /\ RedisGoto(t, "put")
    /\ UNCHANGED <<conn_pool_, available_, opened, redisPhase, context>>

\* redisCommand() returns nullptr: discard_connection() frees the context.
RedisNoReply(t) ==
    /\ redisPc[t] = "command"
    /\ opened' = opened \ {context[t]}
    /\ context' = [context EXCEPT ![t] = NoContext]
    /\ RedisGoto(t, "replace")
    /\ UNCHANGED <<conn_pool_, available_, redisPhase>>

\* create_connection() in discard_connection() succeeds.
RedisReplace(t) ==
    /\ redisPc[t] = "replace"
    /\ \E c \in Contexts \ opened :
          /\ opened' = opened \cup {c}
          /\ context' = [context EXCEPT ![t] = c]
    /\ RedisGoto(t, "put")
    /\ UNCHANGED <<conn_pool_, available_, redisPhase>>

\* It fails, and has freed whatever it had opened.
RedisReplaceFails(t) ==
    /\ redisPc[t] = "replace"
    /\ RedisGoto(t, "giveup")
    /\ UNCHANGED <<conn_pool_, available_, opened, redisPhase, context>>

\* Mutant: release_connection() does not look at available_.
RedisPutUnchecked(t) ==
    /\ redisPc[t] = "put"
    /\ conn_pool_' = Append(conn_pool_, context[t])
    /\ RedisGoto(t, "notify")
    /\ context' = [context EXCEPT ![t] = NoContext]
    /\ UNCHANGED <<available_, opened, redisPhase>>

\* The critical section of release_connection().
RedisPut(t) ==
    /\ redisPc[t] = "put"
    /\ \/ /\ ~available_
          /\ opened' = opened \ {context[t]}
          /\ RedisGoto(t, "out")
          /\ UNCHANGED conn_pool_
       \/ /\ available_
          /\ conn_pool_' = Append(conn_pool_, context[t])
          /\ RedisGoto(t, "notify")
          /\ UNCHANGED opened
    /\ context' = [context EXCEPT ![t] = NoContext]
    /\ UNCHANGED <<available_, redisPhase>>

\* Mutant: release_connection() does not notify.
RedisNotifyDropped(t) ==
    /\ redisPc[t] = "notify"
    /\ RedisGoto(t, "out")
    /\ UNCHANGED <<conn_pool_, available_, opened, redisPhase, context>>

\* cv_.notify_one() wakes any one of the sleepers.
RedisNotify(t) ==
    /\ redisPc[t] = "notify"
    /\ \/ /\ RedisAt("asleep") = {}
          /\ RedisGoto(t, "out")
       \/ \E u \in RedisAt("asleep") :
             redisPc' = [redisPc EXCEPT ![t] = "out", ![u] = "get"]
    /\ UNCHANGED <<conn_pool_, available_, opened, redisPhase, context>>

\* The critical section of discard_connection(), clear_pool() included.
RedisGiveUp(t) ==
    /\ redisPc[t] = "giveup"
    /\ available_' = FALSE
    /\ opened' = opened \ Pooled
    /\ conn_pool_' = <<>>
    /\ RedisGoto(t, "notifyAll")
    /\ UNCHANGED <<redisPhase, context>>

\* Mutant: notify_one instead of notify_all.
RedisNotifyAllOne(t) ==
    /\ redisPc[t] = "notifyAll"
    /\ \/ /\ RedisAt("asleep") = {}
          /\ RedisGoto(t, "out")
       \/ \E u \in RedisAt("asleep") :
             redisPc' = [redisPc EXCEPT ![t] = "out", ![u] = "get"]
    /\ UNCHANGED <<conn_pool_, available_, opened, redisPhase, context>>

\* cv_.notify_all()
RedisNotifyAll(t) ==
    /\ redisPc[t] = "notifyAll"
    /\ redisPc' = [u \in RedisThreads |->
                      IF u = t THEN "out"
                      ELSE IF redisPc[u] = "asleep" THEN "get" ELSE redisPc[u]]
    /\ UNCHANGED <<conn_pool_, available_, opened, redisPhase, context>>

-----------------------------------------------------------------------------
\* A command under way; a sleeper is moved on by the others.
RedisStep(t) ==
    \/ RedisLease(t) \/ RedisReply(t) \/ RedisNoReply(t)
    \/ RedisReplace(t) \/ RedisReplaceFails(t)
    \/ RedisPut(t) \/ RedisNotify(t) \/ RedisGiveUp(t) \/ RedisNotifyAll(t)

RedisStart == (\E c \in Contexts : RedisOpen(c)) \/ RedisOpenFails \/ RedisReady

RedisNext ==
    \/ RedisStart
    \/ \E t \in RedisThreads : RedisCall(t) \/ RedisStep(t) \/ RedisSpuriousWake(t)

RedisSpec == RedisInit /\ [][RedisNext]_redisVars

-----------------------------------------------------------------------------
(* Properties *)

\* Type invariant of the client and its callers.
RedisTypeOK ==
    /\ conn_pool_ \in Seq(Contexts)
    /\ available_ \in BOOLEAN
    /\ opened \in SUBSET Contexts
    /\ redisPhase \in {"init", "done"}
    /\ redisPc \in [RedisThreads -> RedisStates]
    /\ context \in [RedisThreads -> Contexts \cup {NoContext}]

\* The threads that hold a context.
Holding == RedisAt("command") \cup RedisAt("put")

\* The contexts that are open are exactly those in the pool and those with a
\* thread, each in one place: none is used after redisFree, freed twice,
\* shared or leaked, whichever way commands and replacements end and whenever
\* another thread gives the pool up.  While the pool is available it keeps its
\* size, the replacements under way included; once it is given up no context
\* stays idle in it.
ContextsConserved ==
    /\ opened = Pooled \cup {context[t] : t \in Holding}
    /\ Cardinality(opened) = Len(conn_pool_) + Cardinality(Holding)
    /\ redisPhase = "done" =>
          IF available_
          THEN Len(conn_pool_)
                  + Cardinality(Holding \cup RedisAt("replace") \cup RedisAt("giveup"))
               = RedisPoolSize
          ELSE conn_pool_ = <<>>

\* No wake-up is lost although the contexts come back under the mutex and the
\* notifications after it: while a thread sleeps, every idle context has a
\* notification under way or a thread about to take it, and a pool that was
\* given up has its notify_all under way.
NoLostWakeup ==
    RedisAt("asleep") # {} =>
        /\ Len(conn_pool_) <= Cardinality(RedisAt("notify") \cup RedisAt("get"))
        /\ ~available_ => RedisAt("notifyAll") # {}

\* When the pool is given up, every thread that waits for a context returns
\* without one; none sleeps on a pool that will never be refilled.
GiveUpFreesWaiters ==
    \A t \in RedisThreads :
        (redisPc[t] = "asleep" /\ ~available_) ~> (redisPc[t] = "out")
=============================================================================
