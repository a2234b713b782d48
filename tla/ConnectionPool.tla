--------------------------- MODULE ConnectionPool ---------------------------
(***************************************************************************)
(* The PostgreSQL connection pool of src/src/db/connection_pool.cpp and    *)
(* the lease a DAO call takes of it through its ConnectionPtr guard.       *)
(*                                                                         *)
(* The mutex protects conn_list and the two counters; the semaphore is     *)
(* taken before the mutex and given back after it, so permits and          *)
(* connections only agree up to the threads in between.  A critical        *)
(* section is one action, each semaphore operation another.                *)
(***************************************************************************)
EXTENDS Integers, Sequences, FiniteSets

CONSTANTS
    Threads,   \* the worker threads, which run the DAO calls
    Conns,     \* the connections init() opens; max_conn is their number
    NoConn     \* NULL

ASSUME ConnectionAssumption ==
    /\ IsFiniteSet(Threads)
    /\ IsFiniteSet(Conns)
    /\ NoConn \notin Conns

VARIABLES
    conn_list,   \* the idle connections, in the order they will be leased
    reserve,     \* permits of the counting semaphore
    free_conn, cur_conn,
    phase,       \* "init" while init() runs, then "ready", or "exit" after exit(1)
    pc,          \* where each thread is
    lease        \* the connection each thread holds

vars == <<conn_list, reserve, free_conn, cur_conn, phase, pc, lease>>

\* "acquire" waits for a permit, "lock" has one and waits for the mutex,
\* "query" holds a connection, "release" has put it back and still owes the
\* permit.
PcStates == {"idle", "acquire", "lock", "query", "release"}

At(label) == {t \in Threads : pc[t] = label}

\* The threads that have taken a permit and no connection yet, or have put the
\* connection back and still owe the permit.
InBetween == At("lock") \cup At("release")

Goto(t, label) == pc' = [pc EXCEPT ![t] = label]

Idle == {conn_list[i] : i \in DOMAIN conn_list}

Init ==
    /\ conn_list = <<>>
    /\ reserve = 0
    /\ free_conn = 0
    /\ cur_conn = 0
    /\ phase = "init"
    /\ pc = [t \in Threads |-> "idle"]
    /\ lease = [t \in Threads |-> NoConn]

-----------------------------------------------------------------------------
(* init(), called by main before the first request is read *)

OpenConnection(c) ==
    /\ phase = "init"
    /\ c \notin Idle
    /\ conn_list' = Append(conn_list, c)
    /\ free_conn' = free_conn + 1
    /\ UNCHANGED <<reserve, cur_conn, phase, pc, lease>>

\* PQconnectdb fails: exit(1).
OpenFails ==
    /\ phase = "init"
    /\ Len(conn_list) < Cardinality(Conns)
    /\ phase' = "exit"
    /\ UNCHANGED <<conn_list, reserve, free_conn, cur_conn, pc, lease>>

InitDone ==
    /\ phase = "init"
    /\ Len(conn_list) = Cardinality(Conns)
    /\ reserve' = free_conn
    /\ phase' = "ready"
    /\ UNCHANGED <<conn_list, free_conn, cur_conn, pc, lease>>

Exited == phase = "exit" /\ UNCHANGED vars

-----------------------------------------------------------------------------
(* A DAO call *)

\* ConnectionPtr conn(connection_pool::get_instance()->get_connection())
Call(t) ==
    /\ phase = "ready"
    /\ pc[t] = "idle"
    /\ Goto(t, "acquire")
    /\ UNCHANGED <<conn_list, reserve, free_conn, cur_conn, phase, lease>>

\* reserve->acquire()
Acquire(t) ==
    /\ pc[t] = "acquire"
    /\ reserve > 0
    /\ reserve' = reserve - 1
    /\ Goto(t, "lock")
    /\ UNCHANGED <<conn_list, free_conn, cur_conn, phase, lease>>

\* Mutant: the connection is read but stays in the list.
TakeWithoutPop(t) ==
    /\ pc[t] = "lock"
    /\ lease' = [lease EXCEPT ![t] = Head(conn_list)]
    /\ free_conn' = free_conn - 1
    /\ cur_conn' = cur_conn + 1
    /\ Goto(t, "query")
    /\ UNCHANGED <<conn_list, reserve, phase>>

\* The critical section of get_connection().  On an empty list it returns
\* NULL: the DAO reports "DB connection failed." and the permit is gone.
Take(t) ==
    /\ pc[t] = "lock"
    /\ IF conn_list = <<>>
       THEN /\ Goto(t, "idle")
            /\ UNCHANGED <<conn_list, free_conn, cur_conn, lease>>
       ELSE /\ lease' = [lease EXCEPT ![t] = Head(conn_list)]
            /\ conn_list' = Tail(conn_list)
            /\ free_conn' = free_conn - 1
            /\ cur_conn' = cur_conn + 1
            /\ Goto(t, "query")
    /\ UNCHANGED <<reserve, phase>>

\* Mutant: cur_conn is not counted down.
PutBackUncounted(t) ==
    /\ pc[t] = "query"
    /\ conn_list' = Append(conn_list, lease[t])
    /\ free_conn' = free_conn + 1
    /\ lease' = [lease EXCEPT ![t] = NoConn]
    /\ Goto(t, "release")
    /\ UNCHANGED <<reserve, cur_conn, phase>>

\* Mutant: an error return leaves the DAO without the guard's release.
PutBackOrLeak(t) ==
    /\ pc[t] = "query"
    /\ \/ /\ conn_list' = Append(conn_list, lease[t])
          /\ free_conn' = free_conn + 1
          /\ cur_conn' = cur_conn - 1
          /\ Goto(t, "release")
       \/ Goto(t, "idle") /\ UNCHANGED <<conn_list, free_conn, cur_conn>>
    /\ lease' = [lease EXCEPT ![t] = NoConn]
    /\ UNCHANGED <<reserve, phase>>

\* The query has succeeded, failed or thrown; each way out of the DAO runs
\* ConnectionReleaser, and so the critical section of release_connection().
PutBack(t) ==
    /\ pc[t] = "query"
    /\ conn_list' = Append(conn_list, lease[t])
    /\ free_conn' = free_conn + 1
    /\ cur_conn' = cur_conn - 1
    /\ lease' = [lease EXCEPT ![t] = NoConn]
    /\ Goto(t, "release")
    /\ UNCHANGED <<reserve, phase>>

\* Mutant: release_connection() does not release the semaphore.
ReleaseDropped(t) ==
    /\ pc[t] = "release"
    /\ Goto(t, "idle")
    /\ UNCHANGED <<conn_list, reserve, free_conn, cur_conn, phase, lease>>

\* Mutant: the semaphore is released twice.
ReleaseTwice(t) ==
    /\ pc[t] = "release"
    /\ reserve' = reserve + 2
    /\ Goto(t, "idle")
    /\ UNCHANGED <<conn_list, free_conn, cur_conn, phase, lease>>

\* reserve->release()
Release(t) ==
    /\ pc[t] = "release"
    /\ reserve' = reserve + 1
    /\ Goto(t, "idle")
    /\ UNCHANGED <<conn_list, free_conn, cur_conn, phase, lease>>

-----------------------------------------------------------------------------
Lease(t) == Acquire(t) \/ Take(t) \/ PutBack(t) \/ Release(t)

Next ==
    \/ \E c \in Conns : OpenConnection(c)
    \/ OpenFails \/ InitDone \/ Exited
    \/ \E t \in Threads : Call(t) \/ Lease(t)

SafetySpec == Init /\ [][Next]_vars

\* A thread inside a DAO call keeps running and libpq returns.  A thread is
\* free never to start a call; which waiting thread gets a permit is left
\* open, as std::counting_semaphore leaves it.
Spec == SafetySpec /\ \A t \in Threads : WF_vars(Lease(t))

-----------------------------------------------------------------------------
(* Properties *)

\* Type invariant of the pool and its callers.
TypeOK ==
    /\ conn_list \in Seq(Conns)
    /\ reserve \in Nat
    /\ free_conn \in Nat
    /\ cur_conn \in Nat
    /\ phase \in {"init", "ready", "exit"}
    /\ pc \in [Threads -> PcStates]
    /\ lease \in [Threads -> Conns \cup {NoConn}]

\* A connection is never with two threads, nor leased and in the list: two
\* queries on one PGconn at the same time would mix their results.
LeaseExclusive ==
    /\ \A i, j \in DOMAIN conn_list : conn_list[i] = conn_list[j] => i = j
    /\ \A t \in Threads : lease[t] # NoConn =>
          /\ lease[t] \notin Idle
          /\ \A u \in Threads : lease[u] = lease[t] => u = t

\* No connection is lost, whichever way a query ends: once init() is done,
\* each is idle or with a thread, and the two counters say how many are where.
NoConnectionLost ==
    /\ phase = "ready" => Idle \cup {lease[t] : t \in At("query")} = Conns
    /\ free_conn = Len(conn_list)
    /\ cur_conn = Cardinality(At("query"))

\* The permits, with the threads that hold one or still owe one, are exactly
\* the idle connections.
PermitsMatchList ==
    phase = "ready" =>
        Len(conn_list) = reserve + Cardinality(InBetween)

\* A thread that has passed the semaphore finds a connection: get_connection()
\* never returns NULL ("DB connection failed." never shows).
PermitFindsConnection == At("lock") # {} => conn_list # <<>>

\* While no more threads are inside a DAO call than there are connections
\* (main starts ten of each), none of them blocks in acquire(), although
\* permits come back later than connections.
AcquireNeverBlocks ==
    At("acquire") # {} /\ Cardinality(Threads \ At("idle")) <= Cardinality(Conns)
        => reserve > 0

\* With more threads than connections, a waiting thread may be passed over,
\* but a permit always comes back for one that waits.
SomeWaiterIsServed == (At("acquire") # {}) ~> (At("lock") # {})
=============================================================================
