----------------------------- MODULE ThreadPool -----------------------------
(***************************************************************************)
(* The worker pool of src/src/thread/threadpool.h: a bounded FIFO of       *)
(* requests under a mutex, a counting semaphore that wakes the workers,    *)
(* and an atomic stop flag that the destructor raises.                     *)
(*                                                                         *)
(* A critical section of m_queuelocker is one action.  What is done        *)
(* outside the lock (the semaphore operations, the loads of m_stop, the    *)
(* call of process()) is an action of its own, so that every interleaving  *)
(* of the main thread and the workers at those points is a behaviour.      *)
(***************************************************************************)
EXTENDS Integers, Sequences, FiniteSets

CONSTANTS
    Workers,      \* the threads of m_threads; thread_number is their number
    Requests,     \* the T* values that may be appended
    MaxRequests,  \* m_max_requests
    NoRequest     \* nullptr

ASSUME PoolAssumption ==
    /\ IsFiniteSet(Workers)
    /\ Workers # {}                  \* thread_number > 0
    /\ MaxRequests \in Nat \ {0}     \* max_requests > 0
    /\ NoRequest \notin Requests

VARIABLES
    m_workqueue,  \* the queued requests, oldest first
    m_queuestat,  \* permits of the counting semaphore
    m_stop,       \* the atomic stop flag
    workerPc,     \* where each worker is in run()
    request,      \* the local variable request of each worker
    mainPc        \* where the main thread is in append() or ~threadpool()

poolVars == <<m_workqueue, m_queuestat, m_stop, workerPc, request, mainPc>>

(***************************************************************************)
(* run(): "test" is the loop condition, "acquire" the semaphore wait,      *)
(* "woken" the second look at m_stop, "pop" the critical section,          *)
(* "process" the call of request->process(), "exited" the end of the       *)
(* thread.  main: "loop" outside the pool, "release" between the unlock    *)
(* and the release of append(), then the three steps of the destructor.    *)
(***************************************************************************)
WorkerStates == {"test", "acquire", "woken", "pop", "process", "exited"}
MainStates   == {"loop", "release", "stopping", "joining", "joined"}

At(label) == {w \in Workers : workerPc[w] = label}

Goto(w, label) == workerPc' = [workerPc EXCEPT ![w] = label]

PoolInit ==
    /\ m_workqueue = <<>>
    /\ m_queuestat = 0
    /\ m_stop = FALSE
    /\ workerPc = [w \in Workers |-> "test"]
    /\ request = [w \in Workers |-> NoRequest]
    /\ mainPc = "loop"

-----------------------------------------------------------------------------
(* append(): the main thread is the only caller. *)

\* The critical section of append() when the queue has room.
AppendPush(r) ==
    /\ mainPc = "loop"
    /\ Len(m_workqueue) < MaxRequests
    /\ m_workqueue' = Append(m_workqueue, r)
    /\ mainPc' = "release"
    /\ UNCHANGED <<m_queuestat, m_stop, workerPc, request>>

\* Mutant: the semaphore is released for a rejected request too.
AppendRejectReleases ==
    /\ mainPc = "loop"
    /\ Len(m_workqueue) >= MaxRequests
    /\ mainPc' = "release"
    /\ UNCHANGED <<m_workqueue, m_queuestat, m_stop, workerPc, request>>

\* append() returns false: the pool keeps nothing of the request.
AppendReject ==
    /\ mainPc = "loop"
    /\ Len(m_workqueue) >= MaxRequests
    /\ UNCHANGED poolVars

\* Mutant: append() forgets to wake a worker.
AppendWithoutRelease ==
    /\ mainPc = "release"
    /\ mainPc' = "loop"
    /\ UNCHANGED <<m_workqueue, m_queuestat, m_stop, workerPc, request>>

\* m_queuestat.release(), after the mutex is released.
AppendRelease ==
    /\ mainPc = "release"
    /\ m_queuestat' = m_queuestat + 1
    /\ mainPc' = "loop"
    /\ UNCHANGED <<m_workqueue, m_stop, workerPc, request>>

-----------------------------------------------------------------------------
(* ~threadpool() *)

DestructorStop ==
    /\ mainPc = "loop"
    /\ m_stop' = TRUE
    /\ mainPc' = "stopping"
    /\ UNCHANGED <<m_workqueue, m_queuestat, workerPc, request>>

\* Mutant: release() instead of release(m_thread_number).
DestructorReleaseOne ==
    /\ mainPc = "stopping"
    /\ m_queuestat' = m_queuestat + 1
    /\ mainPc' = "joining"
    /\ UNCHANGED <<m_workqueue, m_stop, workerPc, request>>

DestructorRelease ==
    /\ mainPc = "stopping"
    /\ m_queuestat' = m_queuestat + Cardinality(Workers)
    /\ mainPc' = "joining"
    /\ UNCHANGED <<m_workqueue, m_stop, workerPc, request>>

DestructorJoin ==
    /\ mainPc = "joining"
    /\ At("exited") = Workers
    /\ mainPc' = "joined"
    /\ UNCHANGED <<m_workqueue, m_queuestat, m_stop, workerPc, request>>

-----------------------------------------------------------------------------
(* run() *)

\* while (!m_stop)
LoopTest(w) ==
    /\ workerPc[w] = "test"
    /\ Goto(w, IF m_stop THEN "exited" ELSE "acquire")
    /\ UNCHANGED <<m_workqueue, m_queuestat, m_stop, request, mainPc>>

\* m_queuestat.acquire() blocks until there is a permit.
Acquire(w) ==
    /\ workerPc[w] = "acquire"
    /\ m_queuestat > 0
    /\ m_queuestat' = m_queuestat - 1
    /\ Goto(w, "woken")
    /\ UNCHANGED <<m_workqueue, m_stop, request, mainPc>>

\* Mutant: m_stop is not looked at after the wait.
CheckStopDropped(w) ==
    /\ workerPc[w] = "woken"
    /\ Goto(w, "pop")
    /\ UNCHANGED <<m_workqueue, m_queuestat, m_stop, request, mainPc>>

\* if (m_stop) break;
CheckStop(w) ==
    /\ workerPc[w] = "woken"
    /\ Goto(w, IF m_stop THEN "exited" ELSE "pop")
    /\ UNCHANGED <<m_workqueue, m_queuestat, m_stop, request, mainPc>>

\* The critical section of run(); an empty queue sends the worker back to
\* the loop condition.
Pop(w) ==
    /\ workerPc[w] = "pop"
    /\ IF m_workqueue = <<>>
       THEN /\ Goto(w, "test")
            /\ UNCHANGED <<m_workqueue, request>>
       ELSE /\ request' = [request EXCEPT ![w] = Head(m_workqueue)]
            /\ m_workqueue' = Tail(m_workqueue)
            /\ Goto(w, "process")
    /\ UNCHANGED <<m_queuestat, m_stop, mainPc>>

\* request->process() returns; request is declared anew in every iteration.
Processed(w) ==
    /\ workerPc[w] = "process"
    /\ request' = [request EXCEPT ![w] = NoRequest]
    /\ Goto(w, "test")
    /\ UNCHANGED <<m_workqueue, m_queuestat, m_stop, mainPc>>

\* The pool is gone; nothing of it runs any more.
Destroyed == mainPc = "joined" /\ UNCHANGED poolVars

-----------------------------------------------------------------------------
WorkerNext(w) ==
    LoopTest(w) \/ Acquire(w) \/ CheckStop(w) \/ Pop(w) \/ Processed(w)

Destructor == DestructorStop \/ DestructorRelease \/ DestructorJoin

PoolNext ==
    \/ \E r \in Requests : AppendPush(r)
    \/ AppendReject
    \/ AppendRelease
    \/ Destructor
    \/ Destroyed
    \/ \E w \in Workers : WorkerNext(w)

PoolSafetySpec == PoolInit /\ [][PoolNext]_poolVars

(***************************************************************************)
(* The threads run under a preemptive scheduler, so a thread that can take *)
(* a step takes one: weak fairness.  A worker at acquire() competes with   *)
(* the others for the permits and may be passed over each time; nothing    *)
(* below needs a particular worker to win, so no strong fairness is taken. *)
(* Whether main appends again or destroys the pool is its own choice; once *)
(* inside append() or the destructor it goes on.                           *)
(***************************************************************************)
PoolFairness ==
    /\ WF_poolVars(AppendRelease)
    /\ WF_poolVars(DestructorRelease \/ DestructorJoin)
    /\ \A w \in Workers : WF_poolVars(WorkerNext(w))

PoolSpec == PoolSafetySpec /\ PoolFairness

-----------------------------------------------------------------------------
(* Properties *)

\* Type invariant of the pool's state.
PoolTypeOK ==
    /\ m_workqueue \in Seq(Requests)
    /\ Len(m_workqueue) <= MaxRequests
    /\ m_queuestat \in Nat
    /\ m_stop \in BOOLEAN
    /\ workerPc \in [Workers -> WorkerStates]
    /\ request \in [Workers -> Requests \cup {NoRequest}]
    /\ mainPc \in MainStates

\* The workers that hold a permit and have not taken a request for it.
Woken == At("woken") \cup At("pop")

\* The permit append() has still to release.
Owed == IF mainPc = "release" THEN 1 ELSE 0

\* append() pushes under the mutex and releases the semaphore after it, and
\* a worker acquires before it takes the mutex: until the destructor runs,
\* every queued request is accounted for by a permit, by a worker already
\* woken for a request, or by the release that append() still owes.
PermitAccounting ==
    ~m_stop =>
        Len(m_workqueue) = m_queuestat + Cardinality(Woken) + Owed

\* A worker that reaches the critical section of run() finds a request
\* there, also while the pool is being destroyed: the branch of run() for
\* an empty queue is never taken and no wake-up is wasted.
PopFindsRequest == At("pop") # {} => m_workqueue # <<>>

\* Once the destructor has released thread_number permits, there are enough
\* of them for all the workers that are still blocked in acquire(), or join()
\* would wait for ever.
JoinersHavePermits ==
    mainPc \in {"joining", "joined"} => m_queuestat >= Cardinality(At("acquire"))

\* A queued request is taken by a worker, unless the pool is destroyed first:
\* run() leaves on m_stop whatever is still in the queue.
QueuedIsTaken ==
    \A r \in Requests :
        (\E i \in DOMAIN m_workqueue : m_workqueue[i] = r)
            ~> (m_stop \/ \E w \in Workers : request[w] = r)

\* The destructor returns: every worker sees m_stop and is joined.
DestructorReturns == (mainPc = "stopping") ~> (mainPc = "joined")
=============================================================================
