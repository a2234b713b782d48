-------------------------- MODULE ThreadPoolProofs --------------------------
(***************************************************************************)
(* The safety properties of ThreadPool, proved for every number of         *)
(* workers, every set of requests and every queue length.                  *)
(***************************************************************************)
EXTENDS ThreadPool, FiniteSetTheorems, TLAPS

\* m_stop is raised by the destructor and never lowered.
StopIsFinal == m_stop <=> mainPc \in {"stopping", "joining", "joined"}

\* PopFindsRequest is not inductive: two workers at the critical section need
\* two requests.
PopsHaveRequests == Len(m_workqueue) >= Cardinality(At("pop"))

\* The inductive invariant.
PoolInv ==
    /\ PoolTypeOK
    /\ StopIsFinal
    /\ PermitAccounting
    /\ PopsHaveRequests
    /\ JoinersHavePermits

-----------------------------------------------------------------------------
\* The sets the invariant counts are finite.
LEMMA AtFinite ==
    /\ \A label : IsFiniteSet(At(label)) /\ Cardinality(At(label)) \in Nat
    /\ IsFiniteSet(Woken) /\ Cardinality(Woken) \in Nat
<1>1. \A label : At(label) \subseteq Workers
  BY DEF At
<1>2. Woken \subseteq Workers
  BY DEF Woken, At
<1> QED
  BY <1>1, <1>2, PoolAssumption, FS_Subset, FS_CardinalityType

\* The workers at the three places the invariant counts are some of all.
LEMMA AtBounded ==
    \A label : Cardinality(At(label)) <= Cardinality(Workers)
<1>1. \A label : At(label) \subseteq Workers
  BY DEF At
<1> QED
  BY <1>1, PoolAssumption, FS_Subset

\* A worker that moves leaves one set and joins another.
LEMMA AtMoves ==
    ASSUME PoolTypeOK, NEW w \in Workers, NEW label \in WorkerStates, Goto(w, label)
    PROVE  \A l \in WorkerStates :
              At(l)' = IF l = label THEN At(l) \cup {w} ELSE At(l) \ {w}
<1>1. \A v \in Workers : workerPc'[v] = IF v = w THEN label ELSE workerPc[v]
  BY DEF PoolTypeOK, Goto
<1> QED
  BY <1>1 DEF At

\* The invariant holds when the constructor returns.
LEMMA InitInv == PoolInit => PoolInv
<1> SUFFICES ASSUME PoolInit PROVE PoolInv
  OBVIOUS
<1>1. At("acquire") = {} /\ At("pop") = {} /\ At("woken") = {}
  BY DEF PoolInit, At
<1>2. Cardinality(At("pop")) = 0 /\ Cardinality(Woken) = 0
  BY <1>1, FS_EmptySet DEF Woken
<1>3. PoolTypeOK
  <2>1. m_workqueue \in Seq(Requests) /\ Len(m_workqueue) <= MaxRequests
    BY PoolAssumption DEF PoolInit
  <2>2. m_stop \in BOOLEAN
    BY Zenon DEF PoolInit
  <2>3. /\ m_queuestat \in Nat
        /\ workerPc \in [Workers -> WorkerStates]
        /\ request \in [Workers -> Requests \cup {NoRequest}]
        /\ mainPc \in MainStates
    BY DEF PoolInit, WorkerStates, MainStates
  <2> QED
    BY <2>1, <2>2, <2>3, Zenon DEF PoolTypeOK
<1> QED
  BY <1>2, <1>3 DEF PoolInit, PoolInv, StopIsFinal, PermitAccounting,
                    Owed, PopsHaveRequests, JoinersHavePermits

-----------------------------------------------------------------------------
(* The main thread moves no worker. *)

\* append() keeps the invariant.
LEMMA AppendInv ==
    ASSUME PoolInv,
           (\E r \in Requests : AppendPush(r)) \/ AppendReject \/ AppendRelease
    PROVE  PoolInv'
<1>1. CASE \E r \in Requests : AppendPush(r)
  <2> PICK r \in Requests : AppendPush(r)
    BY <1>1
  <2>1. Len(m_workqueue') = Len(m_workqueue) + 1 /\ m_workqueue' \in Seq(Requests)
    BY DEF PoolInv, PoolTypeOK, AppendPush
  <2>2. PoolTypeOK'
    BY <2>1, PoolAssumption DEF PoolInv, PoolTypeOK, AppendPush, MainStates
  <2>3. (\A label : At(label)' = At(label)) /\ Woken' = Woken
    BY DEF AppendPush, At, Woken
  <2>4. StopIsFinal' /\ JoinersHavePermits'
    BY <2>3 DEF PoolInv, AppendPush, StopIsFinal, JoinersHavePermits
  <2>5. PopsHaveRequests'
    BY <2>1, <2>3, AtFinite DEF PoolInv, PoolTypeOK, PopsHaveRequests
  <2>6. PermitAccounting'
    BY <2>1, <2>3, AtFinite DEF PoolInv, PoolTypeOK, AppendPush, PermitAccounting, Owed
  <2> QED
    BY <2>2, <2>4, <2>5, <2>6 DEF PoolInv
<1>2. CASE AppendReject
  BY <1>2 DEF AppendReject, poolVars, PoolInv, PoolTypeOK, StopIsFinal, PermitAccounting,
              PopsHaveRequests, JoinersHavePermits, At, Woken, Owed
<1>3. CASE AppendRelease
  <2>1. PoolTypeOK'
    BY <1>3 DEF PoolInv, PoolTypeOK, AppendRelease, MainStates
  <2>2. (\A label : At(label)' = At(label)) /\ Woken' = Woken
    BY <1>3 DEF AppendRelease, At, Woken
  <2>3. StopIsFinal' /\ JoinersHavePermits'
    BY <1>3, <2>2 DEF PoolInv, AppendRelease, StopIsFinal, JoinersHavePermits
  <2>4. PopsHaveRequests'
    BY <1>3, <2>2 DEF PoolInv, AppendRelease, PopsHaveRequests
  <2>5. PermitAccounting'
    BY <1>3, <2>2, AtFinite DEF PoolInv, PoolTypeOK, AppendRelease, PermitAccounting, Owed
  <2> QED
    BY <2>1, <2>3, <2>4, <2>5 DEF PoolInv
<1> QED
  BY <1>1, <1>2, <1>3

\* ~threadpool() keeps the invariant; the permits it releases are enough
\* because no more workers can be waiting than there are.
LEMMA DestructorInv ==
    ASSUME PoolInv, Destructor \/ Destroyed
    PROVE  PoolInv'
<1>1. CASE DestructorStop
  <2>1. PoolTypeOK'
    BY <1>1 DEF PoolInv, PoolTypeOK, DestructorStop, MainStates
  <2>2. (\A label : At(label)' = At(label)) /\ Woken' = Woken
    BY <1>1 DEF DestructorStop, At, Woken
  <2> QED
    BY <1>1, <2>1, <2>2 DEF PoolInv, PoolTypeOK, DestructorStop, StopIsFinal,
                            PermitAccounting, PopsHaveRequests, JoinersHavePermits
<1>2. CASE DestructorRelease
  <2>1. Cardinality(Workers) \in Nat
    BY PoolAssumption, FS_CardinalityType
  <2>2. PoolTypeOK'
    BY <1>2, <2>1 DEF PoolInv, PoolTypeOK, DestructorRelease, MainStates
  <2>3. (\A label : At(label)' = At(label)) /\ Woken' = Woken
    BY <1>2 DEF DestructorRelease, At, Woken
  <2>4. m_queuestat' >= Cardinality(At("acquire"))
    BY <1>2, <2>1, AtBounded, AtFinite DEF PoolInv, PoolTypeOK, DestructorRelease
  <2> QED
    BY <1>2, <2>2, <2>3, <2>4 DEF PoolInv, PoolTypeOK, DestructorRelease, StopIsFinal,
                            PermitAccounting, PopsHaveRequests, JoinersHavePermits
<1>3. CASE DestructorJoin
  <2>1. PoolTypeOK'
    BY <1>3 DEF PoolInv, PoolTypeOK, DestructorJoin, MainStates
  <2>2. (\A label : At(label)' = At(label)) /\ Woken' = Woken
    BY <1>3 DEF DestructorJoin, At, Woken
  <2> QED
    BY <1>3, <2>1, <2>2 DEF PoolInv, PoolTypeOK, DestructorJoin, StopIsFinal,
                            PermitAccounting, PopsHaveRequests, JoinersHavePermits
<1>4. CASE Destroyed
  BY <1>4 DEF Destroyed, poolVars, PoolInv, PoolTypeOK, StopIsFinal, PermitAccounting,
              PopsHaveRequests, JoinersHavePermits, At, Woken, Owed
<1> QED
  BY <1>1, <1>2, <1>3, <1>4 DEF Destructor

-----------------------------------------------------------------------------
(* The steps of run() *)

\* LoopTest keeps the invariant: a worker joins those at acquire() only while
\* m_stop is down, when JoinersHavePermits asks for nothing.
LEMMA LoopTestInv ==
    ASSUME PoolInv, NEW w \in Workers, LoopTest(w)
    PROVE  PoolInv'
<1>1. PICK label \in {"exited", "acquire"} :
         Goto(w, label) /\ (label = "acquire" => ~m_stop)
  BY DEF LoopTest
<1>2. \A l \in WorkerStates : At(l)' = IF l = label THEN At(l) \cup {w} ELSE At(l) \ {w}
  BY <1>1, AtMoves DEF PoolInv, WorkerStates
<1>3. At("woken")' = At("woken") /\ At("pop")' = At("pop") /\ Woken' = Woken
  BY <1>1, <1>2 DEF LoopTest, At, WorkerStates, Woken
<1>4. PoolTypeOK'
  BY <1>1 DEF LoopTest, Goto, PoolInv, PoolTypeOK, WorkerStates
<1>5. StopIsFinal' /\ PopsHaveRequests'
  BY <1>3 DEF LoopTest, PoolInv, StopIsFinal, PopsHaveRequests
<1>6. PermitAccounting'
  BY <1>3 DEF LoopTest, PoolInv, PermitAccounting, Owed
<1>7. JoinersHavePermits'
  <2>1. CASE m_stop
    <3>1. At("acquire")' = At("acquire")
      BY <2>1, <1>1, <1>2 DEF LoopTest, At, WorkerStates
    <3> QED
      BY <3>1 DEF LoopTest, PoolInv, JoinersHavePermits
  <2>2. CASE ~m_stop
    BY <2>2 DEF LoopTest, PoolInv, StopIsFinal, JoinersHavePermits
  <2> QED
    BY <2>1, <2>2
<1> QED
  BY <1>4, <1>5, <1>6, <1>7 DEF PoolInv

\* Acquire keeps the invariant: the permit becomes a woken worker.
LEMMA AcquireInv ==
    ASSUME PoolInv, NEW w \in Workers, Acquire(w)
    PROVE  PoolInv'
<1>1. Goto(w, "woken") /\ w \in At("acquire") /\ w \notin Woken
  BY DEF Acquire, At, Woken
<1>2. \A l \in WorkerStates : At(l)' = IF l = "woken" THEN At(l) \cup {w} ELSE At(l) \ {w}
  BY <1>1, AtMoves DEF PoolInv, WorkerStates
<1>3. /\ At("acquire")' = At("acquire") \ {w}
      /\ At("pop")' = At("pop")
      /\ Woken' = Woken \cup {w}
  BY <1>1, <1>2 DEF WorkerStates, Woken
<1>4. /\ Cardinality(At("acquire"))' = Cardinality(At("acquire")) - 1
      /\ Cardinality(Woken)' = Cardinality(Woken) + 1
  BY <1>1, <1>3, AtFinite, FS_AddElement, FS_RemoveElement
<1>5. PoolTypeOK'
  BY <1>1 DEF Acquire, Goto, PoolInv, PoolTypeOK, WorkerStates
<1>6. StopIsFinal' /\ PopsHaveRequests'
  BY <1>3 DEF Acquire, PoolInv, StopIsFinal, PopsHaveRequests
<1>7. PermitAccounting'
  BY <1>4, AtFinite DEF Acquire, PoolInv, PoolTypeOK, PermitAccounting, Owed
<1>8. JoinersHavePermits'
  BY <1>4, AtFinite DEF Acquire, PoolInv, PoolTypeOK, JoinersHavePermits
<1> QED
  BY <1>5, <1>6, <1>7, <1>8 DEF PoolInv

\* CheckStop keeps the invariant: it lets a worker go to the critical section
\* only while the accounts guarantee it a request there.
LEMMA CheckStopInv ==
    ASSUME PoolInv, NEW w \in Workers, CheckStop(w)
    PROVE  PoolInv'
<1>1. PICK label \in {"exited", "pop"} :
         Goto(w, label) /\ (label = "pop" <=> ~m_stop)
  BY DEF CheckStop
<1>2. \A l \in WorkerStates : At(l)' = IF l = label THEN At(l) \cup {w} ELSE At(l) \ {w}
  BY <1>1, AtMoves DEF PoolInv, WorkerStates
<1>3. w \in At("woken") /\ w \notin At("pop") /\ w \notin At("acquire")
  BY DEF CheckStop, At
<1>4. At("acquire")' = At("acquire")
  BY <1>1, <1>2, <1>3 DEF WorkerStates
<1>5. PoolTypeOK'
  BY <1>1 DEF CheckStop, Goto, PoolInv, PoolTypeOK, WorkerStates
<1>6. StopIsFinal' /\ JoinersHavePermits'
  BY <1>4 DEF CheckStop, PoolInv, StopIsFinal, JoinersHavePermits
<1>7. CASE m_stop
  <2>1. At("pop")' = At("pop")
    BY <1>1, <1>2, <1>3, <1>7 DEF WorkerStates
  <2>2. PopsHaveRequests' /\ PermitAccounting'
    BY <1>7, <2>1 DEF CheckStop, PoolInv, PopsHaveRequests, PermitAccounting
  <2> QED
    BY <1>5, <1>6, <2>2 DEF PoolInv
<1>8. CASE ~m_stop
  <2>1. /\ At("pop")' = At("pop") \cup {w}
        /\ At("woken")' = At("woken") \ {w}
        /\ Woken' = Woken
    BY <1>1, <1>2, <1>3, <1>8 DEF WorkerStates, Woken
  <2>2. PermitAccounting'
    BY <2>1 DEF CheckStop, PoolInv, PermitAccounting, Owed
  <2>3. PopsHaveRequests'
    <3>1. At("pop")' \subseteq Woken
      BY <2>1, <1>3 DEF Woken
    <3>2. Cardinality(At("pop"))' <= Cardinality(Woken)
      BY <3>1, AtFinite, FS_Subset
    <3>3. Cardinality(At("pop"))' \in Nat
      BY <3>1, AtFinite, FS_Subset, FS_CardinalityType
    <3>4. Len(m_workqueue) >= Cardinality(Woken)
      BY <1>8, AtFinite DEF PoolInv, PoolTypeOK, PermitAccounting, Owed
    <3> QED
      BY <3>2, <3>3, <3>4, AtFinite DEF CheckStop, PoolInv, PoolTypeOK, PopsHaveRequests
  <2> QED
    BY <1>5, <1>6, <2>2, <2>3 DEF PoolInv
<1> QED
  BY <1>7, <1>8

\* Pop keeps the invariant: the worker at the critical section is counted by
\* PopsHaveRequests, so the queue is not empty, and the worker and the
\* request leave the accounts together.
LEMMA PopInv ==
    ASSUME PoolInv, NEW w \in Workers, Pop(w)
    PROVE  PoolInv'
<1>1. w \in At("pop") /\ w \in Woken /\ w \notin At("acquire")
  BY DEF Pop, At, Woken
<1>2. Cardinality(At("pop")) # 0
  BY <1>1, AtFinite, FS_EmptySet
<1>3. m_workqueue # <<>>
  BY <1>2, AtFinite DEF PoolInv, PopsHaveRequests
<1>4. /\ Len(m_workqueue') = Len(m_workqueue) - 1
      /\ m_workqueue' \in Seq(Requests)
      /\ Head(m_workqueue) \in Requests
      /\ Goto(w, "process")
  BY <1>3 DEF Pop, PoolInv, PoolTypeOK
<1>5. \A l \in WorkerStates : At(l)' = IF l = "process" THEN At(l) \cup {w} ELSE At(l) \ {w}
  BY <1>4, AtMoves DEF PoolInv, WorkerStates
<1>6. /\ At("acquire")' = At("acquire")
      /\ At("pop")' = At("pop") \ {w}
      /\ Woken' = Woken \ {w}
  BY <1>1, <1>5 DEF WorkerStates, Woken
<1>7. /\ Cardinality(At("pop"))' = Cardinality(At("pop")) - 1
      /\ Cardinality(Woken)' = Cardinality(Woken) - 1
  BY <1>1, <1>6, AtFinite, FS_RemoveElement
<1>8. PoolTypeOK'
  BY <1>3, <1>4, PoolAssumption DEF Pop, Goto, PoolInv, PoolTypeOK, WorkerStates
<1>9. StopIsFinal' /\ JoinersHavePermits'
  BY <1>6 DEF Pop, PoolInv, StopIsFinal, JoinersHavePermits
<1>10. PopsHaveRequests'
  BY <1>4, <1>7, AtFinite DEF PoolInv, PoolTypeOK, PopsHaveRequests
<1>11. PermitAccounting'
  BY <1>4, <1>7, AtFinite DEF Pop, PoolInv, PoolTypeOK, PermitAccounting, Owed
<1> QED
  BY <1>8, <1>9, <1>10, <1>11 DEF PoolInv

\* The return from process() keeps the invariant: it counts nobody there.
LEMMA ProcessedInv ==
    ASSUME PoolInv, NEW w \in Workers, Processed(w)
    PROVE  PoolInv'
<1>1. Goto(w, "test") /\ w \notin At("acquire") /\ w \notin At("pop") /\ w \notin At("woken")
  BY DEF Processed, At
<1>2. \A l \in WorkerStates : At(l)' = IF l = "test" THEN At(l) \cup {w} ELSE At(l) \ {w}
  BY <1>1, AtMoves DEF PoolInv, WorkerStates
<1>3. At("acquire")' = At("acquire") /\ At("pop")' = At("pop") /\ Woken' = Woken
  BY <1>1, <1>2 DEF WorkerStates, Woken
<1>4. PoolTypeOK'
  BY <1>1 DEF Processed, Goto, PoolInv, PoolTypeOK, WorkerStates
<1> QED
  BY <1>3, <1>4 DEF Processed, PoolInv, StopIsFinal, PermitAccounting, Owed,
                    PopsHaveRequests, JoinersHavePermits

-----------------------------------------------------------------------------
\* Every reachable state of the pool satisfies the inductive invariant.
THEOREM PoolInvariant == PoolSafetySpec => []PoolInv
<1>1. PoolInv /\ [PoolNext]_poolVars => PoolInv'
  <2> SUFFICES ASSUME PoolInv, [PoolNext]_poolVars PROVE PoolInv'
    OBVIOUS
  <2>1. CASE (\E r \in Requests : AppendPush(r)) \/ AppendReject \/ AppendRelease
    BY <2>1, AppendInv
  <2>2. CASE Destructor \/ Destroyed
    BY <2>2, DestructorInv
  <2>3. CASE \E w \in Workers : WorkerNext(w)
    BY <2>3, LoopTestInv, AcquireInv, CheckStopInv, PopInv, ProcessedInv DEF WorkerNext
  <2>4. CASE UNCHANGED poolVars
    BY <2>4 DEF poolVars, PoolInv, PoolTypeOK, StopIsFinal, PermitAccounting, PopsHaveRequests,
                JoinersHavePermits, At, Woken, Owed
  <2> QED
    BY <2>1, <2>2, <2>3, <2>4 DEF PoolNext
<1> QED
  BY InitInv, <1>1, PTL DEF PoolSafetySpec

\* The queue never outgrows m_max_requests and every field keeps its type, for
\* any number of workers.
THEOREM PoolTypeCorrect == PoolSafetySpec => []PoolTypeOK
<1>1. PoolInv => PoolTypeOK
  BY DEF PoolInv
<1> QED
  BY <1>1, PoolInvariant, PTL

\* append()'s order (push under the mutex, release after it) and run()'s
\* (acquire, then the mutex) never lose or invent a wake-up.
THEOREM PermitsAccounted == PoolSafetySpec => []PermitAccounting
<1>1. PoolInv => PermitAccounting
  BY DEF PoolInv
<1> QED
  BY <1>1, PoolInvariant, PTL

\* A worker never takes the empty-queue branch of run(), not even while the
\* destructor is waking everybody.
THEOREM PopAlwaysFinds == PoolSafetySpec => []PopFindsRequest
<1>1. PoolInv => PopFindsRequest
  <2> SUFFICES ASSUME PoolInv, At("pop") # {} PROVE m_workqueue # <<>>
    BY DEF PopFindsRequest
  <2>1. Cardinality(At("pop")) # 0
    BY AtFinite, FS_EmptySet
  <2> QED
    BY <2>1, AtFinite DEF PoolInv, PopsHaveRequests
<1> QED
  BY <1>1, PoolInvariant, PTL

\* While the destructor joins, no worker is left waiting for a permit that
\* nobody will release: join() cannot hang on the semaphore.
THEOREM JoinNeverStarves == PoolSafetySpec => []JoinersHavePermits
<1>1. PoolInv => JoinersHavePermits
  BY DEF PoolInv
<1> QED
  BY <1>1, PoolInvariant, PTL
=============================================================================
