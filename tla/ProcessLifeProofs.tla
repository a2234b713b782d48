-------------------------- MODULE ProcessLifeProofs --------------------------
(***************************************************************************)
(* The safety of a whole process, proved for every number of workers,      *)
(* every queue length and every number of lines: the pool in it takes only *)
(* steps of ThreadPool, and the logger keeps every line, in order, until   *)
(* its destructor returns.                                                 *)
(***************************************************************************)
EXTENDS ProcessLife, ThreadPoolProofs, SequenceTheorems

LifeStages == {"startup", "serving", "leaving", "exit"}

\* While main starts, and when it gives up, no worker has been woken.
NothingServed ==
    stage \in {"startup", "exit"} =>
        /\ mainPc = "loop" /\ m_queuestat = 0 /\ m_workqueue = <<>>
        /\ \A w \in Workers : workerPc[w] \notin {"woken", "pop", "process"}

\* The pool is destroyed only after the loop, and join() returns when all have left.
PoolOutlived ==
    /\ m_stop => stage = "leaving"
    /\ mainPc = "joined" => \A w \in Workers : workerPc[w] = "exited"

\* The logger is destroyed only when no thread is left that could log.
LoggerOutlives ==
    /\ running <=> loggerPc = "alive"
    /\ ~running => mainPc = "joined" \/ stage = "exit"

\* The worker holds lines only between the critical section and the end of the
\* writing, and leaves only when there is nothing to write.
WorkerExact ==
    /\ logWorker # "write" => pending = <<>>
    /\ logWorker = "exited" => log_queue = <<>> /\ ~running
    /\ loggerPc = "gone" => logWorker = "exited"

AllLines == stderr \o pending \o log_queue = Lines(1, logged)

\* The inductive invariant, on top of the pool's.
LifeInv ==
    /\ LogTypeOK /\ stage \in LifeStages
    /\ NothingServed /\ PoolOutlived /\ LoggerOutlives
    /\ WorkerExact /\ AllLines

-----------------------------------------------------------------------------
(* The pool inside the process *)

\* Every step of the process is a step of the pool or leaves the pool alone: the log
\* calls in between, and the mutex held inside one, restrict it and add nothing.
THEOREM LifeImplementsPool == LifeSpec => PoolSafetySpec
<1>1. LifeInit => PoolInit
  BY DEF LifeInit
<1>2. [LifeNext]_lifeVars => [PoolNext]_poolVars
  <2> SUFFICES ASSUME [LifeNext]_lifeVars PROVE [PoolNext]_poolVars
    OBVIOUS
  <2>1. CASE MainNext \/ MainNotifies \/ DeletePool \/ DeleteLogger
    BY <2>1 DEF MainNext, Serve, ExitInInit, MainLogs, MainAppends, MainRejects, LeaveLoop,
                MainNotifies, DeletePool, DeleteLogger, PoolNext
  <2>2. CASE \E w \in Workers : WorkerLogs(w) \/ WorkerNotifies(w) \/ WorkerRuns(w)
    BY <2>2 DEF WorkerLogs, WorkerNotifies, WorkerRuns, PoolNext
  <2>3. CASE LoggerRuns \/ LoggerWakes \/ Ended \/ UNCHANGED lifeVars
    BY <2>3 DEF LoggerRuns, LoggerWakes, Ended, lifeVars
  <2> QED
    BY <2>1, <2>2, <2>3 DEF LifeNext
<1> QED
  BY <1>1, <1>2, PTL DEF LifeSpec, PoolSafetySpec

\* So the accounts of ThreadPoolProofs hold while the threads also log.
THEOREM LifePermitsAccounted ==
    LifeSpec => []PermitAccounting /\ []PopFindsRequest /\ []JoinersHavePermits
BY LifeImplementsPool, PermitsAccounted, PopAlwaysFinds, JoinNeverStarves, PTL

-----------------------------------------------------------------------------
(* The lines *)

\* The numbered lines are a sequence that grows at its end.
LEMMA LinesGrow ==
    ASSUME NEW n \in Nat
    PROVE  /\ Lines(1, n) \in Seq(Nat) /\ Len(Lines(1, n)) = n
           /\ Append(Lines(1, n), n + 1) = Lines(1, n + 1)
<1>1. n - 1 + 1 = n /\ (n + 1) - 1 + 1 = n + 1
  OBVIOUS
<1>2. Lines(1, n) = [i \in 1..n |-> 1 + i - 1] /\ Lines(1, n + 1) = [i \in 1..(n + 1) |-> 1 + i - 1]
  BY <1>1 DEF Lines
<1>3. Lines(1, n) \in Seq(Nat) /\ Len(Lines(1, n)) = n
  BY <1>2
<1>4. Lines(1, n + 1) \in Seq(Nat) /\ Len(Lines(1, n + 1)) = n + 1
  BY <1>2
<1>5. /\ Append(Lines(1, n), n + 1) \in Seq(Nat) /\ Len(Append(Lines(1, n), n + 1)) = n + 1
      /\ \A i \in 1..n : Append(Lines(1, n), n + 1)[i] = Lines(1, n)[i]
      /\ Append(Lines(1, n), n + 1)[n + 1] = n + 1
  BY <1>3, AppendProperties
<1>6. \A i \in 1..(n + 1) : Append(Lines(1, n), n + 1)[i] = Lines(1, n + 1)[i]
  BY <1>2, <1>5
<1>7. Append(Lines(1, n), n + 1) = Lines(1, n + 1)
  BY <1>4, <1>5, <1>6, SeqEqual
<1> QED
  BY <1>3, <1>7

\* What is appended to the queue is appended to the whole.
LEMMA AppendToTail ==
    ASSUME NEW s \in Seq(Nat), NEW t \in Seq(Nat), NEW x \in Nat
    PROVE  s \o Append(t, x) = Append(s \o t, x)
<1>1. Append(t, x) = t \o <<x>> /\ s \o t \in Seq(Nat) /\ <<x>> \in Seq(Nat)
  BY AppendIsConcat, ConcatProperties
<1>2. Append(s \o t, x) = (s \o t) \o <<x>>
  BY <1>1, AppendIsConcat
<1> QED
  BY <1>1, <1>2, ConcatAssociative

\* log() adds its line at the end, before the destructor has begun.
LEMMA PushLines ==
    ASSUME LogTypeOK, WorkerExact, AllLines, running, NEW c \in Callers, LogPush(c)
    PROVE  LogTypeOK' /\ WorkerExact' /\ AllLines'
<1>1. /\ log_queue' = Append(log_queue, logged + 1) /\ logged' = logged + 1
      /\ logCall' = [logCall EXCEPT ![c] = "notify"]
      /\ UNCHANGED <<running, pending, stderr, logWorker, loggerPc>>
  BY DEF LogPush
<1>2. /\ log_queue \in Seq(Nat) /\ pending \in Seq(Nat) /\ stderr \in Seq(Nat)
      /\ logged \in Nat /\ logged + 1 \in Nat
  BY DEF LogTypeOK
<1>3. LogTypeOK'
  <2>1. running' \in BOOLEAN
    BY <1>1, Zenon DEF LogTypeOK
  <2>2. /\ log_queue' \in Seq(Nat) /\ pending' \in Seq(Nat) /\ stderr' \in Seq(Nat)
        /\ logged' \in Nat
        /\ logCall' \in [Callers -> {"out", "notify"}]
        /\ logWorker' \in {"check", "asleep", "write", "exited"}
        /\ loggerPc' \in {"alive", "notify", "join", "gone"}
    BY <1>1, <1>2 DEF LogTypeOK
  <2> QED
    BY <2>1, <2>2, Zenon DEF LogTypeOK
<1>4. WorkerExact'
  BY <1>1 DEF WorkerExact
<1>5. AllLines'
  <2>1. stderr \o pending \in Seq(Nat)
    BY <1>2, ConcatProperties
  <2>2. (stderr \o pending) \o Append(log_queue, logged + 1)
          = Append((stderr \o pending) \o log_queue, logged + 1)
    BY <1>2, <2>1, AppendToTail
  <2> QED
    BY <1>1, <1>2, <2>2, LinesGrow DEF AllLines
<1> QED
  BY <1>3, <1>4, <1>5

\* The worker takes the lines and writes them: they move to the left.
LEMMA LoggerLines ==
    ASSUME LogTypeOK, WorkerExact, AllLines, LogWorkerNext
    PROVE  LogTypeOK' /\ WorkerExact' /\ AllLines'
<1>1. log_queue \in Seq(Nat) /\ pending \in Seq(Nat) /\ stderr \in Seq(Nat) /\ <<>> \in Seq(Nat)
  BY DEF LogTypeOK
<1>2. UNCHANGED <<running, logged, logCall, loggerPc>> /\ loggerPc # "gone"
  BY DEF LogWorkerNext, LogTake, LogWrite, WorkerExact
<1>3. running' \in BOOLEAN
  BY <1>2, Zenon DEF LogTypeOK
<1>4. CASE LogTake /\ log_queue # <<>>
  <2>1. /\ pending' = log_queue /\ log_queue' = <<>> /\ stderr' = stderr /\ logWorker' = "write"
        /\ pending = <<>>
    BY <1>4 DEF LogTake, WorkerExact
  <2>2. stderr \o pending = stderr /\ (stderr \o log_queue) \o <<>> = stderr \o log_queue
    BY <1>1, <2>1, ConcatEmptySeq, ConcatProperties
  <2>3. AllLines'
    BY <1>2, <2>1, <2>2 DEF AllLines
  <2>4. WorkerExact'
    BY <1>2, <2>1 DEF WorkerExact
  <2>5. LogTypeOK'
    BY <1>1, <1>2, <1>3, <2>1, Zenon DEF LogTypeOK
  <2> QED
    BY <2>3, <2>4, <2>5
<1>5. CASE LogTake /\ log_queue = <<>>
  <2>1. /\ UNCHANGED <<pending, log_queue, stderr>> /\ pending = <<>>
        /\ logWorker' \in {"asleep", "exited"} /\ (logWorker' = "exited" => ~running)
    BY <1>5 DEF LogTake, WorkerExact
  <2>2. WorkerExact'
    BY <1>2, <1>5, <2>1 DEF WorkerExact
  <2>3. AllLines'
    BY <1>2, <2>1 DEF AllLines
  <2>4. LogTypeOK'
    BY <1>1, <1>2, <1>3, <2>1, Zenon DEF LogTypeOK
  <2> QED
    BY <2>2, <2>3, <2>4
<1>6. CASE LogWrite
  <2>1. /\ stderr' = stderr \o pending /\ pending' = <<>> /\ log_queue' = log_queue
        /\ logWorker' = "check"
    BY <1>6 DEF LogWrite
  <2>2. stderr \o pending \in Seq(Nat)
    BY <1>1, ConcatProperties
  <2>3. (stderr \o pending) \o <<>> = stderr \o pending
    BY <2>2, ConcatEmptySeq
  <2>4. AllLines'
    BY <1>2, <2>1, <2>3 DEF AllLines
  <2>5. WorkerExact'
    BY <1>2, <2>1 DEF WorkerExact
  <2>6. LogTypeOK'
    BY <1>1, <1>2, <1>3, <2>1, <2>2, Zenon DEF LogTypeOK
  <2> QED
    BY <2>4, <2>5, <2>6
<1> QED
  BY <1>4, <1>5, <1>6 DEF LogWorkerNext, LogTake

\* A wake-up moves no line: a notification, the end of cv.wait(), a step of
\* ~Logger().
LEMMA WakeLines ==
    ASSUME LogTypeOK, WorkerExact, AllLines,
           \/ \E c \in Callers : LogNotify(c)
           \/ LogSpuriousWake \/ LogStop \/ LogNotifyAll \/ LogJoin
    PROVE  LogTypeOK' /\ WorkerExact' /\ AllLines'
<1>1. UNCHANGED <<log_queue, pending, stderr, logged>>
  BY DEF LogNotify, LogSpuriousWake, LogStop, LogNotifyAll, LogJoin
<1>2. running' = running \/ running' = FALSE
  BY DEF LogNotify, LogSpuriousWake, LogStop, LogNotifyAll, LogJoin
<1>3. running' \in BOOLEAN
  BY <1>2, Zenon DEF LogTypeOK
<1>4. \/ logWorker' = logWorker
      \/ logWorker = "asleep" /\ logWorker' = "check"
  BY DEF LogNotify, LogSpuriousWake, LogStop, LogNotifyAll, LogJoin, Wake
<1>5. logCall' \in [Callers -> {"out", "notify"}]
  BY DEF LogNotify, LogSpuriousWake, LogStop, LogNotifyAll, LogJoin, LogTypeOK
<1>6. /\ loggerPc' \in {"alive", "notify", "join", "gone"}
      /\ loggerPc' = "gone" => logWorker = "exited"
  BY DEF LogNotify, LogSpuriousWake, LogStop, LogNotifyAll, LogJoin, LogTypeOK, WorkerExact
<1>7. logWorker' \in {"check", "asleep", "write", "exited"}
  BY <1>4 DEF LogTypeOK
<1>8. LogTypeOK'
  BY <1>1, <1>3, <1>5, <1>6, <1>7, Zenon DEF LogTypeOK
<1>9. WorkerExact'
  <2>1. ~running => ~running'
    BY DEF LogNotify, LogSpuriousWake, LogStop, LogNotifyAll, LogJoin
  <2> QED
    BY <1>1, <1>4, <1>6, <2>1 DEF WorkerExact
<1>10. AllLines'
  BY <1>1 DEF AllLines
<1> QED
  BY <1>8, <1>9, <1>10

-----------------------------------------------------------------------------
(* The life of the process *)

\* Nobody who may call log() is left once the destructor of the logger has begun.
LEMMA CallersNeedLogger ==
    ASSUME LifeInv, PoolInv,
           \/ stage \in {"startup", "serving"}
           \/ \E w \in Workers : workerPc[w] = "process"
    PROVE  running
<1>1. stage \in {"startup", "serving"} => mainPc # "joined"
  BY DEF LifeInv, PoolOutlived, PoolInv, StopIsFinal
<1>2. ASSUME NEW w \in Workers, workerPc[w] = "process"
      PROVE  mainPc # "joined" /\ stage # "exit"
  BY <1>2 DEF LifeInv, PoolOutlived, NothingServed
<1> QED
  BY <1>1, <1>2 DEF LifeInv, LoggerOutlives

\* The steps that log, or serve the log, keep what the invariant says of the lines.
LEMMA LifeLines ==
    ASSUME LifeInv, PoolInv, [LifeNext]_lifeVars
    PROVE  LogTypeOK' /\ WorkerExact' /\ AllLines'
<1>1. LogTypeOK /\ WorkerExact /\ AllLines /\ Main \in Callers /\ Workers \subseteq Callers
  BY LifeAssumption DEF LifeInv
<1>2. CASE ExitInInit \/ MainLogs \/ MainRejects \/ LeaveLoop
  <2>1. LogPush(Main) /\ stage \in {"startup", "serving"}
    BY <1>2 DEF ExitInInit, MainLogs, MainRejects, LeaveLoop
  <2> QED
    BY <1>1, <2>1, CallersNeedLogger, PushLines
<1>3. CASE \E w \in Workers : WorkerLogs(w)
  BY <1>1, <1>3, CallersNeedLogger, PushLines DEF WorkerLogs
<1>4. CASE \/ MainNotifies \/ DeleteLogger \/ LoggerWakes
           \/ \E w \in Workers : WorkerNotifies(w)
  BY <1>1, <1>4, WakeLines DEF MainNotifies, DeleteLogger, LoggerWakes, WorkerNotifies
<1>5. CASE LoggerRuns
  BY <1>1, <1>5, LoggerLines DEF LoggerRuns
<1>6. CASE UNCHANGED logVars
  <2>1. UNCHANGED <<log_queue, running, pending, stderr, logged, logCall, logWorker, loggerPc>>
    BY <1>6 DEF logVars
  <2>2. LogTypeOK'
    BY <1>1, <2>1, Zenon DEF LogTypeOK
  <2>3. WorkerExact' /\ AllLines'
    BY <1>1, <2>1 DEF WorkerExact, AllLines
  <2> QED
    BY <2>2, <2>3
<1>7. CASE Serve \/ MainAppends \/ DeletePool \/ Ended \/ UNCHANGED lifeVars
           \/ \E w \in Workers : WorkerRuns(w)
  BY <1>6, <1>7 DEF Serve, MainAppends, DeletePool, Ended, WorkerRuns, lifeVars
<1> QED
  BY <1>2, <1>3, <1>4, <1>5, <1>7 DEF LifeNext, MainNext

\* The order in which main starts and ends things is kept.
LEMMA LifeOrder ==
    ASSUME LifeInv, PoolInv, [LifeNext]_lifeVars
    PROVE  /\ stage' \in LifeStages
           /\ NothingServed' /\ PoolOutlived' /\ LoggerOutlives'
<1> USE DEF LifeStages
<1>1. /\ stage \in LifeStages /\ NothingServed /\ PoolOutlived /\ LoggerOutlives
      /\ StopIsFinal /\ workerPc \in [Workers -> WorkerStates]
  BY DEF LifeInv, PoolInv, PoolTypeOK
<1>2. CASE Serve \/ ExitInInit \/ MainLogs \/ LeaveLoop \/ MainNotifies \/ LoggerRuns \/ LoggerWakes
           \/ (\E w \in Workers : WorkerLogs(w) \/ WorkerNotifies(w)) \/ MainRejects
           \/ Ended \/ UNCHANGED lifeVars
  <2>1. UNCHANGED poolVars
    BY <1>2 DEF Serve, ExitInInit, MainLogs, LeaveLoop, MainNotifies, LoggerRuns, LoggerWakes,
                WorkerLogs, WorkerNotifies, MainRejects, AppendReject, Ended, lifeVars
  <2>2. UNCHANGED <<m_workqueue, m_queuestat, m_stop, workerPc, request, mainPc>>
    BY <2>1 DEF poolVars
  <2>3. \/ stage' = stage
        \/ stage = "startup" /\ stage' \in {"serving", "exit"}
        \/ stage \in {"startup", "serving"} /\ stage' = "leaving" /\ mainPc = "loop"
    BY <1>2 DEF Serve, ExitInInit, MainLogs, LeaveLoop, MainNotifies, LoggerRuns, LoggerWakes,
                WorkerLogs, WorkerNotifies, MainRejects, Ended, lifeVars
  <2>4. UNCHANGED <<running, loggerPc>>
    BY <1>2 DEF Serve, ExitInInit, MainLogs, LeaveLoop, MainNotifies, LoggerRuns, LoggerWakes,
                WorkerLogs, WorkerNotifies, MainRejects, Ended, lifeVars, logVars, LogPush,
                LogNotify, LogWorkerNext, LogTake, LogWrite, LogSpuriousWake
  <2>5. NothingServed'
    BY <1>1, <2>2, <2>3 DEF NothingServed
  <2>6. PoolOutlived'
    BY <1>1, <2>2, <2>3 DEF PoolOutlived, StopIsFinal
  <2>7. LoggerOutlives'
    BY <1>1, <2>2, <2>3, <2>4 DEF LoggerOutlives
  <2> QED
    BY <1>1, <2>3, <2>5, <2>6, <2>7
<1>3. CASE MainAppends
  <2>1. /\ stage = "serving" /\ stage' = "serving" /\ mainPc \in {"loop", "release"}
        /\ mainPc' \in {"loop", "release"}
        /\ UNCHANGED <<m_stop, workerPc, running, loggerPc>>
    BY <1>3 DEF MainAppends, AppendPush, AppendRelease, logVars
  <2> QED
    BY <1>1, <2>1 DEF NothingServed, PoolOutlived, LoggerOutlives
<1>4. CASE DeletePool
  <2>1. /\ stage = "leaving" /\ stage' = "leaving" /\ mainPc # "joined"
        /\ (mainPc' = "joined" => At("exited") = Workers)
        /\ UNCHANGED <<workerPc, running, loggerPc>>
    BY <1>4 DEF DeletePool, Destructor, DestructorStop, DestructorRelease, DestructorJoin, logVars
  <2>2. At("exited") = Workers => \A w \in Workers : workerPc[w] = "exited"
    BY DEF At
  <2> QED
    BY <1>1, <2>1, <2>2 DEF NothingServed, PoolOutlived, LoggerOutlives
<1>5. CASE DeleteLogger
  <2>1. /\ mainPc = "joined" \/ stage = "exit"
        /\ UNCHANGED <<m_workqueue, m_queuestat, m_stop, workerPc, mainPc, stage>>
    BY <1>5 DEF DeleteLogger, poolVars
  <2>2. running' <=> loggerPc' = "alive"
    BY <1>1, <1>5 DEF DeleteLogger, LogStop, LogNotifyAll, LogJoin, LoggerOutlives
  <2> QED
    BY <1>1, <2>1, <2>2 DEF NothingServed, PoolOutlived, LoggerOutlives
<1>6. ASSUME NEW w \in Workers, WorkerRuns(w)
      PROVE  /\ stage' \in LifeStages
             /\ NothingServed' /\ PoolOutlived' /\ LoggerOutlives'
  <2>1. UNCHANGED <<stage, running, loggerPc, m_stop, mainPc>> /\ WorkerNext(w)
    BY <1>6 DEF WorkerRuns, logVars, WorkerNext, LoopTest, Acquire, CheckStop, Pop, Processed
  <2>2. PoolOutlived'
    <3>1. workerPc[w] # "exited"
      BY <2>1 DEF WorkerNext, LoopTest, Acquire, CheckStop, Pop, Processed
    <3> QED
      BY <1>1, <2>1, <3>1 DEF PoolOutlived
  <2>3. NothingServed'
    <3> SUFFICES ASSUME stage \in {"startup", "exit"} PROVE NothingServed'
      BY <2>1 DEF NothingServed
    <3>1. /\ mainPc = "loop" /\ m_queuestat = 0 /\ m_workqueue = <<>>
          /\ \A v \in Workers : workerPc[v] \notin {"woken", "pop", "process"}
      BY <1>1 DEF NothingServed
    <3>2. LoopTest(w)
      BY <2>1, <3>1 DEF WorkerNext, Acquire, CheckStop, Pop, Processed
    <3>3. /\ UNCHANGED <<m_queuestat, m_workqueue>>
          /\ \A v \in Workers : workerPc'[v] \notin {"woken", "pop", "process"}
      BY <1>1, <3>1, <3>2 DEF LoopTest, Goto
    <3> QED
      BY <2>1, <3>1, <3>3 DEF NothingServed
  <2>4. LoggerOutlives'
    BY <1>1, <2>1 DEF LoggerOutlives
  <2> QED
    BY <1>1, <2>1, <2>2, <2>3, <2>4
<1> QED
  BY <1>2, <1>3, <1>4, <1>5, <1>6 DEF LifeNext, MainNext

\* The pool's constructor has logged its lines and nothing has happened since.
LEMMA LifeInitInv == LifeInit => LifeInv
<1> SUFFICES ASSUME LifeInit PROVE LifeInv
  OBVIOUS
<1>1. PICK n \in Nat : n = Cardinality(Workers)
  BY PoolAssumption, FS_CardinalityType
<1>2. /\ log_queue = Lines(1, n) /\ running = TRUE /\ pending = <<>> /\ stderr = <<>>
      /\ logged = n /\ logCall = [c \in Callers |-> "out"]
      /\ logWorker = "check" /\ loggerPc = "alive" /\ stage = "startup"
      /\ PoolInit
  BY <1>1 DEF LifeInit, LogInit
<1>3. Lines(1, n) \in Seq(Nat) /\ <<>> \in Seq(Nat)
  BY LinesGrow
<1>4. LogTypeOK
  <2>1. running \in BOOLEAN
    BY <1>2, Zenon
  <2>2. /\ log_queue \in Seq(Nat) /\ pending \in Seq(Nat) /\ stderr \in Seq(Nat) /\ logged \in Nat
        /\ logCall \in [Callers -> {"out", "notify"}]
        /\ logWorker \in {"check", "asleep", "write", "exited"}
        /\ loggerPc \in {"alive", "notify", "join", "gone"}
    BY <1>2, <1>3
  <2> QED
    BY <2>1, <2>2, Zenon DEF LogTypeOK
<1>5. AllLines
  <2>1. (<<>> \o <<>>) \o Lines(1, n) = Lines(1, n)
    BY <1>3, ConcatEmptySeq
  <2> QED
    BY <1>2, <2>1 DEF AllLines
<1>6. NothingServed /\ PoolOutlived /\ LoggerOutlives /\ WorkerExact
  BY <1>2 DEF PoolInit, NothingServed, PoolOutlived, LoggerOutlives, WorkerExact
<1> QED
  BY <1>2, <1>4, <1>5, <1>6 DEF LifeInv, LifeStages

\* Every reachable state of the process satisfies both invariants.
THEOREM LifeInvariant == LifeSpec => [](LifeInv /\ PoolInv)
<1>1. LifeInv /\ PoolInv /\ [LifeNext]_lifeVars => LifeInv'
  BY LifeLines, LifeOrder DEF LifeInv
<1>2. LifeSpec => []PoolInv
  BY LifeImplementsPool, PoolInvariant, PTL
<1> QED
  BY LifeInitInv, <1>1, <1>2, PTL DEF LifeSpec

\* No line is lost, repeated or put out of order between log() and std::cerr, and
\* when ~Logger() has returned all of them have been written: nobody can push one
\* after the worker has looked at the list for the last time.
THEOREM LinesKeepOrder == LifeSpec => []LinesInOrder
<1>1. LifeInv => LinesInOrder
  <2> SUFFICES ASSUME LifeInv PROVE LinesInOrder
    OBVIOUS
  <2>1. AllLines /\ stderr \in Seq(Nat)
    BY DEF LifeInv, LogTypeOK
  <2>2. loggerPc = "gone" => pending = <<>> /\ log_queue = <<>>
    BY DEF LifeInv, WorkerExact
  <2>3. (stderr \o <<>>) \o <<>> = stderr
    BY <2>1, ConcatEmptySeq
  <2> QED
    BY <2>1, <2>2, <2>3 DEF AllLines, LinesInOrder
<1> QED
  BY <1>1, LifeInvariant, PTL
=============================================================================
