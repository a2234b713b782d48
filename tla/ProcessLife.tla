---------------------------- MODULE ProcessLife -----------------------------
(***************************************************************************)
(* The threads of one backend process from start-up to exit: ThreadPool    *)
(* and Logger put together the way main() of src/src/main.cpp does.  The   *)
(* workers log from inside process(), main logs while it starts, when it   *)
(* rejects a request and when its loop fails, and the static Logger is     *)
(* destroyed after main() has returned, or by the exit(1) of a start-up    *)
(* that finds no database while the workers are already waiting.           *)
(***************************************************************************)
EXTENDS ThreadPool, Logger

CONSTANTS
    Main,      \* the main thread
    MaxLines   \* bound: how many lines are logged before the end

ASSUME LifeAssumption ==
    /\ Main \notin Workers
    /\ Callers = Workers \cup {Main}
    /\ MaxLines \in Nat

VARIABLES
    stage,         \* "startup", "serving", "leaving" after the loop, "exit" after exit(1)
    m_queuelocker  \* TRUE while main holds the pool's mutex inside log()

lifeVars == <<poolVars, logVars, stage, m_queuelocker>>

\* The constructor of the pool has logged one line for each thread.
LifeInit ==
    /\ PoolInit
    /\ LogInit(Cardinality(Workers))
    /\ stage = "startup"
    /\ m_queuelocker = FALSE

MainIdle == logCall[Main] = "out"

-----------------------------------------------------------------------------
(* Start-up *)

\* PostgreSQL and the listening socket are there; Redis may be missing.
Serve ==
    /\ stage = "startup"
    /\ MainIdle
    /\ stage' = "serving"
    /\ UNCHANGED <<poolVars, logVars, m_queuelocker>>

\* connection_pool::init() logs the error and calls exit(1).
ExitInInit ==
    /\ stage = "startup"
    /\ LogPush(Main)
    /\ stage' = "exit"
    /\ UNCHANGED <<poolVars, m_queuelocker>>

-----------------------------------------------------------------------------
(* The main thread while it serves *)

\* "Redis cache disabled", "accept error".
MainLogs ==
    /\ stage \in {"startup", "serving"}
    /\ mainPc = "loop"
    /\ logged < MaxLines
    /\ LogPush(Main)
    /\ UNCHANGED <<poolVars, stage, m_queuelocker>>

MainAppends ==
    /\ stage = "serving"
    /\ MainIdle
    /\ (\E r \in Requests : AppendPush(r)) \/ AppendRelease
    /\ UNCHANGED <<logVars, stage, m_queuelocker>>

\* append() logs the rejection inside the scope of its lock_guard.
MainRejects ==
    /\ stage = "serving"
    /\ logged < MaxLines
    /\ AppendReject
    /\ LogPush(Main)
    /\ m_queuelocker' = TRUE
    /\ UNCHANGED stage

MainNotifies ==
    /\ LogNotify(Main)
    /\ m_queuelocker' = FALSE
    /\ UNCHANGED <<poolVars, stage>>

\* "epoll failure" (or "listen socket fails."), then delete pool.
LeaveLoop ==
    /\ stage \in {"startup", "serving"}
    /\ mainPc = "loop"
    /\ LogPush(Main)
    /\ stage' = "leaving"
    /\ UNCHANGED <<poolVars, m_queuelocker>>

DeletePool ==
    /\ stage = "leaving"
    /\ MainIdle
    /\ Destructor
    /\ UNCHANGED <<logVars, stage, m_queuelocker>>

-----------------------------------------------------------------------------
(* The workers *)

\* A line logged by a handler, the service or the DAO inside process().
WorkerLogs(w) ==
    /\ workerPc[w] = "process"
    /\ logged < MaxLines
    /\ LogPush(w)
    /\ UNCHANGED <<poolVars, stage, m_queuelocker>>

WorkerNotifies(w) ==
    /\ LogNotify(w)
    /\ UNCHANGED <<poolVars, stage, m_queuelocker>>

\* run() waits for the mutex before the pop.
WorkerRuns(w) ==
    /\ logCall[w] = "out"
    /\ workerPc[w] = "pop" => ~m_queuelocker
    /\ WorkerNext(w)
    /\ UNCHANGED <<logVars, stage, m_queuelocker>>

-----------------------------------------------------------------------------
(* The logger's thread and its destructor *)

LoggerRuns ==
    /\ LogWorkerNext
    /\ UNCHANGED <<poolVars, stage, m_queuelocker>>

LoggerWakes ==
    /\ LogSpuriousWake
    /\ UNCHANGED <<poolVars, stage, m_queuelocker>>

\* Static destruction, when main() has returned or called exit().
DeleteLogger ==
    /\ MainIdle
    /\ mainPc = "joined" \/ stage = "exit"
    /\ LogStop \/ LogNotifyAll \/ LogJoin
    /\ UNCHANGED <<poolVars, stage, m_queuelocker>>

Ended == loggerPc = "gone" /\ UNCHANGED lifeVars

-----------------------------------------------------------------------------
MainNext ==
    Serve \/ ExitInInit \/ MainLogs \/ MainAppends \/ MainRejects \/ LeaveLoop

LifeNext ==
    \/ MainNext \/ MainNotifies \/ DeletePool \/ DeleteLogger
    \/ \E w \in Workers : WorkerLogs(w) \/ WorkerNotifies(w) \/ WorkerRuns(w)
    \/ LoggerRuns \/ LoggerWakes
    \/ Ended

\* Every thread that can go on does.  What main does next while it serves, and
\* whether a worker logs, is their own choice; a spurious wake-up is no one's
\* duty.
LifeFairness ==
    /\ WF_lifeVars(MainNotifies)
    /\ WF_lifeVars(MainAppends /\ mainPc = "release")
    /\ WF_lifeVars(DeletePool)
    /\ WF_lifeVars(DeleteLogger)
    /\ WF_lifeVars(LoggerRuns)
    /\ \A w \in Workers :
          WF_lifeVars(WorkerNotifies(w)) /\ WF_lifeVars(WorkerRuns(w))

LifeSpec == LifeInit /\ [][LifeNext]_lifeVars /\ LifeFairness

-----------------------------------------------------------------------------
(* Properties *)

\* Every line that log() has queued gets written, also when the logger is being
\* destroyed: no notification is lost between the unlock and the notify.
LineIsWritten ==
    \A n \in 1..(MaxLines + 1) : (logged >= n) ~> (Len(stderr) >= n)

\* A process that leaves its loop, or gives up its start-up, ends: the workers
\* are joined, the logger writes what it has and is joined, whatever the
\* workers were logging at the time.
ProcessEnds == (stage \in {"leaving", "exit"}) ~> (loggerPc = "gone")
=============================================================================
