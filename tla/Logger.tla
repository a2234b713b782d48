------------------------------- MODULE Logger -------------------------------
(***************************************************************************)
(* The asynchronous logger of src/src/utils/logger.cpp: callers push lines *)
(* under a mutex and notify a condition variable after it; one worker      *)
(* takes the whole list, writes it outside the lock, and leaves when the   *)
(* destructor has cleared `running` and nothing is queued.                 *)
(*                                                                         *)
(* A critical section is one action, a notification another.  A line is    *)
(* known by its number in the order of the pushes.  What the callers are   *)
(* and when the destructor runs is left to the module that uses this one.  *)
(***************************************************************************)
EXTENDS Integers, Sequences

CONSTANT Callers  \* the threads that may call log()

VARIABLES
    log_queue,  \* the lines not yet taken by the worker
    running,
    pending,    \* the worker's local list
    stderr,     \* the lines written to std::cerr
    logged,     \* how many lines log() has pushed
    logCall,    \* for each caller: outside log(), or between unlock and notify
    logWorker,  \* where worker_loop() is
    loggerPc    \* where ~Logger() is

logVars == <<log_queue, running, pending, stderr, logged, logCall, logWorker, loggerPc>>

\* The lines m..n, in the order they were pushed.
Lines(m, n) == [i \in 1..(n - m + 1) |-> m + i - 1]

\* The logger has been used for n lines, which its worker has not seen yet.
LogInit(n) ==
    /\ log_queue = Lines(1, n)
    /\ running = TRUE
    /\ pending = <<>>
    /\ stderr = <<>>
    /\ logged = n
    /\ logCall = [c \in Callers |-> "out"]
    /\ logWorker = "check"
    /\ loggerPc = "alive"

-----------------------------------------------------------------------------
(* log() *)

LogPush(c) ==
    /\ logCall[c] = "out"
    /\ log_queue' = Append(log_queue, logged + 1)
    /\ logged' = logged + 1
    /\ logCall' = [logCall EXCEPT ![c] = "notify"]
    /\ UNCHANGED <<running, pending, stderr, logWorker, loggerPc>>

\* A thread asleep in cv.wait() tests its predicate again.
Wake == logWorker' = IF logWorker = "asleep" THEN "check" ELSE logWorker

\* Mutant: log() does not notify the worker.
LogNotifyDropped(c) ==
    /\ logCall[c] = "notify"
    /\ logCall' = [logCall EXCEPT ![c] = "out"]
    /\ UNCHANGED <<log_queue, running, pending, stderr, logged, logWorker, loggerPc>>

LogNotify(c) ==
    /\ logCall[c] = "notify"
    /\ Wake
    /\ logCall' = [logCall EXCEPT ![c] = "out"]
    /\ UNCHANGED <<log_queue, running, pending, stderr, logged, loggerPc>>

-----------------------------------------------------------------------------
(* worker_loop() *)

\* The critical section: sleep while there is nothing to do, leave when the
\* logger is stopped and the list is empty, take the whole list otherwise.
LogTake ==
    /\ logWorker = "check"
    /\ \/ /\ log_queue # <<>>
          /\ pending' = log_queue
          /\ log_queue' = <<>>
          /\ logWorker' = "write"
       \/ /\ log_queue = <<>>
          /\ logWorker' = IF running THEN "asleep" ELSE "exited"
          /\ UNCHANGED <<pending, log_queue>>
    /\ UNCHANGED <<running, stderr, logged, logCall, loggerPc>>

\* Mutant: the list is emptied after the lines are written, not when taken.
LogWriteClears ==
    /\ logWorker = "write"
    /\ stderr' = stderr \o pending
    /\ pending' = <<>>
    /\ log_queue' = <<>>
    /\ logWorker' = "check"
    /\ UNCHANGED <<running, logged, logCall, loggerPc>>

\* The loop over pending; no other thread writes to std::cerr.
LogWrite ==
    /\ logWorker = "write"
    /\ stderr' = stderr \o pending
    /\ pending' = <<>>
    /\ logWorker' = "check"
    /\ UNCHANGED <<log_queue, running, logged, logCall, loggerPc>>

\* cv.wait() may return on its own.
LogSpuriousWake ==
    /\ logWorker = "asleep"
    /\ Wake
    /\ UNCHANGED <<log_queue, running, pending, stderr, logged, logCall, loggerPc>>

-----------------------------------------------------------------------------
(* ~Logger() *)

LogStop ==
    /\ loggerPc = "alive"
    /\ running' = FALSE
    /\ loggerPc' = "notify"
    /\ UNCHANGED <<log_queue, pending, stderr, logged, logCall, logWorker>>

\* Mutant: the destructor does not notify.
LogNotifyAllDropped ==
    /\ loggerPc = "notify"
    /\ loggerPc' = "join"
    /\ UNCHANGED <<log_queue, running, pending, stderr, logged, logCall, logWorker>>

LogNotifyAll ==
    /\ loggerPc = "notify"
    /\ Wake
    /\ loggerPc' = "join"
    /\ UNCHANGED <<log_queue, running, pending, stderr, logged, logCall>>

LogJoin ==
    /\ loggerPc = "join"
    /\ logWorker = "exited"
    /\ loggerPc' = "gone"
    /\ UNCHANGED <<log_queue, running, pending, stderr, logged, logCall, logWorker>>

-----------------------------------------------------------------------------
LogWorkerNext == LogTake \/ LogWrite

\* Type invariant of the logger's state.
LogTypeOK ==
    /\ log_queue \in Seq(Nat)
    /\ running \in BOOLEAN
    /\ pending \in Seq(Nat)
    /\ stderr \in Seq(Nat)
    /\ logged \in Nat
    /\ logCall \in [Callers -> {"out", "notify"}]
    /\ logWorker \in {"check", "asleep", "write", "exited"}
    /\ loggerPc \in {"alive", "notify", "join", "gone"}

\* Every line is written, in the hands of the worker or queued, each once and
\* in the order of the pushes; and when the destructor has returned they have
\* all been written ("Flushes queued log entries before shutdown.").
LinesInOrder ==
    /\ stderr \o pending \o log_queue = Lines(1, logged)
    /\ loggerPc = "gone" => stderr = Lines(1, logged)
=============================================================================
