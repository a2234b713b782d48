---------------------------- MODULE MCEventLoop -----------------------------
(* EventLoop for TLC. *)
EXTENDS EventLoop, TLC

\* The workers differ in nothing; for the run without liveness properties.
WorkerSymmetry == Permutations(Workers)
=============================================================================
