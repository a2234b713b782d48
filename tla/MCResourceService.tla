------------------------- MODULE MCResourceService -------------------------
(* ResourceService on small instances. *)
EXTENDS ResourceService, TLC

CONSTANTS t1, t2, web1

\* Two worker threads of one process, with the one ResourceDAO::msg.
OneProcess == t1 :> web1 @@ t2 :> web1

\* The threads differ in nothing; for the run without liveness properties.
ThreadSymmetry == Permutations(Threads)
=============================================================================
