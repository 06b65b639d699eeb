----------------------------- MODULE MCWorkerPool -----------------------------
(* Three targets of one interval and a worker for each; an iteration may come   *)
(* late by more than an interval, and the clock runs for about three intervals. *)
EXTENDS WorkerPool, TLC

ThreeAlike == <<4, 4, 4>>
ThreeSlow  == <<6, 6, 6>>

\* Threads are alike.
AnyThread == Permutations(Threads)
=============================================================================
