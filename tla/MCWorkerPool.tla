----------------------------- MODULE MCWorkerPool -----------------------------
(***************************************************************************)
(* TLC instances of WorkerPool: the parallel path with two threads and     *)
(* four candidates, and the sequential path.                               *)
(***************************************************************************)
EXTENDS WorkerPool

MCVerdicts == {"Killed", "Escaped", "Cancelled"}
=============================================================================
