---------------------------- MODULE MCWorkerPool ----------------------------
(* Instances of WorkerPool for TLC. *)
EXTENDS WorkerPool, TLC

PoolSymmetry == Permutations(Jobs) \cup Permutations(Workers)
=============================================================================
