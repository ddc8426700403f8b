---------------------------- MODULE MCJobWorkers ----------------------------
(* Instances of JobWorkers for TLC: the dependency graphs of the runs. *)
EXTENDS JobWorkers, TLC

CONSTANTS a, b, c

Single == (a :> {})
Free == (a :> {}) @@ (b :> {})
Chain == [t \in TaskIds |-> CASE t = a -> {} [] t = b -> {a} [] OTHER -> {b}]
Plan == (a :> {}) @@ (b :> {}) @@ (c :> {b})
WorkerSymmetry == Permutations(Workers)
=============================================================================
