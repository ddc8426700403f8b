--------------------------- MODULE IterationStore ---------------------------
(***************************************************************************)
(* What every store of job state promises about the iterations of one job, *)
(* whatever requests it takes: a state is only ever written over the state *)
(* it was derived from, a new iteration only where there is none, and what *)
(* disappears is never the newest iteration (the conditions PutCondition   *)
(* names in src/src/storage/backend.rs, and the guarantee                  *)
(* Storage::list_job_outdated_iterations asks of its caller).              *)
(***************************************************************************)
EXTENDS Integers

CONSTANTS Iterations

VARIABLES objects,  \* what is stored of each iteration: its version, 0 when nothing is, and
                    \* "base", the version the state was derived from
          writes    \* states written so far, which is the last version given out

Nothing == [version |-> 0, base |-> 0]
Stored == {i \in Iterations : objects[i].version # 0}
IsNewest(i) == \A j \in Stored : j <= i

Init == /\ objects \in [Iterations -> {Nothing} \cup [version : 1 .. writes, base : {0}]]
        /\ \A i, j \in Stored : objects[i].version = objects[j].version => i = j

\* A state is written over the one it was derived from; over nothing when it is a new iteration.
Write(i) == /\ objects' = [objects EXCEPT ![i] = [version |-> writes + 1, base |-> objects[i].version]]
            /\ writes' = writes + 1

\* A new iteration takes the place of the whole history, in a store that keeps none.
Replace(i) == /\ i \notin Stored /\ IsNewest(i)
              /\ objects' = [j \in Iterations |->
                    IF j = i THEN [version |-> writes + 1, base |-> 0] ELSE Nothing]
              /\ writes' = writes + 1

\* Iterations go away together, in one request.
Delete(gone) == /\ gone \subseteq Stored
                /\ \A i \in gone : ~IsNewest(i)
                /\ objects' = [i \in Iterations |-> IF i \in gone THEN Nothing ELSE objects[i]]
                /\ UNCHANGED writes

Next == \/ \E i \in Iterations : Write(i) \/ Replace(i)
        \/ \E gone \in SUBSET Stored : Delete(gone)

Spec == Init /\ [][Next]_<<objects, writes>>

=============================================================================
