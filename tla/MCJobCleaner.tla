---------------------------- MODULE MCJobCleaner ----------------------------
(* Instances of JobCleaner for TLC. *)
EXTENDS JobCleaner, TLC

InstanceSymmetry == Permutations(Instances)
=============================================================================
