---------------------------- MODULE MCThreadPool ----------------------------
(* Instances of ThreadPool for TLC. *)
EXTENDS ThreadPool, TLC

TaskSymmetry == Permutations(Tasks)
Symmetry == TaskSymmetry \cup Permutations(Submitters)
=============================================================================
