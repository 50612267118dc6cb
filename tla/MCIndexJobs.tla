---------------------------- MODULE MCIndexJobs ----------------------------
(* Model-checking instances of IndexJobs: jobs and processes are           *)
(* interchangeable when no job id is named on the command line.            *)
EXTENDS IndexJobs, TLC

Symmetry == Permutations(Jobs) \cup Permutations(Runners)
=============================================================================
