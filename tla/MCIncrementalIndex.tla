------------------------- MODULE MCIncrementalIndex -------------------------
(* Model-checking instances of IncrementalIndex: jobs that are not named   *)
(* are interchangeable.                                                    *)
EXTENDS IncrementalIndex, TLC

Symmetry == Permutations(Jobs \ NamedJobs)
=============================================================================
