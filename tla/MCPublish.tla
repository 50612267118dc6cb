----------------------------- MODULE MCPublish ------------------------------
(* Model checking instances of Publish.                                    *)
EXTENDS Publish, TLC

Symmetry == Permutations(Versions)
=============================================================================
