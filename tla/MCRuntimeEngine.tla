-------------------------- MODULE MCRuntimeEngine --------------------------
(* Instances of RuntimeEngine for TLC.                                     *)
EXTENDS RuntimeEngine, TLC

Symmetry == Permutations(Callers)
=============================================================================
