------------------------- MODULE MCCollectorEngine -------------------------
(* Instances of CollectorEngine for TLC.                                   *)
EXTENDS CollectorEngine, TLC

Symmetry == Permutations(Callers)
=============================================================================
