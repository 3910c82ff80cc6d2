-------------------------- MODULE MCAtomicReplace --------------------------
(* Instances of AtomicReplace for TLC: two writers race on one path.       *)
EXTENDS AtomicReplace, TLC
=============================================================================
