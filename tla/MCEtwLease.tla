----------------------------- MODULE MCEtwLease -----------------------------
(* Instances of EtwLease for TLC: three processes, so that one may be       *)
(* recorded in the lease, one linger and one start.                         *)
EXTENDS EtwLease, TLC

CONSTANTS g1, g2, g3, i1, i2

\* The third generation configures another session.
Configured == [g \in Generations |-> IF g = g3 THEN i2 ELSE i1]

ProcsSymmetry == Permutations(Procs)
=============================================================================
