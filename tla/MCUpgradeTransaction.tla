------------------------ MODULE MCUpgradeTransaction ------------------------
(* Instances of UpgradeTransaction for TLC. *)
EXTENDS UpgradeTransaction, TLC

SoundTargets == Permutations(Targets \ Broken)
=============================================================================
