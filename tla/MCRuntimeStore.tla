--------------------------- MODULE MCRuntimeStore ---------------------------
EXTENDS RuntimeStore, TLC

InstanceSymmetry == Permutations(Instances)
=============================================================================
