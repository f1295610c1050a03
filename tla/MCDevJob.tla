------------------------------ MODULE MCDevJob ------------------------------
EXTENDS DevJobProperties, TLC
Symmetry == Permutations(Handlers) \cup Permutations(Replicas) \cup Permutations(Jobs)
=============================================================================
