------------------------------ MODULE MCMount ------------------------------
EXTENDS Mount, TLC

Symmetry == Permutations(Mounts)
=============================================================================
