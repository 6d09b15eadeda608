------------------------------- MODULE MCGcGms ------------------------------
EXTENDS GcGmsInv, TLC

Symmetry == Permutations(Pmc)
=============================================================================
