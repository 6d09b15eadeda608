---------------------------- MODULE MCScheduler -----------------------------
EXTENDS Scheduler, TLC

Symmetry == Permutations(Task \ {Main})
=============================================================================
