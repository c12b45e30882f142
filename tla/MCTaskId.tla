------------------------------ MODULE MCTaskId ------------------------------
EXTENDS TaskId, TLC

Symmetry == Permutations(Tasks) \cup Permutations(Threads)
=============================================================================
