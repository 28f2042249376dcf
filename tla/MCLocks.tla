------------------------------ MODULE MCLocks -------------------------------
EXTENDS Locks, TLC
Symmetry == Permutations(Threads) \cup Permutations(Sessions)
=============================================================================
