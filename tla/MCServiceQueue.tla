-------------------------- MODULE MCServiceQueue ----------------------------
EXTENDS ServiceQueue

Symmetry == Permutations(Threads) \cup Permutations(Sessions)

=============================================================================
