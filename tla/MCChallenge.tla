---------------------------- MODULE MCChallenge -----------------------------
EXTENDS Challenge, TLC

Symmetry == Permutations(Threads) \cup Permutations(Addresses)

=============================================================================
