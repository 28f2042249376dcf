---------------------------- MODULE MCTransport -----------------------------
EXTENDS Transport, TLC

Symmetry == Permutations(Threads)

=============================================================================
