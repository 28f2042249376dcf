--------------------------- MODULE MCZetaStorage ----------------------------
EXTENDS ZetaStorage, TLC

Symmetry == Permutations(Kids) \cup Permutations(Slots)

=============================================================================
