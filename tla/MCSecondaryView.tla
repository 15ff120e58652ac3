--------------------------- MODULE MCSecondaryView -------------------------
EXTENDS SecondaryView, TLC
Symmetry == Permutations(Key) \cup Permutations(Value)
=============================================================================
