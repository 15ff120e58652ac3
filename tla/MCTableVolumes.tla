--------------------------- MODULE MCTableVolumes ---------------------------
EXTENDS TableVolumes, TLC

Symmetry == Permutations(Row) \cup Permutations(Reader)
=============================================================================
