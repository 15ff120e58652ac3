----------------------------- MODULE MCRowScan ------------------------------
EXTENDS RowScan, TLC
Symmetry == Permutations(Value)
=============================================================================
