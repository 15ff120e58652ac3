----------------------------- MODULE MCAeonView -----------------------------
EXTENDS AeonViewInv, TLC
Symmetry == Permutations(Key) \cup Permutations(Value) \cup Permutations(File)
=============================================================================
