--------------------------- MODULE MCFileUploads ----------------------------
EXTENDS FileUploads, TLC
CONSTANTS t1, t2, c1, c2
Threads == {t1, t2}
Clients == {c1, c2}
ThreadSymmetry == Permutations(Threads) \cup Permutations(Clients)
=============================================================================
