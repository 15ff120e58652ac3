------------------------ MODULE MCInterprocessQueue -------------------------
EXTENDS InterprocessQueue
CONSTANTS r, s1, s2
Senders == {s1, s2}
=============================================================================
