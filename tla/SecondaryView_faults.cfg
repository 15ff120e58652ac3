SPECIFICATION FairSpec
CONSTANTS
    Key = {k1, k2}
    Value = {v1}
    Nil = Nil
    NoRow = NoRow
    MaxSeq = 4
    MaxFaults = 2
    InitialView = "stale"
    Windows = {"delete", "undermine", "renumber", "flush", "insert", "finish", "abort", "abandon"}
INVARIANTS RowIDsUnique
PROPERTY ViewBecomesReady
CHECK_DEADLOCK FALSE
