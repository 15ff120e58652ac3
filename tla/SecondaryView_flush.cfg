SPECIFICATION Spec
CONSTANTS
    Key = {k1, k2}
    Value = {v1, v2}
    Nil = Nil
    NoRow = NoRow
    MaxSeq = 4
    MaxFaults = 0
    InitialView = "none"
    Windows = {"add", "flush"}
SYMMETRY Symmetry
INVARIANT ViewComplete
CHECK_DEADLOCK FALSE
