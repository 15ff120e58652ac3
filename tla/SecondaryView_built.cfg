SPECIFICATION Spec
CONSTANTS
    Key = {k1, k2}
    Value = {v1, v2}
    Nil = Nil
    NoRow = NoRow
    MaxSeq = 5
    MaxFaults = 2
    InitialView = "none"
    Windows = {"add"}
SYMMETRY Symmetry
INVARIANTS ViewComplete ViewSound
CHECK_DEADLOCK FALSE
