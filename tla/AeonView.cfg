SPECIFICATION Spec
CONSTANTS
    Key = {k1, k2}
    Value = {v1}
    Nil = Nil
    NoRow = NoRow
    File = {f1, f2, f3, f4}
    MaxSeq = 4
    CrashPoints = {"writing"}
SYMMETRY Symmetry
INVARIANTS TypeOK ReadsLatest UnsavedRowsAreNewest IInv
PROPERTY ImplementsRowStore
