SPECIFICATION Spec
CONSTANTS
    Key = {1, 2, 3}
    Value = {v1}
    Nil = Nil
    NoRow = NoRow
    PageSize = 2
    MaxWrites = 1
    Windows = {}
INVARIANTS ScanComplete ScanOrdered ScanTrue
