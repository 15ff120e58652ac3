SPECIFICATION Spec
CONSTANTS
    NumVolumes = 3
    Row = {n1}
    Reader = {r1}
    MaxFaults = 3
    Windows = {}
SYMMETRY Symmetry
INVARIANTS AckedReadable BackupComplete
PROPERTY GivesUpOnlyWhenLost
CHECK_DEADLOCK FALSE
