SPECIFICATION FairSpec
CONSTANTS
    NumVolumes = 2
    Row = {n1, n2}
    Reader = {r1}
    MaxFaults = 1
    Windows = {"override"}
INVARIANT AckedReadable
PROPERTY RestoreEnds
PROPERTY BackupMade
CHECK_DEADLOCK FALSE
