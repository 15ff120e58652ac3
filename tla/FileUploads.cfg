SPECIFICATION Spec
CONSTANTS
    t1 = t1
    t2 = t2
    c1 = c1
    c2 = c2
    Thread <- Threads
    Upload <- Clients
    Length = 3
    UploadPos = 1
    Modes = {"whole", "over", "append"}
    MaxFiles = 2
    MaxCommits = 3
    MaxCrashes = 1
    Windows = {}
SYMMETRY ThreadSymmetry
CHECK_DEADLOCK FALSE
INVARIANTS Stored SessionTrue NoOrphan
PROPERTY NoLostUpdate
