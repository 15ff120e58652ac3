SPECIFICATION Spec
CONSTANTS
    k1 = k1
    k2 = k2
    Endpoint <- TwoMachines
    Key <- MCKey
    WriterOf <- ModuleWrites
    EntryAbout <- MCEntryAbout
    PortsOf <- MCPortsOf
    Prime = "A"
    MaxWrites = 2
    MaxStops = 0
    MaxCheckpoints = 0
    Windows = {}
INVARIANTS AssimilatedUpTo QuietAgree
CHECK_DEADLOCK FALSE
