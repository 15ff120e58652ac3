SPECIFICATION Spec
CONSTANTS
    k1 = k1
    k2 = k2
    Endpoint <- OneMachine
    Key <- MCKey
    WriterOf <- BothWrite
    EntryAbout <- MCEntryAbout
    PortsOf <- MCPortsOf
    Prime = "A"
    MaxWrites = 1
    MaxStops = 1
    MaxCheckpoints = 2
    Windows = {}
INVARIANTS ConfirmedIsThere QuietConfirmed
PROPERTY Converges
CHECK_DEADLOCK FALSE
