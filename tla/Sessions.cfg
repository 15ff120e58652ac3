SPECIFICATION Spec
CONSTANTS
    Worker = {w1, w2}
    MaxSessions = 2
    NumCommands = 2
    MaxKeepAlive = 1
    Counters = 255
    Windows = {}
SYMMETRY Symmetry
INVARIANTS TypeOK TimersWellFormed TimersOwned AnsweredOnce NoUseAfterFree WakesInTime
PROPERTY TimeoutIsReal
CHECK_DEADLOCK FALSE
