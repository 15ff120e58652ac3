SPECIFICATION FairSpec
CONSTANTS
    r = r
    s1 = s1
    s2 = s2
    Receiver = r
    Sender <- Senders
    Words = 9
    Slots = 2
    Chunk = 1
    Lengths = {1, 4}
    MaxTries = 1
    MaxMessages = 3
    MaxDeaths = 2
    Windows = {}
INVARIANTS BlocksTile EmptyTakesAny EventTellsMessages HasQueue
PROPERTIES KeepsPromise EachLeaves
CHECK_DEADLOCK FALSE
