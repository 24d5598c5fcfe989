SPECIFICATION FairSpec
CONSTANTS
    rollSize = 2
    flushInterval = 1
    checkEveryN = 2
    kRollPerSeconds = 2
    kLargeBuffer = 3
    kMaxBacklog = 2
    Lengths = {1, 2, 3}
    MaxLines = 3
    MaxTime = 3
    MaxErrors = 1
CHECK_DEADLOCK FALSE
INVARIANTS
    AssertionsHold
    NothingLost
    RolledInTime
PROPERTIES
    LinesGetOut
