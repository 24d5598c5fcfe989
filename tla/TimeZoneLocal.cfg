SPECIFICATION MCSpec
CONSTANTS
    kCheapPrepend = 2
    kInitialSize = 1
    CR = 1
    LF = 2
    Data <- MCBytes
    Ints <- MCInts
    Lens = {0, 1, 2}
    MaxReadable = 3
    kSmallBuffer = 4000
    kMaxNumericSize = 48
    Loggers = {t1}
    Zones <- MCZones
    Levels = {1, 2, 5}
    Pieces <- MCPieces
    Seconds = {1, 2}
    MaxPieces = 2
INVARIANTS
    LocalTimeAfterFirst
CHECK_DEADLOCK FALSE
