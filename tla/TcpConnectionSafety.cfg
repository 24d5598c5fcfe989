SPECIFICATION Spec
CONSTANTS
    Clients <- AllClients
    MaxMsgs = 2
    MaxPending = 2
    HighWaterMark = 3
CHECK_DEADLOCK FALSE
INVARIANTS
    NoAssertionFails
    StreamIntact
    WritingIffBuffered
    FinAfterData
    NotifiedOnce
