SPECIFICATION Spec
CONSTANTS
    Clients <- ForceCloseRace
    MaxMsgs = 1
    MaxPending = 2
    HighWaterMark = 3
CHECK_DEADLOCK FALSE
INVARIANTS
    RemovedOnce
