SPECIFICATION FairSpec
CONSTANTS
    Clients <- ClosingClients
    MaxMsgs = 1
    MaxPending = 2
    HighWaterMark = 3
CHECK_DEADLOCK FALSE
PROPERTIES
    ForceCloseCompletes
    ShutdownCompletes
    ClosedIsDestroyed
