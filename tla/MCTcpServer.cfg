SPECIFICATION FairSpec
CONSTANTS
    MaxFds = 4
    MaxClients = 3
    MaxPending = 2
    MaxErrors = 1
    MaxOthers = 1
INVARIANTS
    RoundIsSafe
    NothingLeaks
PROPERTIES
    ClientIsServed
CHECK_DEADLOCK FALSE
