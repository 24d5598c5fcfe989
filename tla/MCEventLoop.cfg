SPECIFICATION ThreadSpec
CONSTANTS
    t1 = t1
    t2 = t2
    Threads <- MCThreads
    Owner = t1
    MaxFunctors = 3
    MaxLoops = 2
INVARIANTS
    NoLostWakeup
    QuitNotMissed
PROPERTIES
    SerialExecution
    QueuedFunctorRuns
    OwnerReturns
CHECK_DEADLOCK FALSE
