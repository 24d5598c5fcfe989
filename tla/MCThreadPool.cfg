SPECIFICATION FairSpec
CONSTANTS
    Producers = {p1, p2, p3}
    Workers = {w1, w2}
    Sizes = {0, 1, 2}
    MaxCalls = 4
CHECK_DEADLOCK FALSE
INVARIANTS
    HandedOutInOrder
    NoLostSignal
PROPERTIES
    CallsReturn
    QueuedTaskRuns
