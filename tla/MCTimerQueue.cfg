SPECIFICATION Spec
SYMMETRY AddrSymmetry
CONSTANTS
    t1 = t1
    a1 = a1
    a2 = a2
    NoAddr = NoAddr
    Threads <- MCThreads
    Addrs <- MCAddrs
    Delays <- MCDelays
    Intervals <- MCIntervals
    ClockSteps <- MCClockSteps
    MaxSeq = 3
    MaxTime = 2
    MaxInbox = 1
INVARIANTS
    SetsAgree
    OneOwner
    CancelSticks
    TimerNotLost
    Armed
    Prompt
