--------------------------- MODULE MCTimerQueue ----------------------------
(* A small instance of TimerQueue.  Another thread adds and cancels, and   *)
(* three timers share two addresses, so that an address is reused while an *)
(* id of its former timer is still around.                                 *)
EXTENDS TimerQueue, TLC

CONSTANTS t1, a1, a2

MCThreads == {t1}
MCAddrs   == {a1, a2}

MCDelays     == {1, 2}
MCIntervals  == {-1, 1}
MCClockSteps == {-1}

\* Addresses are only compared for equality.
AddrSymmetry == Permutations(MCAddrs)
=============================================================================
