---------------------------- MODULE MCEventLoop ----------------------------
(* A small instance of EventLoop and EventLoopThread: two other threads,   *)
(* so that two wake-ups can be in flight, and two calls of loop(), so that *)
(* functors and a readable eventfd can be left over from the first.        *)
EXTENDS EventLoopThread

CONSTANTS t1, t2

MCThreads == {t1, t2}
=============================================================================
