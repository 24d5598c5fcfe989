----------------------------- MODULE ThreadPool -----------------------------
(***************************************************************************)
(* base/ThreadPool: a main thread that starts and stops the pool, worker   *)
(* threads in runInThread, and threads that call run.  Its queue is the    *)
(* monitor of BlockingQueue with other conditions: both waits end when     *)
(* running_ is cleared.  The two queue classes are the other kinds of      *)
(* initial state, so that one specification has all three.                 *)
(*                                                                         *)
(* Thread::start has no body in the repository; it is taken to create the  *)
(* thread and wait for its latch, as Thread.h's latch_ and ThreadData's    *)
(* countDown in Thread.cc suggest.  A task that throws ends the program    *)
(* and is left out.  MutexLock::isLockedByThisThread has an empty body, so *)
(* that assertLocked in isFull may do anything in a debug build: the model *)
(* is of a build in which it passes.                                       *)
(***************************************************************************)
EXTENDS BlockingQueue

VARIABLES
    running_,
    threads_,    \* the workers created so far
    count_,      \* the CountDownLatch of the worker created last
    main,        \* where the main thread is
    numThreads,  \* the argument of start
    nested       \* may a task call run itself?

pvars == <<running_, threads_, count_, main, numThreads, nested>>
vars == <<qvars, pvars>>

-----------------------------------------------------------------------------
(* start, with Thread::start and CountDownLatch *)

\* running_ is set before the threads exist.
PoolInit ==
    /\ QueueInit
    /\ kind = "ThreadPool"
    /\ maxSize \in Sizes
    /\ pc = [t \in Threads |-> IF t \in Producers THEN "idle" ELSE "none"]
    /\ running_ = TRUE
    /\ threads_ = {}
    /\ count_ = 0
    /\ main = "start"
    /\ numThreads \in 0..Cardinality(Workers)
    /\ nested \in BOOLEAN

StartThread(w) ==
    /\ main = "start"
    /\ pc[w] = "none"
    /\ Cardinality(threads_) < numThreads
    /\ threads_' = threads_ \union {w}
    /\ pc' = [pc EXCEPT ![w] = "born"]
    /\ count_' = 1
    /\ main' = "latch"
    /\ UNCHANGED <<kind, maxSize, queue_, calls, put, taken, running_,
                   numThreads, nested>>

\* CountDownLatch::wait, by the thread that starts the worker.
LatchWait ==
    /\ main = "latch"
    /\ main' = IF count_ > 0 THEN "latchWait" ELSE "start"
    /\ UNCHANGED <<qvars, running_, threads_, count_, numThreads, nested>>

\* ThreadData::runInThread begins with CountDownLatch::countDown.
CountDown(w) ==
    /\ pc[w] = "born"
    /\ count_' = count_ - 1
    /\ main' = IF count_' = 0 /\ main = "latchWait" THEN "latch" ELSE main
    /\ pc' = [pc EXCEPT ![w] = "test"]
    /\ UNCHANGED <<kind, maxSize, queue_, calls, put, taken, running_,
                   threads_, numThreads, nested>>

Started ==
    /\ main = "start"
    /\ Cardinality(threads_) = numThreads
    /\ main' = "up"
    /\ UNCHANGED <<qvars, running_, threads_, count_, numThreads, nested>>

-----------------------------------------------------------------------------
(* run *)

\* Threads call run once start has returned; a task may call it as well.
CallRun(t) ==
    /\ main \notin {"start", "latch", "latchWait"}
    /\ CallPut(t)
    /\ UNCHANGED pvars

CallNestedRun(w) ==
    /\ nested
    /\ kind = "ThreadPool"
    /\ pc[w] = "work"
    /\ calls < MaxCalls
    /\ calls' = calls + 1
    /\ pc' = [pc EXCEPT ![w] = "put"]
    /\ UNCHANGED <<kind, maxSize, queue_, put, taken, pvars>>

\* Where the caller of run goes on: outside, or at the end of its task.
AfterRun(t) == IF t \in Workers THEN "test" ELSE "idle"

\* The test of running_ after the wait is left out, so a stopped pool keeps
\* its callers waiting.
Run_IgnoresStop(t) ==
    /\ kind = "ThreadPool"
    /\ pc[t] = "put"
    /\ \/ /\ threads_ = {}
          /\ put' = put + 1
          /\ taken' = put + 1
          /\ pc' = [pc EXCEPT ![t] = AfterRun(t)]
          /\ UNCHANGED <<kind, maxSize, queue_, calls>>
       \/ threads_ # {} /\ QueueFull /\ Wait(t, "notFull")
       \/ /\ threads_ # {} /\ ~QueueFull
          /\ PushBack
          /\ Notify([pc EXCEPT ![t] = AfterRun(t)], "notEmpty")
    /\ UNCHANGED pvars

Run(t) ==
    /\ kind = "ThreadPool"
    /\ pc[t] = "put"
    /\ \/ /\ threads_ = {}  \* the task runs in the caller
          /\ put' = put + 1
          /\ taken' = put + 1
          /\ pc' = [pc EXCEPT ![t] = AfterRun(t)]
          /\ UNCHANGED <<kind, maxSize, queue_, calls>>
       \/ threads_ # {} /\ QueueFull /\ running_ /\ Wait(t, "notFull")
       \/ threads_ # {} /\ ~running_ /\ Wait(t, AfterRun(t))
       \/ /\ threads_ # {} /\ running_ /\ ~QueueFull
          /\ PushBack
          /\ Notify([pc EXCEPT ![t] = AfterRun(t)], "notEmpty")
    /\ UNCHANGED pvars

-----------------------------------------------------------------------------
(* runInThread and take *)

\* while (running_), read without the mutex.
TestRunning(w) ==
    /\ pc[w] = "test"
    /\ pc' = [pc EXCEPT ![w] = IF running_ THEN "take" ELSE "done"]
    /\ UNCHANGED <<kind, maxSize, queue_, calls, put, taken, pvars>>

\* A stopped pool still hands out what is queued; without a task the worker
\* goes back to its test.
PoolTake(w) ==
    /\ kind = "ThreadPool"
    /\ pc[w] = "take"
    /\ \/ queue_ = <<>> /\ running_ /\ Wait(w, "notEmpty")
       \/ queue_ = <<>> /\ ~running_ /\ Wait(w, "test")
       \/ /\ queue_ # <<>>
          /\ PopFront
          /\ IF maxSize > 0 THEN Notify([pc EXCEPT ![w] = "work"], "notFull")
                            ELSE pc' = [pc EXCEPT ![w] = "work"]
    /\ UNCHANGED pvars

EndTask(w) ==
    /\ kind = "ThreadPool"
    /\ pc[w] = "work"
    /\ pc' = [pc EXCEPT ![w] = "test"]
    /\ UNCHANGED <<kind, maxSize, queue_, calls, put, taken, pvars>>

-----------------------------------------------------------------------------
(* stop, which the destructor calls as well *)

Stop ==
    /\ main = "up"
    /\ kind = "ThreadPool"
    /\ running_' = FALSE
    /\ pc' = [t \in Threads |-> IF pc[t] \in {"notFull", "notEmpty"}
                                THEN LoopStart(pc[t]) ELSE pc[t]]
    /\ main' = "join"
    /\ UNCHANGED <<kind, maxSize, queue_, calls, put, taken, threads_,
                   count_, numThreads, nested>>

\* All the workers have been joined.
Joined ==
    /\ main = "join"
    /\ \A w \in threads_ : pc[w] = "done"
    /\ main' = "stopped"
    /\ UNCHANGED <<qvars, running_, threads_, count_, numThreads, nested>>

-----------------------------------------------------------------------------

Init ==
    \/ PoolInit
    \/ /\ PlainInit
       /\ running_ = TRUE /\ threads_ = {} /\ count_ = 0 /\ main = "up"
       /\ numThreads = 0 /\ nested = FALSE

MainStep ==
    \/ \E w \in Workers : StartThread(w)
    \/ LatchWait
    \/ Started
    \/ Joined

ThreadStep(t) ==
    \/ PlainStep(t) /\ UNCHANGED pvars
    \/ CountDown(t)
    \/ Run(t)
    \/ TestRunning(t)
    \/ PoolTake(t)
    \/ EndTask(t)

Next ==
    \/ MainStep
    \/ Stop
    \/ \E t \in Threads :
          \/ ThreadStep(t)
          \/ CallRun(t)
          \/ CallNestedRun(t)
          \/ (SpuriousWakeup(t) \/ Drain(t)) /\ UNCHANGED pvars

Spec == Init /\ [][Next]_vars

\* Threads are scheduled, a mutex is granted to whoever waits for it, and
\* tasks end.  Nobody is made to call run or stop, and no wake-up comes
\* without a notification.
Fairness ==
    /\ WF_vars(MainStep)
    /\ \A t \in Threads : WF_vars(ThreadStep(t))

FairSpec == Spec /\ Fairness

-----------------------------------------------------------------------------
(* Properties *)

\* Workers that call run in a bounded pool may all wait for each other.
Independent == ~nested \/ maxSize = 0

\* Nobody waits for ever: start() gets through the latches of its threads;
\* put and run return, because room is made while consumers consume and
\* stop() releases those who still wait; and stop() returns, because every
\* worker leaves its loop, even one whose task waits in run for room.
CallsReturn ==
    /\ (main = "start") ~> (main \in {"up", "join", "stopped"})
    /\ (main = "join") ~> (main = "stopped")
    /\ Independent =>
          \A t \in Producers : (pc[t] \in {"put", "notFull"}) ~> (pc[t] = "idle")

\* What is queued is handed out, unless the pool is stopped first.
QueuedTaskRuns ==
    Independent =>
        \A n \in 1..MaxCalls : (put >= n) ~> (taken >= n \/ ~running_)
=============================================================================
