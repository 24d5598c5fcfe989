----------------------------- MODULE EventLoop -----------------------------
(***************************************************************************)
(* net/EventLoop: the reactor's loop, its queue of pending functors and    *)
(* the eventfd that gets the loop thread out of poll.                      *)
(*                                                                         *)
(* One loop thread runs loop(), or user code that may call loop() again;   *)
(* the Threads call queueInLoop (which is what runInLoop is outside the    *)
(* loop thread), quit and wakeup at any moment.  Functors are numbered in  *)
(* the order in which they enter pendingFunctors_.                         *)
(*                                                                         *)
(* Abstractions.  The eventfd's counter is a Boolean: only "readable or    *)
(* not" is ever observed.  All other channels are the environment: poll    *)
(* may return at any time without the wake-up channel, either because of   *)
(* its timeout or because other channels filled the event list.  A handler *)
(* or a functor may call back into the loop any number of times.           *)
(* eventHandling_ is pc = "events"; callingPendingFunctors_ is a variable  *)
(* because queueInLoop branches on it.  Only the loop thread reads it.     *)
(***************************************************************************)
EXTENDS Naturals, Sequences

CONSTANTS Threads,      \* the threads other than the loop thread
          MaxFunctors,  \* bound: functors queued in a behaviour
          MaxLoops      \* bound: calls of loop() in a behaviour

ASSUME BoundsAssumption == MaxFunctors \in Nat /\ MaxLoops \in Nat

VARIABLES
    looping_,
    quit_,
    callingPendingFunctors_,
    pendingFunctors_,  \* sequence of functor numbers, guarded by mutex_
    functors,          \* what is left of doPendingFunctors' local vector
    wakeupFd_,         \* TRUE iff the eventfd is readable
    active,            \* TRUE iff wakeupChannel_ is still to be handled in
                       \* this round's activeChannels_
    pc,                \* where the loop thread is
    tpc,               \* where each other thread is in its call
    submitted,         \* number of functors queued so far
    executed,          \* number of functors run so far
    loops,             \* number of calls of loop() so far
    quiet              \* how many pending functors the loop thread queued
                       \* outside loop(): these come with no wake-up

vars == <<looping_, quit_, callingPendingFunctors_, pendingFunctors_,
          functors, wakeupFd_, active, pc, tpc, submitted, executed, loops,
          quiet>>

PcStates  == {"outside", "test", "poll", "events", "swap", "functors",
              "functor"}
TpcStates == {"idle", "queued", "quitting", "waking"}

Init ==
    /\ looping_ = FALSE
    /\ quit_ = FALSE
    /\ callingPendingFunctors_ = FALSE
    /\ pendingFunctors_ = <<>>
    /\ functors = <<>>
    /\ wakeupFd_ = FALSE
    /\ active = FALSE
    /\ pc = "outside"
    /\ tpc = [t \in Threads |-> "idle"]
    /\ submitted = 0
    /\ executed = 0
    /\ loops = 0
    /\ quiet = 0

-----------------------------------------------------------------------------
(* loop() *)

EnterLoop ==
    /\ pc = "outside"
    /\ loops < MaxLoops
    /\ looping_' = TRUE
    /\ quit_' = FALSE
    /\ loops' = loops + 1
    /\ pc' = "test"
    /\ UNCHANGED <<callingPendingFunctors_, pendingFunctors_, functors,
                   wakeupFd_, active, tpc, submitted, executed, quiet>>

\* while (!quit_): stay in the loop, or leave it.
TestQuit ==
    /\ pc = "test"
    /\ \/ /\ ~quit_
          /\ pc' = "poll"
          /\ UNCHANGED looping_
       \/ /\ quit_
          /\ pc' = "outside"
          /\ looping_' = FALSE
    /\ UNCHANGED <<quit_, callingPendingFunctors_, pendingFunctors_,
                   functors, wakeupFd_, active, tpc, submitted, executed,
                   loops, quiet>>

\* poll returns because the eventfd is readable (perhaps with others).
PollWakeup ==
    /\ pc = "poll"
    /\ wakeupFd_
    /\ active' = TRUE
    /\ pc' = "events"
    /\ UNCHANGED <<looping_, quit_, callingPendingFunctors_,
                   pendingFunctors_, functors, wakeupFd_, tpc, submitted,
                   executed, loops, quiet>>

\* poll returns with other channels only, or after kPollTimeMs with none.
PollOther ==
    /\ pc = "poll"
    /\ active' = FALSE
    /\ pc' = "events"
    /\ UNCHANGED <<looping_, quit_, callingPendingFunctors_,
                   pendingFunctors_, functors, wakeupFd_, tpc, submitted,
                   executed, loops, quiet>>

\* The read callback of wakeupChannel_: one read resets the eventfd.
HandleRead ==
    /\ pc = "events"
    /\ active
    /\ active' = FALSE
    /\ wakeupFd_' = FALSE
    /\ UNCHANGED <<looping_, quit_, callingPendingFunctors_,
                   pendingFunctors_, functors, pc, tpc, submitted, executed,
                   loops, quiet>>

\* The loop over activeChannels_ ends when every channel has been handled.
EndEvents ==
    /\ pc = "events"
    /\ ~active
    /\ pc' = "swap"
    /\ UNCHANGED <<looping_, quit_, callingPendingFunctors_,
                   pendingFunctors_, functors, wakeupFd_, active, tpc,
                   submitted, executed, loops, quiet>>

-----------------------------------------------------------------------------
(* doPendingFunctors() *)

\* A copy in place of the swap: pendingFunctors_ keeps its functors.
SwapPending_CopyOnly ==
    /\ pc = "swap"
    /\ callingPendingFunctors_' = TRUE
    /\ functors' = pendingFunctors_
    /\ quiet' = 0
    /\ pc' = "functors"
    /\ UNCHANGED <<looping_, quit_, pendingFunctors_, wakeupFd_, active, tpc,
                   submitted, executed, loops>>

SwapPending ==
    /\ pc = "swap"
    /\ callingPendingFunctors_' = TRUE
    /\ functors' = pendingFunctors_
    /\ pendingFunctors_' = <<>>
    /\ quiet' = 0
    /\ pc' = "functors"
    /\ UNCHANGED <<looping_, quit_, wakeupFd_, active, tpc, submitted,
                   executed, loops>>

\* functor() is called; the loop thread is inside it until EndFunctor.
RunFunctor ==
    /\ pc = "functors"
    /\ functors # <<>>
    /\ functors' = Tail(functors)
    /\ executed' = executed + 1
    /\ pc' = "functor"
    /\ UNCHANGED <<looping_, quit_, callingPendingFunctors_,
                   pendingFunctors_, wakeupFd_, active, tpc, submitted,
                   loops, quiet>>

EndFunctor ==
    /\ pc = "functor"
    /\ pc' = "functors"
    /\ UNCHANGED <<looping_, quit_, callingPendingFunctors_,
                   pendingFunctors_, functors, wakeupFd_, active, tpc,
                   submitted, executed, loops, quiet>>

EndFunctors ==
    /\ pc = "functors"
    /\ functors = <<>>
    /\ callingPendingFunctors_' = FALSE
    /\ pc' = "test"
    /\ UNCHANGED <<looping_, quit_, pendingFunctors_, functors, wakeupFd_,
                   active, tpc, submitted, executed, loops, quiet>>

-----------------------------------------------------------------------------
(* Calls of the public operations.  push_back happens under mutex_, the    *)
(* wake-up after the lock is released: two steps for the other threads.    *)
(* The loop thread's own two steps need no splitting, because the loop     *)
(* looks at the eventfd only after both.                                   *)

\* !isInLoopThread() || callingPendingFunctors_
NeedsWakeup_OtherThreadsOnly(inLoopThread) == ~inLoopThread

NeedsWakeup(inLoopThread) == ~inLoopThread \/ callingPendingFunctors_

PushBack ==
    /\ submitted < MaxFunctors
    /\ submitted' = submitted + 1
    /\ pendingFunctors_' = Append(pendingFunctors_, submitted + 1)

\* Points at which the loop thread runs code of the library's user.
InUserCode == pc \in {"outside", "events", "functor"}

\* queueInLoop in the loop thread: from a handler, a functor, or before or
\* after loop().
LoopQueueInLoop ==
    /\ InUserCode
    /\ PushBack
    /\ wakeupFd_' = (wakeupFd_ \/ NeedsWakeup(TRUE))
    /\ quiet' = IF pc = "outside" THEN quiet + 1 ELSE quiet
    /\ UNCHANGED <<looping_, quit_, callingPendingFunctors_, functors,
                   active, pc, tpc, executed, loops>>

\* quit in the loop thread: no wake-up, the loop tests quit_ next.
LoopQuit ==
    /\ InUserCode
    /\ quit_' = TRUE
    /\ UNCHANGED <<looping_, callingPendingFunctors_, pendingFunctors_,
                   functors, wakeupFd_, active, pc, tpc, submitted,
                   executed, loops, quiet>>

LoopWakeup ==
    /\ InUserCode
    /\ wakeupFd_' = TRUE
    /\ UNCHANGED <<looping_, quit_, callingPendingFunctors_,
                   pendingFunctors_, functors, active, pc, tpc, submitted,
                   executed, loops, quiet>>

QueueInLoop(t) ==
    /\ tpc[t] = "idle"
    /\ PushBack
    /\ tpc' = [tpc EXCEPT ![t] = IF NeedsWakeup(FALSE) THEN "queued"
                                                       ELSE "idle"]
    /\ UNCHANGED <<looping_, quit_, callingPendingFunctors_, functors,
                   wakeupFd_, active, pc, executed, loops, quiet>>

\* quit() that leaves the loop thread asleep.
Quit_NoWakeup(t) ==
    /\ tpc[t] = "idle"
    /\ quit_' = TRUE
    /\ UNCHANGED <<looping_, callingPendingFunctors_, pendingFunctors_,
                   functors, wakeupFd_, active, pc, tpc, submitted, executed,
                   loops, quiet>>

Quit(t) ==
    /\ tpc[t] = "idle"
    /\ quit_' = TRUE
    /\ tpc' = [tpc EXCEPT ![t] = "quitting"]
    /\ UNCHANGED <<looping_, callingPendingFunctors_, pendingFunctors_,
                   functors, wakeupFd_, active, pc, submitted, executed,
                   loops, quiet>>

CallWakeup(t) ==
    /\ tpc[t] = "idle"
    /\ tpc' = [tpc EXCEPT ![t] = "waking"]
    /\ UNCHANGED <<looping_, quit_, callingPendingFunctors_,
                   pendingFunctors_, functors, wakeupFd_, active, pc,
                   submitted, executed, loops, quiet>>

\* wakeup(): the write to the eventfd, whoever called it.
Wakeup(t) ==
    /\ tpc[t] # "idle"
    /\ wakeupFd_' = TRUE
    /\ tpc' = [tpc EXCEPT ![t] = "idle"]
    /\ UNCHANGED <<looping_, quit_, callingPendingFunctors_,
                   pendingFunctors_, functors, active, pc, submitted,
                   executed, loops, quiet>>

-----------------------------------------------------------------------------

\* The steps of loop() that depend on nobody: the code between two calls
\* of poll, and a poll that has the eventfd to report.
LoopStep ==
    \/ TestQuit
    \/ PollWakeup
    \/ HandleRead
    \/ EndEvents
    \/ SwapPending
    \/ RunFunctor
    \/ EndFunctor
    \/ EndFunctors

Next ==
    \/ EnterLoop
    \/ LoopStep
    \/ PollOther
    \/ LoopQueueInLoop
    \/ LoopQuit
    \/ LoopWakeup
    \/ \E t \in Threads :
          QueueInLoop(t) \/ Quit(t) \/ CallWakeup(t) \/ Wakeup(t)

Spec == Init /\ [][Next]_vars

\* The loop thread is scheduled, handlers and functors return, and a thread
\* that has begun a call finishes it.  Nothing is assumed of PollOther: no
\* liveness property below rests on the poll timeout.
Fairness ==
    /\ WF_vars(LoopStep)
    /\ \A t \in Threads : WF_vars(Wakeup(t))

FairSpec == Spec /\ Fairness

-----------------------------------------------------------------------------
(* Properties *)

TypeOK ==
    /\ looping_ \in BOOLEAN
    /\ quit_ \in BOOLEAN
    /\ callingPendingFunctors_ \in BOOLEAN
    /\ pendingFunctors_ \in Seq(Nat)
    /\ functors \in Seq(Nat)
    /\ wakeupFd_ \in BOOLEAN
    /\ active \in BOOLEAN
    /\ pc \in PcStates
    /\ tpc \in [Threads -> TpcStates]
    /\ submitted \in 0..MaxFunctors
    /\ executed \in 0..MaxFunctors
    /\ loops \in 0..MaxLoops
    /\ quiet \in Nat

\* queueInLoop's wake-up protocol loses no functor: while the loop thread
\* may block in poll, a pending functor has made the eventfd readable, or
\* the thread that queued it is about to.  Functors the loop thread queued
\* before loop() are the exception the code makes (line 131).
NoLostWakeup ==
    (pc = "poll" /\ Len(pendingFunctors_) > quiet)
        => (wakeupFd_ \/ \E t \in Threads : tpc[t] = "queued")

\* quit() from another thread is not slept through: if the loop thread is
\* in poll although quit_ is set, the eventfd is or will be readable.
QuitNotMissed ==
    (pc = "poll" /\ quit_)
        => (wakeupFd_ \/ \E t \in Threads : tpc[t] = "quitting")

\* Functors run once each, in the order in which they were queued, whatever
\* thread queued them and however the swaps cut the queue.
Exec == INSTANCE SerialExecutor WITH queue <- functors \o pendingFunctors_

SerialExecution == Exec!ExecSpec

\* A functor queued while the loop runs is run, unless the loop is left
\* first; the poll timeout is not needed for it.
QueuedFunctorRuns ==
    \A n \in 1..MaxFunctors :
        (looping_ /\ submitted >= n
            /\ (quiet = 0 \/ Len(pendingFunctors_) > quiet))
        ~> (executed >= n \/ ~looping_)

\* loop() returns once quit() has been called during it.
QuitEndsLoop == (looping_ /\ quit_) ~> ~looping_
=============================================================================
