-------------------------- MODULE EventLoopThread --------------------------
(***************************************************************************)
(* net/EventLoopThread around net/EventLoop: a thread whose function       *)
(* creates a loop, publishes it, runs it and takes it back.  The owner is  *)
(* the one of the Threads that calls startLoop and the destructor; the     *)
(* others use the loop between the two.                                    *)
(*                                                                         *)
(* A loop that a thread of the user runs itself (func = "none") behaves as *)
(* in EventLoop alone.                                                     *)
(***************************************************************************)
EXTENDS EventLoop

CONSTANT Owner

ASSUME OwnerAssumption == Owner \in Threads

VARIABLES loop_,   \* TRUE iff loop_ is not NULL, guarded by mutex_
          func,    \* where threadFunc is
          owner    \* where the owner is

threadVars == <<loop_, func, owner>>

ThreadInit ==
    /\ Init
    /\ loop_ = FALSE
    /\ func \in {"none", "new"}
    /\ owner = "idle"

\* The steps of EventLoop that are code of the loop thread's user.
UserCalls == LoopQueueInLoop \/ LoopQuit \/ LoopWakeup

OwnLoop ==
    /\ func = "none"
    /\ Next
    /\ UNCHANGED threadVars

-----------------------------------------------------------------------------
(* threadFunc *)

\* callback_, which is given the loop before anybody else.
InitCallback ==
    /\ func = "init"
    /\ UserCalls
    /\ UNCHANGED threadVars

PublishLoop ==
    /\ func = "init"
    /\ loop_' = TRUE
    /\ func' = "ready"
    /\ UNCHANGED <<vars, owner>>

ThreadEntersLoop ==
    /\ func = "ready"
    /\ EnterLoop
    /\ func' = "loop"
    /\ UNCHANGED <<loop_, owner>>

ThreadLoops ==
    /\ func = "loop"
    /\ pc # "outside"
    /\ LoopStep \/ PollOther \/ UserCalls
    /\ UNCHANGED threadVars

\* loop() has returned: loop_ is cleared and the EventLoop destroyed.
ThreadEnds ==
    /\ func = "loop"
    /\ pc = "outside"
    /\ loop_' = FALSE
    /\ func' = "done"
    /\ UNCHANGED <<vars, owner>>

-----------------------------------------------------------------------------
(* The owner *)

StartLoop ==
    /\ func = "new"
    /\ owner = "idle"
    /\ func' = "init"
    /\ owner' = "waiting"
    /\ UNCHANGED <<vars, loop_>>

\* The wait for loop_ ends; notify comes with its assignment.
StartLoopReturns ==
    /\ owner = "waiting"
    /\ loop_
    /\ owner' = "started"
    /\ UNCHANGED <<vars, loop_, func>>

\* The destructor looks at loop_, without the lock.
DestructorReads ==
    /\ owner = "started"
    /\ tpc[Owner] = "idle"
    /\ owner' = IF loop_ THEN "quitting" ELSE "gone"
    /\ UNCHANGED <<vars, loop_, func>>

\* join() without quit().
DestructorQuits_OnlyJoins ==
    /\ owner = "quitting"
    /\ owner' = IF func = "loop" THEN "joining" ELSE "early"
    /\ UNCHANGED <<vars, loop_, func>>

\* loop_->quit(): "early" when loop() is still to come, which will forget
\* it; on a loop that is destroyed by now it has no defined effect.
DestructorQuits ==
    /\ owner = "quitting"
    /\ \/ func # "done" /\ Quit(Owner)
       \/ func = "done" /\ UNCHANGED vars
    /\ owner' = CASE func = "loop" -> "joining"
                  [] func = "done" -> "dangling"
                  [] OTHER         -> "early"
    /\ UNCHANGED <<loop_, func>>

Join ==
    /\ owner \in {"joining", "early"}
    /\ func = "done"
    /\ owner' = "gone"
    /\ UNCHANGED <<vars, loop_, func>>

\* The other threads' calls, while the loop is theirs to use; a call that
\* has begun ends.
OthersCall ==
    /\ func # "none"
    /\ \/ /\ owner = "started"
          /\ loop_
          /\ \E t \in Threads : QueueInLoop(t) \/ CallWakeup(t)
       \/ \E t \in Threads : Wakeup(t)
    /\ UNCHANGED threadVars

ThreadNext ==
    \/ OwnLoop
    \/ InitCallback \/ PublishLoop \/ ThreadEntersLoop \/ ThreadLoops \/ ThreadEnds
    \/ StartLoop \/ StartLoopReturns
    \/ DestructorReads \/ DestructorQuits \/ Join
    \/ OthersCall

allVars == <<vars, threadVars>>

\* As in EventLoop; both threads are scheduled, callback_ returns, and the
\* owner's calls go on.
ThreadFairness ==
    /\ WF_allVars(LoopStep /\ UNCHANGED threadVars)
    /\ \A t \in Threads : WF_allVars(Wakeup(t) /\ UNCHANGED threadVars)
    /\ WF_allVars(PublishLoop \/ ThreadEntersLoop \/ ThreadEnds)
    /\ WF_allVars(StartLoopReturns \/ DestructorQuits \/ Join)

ThreadSpec == ThreadInit /\ [][ThreadNext]_allVars /\ ThreadFairness

-----------------------------------------------------------------------------
(* Properties *)

\* loop() returns once quit() has been called during it; startLoop returns,
\* unless code of the loop ends it before the owner has looked at loop_
\* again, which is NULL then; and the join in the destructor returns,
\* although the loop thread may be blocked in poll, if quit() finds loop()
\* entered: the window before that is the code's (EventLoop.cc:83).
OwnerReturns ==
    /\ QuitEndsLoop
    /\ (owner = "waiting") ~> (owner = "started" \/ func = "done")
    /\ (owner = "joining") ~> (owner = "gone")
=============================================================================
