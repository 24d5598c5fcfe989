--------------------------- MODULE SerialExecutor ---------------------------
(***************************************************************************)
(* What EventLoop::queueInLoop promises its callers, without threads,      *)
(* swaps or wake-ups: functors form one queue, they are run by one thread, *)
(* each exactly once and in the order in which they were queued.           *)
(* Functors are numbered in the order of their submission.                 *)
(***************************************************************************)
EXTENDS Naturals, Sequences

VARIABLES queue,      \* submitted and not yet run, oldest first
          submitted,  \* number of functors submitted so far
          executed    \* number of functors run so far

execVars == <<queue, submitted, executed>>

ExecInit ==
    /\ queue = <<>>
    /\ submitted = 0
    /\ executed = 0

Submit ==
    /\ submitted' = submitted + 1
    /\ queue' = Append(queue, submitted + 1)
    /\ UNCHANGED executed

\* The functor that runs is the oldest one, and it is the next in number.
Execute ==
    /\ queue # <<>>
    /\ Head(queue) = executed + 1
    /\ executed' = executed + 1
    /\ queue' = Tail(queue)
    /\ UNCHANGED submitted

ExecNext == Submit \/ Execute

ExecSpec == ExecInit /\ [][ExecNext]_execVars
=============================================================================
