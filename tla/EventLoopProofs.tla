-------------------------- MODULE EventLoopProofs --------------------------
(* Theorems about EventLoop, for any set of threads and any bounds, and    *)
(* about a loop that an EventLoopThread hosts.                             *)
EXTENDS EventLoopThread, SequenceTheorems, TLAPS

-----------------------------------------------------------------------------
(* The inductive invariant: TypeOK together with the following parts.      *)

\* The batch is empty except while doPendingFunctors runs, and the flag
\* that queueInLoop tests is set exactly then.
BatchInv ==
    /\ pc \notin {"functors", "functor"} => functors = <<>>
    /\ pc \in {"functors", "functor"} => callingPendingFunctors_

\* Batch and pending queue hold, in order, the numbers executed+1 up to
\* submitted.
OrderInv ==
    /\ executed + Len(functors) + Len(pendingFunctors_) = submitted
    /\ \A i \in 1..Len(functors) : functors[i] = executed + i
    /\ \A i \in 1..Len(pendingFunctors_) :
          pendingFunctors_[i] = executed + Len(functors) + i

\* NoLostWakeup at every point from which poll can be reached without a
\* swap: only between poll's return and the swap may pending functors be
\* without a wake-up.
WakeupInv ==
    (pc \notin {"events", "swap"} /\ Len(pendingFunctors_) > quiet)
        => (wakeupFd_ \/ \E t \in Threads : tpc[t] = "queued")

IInv == TypeOK /\ BatchInv /\ OrderInv /\ WakeupInv /\ QuitNotMissed

-----------------------------------------------------------------------------
(* Facts about sequences. *)

\* Appending to the second part appends to the concatenation.
LEMMA ConcatAppend ==
    ASSUME NEW S, NEW f \in Seq(S), NEW p \in Seq(S), NEW e \in S
    PROVE  f \o Append(p, e) = Append(f \o p, e)
<1>1. Append(p, e) \in Seq(S) /\ f \o p \in Seq(S)
  BY AppendProperties, ConcatProperties
<1>2. /\ Append(p, e) = p \o <<e>>
      /\ Append(f \o p, e) = (f \o p) \o <<e>>
  BY <1>1, AppendIsConcat
<1>3. <<e>> \in Seq(S)
  OBVIOUS
<1> QED
  BY <1>2, <1>3, ConcatAssociative

\* Head and tail of a concatenation whose first part is not empty.
LEMMA ConcatHeadTail ==
    ASSUME NEW S, NEW f \in Seq(S), NEW p \in Seq(S), f # <<>>
    PROVE  /\ f \o p # <<>>
           /\ Head(f \o p) = f[1]
           /\ Tail(f \o p) = Tail(f) \o p
<1> DEFINE c == f \o p
<1>1. /\ c \in Seq(S)
      /\ Len(c) = Len(f) + Len(p)
      /\ \A i \in 1..Len(f) + Len(p) :
            c[i] = IF i <= Len(f) THEN f[i] ELSE p[i - Len(f)]
  BY ConcatProperties
<1>2. Len(f) \in Nat \ {0} /\ Len(p) \in Nat
  BY EmptySeq, LenProperties
<1>3. c # <<>>
  BY <1>1, <1>2, EmptySeq
<1>4. Head(c) = f[1]
  BY <1>1, <1>2
<1>5. /\ Tail(f) \in Seq(S)
      /\ Len(Tail(f)) = Len(f) - 1
      /\ \A i \in 1..Len(Tail(f)) : Tail(f)[i] = f[i+1]
  BY HeadTailProperties
<1>6. /\ Tail(c) \in Seq(S)
      /\ Len(Tail(c)) = Len(c) - 1
      /\ \A i \in 1..Len(Tail(c)) : Tail(c)[i] = c[i+1]
  BY <1>1, <1>3, HeadTailProperties
<1>7. /\ Tail(f) \o p \in Seq(S)
      /\ Len(Tail(f) \o p) = Len(f) - 1 + Len(p)
      /\ \A i \in 1..(Len(f) - 1 + Len(p)) :
            (Tail(f) \o p)[i] = IF i <= Len(f) - 1
                                THEN Tail(f)[i] ELSE p[i - (Len(f) - 1)]
  BY <1>5, ConcatProperties
<1>8. ASSUME NEW i \in 1..Len(Tail(c))
      PROVE  Tail(c)[i] = (Tail(f) \o p)[i]
  <2> HIDE DEF c
  <2>1. /\ i \in Nat
        /\ i \in 1..(Len(f) - 1 + Len(p))
        /\ i + 1 \in 1..(Len(f) + Len(p))
    BY <1>1, <1>2, <1>6
  <2>2. Tail(c)[i] = IF i + 1 <= Len(f) THEN f[i+1] ELSE p[(i+1) - Len(f)]
    BY <1>1, <1>6, <2>1
  <2>3. CASE i + 1 <= Len(f)
    <3>1. i \in 1..Len(Tail(f))  /\ i <= Len(f) - 1
      BY <1>2, <1>5, <2>1, <2>3
    <3> QED
      BY <1>5, <1>7, <2>1, <2>2, <2>3, <3>1
  <2>4. CASE ~(i + 1 <= Len(f))
    <3>1. ~(i <= Len(f) - 1) /\ (i + 1) - Len(f) = i - (Len(f) - 1)
      BY <1>2, <2>1, <2>4
    <3> QED
      BY <1>7, <2>1, <2>2, <2>4, <3>1
  <2> QED
    BY <2>3, <2>4
<1>9. Tail(c) = Tail(f) \o p
  <2> HIDE DEF c
  <2>1. Len(Tail(c)) = Len(Tail(f) \o p)
    BY <1>1, <1>2, <1>6, <1>7
  <2> QED
    BY <1>6, <1>7, <1>8, <2>1, SeqEqual
<1> QED
  BY <1>3, <1>4, <1>9

-----------------------------------------------------------------------------
(* The invariant is inductive. *)

\* A loop that was just constructed satisfies the invariant.
LEMMA InitIInv == Init => IInv
<1> SUFFICES ASSUME Init PROVE IInv
  OBVIOUS
<1>1. TypeOK
  <2>1. /\ looping_ \in BOOLEAN /\ quit_ \in BOOLEAN /\ wakeupFd_ \in BOOLEAN
        /\ active \in BOOLEAN /\ callingPendingFunctors_ \in BOOLEAN
    BY DEF Init
  <2>2. /\ submitted \in 0..MaxFunctors /\ executed \in 0..MaxFunctors
        /\ loops \in 0..MaxLoops /\ quiet \in Nat
    BY BoundsAssumption DEF Init
  <2>3. pc \in PcStates /\ tpc \in [Threads -> TpcStates]
    BY DEF Init, PcStates, TpcStates
  <2>4. pendingFunctors_ \in Seq(Nat) /\ functors \in Seq(Nat)
    BY EmptySeq DEF Init
  <2> QED
    BY <2>1, <2>2, <2>3, <2>4 DEF TypeOK
<1>2. Len(functors) = 0 /\ Len(pendingFunctors_) = 0
  BY EmptySeq DEF Init
<1>3. OrderInv
  BY <1>2 DEF Init, OrderInv
<1> QED
  BY <1>1, <1>2, <1>3 DEF Init, IInv, BatchInv, WakeupInv, QuitNotMissed

\* Every step of the loop thread and of the other threads preserves it.
LEMMA NextIInv == IInv /\ [Next]_vars => IInv'
<1> SUFFICES ASSUME IInv, [Next]_vars PROVE IInv'
  OBVIOUS
<1> USE BoundsAssumption
<1>len. Len(pendingFunctors_) \in Nat /\ Len(functors) \in Nat
  BY LenProperties DEF IInv, TypeOK
<1>1. CASE EnterLoop
  <2>1. TypeOK'
    <3>1. looping_' \in BOOLEAN /\ quit_' \in BOOLEAN /\ pc' \in PcStates
      BY <1>1 DEF EnterLoop, PcStates
    <3>2. loops' \in 0..MaxLoops
      BY <1>1 DEF EnterLoop, IInv, TypeOK
    <3> QED
      BY <1>1, <3>1, <3>2 DEF EnterLoop, IInv, TypeOK
  <2> QED
    BY <1>1, <2>1 DEF EnterLoop, IInv, BatchInv, OrderInv, WakeupInv,
       QuitNotMissed
<1>2. CASE TestQuit
  BY <1>2, <1>len DEF TestQuit, IInv, TypeOK, BatchInv, OrderInv, WakeupInv,
     QuitNotMissed, PcStates, TpcStates
<1>3. CASE PollWakeup
  BY <1>3, <1>len DEF PollWakeup, IInv, TypeOK, BatchInv, OrderInv, WakeupInv,
     QuitNotMissed, PcStates, TpcStates
<1>4. CASE PollOther
  BY <1>4, <1>len DEF PollOther, IInv, TypeOK, BatchInv, OrderInv, WakeupInv,
     QuitNotMissed, PcStates, TpcStates
<1>5. CASE HandleRead
  BY <1>5, <1>len DEF HandleRead, IInv, TypeOK, BatchInv, OrderInv, WakeupInv,
     QuitNotMissed, PcStates, TpcStates
<1>6. CASE EndEvents
  BY <1>6, <1>len DEF EndEvents, IInv, TypeOK, BatchInv, OrderInv, WakeupInv,
     QuitNotMissed, PcStates, TpcStates
<1>7. CASE EndFunctor
  BY <1>7, <1>len DEF EndFunctor, IInv, TypeOK, BatchInv, OrderInv, WakeupInv,
     QuitNotMissed, PcStates, TpcStates
<1>8. CASE EndFunctors
  BY <1>8, <1>len DEF EndFunctors, IInv, TypeOK, BatchInv, OrderInv, WakeupInv,
     QuitNotMissed, PcStates, TpcStates
<1>9. CASE LoopQuit
  BY <1>9, <1>len DEF LoopQuit, IInv, TypeOK, BatchInv, OrderInv, WakeupInv,
     QuitNotMissed, PcStates, TpcStates, InUserCode
<1>10. CASE LoopWakeup
  BY <1>10, <1>len DEF LoopWakeup, IInv, TypeOK, BatchInv, OrderInv, WakeupInv,
     QuitNotMissed, PcStates, TpcStates, InUserCode
<1>11. CASE SwapPending
  <2>1. functors = <<>> /\ Len(functors) = 0
    BY <1>11, EmptySeq DEF SwapPending, IInv, BatchInv
  <2>2. pendingFunctors_' = <<>> /\ Len(pendingFunctors_') = 0
    BY <1>11, EmptySeq DEF SwapPending
  <2>3. TypeOK'
    BY <1>11, EmptySeq DEF SwapPending, IInv, TypeOK, PcStates
  <2>4. OrderInv'
    BY <1>11, <1>len, <2>1, <2>2 DEF SwapPending, IInv, TypeOK, OrderInv
  <2> QED
    BY <1>11, <2>2, <2>3, <2>4
       DEF SwapPending, IInv, TypeOK, BatchInv, WakeupInv, QuitNotMissed
<1>12. CASE RunFunctor
  <2>1. /\ Tail(functors) \in Seq(Nat)
        /\ Len(Tail(functors)) = Len(functors) - 1
        /\ \A i \in 1..Len(Tail(functors)) :
              Tail(functors)[i] = functors[i+1]
        /\ Len(functors) > 0
    BY <1>12, HeadTailProperties, EmptySeq DEF RunFunctor, IInv, TypeOK
  <2>2. TypeOK'
    BY <1>12, <1>len, <2>1
       DEF RunFunctor, IInv, TypeOK, OrderInv, PcStates
  <2>3. OrderInv'
    <3>1. executed' + Len(functors') + Len(pendingFunctors_') = submitted'
      <4>1. executed + Len(functors) + Len(pendingFunctors_) = submitted
        BY DEF IInv, OrderInv
      <4> QED
        BY <1>12, <1>len, <2>1, <4>1 DEF RunFunctor, IInv, TypeOK
    <3>2. ASSUME NEW i \in 1..Len(functors')
          PROVE  functors'[i] = executed' + i
      <4>1. i \in Nat /\ i + 1 \in 1..Len(functors) /\ functors' = Tail(functors)
        BY <1>12, <1>len, <2>1 DEF RunFunctor
      <4>2. functors'[i] = functors[i+1] /\ functors[i+1] = executed + (i+1)
        BY <2>1, <4>1 DEF IInv, OrderInv
      <4> QED
        BY <1>12, <4>1, <4>2 DEF RunFunctor, IInv, TypeOK
    <3>3. ASSUME NEW i \in 1..Len(pendingFunctors_')
          PROVE  pendingFunctors_'[i] = executed' + Len(functors') + i
      BY <1>12, <1>len, <2>1 DEF RunFunctor, IInv, TypeOK, OrderInv
    <3> QED
      BY <3>1, <3>2, <3>3 DEF OrderInv
  <2> QED
    BY <1>12, <2>2, <2>3
       DEF RunFunctor, IInv, TypeOK, BatchInv, WakeupInv, QuitNotMissed
<1>push. ASSUME PushBack, UNCHANGED <<functors, executed>>
         PROVE  /\ OrderInv'
                /\ pendingFunctors_' \in Seq(Nat)
                /\ Len(pendingFunctors_') = Len(pendingFunctors_) + 1
                /\ submitted' \in 0..MaxFunctors
  <2>1. /\ submitted \in Nat /\ executed \in Nat /\ submitted + 1 \in Nat
        /\ executed + Len(functors) + Len(pendingFunctors_) = submitted
        /\ functors' = functors /\ executed' = executed
    BY <1>push DEF IInv, TypeOK, OrderInv
  <2>2. /\ pendingFunctors_' \in Seq(Nat)
        /\ Len(pendingFunctors_') = Len(pendingFunctors_) + 1
        /\ \A i \in 1..Len(pendingFunctors_) :
              pendingFunctors_'[i] = pendingFunctors_[i]
        /\ pendingFunctors_'[Len(pendingFunctors_) + 1] = submitted + 1
    BY <1>push, <2>1, AppendProperties DEF PushBack, IInv, TypeOK
  <2>3. submitted' = submitted + 1 /\ submitted' \in 0..MaxFunctors
    BY <1>push, <2>1 DEF PushBack
  <2>4. ASSUME NEW i \in 1..Len(pendingFunctors_')
        PROVE  pendingFunctors_'[i] = executed' + Len(functors') + i
    <3>1. CASE i \in 1..Len(pendingFunctors_)
      BY <1>push, <2>2, <3>1 DEF IInv, OrderInv
    <3>2. CASE i = Len(pendingFunctors_) + 1
      BY <1>len, <2>1, <2>2, <3>2
    <3> QED
      BY <1>len, <2>2, <3>1, <3>2
  <2>5. executed' + Len(functors') + Len(pendingFunctors_') = submitted'
    BY <1>len, <2>1, <2>2, <2>3
  <2>6. \A i \in 1..Len(functors') : functors'[i] = executed' + i
    BY <2>1 DEF IInv, OrderInv
  <2> QED
    BY <2>2, <2>3, <2>4, <2>5, <2>6 DEF OrderInv
<1>13. CASE LoopQueueInLoop
  <2>1. PushBack /\ UNCHANGED <<functors, executed>>
    BY <1>13 DEF LoopQueueInLoop
  <2>2. TypeOK'
    BY <1>13, <1>push, <2>1
       DEF LoopQueueInLoop, IInv, TypeOK, NeedsWakeup, PcStates
  <2>3. WakeupInv'
    BY <1>13, <1>len, <1>push, <2>1, SMTT(60)
       DEF LoopQueueInLoop, IInv, TypeOK, BatchInv, WakeupInv, NeedsWakeup,
           InUserCode
  <2> QED
    BY <1>13, <1>push, <2>1, <2>2, <2>3
       DEF LoopQueueInLoop, IInv, BatchInv, QuitNotMissed, InUserCode
<1>14. ASSUME NEW t \in Threads, QueueInLoop(t) PROVE IInv'
  <2>1. PushBack /\ UNCHANGED <<functors, executed>>
    BY <1>14 DEF QueueInLoop
  <2>2. tpc' = [tpc EXCEPT ![t] = "queued"] /\ tpc'[t] = "queued"
    BY <1>14 DEF QueueInLoop, NeedsWakeup, IInv, TypeOK
  <2>3. TypeOK'
    BY <1>14, <1>push, <2>1, <2>2
       DEF QueueInLoop, IInv, TypeOK, TpcStates
  <2>4. WakeupInv'
    BY <2>2 DEF WakeupInv
  <2>5. QuitNotMissed'
    <3>1. \A u \in Threads : tpc[u] = "quitting" => tpc'[u] = "quitting"
      BY <1>14, <2>2 DEF QueueInLoop, IInv, TypeOK
    <3> QED
      BY <1>14, <3>1 DEF QueueInLoop, IInv, QuitNotMissed
  <2> QED
    BY <1>14, <1>push, <2>1, <2>3, <2>4, <2>5
       DEF QueueInLoop, IInv, BatchInv
<1>15. ASSUME NEW t \in Threads, Quit(t) PROVE IInv'
  <2>1. /\ tpc'[t] = "quitting"
        /\ \A u \in Threads : tpc[u] = "queued" => tpc'[u] = "queued"
    BY <1>15 DEF Quit, IInv, TypeOK
  <2>2. TypeOK'
    BY <1>15 DEF Quit, IInv, TypeOK, TpcStates
  <2>3. WakeupInv'
    BY <1>15, <2>1 DEF Quit, IInv, WakeupInv
  <2>4. QuitNotMissed'
    BY <2>1 DEF QuitNotMissed
  <2> QED
    BY <1>15, <2>2, <2>3, <2>4 DEF Quit, IInv, BatchInv, OrderInv
<1>16. ASSUME NEW t \in Threads, CallWakeup(t) PROVE IInv'
  <2>1. \A u \in Threads : tpc[u] # "idle" => tpc'[u] = tpc[u]
    BY <1>16 DEF CallWakeup, IInv, TypeOK
  <2>2. TypeOK'
    BY <1>16 DEF CallWakeup, IInv, TypeOK, TpcStates
  <2>3. WakeupInv' /\ QuitNotMissed'
    BY <1>16, <2>1 DEF CallWakeup, IInv, WakeupInv, QuitNotMissed
  <2> QED
    BY <1>16, <2>2, <2>3 DEF CallWakeup, IInv, BatchInv, OrderInv
<1>17. ASSUME NEW t \in Threads, Wakeup(t) PROVE IInv'
  <2>1. TypeOK'
    BY <1>17 DEF Wakeup, IInv, TypeOK, TpcStates
  <2> QED
    BY <1>17, <2>1
       DEF Wakeup, IInv, BatchInv, OrderInv, WakeupInv, QuitNotMissed
<1>18. CASE UNCHANGED vars
  BY <1>18 DEF vars, IInv, TypeOK, BatchInv, OrderInv, WakeupInv,
     QuitNotMissed
<1> QED
  BY <1>1, <1>2, <1>3, <1>4, <1>5, <1>6, <1>7, <1>8, <1>9, <1>10, <1>11,
     <1>12, <1>13, <1>14, <1>15, <1>16, <1>17, <1>18 DEF Next, LoopStep

\* So it holds in every reachable state.
LEMMA Invariance == Spec => []IInv
  BY InitIInv, NextIInv, PTL DEF Spec

-----------------------------------------------------------------------------
(* The results. *)

\* Every variable of the loop keeps its type, and no more functors are run
\* than were queued.
THEOREM TypeCorrect == Spec => []TypeOK
<1>1. IInv => TypeOK
  BY DEF IInv
<1> QED
  BY Invariance, <1>1, PTL

\* The wake-up protocol of queueInLoop and doPendingFunctors never leaves
\* the loop thread asleep over a functor, for any number of threads.
THEOREM WakeupNotLost == Spec => []NoLostWakeup
<1>1. IInv => NoLostWakeup
  BY DEF IInv, WakeupInv, NoLostWakeup
<1> QED
  BY Invariance, <1>1, PTL

\* quit() from another thread always reaches a loop thread that sleeps.
THEOREM QuitReachesPoll == Spec => []QuitNotMissed
<1>1. IInv => QuitNotMissed
  BY DEF IInv
<1> QED
  BY Invariance, <1>1, PTL

\* The mutex-guarded vector, the swap and the batch implement one queue
\* from which functors run once each and in order.
THEOREM Refinement == Spec => SerialExecution
<1> DEFINE q == functors \o pendingFunctors_
<1>1. Init => Exec!ExecInit
  BY EmptySeq, ConcatEmptySeq DEF Init, Exec!ExecInit
<1>2. IInv /\ [Next]_vars => [Exec!ExecNext]_(Exec!execVars)
  <2> SUFFICES ASSUME IInv, [Next]_vars
               PROVE  Exec!ExecNext \/ UNCHANGED <<q, submitted, executed>>
    BY DEF Exec!execVars
  <2>typ. /\ functors \in Seq(Nat) /\ pendingFunctors_ \in Seq(Nat)
          /\ submitted \in Nat /\ executed \in Nat
          /\ submitted + 1 \in Nat
    BY BoundsAssumption DEF IInv, TypeOK
  <2>1. CASE RunFunctor
    <3>1. functors # <<>> /\ functors' = Tail(functors)
          /\ pendingFunctors_' = pendingFunctors_
          /\ executed' = executed + 1 /\ submitted' = submitted
      BY <2>1 DEF RunFunctor
    <3>2. 1 \in 1..Len(functors)
      BY <2>typ, <3>1, EmptySeq
    <3>3. functors[1] = executed + 1
      BY <3>2 DEF IInv, OrderInv
    <3>4. q # <<>> /\ Head(q) = executed + 1 /\ q' = Tail(q)
      BY <2>typ, <3>1, <3>3, ConcatHeadTail
    <3> QED
      BY <3>1, <3>4 DEF Exec!ExecNext, Exec!Execute
  <2>2. CASE SwapPending
    <3>1. functors = <<>> /\ functors' = pendingFunctors_
          /\ pendingFunctors_' = <<>>
      BY <2>2 DEF SwapPending, IInv, BatchInv
    <3>2. q' = q
      BY <2>typ, <3>1, ConcatEmptySeq
    <3> QED
      BY <2>2, <3>2 DEF SwapPending
  <2>3. ASSUME PushBack, UNCHANGED <<functors, executed>>
        PROVE  Exec!ExecNext
    <3>1. q' = Append(q, submitted + 1)
      BY <2>3, <2>typ, ConcatAppend DEF PushBack
    <3> QED
      BY <2>3, <3>1 DEF PushBack, Exec!ExecNext, Exec!Submit
  <2>4. CASE LoopQueueInLoop
    BY <2>3, <2>4 DEF LoopQueueInLoop
  <2>5. ASSUME NEW t \in Threads, QueueInLoop(t) PROVE Exec!ExecNext
    BY <2>3, <2>5 DEF QueueInLoop
  <2>6. CASE \/ EnterLoop \/ TestQuit \/ PollWakeup \/ PollOther
             \/ HandleRead \/ EndEvents \/ EndFunctor \/ EndFunctors
             \/ LoopQuit \/ LoopWakeup \/ UNCHANGED vars
             \/ \E t \in Threads : Quit(t) \/ CallWakeup(t) \/ Wakeup(t)
    BY <2>6 DEF EnterLoop, TestQuit, PollWakeup, PollOther, HandleRead,
       EndEvents, EndFunctor, EndFunctors, LoopQuit, LoopWakeup, Quit,
       CallWakeup, Wakeup, vars
  <2> QED
    BY <2>1, <2>2, <2>4, <2>5, <2>6 DEF Next, LoopStep
<1> QED
  BY <1>1, <1>2, Invariance, PTL DEF Spec, SerialExecution, Exec!ExecSpec

-----------------------------------------------------------------------------
(* The hosted loop. *)

\* Whatever threadFunc, the owner and the other threads do with the loop of
\* an EventLoopThread is something that EventLoop allows.
LEMMA ThreadStep == [ThreadNext]_allVars => [Next]_vars
<1> SUFFICES ASSUME [ThreadNext]_allVars PROVE [Next]_vars
  OBVIOUS
<1>1. CASE OwnLoop
  BY <1>1 DEF OwnLoop
<1>2. CASE InitCallback
  BY <1>2 DEF InitCallback, UserCalls, Next
<1>3. CASE ThreadEntersLoop
  BY <1>3 DEF ThreadEntersLoop, Next
<1>4. CASE ThreadLoops
  BY <1>4 DEF ThreadLoops, UserCalls, Next
<1>5. CASE DestructorQuits
  BY <1>5, OwnerAssumption DEF DestructorQuits, Next
<1>6. CASE OthersCall
  BY <1>6 DEF OthersCall, Next
<1>7. CASE PublishLoop \/ ThreadEnds \/ StartLoop \/ StartLoopReturns
              \/ DestructorReads \/ Join
  BY <1>7 DEF PublishLoop, ThreadEnds, StartLoop, StartLoopReturns, DestructorReads, Join
<1>8. CASE UNCHANGED allVars
  BY <1>8 DEF allVars
<1> QED
  BY <1>1, <1>2, <1>3, <1>4, <1>5, <1>6, <1>7, <1>8 DEF ThreadNext

LEMMA HostedLoop == ThreadSpec => Spec
<1>1. ThreadInit => Init
  BY DEF ThreadInit
<1> QED  BY <1>1, ThreadStep, PTL DEF ThreadSpec, Spec

\* The wake-up protocol holds as well for a loop that an EventLoopThread
\* creates, publishes, quits and joins, with the initial callback and the
\* destructor's early quit.
THEOREM HostedWakeupNotLost == ThreadSpec => []NoLostWakeup
BY HostedLoop, WakeupNotLost, PTL

\* The owner's quit(), too, reaches a hosted loop thread that sleeps.
THEOREM HostedQuitReachesPoll == ThreadSpec => []QuitNotMissed
BY HostedLoop, QuitReachesPoll, PTL

\* Functors given to a hosted loop run once each and in order, those of the
\* initial callback included.
THEOREM HostedRefinement == ThreadSpec => SerialExecution
BY HostedLoop, Refinement, PTL
=============================================================================
