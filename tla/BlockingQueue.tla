--------------------------- MODULE BlockingQueue ---------------------------
(***************************************************************************)
(* base/BlockingQueue and base/BoundedBlockingQueue, with the Condition    *)
(* and MutexLock they are built on: threads that put into and take from a  *)
(* deque under one mutex.  ThreadPool, which has the same monitor with     *)
(* other conditions, extends this module.                                  *)
(*                                                                         *)
(* A critical section is one step.  A thread in Condition::wait has the    *)
(* name of the condition as its pc; being notified, or waking up without   *)
(* a reason as pthread_cond_wait may, takes it back to the beginning of    *)
(* the while loop, which is where a new call begins too.  Items are        *)
(* numbered in the order in which they enter the deque.                    *)
(***************************************************************************)
EXTENDS Naturals, Sequences, FiniteSets

CONSTANTS Producers, Workers,  \* the threads that call put, and take
          Sizes,               \* the capacities considered, 0 for no bound
          MaxCalls             \* bound: calls of put in a behaviour

ASSUME QueueAssumption ==
    /\ Sizes \subseteq Nat
    /\ MaxCalls \in Nat
    /\ Producers \intersect Workers = {}
    /\ IsFiniteSet(Producers) /\ IsFiniteSet(Workers)

VARIABLES
    kind,     \* the class
    maxSize,  \* capacity, or maxQueueSize_ of a ThreadPool
    queue_,   \* the deque, oldest item first
    pc,       \* where each thread is
    calls,    \* calls of put or run so far
    put,      \* items that entered the deque so far
    taken     \* items that left it so far

qvars == <<kind, maxSize, queue_, pc, calls, put, taken>>

Threads == Producers \union Workers

\* idle: outside; put, take: about to lock mutex_ in that call;
\* notFull, notEmpty: waiting; work: busy with an item; the rest is
\* ThreadPool's.
Pcs == {"idle", "put", "take", "notFull", "notEmpty", "work", "none",
        "born", "test", "done"}

-----------------------------------------------------------------------------
(* Condition *)

Waiting(c) == {t \in Threads : pc[t] = c}

\* Where the loop around a wait begins.
LoopStart(c) == IF c = "notFull" THEN "put" ELSE "take"

\* Nobody is woken.
Notify_Lost(p, c) == pc' = p

\* notify(): one waiter, if there is one, is woken.
Notify(p, c) ==
    \/ Waiting(c) = {} /\ pc' = p
    \/ \E t \in Waiting(c) : pc' = [p EXCEPT ![t] = LoopStart(c)]

SpuriousWakeup(t) ==
    /\ pc[t] \in {"notFull", "notEmpty"}
    /\ pc' = [pc EXCEPT ![t] = LoopStart(pc[t])]
    /\ UNCHANGED <<kind, maxSize, queue_, calls, put, taken>>

-----------------------------------------------------------------------------
(* put and take *)

CallPut(t) ==
    /\ pc[t] = "idle"
    /\ t \in Producers
    /\ calls < MaxCalls
    /\ calls' = calls + 1
    /\ pc' = [pc EXCEPT ![t] = "put"]
    /\ UNCHANGED <<kind, maxSize, queue_, put, taken>>

Wait(t, c) ==
    /\ pc' = [pc EXCEPT ![t] = c]
    /\ UNCHANGED <<kind, maxSize, queue_, calls, put, taken>>

PushBack ==
    /\ queue_' = Append(queue_, put + 1)
    /\ put' = put + 1
    /\ UNCHANGED <<kind, maxSize, calls, taken>>

PopFront ==
    /\ queue_' = Tail(queue_)
    /\ taken' = Head(queue_)
    /\ UNCHANGED <<kind, maxSize, calls, put>>

\* One item too many is let in.
QueueFull_OffByOne == maxSize > 0 /\ Len(queue_) > maxSize

QueueFull == maxSize > 0 /\ Len(queue_) >= maxSize

\* BlockingQueue::put
Put(t) ==
    /\ kind = "BlockingQueue"
    /\ pc[t] = "put"
    /\ PushBack
    /\ Notify([pc EXCEPT ![t] = "idle"], "notEmpty")

\* BoundedBlockingQueue::put
BoundedPut(t) ==
    /\ kind = "BoundedBlockingQueue"
    /\ pc[t] = "put"
    /\ \/ QueueFull /\ Wait(t, "notFull")
       \/ /\ ~QueueFull
          /\ PushBack
          /\ Notify([pc EXCEPT ![t] = "idle"], "notEmpty")

\* A consumer comes back for the next item.
CallTake(t) ==
    /\ kind # "ThreadPool"
    /\ pc[t] = "work"
    /\ pc' = [pc EXCEPT ![t] = "take"]
    /\ UNCHANGED <<kind, maxSize, queue_, calls, put, taken>>

\* BlockingQueue::take
Take(t) ==
    /\ kind = "BlockingQueue"
    /\ pc[t] = "take"
    /\ \/ queue_ = <<>> /\ Wait(t, "notEmpty")
       \/ /\ queue_ # <<>>
          /\ PopFront
          /\ pc' = [pc EXCEPT ![t] = "work"]

\* BoundedBlockingQueue::take
BoundedTake(t) ==
    /\ kind = "BoundedBlockingQueue"
    /\ pc[t] = "take"
    /\ \/ queue_ = <<>> /\ Wait(t, "notEmpty")
       \/ /\ queue_ # <<>>
          /\ PopFront
          /\ Notify([pc EXCEPT ![t] = "work"], "notFull")

\* BlockingQueue::drain, which empties the deque at once.
Drain(t) ==
    /\ kind = "BlockingQueue"
    /\ pc[t] = "idle"
    /\ queue_' = <<>>
    /\ taken' = put
    /\ UNCHANGED <<kind, maxSize, pc, calls, put>>

-----------------------------------------------------------------------------

QueueInit ==
    /\ queue_ = <<>>
    /\ calls = 0
    /\ put = 0
    /\ taken = 0

PlainInit ==
    /\ QueueInit
    /\ \/ kind = "BlockingQueue" /\ maxSize = 0
       \/ kind = "BoundedBlockingQueue" /\ maxSize \in Sizes \ {0}
    /\ pc = [t \in Threads |-> IF t \in Producers THEN "idle" ELSE "work"]

\* The steps a thread takes once it has begun a call.
PlainStep(t) ==
    \/ Put(t)
    \/ BoundedPut(t)
    \/ CallTake(t)
    \/ Take(t)
    \/ BoundedTake(t)

-----------------------------------------------------------------------------
(* Properties *)

\* The deque never outgrows its capacity (the assertions before push_back),
\* and items leave it once each, in the order in which they came.
HandedOutInOrder ==
    /\ maxSize > 0 => Len(queue_) <= maxSize
    /\ taken + Len(queue_) = put
    /\ \A i \in 1..Len(queue_) : queue_[i] = taken + i

\* No notification is lost: while a consumer sleeps, every item in the deque
\* has an awake consumer on its way to it, and while a producer sleeps,
\* every free slot has an awake producer on its way to it.  This is why
\* notify() is enough where notifyAll() would be the safe choice.
NoLostSignal ==
    /\ Waiting("notEmpty") # {} => Cardinality(Waiting("take")) >= Len(queue_)
    /\ Waiting("notFull") # {} =>
          Cardinality(Waiting("put")) + Len(queue_) >= maxSize
=============================================================================
