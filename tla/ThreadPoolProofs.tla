-------------------------- MODULE ThreadPoolProofs --------------------------
(***************************************************************************)
(* Proofs about BlockingQueue, BoundedBlockingQueue and ThreadPool, for    *)
(* any number of threads and calls and every capacity.                     *)
(***************************************************************************)
EXTENDS ThreadPool, FiniteSetTheorems, TLAPS

\* The number of threads at a place.
At(f, c) == {t \in Threads : f[t] = c}
Num(f, c) == Cardinality(At(f, c))

Typed ==
    /\ pc \in [Threads -> Pcs]
    /\ queue_ \in Seq(Nat)
    /\ put \in Nat /\ taken \in Nat
    /\ maxSize \in Nat

\* A pool without threads runs its tasks in the callers.
NoThreads == kind = "ThreadPool" /\ threads_ = {}

\* Nobody sleeps who could go on.  Besides NoLostSignal: producers sleep
\* only in a bounded queue that somebody empties, and nobody sleeps in a
\* stopped pool.
Signals ==
    /\ Num(pc, "notEmpty") > 0 => Num(pc, "take") >= Len(queue_) /\ running_
    /\ Num(pc, "notFull") > 0 =>
          /\ Num(pc, "put") + Len(queue_) >= maxSize
          /\ maxSize > 0 /\ running_ /\ ~NoThreads
    /\ kind = "BlockingQueue" => maxSize = 0
    /\ kind # "ThreadPool" => running_
    /\ NoThreads => queue_ = <<>>

IInv == Typed /\ HandedOutInOrder /\ Signals

-----------------------------------------------------------------------------
(* Counting threads *)

LEMMA NumType ==
    ASSUME NEW f, NEW c
    PROVE  /\ IsFiniteSet(At(f, c))
           /\ Num(f, c) \in Nat
           /\ Num(f, c) = 0 <=> At(f, c) = {}
<1>1. IsFiniteSet(Threads)
  BY QueueAssumption, FS_Union DEF Threads
<1>2. IsFiniteSet(At(f, c))
  BY <1>1, FS_Subset DEF At
<1> QED  BY <1>2, FS_CardinalityType, FS_EmptySet DEF Num

\* How many threads are at c before and after thread t goes to v.
Counted(f, g, t, v, c) ==
    /\ Num(f, c) \in Nat /\ Num(g, c) \in Nat
    /\ v = c /\ f[t] # c => Num(g, c) = Num(f, c) + 1
    /\ v # c /\ f[t] = c => Num(g, c) = Num(f, c) - 1
    /\ v = c /\ f[t] = c => Num(g, c) = Num(f, c)
    /\ v # c /\ f[t] # c => Num(g, c) = Num(f, c)

LEMMA Moved ==
    ASSUME NEW f \in [Threads -> Pcs], NEW t \in Threads, NEW v \in Pcs,
           NEW g, g = [f EXCEPT ![t] = v]
    PROVE  g \in [Threads -> Pcs] /\ \A c : Counted(f, g, t, v, c)
<1>1. /\ g \in [Threads -> Pcs]
      /\ g[t] = v
      /\ \A u \in Threads : u # t => g[u] = f[u]
  OBVIOUS
<1>2. ASSUME NEW c PROVE Counted(f, g, t, v, c)
  <2>1. Num(f, c) \in Nat /\ Num(g, c) \in Nat /\ IsFiniteSet(At(f, c))
    BY NumType
  <2>2. CASE v = c /\ f[t] # c
    <3>1. At(g, c) = At(f, c) \union {t} /\ t \notin At(f, c)
      BY <1>1, <2>2 DEF At
    <3>2. Num(g, c) = Num(f, c) + 1
      BY <2>1, <3>1, FS_AddElement DEF Num
    <3> QED  BY <2>1, <2>2, <3>2 DEF Counted
  <2>3. CASE v # c /\ f[t] = c
    <3>1. At(g, c) = At(f, c) \ {t} /\ t \in At(f, c)
      BY <1>1, <2>3 DEF At
    <3>2. Num(g, c) = Num(f, c) - 1
      BY <2>1, <3>1, FS_RemoveElement, ZenonT(60) DEF Num
    <3> QED  BY <2>1, <2>3, <3>2 DEF Counted
  <2>4. CASE (v = c /\ f[t] = c) \/ (v # c /\ f[t] # c)
    <3>1. At(g, c) = At(f, c)
      BY <1>1, <2>4 DEF At
    <3>2. Num(g, c) = Num(f, c)
      BY <3>1 DEF Num
    <3> QED  BY <2>1, <2>4, <3>2 DEF Counted
  <2> QED  BY <2>2, <2>3, <2>4
<1> QED  BY <1>1, <1>2

\* The places that Signals is about.
Places == {"notEmpty", "notFull", "take", "put"}

-----------------------------------------------------------------------------
(* The three ways in which a step changes the monitor *)

\* A thread goes on, or to sleep, and the queue stays as it is.
LEMMA GoesOn ==
    ASSUME IInv, NEW t \in Threads, NEW v \in Pcs,
           pc' = [pc EXCEPT ![t] = v],
           UNCHANGED <<kind, maxSize, queue_, put, taken, running_>>,
           threads_' = threads_ \/ threads_' # {},
           pc[t] = "take" /\ v # "take" => queue_ = <<>>,
           pc[t] = "put" /\ v # "put" => QueueFull \/ ~running_ \/ NoThreads,
           v = "notEmpty" => queue_ = <<>> /\ running_,
           v = "notFull" => QueueFull /\ running_ /\ ~NoThreads
    PROVE  IInv'
<1> DEFINE Old(c) == Num(pc, c)
           New(c) == Num(pc', c)
<1>0. pc' \in [Threads -> Pcs] /\ \A c : Counted(pc, pc', t, v, c)
  BY Moved DEF IInv, Typed
<1>1. /\ pc' \in [Threads -> Pcs]
      /\ \A c \in Places :
            /\ Old(c) \in Nat /\ New(c) \in Nat
            /\ v = c /\ pc[t] # c => New(c) = Old(c) + 1
            /\ v # c /\ pc[t] = c => New(c) = Old(c) - 1
            /\ (v = c) = (pc[t] = c) => New(c) = Old(c)
  BY <1>0 DEF Counted
<1>2. Typed'
  BY <1>1 DEF IInv, Typed
<1>3. HandedOutInOrder'
  BY DEF IInv, HandedOutInOrder
<1>4. Len(queue_) \in Nat /\ maxSize \in Nat /\ (queue_ = <<>> => Len(queue_) = 0)
  BY DEF IInv, Typed
<1>5. NoThreads' => NoThreads
  BY DEF NoThreads
<1> HIDE DEF Old, New
<1>6. Old("notEmpty") > 0 => Old("take") >= Len(queue_) /\ running_
  BY DEF Old, IInv, Signals
<1>7. Old("notFull") > 0 =>
         /\ Old("put") + Len(queue_) >= maxSize
         /\ maxSize > 0 /\ running_ /\ ~NoThreads
  BY DEF Old, IInv, Signals
<1>8. New("notEmpty") > 0 => New("take") >= Len(queue_) /\ running_
  <2>1. CASE queue_ = <<>>
    BY <1>1, <1>4, <1>6, <2>1 DEF Places
  <2>2. CASE queue_ # <<>>
    <3>1. New("notEmpty") <= Old("notEmpty") /\ New("take") >= Old("take")
      BY <1>1, <2>2 DEF Places
    <3> QED  BY <1>1, <1>4, <1>6, <3>1 DEF Places
  <2> QED  BY <2>1, <2>2
<1>9. New("notFull") > 0 =>
         /\ New("put") + Len(queue_) >= maxSize
         /\ maxSize > 0 /\ running_ /\ ~NoThreads
  <2>1. CASE QueueFull
    <3>1. maxSize > 0 /\ Len(queue_) >= maxSize
      BY <2>1 DEF QueueFull
    <3> QED  BY <1>1, <1>4, <1>7, <3>1 DEF Places
  <2>2. CASE ~QueueFull
    <3>1. New("notFull") <= Old("notFull")
      BY <1>1, <2>2 DEF Places
    <3>2. CASE pc[t] = "put" /\ v # "put"
      BY <1>1, <1>7, <2>2, <3>1, <3>2 DEF Places
    <3>3. CASE ~(pc[t] = "put" /\ v # "put")
      <4>1. New("put") >= Old("put")
        BY <1>1, <3>3 DEF Places
      <4> QED  BY <1>1, <1>4, <1>7, <3>1, <4>1 DEF Places
    <3> QED  BY <3>2, <3>3
  <2> QED  BY <2>1, <2>2
<1>10. Signals'
  BY <1>5, <1>8, <1>9 DEF New, IInv, Signals
<1> QED  BY <1>2, <1>3, <1>10 DEF IInv

\* notify(), seen from the counts: one sleeper is moved, or there is none.
LEMMA Notified ==
    ASSUME NEW p \in [Threads -> Pcs], pc \in [Threads -> Pcs],
           NEW c \in {"notEmpty", "notFull"},
           \A t \in Threads : pc[t] = c => p[t] = c,
           Notify(p, c)
    PROVE  LET d == LoopStart(c) IN
           /\ pc' \in [Threads -> Pcs]
           /\ \A e \in Places :
                 Num(p, e) \in Nat /\ Num(pc', e) \in Nat
           /\ \/ Num(pc, c) = 0 /\ pc' = p
              \/ /\ Num(pc', c) = Num(p, c) - 1
                 /\ Num(pc', d) = Num(p, d) + 1
                 /\ \A e \in Places \ {c, d} :
                       Num(pc', e) = Num(p, e)
<1> DEFINE d == LoopStart(c)
<1>1. d \in {"take", "put"} /\ d \in Pcs
  BY DEF LoopStart, Pcs
<1> HIDE DEF d
<1>2. CASE Waiting(c) = {} /\ pc' = p
  <2>1. Num(pc, c) = 0
    BY <1>2, NumType DEF Waiting, At
  <2> QED  BY <1>2, <2>1, NumType
<1>3. CASE \E t \in Waiting(c) : pc' = [p EXCEPT ![t] = d]
  <2>1. PICK t \in Waiting(c) : pc' = [p EXCEPT ![t] = d]
    BY <1>3
  <2>2. t \in Threads /\ p[t] = c
    BY DEF Waiting
  <2>3. pc' \in [Threads -> Pcs] /\ \A e : Counted(p, pc', t, d, e)
    BY <1>1, <2>1, <2>2, Moved
  <2>4. d # c
    BY <1>1
  <2>5. Num(pc', c) = Num(p, c) - 1 /\ Num(pc', d) = Num(p, d) + 1
    BY <2>2, <2>3, <2>4 DEF Counted
  <2>6. \A e \in Places \ {c, d} : Num(pc', e) = Num(p, e)
    BY <2>2, <2>3 DEF Counted
  <2>7. \A e : Num(p, e) \in Nat /\ Num(pc', e) \in Nat
    BY <2>3 DEF Counted
  <2> QED  BY <2>3, <2>5, <2>6, <2>7 DEF d
<1> QED  BY <1>2, <1>3 DEF Notify, d

\* An item is pushed, and a sleeping consumer is notified.
LEMMA Pushed ==
    ASSUME IInv, NEW t \in Threads, NEW v \in {"idle", "test"},
           pc[t] = "put", ~QueueFull, ~NoThreads, PushBack,
           Notify([pc EXCEPT ![t] = v], "notEmpty"),
           UNCHANGED <<running_, threads_>>
    PROVE  IInv'
<1> DEFINE p == [pc EXCEPT ![t] = v]
           n == Len(queue_)
<1>1. v \in Pcs /\ pc \in [Threads -> Pcs] /\ n \in Nat /\ maxSize \in Nat
  BY DEF IInv, Typed, Pcs
<1>2. p \in [Threads -> Pcs] /\ \A c : Counted(pc, p, t, v, c)
  BY <1>1, Moved
<1>3. \A u \in Threads : pc[u] = "notEmpty" => p[u] = "notEmpty"
  BY <1>1
<1> HIDE DEF p
<1>4. /\ Num(p, "put") = Num(pc, "put") - 1
      /\ \A c \in Places \ {"put"} : Num(p, c) = Num(pc, c)
      /\ \A c \in Places : Num(pc, c) \in Nat /\ Num(p, c) \in Nat
  BY <1>2 DEF Counted, Places
<1>5. /\ pc' \in [Threads -> Pcs]
      /\ \A e \in Places : Num(pc', e) \in Nat
      /\ \/ Num(pc, "notEmpty") = 0 /\ pc' = p
         \/ /\ Num(pc', "notEmpty") = Num(p, "notEmpty") - 1
            /\ Num(pc', "take") = Num(p, "take") + 1
            /\ \A e \in Places \ {"notEmpty", "take"} : Num(pc', e) = Num(p, e)
  <2>1. Notify(p, "notEmpty")
    BY DEF p
  <2>2. LoopStart("notEmpty") = "take"
    BY DEF LoopStart
  <2> QED  BY <1>1, <1>2, <1>3, <2>1, <2>2, Notified
<1>6. /\ Num(pc', "put") = Num(pc, "put") - 1
      /\ Num(pc', "notFull") = Num(pc, "notFull")
      /\ Num(pc', "notEmpty") > 0 =>
            Num(pc, "notEmpty") > 0 /\ Num(pc', "take") = Num(pc, "take") + 1
  BY <1>4, <1>5 DEF Places
<1>7. /\ queue_' = Append(queue_, put + 1)
      /\ put' = put + 1
      /\ UNCHANGED <<kind, maxSize, taken, running_, threads_>>
  BY DEF PushBack
<1>8. /\ Len(queue_') = n + 1
      /\ queue_' \in Seq(Nat)
      /\ queue_'[n + 1] = put + 1
      /\ \A i \in 1..n : queue_'[i] = queue_[i]
  BY <1>7 DEF IInv, Typed
<1>9. Typed'
  BY <1>5, <1>7, <1>8 DEF IInv, Typed
<1>10. HandedOutInOrder'
  <2>1. taken + n = put /\ taken \in Nat /\ put \in Nat /\ \A i \in 1..n : queue_[i] = taken + i
    BY DEF IInv, Typed, HandedOutInOrder
  <2>2. maxSize > 0 => n + 1 <= maxSize
    BY <1>1 DEF QueueFull
  <2>3. \A i \in 1..n + 1 : queue_'[i] = taken + i
    BY <1>1, <1>8, <2>1, SMTT(60)
  <2>4. taken + (n + 1) = put + 1
    BY <1>1, <2>1
  <2> HIDE DEF n
  <2> QED  BY <1>7, <1>8, <2>2, <2>3, <2>4 DEF HandedOutInOrder
<1>11. Signals'
  <2>1. Num(pc', "notEmpty") > 0 => Num(pc', "take") >= n + 1 /\ running_
    BY <1>1, <1>4, <1>5, <1>6 DEF Places, IInv, Signals
  <2>2. Num(pc', "notFull") > 0 =>
           /\ Num(pc', "put") + (n + 1) >= maxSize
           /\ maxSize > 0 /\ running_ /\ ~NoThreads
    BY <1>1, <1>4, <1>5, <1>6 DEF Places, IInv, Signals
  <2>3. ~NoThreads'
    BY <1>7 DEF NoThreads
  <2> HIDE DEF n
  <2> QED  BY <1>7, <1>8, <2>1, <2>2, <2>3 DEF IInv, Signals
<1> QED  BY <1>9, <1>10, <1>11 DEF IInv

\* An item is popped, and a sleeping producer is notified where there may be
\* one.
LEMMA Popped ==
    ASSUME IInv, NEW t \in Threads, pc[t] = "take", queue_ # <<>>, PopFront,
           \/ Notify([pc EXCEPT ![t] = "work"], "notFull")
           \/ maxSize = 0 /\ pc' = [pc EXCEPT ![t] = "work"],
           UNCHANGED <<running_, threads_>>
    PROVE  IInv'
<1> DEFINE p == [pc EXCEPT ![t] = "work"]
           n == Len(queue_)
<1>1. /\ "work" \in Pcs /\ pc \in [Threads -> Pcs] /\ n \in Nat /\ n > 0
      /\ maxSize \in Nat
  BY DEF IInv, Typed, Pcs
<1>2. p \in [Threads -> Pcs] /\ \A c : Counted(pc, p, t, "work", c)
  BY <1>1, Moved
<1>3. \A u \in Threads : pc[u] = "notFull" => p[u] = "notFull"
  BY <1>1
<1> HIDE DEF p
<1>4. /\ Num(p, "take") = Num(pc, "take") - 1
      /\ \A c \in Places \ {"take"} : Num(p, c) = Num(pc, c)
      /\ \A c \in Places : Num(pc, c) \in Nat /\ Num(p, c) \in Nat
  BY <1>2 DEF Counted, Places
<1>5. /\ pc' \in [Threads -> Pcs]
      /\ \A e \in Places : Num(pc', e) \in Nat
      /\ \/ Num(pc, "notFull") = 0 /\ pc' = p
         \/ /\ Num(pc', "notFull") = Num(p, "notFull") - 1
            /\ Num(pc', "put") = Num(p, "put") + 1
            /\ \A e \in Places \ {"notFull", "put"} : Num(pc', e) = Num(p, e)
  <2>1. CASE Notify(p, "notFull")
    <3>1. LoopStart("notFull") = "put"
      BY DEF LoopStart
    <3> QED  BY <1>1, <1>2, <1>3, <2>1, <3>1, Notified
  <2>2. CASE maxSize = 0 /\ pc' = p
    <3>1. ~(Num(pc, "notFull") > 0)
      BY <2>2 DEF IInv, Signals
    <3>2. Num(pc, "notFull") = 0
      BY <1>4, <3>1 DEF Places
    <3> QED  BY <1>2, <1>4, <2>2, <3>2
  <2> QED  BY <2>1, <2>2 DEF p
<1>6. /\ Num(pc', "take") = Num(pc, "take") - 1
      /\ Num(pc', "notEmpty") = Num(pc, "notEmpty")
      /\ Num(pc', "notFull") > 0 =>
            Num(pc, "notFull") > 0 /\ Num(pc', "put") = Num(pc, "put") + 1
  BY <1>4, <1>5 DEF Places
<1>7. /\ queue_' = Tail(queue_)
      /\ taken' = Head(queue_)
      /\ UNCHANGED <<kind, maxSize, put, running_, threads_>>
  BY DEF PopFront
<1>8. /\ Len(queue_') = n - 1
      /\ queue_' \in Seq(Nat)
      /\ Head(queue_) = queue_[1]
      /\ \A i \in 1..n - 1 : queue_'[i] = queue_[i + 1]
  BY <1>7 DEF IInv, Typed
<1>9. /\ taken + n = put /\ taken \in Nat /\ put \in Nat
      /\ \A i \in 1..n : queue_[i] = taken + i
      /\ maxSize > 0 => n <= maxSize
  BY DEF IInv, Typed, HandedOutInOrder
<1>10. taken' = taken + 1
  BY <1>1, <1>7, <1>8, <1>9
<1>11. Typed'
  BY <1>5, <1>7, <1>8, <1>9, <1>10 DEF IInv, Typed
<1>12. HandedOutInOrder'
  <2>1. \A i \in 1..n - 1 : queue_'[i] = (taken + 1) + i
    BY <1>1, <1>8, <1>9
  <2>2. (taken + 1) + (n - 1) = put /\ (maxSize > 0 => n - 1 <= maxSize)
    BY <1>1, <1>9
  <2> HIDE DEF n
  <2> QED  BY <1>7, <1>8, <1>10, <2>1, <2>2 DEF HandedOutInOrder
<1>13. Signals'
  <2>1. Num(pc', "notEmpty") > 0 => Num(pc', "take") >= n - 1 /\ running_
    BY <1>1, <1>4, <1>5, <1>6 DEF Places, IInv, Signals
  <2>2. Num(pc', "notFull") > 0 =>
           /\ Num(pc', "put") + (n - 1) >= maxSize
           /\ maxSize > 0 /\ running_ /\ ~NoThreads
    BY <1>1, <1>4, <1>5, <1>6 DEF Places, IInv, Signals
  <2>3. NoThreads' => NoThreads
    BY <1>7 DEF NoThreads
  <2>4. ~NoThreads
    BY DEF IInv, Signals
  <2> HIDE DEF n
  <2> QED  BY <1>7, <1>8, <2>1, <2>2, <2>3, <2>4 DEF IInv, Signals
<1> QED  BY <1>11, <1>12, <1>13 DEF IInv

\* stop() wakes everybody.
LEMMA StopIInv == ASSUME IInv, Stop PROVE IInv'
<1>1. /\ pc' = [t \in Threads |-> IF pc[t] \in {"notFull", "notEmpty"}
                                  THEN LoopStart(pc[t]) ELSE pc[t]]
      /\ UNCHANGED <<kind, maxSize, queue_, put, taken, threads_>>
      /\ kind = "ThreadPool"
  BY DEF Stop
<1>2. \A c : LoopStart(c) \in {"put", "take"}
  BY DEF LoopStart
<1>3. pc' \in [Threads -> Pcs]
  BY <1>1, <1>2 DEF IInv, Typed, Pcs
<1>4. At(pc', "notEmpty") = {} /\ At(pc', "notFull") = {}
  BY <1>1, <1>2 DEF At
<1>5. Num(pc', "notEmpty") = 0 /\ Num(pc', "notFull") = 0
  BY <1>4, NumType
<1>6. Typed' /\ HandedOutInOrder'
  BY <1>1, <1>3 DEF IInv, Typed, HandedOutInOrder
<1>7. Signals'
  BY <1>1, <1>5 DEF IInv, Signals, NoThreads
<1> QED  BY <1>6, <1>7 DEF IInv

\* A pool without threads runs the task in the caller.
LEMMA RunInCaller ==
    ASSUME IInv, NEW t \in Threads, NEW v \in {"idle", "test"}, pc[t] = "put",
           NoThreads, put' = put + 1, taken' = put + 1,
           pc' = [pc EXCEPT ![t] = v],
           UNCHANGED <<kind, maxSize, queue_, running_, threads_>>
    PROVE  IInv'
<1>1. v \in Pcs /\ pc \in [Threads -> Pcs] /\ queue_ = <<>> /\ put \in Nat
  BY DEF IInv, Typed, Pcs, Signals
<1>2. pc' \in [Threads -> Pcs] /\ \A c : Counted(pc, pc', t, v, c)
  BY <1>1, Moved
<1>3. /\ \A c \in Places \ {"put"} : Num(pc', c) = Num(pc, c)
      /\ \A c \in Places : Num(pc, c) \in Nat /\ Num(pc', c) \in Nat
  BY <1>2 DEF Counted, Places
<1>4. Typed'
  BY <1>1, <1>2 DEF IInv, Typed
<1>5. HandedOutInOrder'
  BY <1>1 DEF IInv, Typed, HandedOutInOrder
<1>6. Signals'
  BY <1>1, <1>3 DEF Places, IInv, Typed, Signals, NoThreads
<1> QED  BY <1>4, <1>5, <1>6 DEF IInv

-----------------------------------------------------------------------------
(* The steps *)

LEMMA InitIInv == Init => IInv
<1> SUFFICES ASSUME Init PROVE IInv
  OBVIOUS
<1>0. running_
  BY DEF Init, PoolInit
<1>1. /\ queue_ = <<>> /\ put = 0 /\ taken = 0
      /\ maxSize \in Nat
      /\ kind = "BlockingQueue" => maxSize = 0
  <2>1. CASE PoolInit
    BY <2>1, QueueAssumption DEF PoolInit, QueueInit
  <2>2. CASE PlainInit
    <3>1. queue_ = <<>> /\ put = 0 /\ taken = 0
      BY <2>2 DEF PlainInit, QueueInit
    <3>2. CASE kind = "BlockingQueue" /\ maxSize = 0
      BY <3>1, <3>2
    <3>3. CASE kind = "BoundedBlockingQueue" /\ maxSize \in Sizes \ {0}
      BY <3>1, <3>3, QueueAssumption
    <3> QED  BY <2>2, <3>2, <3>3 DEF PlainInit
  <2> QED  BY <2>1, <2>2 DEF Init
<1>2. /\ pc \in [Threads -> Pcs]
      /\ \A t \in Threads : pc[t] \in {"idle", "none", "work"}
  BY DEF Init, PoolInit, PlainInit, Pcs
<1>3. At(pc, "notEmpty") = {} /\ At(pc, "notFull") = {}
  BY <1>2 DEF At
<1>4. Num(pc, "notEmpty") = 0 /\ Num(pc, "notFull") = 0
  BY <1>3, NumType
<1>5. Typed /\ HandedOutInOrder
  BY <1>1, <1>2 DEF Typed, HandedOutInOrder
<1>6. Signals
  BY <1>0, <1>1, <1>4 DEF Signals
<1> QED  BY <1>5, <1>6 DEF IInv

\* What does not touch the monitor.
LEMMA Elsewhere ==
    ASSUME IInv, UNCHANGED <<kind, maxSize, queue_, pc, put, taken, running_, threads_>>
    PROVE  IInv'
  BY DEF IInv, Typed, HandedOutInOrder, Signals, NoThreads, Num, At

\* put and take of the two queue classes.
LEMMA PlainIInv ==
    ASSUME IInv, NEW t \in Threads, PlainStep(t), UNCHANGED pvars
    PROVE  IInv'
<1> USE DEF pvars
<1>1. CASE Put(t)
  <2>1. ~QueueFull /\ ~NoThreads
    BY <1>1 DEF Put, QueueFull, NoThreads, IInv, Signals
  <2> QED  BY <1>1, <2>1, Pushed DEF Put
<1>2. CASE BoundedPut(t)
  <2>1. ~NoThreads /\ running_
    BY <1>2 DEF BoundedPut, NoThreads, IInv, Signals
  <2>2. CASE QueueFull /\ Wait(t, "notFull")
    <3>1. "notFull" \in Pcs
      BY DEF Pcs
    <3> QED  BY <1>2, <2>1, <2>2, <3>1, GoesOn DEF BoundedPut, Wait
  <2>3. CASE ~(QueueFull /\ Wait(t, "notFull"))
    BY <1>2, <2>1, <2>3, Pushed DEF BoundedPut
  <2> QED  BY <2>2, <2>3
<1>3. CASE CallTake(t)
  <2>1. "take" \in Pcs
    BY DEF Pcs
  <2> QED  BY <1>3, <2>1, GoesOn DEF CallTake
<1>4. ASSUME queue_ = <<>>, Wait(t, "notEmpty"), kind # "ThreadPool", pc[t] = "take"
      PROVE  IInv'
  <2>1. "notEmpty" \in Pcs /\ running_
    BY <1>4 DEF Pcs, IInv, Signals
  <2> QED  BY <1>4, <2>1, GoesOn DEF Wait
<1>5. CASE Take(t)
  <2>1. maxSize = 0
    BY <1>5 DEF Take, IInv, Signals
  <2> QED  BY <1>4, <1>5, <2>1, Popped DEF Take
<1>6. CASE BoundedTake(t)
  BY <1>4, <1>6, Popped DEF BoundedTake
<1> QED  BY <1>1, <1>2, <1>3, <1>5, <1>6 DEF PlainStep

\* ThreadPool::run.
LEMMA RunIInv == ASSUME IInv, NEW t \in Threads, Run(t) PROVE IInv'
<1> USE DEF pvars
<1>1. /\ AfterRun(t) \in {"idle", "test"} /\ AfterRun(t) \in Pcs
      /\ "notFull" \in Pcs
      /\ kind = "ThreadPool" /\ pc[t] = "put"
      /\ UNCHANGED <<running_, threads_>>
  BY DEF AfterRun, Pcs, Run
<1>2. CASE /\ threads_ = {}
           /\ put' = put + 1
           /\ taken' = put + 1
           /\ pc' = [pc EXCEPT ![t] = AfterRun(t)]
           /\ UNCHANGED <<kind, maxSize, queue_, calls>>
  BY <1>1, <1>2, RunInCaller DEF NoThreads
<1>3. CASE threads_ # {} /\ QueueFull /\ running_ /\ Wait(t, "notFull")
  BY <1>1, <1>3, GoesOn DEF Wait, NoThreads
<1>4. CASE threads_ # {} /\ ~running_ /\ Wait(t, AfterRun(t))
  BY <1>1, <1>4, GoesOn DEF Wait
<1>5. CASE /\ threads_ # {} /\ running_ /\ ~QueueFull
           /\ PushBack
           /\ Notify([pc EXCEPT ![t] = AfterRun(t)], "notEmpty")
  BY <1>1, <1>5, Pushed DEF NoThreads
<1> QED  BY <1>2, <1>3, <1>4, <1>5 DEF Run

\* ThreadPool::take.
LEMMA PoolTakeIInv == ASSUME IInv, NEW t \in Threads, PoolTake(t) PROVE IInv'
<1> USE DEF pvars
<1>1. /\ "notEmpty" \in Pcs /\ "test" \in Pcs
      /\ pc[t] = "take"
      /\ UNCHANGED <<running_, threads_>>
  BY DEF Pcs, PoolTake
<1>2. CASE queue_ = <<>> /\ running_ /\ Wait(t, "notEmpty")
  BY <1>1, <1>2, GoesOn DEF Wait
<1>3. CASE queue_ = <<>> /\ ~running_ /\ Wait(t, "test")
  BY <1>1, <1>3, GoesOn DEF Wait
<1>4. CASE /\ queue_ # <<>>
           /\ PopFront
           /\ IF maxSize > 0 THEN Notify([pc EXCEPT ![t] = "work"], "notFull")
                             ELSE pc' = [pc EXCEPT ![t] = "work"]
  <2>1. ~(maxSize > 0) => maxSize = 0
    BY DEF IInv, Typed
  <2> QED  BY <1>1, <1>4, <2>1, Popped
<1> QED  BY <1>2, <1>3, <1>4 DEF PoolTake

\* Every step preserves the invariant.
LEMMA NextIInv == IInv /\ [Next]_vars => IInv'
<1> SUFFICES ASSUME IInv, [Next]_vars PROVE IInv'
  OBVIOUS
<1> USE DEF pvars, qvars
<1>1. {"idle", "put", "take", "born", "test", "done"} \subseteq Pcs
  BY DEF Pcs
<1>2. ASSUME NEW w \in Workers, StartThread(w) PROVE IInv'
  <2>1. w \in Threads
    BY DEF Threads
  <2> QED  BY <1>1, <1>2, <2>1, GoesOn DEF StartThread
<1>3. CASE LatchWait \/ Started \/ Joined
  BY <1>3, Elsewhere DEF LatchWait, Started, Joined
<1>4. ASSUME NEW t \in Threads, CountDown(t) PROVE IInv'
  BY <1>1, <1>4, GoesOn DEF CountDown
<1>5. ASSUME NEW t \in Threads, TestRunning(t) PROVE IInv'
  <2>1. PICK v \in {"take", "done"} : pc' = [pc EXCEPT ![t] = v]
    BY <1>5 DEF TestRunning
  <2> QED  BY <1>1, <1>5, <2>1, GoesOn DEF TestRunning
<1>6. ASSUME NEW t \in Threads, EndTask(t) PROVE IInv'
  BY <1>1, <1>6, GoesOn DEF EndTask
<1>7. ASSUME NEW t \in Threads, CallRun(t) PROVE IInv'
  BY <1>1, <1>7, GoesOn DEF CallRun, CallPut
<1>8. ASSUME NEW t \in Threads, CallNestedRun(t) PROVE IInv'
  BY <1>1, <1>8, GoesOn DEF CallNestedRun
<1>9. ASSUME NEW t \in Threads, SpuriousWakeup(t), UNCHANGED pvars PROVE IInv'
  <2>1. PICK v \in {"put", "take"} : pc' = [pc EXCEPT ![t] = v]
    BY <1>9 DEF SpuriousWakeup, LoopStart
  <2> QED  BY <1>1, <1>9, <2>1, GoesOn DEF SpuriousWakeup
<1>10. ASSUME NEW t \in Threads, Drain(t), UNCHANGED pvars PROVE IInv'
  <2>1. /\ queue_' = <<>> /\ taken' = put
        /\ UNCHANGED <<kind, maxSize, pc, put, running_, threads_>>
        /\ maxSize = 0
    BY <1>10 DEF Drain, IInv, Signals
  <2>2. Num(pc, "take") \in Nat /\ ~(Num(pc, "notFull") > 0)
    BY <2>1, NumType DEF IInv, Signals
  <2>3. Typed' /\ HandedOutInOrder'
    BY <2>1 DEF IInv, Typed, HandedOutInOrder
  <2>4. Num(pc', "take") = Num(pc, "take") /\ Num(pc', "notEmpty") = Num(pc, "notEmpty")
        /\ Num(pc', "notFull") = Num(pc, "notFull") /\ Num(pc', "put") = Num(pc, "put")
    BY <2>1
  <2>5. Signals'
    BY <2>1, <2>2, <2>4 DEF IInv, Signals, NoThreads
  <2> QED  BY <2>3, <2>5 DEF IInv
<1>11. ASSUME NEW t \in Threads, ThreadStep(t) PROVE IInv'
  BY <1>4, <1>5, <1>6, <1>11, PlainIInv, RunIInv, PoolTakeIInv DEF ThreadStep
<1>12. CASE UNCHANGED vars
  BY <1>12, Elsewhere DEF vars
<1> QED
  BY <1>2, <1>3, <1>7, <1>8, <1>9, <1>10, <1>11, <1>12, StopIInv DEF Next, MainStep

LEMMA Invariance == Spec => []IInv
  BY InitIInv, NextIInv, PTL DEF Spec

\* BlockingQueue, BoundedBlockingQueue and ThreadPool's queue, with any
\* threads: the deque keeps to its capacity, and items leave it once each, in
\* the order in which they came.
THEOREM QueueInOrder == Spec => []HandedOutInOrder
<1>1. IInv => HandedOutInOrder
  BY DEF IInv
<1> QED  BY <1>1, Invariance, PTL

\* notify() is enough: with any number of producers and consumers, nobody
\* sleeps while there is an item, or a free slot, that no awake thread is on
\* its way to.
THEOREM NotifyIsEnough == Spec => []NoLostSignal
<1>1. ASSUME IInv PROVE NoLostSignal
  <2>1. \A c : Waiting(c) = At(pc, c)
    BY DEF Waiting, At
  <2>2. \A c : Num(pc, c) \in Nat /\ (At(pc, c) # {} => Num(pc, c) > 0)
    BY NumType
  <2>3. Cardinality(Waiting("take")) = Num(pc, "take") /\ Cardinality(Waiting("put")) = Num(pc, "put")
    BY <2>1 DEF Num
  <2>4. /\ Num(pc, "notEmpty") > 0 => Num(pc, "take") >= Len(queue_)
        /\ Num(pc, "notFull") > 0 => Num(pc, "put") + Len(queue_) >= maxSize
    BY <1>1 DEF IInv, Signals
  <2>5. /\ Waiting("notEmpty") # {} => Num(pc, "notEmpty") > 0
        /\ Waiting("notFull") # {} => Num(pc, "notFull") > 0
    BY <2>1, <2>2
  <2> QED  BY <2>3, <2>4, <2>5 DEF NoLostSignal
<1> QED  BY <1>1, Invariance, PTL
=============================================================================
