-------------------------- MODULE TimerQueueProofs --------------------------
(***************************************************************************)
(* Theorems about TimerQueue, for any threads, addresses, delays,          *)
(* intervals, clock steps and bounds.                                      *)
(***************************************************************************)
EXTENDS TimerQueue, SequenceTheorems, TLAPS

-----------------------------------------------------------------------------
(* The inductive invariant: TypeOK together with the following parts.      *)

\* SetsAgree, entry by entry.
SetsInv ==
    /\ \A e \in timers_ : /\ e = Entry(heap, e[2])
                          /\ ActiveTimer(heap, e[2]) \in activeTimers_
    /\ \A x \in activeTimers_ : /\ x = ActiveTimer(heap, x[1])
                                /\ Entry(heap, x[1]) \in timers_

\* There is a batch, and the flag that cancelInLoop tests is set, exactly
\* while handleRead runs.
BatchInv ==
    /\ pc = "idle" => expired = {} /\ toRun = {}
    /\ callingExpiredTimers_ <=> pc # "idle"

\* OneOwner, timer by timer.
OwnInv ==
    /\ \A e \in timers_ : e[2] \in live
    /\ \A e \in expired : e[2] \in live
    /\ \A i \in InboxAdds : inbox[i].addr \in live
    /\ \A a \in live : \/ \E e \in timers_ : e[2] = a
                       \/ \E e \in expired : e[2] = a
                       \/ \E i \in InboxAdds : inbox[i].addr = a
    /\ \A e \in timers_, f \in expired : e[2] # f[2]
    /\ \A e \in timers_, i \in InboxAdds : e[2] # inbox[i].addr
    /\ \A e \in expired, i \in InboxAdds : e[2] # inbox[i].addr
    /\ \A i, j \in InboxAdds : inbox[i].addr = inbox[j].addr => i = j

\* A cancelled timer is neither queued nor waiting to be, and if it is in
\* the batch, reset() will know.  Sequence numbers are not used twice.
CancelInv ==
    /\ \A a \in Addrs : heap[a].seq <= numCreated
    /\ \A c \in cancelled : c[2] <= numCreated
    /\ \A x \in activeTimers_ : x \notin cancelled
    /\ \A i \in InboxAdds : ActiveTimer(heap, inbox[i].addr) \notin cancelled
    /\ \A e \in expired : ActiveTimer(heap, e[2]) \in cancelled
                             => ActiveTimer(heap, e[2]) \in cancelingTimers_

\* What reset() deletes has run or was asked to be cancelled.
LostInv ==
    /\ TimerNotLost
    /\ \A c \in cancelingTimers_ : c[2] \in requested
    /\ \A e \in expired \ toRun : heap[e[2]].seq \in ran

\* Armed and Prompt, and what they need while callbacks run: a timer added
\* with an invalid expiration, for which reset() would not arm the timerfd,
\* has armed it when it was added.
TimeInv ==
    /\ now >= 1
    /\ pc # "idle" => batchNow >= 1
    /\ Armed
    /\ Prompt
    /\ (pc # "idle" /\ \E e \in timers_ : e[1] <= 0) => timerfd \in {0, 1}

IInv == TypeOK /\ SetsInv /\ BatchInv /\ OwnInv /\ CancelInv /\ LostInv
               /\ TimeInv

-----------------------------------------------------------------------------
(* What TypeOK says of the members of the sets *)

\* The functors that wait in inbox.
Functors == [op : {"add", "cancel"}, addr : Addrs, seq : Nat]

\* Each of them is a functor.
LEMMA InboxMember ==
  ASSUME TypeOK, NEW i \in DOMAIN inbox
  PROVE  inbox[i] \in Functors
<1>1. inbox \in Seq(Functors)
  BY DEF TypeOK, Functors
<1> QED BY <1>1, ElementOfSeq, LenProperties

\* The components of the entries, ids and functors have their types.
LEMMA Members ==
  ASSUME TypeOK
  PROVE  /\ \A e \in timers_ : e[1] \in Int /\ e[2] \in Addrs
         /\ \A e \in expired : e[1] \in Int /\ e[2] \in Addrs
         /\ \A x \in activeTimers_ : x[1] \in Addrs /\ x[2] \in Nat
         /\ \A x \in cancelled : x[1] \in Addrs /\ x[2] \in Nat
         /\ \A i \in InboxAdds : inbox[i].addr \in Addrs
         /\ \A b \in Addrs : /\ heap[b].seq \in Nat
                             /\ heap[b].exp \in Int
                             /\ heap[b].interval \in Int
<1>1. /\ timers_ \subseteq Int \X Addrs
      /\ expired \subseteq Int \X Addrs
      /\ activeTimers_ \subseteq Addrs \X Nat
      /\ cancelled \subseteq Addrs \X Nat
  BY DEF TypeOK
<1>2. \A i \in InboxAdds : inbox[i].addr \in Addrs
  BY InboxMember DEF InboxAdds, Functors
<1>3. heap \in [Addrs -> [seq : Nat, exp : Int, interval : Int]]
  BY DEF TypeOK
<1> QED BY <1>1, <1>2, <1>3

-----------------------------------------------------------------------------
(* The queue of functors *)

\* A functor added at the end leaves the places of the others.
LEMMA InboxAppend ==
  ASSUME TypeOK,
         NEW r \in Functors,
         inbox' = Append(inbox, r)
  PROVE  /\ InboxAdds' = InboxAdds \union
                (IF r.op = "add" THEN {Len(inbox) + 1} ELSE {})
         /\ \A i \in InboxAdds : i # Len(inbox) + 1 /\ inbox'[i] = inbox[i]
         /\ inbox'[Len(inbox) + 1] = r
<1>1. /\ DOMAIN inbox = 1..Len(inbox)
      /\ Len(inbox) \in Nat
      /\ DOMAIN inbox' = 1..(Len(inbox) + 1)
      /\ \A i \in 1..Len(inbox) : inbox'[i] = inbox[i]
      /\ inbox'[Len(inbox) + 1] = r
  BY DEF TypeOK, Functors
<1> QED
  BY <1>1 DEF InboxAdds

\* When the oldest functor is taken, the others move up by one.
LEMMA InboxTail ==
  ASSUME TypeOK, inbox # <<>>, inbox' = Tail(inbox)
  PROVE  /\ \A i \in InboxAdds' : i + 1 \in InboxAdds /\ i + 1 # 1
         /\ \A i \in InboxAdds' : inbox'[i] = inbox[i + 1]
         /\ \A i \in InboxAdds : i # 1 => /\ i - 1 \in InboxAdds'
                                          /\ inbox'[i - 1] = inbox[i]
         /\ 1 \in InboxAdds <=> Head(inbox).op = "add"
         /\ Head(inbox) = inbox[1]
         /\ InboxAdds \subseteq Int /\ InboxAdds' \subseteq Int
         /\ Head(inbox) \in Functors
<1>1. /\ DOMAIN inbox = 1..Len(inbox)
      /\ Len(inbox) \in Nat \ {0}
      /\ DOMAIN inbox' = 1..(Len(inbox) - 1)
      /\ \A i \in 1..(Len(inbox) - 1) : inbox'[i] = inbox[i + 1]
      /\ Head(inbox) = inbox[1]
      /\ inbox[1] \in Functors
  <2>1. inbox \in Seq(Functors)
    BY DEF TypeOK, Functors
  <2>2. Len(inbox) \in Nat \ {0} /\ DOMAIN inbox = 1..Len(inbox)
    BY <2>1
  <2>3. inbox[1] \in Functors
    BY <2>2, InboxMember
  <2>4. Len(inbox') = Len(inbox) - 1 /\ DOMAIN inbox' = 1..Len(inbox')
    BY <2>1, <2>2
  <2>5. \A i \in 1..(Len(inbox) - 1) : inbox'[i] = inbox[i + 1]
    BY <2>1, <2>2
  <2> QED BY <2>1, <2>2, <2>3, <2>4, <2>5
<1>2. \A i \in InboxAdds' : i \in 1..(Len(inbox) - 1) /\ inbox'[i].op = "add"
  BY <1>1 DEF InboxAdds
<1>3. \A i \in 1..Len(inbox) : i \in InboxAdds <=> inbox[i].op = "add"
  BY <1>1 DEF InboxAdds
<1>4. \A i \in 1..(Len(inbox) - 1) : i \in InboxAdds' <=> inbox'[i].op = "add"
  BY <1>1 DEF InboxAdds
<1>5. InboxAdds \subseteq 1..Len(inbox)
  BY <1>1 DEF InboxAdds
<1> QED
  BY <1>1, <1>2, <1>3, <1>4, <1>5

-----------------------------------------------------------------------------
(* The invariant is inductive. *)

\* An empty queue satisfies the invariant.
LEMMA InitIInv == Init => IInv
<1> SUFFICES ASSUME Init PROVE IInv
  OBVIOUS
<1>1. TypeOK
  <2>1. /\ heap \in [Addrs -> [seq : Nat, exp : Int, interval : Int]]
        /\ numCreated \in 0..MaxSeq
        /\ inbox \in Seq([op : {"add", "cancel"}, addr : Addrs, seq : Nat])
        /\ adding \in [Threads -> Addrs \union {NoAddr}]
    BY TimerAssumption DEF Init
  <2>2. /\ timers_ \subseteq Int \X Addrs
        /\ activeTimers_ \subseteq Addrs \X Nat
        /\ cancelingTimers_ \subseteq Addrs \X Nat
        /\ expired \subseteq Int \X Addrs /\ toRun \subseteq expired
        /\ ids \subseteq Addrs \X Nat
        /\ cancelled \subseteq Addrs \X Nat
    BY DEF Init
  <2>3. batchNow \in Int /\ timerfd \in Int /\ now \in Int
    BY DEF Init
  <2>4. /\ live \subseteq Addrs /\ requested \subseteq Nat /\ ran \subseteq Nat
        /\ callingExpiredTimers_ \in BOOLEAN /\ active \in BOOLEAN
        /\ stepped \in BOOLEAN /\ pc \in {"idle", "batch", "callback"}
    BY Zenon DEF Init
  <2> QED BY <2>1, <2>2, <2>3, <2>4 DEF TypeOK
<1>2. InboxAdds = {}
  BY DEF Init, InboxAdds
<1>3. SetsInv /\ BatchInv /\ OwnInv
  BY <1>2 DEF Init, SetsInv, BatchInv, OwnInv
<1>4. CancelInv /\ LostInv
  BY <1>2 DEF Init, CancelInv, LostInv, TimerNotLost
<1>5. TimeInv
  BY DEF Init, TimeInv, Armed, Prompt
<1> QED
  BY <1>1, <1>3, <1>4, <1>5 DEF IInv

\* addTimer in the loop thread: the timer is created and queued at once.
LEMMA LoopAddTimerIInv ==
  ASSUME IInv, NEW a \in Addrs, NEW d \in Delays, NEW v \in Intervals,
         LoopAddTimer(a, d, v)
  PROVE  IInv'
<1> DEFINE s == numCreated + 1
<1> DEFINE x == now + d
<1>0. TypeOK /\ SetsInv /\ BatchInv /\ OwnInv /\ CancelInv /\ LostInv
      /\ TimeInv
  BY DEF IInv
<1>1. /\ numCreated < MaxSeq /\ numCreated' = s /\ s \in Nat
      /\ a \notin live /\ live' = live \union {a}
      /\ x \in Int /\ v \in Int
      /\ heap' = [heap EXCEPT ![a] = [seq |-> s, exp |-> x, interval |-> v]]
  BY <1>0, TimerAssumption DEF LoopAddTimer, NewTimer, TypeOK
<1>2. /\ heap'[a] = [seq |-> s, exp |-> x, interval |-> v]
      /\ \A b \in Addrs : b # a => heap'[b] = heap[b]
  BY <1>0, <1>1 DEF TypeOK
<1>3. /\ timers_' = timers_ \union {<<x, a>>}
      /\ activeTimers_' = activeTimers_ \union {<<a, s>>}
  BY <1>2 DEF LoopAddTimer, AddTimerInLoop, Entry, ActiveTimer
<1>4. timerfd' = IF EarliestChanged(x) THEN HowMuchTimeFromNow(x)
                                       ELSE timerfd
  BY <1>2 DEF LoopAddTimer, AddTimerInLoop
<1>5. /\ \A e \in timers_ : e[2] # a /\ e[2] \in Addrs /\ e[1] \in Int
      /\ \A e \in expired : e[2] # a /\ e[2] \in Addrs
      /\ \A i \in InboxAdds : inbox[i].addr # a /\ inbox[i].addr \in Addrs
      /\ \A y \in activeTimers_ : y[1] # a /\ y[1] \in Addrs /\ y[2] \in Nat
  <2>1. \A y \in activeTimers_ : <<heap[y[1]].exp, y[1]>> \in timers_
    BY <1>0 DEF SetsInv, Entry
  <2>2. \A y \in activeTimers_ : y[1] \in live
    BY <1>0, <2>1 DEF OwnInv
  <2> QED BY <1>0, <1>1, <2>2, Members DEF OwnInv
<1>6. InboxAdds' = InboxAdds /\ inbox' = inbox
  BY DEF LoopAddTimer, InboxAdds
<1>7. TypeOK'
  <2>1. timerfd' \in Int
    BY <1>0, <1>1, <1>4 DEF TypeOK, HowMuchTimeFromNow
  <2>2. heap' \in [Addrs -> [seq : Nat, exp : Int, interval : Int]]
    BY <1>0, <1>1 DEF TypeOK
  <2>3. live' \subseteq Addrs /\ numCreated' \in 0..MaxSeq
    BY <1>0, <1>1, TimerAssumption DEF TypeOK
  <2>4. /\ timers_' \subseteq Int \X Addrs
        /\ activeTimers_' \subseteq Addrs \X Nat
        /\ ids' \subseteq Addrs \X Nat
    BY <1>0, <1>1, <1>3, SMTT(60) DEF TypeOK, LoopAddTimer
  <2> QED
    BY <1>0, <2>1, <2>2, <2>3, <2>4 DEF TypeOK, LoopAddTimer
<1>8. SetsInv'
  BY <1>0, <1>2, <1>3, <1>5 DEF SetsInv, Entry, ActiveTimer
<1>9. BatchInv'
  BY <1>0 DEF BatchInv, LoopAddTimer
<1>10. OwnInv'
  <2>1. expired' = expired
    BY DEF LoopAddTimer
  <2>2. \A e \in timers_' : e \in timers_ \/ e[2] = a
    BY <1>3
  <2>3. \E e \in timers_' : e[2] = a
    <3>1. <<x, a>> \in timers_' /\ <<x, a>>[2] = a
      BY <1>3
    <3> QED BY <3>1
  <2>4. timers_ \subseteq timers_'
    BY <1>3
  <2> QED BY <1>0, <1>1, <1>5, <1>6, <2>1, <2>2, <2>3, <2>4 DEF OwnInv
<1>11. CancelInv'
  BY <1>0, <1>1, <1>2, <1>3, <1>5, <1>6, SMTT(60)
  DEF CancelInv, TypeOK, ActiveTimer, LoopAddTimer
<1>12. LostInv'
  BY <1>0, <1>1, <1>2, <1>5 DEF LostInv, TimerNotLost, LoopAddTimer
<1>13. TimeInv'
  <2>1. now' = now /\ pc' = pc /\ batchNow' = batchNow /\ stepped' = stepped
    BY DEF LoopAddTimer
  <2>t. now \in Int /\ timerfd \in Int
    BY <1>0 DEF TypeOK
  <2>e. \A e \in timers_' : e \in timers_ \/ e[1] = x
    BY <1>3
  <2>2. CASE EarliestChanged(x)
    <3>1. timerfd' = IF x - now < 1 THEN 1 ELSE x - now
      BY <1>4, <2>2 DEF HowMuchTimeFromNow
    <3>2. \A e \in timers_' : e[1] \in Int /\ x <= e[1]
      BY <1>1, <1>5, <2>e, <2>2 DEF EarliestChanged
    <3> QED
      BY <1>0, <1>1, <2>1, <2>t, <3>1, <3>2
      DEF TimeInv, Armed, Prompt, HowMuchTimeFromNow
  <2>3. CASE ~EarliestChanged(x)
    BY <1>0, <1>1, <1>3, <1>4, <1>5, <2>1, <2>3, SMTT(60)
    DEF TimeInv, Armed, Prompt, EarliestChanged, HowMuchTimeFromNow, TypeOK
  <2> QED BY <2>2, <2>3
<1> QED
  BY <1>7, <1>8, <1>9, <1>10, <1>11, <1>12, <1>13 DEF IInv

\* addTimer in another thread: the timer is created and waits in inbox.
LEMMA AddTimerIInv ==
  ASSUME IInv, NEW t \in Threads, NEW a \in Addrs, NEW d \in Delays,
         NEW v \in Intervals, AddTimer(t, a, d, v)
  PROVE  IInv'
<1> DEFINE s == numCreated + 1
<1> DEFINE x == now + d
<1> DEFINE r == [op |-> "add", addr |-> a, seq |-> 0]
<1> DEFINE n == Len(inbox) + 1
<1>0. TypeOK /\ SetsInv /\ BatchInv /\ OwnInv /\ CancelInv /\ LostInv
      /\ TimeInv
  BY DEF IInv
<1>1. /\ numCreated < MaxSeq /\ numCreated' = s /\ s \in Nat
      /\ a \notin live /\ live' = live \union {a}
      /\ x \in Int /\ v \in Int
      /\ heap' = [heap EXCEPT ![a] = [seq |-> s, exp |-> x, interval |-> v]]
  BY <1>0, TimerAssumption DEF AddTimer, NewTimer, TypeOK
<1>2. /\ heap'[a] = [seq |-> s, exp |-> x, interval |-> v]
      /\ \A b \in Addrs : b # a => heap'[b] = heap[b]
  BY <1>0, <1>1 DEF TypeOK
<1>3. r \in Functors
  BY DEF Functors
<1>4. /\ InboxAdds' = InboxAdds \union {n}
      /\ \A i \in InboxAdds : i # n /\ inbox'[i] = inbox[i]
      /\ inbox'[n].addr = a
  <2>1. inbox' = Append(inbox, r)
    BY DEF AddTimer
  <2>2. r.op = "add" /\ r.addr = a
    OBVIOUS
  <2> HIDE DEF r
  <2>3. /\ InboxAdds' = InboxAdds \union
               (IF r.op = "add" THEN {n} ELSE {})
        /\ \A i \in InboxAdds : i # n /\ inbox'[i] = inbox[i]
        /\ inbox'[n] = r
    BY <1>0, <1>3, <2>1, InboxAppend
  <2> QED BY <2>2, <2>3
<1>5. /\ \A e \in timers_ : e[2] # a /\ e[2] \in Addrs
      /\ \A e \in expired : e[2] # a /\ e[2] \in Addrs
      /\ \A i \in InboxAdds : inbox[i].addr # a /\ inbox[i].addr \in Addrs
      /\ \A y \in activeTimers_ : y[1] # a /\ y[1] \in Addrs
  <2>1. \A y \in activeTimers_ : <<heap[y[1]].exp, y[1]>> \in timers_
    BY <1>0 DEF SetsInv, Entry
  <2>2. \A y \in activeTimers_ : y[1] \in live
    BY <1>0, <2>1 DEF OwnInv
  <2> QED BY <1>0, <1>1, <2>2, Members DEF OwnInv
<1>6. /\ timers_' = timers_ /\ activeTimers_' = activeTimers_
      /\ expired' = expired /\ toRun' = toRun /\ pc' = pc
      /\ callingExpiredTimers_' = callingExpiredTimers_
      /\ cancelled' = cancelled /\ cancelingTimers_' = cancelingTimers_
      /\ requested' = requested /\ ran' = ran
      /\ now' = now /\ timerfd' = timerfd /\ batchNow' = batchNow
      /\ stepped' = stepped
  BY DEF AddTimer
<1>7. TypeOK'
  <2>1. heap' \in [Addrs -> [seq : Nat, exp : Int, interval : Int]]
    BY <1>0, <1>1 DEF TypeOK
  <2>2. live' \subseteq Addrs /\ numCreated' \in 0..MaxSeq
    BY <1>0, <1>1, TimerAssumption DEF TypeOK
  <2>3. inbox' \in Seq([op : {"add", "cancel"}, addr : Addrs, seq : Nat])
    BY <1>0, <1>3, AppendProperties DEF TypeOK, AddTimer, Functors
  <2>4. adding' \in [Threads -> Addrs \union {NoAddr}]
    BY <1>0 DEF TypeOK, AddTimer
  <2> QED
    BY <1>0, <1>6, <2>1, <2>2, <2>3, <2>4 DEF TypeOK, AddTimer
<1>8. SetsInv'
  BY <1>0, <1>2, <1>5, <1>6 DEF SetsInv, Entry, ActiveTimer
<1>9. BatchInv'
  BY <1>0, <1>6 DEF BatchInv
<1>10. OwnInv'
  BY <1>0, <1>1, <1>4, <1>5, <1>6 DEF OwnInv
<1>11. CancelInv'
  <2>1. \A b \in Addrs : heap[b].seq \in Nat
    BY <1>0, Members
  <2>2. \A c \in cancelled : c[2] \in Nat /\ c[2] # s
    BY <1>0, Members DEF CancelInv, TypeOK
  <2>3. ActiveTimer(heap', a) = <<a, s>> /\ <<a, s>> \notin cancelled
    BY <1>2, <2>2 DEF ActiveTimer
  <2>4. \A b \in Addrs : b # a => ActiveTimer(heap', b) = ActiveTimer(heap, b)
    BY <1>2 DEF ActiveTimer
  <2>5. \A b \in Addrs : heap'[b].seq <= numCreated'
    BY <1>0, <1>1, <1>2, <2>1 DEF CancelInv, TypeOK
  <2>6. \A c \in cancelled : c[2] <= numCreated'
    BY <1>0, <1>1, <2>2 DEF CancelInv, TypeOK
  <2>7. \A i \in InboxAdds' :
           ActiveTimer(heap', inbox'[i].addr) \notin cancelled
    BY <1>0, <1>4, <1>5, <2>3, <2>4 DEF CancelInv
  <2>8. \A e \in expired : ActiveTimer(heap', e[2]) = ActiveTimer(heap, e[2])
    BY <1>5, <2>4
  <2> QED
    BY <1>0, <1>6, <2>5, <2>6, <2>7, <2>8 DEF CancelInv
<1>12. LostInv'
  BY <1>0, <1>1, <1>2, <1>5, <1>6 DEF LostInv, TimerNotLost
<1>13. TimeInv'
  BY <1>0, <1>6 DEF TimeInv, Armed, Prompt, HowMuchTimeFromNow
<1> QED
  BY <1>7, <1>8, <1>9, <1>10, <1>11, <1>12, <1>13 DEF IInv

\* The oldest functor is an addTimerInLoop, and the loop runs it.
LEMMA RunAddIInv ==
  ASSUME IInv, RunAddFunctor
  PROVE  IInv'
<1> DEFINE a == Head(inbox).addr
<1> DEFINE x == heap[a].exp
<1>0. TypeOK /\ SetsInv /\ BatchInv /\ OwnInv /\ CancelInv /\ LostInv
      /\ TimeInv
  BY DEF IInv
<1>1. inbox # <<>> /\ inbox' = Tail(inbox) /\ Head(inbox).op = "add"
  BY DEF RunAddFunctor
<1>2. /\ 1 \in InboxAdds /\ a = inbox[1].addr /\ a \in Addrs /\ x \in Int
      /\ \A i \in InboxAdds' : i + 1 \in InboxAdds /\ i + 1 # 1
      /\ \A i \in InboxAdds' : inbox'[i] = inbox[i + 1]
      /\ \A i \in InboxAdds : i # 1 => /\ i - 1 \in InboxAdds'
                                       /\ inbox'[i - 1] = inbox[i]
      /\ InboxAdds \subseteq Int /\ InboxAdds' \subseteq Int
  BY <1>0, <1>1, InboxTail, Members DEF Functors
<1>3. /\ timers_' = timers_ \union {<<x, a>>}
      /\ activeTimers_' = activeTimers_ \union {<<a, heap[a].seq>>}
      /\ timerfd' = IF EarliestChanged(x) THEN HowMuchTimeFromNow(x)
                                          ELSE timerfd
  BY DEF RunAddFunctor, AddTimerInLoop, Entry, ActiveTimer
<1>4. /\ live' = live /\ heap' = heap /\ numCreated' = numCreated
      /\ expired' = expired /\ toRun' = toRun /\ pc = "idle" /\ pc' = pc
      /\ callingExpiredTimers_' = callingExpiredTimers_
      /\ cancelled' = cancelled /\ cancelingTimers_' = cancelingTimers_
      /\ requested' = requested /\ ran' = ran
      /\ now' = now /\ batchNow' = batchNow /\ stepped' = stepped
  BY DEF RunAddFunctor
<1>5. \A e \in timers_' : e \in timers_ \/ (e[1] = x /\ e[2] = a)
  BY <1>3
<1>6. TypeOK'
  <2>1. timerfd' \in Int
    BY <1>0, <1>2, <1>3 DEF TypeOK, HowMuchTimeFromNow
  <2>2. heap[a].seq \in Nat
    BY <1>0, <1>2, Members
  <2>3. /\ timers_' \subseteq Int \X Addrs
        /\ activeTimers_' \subseteq Addrs \X Nat
    BY <1>0, <1>2, <1>3, <2>2 DEF TypeOK
  <2>4. inbox' \in Seq([op : {"add", "cancel"}, addr : Addrs, seq : Nat])
    BY <1>0, <1>1 DEF TypeOK
  <2> QED
    BY <1>0, <1>4, <2>1, <2>3, <2>4 DEF TypeOK, RunAddFunctor
<1>7. SetsInv'
  BY <1>0, <1>3, <1>4 DEF SetsInv, Entry, ActiveTimer
<1>8. BatchInv'
  BY <1>0, <1>4 DEF BatchInv
<1>9. OwnInv'
  <2>1. \E e \in timers_' : e[2] = a
    <3>1. <<x, a>> \in timers_' /\ <<x, a>>[2] = a
      BY <1>3
    <3> QED BY <3>1
  <2>2. timers_ \subseteq timers_'
    BY <1>3
  <2>3. \A i \in InboxAdds' : inbox'[i].addr # a
    BY <1>0, <1>2 DEF OwnInv
  <2>4. \A b \in live' : \/ \E e \in timers_' : e[2] = b
                         \/ \E e \in expired' : e[2] = b
                         \/ \E i \in InboxAdds' : inbox'[i].addr = b
    BY <1>0, <1>2, <1>4, <2>1, <2>2 DEF OwnInv
  <2>5. \A i, j \in InboxAdds' : inbox'[i].addr = inbox'[j].addr => i = j
    BY <1>0, <1>2 DEF OwnInv
  <2> QED
    BY <1>0, <1>2, <1>4, <1>5, <2>3, <2>4, <2>5 DEF OwnInv
<1>10. CancelInv'
  BY <1>0, <1>2, <1>3, <1>4 DEF CancelInv, ActiveTimer
<1>11. LostInv'
  BY <1>0, <1>4 DEF LostInv, TimerNotLost
<1>12. TimeInv'
  <2>t. now \in Int /\ timerfd \in Int /\ \A e \in timers_ : e[1] \in Int
    BY <1>0, Members DEF TypeOK
  <2>1. CASE EarliestChanged(x)
    <3>1. timerfd' = IF x - now < 1 THEN 1 ELSE x - now
      BY <1>3, <2>1 DEF HowMuchTimeFromNow
    <3>2. \A e \in timers_' : e[1] \in Int /\ x <= e[1]
      BY <1>2, <1>5, <2>t, <2>1 DEF EarliestChanged
    <3> QED
      BY <1>0, <1>2, <1>4, <2>t, <3>1, <3>2
      DEF TimeInv, Armed, Prompt, HowMuchTimeFromNow
  <2>2. CASE ~EarliestChanged(x)
    <3>1. timerfd' = timerfd
      BY <1>3, <2>2
    <3>2. PICK f \in timers_ : f[1] <= x
      BY <1>2, <2>t, <2>2 DEF EarliestChanged
    <3> QED
      BY <1>0, <1>2, <1>4, <1>5, <2>t, <3>1, <3>2
      DEF TimeInv, Armed, Prompt, HowMuchTimeFromNow
  <2> QED BY <2>1, <2>2
<1> QED
  BY <1>6, <1>7, <1>8, <1>9, <1>10, <1>11, <1>12 DEF IInv

\* cancelInLoop, called directly or as a functor: the timers that wait in
\* inbox are the same before and after.
LEMMA CancelInLoopIInv ==
  ASSUME IInv, NEW id \in Addrs \X Nat, CancelInLoop(id),
         UNCHANGED <<heap, numCreated, callingExpiredTimers_, expired, toRun,
                     batchNow, timerfd, active, pc, now, adding, ids, ran,
                     stepped>>,
         inbox' \in Seq(Functors),
         \A i \in InboxAdds' : \E j \in InboxAdds :
            inbox'[i].addr = inbox[j].addr,
         \A j \in InboxAdds : \E i \in InboxAdds' :
            inbox'[i].addr = inbox[j].addr,
         \A i, j \in InboxAdds' : inbox'[i].addr = inbox'[j].addr => i = j
  PROVE  IInv'
<1> DEFINE a == id[1]
<1>0. TypeOK /\ SetsInv /\ BatchInv /\ OwnInv /\ CancelInv /\ LostInv
      /\ TimeInv
  BY DEF IInv
<1>1. a \in Addrs /\ id[2] \in Nat /\ id = <<a, id[2]>>
  OBVIOUS
<1>2. requested' = requested \union {id[2]}
  BY DEF CancelInLoop
<1>3. \A i \in InboxAdds' : \E j \in InboxAdds :
         inbox'[i].addr = inbox[j].addr
  OBVIOUS
<1>4. \A j \in InboxAdds : \E i \in InboxAdds' :
         inbox'[i].addr = inbox[j].addr
  OBVIOUS
<1>5. \A b \in Addrs : heap[b].seq \in Nat
  BY <1>0, Members
<1>6. BatchInv'
  BY <1>0 DEF BatchInv
<1>7. CASE id \in activeTimers_
  <2>1. /\ timers_' = timers_ \ {Entry(heap, a)}
        /\ activeTimers_' = activeTimers_ \ {id}
        /\ live' = live \ {a}
        /\ cancelled' = cancelled \union {id}
        /\ cancelingTimers_' = cancelingTimers_
    BY <1>7 DEF CancelInLoop
  <2>2. id = ActiveTimer(heap, a) /\ Entry(heap, a) \in timers_
    BY <1>0, <1>7 DEF SetsInv
  <2>3. id[2] = heap[a].seq
    BY <2>2 DEF ActiveTimer
  <2>4. \A e \in timers_ : e \in timers_' <=> e[2] # a
    BY <1>0, <2>1, <2>2 DEF SetsInv, Entry
  <2>5. \A y \in activeTimers_ : y \in activeTimers_' <=> y[1] # a
    BY <1>0, <2>1, <2>2 DEF SetsInv, ActiveTimer
  <2>6. /\ \A e \in expired : e[2] # a
        /\ \A i \in InboxAdds : inbox[i].addr # a
    <3>1. Entry(heap, a)[2] = a
      BY DEF Entry
    <3> QED BY <1>0, <2>2, <3>1 DEF OwnInv
  <2>7. TypeOK'
    <3>1. /\ live' \subseteq Addrs
          /\ timers_' \subseteq Int \X Addrs
          /\ activeTimers_' \subseteq Addrs \X Nat
          /\ cancelingTimers_' \subseteq Addrs \X Nat
          /\ requested' \subseteq Nat
          /\ cancelled' \subseteq Addrs \X Nat
      BY <1>0, <1>1, <1>2, <2>1 DEF TypeOK
    <3>2. inbox' \in Seq([op : {"add", "cancel"}, addr : Addrs, seq : Nat])
      BY DEF Functors
    <3> QED BY <1>0, <3>1, <3>2 DEF TypeOK
  <2>8. SetsInv'
    <3>1. \A e \in timers_' : ActiveTimer(heap, e[2]) \in activeTimers_'
      <4>1. \A e \in timers_ : ActiveTimer(heap, e[2])[1] = e[2]
        BY DEF ActiveTimer
      <4> QED BY <1>0, <2>1, <2>4, <2>5, <4>1 DEF SetsInv
    <3>2. \A y \in activeTimers_' : Entry(heap, y[1]) \in timers_'
      <4>1. \A y \in activeTimers_ : Entry(heap, y[1])[2] = y[1]
        BY DEF Entry
      <4> QED BY <1>0, <2>1, <2>4, <2>5, <4>1 DEF SetsInv
    <3> QED BY <1>0, <2>1, <3>1, <3>2 DEF SetsInv, Entry, ActiveTimer
  <2>9. OwnInv'
    BY <1>0, <1>3, <1>4, <2>1, <2>4, <2>6 DEF OwnInv
  <2>10. CancelInv'
    <3>1. \A i \in InboxAdds :
             /\ ActiveTimer(heap, inbox[i].addr) # id
             /\ ActiveTimer(heap, inbox[i].addr) \notin cancelled'
      BY <1>0, <2>1, <2>6 DEF CancelInv, ActiveTimer
    <3>2. \A i \in InboxAdds' :
             ActiveTimer(heap, inbox'[i].addr) \notin cancelled'
      BY <1>3, <3>1
    <3>3. \A e \in expired : ActiveTimer(heap, e[2]) # id
      BY <2>6 DEF ActiveTimer
    <3>4. heap[a].seq <= numCreated
      BY <1>0, <1>1 DEF CancelInv
    <3>5. \A c \in cancelled' : c[2] <= numCreated
      BY <1>0, <2>1, <2>3, <3>4 DEF CancelInv
    <3>6. \A y \in activeTimers_' : y \notin cancelled'
      BY <1>0, <2>1 DEF CancelInv
    <3> QED
      BY <1>0, <2>1, <3>2, <3>3, <3>5, <3>6 DEF CancelInv, ActiveTimer
  <2>11. LostInv'
    BY <1>0, <1>2, <2>1, <2>3 DEF LostInv, TimerNotLost
  <2>12. TimeInv'
    BY <1>0, <2>1 DEF TimeInv, Armed, Prompt, HowMuchTimeFromNow
  <2> QED
    BY <1>6, <2>7, <2>8, <2>9, <2>10, <2>11, <2>12 DEF IInv
<1>8. CASE id \notin activeTimers_
  <2>1. timers_' = timers_ /\ activeTimers_' = activeTimers_ /\ live' = live
    BY <1>8 DEF CancelInLoop
  <2>2. /\ cancelingTimers_ \subseteq cancelingTimers_'
        /\ cancelingTimers_' \subseteq cancelingTimers_ \union {id}
        /\ cancelled \subseteq cancelled'
        /\ \A c \in cancelled' \ cancelled :
              /\ c = id /\ id \in cancelingTimers_'
              /\ \E e \in expired : id = ActiveTimer(heap, e[2])
    BY <1>8 DEF CancelInLoop
  <2>3. TypeOK'
    <3>1. /\ cancelingTimers_' \subseteq Addrs \X Nat
          /\ requested' \subseteq Nat
          /\ cancelled' \subseteq Addrs \X Nat
      BY <1>0, <1>1, <1>2, <2>2 DEF TypeOK
    <3>2. inbox' \in Seq([op : {"add", "cancel"}, addr : Addrs, seq : Nat])
      BY DEF Functors
    <3> QED BY <1>0, <2>1, <3>1, <3>2 DEF TypeOK
  <2>4. SetsInv'
    BY <1>0, <2>1 DEF SetsInv, Entry, ActiveTimer
  <2>5. OwnInv'
    BY <1>0, <1>3, <1>4, <2>1 DEF OwnInv
  <2>6. CancelInv'
    <3>1. \A e \in expired, i \in InboxAdds :
             ActiveTimer(heap, e[2]) # ActiveTimer(heap, inbox[i].addr)
      BY <1>0 DEF OwnInv, ActiveTimer
    <3>2. \A i \in InboxAdds :
             ActiveTimer(heap, inbox[i].addr) \notin cancelled'
      BY <1>0, <2>2, <3>1 DEF CancelInv
    <3>3. \A i \in InboxAdds' :
             ActiveTimer(heap, inbox'[i].addr) \notin cancelled'
      BY <1>3, <3>2
    <3>4. \A e \in expired : ActiveTimer(heap, e[2])[2] <= numCreated
      BY <1>0, Members DEF CancelInv, ActiveTimer
    <3>5. \A c \in cancelled' : c[2] <= numCreated
      BY <1>0, <2>2, <3>4 DEF CancelInv
    <3>6. \A y \in activeTimers_' : y \notin cancelled'
      BY <1>0, <1>8, <2>1, <2>2 DEF CancelInv
    <3>7. \A e \in expired : ActiveTimer(heap, e[2]) \in cancelled'
             => ActiveTimer(heap, e[2]) \in cancelingTimers_'
      BY <1>0, <2>2 DEF CancelInv
    <3> QED
      BY <1>0, <3>3, <3>5, <3>6, <3>7 DEF CancelInv, ActiveTimer
  <2>7. LostInv'
    BY <1>0, <1>2, <2>1, <2>2 DEF LostInv, TimerNotLost
  <2>8. TimeInv'
    BY <1>0, <2>1 DEF TimeInv, Armed, Prompt, HowMuchTimeFromNow
  <2> QED
    BY <1>6, <2>3, <2>4, <2>5, <2>6, <2>7, <2>8 DEF IInv
<1> QED BY <1>7, <1>8

\* cancel in the loop thread.
LEMMA LoopCancelIInv ==
  ASSUME IInv, NEW id \in ids, LoopCancel(id)
  PROVE  IInv'
<1>1. id \in Addrs \X Nat /\ inbox \in Seq(Functors)
  BY DEF IInv, TypeOK, Functors
<1>2. inbox' = inbox /\ InboxAdds' = InboxAdds
  BY DEF LoopCancel, InboxAdds
<1>3. \A i, j \in InboxAdds : inbox[i].addr = inbox[j].addr => i = j
  BY DEF IInv, OwnInv
<1>4. CancelInLoop(id)
  BY DEF LoopCancel
<1>5. UNCHANGED <<heap, numCreated, callingExpiredTimers_, expired, toRun,
                  batchNow, timerfd, active, pc, now, adding, ids, ran,
                  stepped>>
  BY DEF LoopCancel
<1> QED BY <1>1, <1>2, <1>3, <1>4, <1>5, CancelInLoopIInv

\* The oldest functor is a cancelInLoop, and the loop runs it.
LEMMA RunCancelIInv ==
  ASSUME IInv, RunCancelFunctor
  PROVE  IInv'
<1> DEFINE id == <<Head(inbox).addr, Head(inbox).seq>>
<1>1. inbox # <<>> /\ inbox' = Tail(inbox) /\ Head(inbox).op = "cancel"
  BY DEF RunCancelFunctor
<1>2. TypeOK /\ \A i, j \in InboxAdds : inbox[i].addr = inbox[j].addr => i = j
  BY DEF IInv, OwnInv
<1>3. /\ \A i \in InboxAdds' : i + 1 \in InboxAdds
      /\ \A i \in InboxAdds' : inbox'[i] = inbox[i + 1]
      /\ \A i \in InboxAdds : i # 1 => /\ i - 1 \in InboxAdds'
                                       /\ inbox'[i - 1] = inbox[i]
      /\ 1 \notin InboxAdds
      /\ InboxAdds \subseteq Int /\ InboxAdds' \subseteq Int
      /\ Head(inbox) \in Functors
  BY <1>1, <1>2, InboxTail
<1>4. id \in Addrs \X Nat
  BY <1>3 DEF Functors
<1>5. inbox' \in Seq(Functors)
  <2>1. inbox \in Seq(Functors)
    BY <1>2 DEF TypeOK, Functors
  <2> QED BY <1>1, <2>1
<1>6. /\ \A i \in InboxAdds' : \E j \in InboxAdds :
            inbox'[i].addr = inbox[j].addr
      /\ \A j \in InboxAdds : \E i \in InboxAdds' :
            inbox'[i].addr = inbox[j].addr
  BY <1>3
<1>7. \A i, j \in InboxAdds' : inbox'[i].addr = inbox'[j].addr => i = j
  BY <1>2, <1>3
<1>8. CancelInLoop(id)
  BY DEF RunCancelFunctor
<1>9. UNCHANGED <<heap, numCreated, callingExpiredTimers_, expired, toRun,
                  batchNow, timerfd, active, pc, now, adding, ids, ran,
                  stepped>>
  BY DEF RunCancelFunctor
<1> HIDE DEF id
<1> QED BY <1>4, <1>5, <1>6, <1>7, <1>8, <1>9, CancelInLoopIInv

\* A step that leaves the sets, the batch and the timers alone, and changes
\* neither the clock nor the timerfd, preserves all but TypeOK.
LEMMA NothingIInv ==
  ASSUME IInv, TypeOK',
         UNCHANGED <<live, heap, numCreated, timers_, activeTimers_,
                     cancelingTimers_, callingExpiredTimers_, expired, toRun,
                     batchNow, timerfd, pc, now, requested, cancelled, ran,
                     stepped>>,
         InboxAdds' = InboxAdds,
         \A i \in InboxAdds : inbox'[i] = inbox[i]
  PROVE  IInv'
<1>0. TypeOK /\ SetsInv /\ BatchInv /\ OwnInv /\ CancelInv /\ LostInv
      /\ TimeInv
  BY DEF IInv
<1>1. SetsInv' /\ BatchInv'
  BY <1>0 DEF SetsInv, Entry, ActiveTimer, BatchInv
<1>2. OwnInv'
  BY <1>0 DEF OwnInv
<1>3. CancelInv'
  BY <1>0 DEF CancelInv, ActiveTimer
<1>4. LostInv'
  BY <1>0 DEF LostInv, TimerNotLost
<1>5. TimeInv'
  BY <1>0 DEF TimeInv, Armed, Prompt, HowMuchTimeFromNow
<1> QED BY <1>1, <1>2, <1>3, <1>4, <1>5 DEF IInv

\* addTimer returns a TimerId that may be stale.
LEMMA ReturnTimerIdIInv ==
  ASSUME IInv, NEW t \in Threads, ReturnTimerId(t)
  PROVE  IInv'
<1> DEFINE a == adding[t]
<1>0. TypeOK
  BY DEF IInv
<1>1. a \in Addrs /\ heap[a].seq \in Nat
  <2>1. a \in Addrs \union {NoAddr} /\ a # NoAddr
    BY <1>0 DEF TypeOK, ReturnTimerId
  <2> QED BY <1>0, <2>1, Members
<1>2. PICK s \in {heap[a].seq} \union (IF a \in live THEN {} ELSE {0}) :
         ids' = ids \union {<<a, s>>}
  BY DEF ReturnTimerId
<1>3. s \in Nat
  BY <1>1, <1>2
<1>4. ids' \subseteq Addrs \X Nat
  BY <1>0, <1>1, <1>2, <1>3 DEF TypeOK
<1>5. adding' \in [Threads -> Addrs \union {NoAddr}]
  BY <1>0 DEF TypeOK, ReturnTimerId
<1>6. TypeOK'
  BY <1>0, <1>4, <1>5 DEF TypeOK, ReturnTimerId
<1>7. InboxAdds' = InboxAdds /\ inbox' = inbox
  BY DEF ReturnTimerId, InboxAdds
<1> QED BY <1>6, <1>7, NothingIInv DEF ReturnTimerId

\* cancel in another thread: the functor waits in inbox.
LEMMA CancelIInv ==
  ASSUME IInv, NEW t \in Threads, NEW id \in ids, Cancel(t, id)
  PROVE  IInv'
<1> DEFINE r == [op |-> "cancel", addr |-> id[1], seq |-> id[2]]
<1>0. TypeOK
  BY DEF IInv
<1>1. r \in Functors /\ r.op = "cancel"
  BY <1>0 DEF TypeOK, Functors
<1>2. inbox' = Append(inbox, r)
  BY DEF Cancel
<1>3. InboxAdds' = InboxAdds /\ \A i \in InboxAdds : inbox'[i] = inbox[i]
  <2> HIDE DEF r
  <2>1. /\ InboxAdds' = InboxAdds \union
               (IF r.op = "add" THEN {Len(inbox) + 1} ELSE {})
        /\ \A i \in InboxAdds : inbox'[i] = inbox[i]
    BY <1>0, <1>1, <1>2, InboxAppend
  <2> QED BY <1>1, <2>1
<1>4. inbox' \in Seq([op : {"add", "cancel"}, addr : Addrs, seq : Nat])
  BY <1>0, <1>1, <1>2, AppendProperties DEF TypeOK, Functors
<1>5. TypeOK'
  BY <1>0, <1>4 DEF TypeOK, Cancel
<1> QED BY <1>3, <1>5, NothingIInv DEF Cancel

\* poll reports the timerfd.
LEMMA PollTimerfdIInv ==
  ASSUME IInv, PollTimerfd
  PROVE  IInv'
<1>1. TypeOK'
  BY DEF IInv, TypeOK, PollTimerfd
<1>2. InboxAdds' = InboxAdds /\ inbox' = inbox
  BY DEF PollTimerfd, InboxAdds
<1> QED BY <1>1, <1>2, NothingIInv DEF PollTimerfd

\* A stuttering step.
LEMMA StutterIInv ==
  ASSUME IInv, UNCHANGED vars
  PROVE  IInv'
<1>1. TypeOK'
  BY DEF IInv, TypeOK, vars
<1>2. InboxAdds' = InboxAdds /\ inbox' = inbox
  BY DEF vars, InboxAdds
<1> QED BY <1>1, <1>2, NothingIInv DEF vars

\* handleRead takes the expired timers out of the queue.
LEMMA HandleReadIInv ==
  ASSUME IInv, HandleRead
  PROVE  IInv'
<1>0. TypeOK /\ SetsInv /\ BatchInv /\ OwnInv /\ CancelInv /\ LostInv
      /\ TimeInv
  BY DEF IInv
<1>1. expired = {} /\ pc = "idle"
  BY <1>0 DEF HandleRead, BatchInv
<1>2. /\ timers_' = timers_ \ Due /\ expired' = Due /\ toRun' = Due
      /\ activeTimers_' =
            activeTimers_ \ {ActiveTimer(heap, e[2]) : e \in Due}
      /\ Due \subseteq timers_
      /\ callingExpiredTimers_' = TRUE /\ pc' = "batch"
      /\ cancelingTimers_' = {} /\ batchNow' = now
      /\ timerfd' = IF timerfd = 0 THEN -1 ELSE timerfd
  BY DEF HandleRead, GetExpired, Due
<1>3. /\ live' = live /\ heap' = heap /\ numCreated' = numCreated
      /\ now' = now /\ inbox' = inbox /\ InboxAdds' = InboxAdds
      /\ requested' = requested /\ cancelled' = cancelled /\ ran' = ran
      /\ stepped' = stepped
  BY DEF HandleRead, InboxAdds
<1>4. \A e, f \in timers_ : e[2] = f[2] => e = f
  BY <1>0 DEF SetsInv, Entry
<1>5. TypeOK'
  <2>1. /\ timers_' \subseteq Int \X Addrs
        /\ activeTimers_' \subseteq Addrs \X Nat
        /\ expired' \subseteq Int \X Addrs /\ toRun' \subseteq expired'
        /\ cancelingTimers_' \subseteq Addrs \X Nat
    BY <1>0, <1>2 DEF TypeOK
  <2>2. timerfd' \in Int /\ batchNow' \in Int
    BY <1>0, <1>2 DEF TypeOK
  <2>3. /\ callingExpiredTimers_' \in BOOLEAN /\ active' \in BOOLEAN
        /\ pc' \in {"idle", "batch", "callback"}
    BY Zenon DEF HandleRead
  <2> QED BY <1>0, <1>3, <2>1, <2>2, <2>3 DEF TypeOK, HandleRead
<1>6. SetsInv'
  <2>1. \A e \in timers_' : ActiveTimer(heap, e[2]) \in activeTimers_'
    <3>1. \A e, f \in timers_ :
             ActiveTimer(heap, e[2]) = ActiveTimer(heap, f[2]) => e = f
      BY <1>4 DEF ActiveTimer
    <3> QED BY <1>0, <1>2, <3>1 DEF SetsInv
  <2>2. \A y \in activeTimers_' : Entry(heap, y[1]) \in timers_'
    <3> SUFFICES ASSUME NEW y \in activeTimers_'
                 PROVE  Entry(heap, y[1]) \in timers_'
      OBVIOUS
    <3>1. /\ y \in activeTimers_ /\ y = ActiveTimer(heap, y[1])
          /\ Entry(heap, y[1]) \in timers_
      BY <1>0, <1>2 DEF SetsInv
    <3>2. Entry(heap, y[1])[2] = y[1]
      BY DEF Entry
    <3> QED BY <1>2, <3>1, <3>2
  <2> QED BY <1>0, <1>2, <1>3, <2>1, <2>2 DEF SetsInv, Entry, ActiveTimer
<1>7. BatchInv'
  BY <1>2 DEF BatchInv
<1>8. OwnInv'
  BY <1>0, <1>1, <1>2, <1>3, <1>4 DEF OwnInv
<1>9. CancelInv'
  <2>1. \A e \in Due : ActiveTimer(heap, e[2]) \notin cancelled
    BY <1>0, <1>2 DEF SetsInv, CancelInv
  <2> QED BY <1>0, <1>2, <1>3, <2>1 DEF CancelInv, ActiveTimer
<1>10. LostInv'
  BY <1>0, <1>2, <1>3 DEF LostInv, TimerNotLost
<1>11. TimeInv'
  <2>1. \A e \in timers_' : ~(e[1] <= 0)
    BY <1>0, <1>2, Members DEF Due, TypeOK, TimeInv
  <2> QED BY <1>0, <1>2, <1>3, <2>1 DEF TimeInv, Armed, Prompt
<1> QED
  BY <1>5, <1>6, <1>7, <1>8, <1>9, <1>10, <1>11 DEF IInv

\* A timer of the batch runs.
LEMMA RunTimerIInv ==
  ASSUME IInv, NEW e \in toRun, RunTimer(e)
  PROVE  IInv'
<1>0. TypeOK /\ SetsInv /\ BatchInv /\ OwnInv /\ CancelInv /\ LostInv
      /\ TimeInv
  BY DEF IInv
<1>1. /\ live' = live /\ heap' = heap /\ numCreated' = numCreated
      /\ timers_' = timers_ /\ activeTimers_' = activeTimers_
      /\ cancelingTimers_' = cancelingTimers_ /\ expired' = expired
      /\ callingExpiredTimers_' = callingExpiredTimers_
      /\ batchNow' = batchNow /\ timerfd' = timerfd /\ now' = now
      /\ inbox' = inbox /\ InboxAdds' = InboxAdds
      /\ requested' = requested /\ cancelled' = cancelled
      /\ stepped' = stepped
  BY DEF RunTimer, InboxAdds
<1>2. /\ pc = "batch" /\ pc' = "callback" /\ toRun' = toRun \ {e}
      /\ ran' = ran \union {heap[e[2]].seq}
  BY DEF RunTimer
<1>3. TypeOK'
  <2>1. heap[e[2]].seq \in Nat
    BY <1>0, Members DEF TypeOK
  <2>2. ran' \subseteq Nat /\ toRun' \subseteq expired'
    BY <1>0, <1>1, <1>2, <2>1 DEF TypeOK
  <2>3. pc' \in {"idle", "batch", "callback"}
    BY <1>2
  <2> QED BY <1>0, <1>1, <2>2, <2>3 DEF TypeOK, RunTimer
<1>4. SetsInv' /\ BatchInv'
  BY <1>0, <1>1, <1>2 DEF SetsInv, Entry, ActiveTimer, BatchInv
<1>5. OwnInv' /\ CancelInv'
  BY <1>0, <1>1 DEF OwnInv, CancelInv, ActiveTimer
<1>6. LostInv'
  BY <1>0, <1>1, <1>2 DEF LostInv, TimerNotLost
<1>7. TimeInv'
  BY <1>0, <1>1, <1>2 DEF TimeInv, Armed, Prompt
<1> QED BY <1>3, <1>4, <1>5, <1>6, <1>7 DEF IInv

\* A callback returns to handleRead.
LEMMA EndCallbackIInv ==
  ASSUME IInv, EndCallback
  PROVE  IInv'
<1>0. TypeOK /\ SetsInv /\ BatchInv /\ OwnInv /\ CancelInv /\ LostInv
      /\ TimeInv
  BY DEF IInv
<1>1. pc = "callback" /\ pc' = "batch" /\ InboxAdds' = InboxAdds
  BY DEF EndCallback, InboxAdds
<1>2. TypeOK'
  BY <1>0 DEF TypeOK, EndCallback
<1>3. SetsInv' /\ BatchInv'
  BY <1>0, <1>1 DEF SetsInv, Entry, ActiveTimer, BatchInv, EndCallback
<1>4. OwnInv' /\ CancelInv'
  BY <1>0, <1>1 DEF OwnInv, CancelInv, ActiveTimer, EndCallback
<1>5. LostInv'
  BY <1>0 DEF LostInv, TimerNotLost, EndCallback
<1>6. TimeInv'
  BY <1>0, <1>1 DEF TimeInv, Armed, Prompt, EndCallback
<1> QED BY <1>2, <1>3, <1>4, <1>5, <1>6 DEF IInv

\* reset() restarts or deletes the timers of the batch and re-arms the
\* timerfd.
LEMMA ResetIInv ==
  ASSUME IInv, Reset
  PROVE  IInv'
<1>0. TypeOK /\ SetsInv /\ BatchInv /\ OwnInv /\ CancelInv /\ LostInv
      /\ TimeInv
  BY DEF IInv
<1>1. /\ pc = "batch" /\ pc' = "idle" /\ toRun = {} /\ toRun' = {}
      /\ callingExpiredTimers_' = FALSE /\ expired' = {}
      /\ timers_' = timers_ \union {Entry(heap', b) : b \in Restarted}
      /\ activeTimers_' = activeTimers_
                          \union {ActiveTimer(heap, b) : b \in Restarted}
      /\ live' = live \ Deleted
  BY DEF Reset
<1>2. /\ numCreated' = numCreated /\ cancelingTimers_' = cancelingTimers_
      /\ batchNow' = batchNow /\ now' = now /\ inbox' = inbox
      /\ InboxAdds' = InboxAdds /\ requested' = requested
      /\ cancelled' = cancelled /\ ran' = ran /\ stepped' = stepped
  BY DEF Reset, InboxAdds
<1>3. \A b \in Restarted :
         /\ b \in Addrs /\ \E e \in expired : e[2] = b
         /\ Repeats(heap[b].interval)
         /\ ActiveTimer(heap, b) \notin cancelingTimers_
  BY <1>0, Members DEF Restarted
<1>4. \A e \in expired :
         e[2] \in Restarted \/ /\ e[2] \in Deleted
                               /\ e[2] \notin Restarted
                               /\ \/ ~Repeats(heap[e[2]].interval)
                                  \/ ActiveTimer(heap, e[2])
                                        \in cancelingTimers_
  BY DEF Restarted, Deleted
<1>5. \A b \in Deleted : b \notin Restarted /\ \E e \in expired : e[2] = b
  BY DEF Deleted
<1>6. heap' \in [Addrs -> [seq : Nat, exp : Int, interval : Int]]
  <2>1. \A b \in Addrs : /\ heap[b] \in [seq : Nat, exp : Int, interval : Int]
                         /\ batchNow + heap[b].interval \in Int
    BY <1>0 DEF TypeOK
  <2>2. \A b \in Addrs :
           Restart(heap[b]) \in [seq : Nat, exp : Int, interval : Int]
    BY <2>1 DEF Restart
  <2> QED BY <2>1, <2>2 DEF Reset
<1>7. \A b \in Addrs : /\ heap'[b].seq = heap[b].seq
                       /\ heap'[b].interval = heap[b].interval
                       /\ b \notin Restarted => heap'[b] = heap[b]
                       /\ b \in Restarted =>
                             heap'[b].exp = batchNow + heap[b].interval
  <2> SUFFICES ASSUME NEW b \in Addrs
               PROVE  /\ heap'[b].seq = heap[b].seq
                      /\ heap'[b].interval = heap[b].interval
                      /\ b \notin Restarted => heap'[b] = heap[b]
                      /\ b \in Restarted =>
                            heap'[b].exp = batchNow + heap[b].interval
    OBVIOUS
  <2>1. heap'[b] = IF b \in Restarted THEN Restart(heap[b]) ELSE heap[b]
    BY DEF Reset
  <2>2. heap[b] \in [seq : Nat, exp : Int, interval : Int]
    BY <1>0 DEF TypeOK
  <2> QED BY <2>1, <2>2 DEF Restart
<1>8. \A b \in Addrs : ActiveTimer(heap', b) = ActiveTimer(heap, b)
  BY <1>7 DEF ActiveTimer
<1>9. /\ \A e \in timers_ : e[2] \in Addrs /\ heap'[e[2]] = heap[e[2]]
      /\ \A y \in activeTimers_ : y[1] \in Addrs /\ heap'[y[1]] = heap[y[1]]
  <2>1. \A e \in timers_ : e[2] \in Addrs /\ e[2] \notin Restarted
    BY <1>0, <1>3, Members DEF OwnInv
  <2>2. \A y \in activeTimers_ : Entry(heap, y[1]) \in timers_
    BY <1>0 DEF SetsInv
  <2>3. \A y \in activeTimers_ : Entry(heap, y[1])[2] = y[1]
    BY DEF Entry
  <2> QED BY <1>7, <2>1, <2>2, <2>3
<1>10. \A e \in timers_' :
          \/ e \in timers_
          \/ \E b \in Restarted : e = Entry(heap', b) /\ e[2] = b
  BY <1>1 DEF Entry
<1>11. \A y \in activeTimers_' :
          \/ y \in activeTimers_
          \/ \E b \in Restarted : y = ActiveTimer(heap, b) /\ y[1] = b
  BY <1>1 DEF ActiveTimer
<1>12. \A b \in Restarted : /\ Entry(heap', b) \in timers_'
                            /\ Entry(heap', b)[2] = b
                            /\ ActiveTimer(heap, b) \in activeTimers_'
  BY <1>1 DEF Entry
<1>13. /\ timers_' \subseteq Int \X Addrs
       /\ activeTimers_' \subseteq Addrs \X Nat
  <2>1. \A b \in Restarted : /\ Entry(heap', b) \in Int \X Addrs
                             /\ ActiveTimer(heap, b) \in Addrs \X Nat
    BY <1>0, <1>3, <1>6, Members DEF Entry, ActiveTimer
  <2> QED BY <1>0, <1>1, <2>1 DEF TypeOK
<1>14. timerfd' \in Int
  <2>1. CASE timers_' = {} /\ timerfd' = timerfd
    BY <1>0, <2>1 DEF TypeOK
  <2>2. CASE \E e \in First(timers_') :
                timerfd' = IF e[1] > 0 THEN HowMuchTimeFromNow(e[1])
                                       ELSE timerfd
    <3>1. \A e \in First(timers_') : e[1] \in Int
      BY <1>13 DEF First
    <3> QED BY <1>0, <2>2, <3>1 DEF TypeOK, HowMuchTimeFromNow
  <2> QED BY <2>1, <2>2 DEF Reset, Rearm
<1>15. TypeOK'
  <2>1. /\ live' \subseteq Addrs
        /\ expired' \subseteq Int \X Addrs /\ toRun' \subseteq expired'
    BY <1>0, <1>1 DEF TypeOK
  <2>2. /\ callingExpiredTimers_' \in BOOLEAN
        /\ pc' \in {"idle", "batch", "callback"}
    BY <1>1, Zenon
  <2> QED
    BY <1>0, <1>2, <1>6, <1>13, <1>14, <2>1, <2>2 DEF TypeOK, Reset
<1>16. SetsInv'
  <2>1. \A e \in timers_ : /\ e = Entry(heap', e[2])
                           /\ ActiveTimer(heap', e[2]) \in activeTimers_'
    BY <1>0, <1>1, <1>8, <1>9 DEF SetsInv, Entry
  <2>2. \A y \in activeTimers_ : /\ y = ActiveTimer(heap', y[1])
                                 /\ Entry(heap', y[1]) \in timers_'
    BY <1>0, <1>1, <1>8, <1>9 DEF SetsInv, Entry
  <2>3. \A e \in timers_' : /\ e = Entry(heap', e[2])
                            /\ ActiveTimer(heap', e[2]) \in activeTimers_'
    BY <1>3, <1>8, <1>10, <1>12, <2>1
  <2>4. \A y \in activeTimers_' : /\ y = ActiveTimer(heap', y[1])
                                  /\ Entry(heap', y[1]) \in timers_'
    BY <1>3, <1>8, <1>11, <1>12, <2>2
  <2> QED BY <2>3, <2>4 DEF SetsInv
<1>17. BatchInv'
  BY <1>1 DEF BatchInv
<1>18. OwnInv'
  <2>1. \A e \in timers_' : e[2] \in live'
    BY <1>0, <1>1, <1>3, <1>5, <1>10 DEF OwnInv
  <2>2. \A i \in InboxAdds : inbox[i].addr \in live'
    BY <1>0, <1>1, <1>5 DEF OwnInv
  <2>3. \A b \in live' : \/ \E e \in timers_' : e[2] = b
                         \/ \E i \in InboxAdds : inbox[i].addr = b
    <3> SUFFICES ASSUME NEW b \in live'
                 PROVE  \/ \E e \in timers_' : e[2] = b
                        \/ \E i \in InboxAdds : inbox[i].addr = b
      OBVIOUS
    <3>1. b \in live /\ b \notin Deleted
      BY <1>1
    <3>2. CASE b \in Restarted
      BY <1>12, <3>2
    <3>3. CASE b \notin Restarted
      BY <1>0, <1>1, <1>4, <3>1, <3>3 DEF OwnInv
    <3> QED BY <3>2, <3>3
  <2>4. \A e \in timers_', i \in InboxAdds : e[2] # inbox[i].addr
    BY <1>0, <1>3, <1>10 DEF OwnInv
  <2> QED BY <1>0, <1>1, <1>2, <2>1, <2>2, <2>3, <2>4 DEF OwnInv
<1>19. CancelInv'
  <2>1. \A b \in Restarted : ActiveTimer(heap, b) \notin cancelled
    BY <1>0, <1>3 DEF CancelInv
  <2>2. \A y \in activeTimers_' : y \notin cancelled
    BY <1>0, <1>11, <2>1 DEF CancelInv
  <2>3. \A i \in InboxAdds : ActiveTimer(heap', inbox[i].addr) \notin cancelled
    BY <1>0, <1>8, Members DEF CancelInv
  <2>4. \A b \in Addrs : heap'[b].seq <= numCreated
    BY <1>0, <1>7 DEF CancelInv
  <2> QED BY <1>0, <1>1, <1>2, <2>2, <2>3, <2>4 DEF CancelInv
<1>20. LostInv'
  <2>1. \A e \in expired : heap[e[2]].seq \in ran
    BY <1>0, <1>1 DEF LostInv
  <2>2. \A b \in Addrs : ActiveTimer(heap, b) \in cancelingTimers_
                            => heap[b].seq \in requested
    <3>1. \A b \in Addrs : ActiveTimer(heap, b)[2] = heap[b].seq
      BY DEF ActiveTimer
    <3> QED BY <1>0, <3>1 DEF LostInv
  <2>3. \A b \in Addrs : b \in Deleted =>
           \/ heap[b].seq \in requested
           \/ heap[b].seq \in ran /\ ~Repeats(heap[b].interval)
    BY <1>4, <1>5, <2>1, <2>2
  <2>4. \A b \in Addrs : (heap[b].seq > 0 /\ b \notin live') =>
           \/ heap[b].seq \in requested
           \/ heap[b].seq \in ran /\ ~Repeats(heap[b].interval)
    BY <1>0, <1>1, <2>3 DEF LostInv, TimerNotLost
  <2>5. TimerNotLost'
    BY <1>2, <1>7, <2>4 DEF TimerNotLost
  <2> QED BY <1>0, <1>1, <1>2, <2>5 DEF LostInv
<1>21. TimeInv'
  <2>1. \A e \in timers_' : e[1] \in Int
    BY <1>13
  <2>2. now \in Int /\ timerfd \in Int /\ now' = now /\ now >= 1
    BY <1>0, <1>2 DEF TypeOK, TimeInv
  <2>3. \A b \in Restarted : Entry(heap', b)[1] >= 1
    <3>1. batchNow >= 1 /\ batchNow \in Int
      BY <1>0, <1>1 DEF TimeInv, TypeOK
    <3>2. \A b \in Restarted : heap[b].interval \in Int /\ heap[b].interval >= 0
      BY <1>0, <1>3, Members DEF Repeats
    <3>3. \A b \in Restarted : heap'[b].exp >= 1
      BY <1>3, <1>7, <3>1, <3>2
    <3> QED BY <3>3 DEF Entry
  <2>4. \A e \in timers_' : e[1] <= 0 => timerfd \in {0, 1}
    BY <1>0, <1>1, <1>10, <2>1, <2>3 DEF TimeInv
  <2>5. \A f \in timers_' : /\ timerfd' >= 0
                            /\ timerfd' <= HowMuchTimeFromNow(f[1])
    <3> SUFFICES ASSUME NEW f \in timers_'
                 PROVE  /\ timerfd' >= 0
                        /\ timerfd' <= HowMuchTimeFromNow(f[1])
      OBVIOUS
    <3>1. PICK e \in First(timers_') :
             timerfd' = IF e[1] > 0 THEN HowMuchTimeFromNow(e[1])
                                    ELSE timerfd
      BY DEF Reset, Rearm
    <3>2. e \in timers_' /\ e[1] <= f[1] /\ e[1] \in Int /\ f[1] \in Int
      BY <2>1, <3>1 DEF First
    <3> QED BY <2>2, <2>4, <3>1, <3>2 DEF HowMuchTimeFromNow
  <2>6. Armed' /\ Prompt'
    BY <2>2, <2>5 DEF Armed, Prompt, HowMuchTimeFromNow
  <2> QED BY <1>1, <2>2, <2>6 DEF TimeInv
<1> QED
  BY <1>15, <1>16, <1>17, <1>18, <1>19, <1>20, <1>21 DEF IInv

\* Time passes, on both clocks.
LEMMA TickIInv ==
  ASSUME IInv, Tick
  PROVE  IInv'
<1>0. TypeOK /\ SetsInv /\ BatchInv /\ OwnInv /\ CancelInv /\ LostInv
      /\ TimeInv
  BY DEF IInv
<1>1. /\ live' = live /\ heap' = heap /\ numCreated' = numCreated
      /\ timers_' = timers_ /\ activeTimers_' = activeTimers_
      /\ cancelingTimers_' = cancelingTimers_ /\ expired' = expired
      /\ toRun' = toRun /\ pc' = pc /\ batchNow' = batchNow
      /\ callingExpiredTimers_' = callingExpiredTimers_
      /\ inbox' = inbox /\ InboxAdds' = InboxAdds /\ ran' = ran
      /\ requested' = requested /\ cancelled' = cancelled
      /\ stepped' = stepped
  BY DEF Tick, InboxAdds
<1>2. /\ now' = now + 1
      /\ timerfd' = IF timerfd > 0 THEN timerfd - 1 ELSE timerfd
      /\ now \in Int /\ timerfd \in Int
  BY <1>0 DEF Tick, TypeOK
<1>3. TypeOK'
  <2>1. now' \in Int /\ timerfd' \in Int
    BY <1>2
  <2> QED BY <1>0, <1>1, <2>1 DEF TypeOK, Tick
<1>4. SetsInv' /\ BatchInv'
  BY <1>0, <1>1 DEF SetsInv, Entry, ActiveTimer, BatchInv
<1>5. OwnInv' /\ CancelInv'
  BY <1>0, <1>1 DEF OwnInv, CancelInv, ActiveTimer
<1>6. LostInv'
  BY <1>0, <1>1 DEF LostInv, TimerNotLost
<1>7. TimeInv'
  <2>1. \A e \in timers_ : e[1] \in Int
    BY <1>0, Members
  <2>2. Armed'
    BY <1>0, <1>1, <1>2 DEF TimeInv, Armed
  <2>3. Prompt'
    BY <1>0, <1>1, <1>2, <2>1 DEF TimeInv, Prompt, HowMuchTimeFromNow
  <2> QED BY <1>0, <1>1, <1>2, <2>2, <2>3 DEF TimeInv
<1> QED BY <1>3, <1>4, <1>5, <1>6, <1>7 DEF IInv

\* The wall clock is set, but never to an invalid time.
LEMMA ClockStepIInv ==
  ASSUME IInv, NEW d \in ClockSteps, ClockStep(d)
  PROVE  IInv'
<1>0. TypeOK /\ SetsInv /\ BatchInv /\ OwnInv /\ CancelInv /\ LostInv
      /\ TimeInv
  BY DEF IInv
<1>1. /\ live' = live /\ heap' = heap /\ numCreated' = numCreated
      /\ timers_' = timers_ /\ activeTimers_' = activeTimers_
      /\ cancelingTimers_' = cancelingTimers_ /\ expired' = expired
      /\ toRun' = toRun /\ pc' = pc /\ batchNow' = batchNow
      /\ callingExpiredTimers_' = callingExpiredTimers_
      /\ inbox' = inbox /\ InboxAdds' = InboxAdds /\ ran' = ran
      /\ requested' = requested /\ cancelled' = cancelled
      /\ timerfd' = timerfd /\ stepped' = TRUE
  BY DEF ClockStep, InboxAdds
<1>2. now' \in Int /\ now' >= 1
  BY <1>0, TimerAssumption DEF ClockStep, TypeOK
<1>3. TypeOK'
  <2>1. stepped' \in BOOLEAN
    BY <1>1, Zenon
  <2> QED BY <1>0, <1>1, <1>2, <2>1 DEF TypeOK, ClockStep
<1>4. SetsInv' /\ BatchInv'
  BY <1>0, <1>1 DEF SetsInv, Entry, ActiveTimer, BatchInv
<1>5. OwnInv' /\ CancelInv'
  BY <1>0, <1>1 DEF OwnInv, CancelInv, ActiveTimer
<1>6. LostInv'
  BY <1>0, <1>1 DEF LostInv, TimerNotLost
<1>7. TimeInv'
  BY <1>0, <1>1, <1>2 DEF TimeInv, Armed, Prompt
<1> QED BY <1>3, <1>4, <1>5, <1>6, <1>7 DEF IInv

\* Every step preserves the invariant.
LEMMA NextIInv == IInv /\ [Next]_vars => IInv'
<1> SUFFICES ASSUME IInv, [Next]_vars PROVE IInv'
  OBVIOUS
<1>1. ASSUME NEW a \in Addrs, NEW d \in Delays, NEW i \in Intervals,
             LoopAddTimer(a, d, i)
      PROVE  IInv'
  BY <1>1, LoopAddTimerIInv
<1>2. ASSUME NEW a \in Addrs, NEW d \in Delays, NEW i \in Intervals,
             NEW t \in Threads, AddTimer(t, a, d, i)
      PROVE  IInv'
  BY <1>2, AddTimerIInv
<1>3. ASSUME NEW id \in ids, LoopCancel(id)
      PROVE  IInv'
  BY <1>3, LoopCancelIInv
<1>4. ASSUME NEW id \in ids, NEW t \in Threads, Cancel(t, id)
      PROVE  IInv'
  BY <1>4, CancelIInv
<1>5. ASSUME NEW t \in Threads, ReturnTimerId(t)
      PROVE  IInv'
  BY <1>5, ReturnTimerIdIInv
<1>6. CASE RunAddFunctor
  BY <1>6, RunAddIInv
<1>7. CASE RunCancelFunctor
  BY <1>7, RunCancelIInv
<1>8. CASE PollTimerfd
  BY <1>8, PollTimerfdIInv
<1>9. CASE HandleRead
  BY <1>9, HandleReadIInv
<1>10. ASSUME NEW e \in toRun, RunTimer(e)
       PROVE  IInv'
  BY <1>10, RunTimerIInv
<1>11. CASE EndCallback
  BY <1>11, EndCallbackIInv
<1>12. CASE Reset
  BY <1>12, ResetIInv
<1>13. CASE Tick
  BY <1>13, TickIInv
<1>14. ASSUME NEW d \in ClockSteps, ClockStep(d)
       PROVE  IInv'
  BY <1>14, ClockStepIInv
<1>15. CASE UNCHANGED vars
  BY <1>15, StutterIInv
<1> QED
  BY <1>1, <1>2, <1>3, <1>4, <1>5, <1>6, <1>7, <1>8, <1>9, <1>10, <1>11,
     <1>12, <1>13, <1>14, <1>15
  DEF Next

\* The invariant holds in every reachable state.
LEMMA Invariance == Spec => []IInv
BY InitIInv, NextIInv, PTL DEF Spec

-----------------------------------------------------------------------------
(* What the invariant gives *)

\* Every variable of the queue keeps its type: in particular the sets hold
\* only pairs of times, addresses and sequences of the right kind.
THEOREM TypeCorrect == Spec => []TypeOK
<1>1. IInv => TypeOK
  BY DEF IInv
<1> QED BY <1>1, Invariance, PTL

\* timers_ and activeTimers_ always describe the same live timers, however
\* adds, cancels, callbacks and resets interleave: the size assertions and
\* erase counts of TimerQueue.cc cannot fail.
THEOREM SetsStayInStep == Spec => []SetsAgree
<1>1. IInv => SetsAgree
  <2> SUFFICES ASSUME IInv PROVE SetsAgree
    OBVIOUS
  <2>0. SetsInv /\ OwnInv
    BY DEF IInv
  <2>1. \A e \in timers_ : /\ ActiveTimer(heap, e[2]) \in activeTimers_
                           /\ e = Entry(heap, ActiveTimer(heap, e[2])[1])
    BY <2>0 DEF SetsInv, ActiveTimer
  <2>2. \A y \in activeTimers_ : /\ Entry(heap, y[1]) \in timers_
                                 /\ y = ActiveTimer(heap, Entry(heap, y[1])[2])
    BY <2>0 DEF SetsInv, Entry
  <2>3. timers_ = {Entry(heap, y[1]) : y \in activeTimers_}
    BY <2>1, <2>2
  <2>4. activeTimers_ = {ActiveTimer(heap, e[2]) : e \in timers_}
    BY <2>1, <2>2
  <2>5. {e[2] : e \in timers_} \subseteq live
    BY <2>0 DEF OwnInv
  <2> QED BY <2>3, <2>4, <2>5 DEF SetsAgree
<1> QED BY <1>1, Invariance, PTL

\* A Timer is deleted exactly once: until then it belongs to exactly one of
\* the queue, the batch of handleRead and a waiting addTimerInLoop.
THEOREM ExactlyOneOwner == Spec => []OneOwner
<1>1. IInv => OneOwner
  <2> SUFFICES ASSUME IInv PROVE OneOwner
    OBVIOUS
  <2>0. OwnInv
    BY DEF IInv
  <2>1. live = Queued \union Batch \union {inbox[i].addr : i \in InboxAdds}
    BY <2>0 DEF OwnInv, Queued, Batch
  <2>2. Queued \intersect Batch = {}
    BY <2>0 DEF OwnInv, Queued, Batch
  <2>3. \A i \in InboxAdds : inbox[i].addr \notin Queued \union Batch
    BY <2>0 DEF OwnInv, Queued, Batch
  <2> QED BY <2>0, <2>1, <2>2, <2>3 DEF OneOwner, OwnInv
<1> QED BY <1>1, Invariance, PTL

\* A timer that cancelInLoop met is never in activeTimers_ again, not even
\* when it was cancelled from a callback of its own batch.
THEOREM CancelIsFinal == Spec => []CancelSticks
<1>1. IInv => CancelSticks
  BY DEF IInv, CancelInv, CancelSticks
<1> QED BY <1>1, Invariance, PTL

\* No timer disappears without a cancel of its own sequence number or a
\* last run, although addresses are reused and TimerIds go stale.
THEOREM NoTimerLost == Spec => []TimerNotLost
<1>1. IInv => TimerNotLost
  BY DEF IInv, LostInv
<1> QED BY <1>1, Invariance, PTL

\* When the loop may poll and a timer is queued, the timerfd is armed or
\* readable.
THEOREM AlwaysArmed == Spec => []Armed
<1>1. IInv => Armed
  BY DEF IInv, TimeInv
<1> QED BY <1>1, Invariance, PTL

\* While nobody sets the wall clock, the timerfd is set no later than the
\* earliest timer.
THEOREM AlwaysPrompt == Spec => []Prompt
<1>1. IInv => Prompt
  BY DEF IInv, TimeInv
<1> QED BY <1>1, Invariance, PTL
=============================================================================
