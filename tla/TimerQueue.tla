----------------------------- MODULE TimerQueue -----------------------------
(***************************************************************************)
(* net/TimerQueue with net/Timer and net/TimerId: the set of timers of one *)
(* EventLoop, served by one timerfd.                                       *)
(*                                                                         *)
(* The loop thread alone touches the sets; the Threads reach it through    *)
(* runInLoop, that is through the FIFO of functors (variable inbox; the    *)
(* module EventLoop shows that the loop runs it in order and once).        *)
(* Timers are heap objects named by their addresses, and addresses are     *)
(* reused after delete: a TimerId <<address, sequence>> may be stale.      *)
(*                                                                         *)
(* Time is in ticks of the smallest timerfd delay (100 microseconds).      *)
(* now is the wall clock (gettimeofday), which may be stepped; the timerfd *)
(* counts monotonic ticks.  A Timestamp is valid iff it is positive.       *)
(***************************************************************************)
EXTENDS Integers, Sequences, FiniteSets

CONSTANTS Threads,     \* the threads other than the loop thread
          Addrs,       \* heap addresses a Timer can get
          NoAddr,      \* no address
          Delays,      \* when - now of the timers users add (may be past)
          Intervals,   \* in ticks, rounded down; -1 stands for the interval
                       \* 0.0 of a timer that does not repeat
          ClockSteps,  \* by how much the wall clock may be stepped
          MaxSeq,      \* bound: timers created
          MaxTime,     \* bound: wall clock
          MaxInbox     \* bound: functors waiting

ASSUME TimerAssumption ==
    /\ NoAddr \notin Addrs
    /\ Delays \subseteq Int
    /\ Intervals \subseteq Int
    /\ ClockSteps \subseteq Int
    /\ MaxSeq \in Nat
    /\ MaxTime \in Nat
    /\ MaxInbox \in Nat

VARIABLES
    live,              \* addresses of the Timers not yet deleted
    heap,              \* what each address holds, or held last
    numCreated,        \* Timer::s_numCreated_
    timers_,           \* set of <<expiration, address>>
    activeTimers_,     \* set of <<address, sequence>>
    cancelingTimers_,
    callingExpiredTimers_,
    expired,           \* handleRead's local vector, as a set
    toRun,             \* the part of expired whose callbacks are still to run
    batchNow,          \* handleRead's local now
    timerfd,           \* -1 disarmed, 0 readable, n: readable in n ticks
    active,            \* the timerfd channel is in activeChannels_
    pc,                \* the loop thread: "idle" (other handlers, functors,
                       \* poll), "batch" or "callback" (inside handleRead)
    now,
    inbox,             \* queued addTimerInLoop and cancelInLoop functors
    adding,            \* per thread: the address whose sequence addTimer is
                       \* about to read, or NoAddr
    ids,               \* the TimerIds handed out so far
    requested,         \* sequences for which cancelInLoop was called
    cancelled,         \* ids cancelInLoop met in the queue or in the batch
    ran,               \* sequences whose callback was called
    stepped            \* the wall clock was stepped

vars == <<live, heap, numCreated, timers_, activeTimers_, cancelingTimers_,
          callingExpiredTimers_, expired, toRun, batchNow, timerfd, active,
          pc, now, inbox, adding, ids, requested, cancelled, ran, stepped>>

\* repeat_(interval > 0.0): an interval of less than a tick is 0 here.
Repeats(interval) == interval >= 0

Init ==
    /\ live = {}
    /\ heap = [a \in Addrs |-> [seq |-> 0, exp |-> 0, interval |-> -1]]
    /\ numCreated = 0
    /\ timers_ = {}
    /\ activeTimers_ = {}
    /\ cancelingTimers_ = {}
    /\ callingExpiredTimers_ = FALSE
    /\ expired = {}
    /\ toRun = {}
    /\ batchNow = 0
    /\ timerfd = -1
    /\ active = FALSE
    /\ pc = "idle"
    /\ now = 1
    /\ inbox = <<>>
    /\ adding = [t \in Threads |-> NoAddr]
    /\ ids = {}
    /\ requested = {}
    /\ cancelled = {}
    /\ ran = {}
    /\ stepped = FALSE

-----------------------------------------------------------------------------
(* Helpers *)

\* The entry of the timer at address a of heap h, in each of the two sets.
Entry(h, a)       == <<h[a].exp, a>>
ActiveTimer(h, a) == <<a, h[a].seq>>

\* howMuchTimeFromNow: at least 100 microseconds, one tick.
HowMuchTimeFromNow(when) == IF when - now < 1 THEN 1 ELSE when - now

\* timers_.begin(), up to the order of addresses.
First(entries) == {e \in entries : \A f \in entries : e[1] <= f[1]}

\* insert's result: the new timer becomes the first of the queue.  That the
\* two insertions succeed, as insert asserts, is SetsAgree and OneOwner.
EarliestChanged(when) == \A e \in timers_ : when < e[1]

\* Timer's constructor, at an address the allocator has free.
NewTimer(a, delay, interval) ==
    /\ numCreated < MaxSeq
    /\ a \in Addrs \ live
    /\ numCreated' = numCreated + 1
    /\ live' = live \union {a}
    /\ heap' = [heap EXCEPT ![a] = [seq |-> numCreated + 1,
                                    exp |-> now + delay,
                                    interval |-> interval]]

\* addTimerInLoop that arms the timerfd for the first timer only.
AddTimerInLoop_NeverRearms(h, a) ==
    /\ timers_' = timers_ \union {Entry(h, a)}
    /\ activeTimers_' = activeTimers_ \union {ActiveTimer(h, a)}
    /\ timerfd' = IF timers_ = {} THEN HowMuchTimeFromNow(h[a].exp)
                                  ELSE timerfd

\* addTimerInLoop on the timer at a of heap h: insert, then re-arm the
\* timerfd if the new timer is the earliest.
AddTimerInLoop(h, a) ==
    /\ timers_' = timers_ \union {Entry(h, a)}
    /\ activeTimers_' = activeTimers_ \union {ActiveTimer(h, a)}
    /\ timerfd' = IF EarliestChanged(h[a].exp)
                  THEN HowMuchTimeFromNow(h[a].exp)
                  ELSE timerfd

\* A cancel that finds its timer by address alone.
CancelInLoop_ByAddress(id) ==
    /\ requested' = requested \union {id[2]}
    /\ \E found \in activeTimers_ \union {<<NoAddr, 0>>} :
          /\ \/ found[1] = id[1]
             \/ /\ found[1] = NoAddr
                /\ \A e \in activeTimers_ : e[1] # id[1]
          /\ timers_' = {e \in timers_ : e[2] # found[1]}
          /\ activeTimers_' = activeTimers_ \ {found}
          /\ live' = live \ {found[1]}
          /\ cancelled' = cancelled \union ({found} \ {<<NoAddr, 0>>})
    /\ UNCHANGED cancelingTimers_

\* cancelInLoop: delete the timer if it is queued; otherwise, if callbacks
\* are being called, remember the id, in case it is one of this batch.
CancelInLoop(id) ==
    /\ requested' = requested \union {id[2]}
    /\ \/ /\ id \in activeTimers_
          /\ timers_' = timers_ \ {Entry(heap, id[1])}
          /\ activeTimers_' = activeTimers_ \ {id}
          /\ live' = live \ {id[1]}
          /\ cancelled' = cancelled \union {id}
          /\ UNCHANGED cancelingTimers_
       \/ /\ id \notin activeTimers_
          /\ callingExpiredTimers_
          /\ cancelingTimers_' = cancelingTimers_ \union {id}
          /\ cancelled' = cancelled \union
                ({id} \intersect {ActiveTimer(heap, e[2]) : e \in expired})
          /\ UNCHANGED <<timers_, activeTimers_, live>>
       \/ /\ id \notin activeTimers_
          /\ ~callingExpiredTimers_
          /\ UNCHANGED <<timers_, activeTimers_, live, cancelingTimers_,
                         cancelled>>

-----------------------------------------------------------------------------
(* addTimer and cancel in the loop thread: from a handler or a functor      *)
(* (pc = "idle"), or from a timer's callback.  runInLoop calls directly.    *)

InUserCode == pc \in {"idle", "callback"}

LoopAddTimer(a, delay, interval) ==
    /\ InUserCode
    /\ NewTimer(a, delay, interval)
    /\ AddTimerInLoop(heap', a)
    /\ ids' = ids \union {<<a, numCreated + 1>>}
    /\ UNCHANGED <<cancelingTimers_, callingExpiredTimers_, expired, toRun,
                   batchNow, active, pc, now, inbox, adding, requested,
                   cancelled, ran, stepped>>

LoopCancel(id) ==
    /\ InUserCode
    /\ CancelInLoop(id)
    /\ UNCHANGED <<heap, numCreated, callingExpiredTimers_, expired, toRun,
                   batchNow, timerfd, active, pc, now, inbox, adding, ids,
                   ran, stepped>>

-----------------------------------------------------------------------------
(* addTimer and cancel in another thread: runInLoop queues a functor.       *)

AddTimer(t, a, delay, interval) ==
    /\ adding[t] = NoAddr
    /\ Len(inbox) < MaxInbox
    /\ NewTimer(a, delay, interval)
    /\ inbox' = Append(inbox, [op |-> "add", addr |-> a, seq |-> 0])
    /\ adding' = [adding EXCEPT ![t] = a]
    /\ UNCHANGED <<timers_, activeTimers_, cancelingTimers_,
                   callingExpiredTimers_, expired, toRun, batchNow, timerfd,
                   active, pc, now, ids, requested, cancelled, ran, stepped>>

\* return TimerId(timer, timer->sequence()), after the functor was queued:
\* the loop may have deleted the timer by now.  A read of freed memory
\* gives what the address holds now, or garbage (0, nobody's sequence).
ReturnTimerId(t) ==
    LET a == adding[t] IN
    /\ a # NoAddr
    /\ \E s \in {heap[a].seq} \union (IF a \in live THEN {} ELSE {0}) :
          ids' = ids \union {<<a, s>>}
    /\ adding' = [adding EXCEPT ![t] = NoAddr]
    /\ UNCHANGED <<live, heap, numCreated, timers_, activeTimers_,
                   cancelingTimers_, callingExpiredTimers_, expired, toRun,
                   batchNow, timerfd, active, pc, now, inbox, requested,
                   cancelled, ran, stepped>>

Cancel(t, id) ==
    /\ adding[t] = NoAddr
    /\ Len(inbox) < MaxInbox
    /\ inbox' = Append(inbox, [op |-> "cancel", addr |-> id[1],
                               seq |-> id[2]])
    /\ UNCHANGED <<live, heap, numCreated, timers_, activeTimers_,
                   cancelingTimers_, callingExpiredTimers_, expired, toRun,
                   batchNow, timerfd, active, pc, now, adding, ids,
                   requested, cancelled, ran, stepped>>

\* doPendingFunctors runs the oldest functor, after the round's handlers.
RunAddFunctor ==
    /\ pc = "idle" /\ ~active
    /\ inbox # <<>> /\ Head(inbox).op = "add"
    /\ AddTimerInLoop(heap, Head(inbox).addr)
    /\ inbox' = Tail(inbox)
    /\ UNCHANGED <<live, heap, numCreated, cancelingTimers_,
                   callingExpiredTimers_, expired, toRun, batchNow, active,
                   pc, now, adding, ids, requested, cancelled, ran, stepped>>

RunCancelFunctor ==
    /\ pc = "idle" /\ ~active
    /\ inbox # <<>> /\ Head(inbox).op = "cancel"
    /\ CancelInLoop(<<Head(inbox).addr, Head(inbox).seq>>)
    /\ inbox' = Tail(inbox)
    /\ UNCHANGED <<heap, numCreated, callingExpiredTimers_, expired, toRun,
                   batchNow, timerfd, active, pc, now, adding, ids, ran,
                   stepped>>

-----------------------------------------------------------------------------
(* The timerfd and handleRead *)

\* poll reports the timerfd; other handlers of the round may come first.
PollTimerfd ==
    /\ pc = "idle" /\ ~active
    /\ timerfd = 0
    /\ active' = TRUE
    /\ UNCHANGED <<live, heap, numCreated, timers_, activeTimers_,
                   cancelingTimers_, callingExpiredTimers_, expired, toRun,
                   batchNow, timerfd, pc, now, inbox, adding, ids, requested,
                   cancelled, ran, stepped>>

\* getExpired: the entries up to and including now leave both sets.
Due == {e \in timers_ : e[1] <= now}

\* Entries leave timers_ only.
GetExpired_KeepsActive ==
    /\ timers_' = timers_ \ Due
    /\ UNCHANGED activeTimers_

GetExpired ==
    /\ timers_' = timers_ \ Due
    /\ activeTimers_' = activeTimers_ \ {ActiveTimer(heap, e[2]) : e \in Due}

\* handleRead up to its first callback.  If another handler re-armed the
\* timerfd after poll, the read fails with EAGAIN and changes nothing.
HandleRead ==
    /\ pc = "idle" /\ active
    /\ batchNow' = now
    /\ timerfd' = IF timerfd = 0 THEN -1 ELSE timerfd
    /\ GetExpired
    /\ expired' = Due
    /\ toRun' = Due
    /\ callingExpiredTimers_' = TRUE
    /\ cancelingTimers_' = {}
    /\ active' = FALSE
    /\ pc' = "batch"
    /\ UNCHANGED <<live, heap, numCreated, now, inbox, adding, ids,
                   requested, cancelled, ran, stepped>>

\* it.second->run(), in the order of the expirations.
RunTimer(e) ==
    /\ pc = "batch"
    /\ e \in toRun
    /\ \A f \in toRun : e[1] <= f[1]
    /\ toRun' = toRun \ {e}
    /\ ran' = ran \union {heap[e[2]].seq}
    /\ pc' = "callback"
    /\ UNCHANGED <<live, heap, numCreated, timers_, activeTimers_,
                   cancelingTimers_, callingExpiredTimers_, expired,
                   batchNow, timerfd, active, now, inbox, adding, ids,
                   requested, cancelled, stepped>>

EndCallback ==
    /\ pc = "callback"
    /\ pc' = "batch"
    /\ UNCHANGED <<live, heap, numCreated, timers_, activeTimers_,
                   cancelingTimers_, callingExpiredTimers_, expired, toRun,
                   batchNow, timerfd, active, now, inbox, adding, ids,
                   requested, cancelled, ran, stepped>>

\* Which timers of the batch reset() restarts; the others it deletes.
Restarted_IgnoresCancel ==
    {e[2] : e \in {f \in expired : Repeats(heap[f[2]].interval)}}

Restarted ==
    {e[2] : e \in {f \in expired :
                      /\ Repeats(heap[f[2]].interval)
                      /\ ActiveTimer(heap, f[2]) \notin cancelingTimers_}}

\* reset() that forgets the delete.
Deleted_None == {}

Deleted == {e[2] : e \in expired} \ Restarted

\* reset() that leaves the timerfd as the read left it.
Rearm_Never(entries) == UNCHANGED timerfd

\* The timerfd is re-armed for the first timer, if there is one and its
\* expiration is valid.
Rearm(entries) ==
    \/ /\ entries = {}
       /\ UNCHANGED timerfd
    \/ \E e \in First(entries) :
          timerfd' = IF e[1] > 0 THEN HowMuchTimeFromNow(e[1]) ELSE timerfd

\* Timer::restart(now) of a repeating timer.
Restart(timer) == [timer EXCEPT !.exp = batchNow + timer.interval]

\* The end of handleRead: reset(expired, now).
Reset ==
    /\ pc = "batch"
    /\ toRun = {}
    /\ callingExpiredTimers_' = FALSE
    /\ heap' = [a \in Addrs |->
                   IF a \in Restarted
                   THEN Restart(heap[a])
                   ELSE heap[a]]
    /\ timers_' = timers_ \union {Entry(heap', a) : a \in Restarted}
    /\ activeTimers_' = activeTimers_
                        \union {ActiveTimer(heap, a) : a \in Restarted}
    /\ live' = live \ Deleted
    /\ Rearm(timers_')
    /\ expired' = {}
    /\ pc' = "idle"
    /\ UNCHANGED <<numCreated, cancelingTimers_, toRun, batchNow, active,
                   now, inbox, adding, ids, requested, cancelled, ran,
                   stepped>>

-----------------------------------------------------------------------------
(* Time *)

Tick ==
    /\ now < MaxTime
    /\ now' = now + 1
    /\ timerfd' = IF timerfd > 0 THEN timerfd - 1 ELSE timerfd
    /\ UNCHANGED <<live, heap, numCreated, timers_, activeTimers_,
                   cancelingTimers_, callingExpiredTimers_, expired, toRun,
                   batchNow, active, pc, inbox, adding, ids, requested,
                   cancelled, ran, stepped>>

\* The administrator or NTP sets the wall clock.
ClockStep(d) ==
    /\ now + d \in 1..MaxTime
    /\ now' = now + d
    /\ stepped' = TRUE
    /\ UNCHANGED <<live, heap, numCreated, timers_, activeTimers_,
                   cancelingTimers_, callingExpiredTimers_, expired, toRun,
                   batchNow, timerfd, active, pc, inbox, adding, ids,
                   requested, cancelled, ran>>

-----------------------------------------------------------------------------

Next ==
    \/ \E a \in Addrs, d \in Delays, i \in Intervals :
          \/ LoopAddTimer(a, d, i)
          \/ \E t \in Threads : AddTimer(t, a, d, i)
    \/ \E id \in ids :
          LoopCancel(id) \/ \E t \in Threads : Cancel(t, id)
    \/ \E t \in Threads : ReturnTimerId(t)
    \/ RunAddFunctor
    \/ RunCancelFunctor
    \/ PollTimerfd
    \/ HandleRead
    \/ \E e \in toRun : RunTimer(e)
    \/ EndCallback
    \/ Reset
    \/ Tick
    \/ \E d \in ClockSteps : ClockStep(d)

Spec == Init /\ [][Next]_vars

-----------------------------------------------------------------------------
(* Properties *)

TypeOK ==
    /\ live \subseteq Addrs
    /\ heap \in [Addrs -> [seq : Nat, exp : Int, interval : Int]]
    /\ numCreated \in 0..MaxSeq
    /\ timers_ \subseteq Int \X Addrs
    /\ activeTimers_ \subseteq Addrs \X Nat
    /\ cancelingTimers_ \subseteq Addrs \X Nat
    /\ callingExpiredTimers_ \in BOOLEAN
    /\ expired \subseteq Int \X Addrs
    /\ toRun \subseteq expired
    /\ batchNow \in Int
    /\ timerfd \in Int
    /\ active \in BOOLEAN
    /\ pc \in {"idle", "batch", "callback"}
    /\ now \in Int
    /\ inbox \in Seq([op : {"add", "cancel"}, addr : Addrs, seq : Nat])
    /\ adding \in [Threads -> Addrs \union {NoAddr}]
    /\ ids \subseteq Addrs \X Nat
    /\ requested \subseteq Nat
    /\ cancelled \subseteq Addrs \X Nat
    /\ ran \subseteq Nat
    /\ stepped \in BOOLEAN

\* The two sets describe the same live timers, with the expiration and the
\* sequence those timers have now.  This is what the assertions on sizes
\* (lines 119, 131, 156, 171, 178, 199) and erase counts (124, 167) rest
\* on, and it says that no pointer in the sets dangles.
SetsAgree ==
    /\ timers_ = {Entry(heap, x[1]) : x \in activeTimers_}
    /\ activeTimers_ = {ActiveTimer(heap, e[2]) : e \in timers_}
    /\ {e[2] : e \in timers_} \subseteq live

\* Timers in flight: queued to be added, in the queue, or in the batch.
InboxAdds == {i \in DOMAIN inbox : inbox[i].op = "add"}
Queued    == {e[2] : e \in timers_}
Batch     == {e[2] : e \in expired}

\* Every Timer that is not deleted has exactly one owner, so none is
\* deleted twice, used after delete, inserted twice (the assertions at 188
\* and 195) or leaked.
OneOwner ==
    /\ live = Queued \union Batch
              \union {inbox[i].addr : i \in InboxAdds}
    /\ Queued \intersect Batch = {}
    /\ \A i \in InboxAdds : inbox[i].addr \notin Queued \union Batch
    /\ \A i, j \in InboxAdds : inbox[i].addr = inbox[j].addr => i = j

\* While the loop may poll, the timerfd is armed or readable whenever there
\* is a timer, whatever was added, cancelled, restarted or re-clocked.
Armed == (pc = "idle" /\ timers_ # {}) => timerfd >= 0

\* Without clock steps the timerfd is never later than any timer
\* (plus the smallest delay, if that timer is already due).
Prompt ==
    (pc = "idle" /\ ~stepped)
        => \A e \in timers_ : timerfd <= HowMuchTimeFromNow(e[1])

\* A timer that cancel met, queued or in the running batch, is never queued
\* again: in particular a repeating timer cancelled from a callback of its
\* own batch is not restarted.
CancelSticks == activeTimers_ \intersect cancelled = {}

\* A timer that was queued leaves the queue for good only by a cancel with
\* its own sequence number or, if it does not repeat, by running: a stale
\* TimerId whose address was reused takes nobody else's timer away.
TimerNotLost ==
    \A a \in Addrs :
        LET s == heap[a].seq IN
        (s > 0 /\ a \notin live)
            => \/ s \in requested
               \/ s \in ran /\ ~Repeats(heap[a].interval)
=============================================================================
