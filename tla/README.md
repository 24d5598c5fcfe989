# TLA+ verification of libanet

libanet is a C++ network library in the reactor style: `src/net` holds event
loops, timers, pollers, TCP connections and servers, `src/base` holds threads,
queues, logging, dates and time zones. This directory holds a formal model of
it, the TLC runs that check the model on small instances, and TLAPS proofs of
its main safety properties for instances of any size.

Read a module together with the lines that `PROJECT.json` (`"map"`) gives for
each of its definitions. Names follow the code: `timers_` in a module is
`timers_` in the class.

## 1. The system

### Components

| component | state it keeps | operations | interacts with |
|---|---|---|---|
| EventLoop | `looping_`, `quit_`, `callingPendingFunctors_`, `pendingFunctors_` under `mutex_`, the eventfd, `activeChannels_` | `loop`, `quit`, `wakeup`, `runInLoop`, `queueInLoop`, `doPendingFunctors` | calls the Poller and the handlers of Channels; called by every thread |
| EventLoopThread | `loop_` under a mutex and a condition | `startLoop`, `threadFunc`, the destructor | EventLoop |
| TimerQueue, Timer, TimerId | `timers_` by expiration, `activeTimers_` by address, `cancelingTimers_`, the timerfd | `addTimer`, `cancel`, `handleRead`, `getExpired`, `reset` | a Channel of the loop; other threads come through `runInLoop` |
| TcpConnection | `state_`, `reading_`, Channel, `outputBuffer_`, shared by pointer | `send`, `shutdown`, `forceClose`, `forceCloseWithDelay`, `startRead`, `stopRead`, the four handlers, `connectEstablished`, `connectDestroyed` | TcpServer's map, functors, timers, the peer |
| Channel | `events_`, `revents_`, `index_`, `tie_`, `addedToLoop_` | enable, disable, `remove`, `handleEvent` | its owner and the Poller |
| Poller, EPollPoller, PollPoller | `channels_`, the kernel's epoll set or the `pollfd` array | `updateChannel`, `removeChannel`, `poll` | the kernel and the indices kept in the Channels |
| TcpServer, Acceptor | `connections_`, the listening socket, the idle descriptor | `start`, `newConnection`, `removeConnection`, `handleRead`, the destructors | TcpConnection, the process's descriptors |
| Buffer | reader and writer index over a vector | `append`, `retrieve`, `prepend`, `makeSpace`, searches, integers in network order | TcpConnection |
| ThreadPool, BlockingQueue, BoundedBlockingQueue, CountDownLatch | queues and counters under a mutex and conditions | `run`, `take`, `put`, `drain`, `stop`, `wait`, `countDown` | Thread |
| AsyncLogging, LogFile | front-end and back-end buffers, the file | `append`, the back-end thread, `stop`, roll, flush | Logging |
| Logging, LogStream | the line, the cached second, level and zone | a line from constructor to destructor, number conversions | AsyncLogging, TimeZone |
| Date, TimeZone, Timestamp | transitions of a zone | calendar arithmetic, lookups | Logging, TimerQueue |
| Sockets, addresses, Thread, thread-local data | none of their own | wrappers of system calls | |

### What is hard in it

* **Threads** meet at `pendingFunctors_` (locked), the eventfd, the atomic
  `quit_`, and the plain members `state_` and `loop_` (read without a lock); in the queues and
  the pool at a mutex and conditions that are notified one waiter at a time; in
  the logging at four buffers that circulate.
* **Order**: a functor queue that is swapped and run in batches, handlers that
  queue more functors, and `runInLoop`, which is a queue for other threads but a
  plain call in the loop thread.
* **Lifetime**: connections live by shared pointers held in a map, in functors,
  in a tie and by users; some functors hold a raw `this`. Timers live by raw
  pointers whose addresses are reused. Channels reported by one poll may go
  before their turn.
* **Double bookkeeping**: two sets of timers; a channel's index against the
  kernel's epoll set or the array of `poll`.
* **Limits**: descriptors run out, bounded queues fill up, a log backlog is
  dropped, a log line reaches the end of its buffer.
* **Time**: the timers' wall clock against the monotonic timerfd; files rolled by
  the second; a cached time stamp; times before 1970.
* **Failure**: partial writes, resets, hang-ups, failing `epoll_ctl`, `accept` and
  `fwrite`, an abort with log lines in memory.

`"hazards"` in `PROJECT.json` lists each of them at its line, with the
properties that would catch it going wrong.

### What makes each component correct

* EventLoop: no functor and no `quit()` is slept through; functors run exactly
  once, in order, and they do run. EventLoopThread: its owner's calls return.
* TimerQueue: its two sets agree; every Timer has one owner; a cancelled timer
  stays cancelled and nobody else's is lost; the timerfd is armed in time.
* TcpConnection: output keeps its order; POLLOUT is watched exactly when needed;
  FIN follows the data; users hear of each end once; closing completes; nothing
  leaks or is used after it is freed.
* TcpServer, Acceptor: a round of handlers is safe whatever they close; nothing
  leaks; every client leaves the backlog.
* Pollers: the bookkeeping tells what the kernel was asked for, and both classes
  keep the same promise.
* Buffer: a queue of bytes.
* Queues and ThreadPool: each item once and in order; nobody sleeps who could go
  on; `start`, `run`, `put` and `stop` return.
* Logging: a line is on its way, on disk or accounted for, in order; files are
  rolled in time; the time shown is right; a line stays in its buffer.
* Date, TimeZone, conversions: agree with reference definitions, or differ from
  them only where and as the properties say.

## 2. Modules

| module | models | role |
|---|---|---|
| `SerialExecutor` | what `queueInLoop` promises | abstract: one FIFO, each functor run once |
| `EventLoop` | `net/EventLoop` | implements `SerialExecutor` (`SerialExecution`) |
| `EventLoopThread` | `net/EventLoopThread` | composes a thread, its owner and `EventLoop` |
| `TimerQueue` | `net/TimerQueue`, `Timer`, `TimerId` | uses the FIFO as its `inbox` |
| `TcpConnection` | `net/TcpConnection` with its Channel, its server entry and its registration | composes connection, server, functor queue, peer |
| `TcpServer` | `net/TcpServer`, `net/Acceptor`, rounds of `EventLoop` | composes server, several connections, the descriptor table |
| `Poller` | what a Poller promises | abstract |
| `Channel` | the part of `net/Channel` that a Poller sees | the channel objects and the Poller's map, extended by both classes |
| `EPollPoller`, `PollPoller` | the two classes | each implements `Poller` (`ImplementsPoller`, `PollImplementsPoller`) |
| `ByteQueue` | what a Buffer promises | abstract |
| `Buffer` | `net/Buffer`, `net/Endian` | implements `ByteQueue` (`ImplementsByteQueue`) |
| `BlockingQueue` | `base/BlockingQueue`, `base/BoundedBlockingQueue`, `Condition` | the monitor |
| `ThreadPool` | `base/ThreadPool`, `CountDownLatch` | extends the monitor |
| `LogFile` | `base/LogFile`, `FileUtil::AppendFile` | functions on the object |
| `AsyncLogging` | `base/AsyncLogging` | composes loggers, back end and `LogFile` |
| `TimeZone` | `base/Date`, `base/TimeZone` | pure functions |
| `LogStream` | `base/LogStream`, `base/Logging` | conversions, and the life of a line |
| `EventLoopProofs`, `TimerQueueProofs`, `TcpConnectionProofs`, `TcpServerProofs`, `ThreadPoolProofs`, `AsyncLoggingProofs` | | proofs about the module they are named after |
| `PollerProofs`, `DataProofs` | | proofs about both pollers, and about the parts that `MCData` explores |
| `MCEventLoop`, `MCTimerQueue`, `MCTcpConnection`, `MCData` | | values of the constants for TLC; `MCData` also has the reference calendar and the inputs of the pure functions |

A definition whose name ends in `_Something` and is used nowhere is a broken
variant of the definition it is named after. `"mutants"` in `PROJECT.json` says
which property notices that variant: every property of every passing run has
one.

### EventLoop and EventLoopThread

The loop thread's program counter `pc` goes through `loop()`: `test` (the test of
`quit_`), `poll`, `events` (the handlers), `swap`, `functors`/`functor`
(`doPendingFunctors`) and `outside` (before and after `loop()`, which may be
called again). `queueInLoop` and `quit` of another thread are two steps each,
first the queue or the flag and then the write to the eventfd. Functors are
numbers in the order of their submission. The eventfd's counter is a Boolean,
since nothing but "readable" is observed of it. All other channels are the
environment: `PollOther` returns from poll at any time without the wake-up
channel.

`queueInLoop` wakes the loop up if the caller is another thread *or* functors
are being called. A functor that the loop thread queues before it enters
`loop()` satisfies neither; it comes with no wake-up and waits for the first
event or for the poll timeout. `quiet` counts such functors, and the wake-up
properties are about the others.

`EventLoopThread` puts that loop into `threadFunc` (`func`), with an owner that
calls `startLoop` and the destructor (`owner`). The destructor reads `loop_`
without the lock, so its read and its `quit()` are two steps. `OwnerReturns`
names what the code does not promise: `startLoop` hangs if code of the loop ends
it before the owner has seen `loop_` (`func = "done"`); a `quit()` before `loop()`
is entered is forgotten when `loop()` resets `quit_` (`owner = "early"`); and a
loop that ends between the read and the `quit()` is used after its destruction
(`owner = "dangling"`).

### TimerQueue

Timers are heap objects at addresses that `delete` frees and `new` reuses. An id
is `<<address, sequence>>`, as in `TimerId`. `addTimer` of another thread is
two steps: it creates the Timer and queues the functor (`AddTimer`), then
reads the Timer's sequence (`ReturnTimerId`), by which time the loop may have run
and deleted it: the read gives whatever the address holds, or garbage.
`handleRead` is `HandleRead` up to the first callback, `RunTimer` and
`EndCallback` for each callback (in which the user may add and cancel timers),
and `Reset`. One tick is 100 microseconds, the least delay of `howMuchTimeFromNow`.
An interval below one tick is 0; -1 stands for the interval 0.0 of a timer that
does not repeat. `Tick` advances both clocks, `ClockStep` the wall clock only.

### TcpConnection

One connection, the loop thread, one other thread with a `TcpConnectionPtr`, and
the peer. `obj` is the lifetime of the object: `Held` lists every place a shared
pointer may be (map, user, thread, functors pending or in the batch, the guard of
`handleEvent`, a callback's argument), and the step that drops the last one runs
the destructors with their assertions (`Lifetime`). A message is `MsgLen`
units, so a write may be partial. The branches of `handleEventWithGuard` are
separate steps, because a callback between them can change what the next one
sees. `setThreadNum` of EventLoopThreadPool has an empty body, so the server's
loop is the connection's loop and `runInLoop` in `removeConnection` is a plain
call.

A failing assertion is recorded in `violations` with its line, and the program
stops. `client` is the program that uses the library: which operations it calls
in which thread. `Disciplined` describes the programs that stay clear of the
places where the code trips over itself:

* its other thread does not close (see *Findings*), and keeps its pointer,
  because `send()` binds a raw `this` (`// FIXME`, `TcpConnection.cc:76`);
* it does not call `startRead` or `stopRead` on a connection that is down, which
  would enable a channel about to be removed (`Channel.cc:41` asserts against it);
* it does not combine `stopRead` with a forced close: `disableAll` on a channel
  that is deregistered registers it again, and a hang-up then runs `handleClose` a
  second time (`TcpConnection.cc:326`);
* it does not destroy the server while connections are half closed:
  `connectDestroyed` skips `disableAll` for them (`Channel.cc:41`).

`NoAssertionFails`, `WritingIffBuffered`, `FinAfterData` and `NotifiedOnce` are
claims about disciplined programs, `StreamIntact` about all of them.

### TcpServer and Acceptor

Here a connection is up, half closed (`disconnecting`, which is
`kDisconnecting`, a part of `up`) or down, and what counts is who holds it. A round polls
any set of ready connections (`active`), handles them in any order, and lets each
callback close others; `RemoveAsserts` is the assertion of
`EventLoop::removeChannel`. The descriptor table has `MaxFds` entries: `Free` is
what is left after the connections, the listening socket, the spare descriptor
and other threads' files. At the limit `handleRead` closes the spare descriptor,
accepts, closes and reopens it in three steps, between which other threads may
take descriptors. If they keep it, `idleFd_` is `"lost"` for good, and
`ClientIsServed` promises nothing more. `careless` programs destroy the server
in a handler; that breaks the assertion, and `RoundIsSafe` leaves them out.

In a functor the server may be destroyed, but `connectDestroyed` disables the
channel of a `kConnected` connection only. If `shutdown()` or `forceClose()` has
made one `kDisconnecting` by then, `Channel::remove` finds its events set and the
assertion at `Channel.cc:41` fails (in a build without assertions the pending
`forceCloseInLoop` would go on into the destroyed server). The model records the
assertion and stops. `RoundIsSafe` says that this is the only one that fails, and
only with the server destroyed and a connection half closed; `NothingLeaks` and
`ClientIsServed` speak of the program up to that point.

### Pollers

A channel is named by its descriptor, which may be closed and reused; `Channel`
has what is common to both classes: the objects, their events and index, and the
Poller's map of them. In `EPollPoller` the kernel's side (`epollfd_`, `mask`, and which `epoll_ctl` calls
fail) is external, modelled from how the class uses it. In `PollPoller` positions
count from 1 (0 stands for the code's -1) and the encoding `-fd-1` of a hidden
entry is kept, so that descriptor 0 is a real case. `Watched` reads the events
the kernel is asked for off the array; this is the refinement mapping to
`Poller`. `EmptyFirst` allows a channel whose first update is without events, as
`~Acceptor` without `listen()` does: such a channel is never hidden, and its
removal fails the assertion of `PollPoller.cc:95`. The run and the proofs are for
`~EmptyFirst`. Which of the two classes a loop uses is up to
`Poller::newDefaultPoller`, which has no definition in the repository.

### Buffer

The object is a record of the vector and the two indices, and every member
function is an operator on it, byte by byte, `makeSpace` with its two ways of
making room included. `call` records the call, its arguments and its result, so
that `ByteQueue`, whose only state is the readable bytes, constrains results as
well as contents. Integers are sequences of bytes in host order; `SwapBytes` is
the conversion of `Endian.h` on a little-endian host.

### Queues and ThreadPool

A critical section is one step. A thread's `pc` says whether it is about to enter
one (`put`, `take`) or sleeps (`notFull`, `notEmpty`). `Notify` moves one sleeping
thread back to the head of its loop, where it competes for the lock with
everybody else; `SpuriousWakeup` moves one for no reason. The pool adds `main`, which
goes through `start` with the latch of each thread, and `stop` with its joins.
`nested` pools run tasks that call `run` themselves: when they are bounded they may
all wait for room, and `Independent` leaves them out of the promises to callers.

### Logging

`AppendLine` is `append`'s critical section; the back end is one step per
critical section and per buffer written. A `BufferPtr` is `<<>>` or `<<b>>`, so
that a moved-from pointer is a real state. `lost` collects, at the place where it
happens, what the code gives up: a line longer than a buffer, the backlog beyond
two buffers, what `fwrite` did not take. When it takes less, `append`'s loop ends
before it has added to `writtenBytes_` (`FileUtil.cc:36`), so that the bytes which
did get into the file do not count towards `rollSize`. `Abort` is `LOG_FATAL` (or any crash):
what is not on disk stays where it is in the model, and is gone in the program.
`LogFile` is used as AsyncLogging uses it, by one thread.

`LogStream` has the conversions as functions of integers with C's division, and
the life of a line: the per-thread cache of the formatted second, the pieces that
go into the buffer only when they fit, the clock and the zone changing meanwhile.
A character of a number is its digit's value, and `Underscore` what `convert`
writes before a negative number (`LogStream.cc:49`): the code prints `_5` for -5,
and `NumbersAreRight` says so. `"INFO "` and `"WARN "` have five characters where
six are taken (`Logging.cc:90`): a build with assertions ends at line 44
(`AbortLine`), one without copies the terminating zero too (`StartLine`). Nothing
in the repository defines `NDEBUG`, so that in its own builds the first `LOG_INFO`
at the default level, such as the one of `TcpServer::newConnection`, ends the
program; the other modules leave log calls out, and so are about programs whose
level is above WARN. `formatSI` and `formatIEC`
are translated up to M and Mi, that is below 999500000 and 1023.5 Mi: TLC's
integers have 32 bits, and beyond 2^53 the argument itself is rounded to a double.
The branches for G to E repeat the same thresholds.

### Date and TimeZone

Pure functions over integers with C's division. A zone file is a record of its
header and blocks; what is read of it depends on the host's byte order, because
`readUint8` converts one byte with `be64toh` (`TimeZone.cc:136`). On a big-endian
host that is the identity; on a little-endian one the result is the byte moved to
the top of 64 bits and cut off, always 0. Every transition then leads to the
first local time, and an index that is out of range, which `localtimes.at` would
refuse, is not noticed. `ZoneLookupIsRight` therefore promises the offset in force
for one host and the file's first offset for the other.

`findLocalTime` of a local time finds the same transition whatever that time is,
the one before the first second of 1970, since the sentry's `utctime` is 0.
`LocalTimeComesBack` names the cases in which the result is right all the same: before
the first transition, in the period of 1970 when the later side is asked for, and
in zones that have, or are read with, one offset. Local times that a transition
skips or repeats are not promised anything.

## 3. Runs

| run | checks | bounds |
|---|---|---|
| `event_loop` | `NoLostWakeup`, `QuitNotMissed`, `SerialExecution`, `QueuedFunctorRuns`, `OwnerReturns` | 2 threads, 3 functors, 2 calls of `loop()`, or an EventLoopThread |
| `timer_queue` | `SetsAgree`, `OneOwner`, `CancelSticks`, `TimerNotLost`, `Armed`, `Prompt` | 1 thread beside the loop, 3 timers on 2 addresses, one-shot and repeating, clock steps back, 2 ticks |
| `tcp_connection` | `NoAssertionFails`, `StreamIntact`, `WritingIffBuffered`, `FinAfterData`, `NotifiedOnce` | 4 kinds of programs, 2 messages of 2 units, 2 functors waiting, high-water mark 3 |
| `tcp_liveness` | `ForceCloseCompletes`, `ShutdownCompletes`, `ClosedIsDestroyed` | the program that closes in every way, 1 message |
| `tcp_server` | `RoundIsSafe`, `NothingLeaks`, `ClientIsServed` | 3 clients, 4 descriptors, 1 file of another thread, 1 accept error, 2 functors waiting |
| `epoll_poller` | `IndexTellsKernel`, `ImplementsPoller` | 3 descriptors |
| `poll_poller` | `IndexMatchesArray`, `PollImplementsPoller` | descriptors 0, 1, 2 |
| `thread_pool` | `HandedOutInOrder`, `NoLostSignal`, `CallsReturn`, `QueuedTaskRuns` | 3 producers, 2 workers, capacities none, 1 and 2, 4 calls, pools of 0, 1 and 2 threads |
| `logging` | `AssertionsHold`, `NothingLost`, `RolledInTime`, `LinesGetOut` | 3 lines of length 1 to 3, buffers of 3, a backlog limit of 2, files of 2 bytes and 2 seconds, 1 write error |
| `data` | `IndicesInOrder`, `ImplementsByteQueue`, `StampIsRight`, `LineFits`, `CivilTimeIsRight`, `NumbersAreRight` | buffers of up to 3 readable bytes; lines at the end of the real 4000-byte buffer; all 146097 days of 400 years; zones with up to 3 transitions around 1970, on hosts of both byte orders; numbers around every threshold |

`tcp_force_close_race` and `time_zone_local` are the counterexamples of the next
section.

Why the bounds are enough for the cases that matter:

* two threads and three functors let a functor be queued before the swap,
  during the batch and between the two, by different threads; a second
  `loop()` meets what the first one left (a readable eventfd, queued functors);
* three timers on two addresses force an address to be reused while the id of
  its first timer is still around, with a second timer queued or in the batch;
* two messages of two units let the second meet a partly written first one, and
  the high-water mark of 3 is crossed only with both;
* three clients and four descriptors reach the limit with two connections open,
  so that a third client meets `EMFILE`, with and without another thread's file;
* three descriptors give removal its three cases: the last entry, an inner entry
  with a visible last one, and an inner entry with a hidden last one;
* three producers and two workers at capacity 1 and 2 make more threads sleep on
  either side than one notification wakes;
* three lines that fill a buffer, or nearly, or not at all, make the front end
  take the spare buffer, allocate another, and reach the backlog limit;
* a Buffer with 2 bytes of prepended room and 1 byte of space grows, and moves its
  data to the front, within a few calls. The real constants (8 and 1024) are
  covered by the proof.

Addresses are only compared for equality, so the timer run uses symmetry over
them. Deadlock is not checked where the system really may stop: a silent peer, a
loop that has ended, a pool that has stopped, a process that has aborted.

### Fairness

* `EventLoop`: weak fairness of the loop thread's own steps (it is scheduled,
  handlers and functors return, a poll with the eventfd readable returns) and of
  the second half of another thread's call. Nothing is assumed of `PollOther`: the
  liveness properties do not rest on the poll timeout. `EventLoopThread` adds the
  steps of `threadFunc` and of a call that the owner has begun.
* `TcpConnection`: weak fairness of the loop thread, and strong fairness of three
  steps: an expired timer is among the events of some later round (the rounds in
  between may be full of others); a socket with output is reported writable again
  and again; and a write then makes progress. The last two say that the peer
  keeps reading, without which no server can get its data out. Nothing is assumed
  of the peer's messages, of users or of the other thread.
* `TcpServer`: weak fairness of the loop thread. Callbacks return.
* `ThreadPool`: weak fairness of each thread's steps and of the main thread's:
  tasks end, and the mutex is granted to whoever waits for it. Nobody has to call
  anything, and spurious wake-ups are not relied on.
* `AsyncLogging`: weak fairness of the back end, its timed wait included, and of
  the calls of the main thread that have begun.

## 4. Findings

Each is a run that reproduces the history.

| run | what the code says | what happens |
|---|---|---|
| `tcp_force_close_race` | `assert(n == 1)`, `TcpServer.cc:88`; `// FIXME: use compare and swap`, `TcpConnection.cc:173` | `forceClose()` in another thread tests `state_`; the loop closes the connection; the thread's `setState(kDisconnecting)` makes the connection look open, and it is closed and removed a second time. |
| `time_zone_local` | `assert(transI != transitions.begin())`, `TimeZone.cc:312` | The lookup of a local time searches a sentry without a `utctime` by `CompareUtcTime`. In a zone whose first transition is after 1970 the assertion fails for every local time after it; in the others the transition found does not depend on the local time. |

The other places where the code trips over itself are not claims that it makes
anywhere but in an assertion; they are described under `Disciplined`, `careless`,
`EmptyFirst`, `OwnerReturns`, *TcpServer*, *Logging* and *Date and TimeZone* above,
where the properties exclude them or say what the code does instead.

## 5. Proofs

TLAPS checks the following for every value of the constants: any number of
threads, functors, addresses, timers, descriptors, messages, bytes and lines. The
assumptions are those named in the modules (`BoundsAssumption`,
`OwnerAssumption`, `TimerAssumption`, `PollAssumption`, `ConnAssumption`,
`ServerAssumption`, `BufferAssumption`, `QueueAssumption`, `LoggingAssumption`,
`LogFileAssumption` and `LogStreamAssumption`), which only give the constants
their types and least values; TLC evaluates them on the
instances of the runs. Further hypotheses of a theorem are in its statement.

**EventLoopProofs** — `TypeCorrect`, `WakeupNotLost`, `QuitReachesPoll`,
`Refinement`. `NoLostWakeup` speaks of `pc = "poll"` and is not inductive. The
invariant extends it (`WakeupInv`) to every point from which poll is reached
without a swap: only between the return of poll and the swap may functors be
pending without a wake-up, because the swap is going to take them. `BatchInv`
says that the flag `queueInLoop` tests is set while a batch runs, which is what
makes the loop thread's own `queueInLoop` from a functor safe. `OrderInv` says
that batch and queue hold, in order, the numbers from `executed + 1` to
`submitted`; the refinement follows from it, with lemmas about `Append`, `Head`
and `Tail` of a concatenation.

`HostedWakeupNotLost`, `HostedQuitReachesPoll` and `HostedRefinement` say the same
of a loop inside an EventLoopThread. `ThreadStep` shows that whatever `threadFunc`,
the owner and the destructor do with the loop is a step of `EventLoop`, or leaves
it alone, so that everything proved of the loop carries over.

**TimerQueueProofs** — `TypeCorrect`, `SetsStayInStep`, `ExactlyOneOwner`,
`CancelIsFinal`, `NoTimerLost`, `AlwaysArmed`, `AlwaysPrompt`. The invariant has
a part for each:

* `SetsInv` and `OwnInv` are `SetsAgree` and `OneOwner` entry by entry, and they
  need each other: that a cancel takes the right entry out of both sets rests on
  the sets agreeing, and that a restart does not collide with an entry rests on
  one owner per address.
* `CancelInv` adds that sequence numbers are not used twice and that a
  cancelled timer of the running batch is in `cancelingTimers_`, so that `Reset`
  knows.
* `LostInv` adds that whatever `Reset` will delete has run, or was requested to
  be cancelled.
* `TimeInv` covers the times when callbacks run and `Armed` does not hold yet: the
  timerfd has been read and `Reset` will arm it, except for a first timer with an
  invalid expiration (`reset` tests `nextExpire.valid()`); such a timer must
  have been added during the batch, and adding it has armed the timerfd.

`Prompt` does not hold across steps of the wall clock; there the code gives no
bound, and `stepped` excludes them. `Armed` needs no such exclusion.

**TcpConnectionProofs** — `OutputInOrder`, `WatchesWhileBuffered`,
`FinComesLast`: the output half of TcpConnection, for any set of programs.
`FinAfterData` and `WritingIffBuffered` need each other: `shutdownInLoop` may send
the FIN because a channel that does not watch for POLLOUT has no output, and
`sendInLoop` after the FIN buffers nothing because an empty buffer means that it
tries the socket, which fails. The invariant adds that no `shutdownInLoop` is
queued in a disciplined program (`OnlySends`), where it could run after the
connection is down and its events are cleared, and that an object which exists
has left `kConnecting` (`Born`).

`NothingAsserts` and `ToldOnce` are about the life of a connection. A disciplined
program's connection is always in one of five stages: not accepted yet
(`Unborn`), open (`IsOpen`), in the callback that tells the user of its end
(`GoingDown`), out of the map with one `connectDestroyed` queued (`Doomed`), or
out of the poller (`Removed`). A stage fixes the map entry, the channel's index
and events, the number of callbacks so far and whether a `connectDestroyed` is to
come; the counting of it in both queues (`NoneToRun`, `OneToRun`) is what excludes
a second removal. `Orderly` adds where the loop thread is in its batch, and that
the thread whose functors carry a raw `this` still holds its pointer. The proof
has one lemma per action, that says which stage it leads to; no assertion can fail
in any of them.

**TcpServerProofs** — `RoundsAreSafe`, `NoLeaks`, for any number of clients and
descriptors. `Accounted` is the invariant: the connections in `connections_` are
those that are up and the one that is closing just now; a connection that is still
registered but no longer in the map has its `connectDestroyed` in one of the
queues; and what a round has still to handle is up. No channel that poll has
reported is removed within the round because `connectDestroyed` is always queued,
never called, and the queues run after the round. `InBounds` is the descriptor
limit, through the three steps at which the spare descriptor is given up.
`Stopped` is the one other state: the server was destroyed with a half-closed
connection, and the program is at the assertion.

**PollerProofs** — `TypeCorrect`, `IndexCorrect` and `EPollImplements` are about
EPollPoller. The invariant adds `MaskInv` to `IndexTellsKernel`: the kernel's mask of
every known channel is what the channel wants. The refinement needs it at
`removeChannel`, where the abstract `Remove` requires that nothing is watched any
more. `ArrayMatched` and `ArrayImplementsPoller` are about PollPoller, for
`~EmptyFirst`. The invariant `Matched` adds to `IndexMatchesArray` that no two channels
share a position and that removed channels are not known any more. Without it,
the swap in `removeChannel` could give the last entry's position to a channel that
does not own the entry.

**DataProofs**, Buffer — `BufferInOrder`, `BufferImplementsQueue`. The invariant
`Sound` has the types, the order of the indices and that the vector is never shorter than
`kCheapPrepend`: `retrieveAll` sets both indices to `kCheapPrepend`, which is inside
the vector only if `shrink` and the moves of `makeSpace` never make it shorter.
There is one lemma per member function that says what it leaves of the readable
bytes; the searches use that a non-empty set of positions has a least member.

**DataProofs**, log lines — `LinesFit`, `StampsAreRight`, for any loggers, zones,
pieces and sizes. `Fitting` adds to `LineFits` that a line has never got more than
was asked for; so when a piece does not fit behind what the line has got, what was
wanted is near the end of the buffer. `CacheSound` is about what lies in a
thread's cache between two lines: a second that has been, formatted in the present
zone unless the zone was set in that second or later. It holds only while the
clock runs forwards, which is why `StampIsRight` names `setBack`.

**DataProofs**, civil time — `DateComesBack`, `NextDayIsRight`, `TimeComesBack`,
`ZonesAreRight`, `LocalTimesComeBack`, `CivilTime`. Where the `data` run walks through
400 years, these hold for every day since March of the year -4800, the first for
which the divisions of `Date.cc` do not round the wrong way. Counted from March, a
day's number splits into a century, a year in it and a day of that year
(`IsDay`), in exactly one way (`OneDecomposition`); `getYearMonthDay` computes this
split (`Decomposed`), and the next day changes one part of it (`DayBehind`): it is
the next day of the year, the first day of the next year or of the next century,
and the leap day is the last day of its year. `ZonesAreRight` holds for every block
of a zone file with ordered times and indices for all of them (`IsBlock`), on
either host, and rests on what `upper_bound` returns (`BeforeUpperBound`).
`LocalTimesComeBack` holds for every zone: in the period of 1970 the two lookups
meet at the same transition (`FoundWith1970`), and where there is one offset it does not
matter which is met (`OneOffset`). `CivilTime` puts these together for the inputs of the run. Integers are unbounded here: in the code's
`int`, `4 * a + 3` overflows after some 1.4 million years, and the theorems speak of
what comes before.

**DataProofs**, numbers — `NumbersReadBack`: the digits that `convert` and `convertHex`
leave read back as the number without its sign, for every integer (`convertHex`: every
natural number), negative ones, marked by an underscore, without a detour over their
absolute value, which the least `int` does not have. `Digits` and the reference
`ReadBack` are recursive functions, and a theorem about such a function first needs
that it exists: `UpToExists` and `UpToUnique` give `convert`'s function on the numbers
below any bound, `DigitsExist` puts these together, and `ReadsExists` does the same for
`ReadBack`. In place of an induction rule, which the provers cannot instantiate, the
proofs take the least number for which a claim fails (`LeastMember`).
`SizesAreShort`: within the range of its units, `formatSI`
shows three digits and `formatIEC` three, or four up to 1023, whichever way `printf`
rounds a half (`Rounding`). `NumbersAsShown` puts both together for the inputs of
the run.

**ThreadPoolProofs** — `QueueInOrder`, `NotifyIsEnough`. The statements count
threads, so the lemmas say how the number of threads at a place changes when one
moves (`Moved`, `Notified`). `NoLostSignal` is not inductive: `Signals` adds that
nobody sleeps in a pool that is stopped or has no threads, and that producers
sleep only in a bounded queue. Then a thread that takes an item and one
notification balance each other, even when the thread notified is overtaken.

**AsyncLoggingProofs** — `BackEndAssertionsHold`. Why there are always two written
buffers for two missing spare ones is not visible in the back end: it gives its
second buffer away only if `nextBuffer_` is null, and then some logger has pushed a
full buffer since the last swap. The invariant `Owned` says that:
`nextBuffer_ = Null` implies `buffers_ # <<>>`.

`FileRollsInTime` rests on `FileInv`: the appends to a file of an earlier period are
no more than `count_` (`late <= count_`), and LogFile looks at the clock as soon as
`count_` reaches `checkEveryN`. `NoLineLost` rests on `LineInv`, which is `NothingLost`
in terms of four sets of lines (`Held`) and the order inside each place (`Sorted`).
The lemmas say what a move from one place to the next does to them: an append, a
change of the current buffer, the swap, the drop of a backlog and the writing of one
buffer with or without an error.

Only model-checked: all liveness properties, because their proofs need `ENABLED`
(`QueuedFunctorRuns`, `OwnerReturns`, `ForceCloseCompletes`, `ShutdownCompletes`,
`ClosedIsDestroyed`, `ClientIsServed`, `CallsReturn`, `QueuedTaskRuns`,
`LinesGetOut`). Every invariant and every action property of the passing runs, and
each of the refinements, is proved.

## 6. Not modelled

* **EventLoopThreadPool**: `setThreadNum` has an empty body, so that there are never
  loops to choose from.
* **No definition in the repository**: `Buffer::readFd` (`Buffer.cc` is empty),
  `Poller::newDefaultPoller`, `Thread::start` and `Thread::join`. `readFd` is what `handleRead` of TcpConnection
  calls, modelled as data, end of file or an error; both pollers
  are modelled, and the thread's functions from their use. `MutexLock::isLockedByThisThread` has an empty body, whose result is
  undefined; the model is of a build in which `assertLocked` passes.
* **Wrappers of system calls**, without state of their own: Socket, SocketOps
  (except `accept`), InetAddress, ReadSmallFile, ProcessInfo, thread-local data,
  Singleton, Atomic, Exception; and type utilities.
* **Text**: the wording of log messages, formatted dates and addresses.
* In the modelled components: nested calls of `loop()` (the code asserts against
  them), the destructors of EventLoop and TimerQueue, the contents of the input
  buffer, `startRead` and `stopRead` from another thread, a `CountDownLatch` with
  several waiters (no code of the library has one), tasks that throw, concurrent
  `setTimeZone`, `setOutput` and `setFlush`.
