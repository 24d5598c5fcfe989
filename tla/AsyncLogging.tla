---------------------------- MODULE AsyncLogging ----------------------------
(***************************************************************************)
(* base/AsyncLogging: threads append log lines to a buffer in memory, and  *)
(* one back-end thread swaps full buffers for empty ones and writes them   *)
(* to a LogFile.  Four buffers circulate; more are allocated when the      *)
(* front end is faster, and a long backlog is dropped.                     *)
(*                                                                         *)
(* A line is its number, given in the order of the appends, and its        *)
(* length.  A buffer (FixedBuffer) is its lines and its length(); a        *)
(* BufferPtr is <<>> when it is null and <<b>> when it owns b.  A critical *)
(* section is one step; Condition::waitForSeconds ends when it is          *)
(* notified, at its timeout, or for no reason.                             *)
(***************************************************************************)
EXTENDS LogFile

CONSTANTS kLargeBuffer,   \* bytes in a buffer
          kMaxBacklog,    \* more buffers than this are dropped; 25
          Lengths,        \* lengths of the lines
          MaxLines,       \* bound: lines appended
          MaxTime,        \* bound: the clock
          MaxErrors       \* bound: writes that fail

ASSUME LoggingAssumption ==
    /\ kLargeBuffer \in Nat /\ kMaxBacklog \in Nat \ {0, 1}
    /\ Lengths \subseteq Nat
    /\ MaxLines \in Nat /\ MaxTime \in Nat /\ MaxErrors \in Nat

VARIABLES
    \* shared, under mutex_, except running_, which is atomic
    running_, currentBuffer_, nextBuffer_, buffers_,
    \* the back end's locals and its place
    newBuffer1, newBuffer2, buffersToWrite, position, output, pc,
    \* the thread that starts and stops the logging
    main,
    \* environment and history
    now,         \* time(NULL)
    logged,      \* lines appended so far
    lost,        \* lines given up: too long, dropped, or not written
    errors,
    late,        \* appends to the file since its period ended
    appended     \* when the last append to the file happened

vars == <<running_, currentBuffer_, nextBuffer_, buffers_, newBuffer1,
          newBuffer2, buffersToWrite, position, output, pc, main, now,
          logged, lost, errors, late, appended>>

front == <<currentBuffer_, nextBuffer_, buffers_>>
locals == <<newBuffer1, newBuffer2, buffersToWrite, position>>
env == <<now, logged, lost, errors, late, appended>>

-----------------------------------------------------------------------------
(* FixedBuffer and BufferPtr *)

Null == <<>>
NewBuffer == [lines |-> <<>>, length |-> 0]

Avail(b) == kLargeBuffer - b.length

BufferAppend(b, line) ==
    IF Avail(b) > line.len
    THEN [lines |-> Append(b.lines, line), length |-> b.length + line.len]
    ELSE b

\* A buffer owned by p, which the code never finds null.
The(p) == p[1]

IdsOf(lines) == {lines[i].id : i \in DOMAIN lines}

-----------------------------------------------------------------------------
(* The front end *)

Init ==
    /\ running_ = FALSE
    /\ currentBuffer_ = <<NewBuffer>>
    /\ nextBuffer_ = <<NewBuffer>>
    /\ buffers_ = <<>>
    /\ newBuffer1 = Null /\ newBuffer2 = Null
    /\ buffersToWrite = <<>>
    /\ now = 1
    /\ output = NewLogFile(1)  \* replaced when the thread begins
    /\ pc = "none"
    /\ main = "new"
    /\ logged = 0 /\ lost = {} /\ errors = 0 /\ late = 0 /\ appended = 0
    /\ position = 1

\* append: into the current buffer, or into the next one, with a
\* notification; a line that fits in no buffer disappears.
AppendLine(len) ==
    /\ main # "aborted"
    /\ logged < MaxLines
    /\ logged' = logged + 1
    /\ LET line == [id |-> logged + 1, len |-> len]
           fresh == IF nextBuffer_ # Null THEN The(nextBuffer_) ELSE NewBuffer
       IN  IF Avail(The(currentBuffer_)) > len
           THEN /\ currentBuffer_' = <<BufferAppend(The(currentBuffer_), line)>>
                /\ UNCHANGED <<nextBuffer_, buffers_, lost, pc>>
           ELSE /\ buffers_' = Append(buffers_, The(currentBuffer_))
                /\ currentBuffer_' = <<BufferAppend(fresh, line)>>
                /\ nextBuffer_' = Null
                /\ lost' = IF Avail(fresh) > len THEN lost
                                                 ELSE lost \union {line.id}
                /\ pc' = IF pc = "wait" THEN "swap" ELSE pc
    /\ UNCHANGED <<running_, locals, output, main, now, errors, late, appended>>

\* start: the thread exists, and counts latch_ down before start returns.
Start ==
    /\ main = "new"
    /\ running_' = TRUE
    /\ pc' = "latch"
    /\ main' = "starting"
    /\ UNCHANGED <<front, locals, output, env>>

Started ==
    /\ main = "starting"
    /\ pc # "latch"
    /\ main' = "up"
    /\ UNCHANGED <<running_, front, locals, output, pc, env>>

\* stop, also from the destructor: the flag, the notification without the
\* mutex, the join.
Stop ==
    /\ main = "up"
    /\ running_' = FALSE
    /\ main' = "notify"
    /\ UNCHANGED <<front, locals, output, pc, env>>

StopNotify ==
    /\ main = "notify"
    /\ pc' = IF pc = "wait" THEN "swap" ELSE pc
    /\ main' = "join"
    /\ UNCHANGED <<running_, front, locals, output, env>>

Joined ==
    /\ main = "join"
    /\ pc = "done"
    /\ main' = "stopped"
    /\ UNCHANGED <<running_, front, locals, output, pc, env>>

\* LOG_FATAL: the line is appended, g_flush is stdout's, and the process is
\* gone with everything that is not on disk.
Abort ==
    /\ main \in {"up", "notify", "join"}
    /\ main' = "aborted"
    /\ pc' = "dead"
    /\ UNCHANGED <<running_, front, locals, output, env>>

-----------------------------------------------------------------------------
(* The back end: threadFunc *)

Begin ==
    /\ pc = "latch"
    /\ output' = NewLogFile(now)
    /\ newBuffer1' = <<NewBuffer>>
    /\ newBuffer2' = <<NewBuffer>>
    /\ pc' = "test"
    /\ UNCHANGED <<running_, front, buffersToWrite, position, main, env>>

\* while (running_); the last flush is behind the loop.
TestRunning ==
    /\ pc = "test"
    /\ \/ running_ /\ pc' = "lock" /\ UNCHANGED output
       \/ ~running_ /\ pc' = "done" /\ output' = Flush(output)
    /\ UNCHANGED <<running_, front, locals, main, env>>

\* if (buffers_.empty()) wait: not a loop.
LockAndWait ==
    /\ pc = "lock"
    /\ pc' = IF buffers_ = <<>> THEN "wait" ELSE "swap"
    /\ UNCHANGED <<running_, front, locals, output, main, env>>

\* A wait without a timeout.
WaitEnds_Never == pc = "wait" /\ FALSE /\ UNCHANGED vars

\* The timeout of waitForSeconds.
WaitEnds ==
    /\ pc = "wait"
    /\ pc' = "swap"
    /\ UNCHANGED <<running_, front, locals, output, main, env>>

\* The full buffers are copied, and stay where they were.
Swap_Copies ==
    /\ pc = "swap"
    /\ buffersToWrite' = Append(buffers_, The(currentBuffer_))
    /\ currentBuffer_' = newBuffer1
    /\ newBuffer1' = Null
    /\ IF nextBuffer_ = Null
       THEN nextBuffer_' = newBuffer2 /\ newBuffer2' = Null
       ELSE UNCHANGED <<nextBuffer_, newBuffer2>>
    /\ pc' = "drop"
    /\ UNCHANGED <<running_, buffers_, position, output, main, env>>

\* The critical section's second half.
Swap ==
    /\ pc = "swap"
    /\ buffersToWrite' = Append(buffers_, The(currentBuffer_))
    /\ buffers_' = <<>>
    /\ currentBuffer_' = newBuffer1
    /\ newBuffer1' = Null
    /\ IF nextBuffer_ = Null
       THEN nextBuffer_' = newBuffer2 /\ newBuffer2' = Null
       ELSE UNCHANGED <<nextBuffer_, newBuffer2>>
    /\ pc' = "drop"
    /\ UNCHANGED <<running_, position, output, main, env>>

\* History: is the file that was appended to behind its time?
AppendedNow ==
    /\ appended' = now
    /\ late' = IF output'.startOfPeriod_ = Period(now) THEN 0 ELSE late + 1

\* The line that stands for what was dropped.
Marker == [id |-> 0, len |-> 1]

\* A backlog is cut down to its first two buffers, with a line that says so.
DropBacklog ==
    /\ pc = "drop"
    /\ IF Len(buffersToWrite) > kMaxBacklog
       THEN /\ output' = AppendUnlocked(output, <<Marker>>, 1, now)
            /\ buffersToWrite' = SubSeq(buffersToWrite, 1, 2)
            /\ lost' = lost \union UNION {IdsOf(buffersToWrite[i].lines) :
                                             i \in 3..Len(buffersToWrite)}
            /\ AppendedNow
       ELSE UNCHANGED <<output, buffersToWrite, lost, late, appended>>
    /\ position' = 1
    /\ pc' = "write"
    /\ UNCHANGED <<running_, front, newBuffer1, newBuffer2, main, now,
                   logged, errors>>

\* output.append of the next buffer.  fwrite is short only when the stream
\* has an error: the first n lines get into the file, and append's loop ends
\* before it has counted them.
WriteBuffer ==
    /\ pc = "write"
    /\ position <= Len(buffersToWrite)
    /\ position' = position + 1
    /\ LET b == buffersToWrite[position]
           whole == Len(b.lines)
       IN  \E n \in 0..whole :
             /\ n < whole => errors < MaxErrors
             /\ errors' = IF n < whole THEN errors + 1 ELSE errors
             /\ lost' = lost \union IdsOf(SubSeq(b.lines, n + 1, whole))
             /\ output' = AppendUnlocked(output, SubSeq(b.lines, 1, n),
                                         IF n < whole THEN 0 ELSE b.length, now)
    /\ AppendedNow
    /\ UNCHANGED <<running_, front, newBuffer1, newBuffer2, buffersToWrite, pc,
                   main, now, logged>>

\* The second buffer is left to be destroyed with the others.
Recycle_OnlyOne ==
    /\ pc = "write"
    /\ position > Len(buffersToWrite)
    /\ newBuffer1' = IF newBuffer1 = Null THEN <<NewBuffer>> ELSE newBuffer1
    /\ newBuffer2' = newBuffer2
    /\ buffersToWrite' = <<>>
    /\ position' = 1
    /\ output' = Flush(output)
    /\ pc' = "test"
    /\ UNCHANGED <<running_, front, main, env>>

\* Two of the written buffers, reset, become the new spare ones; the rest is
\* destroyed.  What was written is flushed.
Recycle ==
    /\ pc = "write"
    /\ position > Len(buffersToWrite)
    /\ newBuffer1' = IF newBuffer1 = Null THEN <<NewBuffer>> ELSE newBuffer1
    /\ newBuffer2' = IF newBuffer2 = Null THEN <<NewBuffer>> ELSE newBuffer2
    /\ buffersToWrite' = <<>>
    /\ position' = 1
    /\ output' = Flush(output)
    /\ pc' = "test"
    /\ UNCHANGED <<running_, front, main, env>>

-----------------------------------------------------------------------------
(* The environment *)

Tick ==
    /\ now < MaxTime
    /\ now' = now + 1
    /\ UNCHANGED <<running_, front, locals, output, pc, main, logged, lost,
                   errors, late, appended>>

BackEnd ==
    \/ Begin
    \/ TestRunning
    \/ LockAndWait
    \/ WaitEnds
    \/ Swap
    \/ DropBacklog
    \/ WriteBuffer
    \/ Recycle

Main == Started \/ StopNotify \/ Joined

Next ==
    \/ BackEnd
    \/ Main
    \/ Start
    \/ Stop
    \/ Abort
    \/ \E len \in Lengths : AppendLine(len)
    \/ Tick

Spec == Init /\ [][Next]_vars

\* The threads are scheduled, and a timed wait ends.  Nobody has to log, to
\* start or to stop.
FairSpec == Spec /\ WF_vars(BackEnd) /\ WF_vars(Main)

-----------------------------------------------------------------------------
(* Properties *)

IsSpare(p) == p # Null /\ The(p).length = 0

\* The assertions of threadFunc hold: both spare buffers are there and empty
\* at the top of the loop (AsyncLogging.cc:51-53), there is something to
\* write (68), and a written buffer for each spare one that is missing (91,
\* 98), although each is given away on a different condition.
AssertionsHold ==
    /\ pc \in {"lock", "wait", "swap"} =>
          IsSpare(newBuffer1) /\ IsSpare(newBuffer2) /\ buffersToWrite = <<>>
    /\ pc \in {"drop", "write"} =>
          /\ newBuffer1 = Null
          /\ Len(buffersToWrite) >= IF newBuffer2 = Null THEN 2 ELSE 1
    /\ main # "aborted" => currentBuffer_ # Null

\* Line numbers in ascending order; the marker of a dropped backlog has none.
InOrder(lines) ==
    \A i, j \in DOMAIN lines :
        (i < j /\ lines[i].id # 0 /\ lines[j].id # 0) => lines[i].id < lines[j].id

Before(ids, others) == \A a \in ids, b \in others : a < b

\* The lines of a sequence of buffers, from buffer n on.
IdsFrom(bs, n) == UNION {IdsOf(bs[i].lines) : i \in n..Len(bs)}

InOrderFrom(bs, n) ==
    \A i \in n..Len(bs) :
        /\ InOrder(bs[i].lines)
        /\ \A j \in i + 1..Len(bs) : Before(IdsOf(bs[i].lines), IdsOf(bs[j].lines))

\* Every line logged is in exactly one place, and the places are in order:
\* disk and stdio buffer, buffers being written, full buffers, current
\* buffer.  Only lines too long for a buffer, of a dropped backlog, or cut
\* off by an error of the file are missing.
NothingLost ==
    LET file == output.disk \o output.buffered
        filed == IdsOf(file) \ {0}
        writing == IdsFrom(buffersToWrite, position)
        full == IdsFrom(buffers_, 1)
        current == IdsOf(The(currentBuffer_).lines)
    IN  /\ filed \union writing \union full \union current = 1..logged \ lost
        /\ InOrder(file) /\ InOrderFrom(buffersToWrite, position)
        /\ InOrderFrom(buffers_, 1) /\ InOrder(The(currentBuffer_).lines)
        /\ Before(filed, writing \union full \union current)
        /\ Before(writing, full \union current)
        /\ Before(full, current)

\* The file is rolled in time: one that is over its size has been opened in
\* the very second of its last append, and a file of an earlier period gets
\* fewer than checkEveryN further appends.
RolledInTime ==
    /\ output.writtenBytes_ > rollSize => appended <= output.lastRoll_
    /\ late < checkEveryN

\* The back end gets on: stop() returns, although its notification may come
\* between the test of running_ and the wait and be lost, because the wait
\* is timed; and a line logged while the logging runs gets to disk or is
\* given up, unless the logging is stopped or the program aborts first.
LinesGetOut ==
    /\ (main = "notify") ~> (main \in {"stopped", "aborted"})
    /\ \A n \in 1..MaxLines :
          (main = "up" /\ logged >= n) ~>
              \/ n \in lost \union IdsOf(output.disk)
              \/ main # "up"
=============================================================================
