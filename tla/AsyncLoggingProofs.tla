------------------------- MODULE AsyncLoggingProofs -------------------------
(***************************************************************************)
(* Proofs about AsyncLogging, for every buffer size, every backlog of two  *)
(* or more buffers and any number of lines.                                *)
(***************************************************************************)
EXTENDS AsyncLogging, SequenceTheorems, TLAPS

Line == [id : Nat, len : Nat]
FixedBuffer == [lines : Seq(Line), length : Nat]
BufferPtr == {Null} \union {<<b>> : b \in FixedBuffer}

\* The types of what the four buffers circulate through.
BuffersTyped ==
    /\ logged \in Nat
    /\ currentBuffer_ \in BufferPtr
    /\ nextBuffer_ \in {Null, <<NewBuffer>>}
    /\ buffers_ \in Seq(FixedBuffer)
    /\ buffersToWrite \in Seq(FixedBuffer)
    /\ newBuffer1 \in {Null, <<NewBuffer>>}
    /\ newBuffer2 \in {Null, <<NewBuffer>>}

\* Who owns the buffers at each place of the back end.  The spare next
\* buffer is missing only while a full buffer is waiting: this is why there
\* is a second written buffer when the back end has given both spares away.
Owned ==
    /\ main = "new" => pc = "none"
    /\ currentBuffer_ # Null
    /\ nextBuffer_ = Null => buffers_ # <<>>
    /\ pc \in {"test", "lock", "wait", "swap"} =>
          /\ newBuffer1 = <<NewBuffer>> /\ newBuffer2 = <<NewBuffer>>
    /\ pc \in {"none", "latch", "test", "lock", "wait", "swap"} =>
          buffersToWrite = <<>>
    /\ pc \in {"drop", "write"} =>
          /\ newBuffer1 = Null
          /\ Len(buffersToWrite) >= IF newBuffer2 = Null THEN 2 ELSE 1

IInv == BuffersTyped /\ Owned

\* An empty buffer has its type, and what is appended to one too.
LEMMA NewBufferType == NewBuffer \in FixedBuffer /\ <<NewBuffer>> \in BufferPtr
<1>1. <<>> \in Seq(Line)
  OBVIOUS
<1>2. NewBuffer \in FixedBuffer
  BY <1>1 DEF NewBuffer, FixedBuffer
<1> QED  BY <1>2 DEF BufferPtr

LEMMA BufferAppendType ==
    ASSUME NEW b \in FixedBuffer, NEW line \in Line
    PROVE  BufferAppend(b, line) \in FixedBuffer
<1>1. Append(b.lines, line) \in Seq(Line) /\ b.length + line.len \in Nat
  BY DEF FixedBuffer, Line
<1> QED  BY <1>1 DEF BufferAppend, FixedBuffer

LEMMA TheType ==
    ASSUME NEW p \in BufferPtr, p # Null
    PROVE  The(p) \in FixedBuffer /\ p = <<The(p)>>
  BY DEF BufferPtr, The, Null

LEMMA InitIInv == Init => IInv
<1> SUFFICES ASSUME Init PROVE IInv
  OBVIOUS
<1>1. BuffersTyped
  BY NewBufferType DEF Init, BuffersTyped, BufferPtr, Null
<1>2. Owned
  BY DEF Init, Owned, Null
<1> QED  BY <1>1, <1>2 DEF IInv

\* append, whichever buffer the line goes to, preserves the invariant.
LEMMA AppendIInv ==
    ASSUME IInv, NEW len \in Lengths, AppendLine(len)
    PROVE  IInv'
<1> DEFINE line == [id |-> logged + 1, len |-> len]
           fresh == IF nextBuffer_ # Null THEN The(nextBuffer_) ELSE NewBuffer
           current == The(currentBuffer_)
<1>1. line \in Line /\ logged + 1 \in Nat
  BY LoggingAssumption DEF IInv, BuffersTyped, Line
<1>2. current \in FixedBuffer
  BY TheType DEF IInv, BuffersTyped, Owned
<1>3. fresh \in FixedBuffer
  BY TheType, NewBufferType DEF IInv, BuffersTyped
<1>4. BufferAppend(current, line) \in FixedBuffer /\ BufferAppend(fresh, line) \in FixedBuffer
  BY <1>1, <1>2, <1>3, BufferAppendType
<1>5. \A b \in FixedBuffer : <<b>> \in BufferPtr /\ <<b>> # Null
  BY DEF BufferPtr, Null
<1>6. UNCHANGED <<newBuffer1, newBuffer2, buffersToWrite>> /\ logged' = logged + 1 /\ main' = main
  BY DEF AppendLine, locals
<1>7. CASE Avail(current) > len
  <2>1. /\ currentBuffer_' = <<BufferAppend(current, line)>>
        /\ UNCHANGED <<nextBuffer_, buffers_, pc>>
    BY <1>7 DEF AppendLine
  <2> HIDE DEF line, current, fresh
  <2>2. BuffersTyped'
    BY <1>1, <1>4, <1>5, <1>6, <2>1 DEF IInv, BuffersTyped
  <2>3. Owned'
    BY <1>4, <1>5, <1>6, <2>1 DEF IInv, Owned
  <2> QED  BY <2>2, <2>3 DEF IInv
<1>8. CASE ~(Avail(current) > len)
  <2>1. /\ buffers_' = Append(buffers_, current)
        /\ currentBuffer_' = <<BufferAppend(fresh, line)>>
        /\ nextBuffer_' = Null
        /\ pc' = IF pc = "wait" THEN "swap" ELSE pc
    BY <1>8 DEF AppendLine
  <2> HIDE DEF line, current, fresh
  <2>2. buffers_' \in Seq(FixedBuffer) /\ buffers_' # <<>>
    BY <1>2, <2>1 DEF IInv, BuffersTyped
  <2>3. BuffersTyped'
    BY <1>1, <1>4, <1>5, <1>6, <2>1, <2>2 DEF IInv, BuffersTyped, BufferPtr
  <2>4. Owned'
    BY <1>4, <1>5, <1>6, <2>1, <2>2 DEF IInv, Owned
  <2> QED  BY <2>3, <2>4 DEF IInv
<1> QED  BY <1>7, <1>8

\* The swap gives away one spare buffer, or both.
LEMMA SwapIInv == ASSUME IInv, Swap PROVE IInv'
<1> DEFINE current == The(currentBuffer_)
<1>1. current \in FixedBuffer
  BY TheType DEF IInv, BuffersTyped, Owned
<1>2. newBuffer1 = <<NewBuffer>> /\ newBuffer2 = <<NewBuffer>>
  BY DEF Swap, IInv, Owned
<1>3. /\ buffersToWrite' = Append(buffers_, current)
      /\ buffers_' = <<>>
      /\ currentBuffer_' = <<NewBuffer>>
      /\ newBuffer1' = Null
      /\ pc = "swap" /\ pc' = "drop"
      /\ logged' = logged /\ main' = main
  BY <1>2 DEF Swap, env
<1>4. \/ nextBuffer_ = Null /\ nextBuffer_' = <<NewBuffer>> /\ newBuffer2' = Null
      \/ nextBuffer_ # Null /\ nextBuffer_' = nextBuffer_ /\ newBuffer2' = <<NewBuffer>>
  BY <1>2 DEF Swap
<1> HIDE DEF current
<1>5. /\ buffersToWrite' \in Seq(FixedBuffer)
      /\ Len(buffersToWrite') = Len(buffers_) + 1
      /\ Len(buffers_) \in Nat
      /\ buffers_ # <<>> => Len(buffers_) >= 1
  BY <1>1, <1>3 DEF IInv, BuffersTyped
<1>6. <<NewBuffer>> # Null
  BY DEF Null
<1>7. BuffersTyped'
  BY <1>3, <1>4, <1>5, NewBufferType DEF IInv, BuffersTyped
<1>8. Owned'
  BY <1>3, <1>4, <1>5, <1>6 DEF IInv, Owned
<1> QED  BY <1>7, <1>8 DEF IInv

\* A backlog is cut down to two buffers, which is enough for both spares.
LEMMA DropIInv == ASSUME IInv, DropBacklog PROVE IInv'
<1>1. /\ UNCHANGED <<currentBuffer_, nextBuffer_, buffers_, newBuffer1, newBuffer2, logged, main>>
      /\ pc = "drop" /\ pc' = "write"
  BY DEF DropBacklog, front
<1>2. Len(buffersToWrite) \in Nat /\ buffersToWrite \in Seq(FixedBuffer)
  BY DEF IInv, BuffersTyped
<1>3. CASE Len(buffersToWrite) > kMaxBacklog
  <2>1. buffersToWrite' = SubSeq(buffersToWrite, 1, 2)
    BY <1>3 DEF DropBacklog
  <2>2. Len(buffersToWrite) > 2
    BY <1>2, <1>3, LoggingAssumption
  <2>3. buffersToWrite' \in Seq(FixedBuffer) /\ Len(buffersToWrite') = 2
    BY <1>2, <2>1, <2>2
  <2> QED  BY <1>1, <2>3 DEF IInv, BuffersTyped, Owned
<1>4. CASE ~(Len(buffersToWrite) > kMaxBacklog)
  <2>1. buffersToWrite' = buffersToWrite
    BY <1>4 DEF DropBacklog
  <2> QED  BY <1>1, <2>1 DEF IInv, BuffersTyped, Owned
<1> QED  BY <1>3, <1>4

\* The two missing spares are made of written buffers.
LEMMA RecycleIInv == ASSUME IInv, Recycle PROVE IInv'
<1>1. /\ UNCHANGED <<currentBuffer_, nextBuffer_, buffers_, logged>>
      /\ pc = "write" /\ pc' = "test" /\ main' = main
      /\ buffersToWrite' = <<>>
      /\ newBuffer1' = <<NewBuffer>> /\ newBuffer2' = <<NewBuffer>>
  BY DEF Recycle, front, env, IInv, BuffersTyped
<1>2. <<>> \in Seq(FixedBuffer)
  OBVIOUS
<1> QED  BY <1>1, <1>2 DEF IInv, BuffersTyped, Owned

\* Every step preserves the invariant.
LEMMA NextIInv == IInv /\ [Next]_vars => IInv'
<1> SUFFICES ASSUME IInv, [Next]_vars PROVE IInv'
  OBVIOUS
<1> DEFINE Owners == <<currentBuffer_, nextBuffer_, buffers_, newBuffer1, newBuffer2,
                       buffersToWrite, logged>>
<1>1. ASSUME UNCHANGED Owners,
             main' = "new" => main = "new" /\ pc' = pc,
             \/ pc' = pc
             \/ pc' = "dead" \/ pc' = "done"
             \/ pc \in {"lock", "wait"} /\ pc' \in {"wait", "swap"}
             \/ pc = "test" /\ pc' = "lock"
             \/ main = "new" /\ pc' = "latch"
      PROVE  IInv'
  <2>1. BuffersTyped'
    BY <1>1 DEF IInv, BuffersTyped
  <2>2. Owned'
    BY <1>1 DEF IInv, Owned
  <2> QED  BY <2>1, <2>2 DEF IInv
<1>2. CASE Begin
  <2>1. /\ UNCHANGED <<currentBuffer_, nextBuffer_, buffers_, buffersToWrite, logged, main>>
        /\ newBuffer1' = <<NewBuffer>> /\ newBuffer2' = <<NewBuffer>>
        /\ pc = "latch" /\ pc' = "test"
    BY <1>2 DEF Begin, front, env
  <2> QED  BY <2>1 DEF IInv, BuffersTyped, Owned
<1>3. CASE TestRunning
  BY <1>1, <1>3 DEF IInv, Owned, TestRunning, front, locals, env
<1>4. CASE LockAndWait
  BY <1>1, <1>4 DEF IInv, Owned, LockAndWait, front, locals, env
<1>5. CASE WaitEnds
  BY <1>1, <1>5 DEF IInv, Owned, WaitEnds, front, locals, env
<1>6. CASE Swap
  BY <1>6, SwapIInv
<1>7. CASE DropBacklog
  BY <1>7, DropIInv
<1>8. CASE WriteBuffer
  <2>1. UNCHANGED <<Owners, pc, main>>
    BY <1>8 DEF WriteBuffer, front
  <2> QED  BY <1>1, <2>1
<1>9. CASE Recycle
  BY <1>9, RecycleIInv
<1>10. CASE Started \/ StopNotify \/ Joined
  BY <1>1, <1>10 DEF Started, StopNotify, Joined, front, locals, env
<1>11. CASE Start
  BY <1>1, <1>11 DEF Start, front, locals, env
<1>12. CASE Stop \/ Abort
  BY <1>1, <1>12 DEF Stop, Abort, front, locals, env
<1>13. CASE \E len \in Lengths : AppendLine(len)
  BY <1>13, AppendIInv
<1>14. CASE Tick
  BY <1>1, <1>14 DEF Tick, front, locals
<1>15. CASE UNCHANGED vars
  BY <1>1, <1>15 DEF vars
<1> QED  BY <1>2, <1>3, <1>4, <1>5, <1>6, <1>7, <1>8, <1>9, <1>10, <1>11,
            <1>12, <1>13, <1>14, <1>15 DEF Next, BackEnd, Main

LEMMA InvImplies == IInv => AssertionsHold
  BY DEF IInv, Owned, AssertionsHold, IsSpare, The, Null, NewBuffer

LEMMA Invariant == Spec => []IInv
  BY InitIInv, NextIInv, PTL DEF Spec

\* In every behaviour of AsyncLogging, whatever the threads append and
\* whenever they do, the assertions of threadFunc hold (AsyncLogging.cc:51-53,
\* 68, 91, 98): the back end never runs out of spare buffers.
THEOREM BackEndAssertionsHold == Spec => []AssertionsHold
  BY Invariant, InvImplies, PTL

-----------------------------------------------------------------------------
(* LogFile.  The start of a period is only compared, so that Period stays  *)
(* closed in the proofs.                                                   *)

LogFileType ==
    [name : Nat, writtenBytes_ : Nat, buffered : Seq(Line), disk : Seq(Line),
     count_ : Nat, startOfPeriod_ : {Period(t) : t \in Nat}, lastRoll_ : Nat,
     lastFlush_ : Nat]

\* A file belongs to the period in which it was opened.
Current(out) == out.startOfPeriod_ = Period(out.lastRoll_)

\* Everything appended so far, on disk or not.
Contents(out) == out.disk \o out.buffered

LEMMA ConcatAssociates ==
    \A s, t, u \in Seq(Line) : (s \o t) \o u = s \o (t \o u)
<1> TAKE s, t, u \in Seq(Line)
<1> DEFINE S == Line
<1> HIDE DEF S
<1>1. s \in Seq(S) /\ t \in Seq(S) /\ u \in Seq(S)
  BY DEF S
<1> QED  BY <1>1, ConcatAssociative

\* A flush moves lines to the disk, and changes nothing else.
LEMMA FlushFile ==
    ASSUME NEW out \in LogFileType
    PROVE  LET new == Flush(out) IN
           /\ new \in LogFileType
           /\ Contents(new) = Contents(out)
           /\ new.writtenBytes_ = out.writtenBytes_ /\ new.count_ = out.count_
           /\ new.startOfPeriod_ = out.startOfPeriod_
           /\ new.lastRoll_ = out.lastRoll_
<1>1. out.disk \in Seq(Line) /\ out.buffered \in Seq(Line) /\ <<>> \in Seq(Line)
  BY DEF LogFileType
<1>2. out.disk \o out.buffered \in Seq(Line)
  BY <1>1, ConcatProperties
<1>3. Flush(out) = [out EXCEPT !.disk = out.disk \o out.buffered,
                               !.buffered = <<>>]
  BY DEF Flush, LogFileType
<1> DEFINE both == out.disk \o out.buffered
<1>4. both \o <<>> = both
  BY <1>2, ConcatEmptySeq
<1> HIDE DEF both
<1>5. /\ Flush(out).disk = both /\ Flush(out).buffered = <<>>
      /\ Flush(out).writtenBytes_ = out.writtenBytes_
      /\ Flush(out).count_ = out.count_
      /\ Flush(out).startOfPeriod_ = out.startOfPeriod_
      /\ Flush(out).lastRoll_ = out.lastRoll_
      /\ Flush(out) \in LogFileType
  BY <1>1, <1>2, <1>3 DEF LogFileType, both
<1> QED  BY <1>4, <1>5 DEF Contents, both

\* A file is opened when none was in this second.
LEMMA RollFileFacts ==
    ASSUME NEW out \in LogFileType, NEW t \in Nat, out.lastRoll_ <= t,
           Current(out)
    PROVE  LET new == RollFile(out, t) IN
           /\ new \in LogFileType /\ Current(new)
           /\ Contents(new) = Contents(out)
           /\ new.lastRoll_ = t /\ new.startOfPeriod_ = Period(t)
           /\ new.count_ = out.count_
<1>1. CASE t > out.lastRoll_
  <2> DEFINE f == Flush(out)
             new == [f EXCEPT !.lastRoll_ = t, !.lastFlush_ = t,
                              !.startOfPeriod_ = Period(t),
                              !.name = t, !.writtenBytes_ = 0]
  <2>1. f \in LogFileType /\ Contents(f) = Contents(out) /\ f.count_ = out.count_
    BY FlushFile
  <2>2. RollFile(out, t) = new
    BY <1>1 DEF RollFile
  <2> HIDE DEF f
  <2>3. /\ new \in LogFileType /\ new.disk = f.disk /\ new.buffered = f.buffered
        /\ new.lastRoll_ = t /\ new.startOfPeriod_ = Period(t)
        /\ new.count_ = f.count_
    BY <2>1 DEF LogFileType
  <2> QED  BY <2>1, <2>2, <2>3 DEF Contents, Current
<1>2. CASE ~(t > out.lastRoll_)
  <2>1. out.lastRoll_ = t /\ RollFile(out, t) = out
    BY <1>2 DEF RollFile, LogFileType
  <2> QED  BY <2>1 DEF Current
<1> QED  BY <1>1, <1>2

LEMMA NewLogFileFacts ==
    ASSUME NEW t \in Nat \ {0}
    PROVE  LET new == NewLogFile(t) IN
           /\ new \in LogFileType /\ Current(new) /\ Contents(new) = <<>>
           /\ new.disk = <<>> /\ new.buffered = <<>>
           /\ new.lastRoll_ = t /\ new.count_ = 0 /\ new.writtenBytes_ = 0
<1> DEFINE new == [name |-> t, writtenBytes_ |-> 0, buffered |-> <<>>,
                   disk |-> <<>> \o <<>>, count_ |-> 0,
                   startOfPeriod_ |-> Period(t), lastRoll_ |-> t,
                   lastFlush_ |-> t]
<1>1. NewLogFile(t) = new
  <2> DEFINE empty == [name |-> 0, writtenBytes_ |-> 0, buffered |-> <<>>,
                       disk |-> <<>>, count_ |-> 0, startOfPeriod_ |-> 0,
                       lastRoll_ |-> 0, lastFlush_ |-> 0]
             flushed == [empty EXCEPT !.disk = <<>> \o <<>>, !.buffered = <<>>]
  <2>1. t > empty.lastRoll_
    OBVIOUS
  <2>2. Flush(empty) = flushed
    BY DEF Flush
  <2>3. NewLogFile(t) = [flushed EXCEPT !.lastRoll_ = t, !.lastFlush_ = t,
                                        !.startOfPeriod_ = Period(t),
                                        !.name = t, !.writtenBytes_ = 0]
    BY <2>1, <2>2 DEF NewLogFile, RollFile
  <2> QED  BY <2>3
<1>2. <<>> \o <<>> = <<>> /\ <<>> \in Seq(Line)
  OBVIOUS
<1>3. new \in LogFileType
  BY <1>2 DEF LogFileType
<1> QED  BY <1>1, <1>2, <1>3 DEF Current, Contents

\* LogFile::append: the lines are at the end; a file that stays too long was
\* opened in this very second; and a file of another period has counted one
\* more append, and has not reached checkEveryN.
LEMMA AppendUnlockedFacts ==
    ASSUME NEW out \in LogFileType, NEW lines \in Seq(Line), NEW bytes \in Nat,
           NEW t \in Nat, out.lastRoll_ <= t, Current(out),
           out.count_ < checkEveryN
    PROVE  LET new == AppendUnlocked(out, lines, bytes, t) IN
           /\ new \in LogFileType /\ Current(new)
           /\ Contents(new) = Contents(out) \o lines
           /\ new.lastRoll_ <= t /\ new.count_ < checkEveryN
           /\ new.writtenBytes_ > rollSize => t <= new.lastRoll_
           /\ new.startOfPeriod_ = Period(t) \/ new.count_ = out.count_ + 1
<1> DEFINE after == AppendFile(out, lines, bytes)
           counted == [after EXCEPT !.count_ = @ + 1]
           new == AppendUnlocked(out, lines, bytes, t)
<1>1. /\ after \in LogFileType /\ Current(after)
      /\ Contents(after) = Contents(out) \o lines
      /\ after.lastRoll_ = out.lastRoll_ /\ after.count_ = out.count_
  <2>1. out.disk \in Seq(Line) /\ out.buffered \in Seq(Line)
    BY DEF LogFileType
  <2>2. /\ out.buffered \o lines \in Seq(Line)
        /\ out.disk \o (out.buffered \o lines)
              = (out.disk \o out.buffered) \o lines
    <3>1. out.buffered \o lines \in Seq(Line)
      BY <2>1, ConcatProperties
    <3>2. (out.disk \o out.buffered) \o lines
             = out.disk \o (out.buffered \o lines)
      BY <2>1, ConcatAssociates
    <3> QED  BY <3>1, <3>2
  <2> DEFINE more == out.buffered \o lines
  <2>3. after = [out EXCEPT !.buffered = more,
                            !.writtenBytes_ = out.writtenBytes_ + bytes]
    BY DEF AppendFile, LogFileType
  <2>a. out.writtenBytes_ + bytes \in Nat
    BY DEF LogFileType
  <2> DEFINE sum == out.writtenBytes_ + bytes
  <2> HIDE DEF more, sum
  <2>4. /\ [out EXCEPT !.buffered = more,
                       !.writtenBytes_ = sum] \in LogFileType
        /\ after.disk = out.disk /\ after.buffered = more
        /\ after.startOfPeriod_ = out.startOfPeriod_
        /\ after.lastRoll_ = out.lastRoll_ /\ after.count_ = out.count_
    BY <2>2, <2>3, <2>a DEF LogFileType, more, sum
  <2> QED  BY <2>2, <2>3, <2>4 DEF Contents, Current, more, sum
<1> HIDE DEF after
<1>2. CASE after.writtenBytes_ > rollSize
  <2>1. new = RollFile(after, t)
    BY <1>2 DEF AppendUnlocked, after
  <2>2. /\ new \in LogFileType /\ Current(new)
        /\ Contents(new) = Contents(after)
        /\ new.lastRoll_ = t /\ new.startOfPeriod_ = Period(t)
        /\ new.count_ = after.count_
    BY <1>1, <2>1, RollFileFacts
  <2> HIDE DEF new
  <2>3. new.lastRoll_ <= t
    BY <2>2
  <2> QED  BY <1>1, <2>2, <2>3 DEF new
<1>3. CASE ~(after.writtenBytes_ > rollSize)
  <2>1. /\ counted \in LogFileType /\ Current(counted)
        /\ Contents(counted) = Contents(after)
        /\ counted.lastRoll_ = out.lastRoll_ /\ counted.count_ = out.count_ + 1
        /\ ~(counted.writtenBytes_ > rollSize)
    <3>1. after.count_ + 1 \in Nat
      BY <1>1, SMTT(60) DEF LogFileType
    <3> DEFINE next == after.count_ + 1
    <3> HIDE DEF next
    <3>2. /\ [after EXCEPT !.count_ = next] \in LogFileType
          /\ counted = [after EXCEPT !.count_ = next]
      BY <1>1, <3>1 DEF LogFileType, next
    <3>3. /\ counted.disk = after.disk /\ counted.buffered = after.buffered
          /\ counted.lastRoll_ = after.lastRoll_
          /\ counted.writtenBytes_ = after.writtenBytes_
          /\ counted.startOfPeriod_ = after.startOfPeriod_
          /\ counted.count_ = next
      BY <1>1, <3>2 DEF LogFileType
    <3> QED  BY <1>1, <1>3, <3>2, <3>3 DEF Contents, Current, next
  <2>2. new = CheckTime(counted, t)
    BY <1>3 DEF AppendUnlocked, after
  <2> DEFINE zero == [counted EXCEPT !.count_ = 0]
  <2> HIDE DEF counted
  <2>3. /\ zero \in LogFileType /\ Current(zero)
        /\ Contents(zero) = Contents(counted)
        /\ zero.lastRoll_ = out.lastRoll_ /\ zero.count_ = 0
        /\ zero.writtenBytes_ = counted.writtenBytes_
        /\ zero.startOfPeriod_ = counted.startOfPeriod_
    BY <2>1 DEF LogFileType, Contents, Current
  <2>4. 0 < checkEveryN /\ rollSize \in Nat
    BY LogFileAssumption
  <2>5. CASE counted.count_ < checkEveryN
    BY <1>1, <2>1, <2>2, <2>5 DEF CheckTime
  <2>6. CASE ~(counted.count_ < checkEveryN) /\ Period(t) # counted.startOfPeriod_
    <3>1. new = RollFile(zero, t)
      BY <2>2, <2>6 DEF CheckTime
    <3> HIDE DEF zero, new
    <3>2. /\ new \in LogFileType /\ Current(new)
          /\ Contents(new) = Contents(zero)
          /\ new.lastRoll_ = t /\ new.startOfPeriod_ = Period(t)
          /\ new.count_ = 0
      BY <2>3, <3>1, RollFileFacts
    <3>3. new.lastRoll_ <= t /\ t <= new.lastRoll_
      BY <3>2
    <3> QED  BY <1>1, <2>1, <2>3, <2>4, <3>2, <3>3 DEF new
  <2>7. CASE ~(counted.count_ < checkEveryN) /\ Period(t) = counted.startOfPeriod_
    <3>1. CASE ~(t - counted.lastFlush_ > flushInterval)
      <4>1. new = zero
        BY <2>2, <2>7, <3>1 DEF CheckTime
      <4> HIDE DEF zero, new
      <4> QED  BY <1>1, <2>1, <2>3, <2>4, <2>7, <4>1 DEF new
    <3>2. CASE t - counted.lastFlush_ > flushInterval
      <4> DEFINE f == Flush(counted)
      <4>1. new = [f EXCEPT !.count_ = 0, !.lastFlush_ = t]
        BY <2>2, <2>7, <3>2 DEF CheckTime
      <4>2. /\ f \in LogFileType /\ Contents(f) = Contents(counted)
            /\ f.writtenBytes_ = counted.writtenBytes_
            /\ f.startOfPeriod_ = counted.startOfPeriod_
            /\ f.lastRoll_ = counted.lastRoll_
        BY <2>1, FlushFile
      <4> HIDE DEF f, new
      <4>3. /\ new \in LogFileType /\ Contents(new) = Contents(f)
            /\ new.writtenBytes_ = f.writtenBytes_ /\ new.count_ = 0
            /\ new.startOfPeriod_ = f.startOfPeriod_
            /\ new.lastRoll_ = f.lastRoll_
        BY <4>1, <4>2 DEF LogFileType, Contents
      <4> QED  BY <1>1, <2>1, <2>4, <2>7, <4>2, <4>3 DEF new, Current
    <3> QED  BY <3>1, <3>2
  <2> QED  BY <2>5, <2>6, <2>7
<1> QED  BY <1>2, <1>3

\* The file's count of appends since it last looked at the clock is what
\* keeps it from missing the end of its period.
FileInv ==
    /\ output \in LogFileType /\ Current(output)
    /\ now \in Nat \ {0} /\ position \in Nat \ {0} /\ late \in Nat
    /\ output.lastRoll_ <= now /\ output.count_ < checkEveryN
    /\ late <= output.count_
    /\ output.writtenBytes_ > rollSize => appended <= output.lastRoll_
    /\ pc \in {"none", "latch"} => late = 0 /\ Contents(output) = <<>>
    /\ pc \notin {"write", "dead"} => position = 1

LEMMA InitFileInv == Init => FileInv
<1> SUFFICES ASSUME Init PROVE FileInv
  OBVIOUS
<1>1. output = NewLogFile(1) /\ 1 \in Nat \ {0}
  BY DEF Init
<1>2. /\ output \in LogFileType /\ Current(output) /\ Contents(output) = <<>>
      /\ output.lastRoll_ = 1 /\ output.count_ = 0 /\ output.writtenBytes_ = 0
  BY <1>1, NewLogFileFacts
<1> QED  BY <1>2, LogFileAssumption DEF Init, FileInv

\* Steps that leave the file as it is, but for a flush.
LEMMA QuietFileInv ==
    ASSUME FileInv, output' = output \/ output' = Flush(output),
           UNCHANGED <<late, appended>>, now' \in {now, now + 1},
           position' = position \/ position' = 1,
           pc' \in {"none", "latch"} => pc \in {"none", "latch"},
           pc' \notin {"write", "dead"} =>
               pc \notin {"write", "dead"} \/ position' = 1
    PROVE  FileInv'
<1>1. /\ output' \in LogFileType /\ Contents(output') = Contents(output)
      /\ output'.writtenBytes_ = output.writtenBytes_
      /\ output'.count_ = output.count_
      /\ output'.startOfPeriod_ = output.startOfPeriod_
      /\ output'.lastRoll_ = output.lastRoll_
  BY FlushFile DEF FileInv
<1>2. /\ now' \in Nat \ {0} /\ position' \in Nat \ {0}
      /\ output'.lastRoll_ <= now'
  BY <1>1, SMTT(60) DEF FileInv, LogFileType
<1> QED  BY <1>1, <1>2 DEF FileInv, Current, Contents

\* What LogFile::append and the history of it come to.
LEMMA AppendFileInv ==
    ASSUME FileInv, NEW lines \in Seq(Line), NEW bytes \in Nat,
           output' = AppendUnlocked(output, lines, bytes, now), AppendedNow,
           now' = now, position' \in Nat \ {0}, pc' = "write"
    PROVE  FileInv' /\ Contents(output') = Contents(output) \o lines
<1>1. /\ output' \in LogFileType /\ Current(output')
      /\ Contents(output') = Contents(output) \o lines
      /\ output'.lastRoll_ <= now /\ output'.count_ < checkEveryN
      /\ output'.writtenBytes_ > rollSize => now <= output'.lastRoll_
      /\ output'.startOfPeriod_ = Period(now) \/ output'.count_ = output.count_ + 1
  BY AppendUnlockedFacts DEF FileInv
<1>2. late' \in Nat /\ late' <= output'.count_
  <2>1. output.count_ \in Nat /\ output'.count_ \in Nat
    BY <1>1 DEF LogFileType, FileInv
  <2> QED  BY <1>1, <2>1 DEF AppendedNow, FileInv
<1>3. appended' = now
  BY DEF AppendedNow
<1> QED  BY <1>1, <1>2, <1>3 DEF FileInv, Current

\* What WriteBuffer appends, and what it loses.
LEMMA WriteBufferFacts ==
    ASSUME IInv, FileInv, WriteBuffer
    PROVE  /\ position \in 1..Len(buffersToWrite)
           /\ buffersToWrite[position] \in FixedBuffer
           /\ \E n \in 0..Len(buffersToWrite[position].lines), bytes \in Nat :
                 LET lines == buffersToWrite[position].lines IN
                 /\ SubSeq(lines, 1, n) \in Seq(Line)
                 /\ output' = AppendUnlocked(output, SubSeq(lines, 1, n), bytes, now)
                 /\ lost' = lost \union IdsOf(SubSeq(lines, n + 1, Len(lines)))
<1> DEFINE b == buffersToWrite[position]
           whole == Len(b.lines)
<1>1. /\ position \in 1..Len(buffersToWrite) /\ b \in FixedBuffer
      /\ b.lines \in Seq(Line) /\ b.length \in Nat
  <2>1. position \in 1..Len(buffersToWrite)
    BY LenProperties DEF WriteBuffer, FileInv, IInv, BuffersTyped
  <2>2. b \in FixedBuffer
    BY <2>1 DEF IInv, BuffersTyped
  <2> QED  BY <2>1, <2>2 DEF FixedBuffer
<1>2. PICK n \in 0..whole :
         /\ lost' = lost \union IdsOf(SubSeq(b.lines, n + 1, whole))
         /\ output' = AppendUnlocked(output, SubSeq(b.lines, 1, n),
                                     IF n < whole THEN 0 ELSE b.length, now)
  BY DEF WriteBuffer
<1>3. (IF n < whole THEN 0 ELSE b.length) \in Nat
  BY <1>1
<1>4. SubSeq(b.lines, 1, n) \in Seq(Line)
  BY <1>1, SubSeqProperties, LenProperties
<1> QED  BY <1>1, <1>2, <1>3, <1>4

LEMMA MarkerLine == <<Marker>> \in Seq(Line)
<1>1. Marker \in Line
  BY DEF Marker, Line
<1> QED  BY <1>1

LEMMA NextFileInv ==
    ASSUME IInv, FileInv, [Next]_vars
    PROVE  FileInv'
<1>1. CASE Begin
  <2>1. /\ output' = NewLogFile(now) /\ pc = "latch" /\ pc' = "test"
        /\ UNCHANGED <<late, appended, now, position>>
    BY <1>1 DEF Begin, env
  <2>2. now \in Nat \ {0} /\ late = 0 /\ position = 1
    BY <2>1 DEF FileInv
  <2>3. /\ output' \in LogFileType /\ Current(output')
        /\ output'.lastRoll_ = now /\ output'.count_ = 0
        /\ output'.writtenBytes_ = 0
    BY <2>1, <2>2, NewLogFileFacts
  <2> QED  BY <2>1, <2>2, <2>3, LogFileAssumption DEF FileInv, Current
<1>2. CASE TestRunning \/ LockAndWait \/ WaitEnds \/ Swap
  <2>1. /\ output' = output \/ output' = Flush(output)
        /\ UNCHANGED <<late, appended, now, position>>
        /\ pc \in {"test", "lock", "wait", "swap"}
        /\ pc' \in {"lock", "done", "wait", "swap", "drop"}
    BY <1>2 DEF TestRunning, LockAndWait, WaitEnds, Swap, env, locals
  <2> QED  BY <2>1, QuietFileInv
<1>3. CASE Recycle
  <2>1. /\ output' = Flush(output) /\ UNCHANGED <<late, appended, now>>
        /\ position' = 1 /\ pc' = "test"
    BY <1>3 DEF Recycle, env
  <2> QED  BY <2>1, QuietFileInv
<1>4. CASE Main \/ Start \/ Stop \/ Abort \/ Tick
  <2>1. /\ UNCHANGED <<output, late, appended, position>>
        /\ now' \in {now, now + 1}
        /\ \/ pc' = pc \/ pc' = "dead"
           \/ pc = "wait" /\ pc' = "swap"
           \/ main = "new" /\ pc' = "latch"
    <3>1. CASE Main
      BY <3>1 DEF Main, Started, StopNotify, Joined, env, locals
    <3>2. CASE Start \/ Stop \/ Abort
      BY <3>2 DEF Start, Stop, Abort, env, locals
    <3>3. CASE Tick
      BY <3>3 DEF Tick, locals
    <3> QED  BY <1>4, <3>1, <3>2, <3>3
  <2>2. main = "new" => pc = "none"
    BY DEF IInv, Owned
  <2> QED  BY <2>1, <2>2, QuietFileInv DEF FileInv
<1>5. CASE \E len \in Lengths : AppendLine(len)
  <2>1. /\ UNCHANGED <<output, late, appended, now, position>>
        /\ pc' = pc \/ (pc = "wait" /\ pc' = "swap")
    <3>1. PICK len \in Lengths : AppendLine(len)
      BY <1>5
    <3> QED  BY <3>1 DEF AppendLine, locals
  <2> QED  BY <2>1, QuietFileInv
<1>6. CASE DropBacklog
  <2>1. position' = 1 /\ now' = now /\ pc = "drop" /\ pc' = "write"
    BY <1>6 DEF DropBacklog
  <2>2. CASE Len(buffersToWrite) > kMaxBacklog
    <3>1. output' = AppendUnlocked(output, <<Marker>>, 1, now) /\ AppendedNow
      BY <1>6, <2>2 DEF DropBacklog
    <3>2. position' \in Nat \ {0} /\ 1 \in Nat
      BY <2>1
    <3> QED  BY <2>1, <3>1, <3>2, AppendFileInv, MarkerLine
  <2>3. CASE ~(Len(buffersToWrite) > kMaxBacklog)
    <3>1. UNCHANGED <<output, late, appended>>
      BY <1>6, <2>3 DEF DropBacklog
    <3> QED  BY <2>1, <3>1, QuietFileInv
  <2> QED  BY <2>2, <2>3
<1>7. CASE WriteBuffer
  <2>1. PICK n \in 0..Len(buffersToWrite[position].lines), bytes \in Nat :
           LET lines == buffersToWrite[position].lines IN
           /\ SubSeq(lines, 1, n) \in Seq(Line)
           /\ output' = AppendUnlocked(output, SubSeq(lines, 1, n), bytes, now)
    BY <1>7, WriteBufferFacts
  <2>2. AppendedNow /\ now' = now /\ pc' = "write" /\ position' \in Nat \ {0}
    BY <1>7 DEF WriteBuffer, FileInv
  <2> QED  BY <2>1, <2>2, AppendFileInv
<1>8. CASE UNCHANGED vars
  BY <1>8, QuietFileInv DEF vars, FileInv
<1> QED  BY <1>1, <1>2, <1>3, <1>4, <1>5, <1>6, <1>7, <1>8 DEF Next, BackEnd

LEMMA FileInvariant == Spec => []FileInv
<1>1. IInv /\ FileInv /\ [Next]_vars => FileInv'
  BY NextFileInv
<1> QED  BY <1>1, InitFileInv, Invariant, PTL DEF Spec

\* In every behaviour, whatever is logged and however the time passes, a file
\* over its size was opened in the second of its last append, and a file of
\* an earlier period gets fewer than checkEveryN further appends.
THEOREM FileRollsInTime == Spec => []RolledInTime
<1>1. FileInv => RolledInTime
  BY LogFileAssumption DEF FileInv, RolledInTime, LogFileType
<1> QED  BY <1>1, FileInvariant, PTL

-----------------------------------------------------------------------------
(* The lines, in their order *)

LEMMA NoLines ==
    /\ IdsOf(<<>>) = {} /\ InOrder(<<>>)
    /\ \A n \in Nat \ {0} : IdsFrom(<<>>, n) = {} /\ InOrderFrom(<<>>, n)
<1>1. IdsOf(<<>>) = {} /\ InOrder(<<>>)
  BY DEF IdsOf, InOrder
<1>2. \A n \in Nat \ {0} : n..Len(<<>>) = {}
  OBVIOUS
<1> QED  BY <1>1, <1>2 DEF IdsFrom, InOrderFrom

LEMMA IdsAreNumbers ==
    ASSUME NEW lines \in Seq(Line)
    PROVE  /\ IdsOf(lines) \in SUBSET Nat
           /\ \A i \in DOMAIN lines : lines[i].id \in Nat
<1>1. \A i \in DOMAIN lines : lines[i] \in Line
  OBVIOUS
<1> QED  BY <1>1 DEF IdsOf, Line

LEMMA OneLineMore ==
    ASSUME NEW lines \in Seq(Line), NEW line \in Line
    PROVE  LET more == Append(lines, line) IN
           /\ IdsOf(more) = IdsOf(lines) \union {line.id}
           /\ InOrder(lines) /\ (\A a \in IdsOf(lines) : a < line.id)
                 => InOrder(more)
<1> DEFINE more == Append(lines, line)
<1>1. /\ Len(lines) \in Nat /\ Len(more) = Len(lines) + 1
      /\ DOMAIN lines = 1..Len(lines) /\ DOMAIN more = 1..Len(lines) + 1
      /\ \A i \in 1..Len(lines) : more[i] = lines[i]
      /\ more[Len(lines) + 1] = line
  OBVIOUS
<1> HIDE DEF more
<1>2. IdsOf(more) = IdsOf(lines) \union {line.id}
  BY <1>1 DEF IdsOf
<1>3. ASSUME InOrder(lines), \A a \in IdsOf(lines) : a < line.id
      PROVE  InOrder(more)
  <2> SUFFICES ASSUME NEW i \in DOMAIN more, NEW j \in DOMAIN more, i < j,
                      more[i].id # 0, more[j].id # 0
               PROVE  more[i].id < more[j].id
    BY DEF InOrder
  <2>1. i \in DOMAIN lines /\ more[i] = lines[i]
    BY <1>1
  <2>2. CASE j \in DOMAIN lines
    BY <1>1, <1>3, <2>1, <2>2 DEF InOrder
  <2>3. CASE j \notin DOMAIN lines
    <3>1. more[j] = line
      BY <1>1, <2>3
    <3>2. lines[i].id \in IdsOf(lines)
      BY <2>1 DEF IdsOf
    <3> QED  BY <1>3, <2>1, <3>1, <3>2
  <2> QED  BY <2>2, <2>3
<1> QED  BY <1>2, <1>3 DEF more

LEMMA LinesJoined ==
    ASSUME NEW s \in Seq(Line), NEW t \in Seq(Line)
    PROVE  /\ IdsOf(s \o t) = IdsOf(s) \union IdsOf(t)
           /\ /\ InOrder(s) /\ InOrder(t)
              /\ Before(IdsOf(s) \ {0}, IdsOf(t) \ {0})
              => InOrder(s \o t)
<1> DEFINE all == s \o t
           m == Len(s)
           n == Len(t)
<1>1. /\ m \in Nat /\ n \in Nat
      /\ DOMAIN s = 1..m /\ DOMAIN t = 1..n
      /\ DOMAIN all = 1..m + n
      /\ \A i \in 1..m : all[i] = s[i]
      /\ \A i \in m + 1..m + n : all[i] = t[i - m]
  BY LenProperties, ConcatProperties
<1> HIDE DEF all, m, n
<1>2. IdsOf(all) = IdsOf(s) \union IdsOf(t)
  <2>1. ASSUME NEW i \in DOMAIN all
        PROVE  all[i].id \in IdsOf(s) \union IdsOf(t)
    <3>1. CASE i \in 1..m
      BY <1>1, <3>1 DEF IdsOf
    <3>2. CASE i \in m + 1..m + n
      <4>1. i - m \in DOMAIN t /\ all[i] = t[i - m]
        BY <1>1, <3>2
      <4> QED  BY <4>1 DEF IdsOf
    <3> QED  BY <1>1, <2>1, <3>1, <3>2
  <2>2. ASSUME NEW i \in DOMAIN s
        PROVE  s[i].id \in IdsOf(all)
    <3>1. i \in DOMAIN all /\ all[i] = s[i]
      BY <1>1, <2>2
    <3> QED  BY <3>1 DEF IdsOf
  <2>3. ASSUME NEW i \in DOMAIN t
        PROVE  t[i].id \in IdsOf(all)
    <3>1. m + i \in m + 1..m + n /\ (m + i) - m = i /\ m + i \in DOMAIN all
      BY <1>1, <2>3
    <3>2. all[m + i] = t[i]
      BY <1>1, <3>1
    <3> QED  BY <3>1, <3>2 DEF IdsOf
  <2> QED  BY <2>1, <2>2, <2>3 DEF IdsOf
<1>3. ASSUME InOrder(s), InOrder(t), Before(IdsOf(s) \ {0}, IdsOf(t) \ {0})
      PROVE  InOrder(all)
  <2> SUFFICES ASSUME NEW i \in DOMAIN all, NEW j \in DOMAIN all, i < j,
                      all[i].id # 0, all[j].id # 0
               PROVE  all[i].id < all[j].id
    BY DEF InOrder
  <2>1. CASE j \in 1..m
    <3>1. i \in 1..m
      BY <1>1, <2>1
    <3> QED  BY <1>1, <1>3, <2>1, <3>1 DEF InOrder
  <2>2. CASE i \in 1..m /\ j \in m + 1..m + n
    <3>1. j - m \in DOMAIN t /\ all[j] = t[j - m] /\ all[i] = s[i] /\ i \in DOMAIN s
      BY <1>1, <2>2
    <3>2. s[i].id \in IdsOf(s) \ {0} /\ t[j - m].id \in IdsOf(t) \ {0}
      BY <3>1 DEF IdsOf
    <3> QED  BY <1>3, <3>1, <3>2 DEF Before
  <2>3. CASE i \in m + 1..m + n /\ j \in m + 1..m + n
    <3>1. /\ j - m \in DOMAIN t /\ all[j] = t[j - m]
          /\ i - m \in DOMAIN t /\ all[i] = t[i - m] /\ i - m < j - m
      BY <1>1, <2>3
    <3> QED  BY <1>3, <3>1 DEF InOrder
  <2> QED  BY <1>1, <2>1, <2>2, <2>3
<1> QED  BY <1>2, <1>3 DEF all

\* A write that breaks off after n lines.
LEMMA LinesCut ==
    ASSUME NEW s \in Seq(Line), NEW n \in 0..Len(s), InOrder(s), 0 \notin IdsOf(s)
    PROVE  LET a == SubSeq(s, 1, n)
               b == SubSeq(s, n + 1, Len(s))
           IN  /\ a \in Seq(Line) /\ InOrder(a)
               /\ IdsOf(s) = IdsOf(a) \union IdsOf(b)
               /\ IdsOf(a) \intersect IdsOf(b) = {}
<1> DEFINE a == SubSeq(s, 1, n)
           b == SubSeq(s, n + 1, Len(s))
           m == Len(s)
<1>1. m \in Nat /\ DOMAIN s = 1..m /\ n \in 0..m
  BY LenProperties
<1>2. /\ a \in Seq(Line) /\ DOMAIN a = 1..n
      /\ \A i \in 1..n : a[i] = s[i]
  BY <1>1, SubSeqProperties, LenProperties
<1>3. /\ DOMAIN b = 1..m - n
      /\ \A i \in 1..m - n : b[i] = s[n + i]
  <2>0. n + 1 \in 1..m + 1 /\ m \in n..m /\ n + 1 - 1 = n
    BY <1>1
  <2>1. /\ Len(b) = m - n /\ b \in Seq(Line)
        /\ \A i \in 1..m - n : b[i] = s[n + i]
    <3>1. CASE n + 1 <= m
      BY <1>1, <2>0, <3>1, SubSeqProperties
    <3>2. CASE ~(n + 1 <= m)
      <4>1. m < n + 1 /\ n + 1 \in Int /\ m \in Int /\ m - n = 0
        <5> HIDE DEF m, b
        <5> QED  BY <1>1, <3>2
      <4>2. b = <<>>
        BY <4>1, SubSeqEmpty DEF m
      <4> QED  BY <4>1, <4>2
    <3> QED  BY <3>1, <3>2
  <2> QED  BY <2>1, LenProperties
<1> HIDE DEF a, b, m
<1>4. \A i \in DOMAIN s : s[i].id # 0 /\ s[i].id \in Nat
  BY IdsAreNumbers DEF IdsOf
<1>5. InOrder(a)
  BY <1>1, <1>2 DEF InOrder
<1>6. IdsOf(s) = IdsOf(a) \union IdsOf(b)
  <2>1. \A i \in DOMAIN s : s[i].id \in IdsOf(a) \union IdsOf(b)
    <3> TAKE i \in DOMAIN s
    <3>1. CASE i \in 1..n
      BY <1>2, <3>1 DEF IdsOf
    <3>2. CASE i \notin 1..n
      <4>1. i - n \in DOMAIN b /\ b[i - n] = s[n + (i - n)] /\ n + (i - n) = i
        BY <1>1, <1>3, <3>2
      <4> QED  BY <4>1 DEF IdsOf
    <3> QED  BY <3>1, <3>2
  <2>2. \A i \in DOMAIN a : i \in DOMAIN s /\ a[i] = s[i]
    BY <1>1, <1>2
  <2>3. \A i \in DOMAIN b : n + i \in DOMAIN s /\ b[i] = s[n + i]
    BY <1>1, <1>3
  <2> QED  BY <2>1, <2>2, <2>3 DEF IdsOf
<1>7. IdsOf(a) \intersect IdsOf(b) = {}
  <2>1. \A i \in DOMAIN a, j \in DOMAIN b : a[i].id < b[j].id
    <3> TAKE i \in DOMAIN a, j \in DOMAIN b
    <3>1. i \in DOMAIN s /\ n + j \in DOMAIN s /\ i < n + j
      BY <1>1, <1>2, <1>3
    <3> QED  BY <1>2, <1>3, <1>4, <3>1 DEF InOrder
  <2>2. \A i \in DOMAIN a : a[i].id \in Nat
    BY <1>1, <1>2, <1>4
  <2>3. \A i \in DOMAIN b : b[i].id \in Nat
    BY <1>1, <1>3, <1>4
  <2>4. \A i \in DOMAIN a, j \in DOMAIN b : a[i].id # b[j].id
    BY <2>1, <2>2, <2>3
  <2> QED  BY <2>4 DEF IdsOf
<1> QED  BY <1>2, <1>5, <1>6, <1>7 DEF a, b

LEMMA OneBufferMore ==
    ASSUME NEW bs \in Seq(FixedBuffer), NEW b \in FixedBuffer,
           InOrderFrom(bs, 1), InOrder(b.lines),
           Before(IdsFrom(bs, 1), IdsOf(b.lines))
    PROVE  LET more == Append(bs, b) IN
           /\ IdsFrom(more, 1) = IdsFrom(bs, 1) \union IdsOf(b.lines)
           /\ InOrderFrom(more, 1)
<1> DEFINE more == Append(bs, b)
           n == Len(bs)
<1>1. /\ n \in Nat /\ Len(more) = n + 1
      /\ \A i \in 1..n : more[i] = bs[i]
      /\ more[n + 1] = b /\ 1..Len(more) = 1..n \union {n + 1}
  OBVIOUS
<1> HIDE DEF more, n
<1>2. IdsFrom(bs, 1) = UNION {IdsOf(bs[i].lines) : i \in 1..n}
  BY DEF IdsFrom, n
<1>3. IdsFrom(more, 1) = IdsFrom(bs, 1) \union IdsOf(b.lines)
  <2>1. \A x : /\ x \in IdsFrom(more, 1)
                    <=> \E i \in 1..Len(more) : x \in IdsOf(more[i].lines)
               /\ x \in IdsFrom(bs, 1) <=> \E i \in 1..n : x \in IdsOf(bs[i].lines)
    BY <1>2 DEF IdsFrom
  <2>2. \A x : x \in IdsFrom(more, 1)
                  <=> x \in IdsFrom(bs, 1) \/ x \in IdsOf(b.lines)
    BY <1>1, <2>1
  <2> QED  BY <2>2
<1>4. InOrderFrom(more, 1)
  <2> SUFFICES ASSUME NEW i \in 1..Len(more)
               PROVE  /\ InOrder(more[i].lines)
                      /\ \A j \in i + 1..Len(more) :
                            Before(IdsOf(more[i].lines), IdsOf(more[j].lines))
    BY DEF InOrderFrom
  <2>1. CASE i = n + 1
    BY <1>1, <2>1
  <2>2. CASE i \in 1..n
    <3>1. more[i] = bs[i] /\ InOrder(bs[i].lines)
      BY <1>1, <2>2 DEF InOrderFrom, n
    <3>2. ASSUME NEW j \in i + 1..Len(more)
          PROVE  Before(IdsOf(bs[i].lines), IdsOf(more[j].lines))
      <4>1. CASE j = n + 1
        <5>1. IdsOf(bs[i].lines) \subseteq IdsFrom(bs, 1)
          BY <1>2, <2>2
        <5> QED  BY <1>1, <4>1, <5>1 DEF Before
      <4>2. CASE j # n + 1
        <5>1. j \in i + 1..n /\ j \in 1..n
          BY <1>1, <2>2, <3>2, <4>2
        <5> QED  BY <1>1, <2>2, <5>1 DEF InOrderFrom, n
      <4> QED  BY <4>1, <4>2
    <3> QED  BY <3>1, <3>2
  <2> QED  BY <1>1, <2>1, <2>2
<1> QED  BY <1>3, <1>4 DEF more

\* The next buffer is taken from a sequence.
LEMMA BuffersAdvance ==
    ASSUME NEW bs \in Seq(FixedBuffer), NEW p \in 1..Len(bs), InOrderFrom(bs, p)
    PROVE  /\ IdsFrom(bs, p) = IdsOf(bs[p].lines) \union IdsFrom(bs, p + 1)
           /\ InOrder(bs[p].lines) /\ InOrderFrom(bs, p + 1)
           /\ Before(IdsOf(bs[p].lines), IdsFrom(bs, p + 1))
<1> DEFINE n == Len(bs)
<1>1. /\ n \in Nat /\ p \in p..n /\ p..n = {p} \union (p + 1..n)
      /\ \A i \in p + 1..n : i \in p..n
  BY LenProperties
<1> HIDE DEF n
<1>2. IdsFrom(bs, p) = IdsOf(bs[p].lines) \union IdsFrom(bs, p + 1)
  BY <1>1 DEF IdsFrom, n
<1>3. InOrder(bs[p].lines) /\ InOrderFrom(bs, p + 1)
  BY <1>1 DEF InOrderFrom, n
<1>4. Before(IdsOf(bs[p].lines), IdsFrom(bs, p + 1))
  <2>1. \A j \in p + 1..n : Before(IdsOf(bs[p].lines), IdsOf(bs[j].lines))
    BY <1>1 DEF InOrderFrom, n
  <2> QED  BY <2>1 DEF Before, IdsFrom, n
<1> QED  BY <1>2, <1>3, <1>4

\* A backlog is cut.
LEMMA BuffersCut ==
    ASSUME NEW bs \in Seq(FixedBuffer), Len(bs) > 2, InOrderFrom(bs, 1)
    PROVE  LET a == SubSeq(bs, 1, 2) IN
           /\ IdsFrom(bs, 1) = IdsFrom(a, 1) \union IdsFrom(bs, 3)
           /\ InOrderFrom(a, 1) /\ Before(IdsFrom(a, 1), IdsFrom(bs, 3))
<1> DEFINE a == SubSeq(bs, 1, 2)
<1>1. Len(a) = 2 /\ a[1] = bs[1] /\ a[2] = bs[2] /\ Len(bs) \in Nat
  OBVIOUS
<1> HIDE DEF a
<1>2. 1..Len(a) = {1, 2} /\ 1..Len(bs) = {1, 2} \union 3..Len(bs)
  BY <1>1
<1>3. IdsFrom(a, 1) = IdsOf(bs[1].lines) \union IdsOf(bs[2].lines)
  BY <1>1, <1>2 DEF IdsFrom
<1>4. IdsFrom(bs, 1) = IdsFrom(a, 1) \union IdsFrom(bs, 3)
  BY <1>2, <1>3 DEF IdsFrom
<1>5. InOrderFrom(a, 1)
  <2>1. InOrder(bs[1].lines) /\ InOrder(bs[2].lines)
    BY <1>2 DEF InOrderFrom
  <2>2. Before(IdsOf(bs[1].lines), IdsOf(bs[2].lines))
    <3>1. 1 \in 1..Len(bs) /\ 2 \in 1 + 1..Len(bs)
      BY <1>1
    <3> QED  BY <3>1 DEF InOrderFrom
  <2> SUFFICES ASSUME NEW i \in 1..Len(a)
               PROVE  /\ InOrder(a[i].lines)
                      /\ \A j \in i + 1..Len(a) :
                            Before(IdsOf(a[i].lines), IdsOf(a[j].lines))
    BY DEF InOrderFrom
  <2>3. CASE i = 1
    <3>1. \A j \in i + 1..Len(a) : j = 2
      BY <1>1, <2>3
    <3> QED  BY <1>1, <2>1, <2>2, <2>3, <3>1
  <2>4. CASE i = 2
    <3>1. i + 1..Len(a) = {}
      BY <1>1, <2>4
    <3> QED  BY <1>1, <2>1, <2>4, <3>1
  <2> QED  BY <1>2, <2>3, <2>4
<1>6. Before(IdsFrom(a, 1), IdsFrom(bs, 3))
  <2>1. ASSUME NEW j \in 3..Len(bs)
        PROVE  /\ Before(IdsOf(bs[1].lines), IdsOf(bs[j].lines))
               /\ Before(IdsOf(bs[2].lines), IdsOf(bs[j].lines))
    <3>1. 1 \in 1..Len(bs) /\ 2 \in 1..Len(bs) /\ j \in 1 + 1..Len(bs) /\ j \in 2 + 1..Len(bs)
      BY <1>1, <2>1
    <3> QED  BY <3>1 DEF InOrderFrom
  <2> QED  BY <1>3, <2>1 DEF Before, IdsFrom
<1> QED  BY <1>4, <1>5, <1>6 DEF a

\* NothingLost in two parts: what the places hold, and the order in them.
Held(filed, writing, full, current, n, gone) ==
    /\ filed \union writing \union full \union current = 1..n \ gone
    /\ gone \subseteq 1..n
    /\ Before(filed, writing \union full \union current)
    /\ Before(writing, full \union current)
    /\ Before(full, current)

Sorted ==
    /\ InOrder(Contents(output)) /\ InOrderFrom(buffersToWrite, position)
    /\ InOrderFrom(buffers_, 1) /\ InOrder(The(currentBuffer_).lines)

Filed == IdsOf(Contents(output)) \ {0}
Writing == IdsFrom(buffersToWrite, position)
Full == IdsFrom(buffers_, 1)
InCurrent == IdsOf(The(currentBuffer_).lines)

LineInv == Held(Filed, Writing, Full, InCurrent, logged, lost) /\ Sorted

LEMMA LineInvImplies == LineInv => NothingLost
  BY DEF LineInv, Held, Sorted, Filed, Writing, Full, InCurrent, NothingLost, Contents

\* append, in the current buffer or in the next one, or nowhere.
LEMMA HeldAppend ==
    ASSUME NEW n \in Nat, NEW f, NEW w, NEW u, NEW c, NEW g,
           Held(f, w, u, c, n, g)
    PROVE  /\ Held(f, w, u, c \union {n + 1}, n + 1, g)
           /\ Held(f, w, u \union c, {n + 1}, n + 1, g)
           /\ Held(f, w, u \union c, {}, n + 1, g \union {n + 1})
<1>1. /\ 1..n + 1 = 1..n \union {n + 1} /\ n + 1 \notin 1..n
      /\ \A i \in 1..n : i < n + 1
  OBVIOUS
<1>2. \A i \in f \union w \union u \union c : i < n + 1
  BY <1>1 DEF Held
<1>3. g \subseteq 1..n
  BY DEF Held
<1>4. /\ f \union w \union u \union (c \union {n + 1}) = 1..n + 1 \ g
      /\ f \union w \union (u \union c) \union {n + 1} = 1..n + 1 \ g
      /\ f \union w \union (u \union c) \union {} = 1..n + 1 \ (g \union {n + 1})
  BY <1>1, <1>3 DEF Held
<1>5. g \subseteq 1..n + 1 /\ g \union {n + 1} \subseteq 1..n + 1
  BY <1>1, <1>3
<1>6. /\ Before(f, w \union u \union (c \union {n + 1}))
      /\ Before(w, u \union (c \union {n + 1})) /\ Before(u, c \union {n + 1})
  BY <1>2 DEF Held, Before
<1>7. /\ Before(f, w \union (u \union c) \union {n + 1})
      /\ Before(w, (u \union c) \union {n + 1}) /\ Before(u \union c, {n + 1})
  BY <1>2 DEF Held, Before
<1>8. /\ Before(f, w \union (u \union c) \union {})
      /\ Before(w, (u \union c) \union {}) /\ Before(u \union c, {})
  BY DEF Held, Before
<1> QED  BY <1>4, <1>5, <1>6, <1>7, <1>8 DEF Held

\* The swap, and a flush that starts it all over.
LEMMA HeldSwap ==
    ASSUME NEW n, NEW f, NEW u, NEW c, NEW g, Held(f, {}, u, c, n, g)
    PROVE  Held(f, u \union c, {}, {}, n, g)
  BY DEF Held, Before

LEMMA HeldDrop ==
    ASSUME NEW n \in Nat, NEW f, NEW v, NEW w, NEW u, NEW c, NEW g,
           Held(f, v \union w, u, c, n, g), Before(v, w)
    PROVE  Held(f, v, u, c, n, g \union w)
<1>1. \A i \in f \union v \union w \union u \union c : i \in Nat /\ ~(i < i)
  BY DEF Held
<1>2. \A i \in w : i \notin f \union v \union u \union c
  BY <1>1 DEF Held, Before
<1> QED  BY <1>2 DEF Held, Before

LEMMA HeldWrite ==
    ASSUME NEW n \in Nat, NEW f, NEW a, NEW b, NEW w, NEW u, NEW c, NEW g,
           Held(f, (a \union b) \union w, u, c, n, g),
           Before(a \union b, w), a \intersect b = {}
    PROVE  Held(f \union a, w, u, c, n, g \union b)
<1>1. \A i \in f \union a \union b \union w \union u \union c : i \in Nat /\ ~(i < i)
  BY DEF Held
<1>2. \A i \in b : i \notin f \union a \union w \union u \union c
  BY <1>1 DEF Held, Before
<1> QED  BY <1>2 DEF Held, Before

LEMMA InitLineInv == Init => LineInv
<1> SUFFICES ASSUME Init PROVE LineInv
  OBVIOUS
<1>1. output = NewLogFile(1) /\ 1 \in Nat \ {0}
  BY DEF Init
<1>2. /\ Contents(output) = <<>> /\ buffersToWrite = <<>> /\ buffers_ = <<>>
      /\ position = 1 /\ The(currentBuffer_).lines = <<>> /\ logged = 0 /\ lost = {}
  BY <1>1, NewLogFileFacts DEF Init, The, NewBuffer
<1>3. /\ Filed = {} /\ Writing = {} /\ Full = {} /\ InCurrent = {} /\ Sorted
  BY <1>2, NoLines DEF Filed, Writing, Full, InCurrent, Sorted
<1>4. Held({}, {}, {}, {}, 0, {})
  BY DEF Held, Before
<1> QED  BY <1>2, <1>3, <1>4 DEF LineInv

\* Steps that move no line.
LEMMA QuietLineInv ==
    ASSUME LineInv, Contents(output') = Contents(output),
           UNCHANGED <<buffersToWrite, position, buffers_, currentBuffer_,
                       logged, lost>>
    PROVE  LineInv'
<1>1. /\ Filed' = Filed /\ Writing' = Writing /\ Full' = Full
      /\ InCurrent' = InCurrent /\ (Sorted <=> Sorted')
  BY DEF Filed, Writing, Full, InCurrent, Sorted, Contents
<1> QED  BY <1>1 DEF LineInv

LEMMA AppendLineInv ==
    ASSUME IInv, LineInv, NEW len \in Lengths, AppendLine(len)
    PROVE  LineInv'
<1> DEFINE line == [id |-> logged + 1, len |-> len]
           current == The(currentBuffer_)
<1>1. /\ line \in Line /\ line.id = logged + 1 /\ logged \in Nat
      /\ logged' = logged + 1
  BY LoggingAssumption DEF IInv, BuffersTyped, Line, AppendLine
<1>2. /\ current \in FixedBuffer /\ current.lines \in Seq(Line)
      /\ buffers_ \in Seq(FixedBuffer)
  BY TheType DEF IInv, BuffersTyped, Owned, FixedBuffer
<1>3. /\ UNCHANGED <<output, buffersToWrite, position>>
      /\ Filed' = Filed /\ Writing' = Writing
  BY DEF AppendLine, locals, Filed, Writing, Contents
<1>4. \A i \in InCurrent : i < logged + 1
  BY <1>1 DEF LineInv, Held
<1>5. CASE Avail(current) > len
  <2>1. /\ currentBuffer_' = <<BufferAppend(current, line)>>
        /\ UNCHANGED <<buffers_, lost>>
    BY <1>5 DEF AppendLine
  <2>2. The(currentBuffer_').lines = Append(current.lines, line)
    BY <1>5, <2>1 DEF BufferAppend, The
  <2> HIDE DEF line, current
  <2>3. /\ InCurrent' = InCurrent \union {logged + 1}
        /\ InOrder(The(currentBuffer_').lines)
    BY <1>1, <1>2, <1>4, <2>2, OneLineMore DEF InCurrent, LineInv, Sorted, current
  <2>4. Full' = Full /\ Sorted'
    BY <1>3, <2>1, <2>3 DEF Full, LineInv, Sorted, Contents
  <2>5. Held(Filed, Writing, Full, InCurrent \union {logged + 1}, logged + 1, lost)
    BY <1>1, HeldAppend DEF LineInv
  <2> QED  BY <1>1, <1>3, <2>1, <2>3, <2>4, <2>5 DEF LineInv
<1>6. CASE ~(Avail(current) > len)
  <2> DEFINE fresh == IF nextBuffer_ # Null THEN The(nextBuffer_) ELSE NewBuffer
  <2>1. fresh = NewBuffer
    BY DEF IInv, BuffersTyped, The
  <2> HIDE DEF fresh
  <2>2. /\ currentBuffer_' = <<BufferAppend(NewBuffer, line)>>
        /\ buffers_' = Append(buffers_, current)
        /\ lost' = IF Avail(NewBuffer) > len THEN lost
                                             ELSE lost \union {line.id}
    BY <1>6, <2>1 DEF AppendLine, fresh
  <2> HIDE DEF line, current
  <2>3. /\ Full' = Full \union InCurrent /\ InOrderFrom(buffers_', 1)
    BY <1>2, <2>2, OneBufferMore
       DEF Full, InCurrent, LineInv, Held, Sorted, current
  <2>4. CASE Avail(NewBuffer) > len
    <3>1. /\ The(currentBuffer_').lines = Append(<<>>, line) /\ lost' = lost
          /\ <<>> \in Seq(Line)
      BY <2>2, <2>4, <1>1 DEF BufferAppend, The, NewBuffer, line
    <3>2. InCurrent' = {logged + 1} /\ InOrder(The(currentBuffer_').lines)
      BY <1>1, <3>1, OneLineMore, NoLines DEF InCurrent
    <3>3. Held(Filed, Writing, Full \union InCurrent, {logged + 1}, logged + 1, lost)
      BY <1>1, HeldAppend DEF LineInv
    <3> QED  BY <1>1, <1>3, <2>3, <3>1, <3>2, <3>3 DEF LineInv, Sorted, Contents
  <2>5. CASE ~(Avail(NewBuffer) > len)
    <3>1. The(currentBuffer_').lines = <<>> /\ lost' = lost \union {logged + 1}
      BY <2>2, <2>5, <1>1 DEF BufferAppend, The, NewBuffer, line
    <3>2. InCurrent' = {} /\ InOrder(The(currentBuffer_').lines)
      BY <3>1, NoLines DEF InCurrent
    <3>3. Held(Filed, Writing, Full \union InCurrent, {}, logged + 1,
               lost \union {logged + 1})
      BY <1>1, HeldAppend DEF LineInv
    <3> QED  BY <1>1, <1>3, <2>3, <3>1, <3>2, <3>3 DEF LineInv, Sorted, Contents
  <2> QED  BY <2>4, <2>5
<1> QED  BY <1>5, <1>6

LEMMA SwapLineInv ==
    ASSUME IInv, FileInv, LineInv, Swap
    PROVE  LineInv'
<1> DEFINE current == The(currentBuffer_)
<1>1. /\ buffersToWrite = <<>> /\ newBuffer1 = <<NewBuffer>> /\ position = 1
      /\ current \in FixedBuffer /\ buffers_ \in Seq(FixedBuffer)
  BY TheType DEF Swap, IInv, Owned, BuffersTyped, FileInv
<1>2. /\ buffersToWrite' = Append(buffers_, current) /\ buffers_' = <<>>
      /\ currentBuffer_' = <<NewBuffer>>
      /\ UNCHANGED <<position, output, logged, lost>>
  BY <1>1 DEF Swap, env
<1>3. The(currentBuffer_').lines = <<>>
  BY <1>2 DEF The, NewBuffer
<1> HIDE DEF current
<1>4. Writing' = Full \union InCurrent /\ InOrderFrom(buffersToWrite', position')
  BY <1>1, <1>2, OneBufferMore
     DEF Writing, Full, InCurrent, LineInv, Held, Sorted, current
<1>5. Writing = {} /\ Full' = {} /\ InCurrent' = {} /\ Filed' = Filed /\ Sorted'
  BY <1>1, <1>2, <1>3, <1>4, NoLines
     DEF Writing, Full, InCurrent, Filed, LineInv, Sorted, Contents
<1>6. Held(Filed, Full \union InCurrent, {}, {}, logged, lost)
  BY <1>5, HeldSwap DEF LineInv
<1> QED  BY <1>2, <1>4, <1>5, <1>6 DEF LineInv

\* What has been appended to the file keeps the file in order.
LEMMA FileGrows ==
    ASSUME FileInv, NEW lines \in Seq(Line), InOrder(lines), InOrder(Contents(output)),
           Contents(output') = Contents(output) \o lines,
           Before(Filed, IdsOf(lines) \ {0})
    PROVE  /\ InOrder(Contents(output'))
           /\ Filed' = Filed \union (IdsOf(lines) \ {0})
<1> DEFINE file == Contents(output)
<1>1. file \in Seq(Line)
  BY ConcatProperties DEF FileInv, LogFileType, Contents
<1> HIDE DEF file
<1>2. /\ IdsOf(file \o lines) = IdsOf(file) \union IdsOf(lines)
      /\ InOrder(file \o lines)
  BY <1>1, LinesJoined DEF Filed, file
<1> QED  BY <1>2 DEF Filed, file, Contents

LEMMA DropLineInv ==
    ASSUME IInv, FileInv, LineInv, DropBacklog
    PROVE  LineInv'
<1> DEFINE bs == buffersToWrite
<1>1. /\ position = 1 /\ position' = 1 /\ now' = now /\ pc' = "write"
      /\ UNCHANGED <<buffers_, currentBuffer_, logged>>
      /\ bs \in Seq(FixedBuffer) /\ logged \in Nat /\ Len(bs) \in Nat
  BY LenProperties DEF DropBacklog, front, FileInv, IInv, BuffersTyped
<1>2. CASE ~(Len(bs) > kMaxBacklog)
  <2>1. UNCHANGED <<output, buffersToWrite, lost>>
    BY <1>2 DEF DropBacklog
  <2> QED  BY <1>1, <2>1, QuietLineInv
<1>3. CASE Len(bs) > kMaxBacklog
  <2> DEFINE a == SubSeq(bs, 1, 2)
             gone == IdsFrom(bs, 3)
  <2>1. /\ output' = AppendUnlocked(output, <<Marker>>, 1, now) /\ AppendedNow
        /\ buffersToWrite' = a /\ lost' = lost \union gone
    BY <1>3 DEF DropBacklog, IdsFrom
  <2>2. Len(bs) > 2 /\ 1 \in Nat \ {0}
    BY <1>1, <1>3, LoggingAssumption
  <2>3. /\ Writing = IdsFrom(a, 1) \union gone
        /\ InOrderFrom(a, 1) /\ Before(IdsFrom(a, 1), gone)
    BY <1>1, <2>2, BuffersCut DEF Writing, LineInv, Sorted
  <2> HIDE DEF a, gone, bs
  <2>4. Contents(output') = Contents(output) \o <<Marker>>
    BY <1>1, <2>1, <2>2, AppendFileInv, MarkerLine
  <2>5. IdsOf(<<Marker>>) \ {0} = {} /\ InOrder(<<Marker>>)
    BY DEF IdsOf, InOrder, Marker
  <2>6. InOrder(Contents(output')) /\ Filed' = Filed
    BY <2>4, <2>5, MarkerLine, FileGrows DEF LineInv, Sorted, Before
  <2>7. Writing' = IdsFrom(a, 1) /\ Full' = Full /\ InCurrent' = InCurrent /\ Sorted'
    BY <1>1, <2>1, <2>3, <2>6
       DEF Writing, Full, InCurrent, LineInv, Sorted, Contents
  <2>8. Held(Filed, IdsFrom(a, 1), Full, InCurrent, logged, lost \union gone)
    BY <1>1, <2>3, HeldDrop DEF LineInv
  <2> QED  BY <1>1, <2>1, <2>6, <2>7, <2>8 DEF LineInv
<1> QED  BY <1>2, <1>3

LEMMA WriteLineInv ==
    ASSUME IInv, FileInv, LineInv, WriteBuffer
    PROVE  LineInv'
<1> DEFINE lines == buffersToWrite[position].lines
           rest == IdsFrom(buffersToWrite, position + 1)
<1>1. PICK n \in 0..Len(lines), bytes \in Nat :
         /\ SubSeq(lines, 1, n) \in Seq(Line)
         /\ output' = AppendUnlocked(output, SubSeq(lines, 1, n), bytes, now)
         /\ lost' = lost \union IdsOf(SubSeq(lines, n + 1, Len(lines)))
  BY WriteBufferFacts
<1> DEFINE a == SubSeq(lines, 1, n)
           b == SubSeq(lines, n + 1, Len(lines))
<1>2. /\ position' = position + 1 /\ AppendedNow /\ now' = now /\ pc' = "write"
      /\ position' \in Nat \ {0}
      /\ UNCHANGED <<buffersToWrite, buffers_, currentBuffer_, logged>>
      /\ buffersToWrite \in Seq(FixedBuffer) /\ position \in 1..Len(buffersToWrite)
      /\ lines \in Seq(Line) /\ logged \in Nat
  BY WriteBufferFacts, SMTT(60)
     DEF WriteBuffer, front, IInv, BuffersTyped, FixedBuffer, FileInv
<1> HIDE DEF lines
<1>3. /\ Writing = IdsOf(lines) \union rest /\ InOrder(lines)
      /\ InOrderFrom(buffersToWrite, position + 1) /\ Before(IdsOf(lines), rest)
  BY <1>2, BuffersAdvance DEF Writing, LineInv, Sorted, lines
<1>4. 0 \notin IdsOf(lines)
  BY <1>3 DEF LineInv, Held
<1>5. /\ a \in Seq(Line) /\ InOrder(a) /\ IdsOf(lines) = IdsOf(a) \union IdsOf(b)
      /\ IdsOf(a) \intersect IdsOf(b) = {}
  BY <1>2, <1>3, <1>4, LinesCut
<1> HIDE DEF a, b, rest
<1>6. Contents(output') = Contents(output) \o a
  BY <1>1, <1>2, <1>5, AppendFileInv DEF a
<1>7. IdsOf(a) \ {0} = IdsOf(a) /\ Before(Filed, IdsOf(a))
  BY <1>3, <1>4, <1>5 DEF LineInv, Held, Before
<1>8. InOrder(Contents(output')) /\ Filed' = Filed \union IdsOf(a)
  BY <1>5, <1>6, <1>7, FileGrows DEF LineInv, Sorted
<1>9. Writing' = rest /\ Full' = Full /\ InCurrent' = InCurrent /\ Sorted'
  BY <1>2, <1>3, <1>8
     DEF Writing, Full, InCurrent, LineInv, Sorted, Contents, rest
<1>10. Held(Filed \union IdsOf(a), rest, Full, InCurrent, logged,
            lost \union IdsOf(b))
  <2>1. Held(Filed, (IdsOf(a) \union IdsOf(b)) \union rest, Full, InCurrent,
             logged, lost)
    BY <1>3, <1>5 DEF LineInv
  <2>2. Before(IdsOf(a) \union IdsOf(b), rest)
    BY <1>3, <1>5
  <2> QED  BY <1>2, <1>5, <2>1, <2>2, HeldWrite
<1> QED  BY <1>1, <1>2, <1>8, <1>9, <1>10 DEF LineInv, b

LEMMA NextLineInv ==
    ASSUME IInv, FileInv, LineInv, [Next]_vars
    PROVE  LineInv'
<1>1. CASE Begin
  <2>1. /\ output' = NewLogFile(now) /\ pc = "latch"
        /\ UNCHANGED <<buffersToWrite, position, buffers_, currentBuffer_,
                       logged, lost>>
    BY <1>1 DEF Begin, env, front
  <2>2. Contents(output') = <<>> /\ Contents(output) = <<>>
    BY <2>1, NewLogFileFacts DEF FileInv
  <2> QED  BY <2>1, <2>2, QuietLineInv
<1>2. CASE TestRunning \/ LockAndWait \/ WaitEnds
  <2>1. /\ output' = output \/ output' = Flush(output)
        /\ UNCHANGED <<buffersToWrite, position, buffers_, currentBuffer_,
                       logged, lost>>
    BY <1>2 DEF TestRunning, LockAndWait, WaitEnds, env, locals, front
  <2>2. Contents(output') = Contents(output)
    BY <2>1, FlushFile DEF FileInv
  <2> QED  BY <2>1, <2>2, QuietLineInv
<1>3. CASE Swap
  BY <1>3, SwapLineInv
<1>4. CASE DropBacklog
  BY <1>4, DropLineInv
<1>5. CASE WriteBuffer
  BY <1>5, WriteLineInv
<1>6. CASE Recycle
  <2>1. /\ output' = Flush(output) /\ buffersToWrite' = <<>> /\ position' = 1
        /\ position > Len(buffersToWrite) /\ position \in Nat
        /\ UNCHANGED <<buffers_, currentBuffer_, logged, lost>>
    BY <1>6 DEF Recycle, env, front, FileInv
  <2>2. Contents(output') = Contents(output)
    BY <2>1, FlushFile DEF FileInv
  <2>3. Writing = {}
    <3>1. Len(buffersToWrite) \in Nat
      BY LenProperties DEF IInv, BuffersTyped
    <3>2. position..Len(buffersToWrite) = {}
      BY <2>1, <3>1
    <3> QED  BY <3>2 DEF Writing, IdsFrom
  <2>4. /\ Writing' = {} /\ Filed' = Filed /\ Full' = Full
        /\ InCurrent' = InCurrent /\ Sorted'
    BY <2>1, <2>2, NoLines
       DEF Writing, Filed, Full, InCurrent, LineInv, Sorted, Contents
  <2> QED  BY <2>1, <2>3, <2>4 DEF LineInv
<1>7. CASE Main \/ Start \/ Stop \/ Abort \/ Tick
  <2>1. UNCHANGED <<output, buffersToWrite, position, buffers_, currentBuffer_,
                    logged, lost>>
    BY <1>7 DEF Main, Started, StopNotify, Joined, Start, Stop, Abort, Tick,
                env, locals, front
  <2> QED  BY <2>1, QuietLineInv
<1>8. CASE \E len \in Lengths : AppendLine(len)
  BY <1>8, AppendLineInv
<1>9. CASE UNCHANGED vars
  BY <1>9, QuietLineInv DEF vars
<1> QED
  BY <1>1, <1>2, <1>3, <1>4, <1>5, <1>6, <1>7, <1>8, <1>9 DEF Next, BackEnd

\* In every behaviour, however the appends fall between the back end's steps,
\* every line is in exactly one place and the places are in the order of
\* logging: what is missing was too long, dropped, or cut off by an error.
THEOREM NoLineLost == Spec => []NothingLost
<1>1. IInv /\ FileInv /\ LineInv /\ [Next]_vars => LineInv'
  BY NextLineInv
<1> QED
  BY <1>1, InitLineInv, Invariant, FileInvariant, LineInvImplies, PTL DEF Spec
=============================================================================
