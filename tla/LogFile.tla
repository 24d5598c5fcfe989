------------------------------ MODULE LogFile ------------------------------
(***************************************************************************)
(* base/LogFile and FileUtil::AppendFile: the file that log lines go to,   *)
(* rolled by size and by period.  The operators take the object, a record, *)
(* and return the new one, so that AsyncLogging's thread can call them in  *)
(* its own steps.                                                          *)
(*                                                                         *)
(* A file is named by the second it was opened in, which is what           *)
(* getLogFileName makes the name from.  Lines that fwrite has taken stay   *)
(* in the stdio buffer until fflush, fclose or a full buffer move them to  *)
(* disk; disk is the contents of all the files in the order of opening.    *)
(***************************************************************************)
EXTENDS Integers, Sequences

CONSTANTS rollSize, flushInterval, checkEveryN, kRollPerSeconds

ASSUME LogFileAssumption ==
    /\ rollSize \in Nat /\ flushInterval \in Nat
    /\ checkEveryN \in Nat \ {0} /\ kRollPerSeconds \in Nat \ {0}

Period(now) == (now \div kRollPerSeconds) * kRollPerSeconds

Flush(out) == [out EXCEPT !.disk = @ \o out.buffered, !.buffered = <<>>]

\* The old AppendFile is closed, which flushes it.  Nothing happens twice in
\* one second, nor after the clock went back.
RollFile(out, now) ==
    IF now > out.lastRoll_
    THEN [Flush(out) EXCEPT !.lastRoll_ = now, !.lastFlush_ = now,
                            !.startOfPeriod_ = Period(now),
                            !.name = now, !.writtenBytes_ = 0]
    ELSE out

\* The constructor; time(NULL) is positive, so that the file is opened.
NewLogFile(now) ==
    RollFile([name |-> 0, writtenBytes_ |-> 0, buffered |-> <<>>,
              disk |-> <<>>, count_ |-> 0, startOfPeriod_ |-> 0,
              lastRoll_ |-> 0, lastFlush_ |-> 0], now)

\* AppendFile::append: the lines that get into the file, and the bytes that
\* are counted, which are none when the stream has an error.
AppendFile(out, lines, bytes) ==
    [out EXCEPT !.buffered = @ \o lines, !.writtenBytes_ = @ + bytes]

\* The period is looked at with every append that does not reset count_.
CheckTime_CountOnly(out, now) ==
    IF out.count_ < checkEveryN THEN out
    ELSE IF now - out.lastFlush_ > flushInterval
         THEN [Flush(out) EXCEPT !.count_ = 0, !.lastFlush_ = now]
         ELSE [out EXCEPT !.count_ = 0]

\* After checkEveryN appends: roll for a new period, or flush if it is time.
CheckTime(out, now) ==
    IF out.count_ < checkEveryN THEN out
    ELSE IF Period(now) # out.startOfPeriod_
         THEN RollFile([out EXCEPT !.count_ = 0], now)
         ELSE IF now - out.lastFlush_ > flushInterval
              THEN [Flush(out) EXCEPT !.count_ = 0, !.lastFlush_ = now]
              ELSE [out EXCEPT !.count_ = 0]

AppendUnlocked(out, lines, bytes, now) ==
    LET after == AppendFile(out, lines, bytes) IN
    IF after.writtenBytes_ > rollSize
    THEN RollFile(after, now)
    ELSE CheckTime([after EXCEPT !.count_ = @ + 1], now)
=============================================================================
