----------------------------- MODULE LogStream -----------------------------
(***************************************************************************)
(* base/LogStream and base/Logging: the text of a log line.                *)
(*                                                                         *)
(* First the conversions, as functions of integers.  Then the life of      *)
(* Logger objects: the cached text of the current second, the pieces of a  *)
(* line that go into a FixedBuffer when they fit, and the destructor that  *)
(* hands the line on.  A piece of text is its length.  Of the time stamp   *)
(* the date and time are kept.  setTimeZone copies a shared_ptr without a  *)
(* lock; it is called while no other thread formats a time.                *)
(***************************************************************************)
EXTENDS TimeZone

CONSTANTS kSmallBuffer, kMaxNumericSize,
          Loggers,       \* threads that log
          Zones,         \* values of g_logTimeZone: <<>>, or <<zone>>
          Levels,        \* numbers of enum LogLevel
          Pieces,        \* what messages are made of
          Seconds,       \* bound: values of the clock
          MaxPieces      \* bound: pieces in a message

\* What is formatted in place is shorter than the room it asks for, as the
\* static assertions of LogStream.cc say; the clock shows no 0.
ASSUME LogStreamAssumption ==
    /\ kSmallBuffer \in Nat \ {0} /\ kMaxNumericSize \in Nat /\ kMaxNumericSize > 3
    /\ Pieces \subseteq [numeric : BOOLEAN, size : Nat]
    /\ \A p \in Pieces : p.numeric => p.size < kMaxNumericSize
    /\ Seconds \subseteq Nat \ {0}
    /\ <<>> \in Zones

-----------------------------------------------------------------------------
(* Conversions *)

\* C's division rounds towards zero, so that a negative number has negative
\* digits; the table is symmetric about zero.
Digit(lsd) == IF lsd < 0 THEN -lsd ELSE lsd

\* The digits of convert and convertHex, most significant first.
Digits(value, base) ==
    LET from[i \in Int] ==
            LET q == Div(i, base) IN
            (IF q = 0 THEN <<>> ELSE from[q]) \o <<Digit(i - base * q)>>
    IN  from[value]

\* A character is a number: a digit's value, or one that is no digit's.
Underscore == 16

\* convert puts an underscore, not a minus sign, before a negative number.
Convert(value) == (IF value < 0 THEN <<Underscore>> ELSE <<>>) \o Digits(value, 10)

\* convertHex, for the address of an object.
ConvertHex(value) == Digits(value, 16)

\* printf's rounding of n * tens / unit to an integer; a tie may go either
\* way, because the quotient is a double.
Rounded(n, tens, unit) ==
    LET low == (n * tens) \div unit
        rest == (n * tens) % unit
    IN  IF 2 * rest < unit THEN {low}
        ELSE IF 2 * rest > unit THEN {low + 1}
        ELSE {low, low + 1}

\* The thresholds without room for rounding up.
Tens_Truncating(n, unit) ==
    IF n < 10 * unit THEN 100 ELSE IF n < 100 * unit THEN 10 ELSE 1

\* Two decimals below 9.995 units, one below 99.95, none above.
Tens(n, unit) ==
    IF n < 10 * unit - unit \div 200 THEN 100
    ELSE IF n < 100 * unit - unit \div 20 THEN 10 ELSE 1

\* formatSI and formatIEC, for sizes shown plain, in k or M, and in Ki or Mi,
\* that is below 999500000 and 1073217536.  The result is the number without
\* its point.
FormatSI(n) ==
    IF n < 1000 THEN {n}
    ELSE LET unit == IF n < 999500 THEN 1000 ELSE 1000000 IN
         Rounded(n, Tens(n, unit), unit)

FormatIEC(n) ==
    IF n < 1024 THEN {n}
    ELSE LET unit == IF n < 1024 * 1023 + 512 THEN 1024 ELSE 1048576 IN
         Rounded(n, Tens(n, unit), unit)

-----------------------------------------------------------------------------
(* Lines *)

VARIABLES now,           \* the system clock's second
          g_logTimeZone,
          zoneSetAt,      \* the second of the last setTimeZone
          setBack,       \* the clock has been set back
          g_logLevel,
          cache,         \* [Loggers -> t_lastSecond and t_time]
          line,          \* [Loggers -> the Logger object, or NoLine]
          out,           \* the line that this step gave to g_output, or NoLine
          aborted

clock == <<now, setBack>>
settings == <<g_logTimeZone, zoneSetAt, g_logLevel>>
logVars == <<clock, settings, cache, line, out, aborted>>

NoLine == [stage |-> "none"]

Text(n) == [numeric |-> FALSE, size |-> n]
Number(n) == [numeric |-> TRUE, size |-> n]

\* Text may fill the buffer to the last byte.
FitsIn_Full(length, p) ==
    LET avail == kSmallBuffer - length IN
    IF p.numeric THEN avail >= kMaxNumericSize ELSE avail >= p.size

\* FixedBuffer::append, and the test before a number is formatted in place.
FitsIn(length, p) ==
    LET avail == kSmallBuffer - length IN
    IF p.numeric THEN avail >= kMaxNumericSize ELSE avail > p.size

\* A piece that does not fit is left out, and later pieces may still fit.
Put(obj, p) ==
    IF FitsIn(obj.length, p)
    THEN [obj EXCEPT !.length = @ + p.size, !.wanted = @ + p.size]
    ELSE [obj EXCEPT !.wanted = @ + p.size, !.lost = TRUE]

PutTwo(obj, p, q) == Put(Put(obj, p), q)

StampOf(zone, second) ==
    IF zone = <<>> THEN BreakTime(second) ELSE ToLocalTime(zone[1], second)

\* The text is kept while the clock does not go forwards.
FormatTime_OnlyForward(c, zone, second) ==
    IF second > c.second THEN [second |-> second, stamp |-> StampOf(zone, second)]
                         ELSE c

FormatTime(c, zone, second) ==
    IF second # c.second THEN [second |-> second, stamp |-> StampOf(zone, second)]
                         ELSE c

\* What the constructors stream: date and time, microseconds (with a Z for
\* UTC), thread, level, the error's text, the function's name.
Header(obj, zone, level, error) ==
    LET timed == PutTwo(obj, Text(17), Text(IF zone = <<>> THEN 9 ELSE 8))
        levelled == PutTwo(timed, Text(6), Text(6))
        failed == IF error THEN PutTwo(PutTwo(levelled, Text(20), Text(8)),
                                       Number(2), Text(2))
                           ELSE levelled
    IN  IF level <= 1 THEN PutTwo(failed, Text(10), Text(1)) ELSE failed

\* LOG_TRACE, LOG_DEBUG and LOG_INFO ask logLevel(), the others do not.
LevelOn(level) == level > 2 \/ g_logLevel <= level

\* Logger::Logger; LOG_SYSERR and LOG_SYSFATAL pass errno.
StartLine(l, level, error) ==
    /\ ~aborted
    /\ line[l] = NoLine
    /\ LevelOn(level)
    /\ error => level >= 4
    /\ cache' = [cache EXCEPT ![l] = FormatTime(@, g_logTimeZone, now)]
    /\ line' = [line EXCEPT ![l] =
          Header([stage |-> "open", level |-> level, second |-> now, pieces |-> 0,
                  stamp |-> cache'[l].stamp, zone |-> g_logTimeZone,
                  zoneSetAt |-> zoneSetAt,
                  length |-> 0, wanted |-> 0, lost |-> FALSE],
                 g_logTimeZone, level, error)]
    /\ out' = NoLine
    /\ UNCHANGED <<clock, settings, aborted>>

\* The names of INFO and WARN have five characters where the header takes six.
ShortNames == {2, 3}

\* In a build with assertions T's constructor then ends the program, when the
\* time has been formatted (Logging.cc:44).  Without them the line goes on,
\* with the name's terminating zero in it.
AbortLine(l, level) ==
    /\ ~aborted
    /\ line[l] = NoLine
    /\ LevelOn(level)
    /\ level \in ShortNames
    /\ cache' = [cache EXCEPT ![l] = FormatTime(@, g_logTimeZone, now)]
    /\ out' = NoLine
    /\ aborted' = TRUE
    /\ UNCHANGED <<clock, settings, line>>

\* operator<< on the stream.
Streamed(obj, p) == [Put(obj, p) EXCEPT !.pieces = @ + 1]

StreamPiece(l, p) ==
    /\ ~aborted
    /\ line[l] # NoLine
    /\ line[l].pieces < MaxPieces
    /\ line' = [line EXCEPT ![l] = Streamed(@, p)]
    /\ out' = NoLine
    /\ UNCHANGED <<clock, settings, cache, aborted>>

\* finish(): a dash, the file's name, a colon, the line, a newline.
Finish(obj) == PutTwo(PutTwo(Put(obj, Text(1)), Text(10), Text(1)), Number(3), Text(1))

\* Logger::~Logger: finish(), g_output, and for FATAL g_flush and abort.
EndLine(l) ==
    /\ ~aborted
    /\ line[l] # NoLine
    /\ out' = Finish(line[l])
    /\ line' = [line EXCEPT ![l] = NoLine]
    /\ aborted' = (line[l].level = 5)
    /\ UNCHANGED <<clock, settings, cache>>

SetTimeZone(zone) ==
    /\ ~aborted
    /\ g_logTimeZone' = zone
    /\ zoneSetAt' = now
    /\ out' = NoLine
    /\ UNCHANGED <<clock, g_logLevel, cache, line, aborted>>

SetLogLevel(level) ==
    /\ ~aborted
    /\ g_logLevel' = level
    /\ out' = NoLine
    /\ UNCHANGED <<clock, g_logTimeZone, zoneSetAt, cache, line, aborted>>

\* The clock may be set back.
TickSecond(second) ==
    /\ ~aborted
    /\ now' = second
    /\ setBack' = (setBack \/ second < now)
    /\ out' = NoLine
    /\ UNCHANGED <<settings, cache, line, aborted>>

\* initLogLevel: INFO unless the environment asks for more.
LogInit ==
    /\ now \in Seconds
    /\ setBack = FALSE
    /\ g_logTimeZone = <<>>
    /\ zoneSetAt = 0
    /\ g_logLevel \in {0, 1, 2}
    /\ cache = [l \in Loggers |-> [second |-> 0, stamp |-> <<>>]]
    /\ line = [l \in Loggers |-> NoLine]
    /\ out = NoLine
    /\ aborted = FALSE

LogNext ==
    \/ \E l \in Loggers, level \in Levels, error \in BOOLEAN : StartLine(l, level, error)
    \/ \E l \in Loggers, level \in Levels : AbortLine(l, level)
    \/ \E l \in Loggers, p \in Pieces : StreamPiece(l, p)
    \/ \E l \in Loggers : EndLine(l)
    \/ \E zone \in Zones : SetTimeZone(zone)
    \/ \E level \in Levels : SetLogLevel(level)
    \/ \E second \in Seconds : TickSecond(second)

LogSpec == LogInit /\ [][LogNext]_logVars

-----------------------------------------------------------------------------
(* Properties *)

\* A line that goes out shows the second in which it was begun although
\* formatTime caches the text, also when the clock is set back.  It shows it
\* in the zone that its header claims, unless that zone was set in that very
\* second, or the clock was set back (Logging.cc:103).
StampIsRight ==
    out # NoLine =>
        /\ \E zone \in Zones : out.stamp = StampOf(zone, out.second)
        /\ \/ out.stamp = StampOf(out.zone, out.second)
           \/ out.zoneSetAt = out.second
           \/ setBack

\* The text of a line stays inside its FixedBuffer with a byte to spare, and
\* nothing of it, the newline included, is left out unless the line comes
\* within kMaxNumericSize of the buffer's end (LogStream.h:27).
LineFits ==
    out # NoLine =>
        /\ out.length < kSmallBuffer
        /\ out.lost => out.wanted > kSmallBuffer - kMaxNumericSize
=============================================================================
