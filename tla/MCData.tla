------------------------------- MODULE MCData -------------------------------
(***************************************************************************)
(* The sequential parts of the library, each explored on its own: subject  *)
(* says which one a behaviour is about, and the others rest.               *)
(*   "buffer"   a Buffer, every sequence of calls                          *)
(*   "line"     log lines, clock and zone changes                          *)
(*   "day"      a walk through the calendar, one day a step, over a whole  *)
(*              cycle of 400 years                                         *)
(*   "zone"     every small time zone, at every small time                 *)
(*   "number"   numbers at the limits of the conversions                   *)
(***************************************************************************)
EXTENDS Buffer, LogStream

VARIABLES subject, input

all == <<vars, logVars, subject, input>>

MCBytes == {<<1>>, <<2, 1>>}
MCInts == {<<2, 1>>}

MCZones == {<<>>, <<FixedZone(3600)>>}
\* Lengths at which the number at the end, or the text itself, just fits or
\* just does not.
MCPieces == {Text(n) : n \in {1, 3902, 3903, 3962}} \cup {Number(20)}

-----------------------------------------------------------------------------
(* A reference calendar *)

IsLeap(y) == y % 4 = 0 /\ (y % 100 # 0 \/ y % 400 = 0)

DaysIn(y, m) ==
    IF m = 2 THEN (IF IsLeap(y) THEN 29 ELSE 28)
    ELSE IF m \in {4, 6, 9, 11} THEN 30 ELSE 31

DayAfter(d) ==
    IF d.day < DaysIn(d.year, d.month) THEN [d EXCEPT !.day = @ + 1]
    ELSE IF d.month < 12 THEN [year |-> d.year, month |-> d.month + 1, day |-> 1]
    ELSE [year |-> d.year + 1, month |-> 1, day |-> 1]

\* The first and the last day whose seconds fit 32 bits, relative to 1970,
\* and the length of 400 years.
FirstDay == -24855
Cycle == 146097

\* 1901-12-14 was a Saturday.
FirstDate == [number |-> FirstDay, weekDay |-> 6,
              date |-> [year |-> 1901, month |-> 12, day |-> 14]]

-----------------------------------------------------------------------------
(* Inputs *)

SmallTimes == -2..5

\* The last two have one and two transitions before the second of 1970 that
\* lookups by local time search for.
Transitions ==
    {<<>>} \cup {<<t>> : t \in -1..2} \cup {<<t, u>> : t \in -1..2, u \in 3..4}
        \cup {<<-1, 0>>, <<-2, -1, 3>>}

\* A block with two local times; one index may lie outside of them.
Blocks ==
    [short : BOOLEAN, leapcnt : {0, 1}, isutccnt : {0, 2}, isstdcnt : {0, 1},
     types : {<<0, 1>>, <<2, -1>>}, times : Transitions,
     idx : (0..2) \X (0..1) \X {0}]

EmptyBlock == [short |-> FALSE, leapcnt |-> 0, isutccnt |-> 0, isstdcnt |-> 0,
               types |-> <<7>>, times |-> <<>>, idx |-> <<0, 0, 0>>]

Files ==
    {[found |-> TRUE, head |-> "TZif", head2 |-> "TZif", version |-> "2",
      v1 |-> EmptyBlock, v2 |-> b] : b \in Blocks}
    \cup {[found |-> f, head |-> "TZif", head2 |-> "none", version |-> v,
           v1 |-> EmptyBlock, v2 |-> EmptyBlock] : f \in BOOLEAN, v \in {"1", "2"}}

\* Both sides of the steps at which sizes are rounded.
NearSteps ==
    UNION {b - 3..b + 3 : b \in {9995, 99950, 999500, 9995000, 99950000,
               10234, 102348, 1048063, 10480517, 104805171,
               999499996, 1073217532}}

Numbers ==
    (0..1100) \cup NearSteps \cup {-1, -9, -10, -1000, 2147483647, -2147483647 - 1}

-----------------------------------------------------------------------------

MCInit ==
    /\ subject \in {"buffer", "line", "day", "zone", "number"}
    /\ IF subject = "buffer" THEN Init
       ELSE buf = NewBuffer(kInitialSize) /\ call = <<"new", <<>>, <<>>>>
    /\ LogInit
    /\ subject # "line" => now = 1 /\ g_logLevel = 2
    /\ input \in CASE subject = "day"    -> {FirstDate}
                    [] subject = "zone"   -> [host : {"little", "big"}, file : Files]
                    [] subject = "number" -> Numbers
                    [] OTHER              -> {0}

UseBuffer ==
    /\ subject = "buffer"
    /\ Next
    /\ UNCHANGED <<logVars, subject, input>>

UseLogger ==
    /\ subject = "line"
    /\ LogNext
    /\ UNCHANGED <<vars, subject, input>>

WalkCalendar ==
    /\ subject = "day"
    /\ input.number < FirstDay + Cycle
    /\ input' = [number  |-> input.number + 1,
                 weekDay |-> (input.weekDay + 1) % 7,
                 date    |-> DayAfter(input.date)]
    /\ UNCHANGED <<vars, logVars, subject>>

MCNext == UseBuffer \/ UseLogger \/ WalkCalendar

MCSpec == MCInit /\ [][MCNext]_all

-----------------------------------------------------------------------------
(* Properties of the pure functions *)

\* Date's formulas agree with the calendar on each day of a cycle, leap days
\* and turns of centuries included; and the seconds of a day, also before
\* 1970, break into the day's date and back (Date.cc:14, TimeZone.cc:47).
CalendarIsRight ==
    subject = "day" =>
        LET jd == input.number + JulianDayOf1970
            d == input.date
        IN  /\ GetJulianDayNumber(d.year, d.month, d.day) = jd
            /\ GetYearMonthDay(jd) = d
            /\ WeekDay(jd) = input.weekDay
            /\ input.number < -FirstDay =>
                  \A s \in {0, 1, 86399} :
                     LET t == input.number * kSecondsPerDay + s
                         dt == BreakTime(t)
                     IN  dt.date = d /\ FromUtcTime(dt) = t

\* The zones, none or one, that the input's file gives, and its block.
ZonesRead ==
    LET zones == ReadTimeZoneFile(input.host, input.file)
    IN  {zones[i] : i \in DOMAIN zones}

BlockOf(file) == IF file.version = "2" THEN file.v2 ELSE file.v1

\* The offset that a zone's file gives for time t: of the last transition
\* that is not later, of the first local time when there is none.
ReferenceOffset(block, t) ==
    LET past == {i \in DOMAIN block.times : block.times[i] <= t} IN
    IF past = {} THEN block.types[1]
    ELSE block.types[block.idx[CHOOSE i \in past : \A j \in past : i >= j] + 1]

\* The offset that the code finds: a little-endian host knows no local time
\* but the first.
OffsetOn(host, block, t) ==
    IF host = "big" THEN ReferenceOffset(block, t) ELSE block.types[1]

\* A file that can be read gives, at every time, the offset in force at that
\* time on a big-endian host; at the second of a transition it is the new one
\* (TimeZone.cc:287).  On a little-endian host it gives the file's first
\* offset at every time, because of readUint8 (TimeZone.cc:136).
ZoneLookupIsRight ==
    subject = "zone" =>
        \A zone \in ZonesRead, t \in SmallTimes :
            FromUtcTime(ToLocalTime(zone, t))
                = t + OffsetOn(input.host, BlockOf(input.file), t)

\* t is before the first transition, and its local time too.
IsBeforeFirst(zone, t, local) ==
    /\ BeforeFirst(zone, local)
    /\ zone.transitions # <<>> => t < zone.transitions[1].utctime

\* t is between the same two transitions as the first second of 1970, or
\* like that second after the last one.
IsWith1970(zone, t, local) ==
    /\ ~BeforeFirst(zone, local)
    /\ LocalBound(zone) > 1
    /\ UpperBound(UtcTimes(zone), t) = LocalBound(zone)

\* A local time converts back to the time it came from (TimeZone.cc:305):
\* before a zone's first transition, whichever side of a transition is asked
\* for; and in the period of 1970, the one the search finds whatever the
\* local time, if the later side is asked for.  On a little-endian host, with
\* one offset for all times, it always does, unless the assertion at
\* TimeZone.cc:312 fails; for that see LocalTimeAfterFirst.
LocalTimeComesBack ==
    subject = "zone" =>
        \A zone \in ZonesRead, t \in SmallTimes, post \in BOOLEAN :
            LET dt == ToLocalTime(zone, t)
                local == FromUtcTime(dt)
            IN  (\/ IsBeforeFirst(zone, t, local)
                 \/ IsWith1970(zone, t, local) /\ post
                 \/ /\ input.host = "little"
                    /\ BeforeFirst(zone, local) \/ LocalBound(zone) > 1)
                    => FromLocalTime(zone, dt, post) = t

\* All of the above: dates and times of day, in any zone.
CivilTimeIsRight == CalendarIsRight /\ ZoneLookupIsRight /\ LocalTimeComesBack

\* What digits read as, as a negative number, which the least int has room for.
ReadBack(digits, base) ==
    LET value[n \in 0..Len(digits)] ==
            IF n = 0 THEN 0 ELSE base * value[n - 1] - digits[n]
    IN  value[Len(digits)]

\* They are all digits, they read as n, and have no leading zero.
ReadsAs(digits, base, n) ==
    /\ \A i \in DOMAIN digits : digits[i] \in 0..base - 1
    /\ ReadBack(digits, base) = n
    /\ digits[1] # 0 \/ digits = <<0>>

\* An int that is not negative is shown as digits that read back as itself,
\* and so is an address in hexadecimal; a negative one, the least included, as
\* its absolute value's digits behind an underscore, so that what follows '_'
\* reads back as the number without its sign (LogStream.cc:40, 49, 64).  A
\* size rounded to k or M has three digits, one rounded to Ki or Mi is at most
\* 1023, however it is rounded (LogStream.cc:86, 137).
NumbersAreRight ==
    subject = "number" =>
        /\ input >= 0 => /\ ReadsAs(Convert(input), 10, -input)
                         /\ ReadsAs(ConvertHex(input), 16, -input)
        /\ input < 0 => /\ Head(Convert(input)) = Underscore
                        /\ ReadsAs(Tail(Convert(input)), 10, input)
        /\ (input >= 1000 /\ input < 999500000) =>
              \A n \in FormatSI(input) : n >= 100 /\ n <= 999
        /\ (input >= 1024 /\ input < 1073217536) =>
              \A n \in FormatIEC(input) :
                  n >= 100 /\ n <= 1023 /\ (n > 999 => input >= 1023488)

\* The assertion at TimeZone.cc:312: a local time that is not before the
\* first transition is not sorted before the first transition.
LocalTimeAfterFirst ==
    subject = "zone" =>
        \A zone \in ZonesRead, t \in SmallTimes :
            BeforeFirst(zone, t) \/ LocalBound(zone) > 1
=============================================================================
