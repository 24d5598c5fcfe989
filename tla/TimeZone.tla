------------------------------ MODULE TimeZone ------------------------------
(***************************************************************************)
(* base/Date and base/TimeZone: pure functions, translated with C's        *)
(* division, which rounds towards zero.  A zone is the record of its       *)
(* transitions and its local times (UTC offsets in seconds); indices count *)
(* from 1.  std::upper_bound is external: the position of the first        *)
(* element that is greater, or one past the end.                           *)
(***************************************************************************)
EXTENDS Integers, Sequences

Div(a, b) == IF a < 0 /\ a % b # 0 THEN a \div b + 1 ELSE a \div b
Mod(a, b) == a - b * Div(a, b)

-----------------------------------------------------------------------------
(* Date *)

GetJulianDayNumber(year, month, day) ==
    LET a == Div(14 - month, 12)
        y == year + 4800 - a
        m == month + 12 * a - 3
    IN  day + Div(153 * m + 2, 5) + y * 365
            + Div(y, 4) - Div(y, 100) + Div(y, 400) - 32045

GetYearMonthDay(julianDayNumber) ==
    LET a == julianDayNumber + 32044
        b == Div(4 * a + 3, 146097)
        c == a - Div(b * 146097, 4)
        d == Div(4 * c + 3, 1461)
        e == c - Div(1461 * d, 4)
        m == Div(5 * e + 2, 153)
    IN  [year  |-> b * 100 + d - 4800 + Div(m, 10),
         month |-> m + 3 - 12 * Div(m, 10),
         day   |-> e - Div(153 * m + 2, 5) + 1]

JulianDayOf1970 == GetJulianDayNumber(1970, 1, 1)

WeekDay(julianDayNumber) == Mod(julianDayNumber + 1, 7)

-----------------------------------------------------------------------------
(* Times of day *)

kSecondsPerDay == 24 * 60 * 60

\* Negative times are not brought back into the day.
BreakTime_NoBorrow(t) ==
    LET seconds == Mod(t, kSecondsPerDay)
        days == Div(t, kSecondsPerDay)
    IN  [date   |-> GetYearMonthDay(days + JulianDayOf1970),
         hour   |-> Div(Div(seconds, 60), 60),
         minute |-> Mod(Div(seconds, 60), 60),
         second |-> Mod(seconds, 60)]

BreakTime(t) ==
    LET rest == Mod(t, kSecondsPerDay)
        seconds == IF rest < 0 THEN rest + kSecondsPerDay ELSE rest
        days == Div(t, kSecondsPerDay) - (IF rest < 0 THEN 1 ELSE 0)
    IN  [date   |-> GetYearMonthDay(days + JulianDayOf1970),
         hour   |-> Div(Div(seconds, 60), 60),
         minute |-> Mod(Div(seconds, 60), 60),
         second |-> Mod(seconds, 60)]

FromUtcTime(dt) ==
    LET days == GetJulianDayNumber(dt.date.year, dt.date.month, dt.date.day)
                    - JulianDayOf1970
    IN  days * kSecondsPerDay + dt.hour * 3600 + dt.minute * 60 + dt.second

-----------------------------------------------------------------------------
(* Zone files.  A block holds the header's counts and the data behind them; *)
(* short marks a block that the file does not hold completely, found says   *)
(* that the file can be opened, and host is the byte order of the machine   *)
(* that reads it.  The result is <<>> for failure and <<zone>> otherwise.   *)

\* The byte goes through be64toh, which leaves it alone on a big-endian host.
\* On a little-endian one it moves it to the top of 64 bits, and the
\* conversion back to uint8_t keeps the lowest eight, which are zero.
ReadUint8(host, x) == IF host = "big" THEN x ELSE 0

AddTransition(localtimes, utctime, idx) ==
    [utctime |-> utctime, localtime |-> utctime + localtimes[idx],
     localtimeIdx |-> idx]

\* The index of transition i's local time; the file's indices count from 0.
IndexRead(host, block, i) == ReadUint8(host, block.idx[i]) + 1

\* localtimes.at(idx) throws like a short read does.
ReadDataBlock(host, block) ==
    IF \/ block.short
       \/ block.leapcnt # 0
       \/ block.isutccnt # 0 /\ block.isutccnt # Len(block.types)
       \/ block.isstdcnt # 0 /\ block.isstdcnt # Len(block.types)
       \/ \E i \in DOMAIN block.times : IndexRead(host, block, i) \notin DOMAIN block.types
    THEN <<>>
    ELSE <<[localtimes  |-> block.types,
            transitions |-> [i \in DOMAIN block.times |->
                AddTransition(block.types, block.times[i], IndexRead(host, block, i))]]>>

\* Only version "2" has its second block read.
ReadTimeZoneFile(host, file) ==
    IF ~file.found \/ file.head # "TZif" THEN <<>>
    ELSE IF file.version = "2"
         THEN IF file.head2 # "TZif" THEN <<>> ELSE ReadDataBlock(host, file.v2)
         ELSE ReadDataBlock(host, file.v1)

\* TimeZone(eastOfUtc, name)
FixedZone(eastOfUtc) == [localtimes |-> <<eastOfUtc>>, transitions |-> <<>>]

-----------------------------------------------------------------------------
(* Lookups; the result is an index into localtimes *)

UpperBound(times, t) ==
    LET greater == {i \in DOMAIN times : t < times[i]} IN
    IF greater = {} THEN Len(times) + 1
    ELSE CHOOSE i \in greater : \A j \in greater : i <= j

UtcTimes(zone) == [i \in DOMAIN zone.transitions |-> zone.transitions[i].utctime]

FindByUtc(zone, utcTime) ==
    IF zone.transitions = <<>> \/ utcTime < zone.transitions[1].utctime THEN 1
    ELSE zone.transitions[UpperBound(UtcTimes(zone), utcTime) - 1].localtimeIdx

\* The position that the assertion at TimeZone.cc:312 is about.  The
\* comparison is by utctime, and the sentry's utctime is zero.
LocalBound(zone) == UpperBound(UtcTimes(zone), 0)

BeforeFirst(zone, localtime) ==
    \/ zone.transitions = <<>>
    \/ localtime < zone.transitions[1].localtime

\* The last local second before transition i, in the time that ends there.
PriorSecond(zone, i) ==
    zone.transitions[i].utctime - 1
        + zone.localtimes[zone.transitions[i - 1].localtimeIdx]

FindByLocal(zone, localtime, postTransition) ==
    LET idx(i) == zone.transitions[i].localtimeIdx
        i == LocalBound(zone)
        j == i - 1                       \* after --transI
        later == IF j > 1 THEN j - 1 ELSE j  \* prior_trans at the end
        prior == IF j > 1 THEN PriorSecond(zone, j) ELSE PriorSecond(zone, i)
    IN  IF BeforeFirst(zone, localtime) THEN 1
        ELSE IF i > Len(zone.transitions) THEN idx(Len(zone.transitions))
        ELSE IF PriorSecond(zone, i) < localtime
             THEN idx(IF postTransition THEN i ELSE j)
        ELSE IF localtime <= prior
             THEN idx(IF postTransition THEN j ELSE later)
        ELSE idx(j)

ToLocalTime(zone, seconds) ==
    BreakTime(seconds + zone.localtimes[FindByUtc(zone, seconds)])

FromLocalTime(zone, dt, postTransition) ==
    FromUtcTime(dt) - zone.localtimes[
                          FindByLocal(zone, FromUtcTime(dt), postTransition)]
=============================================================================
