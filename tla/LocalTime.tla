------------------------------ MODULE LocalTime ------------------------------
(***************************************************************************)
(* Local time of the reports (backend/app/reports.py): Europe/Berlin wall  *)
(* clock time computed from UTC with the EU rule, the UTC instants at      *)
(* which local days and months begin, and arithmetic on months.            *)
(*                                                                         *)
(* An instant is a number of half hours, 48 * ordinal + half hour of the   *)
(* day, where ordinal counts days as Python's date.toordinal() does.  A    *)
(* half hour is the finest step any definition of the reports looks at.    *)
(***************************************************************************)
EXTENDS Integers

HalfHoursADay == 48
Hour    == 2        \* timedelta(hours=1)
Instant == 1        \* the finest step; it stands for a minute where the code has one

-----------------------------------------------------------------------------
(* Python's calendar *)

Leap(year) == year % 4 = 0 /\ (year % 100 # 0 \/ year % 400 = 0)

\* Days of the year before the first of each month.
DaysBefore(year, month) ==
    <<0, 31, 59, 90, 120, 151, 181, 212, 243, 273, 304, 334>>[month]
        + IF month > 2 /\ Leap(year) THEN 1 ELSE 0

DaysBeforeYear(year) ==
    LET past == year - 1 IN 365 * past + past \div 4 - past \div 100 + past \div 400

\* date(year, month, day).toordinal()
Ordinal(year, month, day) == DaysBeforeYear(year) + DaysBefore(year, month) + day

\* date.weekday(): Monday is 0.
WeekDay(ordinal) == (ordinal + 6) % 7

\* date.fromordinal(): the year of a day, and the month within the year.
YearOf(ordinal) ==
    CHOOSE year \in ordinal \div 366 .. ordinal \div 365 + 1 :
        DaysBeforeYear(year) < ordinal /\ ordinal <= DaysBeforeYear(year + 1)

MonthIn(year, ordinal) ==
    CHOOSE month \in 1 .. 12 :
        /\ Ordinal(year, month, 1) <= ordinal
        /\ month < 12 => ordinal < Ordinal(year, month + 1, 1)

Midnight(ordinal) == HalfHoursADay * ordinal        \* datetime.combine(day, min.time())
DayOf(instant)    == instant \div HalfHoursADay
HourOf(instant)   == (instant % HalfHoursADay) \div Hour
MonthOf(instant)  == LET day == DayOf(instant) IN <<YearOf(day), MonthIn(YearOf(day), day)>>

\* Counting months from year 0, as shift_month does.
MonthIndex(month) == month[1] * 12 + month[2] - 1

-----------------------------------------------------------------------------
(* reports.py *)

ShiftMonth(month, delta) ==
    LET index == MonthIndex(month) + delta IN <<index \div 12, (index % 12) + 1>>

FirstOf(month) == Ordinal(month[1], month[2], 1)

SundayBefore(day) == day - ((WeekDay(day) + 1) % 7)

LastSunday(year, month) == SundayBefore(FirstOf(ShiftMonth(<<year, month>>, 1)) - 1)

\* +2h from 01:00 UTC on the last Sunday of March to 01:00 UTC on the last
\* Sunday of October, +1h otherwise.
BerlinOffset(utc) ==
    LET year  == YearOf(DayOf(utc))
        start == Midnight(LastSunday(year, 3)) + Hour
        end   == Midnight(LastSunday(year, 10)) + Hour
    IN  IF start <= utc /\ utc < end THEN 2 * Hour ELSE Hour

ToLocal(utc) == utc + BerlinOffset(utc)

\* Mutant of LocalMidnightUtc: the offset of the end of the day.
LocalMidnightLate(day) == Midnight(day) - BerlinOffset(Midnight(day + 1))

LocalMidnightUtc(day) ==
    LET guess == Midnight(day) - Hour
    IN  Midnight(day) - BerlinOffset(guess)

\* Mutant of MonthBounds: the month of UTC.
MonthBoundsUtc(month) == <<Midnight(FirstOf(month)), Midnight(FirstOf(ShiftMonth(month, 1)))>>

\* [start, end) of a local calendar month
MonthBounds(month) ==
    <<LocalMidnightUtc(FirstOf(month)), LocalMidnightUtc(FirstOf(ShiftMonth(month, 1)))>>
=============================================================================
