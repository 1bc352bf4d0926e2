------------------------------ MODULE Calendar ------------------------------
(***************************************************************************)
(* lib/time.c: mktime() and gmtime_r(), which convert between seconds      *)
(* since 1970 and a date, checked against a calendar that only knows which *)
(* day comes after a given one.                                            *)
(*                                                                         *)
(* The state is a day: its number, and its date by that calendar.          *)
(***************************************************************************)
EXTENDS Integers, Sequences, FiniteSetsExt

CONSTANTS
    LastDay,    \* bound: the last day; the 24854th ends before 2^31 seconds do
    Times,      \* the seconds of the day at which the functions are tried
    CONFIG_TZ   \* the time zone: minutes west of Greenwich

SECS_PER_MIN == 60
SECS_PER_HOUR == SECS_PER_MIN * 60
SECS_PER_DAY == SECS_PER_HOUR * 24

\* No time zone is a day away from Greenwich.
ASSUME CalendarAssumption ==
    /\ LastDay \in 0..24854 /\ Times \subseteq 0..(SECS_PER_DAY - 1)
    /\ CONFIG_TZ \in -1439..1439

VARIABLES day, date

-----------------------------------------------------------------------------
is_leapyear(year) == year % 4 = 0 /\ (year % 100 # 0 \/ year % 400 = 0)

One(b) == IF b THEN 1 ELSE 0

\* days_to_mon[m]: the days of a common year before the month after month m.
days_to_mon(m) == <<31, 59, 90, 120, 151, 181, 212, 243, 273, 304, 334>>[m + 1]

\* The days of the year before month mon.
MonthStart(year, mon) ==
    IF mon = 0 THEN 0 ELSE days_to_mon(mon - 1) + One(mon > 1 /\ is_leapyear(year))

\* The loop of mktime(): the days from 1970 to the beginning of year.
DaysBefore[year \in Nat] ==
    IF year <= 1970 THEN 0 ELSE DaysBefore[year - 1] + 365 + One(is_leapyear(year - 1))

mktime(tm) ==
    LET year == 1900 + tm.tm_year
    IN  (DaysBefore[year] + MonthStart(year, tm.tm_mon) + tm.tm_mday - 1) * SECS_PER_DAY
            + tm.tm_hour * SECS_PER_HOUR + tm.tm_min * SECS_PER_MIN + tm.tm_sec

\* The first loop of gmtime_r(): the year, and the day of it, for the days yd[2]
\* counted from the beginning of year yd[1].
YearOf[yd \in Nat \X Nat] ==
    LET n == 365 + One(is_leapyear(yd[1]))
    IN  IF n > yd[2] THEN yd ELSE YearOf[<<yd[1] + 1, yd[2] - n>>]

\* Mutant: the month begins a day late.
MonthOfLate(leap, days) ==
    Min({m \in 0..11 : m = 11 \/ days_to_mon(m) + One(leap /\ m > 0) >= days})

\* The second loop: the first month that does not end before the day.
MonthOf(leap, days) ==
    Min({m \in 0..11 : m = 11 \/ days_to_mon(m) + One(leap /\ m > 0) > days})

gmtime_r(t) ==
    LET days == t \div SECS_PER_DAY
        n == t % SECS_PER_DAY
        yd == YearOf[<<1970, days>>]
        leap == is_leapyear(yd[1])
        mon == MonthOf(leap, yd[2])
    IN  [tm_sec |-> (n % SECS_PER_HOUR) % SECS_PER_MIN,
         tm_min |-> (n % SECS_PER_HOUR) \div SECS_PER_MIN,
         tm_hour |-> n \div SECS_PER_HOUR,
         tm_mday |-> yd[2] - (IF mon > 0 THEN days_to_mon(mon - 1) + One(leap /\ mon > 1)
                                         ELSE 0) + 1,
         tm_mon |-> mon,
         tm_year |-> yd[1] - 1900,
         tm_wday |-> (days + 4) % 7]

localtime_r(t) == gmtime_r(t - CONFIG_TZ * SECS_PER_MIN)

-----------------------------------------------------------------------------
(***************************************************************************)
(* The reference: the Gregorian calendar, one day after the other from     *)
(* Thursday, 1 January 1970.                                               *)
(***************************************************************************)
Leap(y) == IF y % 100 = 0 THEN y % 400 = 0 ELSE y % 4 = 0

DaysIn(y, m) ==
    CASE m \in {4, 6, 9, 11} -> 30
      [] m = 2 -> IF Leap(y) THEN 29 ELSE 28
      [] OTHER -> 31

Tomorrow(d) ==
    [y |-> IF d.m = 12 /\ d.d = 31 THEN d.y + 1 ELSE d.y,
     m |-> IF d.d < DaysIn(d.y, d.m) THEN d.m ELSE (d.m % 12) + 1,
     d |-> IF d.d < DaysIn(d.y, d.m) THEN d.d + 1 ELSE 1,
     w |-> (d.w + 1) % 7]

CalendarInit == day = 0 /\ date = [y |-> 1970, m |-> 1, d |-> 1, w |-> 4]

CalendarNext == day < LastDay /\ day' = day + 1 /\ date' = Tomorrow(date)

-----------------------------------------------------------------------------
\* Second s of the day as a struct tm.
Today(s) ==
    [tm_sec |-> s % 60, tm_min |-> (s \div 60) % 60, tm_hour |-> s \div 3600,
     tm_mday |-> date.d, tm_mon |-> date.m - 1, tm_year |-> date.y - 1900,
     tm_wday |-> date.w]
=============================================================================
