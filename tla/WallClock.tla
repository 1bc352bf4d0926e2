----------------------------- MODULE WallClock -----------------------------
(***************************************************************************)
(* From the clock chip to the date on the screen: cmos_init() sets the     *)
(* wall clock while the machine boots, with interrupts disabled; ticks     *)
(* advance it from then on; and the commands date, uptime and cal of       *)
(* applications/shell.c show what the calls return.                        *)
(***************************************************************************)
EXTENDS Cmos, Clock

wallVars == <<cmosVars, clockVars>>

WallInit == CmosInit /\ ClockInit

SetsClock == cmos_init /\ settimeofday(tv_sec', 0)

Runs == tv_sec # -1 /\ ClockNext

WallNext ==
    \/ CmosNext /\ UNCHANGED clockVars
    \/ SetsClock
    \/ Runs /\ UNCHANGED cmosVars

WallSpec == WallInit /\ [][WallNext]_wallVars

-----------------------------------------------------------------------------
\* Mutant: the time zone counts the other way.
DateWest(tv) ==
    LET t == gmtime_r(tv.tv_sec + CONFIG_TZ * SECS_PER_MIN)
    IN  <<t.tm_year + 1900, t.tm_mon + 1, t.tm_mday, t.tm_hour, t.tm_min, t.tm_sec>>

\* What date prints before the time zone.
do_date(tv) ==
    LET t == localtime_r(tv.tv_sec)
    IN  <<t.tm_year + 1900, t.tm_mon + 1, t.tm_mday, t.tm_hour, t.tm_min, t.tm_sec>>

\* What uptime prints: days if there are any, and the time.
do_uptime(tv) ==
    LET t == gmtime_r(tv.tv_sec % SECS_PER_DAY)
    IN  [days |-> tv.tv_sec \div SECS_PER_DAY,
         time |-> <<t.tm_hour, t.tm_min, t.tm_sec, tv.tv_usec>>]

days_of_mon(mon) == <<31, 28, 31, 30, 31, 30, 31, 31, 30, 31, 30, 31>>[mon + 1]

\* Mutant: the day itself is counted.
FirstDayLate(tm0) == (tm0.tm_wday + 35 - tm0.tm_mday) % 7

\* The column of the first day of the month.
FirstDay(tm0) == (tm0.tm_wday + 35 - (tm0.tm_mday - 1)) % 7

\* What cal prints when tm0 is the local time: the line and the column of each
\* day of the month.
do_cal(tm0) ==
    LET days == days_of_mon(tm0.tm_mon) +
                One(tm0.tm_mon = 1 /\ is_leapyear(1900 + tm0.tm_year))
        Place[d \in 1..days] ==
            IF d = 1 THEN <<1, FirstDay(tm0)>>
            ELSE LET p == Place[d - 1]
                 IN  IF p[2] = 6 THEN <<p[1] + 1, 0>> ELSE <<p[1], p[2] + 1>>
    IN  Place

-----------------------------------------------------------------------------
(***************************************************************************)
(* Properties.                                                             *)
(***************************************************************************)
\* gmtime_r() gives the date of the calendar on every day, across the ends of
\* months and years, leap years included, and mktime() is its inverse.
DatesCorrect ==
    Off => \A s \in Times :
        /\ gmtime_r(day * SECS_PER_DAY + s) = Today(s)
        /\ mktime(Today(s)) = day * SECS_PER_DAY + s

Yesterday(d) ==
    LET y == IF d.m = 1 /\ d.d = 1 THEN d.y - 1 ELSE d.y
        m == IF d.d > 1 THEN d.m ELSE ((d.m + 10) % 12) + 1
    IN  [y |-> y, m |-> m, d |-> IF d.d > 1 THEN d.d - 1 ELSE DaysIn(y, m),
         w |-> (d.w + 6) % 7]

\* The date k days after the machine was switched on, or the day before.
DateOn(k) ==
    LET Later[i \in 0..k] == IF i = 0 THEN date ELSE Tomorrow(Later[i - 1])
    IN  IF k < 0 THEN Yesterday(date) ELSE Later[k]

\* The date and the time of day on the calendar of module Calendar, s seconds
\* after the day on which the machine was switched on began.
DateAt(s) ==
    LET d == DateOn(s \div SECS_PER_DAY)
    IN  <<d.y, d.m, d.d,
          (s \div SECS_PER_HOUR) % 24, (s \div SECS_PER_MIN) % 60, s % SECS_PER_MIN>>

\* What date shows after gettimeofday() is the local date and time that follow
\* from the chip's and the ticks since then, across midnight and the end of the
\* month and of the year.  (A whole second is only carried at the next tick.)
DateShown ==
    [][\A r \in {reading'["CLOCK_REALTIME"]} \ {reading["CLOCK_REALTIME"]} :
          set.tv.tv_sec = tv_sec /\ tv_sec # -1 /\ UNCHANGED set =>
              LET passed == (ticks - set.ticks) * TickUsecs
                  s0 == tv_sec - day * SECS_PER_DAY - CONFIG_TZ * 60
              IN  \E s \in 0..MaxTicks :
                      /\ s * USECS_PER_SEC <= passed /\ passed <= (s + 1) * USECS_PER_SEC
                      /\ do_date(r) = DateAt(s0 + s)]_wallVars

\* On every day cal puts the day into the column of its weekday, and each day
\* of the month, no more and no less, after the one before it; uptime shows any
\* number of days.
CalendarShown ==
    Off =>
        /\ LET c == do_cal(Today(0))
           IN  /\ DOMAIN c = 1..DaysIn(date.y, date.m)
               /\ c[date.d][2] = date.w
               /\ \A d \in DOMAIN c \ {1} :
                      7 * c[d][1] + c[d][2] = 7 * c[d - 1][1] + c[d - 1][2] + 1
        /\ \A s \in Times : do_uptime(timeval(day * SECS_PER_DAY + s, 0)) =
               [days |-> day, time |-> <<s \div 3600, (s \div 60) % 60, s % 60, 0>>]
=============================================================================
