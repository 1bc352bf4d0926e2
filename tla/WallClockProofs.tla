--------------------------- MODULE WallClockProofs ---------------------------
(***************************************************************************)
(* The date and the clocks, for every number of ticks in a second, every   *)
(* set of threads and every day up to 2038: lib/time.c agrees with the     *)
(* calendar, cmos_init() sets the wall clock to a time that the chip has   *)
(* shown, and no tick is lost or counted twice.                            *)
(***************************************************************************)
EXTENDS WallClock, FiniteSetTheorems, WellFoundedInduction, TLAPS

-----------------------------------------------------------------------------
(***************************************************************************)
(* Induction: over a set of numbers, since a set can be named in a proof.  *)
(***************************************************************************)
Below == {ss \in Nat \X Nat : ss[1] < ss[2]}

\* A set of numbers that has 0 and the successor of each of its numbers has
\* every number: the loops of lib/time.c go up one by one.
LEMMA Induction ==
    ASSUME NEW S \in SUBSET Nat, 0 \in S, \A n \in S : n + 1 \in S
    PROVE  \A n \in Nat : n \in S
<1> DEFINE T == Nat \ S
<1>1. ASSUME T # {} PROVE FALSE
  <2>1. IsWellFoundedOn(Below, Nat)
    BY NatLessThanWellFounded DEF OpToRel, Below
  <2>2. PICK m \in T : \A x \in T : <<x, m>> \notin Below
    BY <1>1, <2>1, WFMin, Zenon
  <2>3. m \in Nat /\ m # 0
    OBVIOUS
  <2>4. m - 1 \in Nat /\ <<m - 1, m>> \in Below
    BY <2>3 DEF Below
  <2>5. m - 1 \in S
    BY <2>2, <2>4
  <2>6. m = (m - 1) + 1
    BY <2>3
  <2> QED BY <2>5, <2>6
<1> QED BY <1>1

-----------------------------------------------------------------------------
(***************************************************************************)
(* Years.                                                                  *)
(***************************************************************************)
\* The days from the beginning of year 0 to the beginning of year y.
Elapsed(y) == 365 * y + (y + 3) \div 4 - (y + 99) \div 100 + (y + 399) \div 400

\* The days of year y.
YearDays(y) == 365 + One(is_leapyear(y))

\* A year is as long as the loops of mktime() and gmtime_r() take it to be.
LEMMA ElapsedStep ==
    ASSUME NEW y \in Nat
    PROVE  /\ Elapsed(y) \in Nat
           /\ Elapsed(y + 1) = Elapsed(y) + YearDays(y)
           /\ YearDays(y) \in {365, 366}
BY DEF Elapsed, YearDays, One, is_leapyear

\* The loops take the years in their order.
LEMMA ElapsedMonotone ==
    ASSUME NEW x \in Nat, NEW y \in Nat, x < y
    PROVE  Elapsed(x + 1) <= Elapsed(y) /\ x <= Elapsed(x)
BY DEF Elapsed

\* The leap years of lib/time.c are those of the calendar.
LEMMA LeapAgree ==
    ASSUME NEW y \in Nat
    PROVE  is_leapyear(y) <=> Leap(y)
BY DEF is_leapyear, Leap

IsDaysBefore(f) ==
    f = [year \in Nat |->
            IF year <= 1970 THEN 0 ELSE f[year - 1] + 365 + One(is_leapyear(year - 1))]

\* What the loop of mktime() adds up.
LEMMA DaysBeforeValue ==
    ASSUME NEW y \in Nat, y >= 1970
    PROVE  DaysBefore[y] = Elapsed(y) - Elapsed(1970)
<1> DEFINE g == [year \in Nat |-> IF year <= 1970 THEN 0 ELSE Elapsed(year) - Elapsed(1970)]
<1>1. ASSUME NEW x \in Nat
      PROVE  g[x] = IF x <= 1970 THEN 0 ELSE g[x - 1] + 365 + One(is_leapyear(x - 1))
  <2>1. CASE x <= 1970
    BY <2>1
  <2>2. CASE x > 1970
    <3>1. x - 1 \in Nat /\ (x - 1) + 1 = x
      BY <2>2
    <3>2. Elapsed(x) = Elapsed(x - 1) + YearDays(x - 1) /\ Elapsed(x - 1) \in Nat
      BY <3>1, ElapsedStep
    <3>3. Elapsed(1970) \in Nat /\ YearDays(x - 1) \in Nat
      BY <3>1, ElapsedStep
    <3>4. g[x] = Elapsed(x) - Elapsed(1970)
      BY <2>2
    <3>5. g[x - 1] = Elapsed(x - 1) - Elapsed(1970)
      <4>1. CASE x - 1 = 1970
        BY <3>1, <3>3, <4>1
      <4>2. CASE x - 1 > 1970
        BY <3>1, <4>2
      <4> QED BY <2>2, <4>1, <4>2
    <3>6. YearDays(x - 1) = 365 + One(is_leapyear(x - 1)) /\ One(is_leapyear(x - 1)) \in Nat
      BY DEF YearDays, One
    <3> HIDE DEF g
    <3> QED BY <2>2, <3>2, <3>3, <3>4, <3>5, <3>6
  <2> QED BY <2>1, <2>2
<1>2. IsDaysBefore(g)
  BY <1>1 DEF IsDaysBefore
<1> HIDE DEF g
<1>3. IsDaysBefore(DaysBefore)
  <2>1. DaysBefore = CHOOSE f : IsDaysBefore(f)
    BY DEF DaysBefore, IsDaysBefore
  <2> QED BY <1>2, <2>1
<1> DEFINE S == {n \in Nat : DaysBefore[1970 + n] = Elapsed(1970 + n) - Elapsed(1970)}
<1>4. 0 \in S
  <2>1. Elapsed(1970) \in Nat
    BY ElapsedStep
  <2> QED BY <1>3, <2>1 DEF IsDaysBefore
<1>5. ASSUME NEW n \in S PROVE n + 1 \in S
  <2> DEFINE x == 1970 + n
  <2>1. x \in Nat /\ x >= 1970 /\ 1970 + (n + 1) = x + 1 /\ n + 1 \in Nat
    OBVIOUS
  <2>2. DaysBefore[x + 1] = DaysBefore[x] + 365 + One(is_leapyear(x))
    <3>1. x + 1 \in Nat /\ ~(x + 1 <= 1970) /\ (x + 1) - 1 = x
      BY <2>1
    <3> HIDE DEF x
    <3> QED BY <1>3, <3>1 DEF IsDaysBefore
  <2>3. Elapsed(x + 1) = Elapsed(x) + YearDays(x) /\ Elapsed(x) \in Nat /\ Elapsed(1970) \in Nat
    BY <2>1, ElapsedStep
  <2>4. YearDays(x) = 365 + One(is_leapyear(x)) /\ One(is_leapyear(x)) \in Nat
    BY DEF YearDays, One
  <2>5. DaysBefore[x] = Elapsed(x) - Elapsed(1970)
    OBVIOUS
  <2>6. DaysBefore[x + 1] = Elapsed(x + 1) - Elapsed(1970)
    <3> HIDE DEF x
    <3> QED BY <2>2, <2>3, <2>4, <2>5
  <2> QED BY <2>1, <2>6
<1>6. y - 1970 \in S
  <2>1. S \in SUBSET Nat
    OBVIOUS
  <2> HIDE DEF S
  <2>2. \A n \in Nat : n \in S
    BY <1>4, <1>5, <2>1, Induction
  <2> QED BY <2>2
<1>7. 1970 + (y - 1970) = y
  OBVIOUS
<1> QED BY <1>6, <1>7

\* The year, and the day of it, that n days from the beginning of year 0 end in.
YearAt(n) == CHOOSE y \in Nat : Elapsed(y) <= n /\ n < Elapsed(y + 1)

\* Every day is of one year.
LEMMA YearAtExists ==
    ASSUME NEW n \in Nat
    PROVE  /\ YearAt(n) \in Nat
           /\ Elapsed(YearAt(n)) <= n /\ n < Elapsed(YearAt(n) + 1)
<1> DEFINE S == {k \in Nat : n < Elapsed(k) => \E y \in Nat : Elapsed(y) <= n /\ n < Elapsed(y + 1)}
<1>1. 0 \in S
  BY DEF Elapsed
<1>2. ASSUME NEW k \in S PROVE k + 1 \in S
  <2>1. Elapsed(k) \in Nat
    BY ElapsedStep
  <2>2. CASE n < Elapsed(k)
    BY <2>2
  <2>3. CASE Elapsed(k) <= n
    BY <2>3
  <2> QED BY <2>1, <2>2, <2>3
<1>3. n + 1 \in S
  <2>1. S \in SUBSET Nat
    OBVIOUS
  <2> HIDE DEF S
  <2> QED BY <1>1, <1>2, <2>1, Induction
<1>4. n < Elapsed(n + 1)
  <2>1. n + 1 \in Nat /\ n + 2 \in Nat /\ n + 1 < n + 2
    OBVIOUS
  <2>2. n + 1 <= Elapsed(n + 1) /\ Elapsed(n + 1) \in Nat
    BY <2>1, ElapsedMonotone, ElapsedStep
  <2> QED BY <2>2
<1>5. \E y \in Nat : Elapsed(y) <= n /\ n < Elapsed(y + 1)
  BY <1>3, <1>4
<1> QED BY <1>5 DEF YearAt

\* No day is of two years.
LEMMA YearAtUnique ==
    ASSUME NEW n \in Nat, NEW y \in Nat, Elapsed(y) <= n, n < Elapsed(y + 1)
    PROVE  YearAt(n) = y
<1>1. YearAt(n) \in Nat /\ Elapsed(YearAt(n)) <= n /\ n < Elapsed(YearAt(n) + 1)
  BY YearAtExists
<1> DEFINE z == YearAt(n)
<1> HIDE DEF z
<1>2. z \in Nat /\ Elapsed(z) <= n /\ n < Elapsed(z + 1)
  BY <1>1 DEF z
<1>3. Elapsed(y) \in Nat /\ Elapsed(z) \in Nat /\ Elapsed(y + 1) \in Nat /\ Elapsed(z + 1) \in Nat
  BY <1>2, ElapsedStep
<1>4. ~(z < y)
  BY <1>2, <1>3, ElapsedMonotone
<1>5. ~(y < z)
  BY <1>2, <1>3, ElapsedMonotone
<1> QED BY <1>2, <1>4, <1>5 DEF z

IsYearOf(f) ==
    f = [yd \in Nat \X Nat |->
            LET n == 365 + One(is_leapyear(yd[1]))
            IN  IF n > yd[2] THEN yd ELSE f[<<yd[1] + 1, yd[2] - n>>]]

\* The first loop of gmtime_r() ends, in the year that the day is of.
LEMMA YearOfStep ==
    ASSUME NEW y \in Nat, NEW d \in Nat
    PROVE  /\ YearDays(y) > d => YearOf[<<y, d>>] = <<y, d>>
           /\ YearDays(y) <= d => YearOf[<<y, d>>] = YearOf[<<y + 1, d - YearDays(y)>>]
<1> DEFINE Pair(n) == <<YearAt(n), n - Elapsed(YearAt(n))>>
           g == [yd \in Nat \X Nat |-> Pair(Elapsed(yd[1]) + yd[2])]
<1>1. ASSUME NEW x \in Nat, NEW c \in Nat
      PROVE  g[<<x, c>>] = IF YearDays(x) > c THEN <<x, c>> ELSE g[<<x + 1, c - YearDays(x)>>]
  <2>1. /\ Elapsed(x) \in Nat /\ YearDays(x) \in Nat
        /\ Elapsed(x + 1) = Elapsed(x) + YearDays(x)
    BY ElapsedStep
  <2>2. CASE YearDays(x) > c
    <3>1. YearAt(Elapsed(x) + c) = x
      <4>1. /\ Elapsed(x) + c \in Nat /\ Elapsed(x) <= Elapsed(x) + c
            /\ Elapsed(x) + c < Elapsed(x + 1)
        BY <2>1, <2>2
      <4> QED BY <4>1, YearAtUnique
    <3>2. (Elapsed(x) + c) - Elapsed(YearAt(Elapsed(x) + c)) = c
      <4>1. Elapsed(YearAt(Elapsed(x) + c)) = Elapsed(x)
        BY <3>1, Zenon
      <4> QED BY <2>1, <4>1
    <3>3. g[<<x, c>>] = Pair(Elapsed(x) + c)
      OBVIOUS
    <3>4. Pair(Elapsed(x) + c) = <<x, c>>
      BY <3>1, <3>2, Zenon
    <3> HIDE DEF g, Pair
    <3> QED BY <2>2, <3>3, <3>4
  <2>3. CASE YearDays(x) <= c
    <3>1. c - YearDays(x) \in Nat /\ x + 1 \in Nat
      BY <2>1, <2>3
    <3>2. Elapsed(x + 1) + (c - YearDays(x)) = Elapsed(x) + c
      BY <2>1, <3>1
    <3> QED BY <2>1, <2>3, <3>1, <3>2
  <2> QED BY <2>1, <2>2, <2>3
<1>2. IsYearOf(g)
  <2> DEFINE h == [yd \in Nat \X Nat |->
                      IF YearDays(yd[1]) > yd[2] THEN yd
                      ELSE g[<<yd[1] + 1, yd[2] - YearDays(yd[1])>>]]
  <2>1. ASSUME NEW yd \in Nat \X Nat PROVE g[yd] = h[yd]
    <3>1. yd[1] \in Nat /\ yd[2] \in Nat /\ yd = <<yd[1], yd[2]>>
      OBVIOUS
    <3>2. g[<<yd[1], yd[2]>>] =
              IF YearDays(yd[1]) > yd[2] THEN <<yd[1], yd[2]>>
              ELSE g[<<yd[1] + 1, yd[2] - YearDays(yd[1])>>]
      BY <1>1, <3>1
    <3> HIDE DEF g
    <3> QED BY <3>1, <3>2
  <2>2. g = h
    <3>1. DOMAIN g = Nat \X Nat /\ DOMAIN h = Nat \X Nat
      OBVIOUS
    <3>2. g = [yd \in Nat \X Nat |-> g[yd]] /\ h = [yd \in Nat \X Nat |-> h[yd]]
      OBVIOUS
    <3> HIDE DEF g, h
    <3> QED BY <2>1, <3>1, <3>2
  <2> HIDE DEF g
  <2> QED BY <2>2 DEF IsYearOf, YearDays
<1> HIDE DEF g
<1>3. YearOf = CHOOSE f : IsYearOf(f)
  BY DEF YearOf, IsYearOf
<1>4. IsYearOf(YearOf)
  BY <1>2, <1>3
<1>5. <<y, d>> \in Nat \X Nat /\ <<y, d>>[1] = y /\ <<y, d>>[2] = d
  OBVIOUS
<1>6. \A yd \in Nat \X Nat :
          YearOf[yd] = IF YearDays(yd[1]) > yd[2] THEN yd
                       ELSE YearOf[<<yd[1] + 1, yd[2] - YearDays(yd[1])>>]
  <2> DEFINE h == [yd \in Nat \X Nat |->
                      IF YearDays(yd[1]) > yd[2] THEN yd
                      ELSE YearOf[<<yd[1] + 1, yd[2] - YearDays(yd[1])>>]]
  <2>1. YearOf = h
    BY <1>4, Zenon DEF IsYearOf, YearDays
  <2>2. \A yd \in Nat \X Nat :
            h[yd] = IF YearDays(yd[1]) > yd[2] THEN yd
                    ELSE YearOf[<<yd[1] + 1, yd[2] - YearDays(yd[1])>>]
    BY Zenon
  <2> HIDE DEF h
  <2> QED BY <2>1, <2>2, Zenon
<1>7. YearOf[<<y, d>>] = IF YearDays(y) > d THEN <<y, d>>
                         ELSE YearOf[<<y + 1, d - YearDays(y)>>]
  BY <1>5, <1>6
<1>8. YearDays(y) \in Nat
  BY ElapsedStep
<1>9. YearDays(y) <= d => ~(YearDays(y) > d)
  BY <1>8
<1> QED BY <1>7, <1>9, Zenon

\* What gmtime_r() finds on day n of the calendar, which is day c of year y.
LEMMA YearOfValue ==
    ASSUME NEW n \in Nat, NEW y \in Nat, NEW c \in Nat, y >= 1970,
           n = Elapsed(y) - Elapsed(1970) + c, c < YearDays(y)
    PROVE  YearOf[<<1970, n>>] = <<y, c>>
<1> DEFINE At(x) == n - (Elapsed(x) - Elapsed(1970))
           S == {k \in Nat : 1970 + k <= y => YearOf[<<1970, n>>] = YearOf[<<1970 + k, At(1970 + k)>>]}
<1>1. 0 \in S
  <2>1. Elapsed(1970) \in Nat
    BY ElapsedStep
  <2>2. At(1970 + 0) = n
    BY <2>1
  <2> QED BY <2>2
<1>2. ASSUME NEW k \in S PROVE k + 1 \in S
  <2> SUFFICES ASSUME 1970 + (k + 1) <= y
               PROVE  YearOf[<<1970, n>>] = YearOf[<<1970 + (k + 1), At(1970 + (k + 1))>>]
    OBVIOUS
  <2> DEFINE x == 1970 + k
  <2>1. x \in Nat /\ x + 1 \in Nat /\ 1970 + (k + 1) = x + 1 /\ x < y
    OBVIOUS
  <2>2. YearOf[<<1970, n>>] = YearOf[<<x, At(x)>>]
    BY <2>1
  <2> HIDE DEF x
  <2>3. /\ Elapsed(x + 1) = Elapsed(x) + YearDays(x) /\ Elapsed(x) \in Nat
        /\ Elapsed(1970) \in Nat /\ YearDays(x) \in Nat /\ Elapsed(y) \in Nat
    BY <2>1, ElapsedStep
  <2>4. Elapsed(x + 1) <= Elapsed(y)
    BY <2>1, ElapsedMonotone
  <2>5. At(x) \in Nat /\ YearDays(x) <= At(x) /\ At(x) - YearDays(x) = At(x + 1)
    BY <2>3, <2>4
  <2> HIDE DEF At
  <2>6. YearOf[<<x, At(x)>>] = YearOf[<<x + 1, At(x + 1)>>]
    BY <2>1, <2>5, YearOfStep
  <2> QED BY <2>1, <2>2, <2>6
<1>3. YearOf[<<1970, n>>] = YearOf[<<y, At(y)>>]
  <2>1. S \in SUBSET Nat
    OBVIOUS
  <2>2. y - 1970 \in Nat /\ 1970 + (y - 1970) = y
    OBVIOUS
  <2>3. y - 1970 \in S
    <3> HIDE DEF S
    <3> QED BY <1>1, <1>2, <2>1, <2>2, Induction
  <2> HIDE DEF At
  <2> QED BY <2>2, <2>3
<1>4. /\ Elapsed(y + 1) = Elapsed(y) + YearDays(y) /\ Elapsed(y) \in Nat
      /\ Elapsed(1970) \in Nat /\ YearDays(y) \in Nat
  BY ElapsedStep
<1>5. At(y) = c
  BY <1>4
<1> HIDE DEF At
<1>6. YearOf[<<1970, n>>] = YearOf[<<y, c>>]
  BY <1>3, <1>5
<1>7. YearOf[<<y, c>>] = <<y, c>>
  <2>1. YearDays(y) > c
    BY <1>4
  <2> QED BY ONLY y \in Nat, c \in Nat, <2>1, YearOfStep, Zenon
<1> QED BY <1>6, <1>7

-----------------------------------------------------------------------------
(***************************************************************************)
(* Months and days.                                                        *)
(***************************************************************************)
\* The table of lib/time.c.
LEMMA TableValues ==
    /\ days_to_mon(0) = 31 /\ days_to_mon(1) = 59 /\ days_to_mon(2) = 90
    /\ days_to_mon(3) = 120 /\ days_to_mon(4) = 151 /\ days_to_mon(5) = 181
    /\ days_to_mon(6) = 212 /\ days_to_mon(7) = 243 /\ days_to_mon(8) = 273
    /\ days_to_mon(9) = 304 /\ days_to_mon(10) = 334
BY DEF days_to_mon

\* A month is as long as the table of lib/time.c takes it to be, and the months
\* are as long as the year.
LEMMA MonthStartStep ==
    ASSUME NEW y \in Nat, NEW m \in 1..12
    PROVE  /\ MonthStart(y, m - 1) \in Nat
           /\ DaysIn(y, m) \in 28..31
           /\ m < 12 => MonthStart(y, m) = MonthStart(y, m - 1) + DaysIn(y, m)
           /\ m = 12 => MonthStart(y, m - 1) + DaysIn(y, m) = YearDays(y)
           /\ MonthStart(y, m - 1) + DaysIn(y, m) <= YearDays(y)
<1> DEFINE L == One(is_leapyear(y))
<1>1. L \in {0, 1} /\ (L = 1 <=> Leap(y)) /\ YearDays(y) = 365 + L
  BY LeapAgree DEF One, YearDays
<1>2. \A k \in 0..11 : MonthStart(y, k) =
          IF k = 0 THEN 0 ELSE days_to_mon(k - 1) + IF k > 1 THEN L ELSE 0
  BY DEF MonthStart, One
<1> HIDE DEF L
<1>3. DaysIn(y, m) = IF m \in {4, 6, 9, 11} THEN 30 ELSE IF m = 2 THEN 28 + L ELSE 31
  BY <1>1 DEF DaysIn
<1>4. m \in {1, 2, 3, 4, 5, 6} \/ m \in {7, 8, 9, 10, 11, 12}
  OBVIOUS
<1>5. CASE m \in {1, 2, 3, 4, 5, 6}
  BY <1>1, <1>2, <1>3, <1>5, TableValues
<1>6. CASE m \in {7, 8, 9, 10, 11, 12}
  BY <1>1, <1>2, <1>3, <1>6, TableValues
<1> QED BY <1>4, <1>5, <1>6

Dates == [y : Nat, m : 1..12, d : 1..31, w : 0..6]

\* The date d of day n.
DateOK(d, n) ==
    /\ d \in Dates
    /\ d.y >= 1970
    /\ d.d <= DaysIn(d.y, d.m)
    /\ n = Elapsed(d.y) - Elapsed(1970) + MonthStart(d.y, d.m - 1) + d.d - 1
    /\ d.w = (n + 4) % 7

\* The reference is sound: the day after the date of day n is that of day n + 1.
LEMMA TomorrowOK ==
    ASSUME NEW n \in Nat, NEW d, DateOK(d, n)
    PROVE  DateOK(Tomorrow(d), n + 1)
<1> DEFINE e == Tomorrow(d)
<1>1. d.y \in Nat /\ d.m \in 1..12 /\ d.d \in 1..31 /\ d.w \in 0..6
  BY DEF DateOK, Dates
<1>2. e.w = (d.w + 1) % 7 /\ e.w = (n + 1 + 4) % 7 /\ e.w \in 0..6
  BY <1>1 DEF DateOK, Tomorrow
<1>3. /\ MonthStart(d.y, d.m - 1) \in Nat
      /\ DaysIn(d.y, d.m) \in 28..31
      /\ d.m < 12 => MonthStart(d.y, d.m) = MonthStart(d.y, d.m - 1) + DaysIn(d.y, d.m)
      /\ d.m = 12 => MonthStart(d.y, d.m - 1) + DaysIn(d.y, d.m) = YearDays(d.y)
  BY <1>1, MonthStartStep
<1>4. /\ Elapsed(d.y) \in Nat /\ Elapsed(1970) \in Nat
      /\ Elapsed(d.y + 1) = Elapsed(d.y) + YearDays(d.y)
  BY <1>1, ElapsedStep
<1>5. d.d <= DaysIn(d.y, d.m) /\ d.y >= 1970
      /\ n = Elapsed(d.y) - Elapsed(1970) + MonthStart(d.y, d.m - 1) + d.d - 1
  BY DEF DateOK
<1>6. e = [y |-> e.y, m |-> e.m, d |-> e.d, w |-> e.w]
  BY DEF Tomorrow
<1>7. CASE d.d < DaysIn(d.y, d.m)
  <2>1. e.m = d.m /\ e.d = d.d + 1
    BY <1>7 DEF Tomorrow
  <2>2. ~(d.m = 12 /\ d.d = 31)
    BY <1>7 DEF DaysIn
  <2>3. e.y = d.y
    BY <2>2 DEF Tomorrow
  <2>4. e \in Dates
    BY <1>1, <1>2, <1>3, <1>6, <1>7, <2>1, <2>3 DEF Dates
  <2> HIDE DEF e
  <2>5. n + 1 = Elapsed(e.y) - Elapsed(1970) + MonthStart(e.y, e.m - 1) + e.d - 1
    BY <1>1, <1>3, <1>4, <1>5, <2>1, <2>3
  <2>6. e.d <= DaysIn(e.y, e.m)
    BY <1>1, <1>3, <1>7, <2>1, <2>3
  <2> QED BY <1>2, <1>5, <2>3, <2>4, <2>5, <2>6 DEF DateOK, e
<1>8. CASE d.d = DaysIn(d.y, d.m) /\ d.m < 12
  <2>1. e.m = d.m + 1 /\ e.d = 1 /\ e.y = d.y
    BY <1>1, <1>3, <1>8 DEF Tomorrow
  <2>2. e \in Dates
    BY <1>1, <1>2, <1>6, <1>8, <2>1 DEF Dates
  <2> HIDE DEF e
  <2>3. n + 1 = Elapsed(e.y) - Elapsed(1970) + MonthStart(e.y, e.m - 1) + e.d - 1
    <3>1. e.m - 1 = d.m
      BY <1>1, <2>1
    <3> QED BY <1>1, <1>3, <1>4, <1>5, <1>8, <2>1, <3>1
  <2>4. e.d <= DaysIn(e.y, e.m)
    <3>1. e.m \in 1..12 /\ e.y \in Nat
      BY <1>1, <1>8, <2>1
    <3>2. DaysIn(e.y, e.m) \in 28..31
      BY <3>1, MonthStartStep
    <3> QED BY <2>1, <3>2
  <2> QED BY <1>2, <1>5, <2>1, <2>2, <2>3, <2>4 DEF DateOK, e
<1>9. CASE d.d = DaysIn(d.y, d.m) /\ d.m = 12
  <2>1. DaysIn(d.y, d.m) = 31
    BY <1>9 DEF DaysIn
  <2>2. e.m = 1 /\ e.d = 1 /\ e.y = d.y + 1
    BY <1>1, <1>9, <2>1 DEF Tomorrow
  <2>3. e \in Dates
    BY <1>1, <1>2, <1>6, <2>2 DEF Dates
  <2> HIDE DEF e
  <2>4. MonthStart(e.y, e.m - 1) = 0
    BY <2>2 DEF MonthStart
  <2>5. n + 1 = Elapsed(e.y) - Elapsed(1970) + MonthStart(e.y, e.m - 1) + e.d - 1
    BY <1>1, <1>3, <1>4, <1>5, <1>9, <2>2, <2>4
  <2>6. e.d <= DaysIn(e.y, e.m)
    BY <2>2 DEF DaysIn
  <2>7. e.y >= 1970
    BY <1>1, <1>5, <2>2
  <2> QED BY <1>2, <2>3, <2>5, <2>6, <2>7 DEF DateOK, e
<1> QED BY <1>1, <1>3, <1>5, <1>7, <1>8, <1>9

\* and the day before it that of day n - 1.
LEMMA YesterdayOK ==
    ASSUME NEW n \in Nat, n > 0, NEW d, DateOK(d, n)
    PROVE  DateOK(Yesterday(d), n - 1)
<1> DEFINE e == Yesterday(d)
<1>1. d.y \in Nat /\ d.m \in 1..12 /\ d.d \in 1..31 /\ d.w \in 0..6
  BY DEF DateOK, Dates
<1>2. e.w = (d.w + 6) % 7 /\ e.w = (n - 1 + 4) % 7 /\ e.w \in 0..6
  BY <1>1 DEF DateOK, Yesterday
<1>3. e = [y |-> e.y, m |-> e.m, d |-> e.d, w |-> e.w]
  BY DEF Yesterday
<1>4. d.d <= DaysIn(d.y, d.m) /\ d.y >= 1970
      /\ n = Elapsed(d.y) - Elapsed(1970) + MonthStart(d.y, d.m - 1) + d.d - 1
  BY DEF DateOK
<1>5. Elapsed(d.y) \in Nat /\ Elapsed(1970) \in Nat /\ MonthStart(d.y, d.m - 1) \in Nat
  <2>1. Elapsed(d.y) \in Nat /\ Elapsed(1970) \in Nat
    BY <1>1, ElapsedStep
  <2>2. PICK y \in Nat, m \in 1..12 : y = d.y /\ m = d.m
    BY <1>1
  <2>3. MonthStart(y, m - 1) \in Nat
    BY MonthStartStep
  <2> QED BY <2>1, <2>2, <2>3
<1>6. CASE d.d > 1
  <2>1. e.y = d.y /\ e.m = d.m /\ e.d = d.d - 1
    BY <1>1, <1>6 DEF Yesterday
  <2>2. e \in Dates
    BY <1>1, <1>2, <1>3, <1>6, <2>1 DEF Dates
  <2> HIDE DEF e
  <2>3. DaysIn(d.y, d.m) \in 28..31
    BY <1>1, MonthStartStep
  <2>4. n - 1 = Elapsed(e.y) - Elapsed(1970) + MonthStart(e.y, e.m - 1) + e.d - 1
    BY <1>1, <1>4, <1>5, <2>1
  <2>5. e.d <= DaysIn(e.y, e.m)
    BY <1>1, <1>4, <2>1, <2>3
  <2> QED BY <1>2, <1>4, <2>1, <2>2, <2>4, <2>5 DEF DateOK, e
<1>7. CASE d.d = 1 /\ d.m > 1
  <2>1. e.y = d.y /\ e.m = d.m - 1 /\ e.d = DaysIn(d.y, d.m - 1)
    BY <1>1, <1>7 DEF Yesterday
  <2>2. PICK y \in Nat, m \in 1..12 : y = e.y /\ m = e.m /\ m < 12
    BY <1>1, <1>7, <2>1
  <2>3. /\ DaysIn(y, m) \in 28..31 /\ MonthStart(y, m - 1) \in Nat
        /\ m < 12 => MonthStart(y, m) = MonthStart(y, m - 1) + DaysIn(y, m)
    BY MonthStartStep
  <2>4. e \in Dates
    BY <1>1, <1>2, <1>3, <2>1, <2>2, <2>3 DEF Dates
  <2> HIDE DEF e
  <2>5. n - 1 = Elapsed(e.y) - Elapsed(1970) + MonthStart(e.y, e.m - 1) + e.d - 1
    <3>1. e.d = DaysIn(y, m) /\ MonthStart(d.y, d.m - 1) = MonthStart(y, m)
      BY <1>1, <2>1, <2>2
    <3> QED BY <1>4, <1>5, <1>7, <2>1, <2>2, <2>3, <3>1
  <2>6. e.d <= DaysIn(e.y, e.m)
    BY <1>1, <2>1, <2>2, <2>3
  <2> QED BY <1>2, <1>4, <2>1, <2>4, <2>5, <2>6 DEF DateOK, e
<1>8. CASE d.d = 1 /\ d.m = 1
  <2>1. e.y = d.y - 1 /\ e.m = 12 /\ e.d = 31
    BY <1>1, <1>8 DEF Yesterday, DaysIn
  <2>2. MonthStart(d.y, d.m - 1) = 0
    BY <1>8 DEF MonthStart
  <2>3. d.y > 1970
    <3>1. d.y # 1970
      BY <1>4, <1>5, <1>8, <2>2
    <3> QED BY <1>1, <1>4, <3>1
  <2>4. PICK y \in Nat : y = d.y - 1 /\ y >= 1970
    BY <1>1, <2>3
  <2>5. /\ Elapsed(y) \in Nat /\ Elapsed(y + 1) = Elapsed(y) + YearDays(y)
        /\ MonthStart(y, 12 - 1) \in Nat /\ MonthStart(y, 12 - 1) + DaysIn(y, 12) = YearDays(y)
        /\ DaysIn(y, 12) = 31
    <3>1. 12 \in 1..12
      OBVIOUS
    <3>2. MonthStart(y, 12 - 1) \in Nat /\ MonthStart(y, 12 - 1) + DaysIn(y, 12) = YearDays(y)
      BY <3>1, MonthStartStep
    <3>3. DaysIn(y, 12) = 31
      BY DEF DaysIn
    <3>4. Elapsed(y) \in Nat /\ Elapsed(y + 1) = Elapsed(y) + YearDays(y)
      BY ElapsedStep
    <3> QED BY <3>2, <3>3, <3>4
  <2>6. e \in Dates
    BY <1>2, <1>3, <2>1, <2>4 DEF Dates
  <2> HIDE DEF e
  <2>7. d.y = y + 1 /\ e.y = y
    BY <1>1, <2>1, <2>4
  <2>8. n - 1 = Elapsed(e.y) - Elapsed(1970) + MonthStart(e.y, e.m - 1) + e.d - 1
    BY <1>4, <1>5, <1>8, <2>1, <2>2, <2>5, <2>7
  <2>9. e.d <= DaysIn(e.y, e.m)
    BY <2>1, <2>5, <2>7
  <2>10. e.y >= 1970
    <3>1. e.y = y
      BY <2>7, Zenon
    <3>2. PICK u : u = e.y
      OBVIOUS
    <3>3. u = y
      BY <3>1, <3>2, Zenon
    <3>4. u >= 1970
      BY <2>4, <3>3
    <3> QED BY <3>2, <3>4
  <2>11. e.w = (n - 1 + 4) % 7
    BY <1>2, Zenon DEF e
  <2>12. DateOK(e, n - 1)
    BY <2>6, <2>8, <2>9, <2>10, <2>11 DEF DateOK
  <2> QED BY <2>12 DEF e
<1> QED BY <1>1, <1>6, <1>7, <1>8

\* The second loop of gmtime_r() stops at the month that the day is of.
LEMMA MonthOfValue ==
    ASSUME NEW y \in Nat, NEW m \in 1..12, NEW d \in 1..31, d <= DaysIn(y, m)
    PROVE  MonthOf(is_leapyear(y), MonthStart(y, m - 1) + d - 1) = m - 1
<1> DEFINE n == MonthStart(y, m - 1) + d - 1
           End(k) == days_to_mon(k) + One(is_leapyear(y) /\ k > 0)
           S == {k \in 0..11 : k = 11 \/ End(k) > n}
<1>1. /\ MonthStart(y, m - 1) \in Nat /\ DaysIn(y, m) \in 28..31
      /\ m < 12 => MonthStart(y, m) = MonthStart(y, m - 1) + DaysIn(y, m)
  BY MonthStartStep
<1>2. \A k \in 0..10 : End(k) = MonthStart(y, k + 1)
  BY DEF MonthStart, One
<1>3. \A k \in 0..11 : k < m - 1 => End(k) <= MonthStart(y, m - 1)
  <2> DEFINE L == One(is_leapyear(y))
  <2>1. L \in {0, 1}
    BY DEF One
  <2>2. \A k \in 0..10 : End(k) = days_to_mon(k) + IF k > 0 THEN L ELSE 0
    BY DEF One
  <2>3. m > 1 => MonthStart(y, m - 1) = days_to_mon(m - 2) + IF m > 2 THEN L ELSE 0
    BY DEF MonthStart, One
  <2> HIDE DEF L, End
  <2>4. ASSUME NEW k \in 0..10, k < m - 1
        PROVE  days_to_mon(k) <= days_to_mon(m - 2) /\ days_to_mon(k) \in Nat /\ days_to_mon(m - 2) \in Nat
    BY <2>4, TableValues
  <2>5. ASSUME NEW k \in 0..11, k < m - 1 PROVE End(k) <= MonthStart(y, m - 1)
    <3>1. k \in 0..10 /\ m > 1 /\ (k > 0 => m > 2)
      BY <2>5
    <3> QED BY <2>1, <2>2, <2>3, <2>4, <2>5, <3>1
  <2> QED BY <2>5
<1>4. m - 1 \in S
  <2>1. CASE m = 12
    BY <2>1
  <2>2. CASE m < 12
    <3>1. End(m - 1) = MonthStart(y, m)
      <4>1. m - 1 \in 0..10 /\ (m - 1) + 1 = m
        BY <2>2
      <4> HIDE DEF End
      <4> QED BY <1>2, <4>1
    <3> HIDE DEF End
    <3> QED BY <1>1, <2>2, <3>1
  <2> QED BY <2>1, <2>2
<1>5. \A k \in S : m - 1 <= k
  <2> SUFFICES ASSUME NEW k \in S, k < m - 1 PROVE FALSE
    OBVIOUS
  <2>1. k \in 0..11 /\ k # 11 /\ End(k) > n
    OBVIOUS
  <2>2. End(k) <= MonthStart(y, m - 1)
    BY <1>3, <2>1
  <2>3. End(k) \in Int
    <3>1. k \in 0..10
      BY <2>1
    <3>2. days_to_mon(k) \in Int
      BY <3>1, TableValues
    <3> QED BY <3>2 DEF One
  <2> HIDE DEF End, S
  <2> QED BY <1>1, <2>1, <2>2, <2>3
<1>6. S \subseteq Int
  OBVIOUS
<1>7. MonthOf(is_leapyear(y), n) = Min(S)
  BY DEF MonthOf
<1> HIDE DEF S, n
<1>8. Min(S) \in S /\ \A k \in S : Min(S) <= k
  BY <1>4, <1>5 DEF Min
<1>9. Min(S) = m - 1
  <2>1. m - 1 <= Min(S) /\ Min(S) <= m - 1 /\ Min(S) \in Int
    BY <1>4, <1>5, <1>6, <1>8, Zenon
  <2> HIDE DEF Min
  <2> QED BY <2>1
<1> QED BY <1>7, <1>9 DEF n

\* The day n of the calendar with the date d, s seconds after it began, as a
\* struct tm.
TmOf(d, s) ==
    [tm_sec |-> s % 60, tm_min |-> (s \div 60) % 60, tm_hour |-> s \div 3600,
     tm_mday |-> d.d, tm_mon |-> d.m - 1, tm_year |-> d.y - 1900, tm_wday |-> d.w]

\* Days and seconds, hours and minutes come apart as they were put together.
LEMMA SecondsApart ==
    ASSUME NEW n \in Nat, NEW s \in Nat, s < SECS_PER_DAY
    PROVE  /\ n * SECS_PER_DAY + s \in Nat
           /\ (n * SECS_PER_DAY + s) \div SECS_PER_DAY = n
           /\ (n * SECS_PER_DAY + s) % SECS_PER_DAY = s
           /\ (s % SECS_PER_HOUR) % SECS_PER_MIN = s % 60
           /\ (s % SECS_PER_HOUR) \div SECS_PER_MIN = (s \div 60) % 60
           /\ s \div SECS_PER_HOUR = s \div 3600
           /\ \E h \in Nat, m \in Nat, c \in Nat :
                 /\ h = s \div 3600 /\ m = (s \div 60) % 60 /\ c = s % 60
                 /\ h * SECS_PER_HOUR + m * SECS_PER_MIN + c = s
<1>1. SECS_PER_MIN = 60 /\ SECS_PER_HOUR = 3600 /\ SECS_PER_DAY = 86400
  BY SMT DEF SECS_PER_DAY, SECS_PER_HOUR, SECS_PER_MIN
<1>2. /\ n * SECS_PER_DAY + s \in Nat
      /\ (n * SECS_PER_DAY + s) \div SECS_PER_DAY = n
      /\ (n * SECS_PER_DAY + s) % SECS_PER_DAY = s
  BY <1>1, SMT
<1>3. (s % SECS_PER_HOUR) % SECS_PER_MIN = s % 60 /\ s \div SECS_PER_HOUR = s \div 3600
  BY <1>1, SMT
<1>4. (s % SECS_PER_HOUR) \div SECS_PER_MIN = (s \div 60) % 60
  BY <1>1, SMT
<1>5. PICK h \in Nat, m \in Nat, c \in Nat :
          h = s \div 3600 /\ m = (s \div 60) % 60 /\ c = s % 60
  BY <1>1, SMT
<1>6. h * SECS_PER_HOUR + m * SECS_PER_MIN + c = s
  BY <1>1, <1>5, SMT
<1> QED BY <1>2, <1>3, <1>4, <1>5, <1>6, SMT

\* The last statements of gmtime_r().
Filled(days, n, yd, leap, mon) ==
    [tm_sec |-> (n % SECS_PER_HOUR) % SECS_PER_MIN,
     tm_min |-> (n % SECS_PER_HOUR) \div SECS_PER_MIN,
     tm_hour |-> n \div SECS_PER_HOUR,
     tm_mday |-> yd[2] - (IF mon > 0 THEN days_to_mon(mon - 1) + One(leap /\ mon > 1) ELSE 0) + 1,
     tm_mon |-> mon,
     tm_year |-> yd[1] - 1900,
     tm_wday |-> (days + 4) % 7]

\* gmtime_r() gives the date of the calendar.
LEMMA GmtimeValue ==
    ASSUME NEW n \in Nat, NEW d, DateOK(d, n), NEW s \in Nat, s < SECS_PER_DAY
    PROVE  gmtime_r(n * SECS_PER_DAY + s) = TmOf(d, s)
<1>1. PICK t \in Nat : t = n * SECS_PER_DAY + s
  BY SecondsApart, SMT
<1>2. t \div SECS_PER_DAY = n /\ t % SECS_PER_DAY = s
  BY <1>1, SecondsApart, SMT
<1>3. PICK y \in Nat, m \in 1..12, c \in 1..31 : d.y = y /\ d.m = m /\ d.d = c
  BY DEF DateOK, Dates
<1>4. /\ y >= 1970 /\ c <= DaysIn(y, m) /\ d.w = (n + 4) % 7
      /\ n = Elapsed(y) - Elapsed(1970) + MonthStart(y, m - 1) + c - 1
  BY <1>3 DEF DateOK
<1>5. /\ Elapsed(y) \in Nat /\ Elapsed(1970) \in Nat
      /\ Elapsed(y + 1) = Elapsed(y) + YearDays(y) /\ YearDays(y) \in Nat
  BY ElapsedStep
<1>6. /\ MonthStart(y, m - 1) \in Nat /\ DaysIn(y, m) \in 28..31
      /\ MonthStart(y, m - 1) + DaysIn(y, m) <= YearDays(y)
  BY MonthStartStep
<1> DEFINE k == MonthStart(y, m - 1) + c - 1
<1>7. k \in Nat /\ k < YearDays(y) /\ n = Elapsed(y) - Elapsed(1970) + k
  BY <1>4, <1>5, <1>6
<1>8. YearOf[<<1970, n>>] = <<y, k>>
  <2> HIDE DEF k
  <2> QED BY <1>4, <1>7, YearOfValue
<1>9. MonthOf(is_leapyear(y), k) = m - 1
  BY <1>4, MonthOfValue
<1>10. k - (IF m - 1 > 0 THEN days_to_mon(m - 1 - 1) + One(is_leapyear(y) /\ m - 1 > 1) ELSE 0) + 1 = c
  <2>1. MonthStart(y, m - 1) =
            IF m - 1 > 0 THEN days_to_mon(m - 1 - 1) + One(is_leapyear(y) /\ m - 1 > 1) ELSE 0
    BY DEF MonthStart, One
  <2>2. k - MonthStart(y, m - 1) + 1 = c
    BY <1>6
  <2> QED BY <2>1, <2>2, Zenon
<1> HIDE DEF k
<1>11. <<y, k>>[1] = y /\ <<y, k>>[2] = k
  OBVIOUS
<1>12. gmtime_r(t) = Filled(n, s, <<y, k>>, is_leapyear(y), m - 1)
  <2> DEFINE First(days) == YearOf[<<1970, days>>]
             G(days, r, yd) ==
                LET leap == is_leapyear(yd[1])
                IN  Filled(days, r, yd, leap, MonthOf(leap, yd[2]))
  <2>1. gmtime_r(t) = G(t \div SECS_PER_DAY, t % SECS_PER_DAY, First(t \div SECS_PER_DAY))
    BY DEF gmtime_r, Filled
  <2>2. First(n) = <<y, k>>
    BY <1>8
  <2> HIDE DEF First
  <2>3. G(n, s, <<y, k>>) = Filled(n, s, <<y, k>>, is_leapyear(y), m - 1)
    BY <1>9, <1>11, Zenon
  <2> HIDE DEF G
  <2> QED BY <1>2, <2>1, <2>2, <2>3, Zenon
<1>13. Filled(n, s, <<y, k>>, is_leapyear(y), m - 1) = TmOf(d, s)
  <2>1. /\ (s % SECS_PER_HOUR) % SECS_PER_MIN = s % 60
        /\ (s % SECS_PER_HOUR) \div SECS_PER_MIN = (s \div 60) % 60
        /\ s \div SECS_PER_HOUR = s \div 3600
    BY SecondsApart, SMT
  <2> QED BY <1>3, <1>4, <1>10, <1>11, <2>1, SMT DEF Filled, TmOf
<1> QED BY <1>1, <1>12, <1>13

\* mktime() gives the seconds at which the date and the time of day come.
LEMMA MktimeValue ==
    ASSUME NEW n \in Nat, NEW d, DateOK(d, n), NEW s \in Nat, s < SECS_PER_DAY, NEW r,
           r.tm_year + 1900 = d.y, r.tm_year \in Int, r.tm_mon = d.m - 1, r.tm_mday = d.d,
           r.tm_hour = s \div 3600, r.tm_min = (s \div 60) % 60, r.tm_sec = s % 60
    PROVE  mktime(r) = n * SECS_PER_DAY + s
<1>1. PICK y \in Nat, m \in 1..12, c \in 1..31 : d.y = y /\ d.m = m /\ d.d = c
  BY DEF DateOK, Dates
<1>2. y >= 1970 /\ n = Elapsed(y) - Elapsed(1970) + MonthStart(y, m - 1) + c - 1
  BY <1>1 DEF DateOK
<1>3. Elapsed(y) \in Nat /\ Elapsed(1970) \in Nat /\ MonthStart(y, m - 1) \in Nat
  <2>1. Elapsed(y) \in Nat /\ Elapsed(1970) \in Nat
    BY ElapsedStep
  <2>2. MonthStart(y, m - 1) \in Nat
    BY ONLY y \in Nat, m \in 1..12, MonthStartStep
  <2> QED BY <2>1, <2>2
<1>4. DaysBefore[y] + MonthStart(y, m - 1) + c - 1 = n
  <2>1. DaysBefore[y] = Elapsed(y) - Elapsed(1970)
    BY <1>2, DaysBeforeValue
  <2> QED BY <1>2, <1>3, <2>1
<1>5. PICK h \in Nat, i \in Nat, e \in Nat :
          /\ h = s \div 3600 /\ i = (s \div 60) % 60 /\ e = s % 60
          /\ h * SECS_PER_HOUR + i * SECS_PER_MIN + e = s
  BY ONLY n \in Nat, s \in Nat, s < SECS_PER_DAY, SecondsApart
<1>6. 1900 + r.tm_year = y /\ r.tm_mon = m - 1 /\ r.tm_mday = c
      /\ r.tm_hour = h /\ r.tm_min = i /\ r.tm_sec = e
  BY <1>1, <1>5, SMT
<1>7. mktime(r) = (DaysBefore[y] + MonthStart(y, m - 1) + c - 1) * SECS_PER_DAY
                      + h * SECS_PER_HOUR + i * SECS_PER_MIN + e
  BY <1>6, SMT DEF mktime
<1>8. mktime(r) = n * SECS_PER_DAY + h * SECS_PER_HOUR + i * SECS_PER_MIN + e
  BY <1>4, <1>7, SMT
<1>9. SECS_PER_DAY \in Nat /\ SECS_PER_HOUR \in Nat /\ SECS_PER_MIN \in Nat
  BY SMT DEF SECS_PER_DAY, SECS_PER_HOUR, SECS_PER_MIN
<1>10. PICK a \in Nat, b \in Nat, x \in Nat :
           a = n * SECS_PER_DAY /\ b = h * SECS_PER_HOUR /\ x = i * SECS_PER_MIN
  BY <1>9, SMT
<1>11. mktime(r) = a + b + x + e /\ b + x + e = s
  BY <1>5, <1>8, <1>10
<1> QED BY <1>10, <1>11

-----------------------------------------------------------------------------
(***************************************************************************)
(* The date by the calendar, and lib/time.c.                               *)
(***************************************************************************)
CalendarInv == day \in Nat /\ DateOK(date, day)

\* The calendar begins with day 0.
LEMMA FirstDate == DateOK([y |-> 1970, m |-> 1, d |-> 1, w |-> 4], 0)
<1> DEFINE d == [y |-> 1970, m |-> 1, d |-> 1, w |-> 4]
<1>1. d \in Dates /\ d.y = 1970 /\ d.m = 1 /\ d.d = 1 /\ d.w = 4
  BY DEF Dates
<1>2. MonthStart(1970, 0) = 0 /\ DaysIn(1970, 1) = 31 /\ Elapsed(1970) \in Nat
  BY ElapsedStep DEF MonthStart, DaysIn
<1>3. (0 + 4) % 7 = 4
  OBVIOUS
<1> QED BY <1>1, <1>2, <1>3 DEF DateOK

\* The times that are tried are times of the day.
LEMMA TimesOK ==
    ASSUME NEW s \in Times
    PROVE  s \in Nat /\ s < SECS_PER_DAY
<1>1. s \in 0..(SECS_PER_DAY - 1)
  BY CalendarAssumption
<1>2. SECS_PER_DAY \in Nat
  BY SMT DEF SECS_PER_DAY, SECS_PER_HOUR, SECS_PER_MIN
<1> QED BY <1>1, <1>2

\* The days pass on the calendar until the machine is switched on.
LEMMA CalendarKept == WallSpec => []CalendarInv
<1>1. WallInit => CalendarInv
  <2> SUFFICES ASSUME WallInit PROVE CalendarInv
    OBVIOUS
  <2>1. day = 0 /\ date = [y |-> 1970, m |-> 1, d |-> 1, w |-> 4]
    BY DEF WallInit, CmosInit, CalendarInit
  <2> QED BY <2>1, FirstDate DEF CalendarInv
<1>2. CalendarInv /\ [WallNext]_wallVars => CalendarInv'
  <2> SUFFICES ASSUME CalendarInv, [WallNext]_wallVars PROVE CalendarInv'
    OBVIOUS
  <2>1. CASE DayPasses
    <3>1. day' = day + 1 /\ date' = Tomorrow(date)
      BY <2>1 DEF DayPasses, CalendarNext
    <3>2. DateOK(Tomorrow(date), day + 1)
      BY TomorrowOK DEF CalendarInv
    <3>3. day + 1 \in Nat
      BY DEF CalendarInv
    <3> QED BY <3>1, <3>2, <3>3, Zenon DEF CalendarInv
  <2>2. CASE UNCHANGED <<day, date>>
    BY <2>2, Zenon DEF CalendarInv
  <2>3. DayPasses \/ UNCHANGED <<day, date>>
    BY Zenon DEF WallNext, CmosNext, SetsClock, Runs, wallVars, cmosVars, PowerOn, UpdateBegins,
       UpdateWrites, cmos_wait, cmos_read, cmos_again, cmos_init
  <2> QED BY <2>1, <2>2, <2>3
<1> QED BY <1>1, <1>2, PTL DEF WallSpec

\* gmtime_r() and mktime() agree with the calendar, and are inverse to each
\* other, on every day and at every time of the day.
THEOREM GmtimeCorrect == WallSpec => []DatesCorrect
<1>1. CalendarInv => DatesCorrect
  <2> SUFFICES ASSUME CalendarInv, NEW s \in Times
               PROVE  /\ gmtime_r(day * SECS_PER_DAY + s) = Today(s)
                      /\ mktime(Today(s)) = day * SECS_PER_DAY + s
    BY Zenon DEF DatesCorrect
  <2>1. s \in Nat /\ s < SECS_PER_DAY
    BY TimesOK
  <2>2. day \in Nat /\ DateOK(date, day)
    BY DEF CalendarInv
  <2>3. gmtime_r(day * SECS_PER_DAY + s) = TmOf(date, s)
    BY <2>1, <2>2, GmtimeValue
  <2>4. Today(s) = TmOf(date, s)
    BY DEF Today, TmOf
  <2> DEFINE r == Today(s)
  <2>5. /\ r.tm_year = date.y - 1900 /\ r.tm_mon = date.m - 1 /\ r.tm_mday = date.d
        /\ r.tm_hour = s \div 3600 /\ r.tm_min = (s \div 60) % 60 /\ r.tm_sec = s % 60
    BY SMT DEF Today
  <2>6. r.tm_year + 1900 = date.y /\ r.tm_year \in Int
    <3>1. date.y \in Nat
      BY <2>2 DEF DateOK, Dates
    <3> HIDE DEF r
    <3> QED BY <2>5, <3>1
  <2>7. mktime(r) = day * SECS_PER_DAY + s
    <3> HIDE DEF r
    <3> QED BY <2>1, <2>2, <2>5, <2>6, MktimeValue
  <2> QED BY <2>3, <2>4, <2>7
<1> QED BY <1>1, CalendarKept, PTL

-----------------------------------------------------------------------------
(***************************************************************************)
(* The commands cal and uptime.                                            *)
(***************************************************************************)
After(p) == IF p[2] = 6 THEN <<p[1] + 1, 0>> ELSE <<p[1], p[2] + 1>>

IsPlaces(f, days, first) ==
    f = [d \in 1..days |-> IF d = 1 THEN <<1, first>> ELSE After(f[d - 1])]

\* The place of day d when the month begins in column first.
PlaceOf(first, d) == <<1 + (first + d - 1) \div 7, (first + d - 1) % 7>>

\* The day after comes to the right, or to the left end of the next line.
LEMMA PlaceStep ==
    ASSUME NEW first \in 0..6, NEW d \in Nat, d > 0
    PROVE  /\ PlaceOf(first, 1) = <<1, first>>
           /\ PlaceOf(first, d + 1) =
                  IF PlaceOf(first, d)[2] = 6 THEN <<PlaceOf(first, d)[1] + 1, 0>>
                  ELSE <<PlaceOf(first, d)[1], PlaceOf(first, d)[2] + 1>>
           /\ PlaceOf(first, d)[1] \in Nat /\ PlaceOf(first, d)[2] \in 0..6
           /\ 7 * PlaceOf(first, d)[1] + PlaceOf(first, d)[2] = 7 + first + d - 1
<1>1. PICK a \in Nat, b \in 0..6 : a = (first + d - 1) \div 7 /\ b = (first + d - 1) % 7
  OBVIOUS
<1>2. first + d - 1 = 7 * a + b
  BY <1>1
<1>3. PlaceOf(first, d) = <<1 + a, b>>
  BY <1>1 DEF PlaceOf
<1>4. PlaceOf(first, 1) = <<1, first>>
  <2>1. (first + 1 - 1) \div 7 = 0 /\ (first + 1 - 1) % 7 = first
    OBVIOUS
  <2> QED BY <2>1 DEF PlaceOf
<1>5. CASE b = 6
  <2>1. (first + (d + 1) - 1) \div 7 = a + 1 /\ (first + (d + 1) - 1) % 7 = 0
    BY <1>2, <1>5
  <2>2. PlaceOf(first, d + 1) = <<1 + (a + 1), 0>>
    BY <2>1 DEF PlaceOf
  <2> QED BY <1>2, <1>3, <1>4, <1>5, <2>2
<1>6. CASE b < 6
  <2>1. (first + (d + 1) - 1) \div 7 = a /\ (first + (d + 1) - 1) % 7 = b + 1
    BY <1>2, <1>6
  <2>2. PlaceOf(first, d + 1) = <<1 + a, b + 1>>
    BY <2>1 DEF PlaceOf
  <2> QED BY <1>2, <1>3, <1>4, <1>6, <2>2
<1> QED BY <1>5, <1>6

\* What the loop of cal prints.
LEMMA PlacesValue ==
    ASSUME NEW days \in Nat, NEW first \in 0..6
    PROVE  (CHOOSE f : IsPlaces(f, days, first)) = [d \in 1..days |-> PlaceOf(first, d)]
<1> DEFINE g == [d \in 1..days |-> PlaceOf(first, d)]
<1>1. \A d \in Nat : d > 0 => PlaceOf(first, d + 1) = After(PlaceOf(first, d))
  BY PlaceStep DEF After
<1>2. PlaceOf(first, 1) = <<1, first>>
  <2>1. 1 \in Nat /\ 1 > 0
    OBVIOUS
  <2> QED BY <2>1, PlaceStep, Zenon
<1>3. IsPlaces(g, days, first)
  <2>1. ASSUME NEW d \in 1..days PROVE g[d] = IF d = 1 THEN <<1, first>> ELSE After(g[d - 1])
    <3>1. CASE d = 1
      BY <1>2, <3>1
    <3>2. CASE d # 1
      <4>1. d - 1 \in Nat /\ d - 1 > 0 /\ d - 1 \in 1..days /\ (d - 1) + 1 = d
        BY <3>2
      <4>2. g[d] = PlaceOf(first, d) /\ g[d - 1] = PlaceOf(first, d - 1)
        BY <4>1
      <4> HIDE DEF g
      <4> QED BY <1>1, <3>2, <4>1, <4>2
    <3> QED BY <3>1, <3>2
  <2> QED BY <2>1 DEF IsPlaces
<1>4. ASSUME NEW f, IsPlaces(f, days, first) PROVE f = g
  <2>1. f = [d \in 1..days |-> IF d = 1 THEN <<1, first>> ELSE After(f[d - 1])]
    BY <1>4 DEF IsPlaces
  <2> DEFINE S == {n \in Nat : n \in 1..days => f[n] = PlaceOf(first, n)}
  <2>2. 0 \in S
    OBVIOUS
  <2>3. ASSUME NEW n \in S PROVE n + 1 \in S
    <3> SUFFICES ASSUME n + 1 \in 1..days PROVE f[n + 1] = PlaceOf(first, n + 1)
      OBVIOUS
    <3>1. CASE n = 0
      BY <1>2, <2>1, <3>1
    <3>2. CASE n > 0
      <4>1. n \in 1..days /\ n \in Nat /\ (n + 1) - 1 = n /\ n + 1 # 1
        BY <3>2
      <4>2. f[n] = PlaceOf(first, n)
        BY <4>1
      <4>3. f[n + 1] = After(f[n])
        BY <2>1, <4>1
      <4> QED BY <1>1, <3>2, <4>1, <4>2, <4>3
    <3> QED BY <3>1, <3>2
  <2>4. \A n \in Nat : n \in S
    <3>1. S \in SUBSET Nat
      OBVIOUS
    <3> HIDE DEF S
    <3> QED BY <2>2, <2>3, <3>1, Induction
  <2>5. \A n \in 1..days : f[n] = g[n]
    BY <2>4
  <2>6. DOMAIN f = 1..days /\ f = [n \in 1..days |-> f[n]]
    BY <2>1
  <2> QED BY <2>5, <2>6
<1> HIDE DEF g
<1>5. (CHOOSE f : IsPlaces(f, days, first)) = g
  BY <1>3, <1>4, Zenon
<1> QED BY <1>5 DEF g

\* cal shows the days of the month in the columns of their weekdays, and uptime
\* any number of days.
THEOREM CalendarCorrect == WallSpec => []CalendarShown
<1>1. CalendarInv => CalendarShown
  <2> SUFFICES ASSUME CalendarInv PROVE CalendarShown
    OBVIOUS
  <2>1. day \in Nat /\ DateOK(date, day)
    BY DEF CalendarInv
  <2>2. PICK y \in Nat, m \in 1..12, c \in 1..31, w \in 0..6 :
            date.y = y /\ date.m = m /\ date.d = c /\ date.w = w
    <3>1. date.y \in Nat /\ date.m \in 1..12 /\ date.d \in 1..31 /\ date.w \in 0..6
      BY <2>1 DEF DateOK, Dates
    <3> QED BY <3>1, Zenon
  <2> DEFINE tm0 == Today(0)
             days == days_of_mon(tm0.tm_mon) +
                     One(tm0.tm_mon = 1 /\ is_leapyear(1900 + tm0.tm_year))
             first == FirstDay(tm0)
  <2>3. /\ tm0.tm_mon = m - 1 /\ 1900 + tm0.tm_year = y
        /\ tm0.tm_wday = w /\ tm0.tm_mday = c
    BY <2>2 DEF Today
  <2>4. days = DaysIn(y, m)
    <3>1. days = days_of_mon(m - 1) + One(m - 1 = 1 /\ is_leapyear(y))
      BY <2>3
    <3>2. is_leapyear(y) <=> Leap(y)
      BY LeapAgree
    <3>3. \A k \in 0..11 : days_of_mon(k) =
              IF k = 1 THEN 28 ELSE IF k \in {3, 5, 8, 10} THEN 30 ELSE 31
      BY DEF days_of_mon
    <3> HIDE DEF days
    <3>4. days_of_mon(m - 1) =
              IF m = 2 THEN 28 ELSE IF m \in {4, 6, 9, 11} THEN 30 ELSE 31
      BY <3>3
    <3> QED BY <3>1, <3>2, <3>4 DEF DaysIn, One
  <2>5. first \in 0..6 /\ (first + c - 1) % 7 = w
    <3>1. first = (w + 35 - (c - 1)) % 7
      BY <2>3 DEF FirstDay
    <3> HIDE DEF first
    <3> QED BY <3>1
  <2>6. DaysIn(y, m) \in Nat /\ c \in 1..DaysIn(y, m)
    <3>1. DaysIn(y, m) \in 28..31
      BY MonthStartStep
    <3>2. c <= DaysIn(y, m)
      BY <2>1, <2>2 DEF DateOK
    <3> QED BY <3>1, <3>2
  <2>7. do_cal(tm0) = CHOOSE f : IsPlaces(f, days, first)
    BY DEF do_cal, IsPlaces, After
  <2> HIDE DEF tm0, days, first
  <2> DEFINE f == do_cal(tm0)
  <2>8. f = [d \in 1..DaysIn(y, m) |-> PlaceOf(first, d)]
    <3>1. (CHOOSE g : IsPlaces(g, DaysIn(y, m), first)) =
              [d \in 1..DaysIn(y, m) |-> PlaceOf(first, d)]
      BY <2>5, <2>6, PlacesValue, Zenon
    <3> QED BY <2>4, <2>7, <3>1, Zenon
  <2> HIDE DEF f
  <2>9. DOMAIN f = 1..DaysIn(y, m)
    BY <2>8
  <2>10. f[c][2] = w
    BY <2>5, <2>6, <2>8 DEF PlaceOf
  <2>11. ASSUME NEW d \in 1..DaysIn(y, m), d # 1
         PROVE  7 * f[d][1] + f[d][2] = 7 * f[d - 1][1] + f[d - 1][2] + 1
    <3>1. d - 1 \in 1..DaysIn(y, m) /\ d \in Nat /\ d > 0 /\ d - 1 \in Nat /\ d - 1 > 0
      BY <2>6, <2>11
    <3>2. f[d] = PlaceOf(first, d) /\ f[d - 1] = PlaceOf(first, d - 1)
      BY <2>8, <3>1
    <3>3. /\ 7 * PlaceOf(first, d)[1] + PlaceOf(first, d)[2] = 7 + first + d - 1
          /\ 7 * PlaceOf(first, d - 1)[1] + PlaceOf(first, d - 1)[2] = 7 + first + (d - 1) - 1
      BY <2>5, <3>1, PlaceStep
    <3> QED BY <2>5, <3>2, <3>3
  <2>12. ASSUME NEW s \in Times
         PROVE  do_uptime(timeval(day * SECS_PER_DAY + s, 0)) =
                    [days |-> day, time |-> <<s \div 3600, (s \div 60) % 60, s % 60, 0>>]
    <3>1. s \in Nat /\ s < SECS_PER_DAY
      BY TimesOK
    <3>2. PICK t \in Nat : t = day * SECS_PER_DAY + s
      BY <2>1, <3>1, SecondsApart
    <3>3. t \div SECS_PER_DAY = day /\ t % SECS_PER_DAY = s
      BY <2>1, <3>1, <3>2, SecondsApart
    <3>4. PICK d : gmtime_r(s) = TmOf(d, s)
      <4>1. gmtime_r(0 * SECS_PER_DAY + s) = TmOf([y |-> 1970, m |-> 1, d |-> 1, w |-> 4], s)
        BY <3>1, FirstDate, GmtimeValue
      <4>2. 0 * SECS_PER_DAY + s = s
        BY <3>1, SMT DEF SECS_PER_DAY, SECS_PER_HOUR, SECS_PER_MIN
      <4> QED BY <4>1, <4>2
    <3> DEFINE r == gmtime_r(s)
    <3>5. r.tm_hour = s \div 3600 /\ r.tm_min = (s \div 60) % 60 /\ r.tm_sec = s % 60
      BY <3>4, SMT DEF TmOf
    <3>6. do_uptime(timeval(t, 0)) =
              [days |-> t \div SECS_PER_DAY,
               time |-> <<gmtime_r(t % SECS_PER_DAY).tm_hour, gmtime_r(t % SECS_PER_DAY).tm_min,
                          gmtime_r(t % SECS_PER_DAY).tm_sec, 0>>]
      BY DEF do_uptime, timeval
    <3>7. do_uptime(timeval(t, 0)) =
              [days |-> day, time |-> <<r.tm_hour, r.tm_min, r.tm_sec, 0>>]
      BY <3>3, <3>6, Zenon
    <3> HIDE DEF r
    <3> QED BY <3>2, <3>5, <3>7, SMT
  <2>13. /\ DOMAIN f = 1..DaysIn(date.y, date.m)
         /\ f[date.d][2] = date.w
         /\ \A d \in DOMAIN f \ {1} :
                7 * f[d][1] + f[d][2] = 7 * f[d - 1][1] + f[d - 1][2] + 1
    <3>1. f[date.d][2] = date.w /\ DOMAIN f = 1..DaysIn(date.y, date.m)
      BY <2>2, <2>9, <2>10, Zenon
    <3>2. ASSUME NEW d \in DOMAIN f \ {1}
          PROVE  7 * f[d][1] + f[d][2] = 7 * f[d - 1][1] + f[d - 1][2] + 1
      BY <2>9, <2>11
    <3> QED BY <3>1, <3>2
  <2>14. f = do_cal(Today(0))
    BY DEF f, tm0
  <2> DEFINE U == \A s \in Times : do_uptime(timeval(day * SECS_PER_DAY + s, 0)) =
                      [days |-> day, time |-> <<s \div 3600, (s \div 60) % 60, s % 60, 0>>]
             C(c0) == /\ DOMAIN c0 = 1..DaysIn(date.y, date.m)
                      /\ c0[date.d][2] = date.w
                      /\ \A d \in DOMAIN c0 \ {1} :
                            7 * c0[d][1] + c0[d][2] = 7 * c0[d - 1][1] + c0[d - 1][2] + 1
  <2>15. CalendarShown = (Off => C(do_cal(Today(0))) /\ U)
    BY DEF CalendarShown
  <2>16. C(f)
    BY <2>13, Zenon
  <2>17. U
    BY <2>12, SMT
  <2> HIDE DEF U, C
  <2> QED BY <2>14, <2>15, <2>16, <2>17
<1> QED BY <1>1, CalendarKept, PTL

-----------------------------------------------------------------------------
(***************************************************************************)
(* The registers of the clock chip.                                        *)
(***************************************************************************)
\* The registers, and the order in which cmos_read_tm() reads them.
LEMMA Registers ==
    /\ Reg = {"SEC", "MIN", "HOUR", "MDAY", "MON", "YEAR"}
    /\ Steps = 7
    /\ Order[1] = "SEC" /\ Order[2] = "MIN" /\ Order[3] = "HOUR"
    /\ Order[4] = "MDAY" /\ Order[5] = "MON" /\ Order[6] = "YEAR"
<1>1. Len(Order) = 6
  BY DEF Order
<1>2. /\ Order[1] = "SEC" /\ Order[2] = "MIN" /\ Order[3] = "HOUR"
      /\ Order[4] = "MDAY" /\ Order[5] = "MON" /\ Order[6] = "YEAR"
  BY DEF Order
<1>3. Reg = {Order[k] : k \in {1, 2, 3, 4, 5, 6}}
  BY <1>1 DEF Reg
<1>4. Reg = {"SEC", "MIN", "HOUR", "MDAY", "MON", "YEAR"}
  BY <1>2, <1>3
<1> QED BY <1>1, <1>2, <1>4 DEF Steps

\* What the register f shows at second s, counted from the beginning of the day
\* with the date d.
At(d, s, f) ==
    LET e == IF s < SECS_PER_DAY THEN d ELSE Tomorrow(d)
    IN  [SEC |-> s % 60, MIN |-> (s \div 60) % 60, HOUR |-> (s \div 3600) % 24,
         MDAY |-> e.d, MON |-> e.m, YEAR |-> e.y % 100][f]

\* The registers one by one.
LEMMA AtFields ==
    ASSUME NEW d, NEW s
    PROVE  /\ At(d, s, "SEC") = s % 60 /\ At(d, s, "MIN") = (s \div 60) % 60
           /\ At(d, s, "HOUR") = (s \div 3600) % 24
           /\ At(d, s, "MDAY") = IF s < SECS_PER_DAY THEN d.d ELSE Tomorrow(d).d
           /\ At(d, s, "MON") = IF s < SECS_PER_DAY THEN d.m ELSE Tomorrow(d).m
           /\ At(d, s, "YEAR") = IF s < SECS_PER_DAY THEN d.y % 100 ELSE Tomorrow(d).y % 100
BY SMT DEF At

\* The registers have two digits, and the hours are those of a day.
LEMMA AtRange ==
    ASSUME NEW n \in Nat, NEW d, DateOK(d, n), NEW s \in Nat
    PROVE  At(d, s, "HOUR") \in 0..23 /\ \A f \in Reg : At(d, s, f) \in 0..99
<1>1. /\ At(d, s, "SEC") = s % 60 /\ At(d, s, "MIN") = (s \div 60) % 60
      /\ At(d, s, "HOUR") = (s \div 3600) % 24
      /\ At(d, s, "MDAY") = IF s < SECS_PER_DAY THEN d.d ELSE Tomorrow(d).d
      /\ At(d, s, "MON") = IF s < SECS_PER_DAY THEN d.m ELSE Tomorrow(d).m
      /\ At(d, s, "YEAR") = IF s < SECS_PER_DAY THEN d.y % 100 ELSE Tomorrow(d).y % 100
  BY AtFields
<1>2. DateOK(Tomorrow(d), n + 1)
  BY TomorrowOK
<1>3. /\ d.y \in Nat /\ d.m \in 1..12 /\ d.d \in 1..31
      /\ Tomorrow(d).y \in Nat /\ Tomorrow(d).m \in 1..12 /\ Tomorrow(d).d \in 1..31
  BY <1>2 DEF DateOK, Dates
<1>4. At(d, s, "SEC") \in 0..99 /\ At(d, s, "MIN") \in 0..99
  BY <1>1
<1>5. At(d, s, "HOUR") \in 0..23
  BY <1>1
<1>6. At(d, s, "MDAY") \in 0..99 /\ At(d, s, "MON") \in 0..99
  BY <1>1, <1>3
<1>7. At(d, s, "YEAR") \in 0..99
  BY <1>1, <1>3
<1>8. At(d, s, "HOUR") \in 0..99
  BY <1>5
<1> QED BY <1>1, <1>4, <1>5, <1>6, <1>7, <1>8, Registers

\* Within a minute a register other than that of the seconds changes at most
\* once: if it shows the same before and after, it shows that in between, and
\* if the seconds are the same no time has passed.
LEMMA AtBetween ==
    ASSUME NEW n \in Nat, NEW d, DateOK(d, n), NEW f \in Reg,
           NEW s1 \in Nat, NEW s \in Nat, NEW s2 \in Nat,
           s1 <= s, s <= s2, s2 - s1 <= 59, At(d, s1, f) = At(d, s2, f)
    PROVE  At(d, s2, f) = At(d, s, f)
<1>1. CASE f = "SEC"
  <2>1. s1 % 60 = s2 % 60
    <3>1. At(d, s1, "SEC") = s1 % 60 /\ At(d, s2, "SEC") = s2 % 60
      BY AtFields, SMT
    <3> QED BY <1>1, <3>1, Zenon
  <2>2. s1 = s2
    BY <2>1
  <2> QED BY <2>2
<1>2. CASE f = "MIN"
  <2>1. (s1 \div 60) % 60 = (s2 \div 60) % 60
    BY <1>2, AtFields
  <2>2. PICK a \in Nat, b \in Nat, c \in Nat : a = s1 \div 60 /\ b = s \div 60 /\ c = s2 \div 60
    OBVIOUS
  <2>3. a <= b /\ b <= c /\ c <= a + 1
    BY <2>2
  <2>4. a % 60 = c % 60
    BY <2>1, <2>2
  <2>5. b = c
    BY <2>3, <2>4
  <2>6. At(d, s2, "MIN") = c % 60 /\ At(d, s, "MIN") = b % 60
    BY <2>2, AtFields
  <2> QED BY <1>2, <2>5, <2>6
<1>3. CASE f = "HOUR"
  <2>1. (s1 \div 3600) % 24 = (s2 \div 3600) % 24
    BY <1>3, AtFields
  <2>2. PICK a \in Nat, b \in Nat, c \in Nat :
            a = s1 \div 3600 /\ b = s \div 3600 /\ c = s2 \div 3600
    OBVIOUS
  <2>3. a <= b /\ b <= c /\ c <= a + 1
    BY <2>2
  <2>4. a % 24 = c % 24
    BY <2>1, <2>2
  <2>5. b = c
    BY <2>3, <2>4
  <2>6. At(d, s2, "HOUR") = c % 24 /\ At(d, s, "HOUR") = b % 24
    BY <2>2, AtFields
  <2> QED BY <1>3, <2>5, <2>6
<1>4. CASE f \in {"MDAY", "MON", "YEAR"}
  <2>1. SECS_PER_DAY \in Nat
    BY SMT DEF SECS_PER_DAY, SECS_PER_HOUR, SECS_PER_MIN
  <2>2. \E x, z : \A t \in Nat : At(d, t, f) = IF t < SECS_PER_DAY THEN x ELSE z
    <3>1. CASE f = "MDAY"
      <4>1. \A t \in Nat : At(d, t, f) = IF t < SECS_PER_DAY THEN d.d ELSE Tomorrow(d).d
        BY <3>1, AtFields, SMT
      <4> QED BY <4>1, Zenon
    <3>2. CASE f = "MON"
      <4>1. \A t \in Nat : At(d, t, f) = IF t < SECS_PER_DAY THEN d.m ELSE Tomorrow(d).m
        BY <3>2, AtFields, SMT
      <4> QED BY <4>1, Zenon
    <3>3. CASE f = "YEAR"
      <4>1. \A t \in Nat : At(d, t, f) = IF t < SECS_PER_DAY THEN d.y % 100 ELSE Tomorrow(d).y % 100
        BY <3>3, AtFields, SMT
      <4> QED BY <4>1, Zenon
    <3> QED BY <1>4, <3>1, <3>2, <3>3
  <2>3. PICK x, z : \A t \in Nat : At(d, t, f) = IF t < SECS_PER_DAY THEN x ELSE z
    BY <2>2
  <2> QED BY <2>1, <2>3
<1> QED BY <1>1, <1>2, <1>3, <1>4, Registers

\* bcd2bin() undoes the coding of two digits.
LEMMA BcdBack ==
    ASSUME NEW v \in 0..99, NEW b
    PROVE  /\ Bcd(v, b) \in 0..153
           /\ (IF "BIN" \in b THEN Bcd(v, b) ELSE bcd2bin(Bcd(v, b))) = v
           /\ v < 13 => Bcd(v, b) < 20
<1>1. CASE "BIN" \in b
  BY <1>1 DEF Bcd
<1>2. CASE "BIN" \notin b
  <2>1. PICK q \in 0..9, r \in 0..9 : q = v \div 10 /\ r = v % 10 /\ v = 10 * q + r
    <3>1. PICK q \in Nat, r \in Nat : q = v \div 10 /\ r = v % 10
      OBVIOUS
    <3>2. q \in 0..9 /\ r \in 0..9 /\ v = 10 * q + r
      BY <3>1
    <3> QED BY <3>1, <3>2
  <2>2. Bcd(v, b) = q * 16 + r
    BY <1>2, <2>1 DEF Bcd
  <2>3. (q * 16 + r) \div 16 = q /\ (q * 16 + r) % 16 = r
    OBVIOUS
  <2>4. bcd2bin(Bcd(v, b)) = q * 10 + r
    BY <2>2, <2>3 DEF bcd2bin
  <2> QED BY <1>2, <2>1, <2>2, <2>4
<1> QED BY <1>1, <1>2

\* The driver's hour is the chip's, in both modes: midnight and noon are 12.
LEMMA HourBack ==
    ASSUME NEW v \in 0..23
    PROVE  Hour(Shown("HOUR", v, regB)) = v
<1> DEFINE Bin(x) == IF "BIN" \in regB THEN x ELSE bcd2bin(x)
<1>1. CASE "24H" \in regB
  <2>1. Shown("HOUR", v, regB) = Bcd(v, regB)
    BY <1>1 DEF Shown
  <2>2. Bin(Bcd(v, regB)) = v /\ Bcd(v, regB) \in 0..153
    BY BcdBack
  <2>3. Bcd(v, regB) % 128 = Bcd(v, regB)
    <3>1. Bcd(v, regB) < 128
      <4>1. CASE "BIN" \in regB
        BY <4>1 DEF Bcd
      <4>2. CASE "BIN" \notin regB
        BY <4>2 DEF Bcd
      <4> QED BY <4>1, <4>2
    <3> QED BY <2>2, <3>1
  <2> QED BY <1>1, <2>1, <2>2, <2>3, Zenon DEF Hour
<1>2. CASE "24H" \notin regB
  <2>1. PICK h \in 1..12 : h = Hour12(v) /\ h % 12 = v % 12
    BY DEF Hour12
  <2>2. PICK x \in 0..19 : x = Bcd(h, regB) /\ Bin(x) = h
    <3>1. h \in 0..99 /\ h < 13
      OBVIOUS
    <3>2. Bcd(h, regB) \in 0..153 /\ Bin(Bcd(h, regB)) = h /\ Bcd(h, regB) < 20
      BY <3>1, BcdBack
    <3>3. Bcd(h, regB) \in 0..19
      BY <3>2
    <3> QED BY <3>2, <3>3
  <2> HIDE DEF Bin
  <2>3. CASE v >= 12
    <3>1. Shown("HOUR", v, regB) = x + 128
      BY <1>2, <2>1, <2>2, <2>3 DEF Shown
    <3>2. (x + 128) % 128 = x /\ x + 128 >= 128
      OBVIOUS
    <3>3. Hour(x + 128) = IF Bin(x) = 12 THEN 12 ELSE Bin(x) + 12
      BY <1>2, <3>2 DEF Hour, Bin
    <3>4. (IF h = 12 THEN 12 ELSE h + 12) = v
      BY <2>1, <2>3
    <3> QED BY <2>2, <3>1, <3>3, <3>4
  <2>4. CASE v < 12
    <3>1. Shown("HOUR", v, regB) = x
      BY <1>2, <2>1, <2>2, <2>4 DEF Shown
    <3>2. x % 128 = x /\ ~(x >= 128)
      OBVIOUS
    <3>3. Hour(x) = IF Bin(x) = 12 THEN 0 ELSE Bin(x)
      BY <1>2, <3>2 DEF Hour, Bin
    <3>4. (IF h = 12 THEN 0 ELSE h) = v
      BY <2>1, <2>4
    <3> QED BY <2>2, <3>1, <3>3, <3>4
  <2> QED BY <2>3, <2>4
<1> QED BY <1>1, <1>2

\* What the driver makes of register f when it has read x.
Back(f, x) ==
    IF f = "HOUR" THEN Hour(x) ELSE IF "BIN" \in regB THEN x ELSE bcd2bin(x)

\* The driver reads what the chip means.
LEMMA ShownBack ==
    ASSUME NEW f \in Reg, NEW v \in 0..99, f = "HOUR" => v \in 0..23
    PROVE  Back(f, Shown(f, v, regB)) = v
<1>1. CASE f = "HOUR"
  BY <1>1, HourBack DEF Back
<1>2. CASE f # "HOUR"
  <2>1. Shown(f, v, regB) = Bcd(v, regB)
    BY <1>2 DEF Shown
  <2> QED BY <1>2, <2>1, BcdBack, Zenon DEF Back
<1> QED BY <1>1, <1>2

\* On the days on which the machine may be switched on, and the day after, the
\* year has the digits that the driver puts before the chip's.
LEMMA ThisCentury ==
    ASSUME NEW n \in Nat, NEW d, DateOK(d, n), n >= 10957, n <= 24855
    PROVE  (d.y % 100) + 2000 = d.y
<1>1. PICK y \in Nat, m \in 1..12, c \in 1..31 : d.y = y /\ d.m = m /\ d.d = c
  BY DEF DateOK, Dates
<1>2. /\ y >= 1970 /\ c <= DaysIn(y, m)
      /\ n = Elapsed(y) - Elapsed(1970) + MonthStart(y, m - 1) + c - 1
  BY <1>1 DEF DateOK
<1>3. /\ Elapsed(y) \in Nat /\ Elapsed(y + 1) = Elapsed(y) + YearDays(y) /\ YearDays(y) \in Nat
  BY ElapsedStep
<1>4. /\ MonthStart(y, m - 1) \in Nat /\ DaysIn(y, m) \in 28..31
      /\ MonthStart(y, m - 1) + DaysIn(y, m) <= YearDays(y)
  BY ONLY y \in Nat, m \in 1..12, MonthStartStep
<1>5. Elapsed(2000) - Elapsed(1970) = 10957 /\ Elapsed(2100) - Elapsed(1970) = 47482
      /\ Elapsed(1970) \in Nat /\ Elapsed(2000) \in Nat /\ Elapsed(2100) \in Nat
  BY SMT DEF Elapsed
<1>6. ~(y < 2000)
  <2>1. y < 2000 => Elapsed(y + 1) <= Elapsed(2000)
    BY ElapsedMonotone, SMT
  <2> QED BY <1>2, <1>3, <1>4, <1>5, <2>1, SMT
<1>7. ~(y >= 2100)
  <2>1. y > 2100 => Elapsed(2100 + 1) <= Elapsed(y)
    BY ElapsedMonotone, SMT
  <2>2. Elapsed(2100 + 1) >= Elapsed(2100) /\ Elapsed(2100 + 1) \in Nat
    BY SMT DEF Elapsed
  <2>3. y >= 2100 => Elapsed(y) >= Elapsed(2100)
    <3>1. CASE y = 2100
      BY <1>5, <3>1, SMT
    <3>2. CASE y > 2100
      BY <1>3, <1>5, <2>1, <2>2, <3>2, SMT
    <3> QED BY <3>1, <3>2, SMT
  <2> QED BY <1>2, <1>3, <1>4, <1>5, <2>3, SMT
<1>8. (y % 100) + 2000 = y
  BY <1>6, <1>7, SMT
<1> QED BY <1>1, <1>8, SMT

\* Registers that the chip has shown at one second, converted, make that second.
LEMMA ConvertedTime ==
    ASSUME NEW n \in Nat, NEW d, DateOK(d, n), n >= 10957, n <= 24854,
           NEW s \in Nat, s < SECS_PER_DAY + 60, NEW r,
           \A f \in Reg : r[f] = Shown(f, At(d, s, f), regB)
    PROVE  mktime(Converted(r)) = n * SECS_PER_DAY + s
<1>1. \A f \in Reg : Back(f, r[f]) = At(d, s, f)
  <2> SUFFICES ASSUME NEW f \in Reg PROVE Back(f, r[f]) = At(d, s, f)
    OBVIOUS
  <2>1. At(d, s, f) \in 0..99 /\ (f = "HOUR" => At(d, s, f) \in 0..23)
    BY AtRange
  <2>2. Back(f, Shown(f, At(d, s, f), regB)) = At(d, s, f)
    BY <2>1, ShownBack
  <2> QED BY <2>2
<1> DEFINE c == Converted(r)
<1>2. /\ c.tm_sec = Back("SEC", r["SEC"]) /\ c.tm_min = Back("MIN", r["MIN"])
      /\ c.tm_hour = Back("HOUR", r["HOUR"]) /\ c.tm_mday = Back("MDAY", r["MDAY"])
      /\ c.tm_mon = Back("MON", r["MON"]) - 1 /\ c.tm_year = Back("YEAR", r["YEAR"]) + 100
  BY DEF Converted, Back
<1> HIDE DEF c
<1>3. /\ c.tm_sec = At(d, s, "SEC") /\ c.tm_min = At(d, s, "MIN")
      /\ c.tm_hour = At(d, s, "HOUR") /\ c.tm_mday = At(d, s, "MDAY")
      /\ c.tm_mon = At(d, s, "MON") - 1 /\ c.tm_year = At(d, s, "YEAR") + 100
  BY <1>1, <1>2, Registers
<1>4. c.tm_sec = s % 60 /\ c.tm_min = (s \div 60) % 60 /\ c.tm_hour = (s \div 3600) % 24
  BY <1>3, AtFields, SMT
<1>5. SECS_PER_DAY = 86400
  BY SMT DEF SECS_PER_DAY, SECS_PER_HOUR, SECS_PER_MIN
<1>6. CASE s < SECS_PER_DAY
  <2>1. c.tm_mday = d.d /\ c.tm_mon = d.m - 1 /\ c.tm_year = (d.y % 100) + 100
    BY <1>3, <1>6, AtFields, SMT
  <2>2. d.y \in Nat
    BY DEF DateOK, Dates
  <2>3. (d.y % 100) + 2000 = d.y
    BY ThisCentury, SMT
  <2>4. c.tm_year + 1900 = d.y /\ c.tm_year \in Int
    BY <2>1, <2>2, <2>3, SMT
  <2>5. c.tm_hour = s \div 3600
    BY <1>4, <1>5, <1>6, SMT
  <2> QED BY <1>4, <1>6, <2>1, <2>4, <2>5, MktimeValue, SMT DEF c
<1>7. CASE s >= SECS_PER_DAY
  <2> DEFINE e == Tomorrow(d)
  <2>1. DateOK(e, n + 1)
    BY TomorrowOK
  <2>2. c.tm_mday = e.d /\ c.tm_mon = e.m - 1 /\ c.tm_year = (e.y % 100) + 100
    <3>1. ~(s < SECS_PER_DAY)
      BY <1>5, <1>7, SMT
    <3> QED BY <1>3, <3>1, AtFields, SMT
  <2> HIDE DEF e
  <2>3. e.y \in Nat
    BY <2>1 DEF DateOK, Dates
  <2>4. (e.y % 100) + 2000 = e.y
    <3>1. n + 1 \in Nat /\ n + 1 >= 10957 /\ n + 1 <= 24855
      BY SMT
    <3> QED BY <2>1, <3>1, ThisCentury, SMT
  <2>5. c.tm_year + 1900 = e.y /\ c.tm_year \in Int
    BY <2>2, <2>3, <2>4, SMT
  <2>6. PICK t \in Nat : t = s - SECS_PER_DAY /\ t < SECS_PER_DAY
    BY <1>5, <1>7, SMT
  <2>7. c.tm_hour = t \div 3600
    BY <1>4, <1>5, <2>6, SMT
  <2>8. c.tm_min = (t \div 60) % 60
    BY <1>4, <1>5, <2>6, SMT
  <2>9. c.tm_sec = t % 60
    BY <1>4, <1>5, <2>6, SMT
  <2>10. mktime(c) = (n + 1) * SECS_PER_DAY + t
    BY <2>1, <2>2, <2>5, <2>6, <2>7, <2>8, <2>9, MktimeValue, SMT
  <2>11. (n + 1) * SECS_PER_DAY + t = n * SECS_PER_DAY + s
    BY <1>5, <2>6, SMT
  <2> QED BY <2>10, <2>11, SMT DEF c
<1> QED BY <1>5, <1>6, <1>7, SMT

-----------------------------------------------------------------------------
(***************************************************************************)
(* cmos_init().  While the chip is being read each register shows the      *)
(* present second or, until the update in progress has come to it, the one *)
(* before.  Whatever has been read so far was shown at a second since the  *)
(* wait before the reading: the first reading up to the wait in between,   *)
(* at second w, and the second reading from then on.                       *)
(***************************************************************************)
\* Register f of chip c, e seconds after the machine was switched on.
Seen(c, e, f) == Shown(f, At(c[1], c[2] + e, f), c[3])

Chip == <<date, start, regB>>

RegsOK ==
    \A f \in Reg :
        /\ f \in update => reg[f] = Seen(Chip, updates - 1, f)
        /\ f \notin update => reg[f] = Seen(Chip, updates, f)

\* The registers up to the k-th of reading r were shown from second a to b.
ReadOK(c, r, k, a, b) ==
    \A i \in 1..6 : i <= k => \E e \in a..b : r[Order[i]] = Seen(c, e, Order[i])

First == (update # {} => updates > began) /\ ReadOK(Chip, tmp, at - 1, began, updates)

Second ==
    \E w \in began..updates :
        /\ update # {} => updates > w
        /\ ReadOK(Chip, tmp, 6, began, w)
        /\ ReadOK(Chip, tm, at - 8, w, updates)

CmosType ==
    /\ at \in -1..15
    /\ updates \in 0..MaxUpdates
    /\ began \in 0..updates
    /\ update \subseteq Reg
    /\ reg = [f \in Reg |-> reg[f]] /\ tmp = [f \in Reg |-> tmp[f]] /\ tm = [f \in Reg |-> tm[f]]

CmosInv ==
    /\ CmosType
    /\ at = -1 => updates = 0 /\ update = {}
    /\ at # -1 => start \in Nat /\ start < SECS_PER_DAY /\ day \in BootDays
    /\ at \in 0..14 => RegsOK /\ (update # {} => updates > 0)
    /\ at \in 1..7 => First
    /\ at \in 8..14 => Second
    /\ at # 15 => tv_sec = -1
    /\ at = 15 => update = {} /\ \E k \in began..updates : tv_sec = day * SECS_PER_DAY + start + k

\* What was read up to one second was read up to a later one.
LEMMA ReadOKLater ==
    ASSUME NEW c, NEW r, NEW k, NEW a \in Nat, NEW b \in Nat, NEW b2 \in Nat, b <= b2,
           ReadOK(c, r, k, a, b)
    PROVE  ReadOK(c, r, k, a, b2)
<1>1. ASSUME NEW e \in a..b PROVE e \in a..b2
  OBVIOUS
<1> QED BY <1>1, Zenon DEF ReadOK

\* The next register belongs to the seconds since the last wait.
LEMMA ReadOKNext ==
    ASSUME CmosInv, at \in 0..14, NEW w \in 0..updates, update # {} => updates > w,
           NEW i \in 1..6, NEW r, r = [f \in Reg |-> r[f]],
           ReadOK(Chip, r, i - 1, w, updates)
    PROVE  ReadOK(Chip, [r EXCEPT ![Order[i]] = reg[Order[i]]], i, w, updates)
<1> DEFINE f == Order[i]
           q == [r EXCEPT ![f] = reg[f]]
<1>1. \A j \in 1..6 : Order[j] \in Reg
  BY Registers
<1>2. \A j \in 1..6 : j # i => Order[j] # f
  BY Registers
<1>3. updates \in Nat /\ w \in Nat /\ w <= updates
  BY DEF CmosInv, CmosType
<1>4. \E e \in w..updates : reg[f] = Seen(Chip, e, f)
  <2>1. CASE f \in update
    <3>1. updates - 1 \in w..updates
      BY <1>3, <2>1
    <3>2. reg[f] = Seen(Chip, updates - 1, f)
      BY <1>1, <2>1 DEF CmosInv, RegsOK
    <3> QED BY <3>1, <3>2
  <2>2. CASE f \notin update
    <3>1. updates \in w..updates
      BY <1>3
    <3>2. reg[f] = Seen(Chip, updates, f)
      BY <1>1, <2>2 DEF CmosInv, RegsOK
    <3> QED BY <3>1, <3>2
  <2> QED BY <2>1, <2>2
<1>5. q[f] = reg[f] /\ \A j \in 1..6 : j # i => q[Order[j]] = r[Order[j]]
  BY <1>1, <1>2
<1> HIDE DEF q
<1>6. ASSUME NEW j \in 1..6, j <= i
      PROVE  \E e \in w..updates : q[Order[j]] = Seen(Chip, e, Order[j])
  <2>1. CASE j = i
    BY <1>4, <1>5, <2>1
  <2>2. CASE j # i
    <3>1. j <= i - 1
      BY <1>6, <2>2
    <3>2. \E e \in w..updates : r[Order[j]] = Seen(Chip, e, Order[j])
      BY <3>1 DEF ReadOK
    <3> QED BY <1>5, <2>2, <3>2
  <2> QED BY <2>1, <2>2
<1> QED BY <1>6 DEF ReadOK, q

\* The days pass, and the machine is switched on.
LEMMA CmosDayPasses == CmosInv /\ DayPasses => CmosInv'
<1> SUFFICES ASSUME CmosInv, DayPasses PROVE CmosInv'
  OBVIOUS
<1>1. at = -1 /\ UNCHANGED <<start, updates, reg, update, regB, at, tmp, tm, began, tv_sec>>
  BY DEF DayPasses, Off, chipVars, readVars
<1>2. CmosType'
  BY <1>1 DEF CmosInv, CmosType
<1>3. at' = -1 /\ at' \notin 0..14 /\ at' \notin 1..7 /\ at' \notin 8..14 /\ at' # 15
  BY <1>1
<1> QED BY <1>1, <1>2, <1>3 DEF CmosInv

\* The times at which the machine is switched on are times of the day.
LEMMA BootTimesOK ==
    ASSUME NEW s \in BootTimes
    PROVE  s \in Nat /\ s < SECS_PER_DAY
<1>1. s \in 0..(SECS_PER_DAY - 1)
  BY CmosAssumption
<1>2. SECS_PER_DAY \in Nat
  BY SMT DEF SECS_PER_DAY, SECS_PER_HOUR, SECS_PER_MIN
<1> QED BY <1>1, <1>2

\* The chip's time, register by register.
LEMMA TimeIsAt ==
    ASSUME NEW s, NEW f
    PROVE  TimeAt(s)[f] = At(date, s, f)
BY SMT DEF TimeAt, At

\* The registers show the time when the machine is switched on.
LEMMA CmosPowerOn ==
    ASSUME CmosInv, NEW s \in BootTimes, NEW b, PowerOn(s, b)
    PROVE  CmosInv'
<1>1. /\ at = -1 /\ day \in BootDays /\ start' = s /\ regB' = b /\ at' = 0
      /\ reg' = [f \in Reg |-> Shown(f, TimeAt(s)[f], b)]
      /\ UNCHANGED <<day, date, updates, update, tmp, tm, began, tv_sec>>
  BY DEF PowerOn, Off
<1>2. updates = 0 /\ update = {} /\ tv_sec = -1
  BY <1>1 DEF CmosInv
<1>3. CmosType'
  BY <1>1 DEF CmosInv, CmosType
<1>4. s \in Nat /\ s < SECS_PER_DAY
  BY BootTimesOK
<1>5. ASSUME NEW f \in Reg PROVE reg'[f] = Seen(Chip', updates', f)
  <2>1. reg'[f] = Shown(f, At(date, s, f), b)
    BY <1>1, TimeIsAt
  <2>2. s + 0 = s
    BY <1>4
  <2>3. Chip'[1] = date /\ Chip'[2] = s /\ Chip'[3] = b
    BY <1>1 DEF Chip
  <2>4. Seen(Chip', 0, f) = Shown(f, At(date, s + 0, f), b)
    BY <2>3, Zenon DEF Seen
  <2> QED BY <1>1, <1>2, <2>1, <2>2, <2>4
<1>6. RegsOK'
  BY <1>1, <1>2, <1>5 DEF RegsOK
<1>7. at' = 0 /\ at' \notin 1..7 /\ at' \notin 8..14 /\ at' # 15 /\ at' # -1
  BY <1>1
<1> QED BY <1>1, <1>2, <1>3, <1>4, <1>6, <1>7 DEF CmosInv

\* An update begins: the registers that are to change show the second before.
LEMMA CmosUpdateBegins == CmosInv /\ UpdateBegins => CmosInv'
<1> SUFFICES ASSUME CmosInv, UpdateBegins PROVE CmosInv'
  OBVIOUS
<1>1. /\ at \in 0..14 /\ update = {} /\ updates < MaxUpdates /\ updates' = updates + 1
      /\ UNCHANGED <<day, date, start, reg, regB, at, tmp, tm, began, tv_sec>>
  BY Registers DEF UpdateBegins, readVars
<1>2. update' = {f \in Reg : Time(updates + 1)[f] # Time(updates)[f]}
  BY <1>1 DEF UpdateBegins, Time, TimeAt
<1>3. updates \in Nat /\ MaxUpdates \in Nat /\ began \in Nat /\ began <= updates
  BY CmosAssumption, SMT DEF CmosInv, CmosType
<1>4. CmosType'
  BY <1>1, <1>2, <1>3 DEF CmosInv, CmosType
<1>5. Chip' = Chip
  BY <1>1 DEF Chip
<1>6. ASSUME NEW f \in Reg, f \notin update' PROVE Seen(Chip, updates + 1, f) = Seen(Chip, updates, f)
  <2>1. At(date, start + (updates + 1), f) = At(date, start + updates, f)
    BY <1>2, <1>6, TimeIsAt DEF Time
  <2>2. Chip[1] = date /\ Chip[2] = start
    BY DEF Chip
  <2> QED BY <2>1, <2>2, Zenon DEF Seen
<1>7. RegsOK'
  <2>1. ASSUME NEW f \in Reg PROVE reg'[f] = Seen(Chip, updates, f)
    BY <1>1 DEF CmosInv, RegsOK
  <2>2. updates' - 1 = updates
    BY <1>1, <1>3
  <2>3. ASSUME NEW f \in Reg
        PROVE  /\ f \in update' => reg'[f] = Seen(Chip', updates' - 1, f)
               /\ f \notin update' => reg'[f] = Seen(Chip', updates', f)
    BY <1>1, <1>5, <1>6, <2>1, <2>2
  <2> QED BY <2>3 DEF RegsOK
<1>8. updates' > 0 /\ updates' > began' /\ updates' \in Nat /\ updates <= updates'
  BY <1>1, <1>3
<1>9. ASSUME at \in 1..7 PROVE First'
  <2>1. ReadOK(Chip, tmp, at - 1, began, updates)
    BY <1>9 DEF CmosInv, First
  <2>2. ReadOK(Chip, tmp, at - 1, began, updates')
    BY <1>3, <1>8, <2>1, ReadOKLater
  <2> QED BY <1>1, <1>5, <1>8, <2>2 DEF First
<1>10. ASSUME at \in 8..14 PROVE Second'
  <2>1. PICK w \in began..updates :
            ReadOK(Chip, tmp, 6, began, w) /\ ReadOK(Chip, tm, at - 8, w, updates)
    BY <1>10 DEF CmosInv, Second
  <2>2. w \in Nat /\ w \in began..updates' /\ updates' > w
    BY <1>1, <1>3, <2>1
  <2>3. ReadOK(Chip, tm, at - 8, w, updates')
    BY <1>3, <1>8, <2>1, <2>2, ReadOKLater
  <2>4. /\ update' # {} => updates' > w
        /\ ReadOK(Chip', tmp', 6, began', w)
        /\ ReadOK(Chip', tm', at' - 8, w, updates')
    BY <1>1, <1>5, <2>1, <2>2, <2>3
  <2>5. w \in began'..updates'
    BY <1>1, <2>2
  <2> QED BY <2>4, <2>5 DEF Second
<1>11. at # -1 /\ at # 15
  BY <1>1
<1> QED BY <1>1, <1>4, <1>7, <1>8, <1>9, <1>10, <1>11 DEF CmosInv

\* The update comes to a register.
LEMMA CmosUpdateWrites ==
    ASSUME CmosInv, NEW g \in Reg, UpdateWrites(g)
    PROVE  CmosInv'
<1>1. /\ g \in update /\ update' = update \ {g}
      /\ reg' = [reg EXCEPT ![g] = Shown(g, Time(updates)[g], regB)]
      /\ UNCHANGED <<day, date, start, updates, regB, at, tmp, tm, began, tv_sec>>
  BY DEF UpdateWrites, readVars
<1>2. at \in 0..14
  BY <1>1 DEF CmosInv, CmosType
<1>3. CmosType'
  <2>1. reg' = [f \in Reg |-> reg'[f]]
    BY <1>1 DEF CmosInv, CmosType
  <2>2. update' \subseteq Reg
    BY <1>1 DEF CmosInv, CmosType
  <2> QED BY <1>1, <2>1, <2>2 DEF CmosInv, CmosType
<1>4. Chip' = Chip
  BY <1>1 DEF Chip
<1>5. reg'[g] = Seen(Chip, updates, g)
  <2>1. reg'[g] = Shown(g, Time(updates)[g], regB)
    BY <1>1 DEF CmosInv, CmosType
  <2>2. Time(updates)[g] = At(date, start + updates, g)
    BY TimeIsAt DEF Time
  <2>3. Chip[1] = date /\ Chip[2] = start /\ Chip[3] = regB
    BY DEF Chip
  <2> QED BY <2>1, <2>2, <2>3, Zenon DEF Seen
<1>6. \A f \in Reg : f # g => reg'[f] = reg[f]
  BY <1>1 DEF CmosInv, CmosType
<1>7. RegsOK'
  <2>1. ASSUME NEW f \in Reg
        PROVE  /\ f \in update' => reg'[f] = Seen(Chip', updates' - 1, f)
               /\ f \notin update' => reg'[f] = Seen(Chip', updates', f)
    <3>1. CASE f = g
      BY <1>1, <1>4, <1>5, <3>1
    <3>2. CASE f # g
      <4>1. RegsOK
        BY <1>2 DEF CmosInv
      <4> QED BY <1>1, <1>4, <1>6, <3>2, <4>1 DEF RegsOK
    <3> QED BY <3>1, <3>2
  <2> QED BY <2>1 DEF RegsOK
<1>8. update # {}
  BY <1>1
<1>9. ASSUME at \in 1..7 PROVE First'
  BY <1>1, <1>4, <1>8, <1>9 DEF CmosInv, First
<1>10. ASSUME at \in 8..14 PROVE Second'
  <2>1. PICK w \in began..updates :
            /\ updates > w
            /\ ReadOK(Chip, tmp, 6, began, w) /\ ReadOK(Chip, tm, at - 8, w, updates)
    BY <1>8, <1>10 DEF CmosInv, Second
  <2>2. /\ updates' > w
        /\ ReadOK(Chip', tmp', 6, began', w)
        /\ ReadOK(Chip', tm', at' - 8, w, updates')
    BY <1>1, <1>4, <2>1
  <2>3. w \in began'..updates'
    BY <1>1, <2>1
  <2> QED BY <2>2, <2>3 DEF Second
<1>11. at # -1 /\ at # 15
  BY <1>2
<1>12. updates > 0
  BY <1>2, <1>8 DEF CmosInv
<1> QED BY <1>1, <1>2, <1>3, <1>7, <1>9, <1>10, <1>11, <1>12 DEF CmosInv

\* A wait: the registers all show the same second.
LEMMA CmosWait == CmosInv /\ cmos_wait => CmosInv'
<1> SUFFICES ASSUME CmosInv, cmos_wait PROVE CmosInv'
  OBVIOUS
<1>1. /\ at \in {0, 7} /\ update = {} /\ at' = at + 1
      /\ began' = IF at = 0 THEN updates ELSE began
      /\ UNCHANGED <<day, date, start, updates, reg, update, regB, tmp, tm, tv_sec>>
  BY Registers DEF cmos_wait, chipVars
<1>2. updates \in Nat /\ began \in Nat /\ began <= updates
  BY DEF CmosInv, CmosType
<1>3. CmosType'
  BY <1>1, <1>2 DEF CmosInv, CmosType
<1>4. Chip' = Chip
  BY <1>1 DEF Chip
<1>5. RegsOK'
  BY <1>1, <1>4 DEF CmosInv, RegsOK
<1>6. \A r, a, b : ReadOK(Chip, r, 0, a, b)
  BY DEF ReadOK
<1>7. CASE at = 0
  <2>1. at' = 1 /\ at' - 1 = 0
    BY <1>1, <1>7
  <2>2. ReadOK(Chip', tmp', at' - 1, began', updates')
    BY <1>4, <1>6, <2>1
  <2>3. First'
    BY <1>1, <2>2 DEF First
  <2>4. at' \in 0..14 /\ at' # -1 /\ at' # 15 /\ at' \notin 8..14
    BY <2>1
  <2> QED BY <1>1, <1>3, <1>5, <1>7, <2>3, <2>4 DEF CmosInv
<1>8. CASE at = 7
  <2>1. at' = 8 /\ at' - 8 = 0 /\ began' = began /\ at - 1 = 6
    BY <1>1, <1>8
  <2>2. ReadOK(Chip, tmp, 6, began, updates)
    <3>1. First
      BY <1>8 DEF CmosInv
    <3> QED BY <2>1, <3>1 DEF First
  <2>3. PICK w \in began..updates : w = updates
    BY <1>2
  <2>4. /\ ReadOK(Chip', tmp', 6, began', w)
        /\ ReadOK(Chip', tm', at' - 8, w, updates')
        /\ w \in began'..updates'
    BY <1>1, <1>4, <1>6, <2>1, <2>2, <2>3
  <2>5. Second'
    BY <1>1, <2>4 DEF Second
  <2>6. at' \in 0..14 /\ at' # -1 /\ at' # 15 /\ at' \notin 1..7
    BY <2>1
  <2> QED BY <1>1, <1>3, <1>5, <1>8, <2>5, <2>6 DEF CmosInv
<1> QED BY <1>1, <1>7, <1>8

\* A register is read.
LEMMA CmosRead == CmosInv /\ cmos_read => CmosInv'
<1> SUFFICES ASSUME CmosInv, cmos_read PROVE CmosInv'
  OBVIOUS
<1>1. /\ at \in 1..6 \/ at \in 8..13
      /\ at' = at + 1
      /\ UNCHANGED <<day, date, start, updates, reg, update, regB, began, tv_sec>>
  BY Registers DEF cmos_read, chipVars
<1>2. updates \in Nat /\ began \in Nat /\ began <= updates /\ began \in 0..updates
  BY DEF CmosInv, CmosType
<1>3. Chip' = Chip
  BY <1>1 DEF Chip
<1>4. RegsOK' /\ (update' # {} => updates' > 0)
  BY <1>1, <1>3 DEF CmosInv, RegsOK
<1>5. at \in 0..14 /\ at' \in 0..14 /\ at # -1 /\ at' # -1 /\ at # 15 /\ at' # 15
  BY <1>1
<1>6. tmp = [f \in Reg |-> tmp[f]] /\ tm = [f \in Reg |-> tm[f]]
  BY DEF CmosInv, CmosType
<1>7. CASE at \in 1..6
  <2>1. tmp' = [tmp EXCEPT ![Order[at]] = reg[Order[at]]] /\ tm' = tm
    <3>1. at % Steps = at /\ at < Steps
      BY <1>7, Registers
    <3> QED BY <3>1 DEF cmos_read
  <2>2. First
    BY <1>7 DEF CmosInv
  <2>3. ReadOK(Chip, tmp', at, began, updates)
    BY <1>2, <1>5, <1>6, <1>7, <2>1, <2>2, ReadOKNext DEF First
  <2>4. at' - 1 = at /\ at' \in 1..7 /\ at' \notin 8..14
    BY <1>1, <1>7
  <2>5. First'
    BY <1>1, <1>3, <2>2, <2>3, <2>4 DEF First
  <2>6. CmosType'
    <3>1. tmp' = [f \in Reg |-> tmp'[f]]
      BY <1>6, <2>1
    <3> QED BY <1>1, <1>5, <2>1, <3>1 DEF CmosInv, CmosType
  <2> QED BY <1>1, <1>4, <1>5, <2>4, <2>5, <2>6 DEF CmosInv
<1>8. CASE at \in 8..13
  <2>1. PICK i \in 1..6 : i = at - 7
    BY <1>8
  <2>2. tm' = [tm EXCEPT ![Order[i]] = reg[Order[i]]] /\ tmp' = tmp
    <3>1. at % Steps = i /\ ~(at < Steps)
      BY <1>8, <2>1, Registers
    <3> QED BY <3>1 DEF cmos_read
  <2>3. PICK w \in began..updates :
            /\ update # {} => updates > w
            /\ ReadOK(Chip, tmp, 6, began, w) /\ ReadOK(Chip, tm, at - 8, w, updates)
    BY <1>8 DEF CmosInv, Second
  <2>4. w \in 0..updates /\ at - 8 = i - 1 /\ at' - 8 = i /\ at' \in 8..14 /\ at' \notin 1..7
    BY <1>1, <1>2, <1>8, <2>1, <2>3
  <2>5. ReadOK(Chip, tm', i, w, updates)
    BY <1>5, <1>6, <2>2, <2>3, <2>4, ReadOKNext
  <2>6. /\ update' # {} => updates' > w
        /\ ReadOK(Chip', tmp', 6, began', w)
        /\ ReadOK(Chip', tm', at' - 8, w, updates')
        /\ w \in began'..updates'
    BY <1>1, <1>3, <2>2, <2>3, <2>4, <2>5
  <2>7. Second'
    BY <2>6 DEF Second
  <2>8. CmosType'
    <3>1. tm' = [f \in Reg |-> tm'[f]]
      BY <1>6, <2>2
    <3> QED BY <1>1, <1>5, <2>2, <3>1 DEF CmosInv, CmosType
  <2> QED BY <1>1, <1>4, <1>5, <2>4, <2>7, <2>8 DEF CmosInv
<1> QED BY <1>1, <1>7, <1>8

\* The readings differ.
LEMMA CmosAgain == CmosInv /\ cmos_again => CmosInv'
<1> SUFFICES ASSUME CmosInv, cmos_again PROVE CmosInv'
  OBVIOUS
<1>1. /\ at = 14 /\ at' = 0 /\ tmp' = NoTm /\ tm' = NoTm
      /\ UNCHANGED <<day, date, start, updates, reg, update, regB, began, tv_sec>>
  BY Registers DEF cmos_again, chipVars
<1>2. CmosType'
  BY <1>1 DEF CmosInv, CmosType, NoTm
<1>3. Chip' = Chip
  BY <1>1 DEF Chip
<1>4. RegsOK' /\ (update' # {} => updates' > 0)
  BY <1>1, <1>3 DEF CmosInv, RegsOK
<1>5. at' = 0 /\ at' # -1 /\ at' # 15 /\ at' \notin 1..7 /\ at' \notin 8..14 /\ at # 15 /\ at # -1
  BY <1>1
<1> QED BY <1>1, <1>2, <1>4, <1>5 DEF CmosInv

\* The readings agree.  A register that both show the same has shown that at the
\* wait in between: with the seconds no time has passed, and the others change
\* once at most within a minute.
LEMMA CmosDone == CalendarInv /\ CmosInv /\ cmos_init => CmosInv'
<1> SUFFICES ASSUME CalendarInv, CmosInv, cmos_init PROVE CmosInv'
  OBVIOUS
<1>1. /\ at = 14 /\ tmp = tm /\ at' = 15 /\ tv_sec' = mktime(Converted(tm))
      /\ tmp' = NoTm /\ tm' = NoTm /\ reg' = NoTm /\ update' = {}
      /\ UNCHANGED <<day, date, start, updates, began>>
  BY Registers DEF cmos_init, Agree
<1>2. /\ updates \in Nat /\ updates <= 59 /\ began \in Nat /\ began <= updates
      /\ start \in Nat /\ start < SECS_PER_DAY /\ day \in BootDays
  BY <1>1, CmosAssumption, SMT DEF CmosInv, CmosType
<1>3. PICK w \in began..updates :
          ReadOK(Chip, tmp, 6, began, w) /\ ReadOK(Chip, tm, at - 8, w, updates)
  BY <1>1 DEF CmosInv, Second
<1>4. at - 8 = 6 /\ w \in Nat /\ began <= w /\ w <= updates
  BY <1>1, <1>2, <1>3
<1>5. day \in Nat /\ DateOK(date, day)
  BY DEF CalendarInv
<1>6. Chip[1] = date /\ Chip[2] = start /\ Chip[3] = regB
  BY DEF Chip
<1>7. ASSUME NEW f \in Reg PROVE tm[f] = Shown(f, At(date, start + w, f), regB)
  <2>1. PICK i \in 1..6 : f = Order[i]
    BY Registers
  <2>2. PICK e1 \in began..w : tmp[f] = Seen(Chip, e1, f)
    BY <1>3, <2>1 DEF ReadOK
  <2>3. PICK e2 \in w..updates : tm[f] = Seen(Chip, e2, f)
    BY <1>3, <1>4, <2>1 DEF ReadOK
  <2>4. e1 \in Nat /\ e2 \in Nat /\ e1 <= w /\ w <= e2 /\ e2 <= updates
    BY <1>2, <1>4, <2>2, <2>3
  <2>5. PICK s1 \in Nat, s \in Nat, s2 \in Nat :
            s1 = start + e1 /\ s = start + w /\ s2 = start + e2
    BY <1>2, <1>4, <2>4
  <2>6. s1 <= s /\ s <= s2 /\ s2 - s1 <= 59
    BY <1>2, <1>4, <2>4, <2>5
  <2>7. /\ tmp[f] = Shown(f, At(date, s1, f), regB)
        /\ tm[f] = Shown(f, At(date, s2, f), regB)
    BY <1>6, <2>2, <2>3, <2>5, Zenon DEF Seen
  <2>8. ASSUME NEW t \in Nat PROVE Back(f, Shown(f, At(date, t, f), regB)) = At(date, t, f)
    <3>1. At(date, t, f) \in 0..99 /\ (f = "HOUR" => At(date, t, f) \in 0..23)
      BY <1>5, AtRange
    <3> QED BY <3>1, ShownBack
  <2>9. At(date, s1, f) = At(date, s2, f)
    BY <1>1, <2>7, <2>8
  <2>10. At(date, s2, f) = At(date, s, f)
    BY <1>5, <2>6, <2>9, AtBetween
  <2> QED BY <2>5, <2>7, <2>10, Zenon
<1>8. day >= 10957 /\ day <= 24854
  <2>1. day \in 10957..LastDay
    BY <1>2, CmosAssumption
  <2>2. LastDay \in 0..24854
    BY CalendarAssumption
  <2> QED BY <2>1, <2>2, SMT
<1>9. PICK s \in Nat : s = start + w /\ s < SECS_PER_DAY + 60
  <2>1. SECS_PER_DAY \in Nat
    BY SMT DEF SECS_PER_DAY, SECS_PER_HOUR, SECS_PER_MIN
  <2> QED BY <1>2, <1>4, <2>1
<1>10. mktime(Converted(tm)) = day * SECS_PER_DAY + s
  BY <1>5, <1>7, <1>8, <1>9, ConvertedTime, SMT
<1>11. day * SECS_PER_DAY + s = day * SECS_PER_DAY + start + w
  BY <1>2, <1>4, <1>5, <1>9, SMT DEF SECS_PER_DAY, SECS_PER_HOUR, SECS_PER_MIN
<1>12. \E k \in began'..updates' : tv_sec' = day' * SECS_PER_DAY + start' + k
  BY <1>1, <1>10, <1>11
<1>13. CmosType'
  BY <1>1 DEF CmosInv, CmosType, NoTm
<1>14. at' = 15 /\ at' # -1 /\ at' \notin 0..14 /\ at' \notin 1..7 /\ at' \notin 8..14
  BY <1>1
<1> QED BY <1>1, <1>2, <1>12, <1>13, <1>14 DEF CmosInv

\* Nothing else changes what cmos_init() has read.
LEMMA CmosStutter == CmosInv /\ UNCHANGED cmosVars => CmosInv'
BY DEF CmosInv, CmosType, RegsOK, First, Second, Chip, cmosVars

\* The chip and the driver, at every step.
LEMMA CmosKept == WallSpec => []CmosInv
<1>1. WallInit => CmosInv
  <2> SUFFICES ASSUME WallInit PROVE CmosInv
    OBVIOUS
  <2>1. /\ at = -1 /\ updates = 0 /\ update = {} /\ began = 0 /\ tv_sec = -1
        /\ reg = NoTm /\ tmp = NoTm /\ tm = NoTm
    BY DEF WallInit, CmosInit
  <2>2. 0 \in 0..MaxUpdates
    BY CmosAssumption
  <2>3. CmosType
    BY <2>1, <2>2 DEF CmosType, NoTm
  <2>4. at \notin 0..14 /\ at \notin 1..7 /\ at \notin 8..14 /\ at # 15
    BY <2>1
  <2> QED BY <2>1, <2>3, <2>4 DEF CmosInv
<1>2. CalendarInv /\ CmosInv /\ [WallNext]_wallVars => CmosInv'
  <2> SUFFICES ASSUME CalendarInv, CmosInv, [WallNext]_wallVars PROVE CmosInv'
    OBVIOUS
  <2>1. CASE DayPasses
    BY <2>1, CmosDayPasses
  <2>2. CASE \E s \in BootTimes, b \in SUBSET {"BIN", "24H"} : PowerOn(s, b)
    BY <2>2, CmosPowerOn
  <2>3. CASE UpdateBegins
    BY <2>3, CmosUpdateBegins
  <2>4. CASE \E f \in Reg : UpdateWrites(f)
    BY <2>4, CmosUpdateWrites
  <2>5. CASE cmos_wait
    BY <2>5, CmosWait
  <2>6. CASE cmos_read
    BY <2>6, CmosRead
  <2>7. CASE cmos_again
    BY <2>7, CmosAgain
  <2>8. CASE cmos_init
    BY <2>8, CmosDone
  <2>9. CASE UNCHANGED cmosVars
    BY <2>9, CmosStutter
  <2>10. CmosNext \/ cmos_init \/ UNCHANGED cmosVars
    BY Zenon DEF WallNext, SetsClock, wallVars
  <2> QED BY <2>1, <2>2, <2>3, <2>4, <2>5, <2>6, <2>7, <2>8, <2>9, <2>10, Zenon DEF CmosNext
<1> QED BY <1>1, <1>2, CalendarKept, PTL DEF WallSpec

\* cmos_init() sets the wall clock to a time that the chip has shown since the
\* reading began, whatever it has updated between the reads.
THEOREM RealTimeCorrect == WallSpec => []ReadsRealTime
<1>1. CmosInv => ReadsRealTime
  BY DEF CmosInv, ReadsRealTime
<1> QED BY <1>1, CmosKept, PTL

-----------------------------------------------------------------------------
(***************************************************************************)
(* The processor times of the threads, added up one thread after another.  *)
(***************************************************************************)
zero == timeval(0, 0)

\* A time as gettimeofday() has it.  A second is only carried at the next tick.
Timeval == [tv_sec : Int, tv_usec : 0..USECS_PER_SEC]

\* The microseconds that thread t has run for.
Run(st, t) == Usecs(zero, st[t])

AnyOf(s) == CHOOSE x \in s : TRUE

Sums(st, g) ==
    g = [s \in SUBSET Task |-> IF s = {} THEN 0 ELSE Run(st, AnyOf(s)) + g[s \ {AnyOf(s)}]]

Total(st) == MapThenSumSet(LAMBDA t : Usecs(zero, st[t]), Task)

Small(n) == {s \in SUBSET Task : Cardinality(s) <= n}

\* The sets of threads, from the smaller to the larger.
LEMMA SmallSets ==
    /\ \E n \in Nat : Small(n) = SUBSET Task
    /\ \A n \in Nat : \A s \in Small(n + 1) : s # {} =>
          AnyOf(s) \in s /\ AnyOf(s) \in Task /\ s \ {AnyOf(s)} \in Small(n)
    /\ \A s \in Small(0) : s = {}
    /\ \A n \in Nat : {} \in Small(n)
<1>1. IsFiniteSet(Task)
  BY ClockAssumption
<1>2. \A s \in SUBSET Task : IsFiniteSet(s) /\ Cardinality(s) \in Nat
                             /\ Cardinality(s) <= Cardinality(Task)
  BY <1>1, FS_Subset, FS_CardinalityType
<1>3. \A s \in SUBSET Task : Cardinality(s) = 0 <=> s = {}
  BY <1>2, FS_EmptySet
<1>4. ASSUME NEW n \in Nat, NEW s \in Small(n + 1), s # {}
      PROVE  AnyOf(s) \in s /\ AnyOf(s) \in Task /\ s \ {AnyOf(s)} \in Small(n)
  <2>1. AnyOf(s) \in s
    BY <1>4 DEF AnyOf
  <2>2. s \in SUBSET Task /\ Cardinality(s) <= n + 1
    BY DEF Small
  <2>3. Cardinality(s \ {AnyOf(s)}) = Cardinality(s) - 1
    BY <1>2, <2>1, <2>2, FS_RemoveElement
  <2>4. Cardinality(s \ {AnyOf(s)}) <= n
    BY <1>2, <2>2, <2>3
  <2> QED BY <2>1, <2>2, <2>4 DEF Small
<1>5. Cardinality(Task) \in Nat /\ Small(Cardinality(Task)) = SUBSET Task
  BY <1>2 DEF Small
<1>6. \A s \in Small(0) : s = {}
  BY <1>2, <1>3 DEF Small
<1>7. ASSUME NEW n \in Nat PROVE {} \in Small(n)
  <2>1. {} \in SUBSET Task /\ Cardinality({}) = 0
    BY <1>3
  <2> QED BY <2>1 DEF Small
<1> QED BY <1>4, <1>5, <1>6, <1>7

\* The sum is defined.
LEMMA SumExists ==
    ASSUME NEW st, \A t \in Task : Run(st, t) \in Int
    PROVE  \E g \in [SUBSET Task -> Int] : Sums(st, g)
<1> DEFINE Eq(g, s) == g[s] = IF s = {} THEN 0 ELSE Run(st, AnyOf(s)) + g[s \ {AnyOf(s)}]
           S == {n \in Nat : \E g \in [Small(n) -> Int] : \A s \in Small(n) : Eq(g, s)}
<1>1. 0 \in S
  <2> DEFINE g == [s \in Small(0) |-> 0]
  <2>1. g \in [Small(0) -> Int]
    OBVIOUS
  <2>2. \A s \in Small(0) : Eq(g, s)
    BY SmallSets
  <2> HIDE DEF g
  <2> QED BY <2>1, <2>2
<1>2. ASSUME NEW n \in S PROVE n + 1 \in S
  <2>1. PICK g \in [Small(n) -> Int] : \A s \in Small(n) : Eq(g, s)
    OBVIOUS
  <2> DEFINE h == [s \in Small(n + 1) |->
                      IF s = {} THEN 0 ELSE Run(st, AnyOf(s)) + g[s \ {AnyOf(s)}]]
  <2>2. \A s \in Small(n) : s \in Small(n + 1)
    <3>1. \A s \in SUBSET Task : Cardinality(s) \in Nat
      BY ClockAssumption, FS_Subset, FS_CardinalityType
    <3> QED BY <3>1 DEF Small
  <2>3. \A s \in Small(n + 1) : s # {} =>
            AnyOf(s) \in Task /\ s \ {AnyOf(s)} \in Small(n)
    BY SmallSets
  <2>4. h \in [Small(n + 1) -> Int]
    BY <2>1, <2>3
  <2>5. \A s \in Small(n) : h[s] = g[s]
    BY <2>1, <2>2
  <2>6. \A s \in Small(n + 1) : h[s] = IF s = {} THEN 0 ELSE Run(st, AnyOf(s)) + g[s \ {AnyOf(s)}]
    OBVIOUS
  <2> HIDE DEF h
  <2>7. \A s \in Small(n + 1) : Eq(h, s)
    BY <2>3, <2>5, <2>6
  <2>8. n + 1 \in Nat
    OBVIOUS
  <2> HIDE DEF Eq
  <2> QED BY <2>4, <2>7, <2>8, Zenon
<1>3. \A n \in Nat : n \in S
  <2>1. S \in SUBSET Nat
    OBVIOUS
  <2> HIDE DEF S
  <2> QED BY <1>1, <1>2, <2>1, Induction
<1>4. PICK n \in Nat : Small(n) = SUBSET Task
  BY SmallSets
<1>5. PICK g \in [SUBSET Task -> Int] : \A s \in SUBSET Task : Eq(g, s)
  <2> HIDE DEF Eq
  <2>1. \E g \in [Small(n) -> Int] : \A s \in Small(n) : Eq(g, s)
    BY <1>3, Zenon
  <2> QED BY <1>4, <2>1, Zenon
<1>6. Sums(st, g)
  BY <1>5 DEF Sums
<1> QED BY <1>6

\* The sum is what the recursion of MapThenSumSet adds up.
LEMMA TotalValue ==
    ASSUME NEW st, \A t \in Task : Run(st, t) \in Int
    PROVE  \E g \in [SUBSET Task -> Int] : Sums(st, g) /\ Total(st) = g[Task]
<1>1. \E g : Sums(st, g)
  BY SumExists
<1> DEFINE g == CHOOSE f : Sums(st, f)
<1>2. Sums(st, g)
  BY <1>1, Zenon
<1>3. Total(st) = g[Task]
  BY Zenon DEF Total, MapThenSumSet, MapThenFoldSet, Sums, Run, AnyOf
<1> HIDE DEF g
<1> DEFINE Eq(s) == g[s] = IF s = {} THEN 0 ELSE Run(st, AnyOf(s)) + g[s \ {AnyOf(s)}]
           S == {n \in Nat : \A s \in Small(n) : g[s] \in Int}
<1>4. \A s \in SUBSET Task : Eq(s)
  BY <1>2 DEF Sums
<1>5. DOMAIN g = SUBSET Task /\ g = [s \in SUBSET Task |-> g[s]]
  BY <1>2 DEF Sums
<1>6. \A n \in Nat : \A s \in Small(n) : s \in SUBSET Task
  BY DEF Small
<1>7. 0 \in S
  <2>1. g[{}] = 0
    BY <1>4
  <2>2. \A s \in Small(0) : s = {}
    BY SmallSets
  <2> QED BY <2>1, <2>2
<1>8. ASSUME NEW n \in S PROVE n + 1 \in S
  <2>1. ASSUME NEW s \in Small(n + 1) PROVE g[s] \in Int
    <3>1. CASE s = {}
      <4>1. g[{}] = 0
        BY <1>4
      <4> QED BY <3>1, <4>1
    <3>2. CASE s # {}
      <4>1. AnyOf(s) \in Task /\ s \ {AnyOf(s)} \in Small(n)
        BY <3>2, SmallSets
      <4>2. g[s \ {AnyOf(s)}] \in Int
        BY <4>1
      <4>3. g[s] = Run(st, AnyOf(s)) + g[s \ {AnyOf(s)}]
        BY <1>4, <1>6, <3>2
      <4> QED BY <4>1, <4>2, <4>3
    <3> QED BY <3>1, <3>2
  <2> QED BY <2>1
<1>9. \A n \in Nat : n \in S
  <2>1. S \in SUBSET Nat
    OBVIOUS
  <2> HIDE DEF S
  <2> QED BY <1>7, <1>8, <2>1, Induction
<1>10. PICK n \in Nat : Small(n) = SUBSET Task
  BY SmallSets
<1>11. \A s \in SUBSET Task : g[s] \in Int
  BY <1>9, <1>10
<1> QED BY <1>2, <1>3, <1>5, <1>11

\* When one thread has run for longer, the sum is that much more.
LEMMA TotalStep ==
    ASSUME NEW st, NEW st2, NEW k \in Int, NEW c \in Task,
           \A t \in Task : Run(st, t) \in Int,
           \A t \in Task : Run(st2, t) = IF t = c THEN Run(st, t) + k ELSE Run(st, t)
    PROVE  Total(st2) = Total(st) + k
<1>1. \A t \in Task : Run(st2, t) \in Int
  OBVIOUS
<1>2. PICK g \in [SUBSET Task -> Int] : Sums(st, g) /\ Total(st) = g[Task]
  BY TotalValue
<1>3. PICK h \in [SUBSET Task -> Int] : Sums(st2, h) /\ Total(st2) = h[Task]
  BY <1>1, TotalValue
<1>4. \A s \in SUBSET Task : g[s] = IF s = {} THEN 0 ELSE Run(st, AnyOf(s)) + g[s \ {AnyOf(s)}]
  BY <1>2 DEF Sums
<1>5. \A s \in SUBSET Task : h[s] = IF s = {} THEN 0 ELSE Run(st2, AnyOf(s)) + h[s \ {AnyOf(s)}]
  BY <1>3 DEF Sums
<1> DEFINE More(s) == h[s] = g[s] + IF c \in s THEN k ELSE 0
           S == {n \in Nat : \A s \in Small(n) : More(s)}
<1>6. \A n \in Nat : \A s \in Small(n) : s \in SUBSET Task
  BY DEF Small
<1>7. More({})
  <2>1. {} \in SUBSET Task
    OBVIOUS
  <2>2. g[{}] = 0
    BY <1>4, <2>1
  <2>3. h[{}] = 0
    BY <1>5, <2>1
  <2> QED BY <2>2, <2>3
<1>8. 0 \in S
  <2>1. \A s \in Small(0) : s = {}
    BY SmallSets
  <2> HIDE DEF More
  <2> QED BY <1>7, <2>1
<1>9. ASSUME NEW n \in S PROVE n + 1 \in S
  <2>1. ASSUME NEW s \in Small(n + 1) PROVE More(s)
    <3>1. CASE s = {}
      BY <1>7, <3>1
    <3>2. CASE s # {}
      <4>1. PICK x : x = AnyOf(s)
        OBVIOUS
      <4>2. x \in s /\ x \in Task /\ s \ {x} \in Small(n) /\ s \in SUBSET Task /\ s \ {x} \in SUBSET Task
        BY <1>6, <3>2, <4>1, SmallSets
      <4>3. g[s] = Run(st, x) + g[s \ {x}] /\ h[s] = Run(st2, x) + h[s \ {x}]
        BY <1>4, <1>5, <3>2, <4>1, <4>2
      <4>4. h[s \ {x}] = g[s \ {x}] + IF c \in s \ {x} THEN k ELSE 0
        BY <4>2
      <4>5. g[s \ {x}] \in Int /\ h[s \ {x}] \in Int /\ Run(st, x) \in Int
        BY <4>2
      <4>6. CASE x = c
        <5>1. Run(st2, x) = Run(st, x) + k /\ c \in s /\ c \notin s \ {x}
          BY <4>2, <4>6
        <5> QED BY <4>3, <4>4, <4>5, <5>1
      <4>7. CASE x # c
        <5>1. Run(st2, x) = Run(st, x) /\ (c \in s <=> c \in s \ {x})
          BY <4>2, <4>7
        <5> QED BY <4>3, <4>4, <4>5, <5>1
      <4> QED BY <4>6, <4>7
    <3> QED BY <3>1, <3>2
  <2> HIDE DEF More
  <2> QED BY <2>1
<1>10. \A n \in Nat : n \in S
  <2>1. S \in SUBSET Nat
    OBVIOUS
  <2> HIDE DEF S
  <2> QED BY <1>8, <1>9, <2>1, Induction
<1>11. PICK n \in Nat : Small(n) = SUBSET Task
  BY SmallSets
<1>12. More(Task)
  <2> HIDE DEF More
  <2> QED BY <1>10, <1>11
<1> QED BY <1>2, <1>3, <1>12

\* A sum of nothing is nothing.
LEMMA TotalZero ==
    ASSUME NEW st, \A t \in Task : Run(st, t) = 0
    PROVE  Total(st) = 0
<1>1. PICK g \in [SUBSET Task -> Int] : Sums(st, g) /\ Total(st) = g[Task]
  <2>1. \A t \in Task : Run(st, t) \in Int
    OBVIOUS
  <2> QED BY <2>1, TotalValue
<1>2. \A s \in SUBSET Task : g[s] = IF s = {} THEN 0 ELSE Run(st, AnyOf(s)) + g[s \ {AnyOf(s)}]
  BY <1>1 DEF Sums
<1> DEFINE S == {n \in Nat : \A s \in Small(n) : g[s] = 0}
<1>3. 0 \in S
  <2>1. g[{}] = 0
    BY <1>2
  <2>2. \A s \in Small(0) : s = {}
    BY SmallSets
  <2> QED BY <2>1, <2>2
<1>4. ASSUME NEW n \in S PROVE n + 1 \in S
  <2>1. ASSUME NEW s \in Small(n + 1), s # {} PROVE g[s] = 0
    <3>1. AnyOf(s) \in Task /\ s \ {AnyOf(s)} \in Small(n)
      BY <2>1, SmallSets
    <3>2. s \in SUBSET Task
      BY DEF Small
    <3>3. g[s \ {AnyOf(s)}] = 0 /\ Run(st, AnyOf(s)) = 0
      BY <3>1
    <3> QED BY <1>2, <2>1, <3>2, <3>3
  <2>2. g[{}] = 0
    <3>1. {} \in SUBSET Task
      OBVIOUS
    <3> QED BY <1>2, <3>1
  <2>3. \A s \in Small(n + 1) : g[s] = 0
    <3> HIDE DEF S
    <3> QED BY <2>1, <2>2
  <2> QED BY <2>3
<1>5. \A n \in Nat : n \in S
  <2>1. S \in SUBSET Nat
    OBVIOUS
  <2> HIDE DEF S
  <2> QED BY <1>3, <1>4, <2>1, Induction
<1>6. PICK n \in Nat : Small(n) = SUBSET Task
  BY SmallSets
<1> QED BY <1>1, <1>5, <1>6

-----------------------------------------------------------------------------
(***************************************************************************)
(* The clocks.                                                             *)
(***************************************************************************)
\* A tick is at most a second.
LEMMA TickBound ==
    /\ USECS_PER_SEC \in Nat /\ USECS_PER_SEC > 0
    /\ TickUsecs \in Nat /\ TickUsecs <= USECS_PER_SEC
BY ClockAssumption DEF TickUsecs

\* What Usecs() measures.
LEMMA UsecsSum ==
    ASSUME NEW a \in Timeval, NEW b \in Timeval, NEW c \in Timeval
    PROVE  /\ Usecs(a, b) \in Int /\ Usecs(a, a) = 0
           /\ Usecs(a, c) = Usecs(a, b) + Usecs(b, c)
<1>1. PICK x1 \in Int, x2 \in Int, x3 \in Int : a.tv_sec = x1 /\ b.tv_sec = x2 /\ c.tv_sec = x3
  BY DEF Timeval
<1>2. PICK y1 \in Int, y2 \in Int, y3 \in Int : a.tv_usec = y1 /\ b.tv_usec = y2 /\ c.tv_usec = y3
  BY TickBound DEF Timeval
<1>3. PICK n \in Nat : n = USECS_PER_SEC
  BY TickBound
<1>4. /\ Usecs(a, b) = (x2 - x1) * n + (y2 - y1) /\ Usecs(b, c) = (x3 - x2) * n + (y3 - y2)
      /\ Usecs(a, c) = (x3 - x1) * n + (y3 - y1) /\ Usecs(a, a) = (x1 - x1) * n + (y1 - y1)
  BY <1>1, <1>2, <1>3 DEF Usecs
<1>5. (x3 - x1) * n = (x2 - x1) * n + (x3 - x2) * n
  OBVIOUS
<1>6. (x1 - x1) * n = 0
  OBVIOUS
<1>7. PICK p \in Int, q \in Int : p = (x2 - x1) * n /\ q = (x3 - x2) * n
  OBVIOUS
<1> QED BY <1>4, <1>5, <1>6, <1>7

\* A time and the time one tick later are one tick apart, across a carry too.
LEMMA UpdateValue ==
    ASSUME NEW tv \in Timeval
    PROVE  update_timeval(tv) \in Timeval /\ Usecs(tv, update_timeval(tv)) = TickUsecs
<1>1. PICK n \in Nat \ {0}, k \in Nat : n = USECS_PER_SEC /\ k = TickUsecs /\ k <= n
  BY TickBound
<1>2. PICK x \in Int, y \in 0..n : tv.tv_sec = x /\ tv.tv_usec = y
  BY <1>1 DEF Timeval
<1> DEFINE u == y + k
           v == update_timeval(tv)
<1>3. u \in Nat /\ u <= 2 * n
  BY <1>1, <1>2
<1>4. v = IF u > n THEN timeval(x + u \div n, u % n) ELSE timeval(x, u)
  BY <1>1, <1>2 DEF update_timeval
<1>5. ASSUME NEW s \in Int, NEW r \in 0..n, v = timeval(s, r), (s - x) * n + (r - y) = k
      PROVE  v \in Timeval /\ Usecs(tv, v) = k
  <2>1. v.tv_sec = s /\ v.tv_usec = r
    BY <1>5 DEF timeval
  <2>2. v \in Timeval
    BY <1>1, <1>5 DEF Timeval, timeval
  <2> HIDE DEF v
  <2>3. Usecs(tv, v) = (s - x) * n + (r - y)
    BY <1>1, <1>2, <2>1 DEF Usecs
  <2> QED BY <1>5, <2>2, <2>3
<1> HIDE DEF v
<1>6. CASE u <= n
  <2>1. v = timeval(x, u) /\ u \in 0..n
    BY <1>3, <1>4, <1>6
  <2>2. (x - x) * n + (u - y) = k
    BY <1>1, <1>2
  <2> HIDE DEF u
  <2> QED BY <1>1, <1>5, <2>1, <2>2 DEF v
<1>7. CASE u > n /\ u < 2 * n
  <2>1. u \div n = 1 /\ u % n = u - n
    BY <1>3, <1>7
  <2>2. v = timeval(x + 1, u - n) /\ u - n \in 0..n /\ x + 1 \in Int
    BY <1>3, <1>4, <1>7, <2>1
  <2>3. ((x + 1) - x) * n + ((u - n) - y) = k
    BY <1>1, <1>2
  <2> HIDE DEF u
  <2> QED BY <1>1, <1>5, <2>2, <2>3 DEF v
<1>8. CASE u = 2 * n
  <2>1. (2 * n) \div n = 2 /\ (2 * n) % n = 0
    OBVIOUS
  <2>2. u > n
    BY <1>8
  <2>3. v = timeval(x + 2, 0) /\ 0 \in 0..n /\ x + 2 \in Int
    BY <1>4, <1>8, <2>1, <2>2
  <2>4. ((x + 2) - x) * n + (0 - y) = k
    BY <1>1, <1>2, <1>8
  <2> HIDE DEF u
  <2> QED BY <1>1, <1>5, <2>3, <2>4 DEF v
<1> QED BY <1>3, <1>6, <1>7, <1>8

ClockType ==
    /\ monotonic_clock \in Timeval /\ wall_clock \in Timeval
    /\ stime \in [Task -> Timeval]
    /\ reading \in [Clocks -> Timeval]
    /\ ticks \in Nat
    /\ set \in [tv : Timeval, ticks : Nat]

\* The clocks are exact; the word that a call has copied is that of its clock;
\* and no reading is later than its clock.
ClockInv ==
    /\ ClockType
    /\ Usecs(zero, monotonic_clock) = ticks * TickUsecs
    /\ Usecs(set.tv, wall_clock) = (ticks - set.ticks) * TickUsecs
    /\ Total(stime) = ticks * TickUsecs
    /\ copy = NoCopy \/ (copy.clock \in Clocks /\ copy.sec = Value(copy.clock).tv_sec)
    /\ \A c \in Clocks : Usecs(reading[c], Value(c)) >= 0

\* A tick.
LEMMA ClockTick ==
    ASSUME ClockInv, NEW t \in Task, timer_update(t)
    PROVE  ClockInv'
<1>1. /\ copy = NoCopy /\ ticks' = ticks + 1
      /\ wall_clock' = update_timeval(wall_clock)
      /\ monotonic_clock' = update_timeval(monotonic_clock)
      /\ stime' = [stime EXCEPT ![t] = update_timeval(stime[t])]
      /\ UNCHANGED <<copy, reading, set>>
  BY DEF timer_update, InterruptsOff
<1>2. /\ monotonic_clock \in Timeval /\ wall_clock \in Timeval /\ stime \in [Task -> Timeval]
      /\ reading \in [Clocks -> Timeval] /\ ticks \in Nat /\ set \in [tv : Timeval, ticks : Nat]
  BY DEF ClockInv, ClockType
<1>3. /\ wall_clock' \in Timeval /\ Usecs(wall_clock, wall_clock') = TickUsecs
      /\ monotonic_clock' \in Timeval /\ Usecs(monotonic_clock, monotonic_clock') = TickUsecs
      /\ update_timeval(stime[t]) \in Timeval
      /\ Usecs(stime[t], update_timeval(stime[t])) = TickUsecs
  BY <1>1, <1>2, UpdateValue
<1>4. zero \in Timeval
  BY TickBound DEF zero, timeval, Timeval
<1>5. PICK k \in Nat : k = TickUsecs
  BY TickBound
<1>6. PICK n \in Nat, m \in Nat : n = ticks /\ m = set.ticks
  BY <1>2
<1>7. ClockType'
  BY <1>1, <1>2, <1>3 DEF ClockType
<1>8. Usecs(zero, monotonic_clock') = ticks' * TickUsecs
  <2>1. Usecs(zero, monotonic_clock') = Usecs(zero, monotonic_clock) + k
    BY <1>2, <1>3, <1>4, <1>5, UsecsSum
  <2>2. Usecs(zero, monotonic_clock) = n * k
    BY <1>5, <1>6 DEF ClockInv
  <2>3. n * k + k = (n + 1) * k
    OBVIOUS
  <2> QED BY <1>1, <1>5, <1>6, <2>1, <2>2, <2>3
<1>9. Usecs(set.tv, wall_clock') = (ticks' - set.ticks) * TickUsecs
  <2>1. set.tv \in Timeval
    BY <1>2
  <2>2. Usecs(set.tv, wall_clock') = Usecs(set.tv, wall_clock) + k
    BY <1>2, <1>3, <1>5, <2>1, UsecsSum
  <2>3. Usecs(set.tv, wall_clock) = (n - m) * k
    BY <1>5, <1>6 DEF ClockInv
  <2>4. (n - m) * k + k = ((n + 1) - m) * k
    OBVIOUS
  <2> QED BY <1>1, <1>5, <1>6, <2>2, <2>3, <2>4
<1>10. Total(stime') = ticks' * TickUsecs
  <2>1. \A x \in Task : Run(stime, x) \in Int
    BY <1>2, <1>4, UsecsSum DEF Run
  <2>2. Run(stime', t) = Run(stime, t) + k
    <3>1. stime'[t] = update_timeval(stime[t]) /\ stime[t] \in Timeval
      BY <1>1, <1>2
    <3>2. PICK a \in Timeval, b \in Timeval : a = stime[t] /\ b = update_timeval(stime[t])
      BY <1>3, <3>1
    <3>3. Usecs(zero, b) = Usecs(zero, a) + Usecs(a, b) /\ Usecs(a, b) = k
      BY <1>3, <1>4, <1>5, <3>2, UsecsSum
    <3>4. Usecs(zero, b) = Usecs(zero, a) + k
      BY <3>3
    <3> QED BY <3>1, <3>2, <3>4 DEF Run
  <2>3. \A x \in Task : x # t => Run(stime', x) = Run(stime, x)
    BY <1>1, <1>2 DEF Run
  <2>4. \A x \in Task : Run(stime', x) = IF x = t THEN Run(stime, x) + k ELSE Run(stime, x)
    BY <2>2, <2>3
  <2>5. Total(stime') = Total(stime) + k
    BY <2>1, <2>4, TotalStep
  <2>6. Total(stime) = n * k
    BY <1>5, <1>6 DEF ClockInv
  <2>7. n * k + k = (n + 1) * k
    OBVIOUS
  <2> QED BY <1>1, <1>5, <1>6, <2>5, <2>6, <2>7
<1>11. ASSUME NEW c \in Clocks PROVE Usecs(reading'[c], Value(c)') >= 0
  <2>1. PICK a, b : a = Value(c) /\ b = Value(c)'
    OBVIOUS
  <2>2. a \in Timeval /\ b \in Timeval /\ Usecs(a, b) = k
    BY <1>2, <1>3, <1>5, <2>1 DEF Value
  <2>3. Usecs(reading[c], a) >= 0 /\ reading[c] \in Timeval /\ reading'[c] = reading[c]
    BY <1>1, <1>2, <2>1 DEF ClockInv
  <2>4. Usecs(reading[c], b) = Usecs(reading[c], a) + Usecs(a, b) /\ Usecs(reading[c], a) \in Int
    BY <2>2, <2>3, UsecsSum
  <2>5. Usecs(reading[c], b) >= 0
    BY <2>2, <2>3, <2>4
  <2> QED BY <2>1, <2>3, <2>5
<1> QED BY <1>1, <1>7, <1>8, <1>9, <1>10, <1>11 DEF ClockInv

\* A call begins to copy, and ends.
LEMMA ClockRead ==
    ASSUME ClockInv, (\E c \in Clocks : read_begin(c)) \/ read_end
    PROVE  ClockInv'
<1>1. UNCHANGED <<monotonic_clock, wall_clock, stime, ticks, set>>
  BY DEF read_begin, read_end
<1>2. \A c \in Clocks : Value(c)' = Value(c) /\ Value(c) \in Timeval
  BY <1>1 DEF Value, ClockInv, ClockType
<1>3. CASE \E c \in Clocks : read_begin(c)
  <2>1. PICK c \in Clocks : read_begin(c)
    BY <1>3
  <2>2. copy' = [clock |-> c, sec |-> Value(c).tv_sec] /\ UNCHANGED reading
    BY <2>1 DEF read_begin
  <2>3. copy'.clock = c /\ copy'.sec = Value(c).tv_sec
    BY <2>2
  <2>4. (copy.clock \in Clocks /\ copy.sec = Value(copy.clock).tv_sec)'
    BY <1>1, <2>3 DEF Value
  <2> QED BY <1>1, <1>2, <2>2, <2>4 DEF ClockInv, ClockType
<1>4. CASE read_end
  <2>1. PICK c \in Clocks : c = copy.clock
    BY <1>4 DEF read_end
  <2>2. copy.sec = Value(c).tv_sec
    <3>1. copy # NoCopy
      BY <2>1 DEF NoCopy, Clocks
    <3> QED BY <2>1, <3>1 DEF ClockInv
  <2>3. copy' = NoCopy /\ reading' = [reading EXCEPT ![c] = timeval(copy.sec, Value(c).tv_usec)]
    BY <1>4, <2>1 DEF read_end
  <2>4. timeval(copy.sec, Value(c).tv_usec) = Value(c)
    <3>1. PICK v \in Timeval : v = Value(c)
      BY <1>2
    <3>2. timeval(v.tv_sec, v.tv_usec) = v
      BY DEF timeval, Timeval
    <3> QED BY <2>2, <3>1, <3>2
  <2>5. reading' = [reading EXCEPT ![c] = Value(c)]
    BY <2>3, <2>4
  <2>6. reading \in [Clocks -> Timeval]
    BY DEF ClockInv, ClockType
  <2>7. ASSUME NEW d \in Clocks PROVE Usecs(reading'[d], Value(d)') >= 0
    <3>1. CASE d = c
      <4>1. reading'[d] = Value(d)
        BY <2>5, <2>6, <3>1
      <4> QED BY <1>2, <4>1, UsecsSum
    <3>2. CASE d # c
      BY <1>2, <2>5, <2>6, <3>2 DEF ClockInv
    <3> QED BY <3>1, <3>2
  <2>8. reading' \in [Clocks -> Timeval]
    BY <1>2, <2>5, <2>6
  <2> QED BY <1>1, <2>3, <2>7, <2>8 DEF ClockInv, ClockType
<1> QED BY <1>3, <1>4

\* The wall clock is set.
LEMMA ClockSet ==
    ASSUME ClockInv, NEW s \in Int, NEW u \in 0..USECS_PER_SEC, settimeofday(s, u)
    PROVE  ClockInv'
<1> DEFINE tv == timeval(s, u)
<1>1. /\ copy = NoCopy /\ wall_clock' = tv
      /\ reading' = [reading EXCEPT !["CLOCK_REALTIME"] = tv]
      /\ set' = [tv |-> tv, ticks |-> ticks]
      /\ UNCHANGED <<monotonic_clock, stime, copy, ticks>>
  BY DEF settimeofday, InterruptsOff
<1>2. tv \in Timeval
  BY DEF timeval, Timeval
<1>3. Usecs(tv, tv) = 0
  BY <1>2, UsecsSum
<1> HIDE DEF tv
<1>4. reading \in [Clocks -> Timeval] /\ ticks \in Nat
  BY DEF ClockInv, ClockType
<1>5. ClockType'
  BY <1>1, <1>2, <1>4 DEF ClockInv, ClockType
<1>6. Usecs(set'.tv, wall_clock') = (ticks' - set'.ticks) * TickUsecs
  <2>1. set'.tv = tv /\ set'.ticks = ticks
    BY <1>1
  <2>2. (ticks - ticks) * TickUsecs = 0
    BY <1>4, TickBound
  <2> QED BY <1>1, <1>3, <2>1, <2>2
<1>7. ASSUME NEW c \in Clocks PROVE Usecs(reading'[c], Value(c)') >= 0
  <2>1. CASE c = "CLOCK_REALTIME"
    <3>1. reading'[c] = tv /\ Value(c)' = tv
      BY <1>1, <1>4, <2>1 DEF Value
    <3> QED BY <1>3, <3>1
  <2>2. CASE c # "CLOCK_REALTIME"
    <3>1. reading'[c] = reading[c] /\ Value(c)' = Value(c)
      BY <1>1, <1>4, <2>2 DEF Value
    <3> QED BY <3>1 DEF ClockInv
  <2> QED BY <2>1, <2>2
<1> QED BY <1>1, <1>5, <1>6, <1>7 DEF ClockInv

\* The clocks, at every step: cmos_init() sets the wall clock to a number of
\* seconds.
LEMMA ClockKept == WallSpec => []ClockInv
<1>1. WallInit => ClockInv
  <2> SUFFICES ASSUME WallInit PROVE ClockInv
    OBVIOUS
  <2>1. /\ monotonic_clock = zero /\ wall_clock = zero /\ stime = [t \in Task |-> zero]
        /\ copy = NoCopy /\ reading = [c \in Clocks |-> zero] /\ ticks = 0
        /\ set = [tv |-> zero, ticks |-> 0]
    BY DEF WallInit, ClockInit, zero
  <2>2. zero \in Timeval
    BY TickBound DEF zero, timeval, Timeval
  <2>3. Usecs(zero, zero) = 0
    BY <2>2, UsecsSum
  <2>4. Total(stime) = 0
    <3>1. \A t \in Task : Run(stime, t) = 0
      BY <2>1, <2>3 DEF Run
    <3> QED BY <3>1, TotalZero
  <2>5. 0 * TickUsecs = 0 /\ (0 - 0) * TickUsecs = 0
    BY TickBound
  <2>6. \A c \in Clocks : reading[c] = zero /\ Value(c) = zero
    BY <2>1 DEF Value
  <2>7. ClockType
    BY <2>1, <2>2 DEF ClockType
  <2>8. Usecs(set.tv, wall_clock) = (ticks - set.ticks) * TickUsecs
    BY <2>1, <2>3, <2>5
  <2>9. Usecs(zero, monotonic_clock) = ticks * TickUsecs /\ Total(stime) = ticks * TickUsecs
    BY <2>1, <2>3, <2>4, <2>5
  <2>10. \A c \in Clocks : Usecs(reading[c], Value(c)) >= 0
    BY <2>3, <2>6
  <2> QED BY <2>1, <2>7, <2>8, <2>9, <2>10 DEF ClockInv
<1>2. CalendarInv' /\ CmosInv' /\ ClockInv /\ [WallNext]_wallVars => ClockInv'
  <2> SUFFICES ASSUME CalendarInv', CmosInv', ClockInv, [WallNext]_wallVars PROVE ClockInv'
    OBVIOUS
  <2>1. CASE \E t \in Task : timer_update(t)
    BY <2>1, ClockTick
  <2>2. CASE (\E c \in Clocks : read_begin(c)) \/ read_end
    BY <2>2, ClockRead
  <2>3. CASE settimeofday(0, USECS_PER_SEC - 1)
    <3>1. USECS_PER_SEC - 1 \in 0..USECS_PER_SEC
      BY TickBound
    <3> QED BY <2>3, <3>1, ClockSet
  <2>4. CASE SetsClock
    <3>1. at' = 15
      BY <2>4, Registers DEF SetsClock, cmos_init
    <3>2. PICK k \in began'..updates' : tv_sec' = day' * SECS_PER_DAY + start' + k
      BY <3>1 DEF CmosInv
    <3>3. day' \in Nat /\ start' \in Nat /\ k \in Int
      BY <3>1, <3>2 DEF CalendarInv, CmosInv, CmosType
    <3>4. tv_sec' \in Int
      BY <3>2, <3>3, SMT DEF SECS_PER_DAY, SECS_PER_HOUR, SECS_PER_MIN
    <3>5. 0 \in 0..USECS_PER_SEC
      BY TickBound
    <3>6. settimeofday(tv_sec', 0)
      BY <2>4 DEF SetsClock
    <3> QED BY <3>4, <3>5, <3>6, ClockSet
  <2>5. CASE UNCHANGED clockVars
    BY <2>5 DEF ClockInv, ClockType, Value, clockVars
  <2>6. ClockNext \/ SetsClock \/ UNCHANGED clockVars
    BY Zenon DEF WallNext, Runs, wallVars
  <2> QED BY <2>1, <2>2, <2>3, <2>4, <2>5, <2>6, Zenon DEF ClockNext
<1> QED BY <1>1, <1>2, CalendarKept, CmosKept, PTL DEF WallSpec

\* No tick is lost or counted twice: the monotonic clock shows the ticks since
\* boot, the wall clock those since it was set, and the threads' processor times
\* add up to them.
THEOREM ClocksCorrect == WallSpec => []ClocksExact
<1>1. ClockInv => ClocksExact
  BY DEF ClockInv, ClocksExact, Total, zero
<1> QED BY <1>1, ClockKept, PTL

\* When a call returns a reading it is that of the clock at this moment.
LEMMA ReadingStep ==
    ASSUME ClockInv, [WallNext]_wallVars, NEW c \in Clocks, reading'[c] # reading[c]
    PROVE  /\ reading'[c] = Value(c)'
           /\ set' # set \/ Usecs(reading[c], reading'[c]) >= 0
<1>1. reading \in [Clocks -> Timeval] /\ Value(c) \in Timeval
  BY DEF ClockInv, ClockType, Value
<1>2. CASE read_end
  <2>1. PICK d \in Clocks : d = copy.clock
    BY <1>2 DEF read_end
  <2>2. copy.sec = Value(d).tv_sec
    <3>1. copy # NoCopy
      BY <2>1 DEF NoCopy, Clocks
    <3> QED BY <2>1, <3>1 DEF ClockInv
  <2>3. /\ reading' = [reading EXCEPT ![d] = timeval(copy.sec, Value(d).tv_usec)]
        /\ UNCHANGED <<monotonic_clock, wall_clock>>
    BY <1>2, <2>1 DEF read_end
  <2>4. c = d
    BY <1>1, <2>3
  <2>5. PICK v \in Timeval : v = Value(c)
    BY <1>1
  <2>6. timeval(v.tv_sec, v.tv_usec) = v
    BY DEF timeval, Timeval
  <2>7. reading'[c] = v
    BY <1>1, <2>2, <2>3, <2>4, <2>5, <2>6
  <2>8. Value(c)' = v
    BY <2>3, <2>5 DEF Value
  <2>9. Usecs(reading[c], v) >= 0
    BY <2>5 DEF ClockInv
  <2> QED BY <2>7, <2>8, <2>9
<1>3. CASE \E s, u : settimeofday(s, u)
  <2>1. PICK s, u : settimeofday(s, u)
    BY <1>3
  <2>2. /\ wall_clock' = timeval(s, u) /\ set' = [tv |-> timeval(s, u), ticks |-> ticks]
        /\ reading' = [reading EXCEPT !["CLOCK_REALTIME"] = timeval(s, u)]
    BY <2>1 DEF settimeofday
  <2>3. c = "CLOCK_REALTIME" /\ reading'[c] = timeval(s, u)
    BY <1>1, <2>2
  <2>4. Value(c)' = timeval(s, u)
    BY <2>2, <2>3 DEF Value
  <2>5. CASE set' = set
    <3>1. set.tv = timeval(s, u) /\ set.ticks = ticks
      BY <2>2, <2>5
    <3>2. set.tv \in Timeval /\ wall_clock \in Timeval /\ reading[c] \in Timeval /\ ticks \in Nat
      BY <1>1 DEF ClockInv, ClockType
    <3>3. Usecs(set.tv, wall_clock) = 0
      <4>1. (ticks - ticks) * TickUsecs = 0
        BY <3>2, TickBound
      <4>2. Usecs(set.tv, wall_clock) = (ticks - set.ticks) * TickUsecs
        BY DEF ClockInv
      <4> QED BY <3>1, <4>1, <4>2
    <3>4. Usecs(reading[c], wall_clock) >= 0
      BY <2>3 DEF ClockInv, Value
    <3>5. /\ Usecs(reading[c], set.tv) \in Int
          /\ Usecs(reading[c], wall_clock) = Usecs(reading[c], set.tv) + Usecs(set.tv, wall_clock)
      BY <3>2, UsecsSum
    <3>6. Usecs(reading[c], set.tv) >= 0
      BY <3>3, <3>4, <3>5
    <3> QED BY <2>3, <2>4, <3>1, <3>6
  <2> QED BY <2>3, <2>4, <2>5
<1>4. CASE UNCHANGED reading
  BY <1>4
<1>5. read_end \/ (\E s, u : settimeofday(s, u)) \/ UNCHANGED reading
  BY DEF WallNext, Runs, SetsClock, ClockNext, timer_update, read_begin, wallVars, clockVars
<1> QED BY <1>2, <1>3, <1>4, <1>5

\* A reading is never before the one before it, and its two words are those of
\* the clock at the return of the call.
THEOREM ReadingsCorrect == WallSpec => ReadingsAscend
<1> DEFINE A == \A c \in Clocks : reading'[c] # reading[c] =>
                    /\ reading'[c] = Value(c)'
                    /\ set' # set \/ Usecs(reading[c], reading'[c]) >= 0
<1>1. ClockInv /\ [WallNext]_wallVars => [A]_clockVars
  BY ReadingStep, Zenon
<1>2. ReadingsAscend <=> [][A]_clockVars
  BY DEF ReadingsAscend
<1> QED BY <1>1, <1>2, ClockKept, PTL DEF WallSpec

-----------------------------------------------------------------------------
(***************************************************************************)
(* The command date.                                                       *)
(***************************************************************************)
Chain(g, S, f, base, k) ==
    /\ g \in [0..k -> S]
    /\ g = [i \in 0..k |-> IF i = 0 THEN base ELSE f[g[i - 1]]]

\* One day after the other there is a date for each.
LEMMA ChainExists ==
    ASSUME NEW S, NEW f \in [S -> S], NEW base \in S, NEW k \in Nat
    PROVE  \E g : Chain(g, S, f, base, k)
<1> DEFINE A == {m \in Nat : \E g : Chain(g, S, f, base, m)}
<1>1. 0 \in A
  <2> DEFINE g == [i \in 0..0 |-> base]
  <2>1. g \in [0..0 -> S] /\ g = [i \in 0..0 |-> IF i = 0 THEN base ELSE f[g[i - 1]]]
    OBVIOUS
  <2>2. Chain(g, S, f, base, 0)
    BY <2>1 DEF Chain
  <2> QED BY <2>2
<1>2. ASSUME NEW m \in A PROVE m + 1 \in A
  <2>1. PICK g : Chain(g, S, f, base, m)
    OBVIOUS
  <2>2. m \in Nat /\ g \in [0..m -> S] /\ g[m] \in S
    BY <2>1 DEF Chain
  <2> DEFINE h == [i \in 0..(m + 1) |-> IF i <= m THEN g[i] ELSE f[g[m]]]
  <2>3. f[g[m]] \in S
    BY <2>2
  <2>4. h \in [0..(m + 1) -> S]
    BY <2>2, <2>3
  <2>5. ASSUME NEW i \in 0..(m + 1) PROVE h[i] = IF i = 0 THEN base ELSE f[h[i - 1]]
    <3>1. CASE i = 0
      BY <2>1, <2>2, <3>1 DEF Chain
    <3>2. CASE i > 0 /\ i <= m
      <4>1. i - 1 \in 0..m /\ i \in 0..m /\ i - 1 <= m /\ i - 1 \in 0..(m + 1)
        BY <2>2, <3>2
      <4>2. h[i] = g[i] /\ h[i - 1] = g[i - 1]
        BY <3>2, <4>1
      <4>3. g[i] = f[g[i - 1]]
        BY <2>1, <3>2, <4>1 DEF Chain
      <4> QED BY <3>2, <4>2, <4>3
    <3>3. CASE i = m + 1
      BY <2>2, <3>3
    <3> QED BY <2>2, <3>1, <3>2, <3>3
  <2> HIDE DEF h
  <2>6. h = [i \in 0..(m + 1) |-> IF i = 0 THEN base ELSE f[h[i - 1]]]
    BY <2>4, <2>5
  <2>7. Chain(h, S, f, base, m + 1)
    BY <2>4, <2>6 DEF Chain
  <2> QED BY <2>2, <2>7
<1>3. A \in SUBSET Nat
  OBVIOUS
<1>4. k \in A
  <2> HIDE DEF A
  <2> QED BY <1>1, <1>2, <1>3, Induction
<1> QED BY <1>4

\* The dates of the days.
LEMMA DateOnOK ==
    ASSUME CalendarInv, NEW k \in Int, k >= -1, day + k >= 0
    PROVE  DateOK(DateOn(k), day + k)
<1>1. day \in Nat /\ DateOK(date, day)
  BY DEF CalendarInv
<1>2. CASE k < 0
  <2>1. k = -1 /\ day > 0 /\ day + k = day - 1
    BY <1>1, <1>2
  <2>2. DateOn(k) = Yesterday(date)
    BY <1>2 DEF DateOn
  <2>3. DateOK(Yesterday(date), day - 1)
    BY <1>1, <2>1, YesterdayOK
  <2> QED BY <2>1, <2>2, <2>3
<1>3. CASE k >= 0
  <2> DEFINE S == {d \in Dates : \E n \in Nat : DateOK(d, n)}
             f == [d \in S |-> Tomorrow(d)]
             L == CHOOSE g : g = [i \in 0..k |-> IF i = 0 THEN date ELSE Tomorrow(g[i - 1])]
  <2>1. date \in S
    BY <1>1 DEF DateOK
  <2>2. ASSUME NEW d \in S PROVE Tomorrow(d) \in S
    <3>1. PICK n \in Nat : DateOK(d, n)
      OBVIOUS
    <3>2. DateOK(Tomorrow(d), n + 1) /\ n + 1 \in Nat
      BY <3>1, TomorrowOK
    <3> QED BY <3>2 DEF DateOK
  <2>3. f \in [S -> S]
    <3> HIDE DEF S
    <3> QED BY <2>2
  <2>4. PICK g : Chain(g, S, f, date, k)
    <3> HIDE DEF S, f
    <3> QED BY <1>3, <2>1, <2>3, ChainExists
  <2>5. g \in [0..k -> S] /\ g = [i \in 0..k |-> IF i = 0 THEN date ELSE f[g[i - 1]]]
    BY <2>4 DEF Chain
  <2>6. g = [i \in 0..k |-> IF i = 0 THEN date ELSE Tomorrow(g[i - 1])]
    <3>1. ASSUME NEW i \in 0..k, i # 0 PROVE f[g[i - 1]] = Tomorrow(g[i - 1])
      <4>1. i - 1 \in 0..k
        BY <3>1
      <4>2. g[i - 1] \in S
        <5> HIDE DEF S
        <5> QED BY <2>5, <4>1
      <4> HIDE DEF S
      <4> QED BY <4>2
    <3> HIDE DEF f
    <3> QED BY <2>5, <3>1
  <2>7. L = [i \in 0..k |-> IF i = 0 THEN date ELSE Tomorrow(L[i - 1])]
    BY <2>6
  <2>8. DateOn(k) = L[k]
    BY <1>3 DEF DateOn
  <2> HIDE DEF L
  <2> DEFINE A == {i \in Nat : i <= k => DateOK(L[i], day + i)}
  <2>9. 0 \in A
    <3>1. 0 \in 0..k
      BY <1>3
    <3>2. L[0] = date /\ day + 0 = day
      BY <1>1, <2>7, <3>1
    <3> QED BY <1>1, <3>2
  <2>10. ASSUME NEW i \in A PROVE i + 1 \in A
    <3> SUFFICES ASSUME i + 1 <= k PROVE DateOK(L[i + 1], day + (i + 1))
      OBVIOUS
    <3>1. i + 1 \in 0..k /\ i + 1 # 0 /\ (i + 1) - 1 = i /\ i <= k
      OBVIOUS
    <3>2. L[i + 1] = Tomorrow(L[i])
      BY <2>7, <3>1
    <3>3. DateOK(L[i], day + i) /\ day + i \in Nat
      BY <1>1, <3>1
    <3>4. DateOK(Tomorrow(L[i]), (day + i) + 1)
      BY <3>3, TomorrowOK
    <3>5. (day + i) + 1 = day + (i + 1)
      BY <1>1
    <3> QED BY <3>2, <3>4, <3>5
  <2>11. k \in A
    <3>1. A \in SUBSET Nat
      OBVIOUS
    <3> HIDE DEF A
    <3> QED BY <1>3, <2>9, <2>10, <3>1, Induction
  <2> QED BY <2>8, <2>11
<1> QED BY <1>2, <1>3

\* The wall clock is not before the time it was set to, which is a whole number
\* of seconds unless a program has set it to the first day.
SetInv ==
    /\ set.ticks <= ticks /\ ticks <= MaxTicks
    /\ set.tv.tv_sec <= wall_clock.tv_sec
    /\ set.tv.tv_sec = 0 \/ set.tv.tv_usec = 0

\* The seconds never go back.
LEMMA UpdateSec ==
    ASSUME NEW tv \in Timeval
    PROVE  tv.tv_sec <= update_timeval(tv).tv_sec
<1>1. PICK n \in Nat \ {0}, k \in Nat : n = USECS_PER_SEC /\ k = TickUsecs /\ k <= n
  BY TickBound
<1>2. PICK x \in Int, y \in 0..n : tv.tv_sec = x /\ tv.tv_usec = y
  BY <1>1 DEF Timeval
<1>3. (y + k) \div n >= 0 /\ (y + k) \div n \in Int
  BY <1>1
<1>4. update_timeval(tv).tv_sec = x + (y + k) \div n \/ update_timeval(tv).tv_sec = x
  BY <1>1, <1>2 DEF update_timeval, timeval
<1> QED BY <1>2, <1>3, <1>4

\* The wall clock and the time it was set to, at every step.
LEMMA SetKept == WallSpec => []SetInv
<1>1. WallInit => SetInv
  <2> SUFFICES ASSUME WallInit PROVE SetInv
    OBVIOUS
  <2>1. /\ wall_clock = timeval(0, 0) /\ ticks = 0
        /\ set = [tv |-> timeval(0, 0), ticks |-> 0]
    BY DEF WallInit, ClockInit
  <2> QED BY <2>1, ClockAssumption DEF SetInv, timeval
<1>2. ClockInv /\ ClockInv' /\ SetInv /\ [WallNext]_wallVars => SetInv'
  <2> SUFFICES ASSUME ClockInv, ClockInv', SetInv, [WallNext]_wallVars PROVE SetInv'
    OBVIOUS
  <2>0. wall_clock \in Timeval /\ ticks \in Nat /\ set \in [tv : Timeval, ticks : Nat]
        /\ wall_clock' \in Timeval
    BY DEF ClockInv, ClockType
  <2>1. CASE \E t \in Task : timer_update(t)
    <3>1. /\ ticks < MaxTicks /\ ticks' = ticks + 1 /\ wall_clock' = update_timeval(wall_clock)
          /\ set' = set
      BY <2>1 DEF timer_update
    <3>2. wall_clock.tv_sec <= wall_clock'.tv_sec
      BY <2>0, <3>1, UpdateSec
    <3>3. PICK a \in Int, b \in Int, c \in Int, d \in Nat, m \in Int :
              /\ a = set.tv.tv_sec /\ b = wall_clock.tv_sec /\ c = wall_clock'.tv_sec
              /\ d = set.ticks /\ m = MaxTicks
      BY <2>0, ClockAssumption DEF Timeval
    <3>4. a <= c /\ d <= ticks + 1 /\ ticks + 1 <= m
      BY <2>0, <3>1, <3>2, <3>3 DEF SetInv
    <3> QED BY <3>1, <3>3, <3>4 DEF SetInv
  <2>2. CASE \E s, u : settimeofday(s, u) /\ (s = 0 \/ u = 0)
    <3>1. PICK s, u : settimeofday(s, u) /\ (s = 0 \/ u = 0)
      BY <2>2
    <3>2. /\ wall_clock' = timeval(s, u) /\ set' = [tv |-> timeval(s, u), ticks |-> ticks]
          /\ ticks' = ticks
      BY <3>1 DEF settimeofday
    <3>3. PICK x \in Int : x = wall_clock'.tv_sec
      BY <2>0 DEF Timeval
    <3>4. /\ set'.tv.tv_sec = x /\ set'.ticks = ticks
          /\ set'.tv.tv_sec = 0 \/ set'.tv.tv_usec = 0
      BY <3>1, <3>2, <3>3 DEF timeval
    <3>5. ticks <= ticks /\ x <= x
      BY <2>0
    <3> QED BY <3>2, <3>3, <3>4, <3>5 DEF SetInv
  <2>3. CASE UNCHANGED <<wall_clock, set, ticks>>
    BY <2>3 DEF SetInv
  <2>4. \/ \E t \in Task : timer_update(t)
        \/ \E s, u : settimeofday(s, u) /\ (s = 0 \/ u = 0)
        \/ UNCHANGED <<wall_clock, set, ticks>>
    BY DEF WallNext, Runs, SetsClock, ClockNext, read_begin, read_end, wallVars, clockVars
  <2> QED BY <2>1, <2>2, <2>3, <2>4
<1> QED BY <1>1, <1>2, ClockKept, PTL DEF WallSpec

\* The time of the day is the same on every day.
LEMMA TimeOfDay ==
    ASSUME NEW k \in Int, NEW c \in Nat, c < 86400, NEW x \in Int, x = k * 86400 + c
    PROVE  /\ (x \div 3600) % 24 = c \div 3600
           /\ (x \div 60) % 60 = (c \div 60) % 60
           /\ x % 60 = c % 60
<1>1. PICK b \in Nat, e \in 0..59 : c = b * 60 + e
  <2>1. PICK i \in Int, j \in Int : i = c \div 60 /\ j = c % 60
    BY SMT
  <2>2. i >= 0 /\ j \in 0..59 /\ c = i * 60 + j
    BY SMT, <2>1
  <2> QED BY SMT, <2>2
<1>2. PICK h \in Nat, m \in 0..59 : b = h * 60 + m
  <2>1. PICK i \in Int, j \in Int : i = b \div 60 /\ j = b % 60
    BY SMT
  <2>2. i >= 0 /\ j \in 0..59 /\ b = i * 60 + j
    BY SMT, <2>1
  <2> QED BY SMT, <2>2
<1>3. h < 24
  <2>1. c = h * 3600 + m * 60 + e
    BY SMT, <1>1, <1>2
  <2> QED BY SMT, <1>1, <1>2, <2>1
<1>4. PICK a \in Int : a = k * 24 + h
  BY SMT
<1>5. x = a * 3600 + m * 60 + e
  BY SMT, <1>1, <1>2, <1>4
<1>6. x \div 3600 = a /\ c \div 3600 = h
  BY SMT, <1>1, <1>2, <1>3, <1>5
<1>7. a % 24 = h
  BY SMT, <1>3, <1>4
<1>8. PICK d \in Int : d = a * 60 + m
  BY SMT
<1>9. x = d * 60 + e
  BY SMT, <1>5, <1>8
<1>10. x \div 60 = d /\ x % 60 = e
  BY SMT, <1>1, <1>9
<1>11. d % 60 = m /\ b % 60 = m
  BY SMT, <1>2, <1>8
<1>12. c \div 60 = b /\ c % 60 = e
  BY SMT, <1>1
<1> QED BY SMT, <1>6, <1>7, <1>10, <1>11, <1>12

\* The fields of the date and the time.
LEMMA DateAtFields ==
    ASSUME NEW x, NEW k, k = x \div SECS_PER_DAY, NEW d, d = DateOn(k)
    PROVE  DateAt(x) = <<d.y, d.m, d.d, (x \div SECS_PER_HOUR) % 24,
                         (x \div SECS_PER_MIN) % 60, x % SECS_PER_MIN>>
BY Zenon DEF DateAt

\* What date prints.
LEMMA DatePrinted ==
    ASSUME CalendarInv, NEW t \in Nat, NEW x \in Int, x + SECS_PER_DAY >= 0,
           t - CONFIG_TZ * SECS_PER_MIN = day * SECS_PER_DAY + x, day > 0,
           NEW r, r.tv_sec = t
    PROVE  do_date(r) = DateAt(x)
<1>1. SECS_PER_MIN = 60 /\ SECS_PER_HOUR = 3600 /\ SECS_PER_DAY = 86400
  BY SMT DEF SECS_PER_DAY, SECS_PER_HOUR, SECS_PER_MIN
<1>2. PICK k \in Int, c \in Nat : /\ k = x \div SECS_PER_DAY /\ c < 86400
                                  /\ x = k * 86400 + c /\ k >= -1
  <2>1. PICK k \in Int, c \in Int : k = x \div 86400 /\ c = x % 86400
    OBVIOUS
  <2>2. c >= 0 /\ c < 86400 /\ x = k * 86400 + c
    BY SMT, <2>1
  <2>3. k >= -1
    BY SMT, <1>1, <2>2
  <2> QED BY SMT, <1>1, <2>1, <2>2, <2>3
<1>3. PICK n \in Nat : n = day + k
  BY SMT, <1>2 DEF CalendarInv
<1>4. PICK d : d = DateOn(k) /\ DateOK(d, n)
  <2>1. day + k >= 0
    BY SMT, <1>3
  <2>2. DateOK(DateOn(k), day + k)
    BY SMT, <1>2, <2>1, DateOnOK
  <2> QED BY SMT, <1>3, <2>2
<1>5. gmtime_r(n * SECS_PER_DAY + c) = TmOf(d, c)
  BY SMT, <1>1, <1>2, <1>4, GmtimeValue
<1>6. t - CONFIG_TZ * SECS_PER_MIN = n * SECS_PER_DAY + c
  BY SMT, <1>1, <1>2, <1>3 DEF CalendarInv
<1>7. localtime_r(t) = TmOf(d, c)
  BY SMT, <1>5, <1>6 DEF localtime_r
<1>8. PICK y \in Nat, m \in 1..12, e \in 1..31 : d.y = y /\ d.m = m /\ d.d = e
  BY SMT, <1>4 DEF DateOK, Dates
<1>9. /\ (x \div 3600) % 24 = c \div 3600 /\ (x \div 60) % 60 = (c \div 60) % 60
      /\ x % 60 = c % 60
  BY SMT, <1>2, TimeOfDay
<1>10. PICK tm0 : tm0 = localtime_r(r.tv_sec) /\ tm0 = TmOf(d, c)
  BY SMT, <1>7
<1>11. /\ tm0.tm_year + 1900 = y /\ tm0.tm_mon + 1 = m /\ tm0.tm_mday = e
       /\ tm0.tm_hour = c \div 3600 /\ tm0.tm_min = (c \div 60) % 60 /\ tm0.tm_sec = c % 60
  BY SMT, <1>8, <1>10 DEF TmOf
<1>12. do_date(r) = <<y, m, e, c \div 3600, (c \div 60) % 60, c % 60>>
  <2>1. do_date(r) = <<y, m, tm0.tm_mday, tm0.tm_hour, tm0.tm_min, tm0.tm_sec>>
    BY SMT, <1>10, <1>11 DEF do_date
  <2> QED BY SMT, <1>11, <2>1
<1>13. DateAt(x) = <<y, m, e, (x \div 3600) % 24, (x \div 60) % 60, x % 60>>
  <2>1. k = x \div SECS_PER_DAY
    BY SMT, <1>2
  <2>2. d = DateOn(k)
    BY SMT, <1>4
  <2>3. DateAt(x) = <<d.y, d.m, d.d, (x \div SECS_PER_HOUR) % 24,
                      (x \div SECS_PER_MIN) % 60, x % SECS_PER_MIN>>
    BY Zenon, <2>1, <2>2, DateAtFields
  <2> QED BY SMT, <1>1, <1>8, <2>3
<1> QED BY SMT, <1>9, <1>12, <1>13

\* The whole seconds that have passed since the wall clock was set.
LEMMA PassedSeconds ==
    ASSUME NEW a \in Int, NEW b \in Int, a <= b, NEW v \in 0..USECS_PER_SEC,
           NEW n \in Nat, n <= MaxTicks,
           (b - a) * USECS_PER_SEC + v = n * TickUsecs
    PROVE  /\ b - a \in 0..MaxTicks
           /\ (b - a) * USECS_PER_SEC <= n * TickUsecs
           /\ n * TickUsecs <= ((b - a) + 1) * USECS_PER_SEC
<1>1. PICK U \in Nat, T \in Nat, M \in Nat : /\ U = USECS_PER_SEC /\ T = TickUsecs /\ M = MaxTicks
                                            /\ U > 0 /\ T <= U
  BY SMT, TickBound, ClockAssumption
<1>2. PICK s \in Nat : s = b - a
  BY SMT
<1>3. v >= 0 /\ v <= U /\ s * U + v = n * T /\ n <= M
  BY SMT, <1>1, <1>2
<1>4. PICK p \in Int : p = s * U /\ (s + 1) * U = p + U
  BY SMT
<1>5. PICK q \in Int : q = n * T
  BY SMT
<1>6. p <= q /\ q <= p + U
  BY SMT, <1>3, <1>4, <1>5
<1>7. q <= n * U
  <2>1. PICK e \in Nat : e = U - T
    BY SMT, <1>1
  <2>2. n * U = n * T + n * e /\ n * e >= 0
    BY SMT, <2>1
  <2> QED BY SMT, <1>5, <2>2
<1>8. s <= n
  <2> SUFFICES ASSUME s > n PROVE FALSE
    BY SMT
  <2>1. PICK e \in Nat : s = n + 1 + e
    BY SMT
  <2>2. p = n * U + U + e * U /\ e * U >= 0
    BY SMT, <1>4, <2>1
  <2> QED BY SMT, <1>1, <1>6, <1>7, <2>2
<1>9. s \in 0..M
  BY SMT, <1>3, <1>8
<1> QED BY SMT, <1>1, <1>2, <1>4, <1>5, <1>6, <1>9

\* A reading of the wall clock is made of the ticks up to now.
LEMMA WallReading ==
    ASSUME ClockInv, ClockInv', SetInv, SetInv', [WallNext]_wallVars,
           reading'["CLOCK_REALTIME"] # reading["CLOCK_REALTIME"], set' = set
    PROVE  LET r == reading'["CLOCK_REALTIME"]
           IN  /\ r \in Timeval /\ set.tv \in Timeval
               /\ set.tv.tv_sec <= r.tv_sec
               /\ Usecs(set.tv, r) = (ticks - set.ticks) * TickUsecs
               /\ ticks - set.ticks \in Nat /\ ticks - set.ticks <= MaxTicks
<1>1. "CLOCK_REALTIME" \in Clocks
  BY DEF Clocks
<1>2. reading'["CLOCK_REALTIME"] = wall_clock'
  <2>1. reading'["CLOCK_REALTIME"] = Value("CLOCK_REALTIME")'
    BY Zenon, <1>1, ReadingStep
  <2> QED BY <2>1 DEF Value
<1>3. wall_clock' \in Timeval /\ set \in [tv : Timeval, ticks : Nat] /\ ticks \in Nat
  BY DEF ClockInv, ClockType
<1>4. ticks' = ticks
  BY <1>1 DEF WallNext, Runs, SetsClock, ClockNext, timer_update, read_begin, read_end,
              settimeofday, wallVars, clockVars
<1>5. set.tv.tv_sec <= wall_clock'.tv_sec
  BY DEF SetInv
<1>6. Usecs(set.tv, wall_clock') = (ticks - set.ticks) * TickUsecs
  BY <1>4 DEF ClockInv, Usecs
<1>7. ticks - set.ticks \in Nat /\ ticks - set.ticks <= MaxTicks
  BY <1>3, ClockAssumption DEF SetInv
<1> QED BY <1>2, <1>3, <1>5, <1>6, <1>7

\* The time that the wall clock is set to when the machine boots.
LEMMA BootTime ==
    ASSUME CalendarInv, CmosInv, tv_sec # -1
    PROVE  /\ day \in Nat /\ day > 0 /\ tv_sec \in Nat /\ tv_sec > 0
           /\ tv_sec >= day * SECS_PER_DAY
<1>1. at = 15
  BY DEF CmosInv
<1>2. PICK k \in began..updates : tv_sec = day * SECS_PER_DAY + start + k
  BY <1>1 DEF CmosInv
<1>3. k \in Nat /\ start \in Nat /\ day \in BootDays
  BY <1>1, CmosAssumption DEF CmosInv, CmosType
<1>4. day \in Nat /\ day > 0
  BY <1>3, CmosAssumption DEF CalendarInv
<1>5. SECS_PER_DAY = 86400
  BY SMT DEF SECS_PER_DAY, SECS_PER_HOUR, SECS_PER_MIN
<1> QED BY SMT, <1>2, <1>3, <1>4, <1>5

\* What date shows of a reading of the wall clock, before it is set again.
LEMMA DateStep ==
    ASSUME CalendarInv, CmosInv, ClockInv, ClockInv', SetInv, SetInv', [WallNext]_wallVars,
           NEW r, r = reading'["CLOCK_REALTIME"], r # reading["CLOCK_REALTIME"],
           set.tv.tv_sec = tv_sec, tv_sec # -1, set' = set
    PROVE  \E s \in 0..MaxTicks :
               /\ s * USECS_PER_SEC <= (ticks - set.ticks) * TickUsecs
               /\ (ticks - set.ticks) * TickUsecs <= (s + 1) * USECS_PER_SEC
               /\ do_date(r) = DateAt(tv_sec - day * SECS_PER_DAY - CONFIG_TZ * 60 + s)
<1>1. /\ r \in Timeval /\ set.tv \in Timeval
      /\ set.tv.tv_sec <= r.tv_sec
      /\ Usecs(set.tv, r) = (ticks - set.ticks) * TickUsecs
      /\ ticks - set.ticks \in Nat /\ ticks - set.ticks <= MaxTicks
  BY WallReading
<1>2. /\ day \in Nat /\ day > 0 /\ tv_sec \in Nat /\ tv_sec > 0
      /\ tv_sec >= day * SECS_PER_DAY
  BY BootTime
<1>3. PICK n \in Nat : n = ticks - set.ticks /\ n <= MaxTicks
  BY <1>1
<1>4. PICK b \in Nat, v \in 0..USECS_PER_SEC : b = r.tv_sec /\ v = r.tv_usec /\ tv_sec <= b
  BY <1>1, <1>2 DEF Timeval
<1>5. (b - tv_sec) * USECS_PER_SEC + v = n * TickUsecs
  <2>1. set.tv.tv_usec = 0
    BY <1>2 DEF SetInv
  <2>2. v - 0 = v
    BY TickBound
  <2> QED BY <1>1, <1>3, <1>4, <2>1, <2>2 DEF Usecs
<1>6. PICK a \in Int : a = tv_sec /\ a <= b /\ a > 0
  BY SMT, <1>2, <1>4
<1>7. /\ b - a \in 0..MaxTicks
      /\ (b - a) * USECS_PER_SEC <= n * TickUsecs
      /\ n * TickUsecs <= ((b - a) + 1) * USECS_PER_SEC
  <2>1. b \in Int
    BY SMT
  <2>2. (b - a) * USECS_PER_SEC + v = n * TickUsecs
    BY Zenon, <1>5, <1>6
  <2> QED BY Zenon, <1>3, <1>4, <1>6, <2>1, <2>2, PassedSeconds
<1>8. PICK z \in Int, c \in Int : /\ z = CONFIG_TZ /\ c = day * SECS_PER_DAY /\ a - c >= 0
                                 /\ z <= 1439 /\ -1439 <= z
  <2>1. CONFIG_TZ \in -1439..1439
    BY SMT, CalendarAssumption
  <2>2. SECS_PER_DAY = 86400
    BY SMT DEF SECS_PER_DAY, SECS_PER_HOUR, SECS_PER_MIN
  <2>3. PICK c \in Int : c = day * SECS_PER_DAY
    BY SMT, <1>2, <2>2
  <2>4. a - c >= 0
    BY SMT, <1>2, <1>6, <2>2, <2>3
  <2>5. PICK z \in Int : z = CONFIG_TZ /\ z <= 1439 /\ -1439 <= z
    BY SMT, <2>1
  <2> QED BY SMT, <2>3, <2>4, <2>5
<1>9. PICK x \in Int : x = a - c - z * 60 + (b - a)
  BY SMT
<1>10. x = tv_sec - day * SECS_PER_DAY - CONFIG_TZ * 60 + (b - a)
  BY SMT, <1>6, <1>8, <1>9
<1>11. x + SECS_PER_DAY >= 0
  BY SMT, <1>6, <1>8, <1>9 DEF SECS_PER_DAY, SECS_PER_HOUR, SECS_PER_MIN
<1>12. b - CONFIG_TZ * SECS_PER_MIN = day * SECS_PER_DAY + x
  BY SMT, <1>8, <1>9 DEF SECS_PER_MIN
<1>13. do_date(r) = DateAt(x)
  BY SMT, <1>2, <1>4, <1>11, <1>12, DatePrinted
<1> QED BY SMT, <1>3, <1>7, <1>10, <1>13

\* What date prints is the local date and time of the chip at the boot and the
\* ticks since, on whatever day that is: across midnight, the end of the month
\* and of the year, and the leap days.
THEOREM DateShownHolds == WallSpec => DateShown
<1> DEFINE A == \A r \in {reading'["CLOCK_REALTIME"]} \ {reading["CLOCK_REALTIME"]} :
          set.tv.tv_sec = tv_sec /\ tv_sec # -1 /\ UNCHANGED set =>
              LET passed == (ticks - set.ticks) * TickUsecs
                  s0 == tv_sec - day * SECS_PER_DAY - CONFIG_TZ * 60
              IN  \E s \in 0..MaxTicks :
                      /\ s * USECS_PER_SEC <= passed /\ passed <= (s + 1) * USECS_PER_SEC
                      /\ do_date(r) = DateAt(s0 + s)
<1>1. CalendarInv /\ CmosInv /\ ClockInv /\ ClockInv' /\ SetInv /\ SetInv' /\ [WallNext]_wallVars
          => [A]_wallVars
  <2> SUFFICES ASSUME CalendarInv, CmosInv, ClockInv, ClockInv', SetInv, SetInv', [WallNext]_wallVars
               PROVE  A
    OBVIOUS
  <2> SUFFICES ASSUME NEW r \in {reading'["CLOCK_REALTIME"]} \ {reading["CLOCK_REALTIME"]},
                      set.tv.tv_sec = tv_sec, tv_sec # -1, set' = set
               PROVE  \E s \in 0..MaxTicks :
                          /\ s * USECS_PER_SEC <= (ticks - set.ticks) * TickUsecs
                          /\ (ticks - set.ticks) * TickUsecs <= (s + 1) * USECS_PER_SEC
                          /\ do_date(r) = DateAt(tv_sec - day * SECS_PER_DAY - CONFIG_TZ * 60 + s)
    OBVIOUS
  <2>1. r = reading'["CLOCK_REALTIME"] /\ r # reading["CLOCK_REALTIME"]
    OBVIOUS
  <2> QED BY <2>1, DateStep
<1>2. DateShown <=> [][A]_wallVars
  BY DEF DateShown
<1> QED BY <1>1, <1>2, CalendarKept, CmosKept, ClockKept, SetKept, PTL DEF WallSpec
=============================================================================
