--------------------------- MODULE DailyCronProofs ---------------------------
(***************************************************************************)
(* Theorems about the daily cron, for any number of overlapping runs, any  *)
(* categories, goals and items, and any dates of the years 2000 to 2098.   *)
(***************************************************************************)
EXTENDS DailyCron, TLAPS

-----------------------------------------------------------------------------
(***************************************************************************)
(* The calendar.                                                           *)
(***************************************************************************)

\* A week starts on the Monday six days ago at most.
LEMMA WeekStartFacts ==
  ASSUME NEW n \in Int
  PROVE  /\ WeekStart(n) \in Int /\ WeekStart(n) <= n /\ n <= WeekStart(n) + 6
         /\ DaysFromMonday(WeekStart(n)) = 0
BY DEF WeekStart, DaysFromMonday

\* Weeks do not go back, and two neighbouring days are at most a week apart.
LEMMA WeekStartOrder ==
  ASSUME NEW m \in Int, NEW n \in Int, m <= n
  PROVE  /\ WeekStart(m) <= WeekStart(n)
         /\ n <= m + 1 => WeekStart(n) - 7 <= WeekStart(m)
BY DEF WeekStart, DaysFromMonday

LEMMA DaysBeforeTable ==
  /\ DaysBefore[1] = 0 /\ DaysBefore[2] = 31 /\ DaysBefore[3] = 59
  /\ DaysBefore[4] = 90 /\ DaysBefore[5] = 120 /\ DaysBefore[6] = 151
  /\ DaysBefore[7] = 181 /\ DaysBefore[8] = 212 /\ DaysBefore[9] = 243
  /\ DaysBefore[10] = 273 /\ DaysBefore[11] = 304 /\ DaysBefore[12] = 334
BY DEF DaysBefore

Years == 1999..2099

LeapDay(y) == IF Leap(y) THEN 1 ELSE 0

LEMMA LeapDaysFacts ==
  ASSUME NEW y \in 1999..2101
  PROVE  /\ LeapDays(y) \in 0..26
         /\ LeapDays(y) <= IF y < 2000 THEN 0 ELSE y - 2000
BY DEF LeapDays

LEMMA LeapDaysNext ==
  ASSUME NEW y \in Years
  PROVE  LeapDays(y + 1) = LeapDays(y) + LeapDay(y)
BY DEF LeapDays, Leap, LeapDay, Years

\* A year is as long as its days, and years do not overlap.
LEMMA YearLength ==
  ASSUME NEW y \in Years
  PROVE  /\ FromYmd(y, 1, 1) \in Int
         /\ FromYmd(y + 1, 1, 1) = FromYmd(y, 1, 1) + 365 + LeapDay(y)
         /\ FromYmd(y, 1, 1) = 365 * (y - 2000) + LeapDays(y)
<1>1. FromYmd(y, 1, 1) = 365 * (y - 2000) + LeapDays(y)
  BY DaysBeforeTable, LeapDaysFacts DEF FromYmd, Years
<1>2. FromYmd(y + 1, 1, 1) = 365 * (y + 1 - 2000) + LeapDays(y + 1)
  <2>1. LeapDays(y + 1) \in Int
    BY LeapDaysFacts DEF Years
  <2> QED
    BY <2>1, DaysBeforeTable DEF FromYmd, Years
<1>3. LeapDays(y) \in Int /\ LeapDay(y) \in Int /\ LeapDays(y + 1) = LeapDays(y) + LeapDay(y)
  BY LeapDaysFacts, LeapDaysNext DEF Years, LeapDay
<1> QED
  BY <1>1, <1>2, <1>3 DEF Years

\* In(n, y): day n is one of year y.
In(n, y) == FromYmd(y, 1, 1) <= n /\ n < FromYmd(y + 1, 1, 1)

LEMMA YearsApart ==
  ASSUME NEW y \in Years, NEW z \in Years, NEW n \in Int, In(n, y), In(n, z)
  PROVE  y = z
<1>1. ASSUME NEW u \in Years, NEW v \in Years, u < v
      PROVE  FromYmd(u + 1, 1, 1) <= FromYmd(v, 1, 1)
  <2>1. /\ FromYmd(u, 1, 1) = 365 * (u - 2000) + LeapDays(u)
        /\ FromYmd(v, 1, 1) = 365 * (v - 2000) + LeapDays(v)
        /\ FromYmd(u + 1, 1, 1) = FromYmd(u, 1, 1) + 365 + LeapDay(u)
    BY YearLength
  <2>2. LeapDays(u) \in 0..26 /\ LeapDays(v) \in 0..26 /\ LeapDay(u) \in 0..1
    BY LeapDaysFacts DEF Years, LeapDay
  <2>3. CASE v = u + 1
    BY <2>1, <2>2, <2>3 DEF Years
  <2>4. CASE v >= u + 2
    BY <2>1, <2>2, <2>4 DEF Years
  <2> QED
    BY <1>1, <2>3, <2>4 DEF Years
<1>2. /\ FromYmd(y, 1, 1) \in Int /\ FromYmd(y + 1, 1, 1) \in Int
      /\ FromYmd(z, 1, 1) \in Int /\ FromYmd(z + 1, 1, 1) \in Int
  BY YearLength DEF LeapDay
<1>3. ~(y < z) /\ ~(z < y)
  BY <1>1, <1>2 DEF In
<1> QED
  BY <1>3 DEF Years

\* Year finds the year of a day.
LEMMA YearFound ==
  ASSUME NEW y \in Years, NEW n \in Int, In(n, y)
  PROVE  Year(n) = y
<1> DEFINE least == 2000 + n \div 366
<1>1. /\ FromYmd(y, 1, 1) = 365 * (y - 2000) + LeapDays(y)
      /\ FromYmd(y + 1, 1, 1) = FromYmd(y, 1, 1) + 365 + LeapDay(y)
  BY YearLength
<1>2. LeapDays(y) \in 0..26 /\ LeapDay(y) \in 0..1
      /\ LeapDays(y) <= IF y < 2000 THEN 0 ELSE y - 2000
  BY LeapDaysFacts DEF Years, LeapDay
<1>3. y = 1999 => LeapDay(y) = 0
  BY DEF LeapDay, Leap
<1>4. n \div 366 \in Int /\ 366 * (n \div 366) <= n /\ n < 366 * (n \div 366) + 366
  OBVIOUS
<1>5. least \in 1999..2099 /\ y \in least..(least + 1)
  BY <1>1, <1>2, <1>3, <1>4 DEF In, Years
<1>6. \A z \in least..(least + 1) : In(n, z) => z = y
  <2> SUFFICES ASSUME NEW z \in least..(least + 1), In(n, z) PROVE z = y
    OBVIOUS
  <2>1. CASE z \in Years
    BY <2>1, YearsApart
  <2>2. CASE z = 2100
    <3>1. FromYmd(2100, 1, 1) = 36525
      BY YearLength, DaysBeforeTable DEF FromYmd, LeapDays, Leap
    <3>2. y = 2099
      BY <1>5, <2>2 DEF Years
    <3>3. n < 36525
      BY <3>1, <3>2 DEF In
    <3> QED
      BY <2>2, <3>1, <3>3 DEF In
  <2> QED
    BY <1>5, <2>1, <2>2 DEF Years
<1> QED
  BY <1>5, <1>6 DEF Year, In

\* The day after the last of month m of year y.
After(y, m) == IF m = 12 THEN FromYmd(y + 1, 1, 1) ELSE FromYmd(y, m + 1, 1)

\* The days of a month are numbered one after another.
LEMMA MonthDays ==
  ASSUME NEW y \in Years, NEW m \in Months, NEW d \in Int
  PROVE  /\ FromYmd(y, m, 1) \in Int
         /\ FromYmd(y, m, d) = FromYmd(y, m, 1) + d - 1
<1>1. LeapDays(y) \in Int
  BY LeapDaysFacts DEF Years
<1>2. DaysBefore[m] \in Int
  BY DaysBeforeTable DEF Months
<1> QED
  BY <1>1, <1>2 DEF FromYmd, Years

\* Where a month starts in its year.
LEMMA MonthStart ==
  ASSUME NEW y \in Years, NEW m \in Months
  PROVE  FromYmd(y, m, 1) = FromYmd(y, 1, 1) + DaysBefore[m] + IF m > 2 THEN LeapDay(y) ELSE 0
<1>1. LeapDays(y) \in Int
  BY LeapDaysFacts DEF Years
<1>2. DaysBefore[m] \in Int /\ DaysBefore[1] = 0
  BY DaysBeforeTable DEF Months
<1> QED
  BY <1>1, <1>2 DEF FromYmd, Years, LeapDay, Months

\* A month has 28 to 31 days, and December 31.
LEMMA MonthLength ==
  ASSUME NEW y \in Years, NEW m \in Months
  PROVE  /\ After(y, m) \in Int
         /\ After(y, m) - FromYmd(y, m, 1) \in 28..31
         /\ m = 12 => FromYmd(y, 12, 31) = After(y, m) - 1
<1>1. /\ FromYmd(y, 1, 1) \in Int /\ LeapDay(y) \in 0..1
      /\ FromYmd(y + 1, 1, 1) = FromYmd(y, 1, 1) + 365 + LeapDay(y)
  BY YearLength DEF LeapDay
<1>2. CASE m = 12
  <2>1. FromYmd(y, 12, 1) = FromYmd(y, 1, 1) + 334 + LeapDay(y)
    BY <1>2, MonthStart, DaysBeforeTable
  <2>2. FromYmd(y, 12, 31) = FromYmd(y, 12, 1) + 30
    BY <1>2, MonthDays
  <2> QED
    BY <1>1, <1>2, <2>1, <2>2 DEF After
<1>3. CASE m # 12
  <2>1. m + 1 \in Months /\ m \in 1..11
    BY <1>3 DEF Months
  <2>2. /\ FromYmd(y, m + 1, 1) = FromYmd(y, 1, 1) + DaysBefore[m + 1]
                                    + IF m + 1 > 2 THEN LeapDay(y) ELSE 0
        /\ FromYmd(y, m, 1) = FromYmd(y, 1, 1) + DaysBefore[m] + IF m > 2 THEN LeapDay(y) ELSE 0
    BY <2>1, MonthStart
  <2>3. DaysBefore[m] \in Int /\ DaysBefore[m + 1] \in Int
    BY <2>1, DaysBeforeTable DEF Months
  <2>4. /\ DaysBefore[m + 1] - DaysBefore[m] \in 28..31
        /\ m = 2 => DaysBefore[m + 1] - DaysBefore[m] = 28
    BY <2>1, DaysBeforeTable
  <2> QED
    BY <1>1, <1>3, <2>1, <2>2, <2>3, <2>4 DEF After
<1> QED
  BY <1>2, <1>3

\* The day is one of month m of year y.
InMonth(n, y, m) == FromYmd(y, m, 1) <= n /\ n < After(y, m)

\* Months lie in their year, one after another.
LEMMA MonthsApart ==
  ASSUME NEW y \in Years, NEW k \in Months, NEW m \in Months, k < m
  PROVE  After(y, k) <= FromYmd(y, m, 1)
<1>1. FromYmd(y, 1, 1) \in Int /\ LeapDay(y) \in 0..1
  BY YearLength DEF LeapDay
<1>2. k + 1 \in Months /\ After(y, k) = FromYmd(y, k + 1, 1)
  BY DEF After, Months
<1>3. DaysBefore[k + 1] <= DaysBefore[m] /\ DaysBefore[k + 1] \in Int /\ DaysBefore[m] \in Int
  BY <1>2, DaysBeforeTable DEF Months
<1>4. /\ FromYmd(y, k + 1, 1) = FromYmd(y, 1, 1) + DaysBefore[k + 1]
                                  + IF k + 1 > 2 THEN LeapDay(y) ELSE 0
      /\ FromYmd(y, m, 1) = FromYmd(y, 1, 1) + DaysBefore[m] + IF m > 2 THEN LeapDay(y) ELSE 0
  BY <1>2, MonthStart
<1> QED
  BY <1>1, <1>2, <1>3, <1>4 DEF Months

LEMMA MonthInYear ==
  ASSUME NEW y \in Years, NEW m \in Months
  PROVE  FromYmd(y, 1, 1) <= FromYmd(y, m, 1) /\ After(y, m) <= FromYmd(y + 1, 1, 1)
<1>1. /\ FromYmd(y, 1, 1) \in Int /\ LeapDay(y) \in 0..1
      /\ FromYmd(y + 1, 1, 1) = FromYmd(y, 1, 1) + 365 + LeapDay(y)
  BY YearLength DEF LeapDay
<1>2. /\ FromYmd(y, m, 1) = FromYmd(y, 1, 1) + DaysBefore[m] + IF m > 2 THEN LeapDay(y) ELSE 0
      /\ DaysBefore[m] \in 0..334
  BY MonthStart, DaysBeforeTable DEF Months
<1>3. CASE m = 12
  BY <1>1, <1>2, <1>3 DEF After
<1>4. CASE m # 12
  <2>1. After(y, m) <= FromYmd(y, 12, 1)
    BY <1>4, MonthsApart DEF Months
  <2>2. FromYmd(y, 12, 1) = FromYmd(y, 1, 1) + 334 + LeapDay(y)
    BY MonthStart, DaysBeforeTable DEF Months
  <2>3. After(y, m) \in Int
    BY MonthLength
  <2> QED
    BY <1>1, <1>2, <2>1, <2>2, <2>3
<1> QED
  BY <1>3, <1>4

\* Year and Month find the month of a day.
LEMMA MonthFound ==
  ASSUME NEW y \in Years, NEW m \in Months, NEW n \in Int, InMonth(n, y, m)
  PROVE  Year(n) = y /\ Month(n) = m
<1>1. /\ FromYmd(y, 1, 1) \in Int /\ FromYmd(y + 1, 1, 1) \in Int
      /\ \A k \in Months : FromYmd(y, k, 1) \in Int /\ After(y, k) \in Int
  BY YearLength, MonthDays, MonthLength DEF LeapDay
<1>2. Year(n) = y
  <2>1. In(n, y)
    BY <1>1, MonthInYear DEF In, InMonth
  <2> QED
    BY <2>1, YearFound
<1> DEFINE Fits(k) == FromYmd(y, k, 1) <= n /\ (k < 12 => n < FromYmd(y, k + 1, 1))
<1>3. Fits(m)
  BY DEF InMonth, After, Months
<1>4. \A k \in Months : Fits(k) => k = m
  <2> SUFFICES ASSUME NEW k \in Months, Fits(k), k # m PROVE FALSE
    OBVIOUS
  <2>1. CASE k < m
    BY <1>1, <2>1, MonthsApart DEF InMonth, After, Months
  <2>2. CASE m < k
    BY <1>1, <2>2, MonthsApart DEF InMonth
  <2> QED
    BY <2>1, <2>2 DEF Months
<1> QED
  BY <1>2, <1>3, <1>4 DEF Month

\* Every day from December 1999 to 2098 has its month.
LEMMA MonthExists ==
  ASSUME NEW n \in Int, -31 <= n, n <= 36150
  PROVE  \E y \in 1999..2098, m \in Months : InMonth(n, y, m)
<1> DEFINE k == n \div 366
<1>1. /\ k \in Int /\ -1 <= k /\ k <= 98
      /\ 366 * k <= n /\ n < 366 * k + 366
  OBVIOUS
<1>2. \E y \in 1999..2098 : In(n, y)
  <2> HIDE DEF k
  <2> DEFINE y == 2000 + k
  <2>1. y \in Years /\ y + 1 \in Years /\ y \in 1999..2098
    BY <1>1 DEF Years
  <2>2. /\ FromYmd(y, 1, 1) = 365 * (y - 2000) + LeapDays(y)
        /\ FromYmd(y + 1, 1, 1) = 365 * (y + 1 - 2000) + LeapDays(y + 1)
        /\ FromYmd(y + 2, 1, 1) = FromYmd(y + 1, 1, 1) + 365 + LeapDay(y + 1)
    <3>1. FromYmd(y + 1 + 1, 1, 1) = FromYmd(y + 1, 1, 1) + 365 + LeapDay(y + 1)
      BY <2>1, YearLength
    <3>2. y + 1 + 1 = y + 2
      BY <2>1
    <3> QED
      BY <2>1, <3>1, <3>2, YearLength
  <2>3. /\ LeapDays(y) \in 0..26 /\ LeapDays(y + 1) \in 0..26 /\ LeapDay(y + 1) \in 0..1
        /\ LeapDays(y) <= IF y < 2000 THEN 0 ELSE y - 2000
    BY <2>1, LeapDaysFacts DEF Years, LeapDay
  <2> HIDE DEF y
  <2>4. FromYmd(y, 1, 1) <= n /\ n < FromYmd(y + 2, 1, 1)
    <3>1. k = y - 2000
      BY <1>1 DEF y
    <3> QED
      BY <1>1, <2>1, <2>2, <2>3, <3>1
  <2>5. CASE n < FromYmd(y + 1, 1, 1)
    BY <2>1, <2>4, <2>5 DEF In
  <2>6. CASE ~(n < FromYmd(y + 1, 1, 1))
    <3>1. In(n, y + 1)
      BY <2>1, <2>2, <2>3, <2>4, <2>6 DEF In
    <3>2. y + 1 # 2099
      <4>1. FromYmd(2099, 1, 1) = 36160
        BY DaysBeforeTable DEF FromYmd, LeapDays, Leap
      <4>2. ~In(n, 2099)
        BY <4>1 DEF In
      <4> QED
        BY <3>1, <4>2
    <3> QED
      BY <2>1, <3>1, <3>2
  <2> QED
    BY <2>5, <2>6
<1>3. PICK y \in 1999..2098 : In(n, y)
  BY <1>2
<1>4. y \in Years /\ FromYmd(y, 1, 1) \in Int
  BY YearLength DEF Years
<1>5. SUFFICES ASSUME \A m \in Months : ~InMonth(n, y, m) PROVE FALSE
  BY <1>3
<1>6. \A m \in 1..11 : FromYmd(y, m, 1) <= n => FromYmd(y, m + 1, 1) <= n
  <2> SUFFICES ASSUME NEW m \in 1..11, FromYmd(y, m, 1) <= n PROVE FromYmd(y, m + 1, 1) <= n
    OBVIOUS
  <2>1. m \in Months /\ m + 1 \in Months
    BY DEF Months
  <2>2. FromYmd(y, m + 1, 1) \in Int
    BY <1>4, <2>1, MonthDays
  <2>3. ~(n < FromYmd(y, m + 1, 1))
    BY <1>5, <2>1 DEF InMonth, After
  <2> QED
    BY <2>2, <2>3
<1>7. FromYmd(y, 12, 1) <= n
  BY <1>3, <1>6 DEF In
<1> QED
  BY <1>3, <1>5, <1>7 DEF In, InMonth, After, Months

\* month_bounds and days_in_local_month are those of the month.
LEMMA BoundsFound ==
  ASSUME NEW y \in Years, NEW m \in Months, NEW n \in Int, InMonth(n, y, m)
  PROVE  /\ MonthBounds(n) = <<FromYmd(y, m, 1), After(y, m) - 1>>
         /\ DaysInMonth(n) = After(y, m) - FromYmd(y, m, 1)
<1>1. Year(n) = y /\ Month(n) = m
  BY MonthFound
<1>2. /\ FromYmd(y, m, 1) \in Int /\ After(y, m) \in Int
      /\ After(y, m) - FromYmd(y, m, 1) \in 28..31
  BY MonthDays, MonthLength
<1>3. MonthBounds(n) = <<FromYmd(y, m, 1), After(y, m) - 1>>
  BY <1>1, MonthLength DEF MonthBounds, After
<1>4. InMonth(After(y, m) - 1, y, m)
  BY <1>2 DEF InMonth
<1>5. Year(After(y, m) - 1) = y /\ Month(After(y, m) - 1) = m
  BY <1>2, <1>4, MonthFound
<1> QED
  BY <1>2, <1>3, <1>5 DEF DaysInMonth, Day

\* The month's due date is its day, or the last of a shorter month.
LEMMA MonthlyDue ==
  ASSUME NEW y \in Years, NEW m \in Months, NEW n \in Int, InMonth(n, y, m),
         NEW s, s.cadence = "monthly", s.day \in 1..31
  PROVE  DueDate(s, n) \in FromYmd(y, m, 1)..(After(y, m) - 1)
<1> DEFINE k == DaysInMonth(n)
           d == IF s.day < k THEN s.day ELSE k
<1>1. Year(n) = y /\ Month(n) = m /\ k = After(y, m) - FromYmd(y, m, 1)
  BY MonthFound, BoundsFound
<1>2. /\ FromYmd(y, m, 1) \in Int /\ After(y, m) \in Int /\ k \in 28..31
  BY <1>1, MonthDays, MonthLength
<1>3. DueDate(s, n) = FromYmd(y, m, d)
  BY <1>1 DEF DueDate
<1> HIDE DEF k
<1>4. d \in 1..k
  BY <1>2
<1>5. FromYmd(y, m, d) = FromYmd(y, m, 1) + d - 1
  BY <1>2, <1>4, MonthDays
<1> QED
  BY <1>1, <1>2, <1>3, <1>4, <1>5

\* The week's due date is the weekday asked for.
LEMMA WeeklyDue ==
  ASSUME NEW n \in Int, NEW s, s.cadence = "weekly", s.day \in 0..6
  PROVE  /\ DueDate(s, n) \in WeekStart(n)..(WeekStart(n) + 6)
         /\ DaysFromSunday(DueDate(s, n)) = s.day
<1> DEFINE w == WeekStart(n)
           k == s.day
<1>1. w \in Int /\ (w + 5) % 7 = 0
  BY WeekStartFacts DEF DaysFromMonday
<1>2. DueDate(s, n) = w + ((k + 6) % 7)
  BY DEF DueDate
<1> HIDE DEF w, k
<1>3. k \in 0..6
  BY DEF k
<1>4. w + ((k + 6) % 7) \in w..(w + 6)
  BY <1>1, <1>3
<1>5. (w + ((k + 6) % 7) + 6) % 7 = k
  BY <1>1, <1>3
<1> QED
  BY <1>2, <1>4, <1>5 DEF DaysFromSunday, w, k

\* The dates of the model have their month.
LEMMA DayInMonth ==
  ASSUME NEW d \in Days
  PROVE  \E y \in Years, m \in Months : InMonth(d, y, m)
<1>1. d \in Nat /\ d <= 36000
  BY CronAssumption
<1>2. \E y \in 1999..2098, m \in Months : InMonth(d, y, m)
  BY <1>1, MonthExists
<1> QED
  BY <1>2 DEF Years

\* A due date is a date.
LEMMA DueDateType ==
  ASSUME NEW s \in Schedule, NEW d \in Days
  PROVE  DueDate(s, d) \in Int
<1>1. CASE s.cadence = "monthly"
  <2>1. s.day \in 1..31
    BY <1>1 DEF Schedule
  <2>2. PICK y \in Years, m \in Months : InMonth(d, y, m)
    BY DayInMonth
  <2>3. d \in Int
    BY CronAssumption
  <2>4. DueDate(s, d) \in FromYmd(y, m, 1)..(After(y, m) - 1)
    BY <1>1, <2>1, <2>2, <2>3, MonthlyDue
  <2>5. FromYmd(y, m, 1) \in Int /\ After(y, m) \in Int
    BY MonthDays, MonthLength
  <2> QED
    BY <2>4, <2>5
<1>2. CASE s.cadence = "weekly"
  <2>1. s.day \in 0..6
    BY <1>2 DEF Schedule
  <2>2. d \in Int
    BY CronAssumption
  <2>3. DueDate(s, d) \in WeekStart(d)..(WeekStart(d) + 6)
    BY <1>2, <2>1, <2>2, WeeklyDue
  <2> QED
    BY <2>2, <2>3, WeekStartFacts
<1> QED
  BY <1>1, <1>2 DEF Schedule

\* Every date is sound.
LEMMA AllSound == SoundDays = Days
<1> SUFFICES ASSUME NEW d \in Days PROVE d \in SoundDays
  BY DEF SoundDays
<1>1. d \in Nat /\ d <= 36000
  BY CronAssumption
<1>2. PICK y \in 1999..2098, m \in Months : InMonth(d, y, m)
  BY <1>1, MonthExists
<1> DEFINE first == FromYmd(y, m, 1)
           after == After(y, m)
<1>3. /\ y \in Years /\ y + 1 \in Years
      /\ first \in Int /\ after \in Int /\ after - first \in 28..31
  <2>1. y \in Years /\ y + 1 \in Years
    BY DEF Years
  <2> QED
    BY <2>1, MonthDays, MonthLength
<1>4. MonthBounds(d) = <<first, after - 1>>
  BY <1>1, <1>2, <1>3, BoundsFound
<1>5. first <= d /\ d <= after - 1
  BY <1>1, <1>2, <1>3 DEF InMonth
<1>6. MonthBounds(after)[1] = after
  <2>1. CASE m = 12
    <3>1. after = FromYmd(y + 1, 1, 1) /\ 1 \in Months
      BY <2>1 DEF After, Months
    <3>2. InMonth(after, y + 1, 1)
      BY <1>3, <3>1, MonthLength DEF InMonth
    <3> QED
      BY <1>3, <3>1, <3>2, BoundsFound
  <2>2. CASE m # 12
    <3>1. after = FromYmd(y, m + 1, 1) /\ m + 1 \in Months
      BY <2>2 DEF After, Months
    <3>2. InMonth(after, y, m + 1)
      BY <1>3, <3>1, MonthLength DEF InMonth
    <3> QED
      BY <1>3, <3>1, <3>2, BoundsFound
  <2> QED
    BY <2>1, <2>2
<1>7. MonthBounds(PrevMonthAnchor(d))[2] = first - 1
  <2>0. Year(d) = y /\ Month(d) = m
    BY <1>1, <1>2, <1>3, MonthFound
  <2>1. CASE m = 1
    <3>1. y # 1999
      <4>1. FromYmd(2000, 1, 1) = 0
        BY DaysBeforeTable DEF FromYmd, LeapDays, Leap
      <4>2. 1999 \in Years /\ 1 \in Months /\ 12 \in Months
        BY DEF Years, Months
      <4>3. After(1999, 12) = 0
        BY <4>1 DEF After
      <4>4. FromYmd(1999, 12, 1) \in Int /\ After(1999, 1) \in Int
        BY <4>2, MonthDays, MonthLength
      <4>5. FromYmd(1999, 12, 1) < 0
        BY <4>2, <4>3, <4>4, MonthLength
      <4>6. After(1999, 1) <= FromYmd(1999, 12, 1)
        BY <4>2, MonthsApart
      <4>7. ~InMonth(d, 1999, 1)
        BY <1>1, <4>4, <4>5, <4>6 DEF InMonth
      <4> QED
        BY <1>2, <2>1, <4>7
    <3>2. y - 1 \in Years /\ 12 \in Months
      BY <3>1 DEF Years, Months
    <3>3. After(y - 1, 12) = first
      BY <2>1, <3>2 DEF After
    <3>4. FromYmd(y - 1, 12, 15) = FromYmd(y - 1, 12, 1) + 14 /\ FromYmd(y - 1, 12, 1) \in Int
      BY <3>2, MonthDays
    <3>5. After(y - 1, 12) - FromYmd(y - 1, 12, 1) \in 28..31 /\ After(y - 1, 12) \in Int
      BY <3>2, MonthLength
    <3>6. PrevMonthAnchor(d) = FromYmd(y - 1, 12, 15)
      BY <2>0, <2>1 DEF PrevMonthAnchor
    <3>7. InMonth(FromYmd(y - 1, 12, 15), y - 1, 12) /\ FromYmd(y - 1, 12, 15) \in Int
      BY <3>4, <3>5 DEF InMonth
    <3> QED
      BY <3>2, <3>3, <3>6, <3>7, BoundsFound
  <2>2. CASE m # 1
    <3>2. m - 1 \in Months
      BY <2>2 DEF Months
    <3>3. After(y, m - 1) = first
      BY <2>2, <3>2 DEF After, Months
    <3>4. FromYmd(y, m - 1, 15) = FromYmd(y, m - 1, 1) + 14 /\ FromYmd(y, m - 1, 1) \in Int
      BY <1>3, <3>2, MonthDays
    <3>5. After(y, m - 1) - FromYmd(y, m - 1, 1) \in 28..31 /\ After(y, m - 1) \in Int
      BY <1>3, <3>2, MonthLength
    <3>6. PrevMonthAnchor(d) = FromYmd(y, m - 1, 15)
      BY <2>0, <2>2 DEF PrevMonthAnchor
    <3>7. InMonth(FromYmd(y, m - 1, 15), y, m - 1) /\ FromYmd(y, m - 1, 15) \in Int
      BY <3>4, <3>5 DEF InMonth
    <3> QED
      BY <1>3, <3>2, <3>3, <3>6, <3>7, BoundsFound
  <2> QED
    BY <2>1, <2>2
<1>8. ASSUME NEW s \in Schedule
      PROVE  IF s.cadence = "monthly"
               THEN DueDate(s, d) \in first..(after - 1)
               ELSE /\ DueDate(s, d) \in WeekStart(d)..(WeekStart(d) + 6)
                    /\ DaysFromSunday(DueDate(s, d)) = s.day
  <2>1. CASE s.cadence = "monthly"
    <3>1. s.day \in 1..31
      BY <2>1 DEF Schedule
    <3> QED
      BY <1>1, <1>2, <1>3, <2>1, <3>1, MonthlyDue
  <2>2. CASE s.cadence # "monthly"
    <3>1. s.cadence = "weekly" /\ s.day \in 0..6
      BY <2>2 DEF Schedule
    <3> QED
      BY <1>1, <2>2, <3>1, WeeklyDue
  <2> QED
    BY <2>1, <2>2
<1> HIDE DEF first, after
<1>9. after - 1 + 1 = after
  BY <1>3
<1> QED
  BY <1>4, <1>5, <1>6, <1>7, <1>8, <1>9 DEF SoundDays

-----------------------------------------------------------------------------
(***************************************************************************)
(* The inductive invariant.                                                *)
(***************************************************************************)

\* What a run may be doing at each of its steps.
PlaceOK(x) ==
  /\ x.at = "hygiene" => x.pc = "read"
  /\ x.at = "recap" => x.pc # "claim" /\ (x.pc = "send" => x.sending = Recap)
  /\ x.at \in {"budgets", "goals"} => x.todo \subseteq Alerts
  /\ x.at = "reminders" =>
       \A a \in x.todo : a \in Items \X Int /\ a[2] <= x.day
  /\ x.listed => x.at = "goals"
  /\ x.ended => x.at = "idle"

\* A run sees one midnight at most, and runs of two dates know of each other.
DatesOK ==
  \A r \in Runs : Active(r) =>
    /\ run[r].day \in {today, today - 1}
    /\ \A q \in Runs : Active(q) /\ run[q].day # run[r].day => run[r].met

\* Too old for any run that is under way, or will be, to claim.
Outdated(c) ==
  c[2] < WeekStart(today) - 7 * (IF c[1] = Recap THEN KeepSummaries ELSE KeepWeeks)

\* What was sent or is about to be is claimed, and about to be by one run only.
SentOK ==
  /\ \A c \in told : c \in claims \/ Outdated(c)
  /\ \A r \in Runs : \A c \in Abandoned(run[r]) :
       /\ c \in claims \/ Outdated(c)
       /\ c \notin told
       /\ \A q \in Runs \ {r} : c \notin Abandoned(run[q])

\* A reminder is for a due date no later than the day it is given on, and the
\* row's date is one of those.
ItemsOK ==
  \A i \in Items :
    /\ ~items[i].there => items[i].last = Never
    /\ items[i].last <= reminded[i].day
    /\ reminded[i].day # Never => reminded[i].due <= reminded[i].day

\* A run of the date before or after was the last to remind of item i.
BesideMidnight(x, i) == x.met /\ reminded[i].day \in {x.day - 1, x.day + 1}

\* What a run is about to remind of is newer than the last reminder, unless
\* another run has just given it.
Fresh(x, a) ==
  LET i == a[1] IN
  \/ items[i].last = x.day \/ MovedBack(i) \/ BesideMidnight(x, i)
  \/ reminded[i].day = Never \/ reminded[i].due < a[2]

\* Item i needs no reminder by a run of this day.
Settled(i, day) ==
  LET due == DueDates[items[i].schedule][day] IN day < due \/ due <= reminded[i].day

\* What a run still has to remind of is on its list.
ListOK(x) ==
  /\ \A a \in x.todo : Fresh(x, a)
  /\ x.pc # "read" =>
       \A i \in Items \ x.edited :
         items[i].there
           => Settled(i, x.day) \/ <<i, DueDates[items[i].schedule][x.day]>> \in x.todo

-----------------------------------------------------------------------------
(***************************************************************************)
(* The record of a run.                                                    *)
(***************************************************************************)
Subjects == Alerts \cup (Items \X Int)

Places == {"idle", "hygiene", "budgets", "reminders", "goals", "recap"}

\* The steps by name.
LEMMA PlacesAre == {"idle"} \cup {Steps[n] : n \in 1..Len(Steps)} = Places
BY DEF Steps, Places

\* The fields of a run's record.
LEMMA RunFields ==
  ASSUME NEW x
  PROVE  x \in Run <=>
           /\ x = [at |-> x.at, pc |-> x.pc, day |-> x.day, todo |-> x.todo,
                   sending |-> x.sending, edited |-> x.edited, listed |-> x.listed,
                   met |-> x.met, ended |-> x.ended, noRecap |-> x.noRecap]
           /\ x.at \in Places /\ x.pc \in {"read", "claim", "send", "record"}
           /\ x.day \in Days /\ x.todo \subseteq Subjects /\ x.sending \in Subjects
           /\ x.edited \subseteq Items /\ x.listed \in BOOLEAN /\ x.met \in BOOLEAN
           /\ x.ended \in BOOLEAN /\ x.noRecap \in BOOLEAN
BY PlacesAre DEF Run, Subjects

\* The order of the steps.
LEMMA FollowsTable ==
  /\ Follows("hygiene") = "budgets" /\ Follows("budgets") = "reminders"
  /\ Follows("reminders") = "goals" /\ Follows("goals") = "recap"
<1> DEFINE pos(s) == CHOOSE n \in 1..Len(Steps) : Steps[n] = s
<1>1. Len(Steps) = 5 /\ 1..5 = {1, 2, 3, 4, 5}
  BY DEF Steps
<1>2. /\ Steps[1] = "hygiene" /\ Steps[2] = "budgets" /\ Steps[3] = "reminders"
      /\ Steps[4] = "goals" /\ Steps[5] = "recap"
  BY DEF Steps
<1>3. pos("hygiene") = 1 /\ pos("budgets") = 2 /\ pos("reminders") = 3 /\ pos("goals") = 4
  BY <1>1, <1>2
<1>4. \A s : Follows(s) = Steps[1 + pos(s)]
  BY DEF Follows
<1> HIDE DEF pos
<1> QED
  BY <1>2, <1>3, <1>4

\* Dates and weeks.
LEMMA DayFacts ==
  ASSUME NEW d \in Days
  PROVE  d \in Int /\ 0 <= d /\ WeekStart(d) \in Int /\ WeekStart(d) \in Weeks
<1>1. d \in Nat
  BY CronAssumption
<1> QED
  BY <1>1, WeekStartFacts DEF Weeks

\* What a run looks like when it is not there.
LEMMA IdleFacts == Idle \in Run /\ PlaceOK(Idle) /\ Abandoned(Idle) = {}
<1>1. (CHOOSE d \in Days : TRUE) \in Days
  BY CronAssumption
<1>2. Recap \in Subjects
  BY DEF Recap, Subjects, Alerts
<1> QED
  BY <1>1, <1>2, RunFields DEF Idle, Places, PlaceOK, Abandoned

\* The next step of a run starts with nothing to do; after the last one the
\* run has ended.
LEMMA NextStepFacts ==
  ASSUME NEW x \in Run, PlaceOK(x), x.at # "idle"
  PROVE  LET y == NextStep(x) IN
         /\ y \in Run /\ PlaceOK(y) /\ y.pc = "read" /\ y.day = x.day
         /\ Abandoned(y) = {} /\ y.todo = {}
         /\ y.listed = (x.at = "reminders")
         /\ x.at = "recap" => y.at = "idle" /\ y.ended /\ y.noRecap = x.noRecap
         /\ x.at # "recap" => y.at # "idle" /\ ~y.ended /\ y.met = x.met
         /\ x.at = "reminders" => y.edited = x.edited
<1> DEFINE y == NextStep(x)
<1>0. /\ x.at \in Places /\ x.day \in Days /\ x.edited \subseteq Items
      /\ x.noRecap \in BOOLEAN /\ x.met \in BOOLEAN /\ x.ended = FALSE
  BY RunFields DEF PlaceOK
<1>1. CASE x.at = "recap"
  <2>1. y = [Idle EXCEPT !.day = x.day, !.ended = TRUE, !.noRecap = x.noRecap]
    BY <1>1 DEF NextStep, End
  <2> QED
    BY <1>0, <1>1, <2>1, IdleFacts, RunFields DEF Idle, PlaceOK, Abandoned, Places
<1>2. CASE x.at # "recap"
  <2>0. y = [at |-> Follows(x.at), pc |-> "read", day |-> x.day, todo |-> {},
             sending |-> Recap, edited |-> IF x.at = "reminders" THEN x.edited ELSE {},
             listed |-> x.at = "reminders", met |-> x.met, ended |-> x.ended,
             noRecap |-> x.noRecap]
    BY <1>2 DEF NextStep, Run
  <2> HIDE DEF y
  <2>1. /\ y.at = Follows(x.at) /\ y.pc = "read" /\ y.todo = {} /\ y.sending = Recap
        /\ y.listed = (x.at = "reminders") /\ y.ended = FALSE
        /\ y.day = x.day /\ y.met = x.met /\ y.noRecap = x.noRecap
        /\ y.edited = IF x.at = "reminders" THEN x.edited ELSE {}
        /\ y = [at |-> y.at, pc |-> y.pc, day |-> y.day, todo |-> y.todo,
                   sending |-> y.sending, edited |-> y.edited, listed |-> y.listed,
                   met |-> y.met, ended |-> y.ended, noRecap |-> y.noRecap]
    BY <1>0, <2>0
  <2>2. /\ y.at \in Places \ {"idle", "hygiene"} /\ (x.at = "reminders" => y.at = "goals")
    BY <1>0, <1>2, <2>1, FollowsTable DEF Places
  <2>3. Recap \in Subjects
    BY DEF Recap, Subjects, Alerts
  <2>4. y \in Run
    BY <1>0, <2>1, <2>2, <2>3, RunFields
  <2>5. PlaceOK(y) /\ Abandoned(y) = {}
    BY <2>1, <2>2 DEF PlaceOK, Abandoned
  <2> QED
    BY <1>2, <2>1, <2>2, <2>4, <2>5 DEF y
<1> QED
  BY <1>1, <1>2

\* An error skips to the next step, with no claim to have gone through a list.
LEMMA AfterErrorFacts ==
  ASSUME NEW x \in Run, PlaceOK(x), x.at # "idle"
  PROVE  LET y == AfterError(x) IN
         /\ y \in Run /\ PlaceOK(y) /\ y.pc = "read" /\ y.day = x.day
         /\ Abandoned(y) = {} /\ y.listed = FALSE /\ y.todo = {}
         /\ x.at = "recap" => y.at = "idle" /\ y.noRecap = TRUE
         /\ x.at # "recap" => y.at # "idle" /\ ~y.ended /\ y.met = x.met
<1> DEFINE f == Failed(x)
           z == NextStep(f)
           y == AfterError(x)
<1>1. /\ f \in Run /\ f.at = x.at /\ f.pc = x.pc /\ f.todo = x.todo /\ f.day = x.day
      /\ f.sending = x.sending /\ f.listed = x.listed /\ f.ended = x.ended
      /\ f.met = x.met /\ f.noRecap = (x.at = "recap")
  BY DEF Failed, Run
<1> HIDE DEF f
<1>2. PlaceOK(f)
  BY <1>1 DEF PlaceOK
<1>3. /\ z \in Run /\ PlaceOK(z) /\ z.pc = "read" /\ z.day = x.day /\ z.todo = {}
      /\ x.at = "recap" => z.at = "idle" /\ z.noRecap = TRUE
      /\ x.at # "recap" => z.at # "idle" /\ ~z.ended /\ z.met = x.met
  BY <1>1, <1>2, NextStepFacts
<1>4. y = [z EXCEPT !.listed = FALSE]
  BY DEF AfterError, f
<1> HIDE DEF z, y
<1>5. /\ y \in Run /\ y.at = z.at /\ y.pc = z.pc /\ y.todo = z.todo /\ y.day = z.day
      /\ y.sending = z.sending /\ y.listed = FALSE /\ y.ended = z.ended
      /\ y.met = z.met /\ y.noRecap = z.noRecap
  BY <1>3, <1>4 DEF Run
<1>6. PlaceOK(y) /\ Abandoned(y) = {}
  BY <1>3, <1>5 DEF PlaceOK, Abandoned
<1> QED
  BY <1>3, <1>5, <1>6 DEF y

\* x and y are at the same point of the same step.
SamePlace(x, y) ==
  /\ y.at = x.at /\ y.pc = x.pc /\ y.day = x.day /\ y.sending = x.sending
  /\ y.listed = x.listed /\ y.ended = x.ended /\ y.noRecap = x.noRecap

\* The place stays right when the list shrinks.
LEMMA SamePlaceFacts ==
  ASSUME NEW x, NEW y, PlaceOK(x), SamePlace(x, y), y.todo \subseteq x.todo
  PROVE  PlaceOK(y) /\ Abandoned(y) = Abandoned(x)
<1>1. /\ y.at = x.at /\ y.pc = x.pc /\ y.day = x.day /\ y.sending = x.sending
      /\ y.listed = x.listed /\ y.ended = x.ended
  BY DEF SamePlace
<1>2. Abandoned(y) = Abandoned(x)
  BY <1>1 DEF Abandoned
<1>3. PlaceOK(y)
  BY <1>1 DEF PlaceOK
<1> QED
  BY <1>2, <1>3

\* The name of a kind is no item's.
LEMMA RemindersAreNoAlerts ==
  ASSUME NEW a \in Items \X Int
  PROVE  a \notin Alerts
<1>1. a[1] \in Items
  OBVIOUS
<1>2. \A b \in Alerts : b[1] \in {"budget", "pace", "goalpace", "recap"}
  BY DEF Alerts
<1>3. a[1] \notin {"budget", "pace", "goalpace", "recap"}
  BY <1>1, CronAssumption
<1> QED
  BY <1>2, <1>3

-----------------------------------------------------------------------------
(***************************************************************************)
(* What a step does to the runs.                                           *)
(***************************************************************************)
PlacesOK == \A r \in Runs : PlaceOK(run[r])

\* Run r goes on as y, a run of the same date, or is over.
Turn(r, y) ==
  /\ run' = [run EXCEPT ![r] = y]
  /\ y \in Run /\ PlaceOK(y)
  /\ y.at # "idle" => y.day = run[r].day /\ y.met = run[r].met

\* Every step of a run is a turn of it.
LEMMA RunStepTurns ==
  ASSUME TypeOK, PlacesOK, NEW r \in Runs, RunStep(r)
  PROVE  /\ Active(r) /\ today' = today
         /\ \E y : Turn(r, y)
<1> DEFINE x == run[r]
<1>0. x \in Run /\ PlaceOK(x) /\ run \in [Runs -> Run]
  BY DEF TypeOK, PlacesOK
<1>1. today' = today
  BY DEF RunStep, Hygiene, ReadBudgets, ReadGoals, ReadReminders, ClaimNudge,
         ClaimReminder, ReadRecap, ClaimRecap, Send, EndStep, StepError, Stop,
         AlertUnanswered, ReminderUnanswered
<1>2. Active(r)
  BY DEF RunStep, Hygiene, ReadBudgets, ReadGoals, ReadReminders, ClaimNudge,
         ClaimReminder, ReadRecap, ClaimRecap, Send, EndStep, StepError, Stop, Active,
         AlertUnanswered, ReminderUnanswered, Recap
<1>3. x.at # "idle"
  BY <1>2 DEF Active
<1>n. ASSUME run' = [run EXCEPT ![r] = NextStep(x)]
      PROVE  \E y : Turn(r, y)
  <2> DEFINE y == NextStep(x)
  <2>1. y \in Run /\ PlaceOK(y) /\ (y.at # "idle" => y.day = x.day /\ y.met = x.met)
    BY <1>0, <1>3, NextStepFacts
  <2> HIDE DEF y
  <2>2. Turn(r, y)
    BY <1>n, <2>1 DEF Turn, y
  <2> QED
    BY <2>2
<1>m. ASSUME NEW y \in Run, run' = [run EXCEPT ![r] = y], PlaceOK(y),
             y.day = x.day, y.met = x.met
      PROVE  \E z : Turn(r, z)
  BY <1>m DEF Turn
<1>4. ASSUME NEW nudges \in BOOLEAN, NEW summaries \in BOOLEAN, Hygiene(r, nudges, summaries)
      PROVE  \E y : Turn(r, y)
  <2>1. run' = [run EXCEPT ![r] = NextStep(x)]
    BY <1>4 DEF Hygiene
  <2> QED
    BY <2>1, <1>n
<1>5. ASSUME NEW near \in SUBSET Categories, NEW pace \in SUBSET Categories,
             ReadBudgets(r, near, pace)
      PROVE  \E y : Turn(r, y)
  <2> DEFINE t == ({"budget"} \X near) \cup ({"pace"} \X pace)
             y == [x EXCEPT !.pc = "claim", !.todo = t]
  <2>1. t \subseteq Alerts
    BY DEF Alerts
  <2> HIDE DEF t
  <2>2. /\ y \in Run /\ y.day = x.day /\ y.met = x.met /\ y.at = "budgets"
        /\ y.todo = t /\ y.listed = x.listed /\ y.ended = x.ended
    BY <1>0, <1>5, <2>1 DEF ReadBudgets, Run
  <2>3. run' = [run EXCEPT ![r] = y]
    BY <1>5 DEF ReadBudgets, t
  <2> HIDE DEF y
  <2>4. PlaceOK(y)
    BY <1>0, <1>5, <2>1, <2>2 DEF PlaceOK, ReadBudgets
  <2> QED
    BY <1>m, <2>2, <2>3, <2>4
<1>6. ASSUME NEW behind \in SUBSET Goals, ReadGoals(r, behind)
      PROVE  \E y : Turn(r, y)
  <2> DEFINE t == {"goalpace"} \X behind
             y == [x EXCEPT !.pc = "claim", !.listed = FALSE, !.edited = {}, !.todo = t]
  <2>1. t \subseteq Alerts
    BY DEF Alerts
  <2> HIDE DEF t
  <2>2. /\ y \in Run /\ y.day = x.day /\ y.met = x.met /\ y.at = "goals"
        /\ y.todo = t /\ y.listed = FALSE /\ y.ended = x.ended
    BY <1>0, <1>6, <2>1 DEF ReadGoals, Run
  <2>3. run' = [run EXCEPT ![r] = y]
    BY <1>6 DEF ReadGoals, t
  <2> HIDE DEF y
  <2>4. PlaceOK(y)
    BY <1>0, <1>6, <2>1, <2>2 DEF PlaceOK, ReadGoals
  <2> QED
    BY <1>m, <2>2, <2>3, <2>4
<1>7. ASSUME ReadReminders(r) PROVE \E y : Turn(r, y)
  <2> DEFINE t == {<<i, DueDates[items[i].schedule][x.day]>> :
                     i \in {j \in Items : DueToday(j, x.day)}}
             y == [x EXCEPT !.pc = "claim", !.todo = t]
  <2>1. \A a \in t : a \in Items \X Int /\ a[2] <= x.day
    <3> SUFFICES ASSUME NEW i \in Items, DueToday(i, x.day)
                 PROVE  /\ DueDates[items[i].schedule][x.day] \in Int
                        /\ DueDates[items[i].schedule][x.day] <= x.day
      OBVIOUS
    <3>1. items[i].schedule \in Schedules /\ x.day \in Days
      BY <1>0, RunFields DEF TypeOK, Item
    <3>2. items[i].schedule \in Schedule
      BY <3>1, CronAssumption
    <3>3. DueDates[items[i].schedule][x.day] = DueDate(items[i].schedule, x.day)
      BY <3>1 DEF DueDates
    <3>4. DueDates[items[i].schedule][x.day] \in Int
      BY <3>1, <3>2, <3>3, DueDateType
    <3> QED
      BY <3>4 DEF DueToday
  <2> HIDE DEF t
  <2>2. /\ y \in Run /\ y.day = x.day /\ y.met = x.met /\ y.at = "reminders"
        /\ y.todo = t /\ y.listed = x.listed /\ y.ended = x.ended
    BY <1>0, <1>7, <2>1 DEF ReadReminders, Run
  <2>3. run' = [run EXCEPT ![r] = y]
    BY <1>7 DEF ReadReminders, t
  <2> HIDE DEF y
  <2>4. PlaceOK(y)
    BY <1>0, <1>7, <2>1, <2>2 DEF PlaceOK, ReadReminders
  <2> QED
    BY <1>m, <2>2, <2>3, <2>4
<1>8. ASSUME NEW a \in x.todo, run' = [run EXCEPT ![r] = Skip(x, a)]
      PROVE  \E y : Turn(r, y)
  <2> DEFINE y == Skip(x, a)
  <2>1. /\ y \in Run /\ y.todo = x.todo \ {a} /\ y.met = x.met /\ SamePlace(x, y)
    BY <1>0 DEF Skip, Run, SamePlace
  <2> HIDE DEF y
  <2>2. PlaceOK(y)
    BY <1>0, <2>1, SamePlaceFacts
  <2> QED
    BY <1>m, <1>8, <2>1, <2>2 DEF SamePlace, y
<1>9. ASSUME NEW a \in x.todo, run' = [run EXCEPT ![r] = Sending(x, a)],
             x.at \notin {"hygiene", "recap"}
      PROVE  \E y : Turn(r, y)
  <2> DEFINE y == Sending(x, a)
  <2>1. /\ y \in Run /\ y.todo = x.todo \ {a} /\ y.met = x.met /\ y.day = x.day
        /\ y.at = x.at /\ y.listed = x.listed /\ y.ended = x.ended
    BY <1>0 DEF Sending, Run
  <2> HIDE DEF y
  <2>2. PlaceOK(y)
    BY <1>0, <1>9, <2>1 DEF PlaceOK
  <2> QED
    BY <1>m, <1>9, <2>1, <2>2 DEF y
<1>10. ASSUME NEW a \in x.todo, ClaimNudge(r, a) \/ ClaimReminder(r, a)
       PROVE  \E y : Turn(r, y)
  <2>1. \/ run' = [run EXCEPT ![r] = Skip(x, a)]
        \/ run' = [run EXCEPT ![r] = Sending(x, a)] /\ x.at \notin {"hygiene", "recap"}
    BY <1>10 DEF ClaimNudge, ClaimReminder
  <2> QED
    BY <1>8, <1>9, <2>1
<1>11. ASSUME ReadRecap(r) PROVE \E y : Turn(r, y)
  <2> DEFINE y == [x EXCEPT !.pc = "record"]
  <2>1. /\ y \in Run /\ y.todo = x.todo /\ y.met = x.met /\ y.day = x.day
        /\ y.at = x.at /\ y.listed = x.listed /\ y.ended = x.ended /\ y.pc = "record"
    BY <1>0 DEF Run
  <2>2. PlaceOK(y)
    BY <1>0, <1>11, <2>1 DEF PlaceOK, ReadRecap
  <2> HIDE DEF y
  <2>3. run' = [run EXCEPT ![r] = NextStep(x)] \/ run' = [run EXCEPT ![r] = y]
    BY <1>11 DEF ReadRecap, y
  <2> QED
    BY <1>m, <1>n, <2>1, <2>2, <2>3
<1>12. ASSUME ClaimRecap(r) PROVE \E y : Turn(r, y)
  <2> DEFINE y == Sending(x, Recap)
  <2>1. Recap \in Subjects /\ x.todo \subseteq Subjects
    BY <1>0, RunFields DEF Subjects, Alerts, Recap
  <2>2. /\ y \in Run /\ y.todo = x.todo \ {Recap} /\ y.met = x.met /\ y.day = x.day
        /\ y.at = x.at /\ y.listed = x.listed /\ y.ended = x.ended
        /\ y.pc = "send" /\ y.sending = Recap
    BY <1>0, <2>1 DEF Run, Sending, Subjects
  <2>3. run' = [run EXCEPT ![r] = NextStep(x)] \/ run' = [run EXCEPT ![r] = y]
    BY <1>12 DEF ClaimRecap
  <2> HIDE DEF y
  <2>4. PlaceOK(y)
    BY <1>0, <1>12, <2>2 DEF PlaceOK, ClaimRecap
  <2> QED
    BY <1>m, <1>n, <2>2, <2>3, <2>4
<1>13. ASSUME NEW ok \in BOOLEAN, Send(r, ok) PROVE \E y : Turn(r, y)
  <2> DEFINE y == [x EXCEPT !.pc = "claim", !.sending = Recap]
  <2>1. CASE x.at = "recap"
    BY <1>n, <1>13, <2>1 DEF Send
  <2>2. CASE x.at # "recap"
    <3>1. /\ y \in Run /\ y.todo = x.todo /\ y.met = x.met /\ y.day = x.day
          /\ y.at = x.at /\ y.listed = x.listed /\ y.ended = x.ended
      BY <1>0 DEF Run, Recap, Alerts
    <3>2. run' = [run EXCEPT ![r] = y]
      BY <1>13, <2>2 DEF Send
    <3>3. x.at # "hygiene"
      BY <1>0, <1>13 DEF PlaceOK, Send
    <3> HIDE DEF y
    <3>4. PlaceOK(y)
      BY <1>0, <2>2, <3>1, <3>3 DEF PlaceOK
    <3> QED
      BY <1>m, <3>1, <3>2, <3>4
  <2> QED
    BY <2>1, <2>2
<1>14. CASE EndStep(r)
  BY <1>14, <1>n DEF EndStep
<1>15. ASSUME \/ StepError(r)
              \/ \E a \in x.todo \cup {Recap} : AlertUnanswered(r, a)
              \/ \E a \in x.todo : ReminderUnanswered(r, a)
       PROVE  \E y : Turn(r, y)
  <2> DEFINE y == AfterError(x)
  <2>1. y \in Run /\ PlaceOK(y) /\ (y.at # "idle" => y.day = x.day /\ y.met = x.met)
    BY <1>0, <1>3, AfterErrorFacts
  <2>2. run' = [run EXCEPT ![r] = y]
    BY <1>15 DEF StepError, AlertUnanswered, ReminderUnanswered
  <2> HIDE DEF y
  <2> QED
    BY <2>1, <2>2 DEF Turn
<1>16. ASSUME Stop(r) PROVE \E y : Turn(r, y)
  <2>1. Idle \in Run /\ PlaceOK(Idle) /\ Idle.at = "idle"
    BY IdleFacts DEF Idle
  <2> QED
    BY <1>16, <2>1 DEF Stop, Turn
<1> QED
  BY <1>1, <1>2, <1>4, <1>5, <1>6, <1>7, <1>10, <1>11, <1>12, <1>13, <1>14, <1>15, <1>16
     DEF RunStep

\* The runs of another date that are under way.
Others == {q \in Runs : Active(q) /\ run[q].day # today}

\* A new run starts on the date of today, and it and those of another date meet.
LEMMA StartFacts ==
  ASSUME TypeOK, PlacesOK, NEW r \in Runs, Start(r)
  PROVE  /\ run' \in [Runs -> Run]
         /\ run'[r].at = "hygiene" /\ run'[r].pc = "read" /\ run'[r].day = today
         /\ ~run'[r].listed /\ ~run'[r].ended /\ PlaceOK(run'[r])
         /\ run'[r].todo = {} /\ Abandoned(run'[r]) = {} /\ Abandoned(run[r]) = {}
         /\ Others # {} => run'[r].met
         /\ \A q \in Runs \ {r} :
              /\ SamePlace(run[q], run'[q])
              /\ run'[q].todo = run[q].todo /\ run'[q].edited = run[q].edited
              /\ run[q].met \/ q \in Others => run'[q].met
<1> DEFINE y == [Idle EXCEPT !.at = "hygiene", !.day = today, !.met = Others # {}]
           z(q) == [run[q] EXCEPT !.met = TRUE]
<1>0. run \in [Runs -> Run] /\ today \in Days
  BY DEF TypeOK
<1>1. /\ y.at = "hygiene" /\ y.pc = "read" /\ y.day = today /\ y.todo = {}
      /\ y.listed = FALSE /\ y.ended = FALSE /\ y.met = (Others # {})
      /\ y \in Run
  <2> DEFINE w == [Idle EXCEPT !.at = "hygiene", !.day = today]
             b == Others # {}
  <2>1. /\ w.at = "hygiene" /\ w.pc = "read" /\ w.day = today /\ w.todo = {}
        /\ w.listed = FALSE /\ w.ended = FALSE
    BY DEF Idle
  <2>2. w \in Run
    <3>1. "hygiene" \in {"idle"} \cup {Steps[n] : n \in 1..Len(Steps)}
      BY PlacesAre DEF Places
    <3> QED
      BY <1>0, <3>1, IdleFacts DEF Run
  <2>3. b \in BOOLEAN /\ y = [w EXCEPT !.met = b]
    BY DEF Idle
  <2> HIDE DEF w, b, y
  <2>4. y \in Run /\ y.met = b
    BY <2>2, <2>3 DEF Run
  <2>5. /\ y.at = w.at /\ y.pc = w.pc /\ y.day = w.day /\ y.todo = w.todo
        /\ y.listed = w.listed /\ y.ended = w.ended
    BY <2>2, <2>3 DEF Run
  <2> QED
    BY <2>1, <2>4, <2>5 DEF b
<1>2. \A q \in Runs :
        /\ z(q) \in Run /\ SamePlace(run[q], z(q)) /\ z(q).met = TRUE
        /\ z(q).todo = run[q].todo /\ z(q).edited = run[q].edited
  BY <1>0 DEF Run, SamePlace
<1>3. \A q \in Runs : SamePlace(run[q], run[q])
  BY DEF SamePlace
<1>4. run' = [q \in Runs |-> IF q = r THEN y ELSE IF q \in Others THEN z(q) ELSE run[q]]
  BY DEF Start, Others
<1> HIDE DEF y, z
<1>5. PlaceOK(y) /\ Abandoned(y) = {}
  BY <1>1 DEF PlaceOK, Abandoned
<1>6. Abandoned(run[r]) = {}
  BY DEF Start, Active, Abandoned
<1>7. /\ run'[r] = y
      /\ \A q \in Runs \ {r} : run'[q] = IF q \in Others THEN z(q) ELSE run[q]
  BY <1>4
<1>8. run' \in [Runs -> Run]
  BY <1>0, <1>1, <1>2, <1>4
<1> QED
  BY <1>1, <1>2, <1>3, <1>5, <1>6, <1>7, <1>8

\* The user's edits leave the runs where they are; they only take note of them.
LEMMA EditFacts ==
  ASSUME TypeOK, PlacesOK, NEW i \in Items,
         (\E s \in Schedules : SetRecurring(i, s)) \/ RemoveRecurring(i)
  PROVE  /\ run' \in [Runs -> Run]
         /\ \A q \in Runs :
              /\ SamePlace(run[q], run'[q]) /\ run'[q].met = run[q].met
              /\ run'[q].todo \subseteq run[q].todo /\ run[q].edited \subseteq run'[q].edited
              /\ (run[q].at = "reminders" /\ run[q].pc # "read") \/ run[q].listed
                   => i \in run'[q].edited
              /\ \A a \in run[q].todo : a[1] # i => a \in run'[q].todo
              /\ RemoveRecurring(i) => \A a \in run'[q].todo : a[1] # i
<1> DEFINE marks(q) == (run[q].at = "reminders" /\ run[q].pc # "read") \/ run[q].listed
           z(q) == IF marks(q) THEN [run[q] EXCEPT !.edited = @ \cup {i}] ELSE run[q]
           u(q) == [z(q) EXCEPT !.todo = {a \in @ : a[1] # i}]
<1>0. run \in [Runs -> Run]
  BY DEF TypeOK
<1>1. \A q \in Runs :
        /\ z(q) \in Run /\ SamePlace(run[q], z(q)) /\ z(q).met = run[q].met
        /\ z(q).todo = run[q].todo
        /\ run[q].edited \subseteq z(q).edited /\ (marks(q) => i \in z(q).edited)
  BY <1>0 DEF Run, SamePlace
<1>2. Edited(i) = [q \in Runs |-> z(q)]
  BY DEF Edited
<1> HIDE DEF z
<1>3. \A q \in Runs :
        /\ u(q) \in Run /\ SamePlace(z(q), u(q)) /\ u(q).met = z(q).met
        /\ u(q).todo = {a \in z(q).todo : a[1] # i} /\ u(q).edited = z(q).edited
  BY <1>1 DEF Run, SamePlace
<1>4. RemoveRecurring(i) => run' = [q \in Runs |-> u(q)]
  BY <1>2 DEF RemoveRecurring
<1> HIDE DEF u, marks
<1>5. \A q \in Runs : SamePlace(run[q], u(q))
  BY <1>1, <1>3 DEF SamePlace
<1>6. CASE RemoveRecurring(i)
  <2>1. \A q \in Runs : run'[q] = u(q)
    BY <1>4, <1>6
  <2>2. run' \in [Runs -> Run]
    BY <1>3, <1>4, <1>6
  <2>3. \A q \in Runs :
              /\ SamePlace(run[q], run'[q]) /\ run'[q].met = run[q].met
              /\ run'[q].todo = {a \in run[q].todo : a[1] # i}
              /\ run[q].edited \subseteq run'[q].edited
              /\ marks(q) => i \in run'[q].edited
    BY <1>1, <1>3, <1>5, <2>1
  <2> QED
    BY <2>2, <2>3 DEF marks
<1>7. ASSUME NEW s \in Schedules, SetRecurring(i, s), ~RemoveRecurring(i)
      PROVE  /\ run' \in [Runs -> Run]
             /\ \A q \in Runs : run'[q] = z(q)
  BY <1>1, <1>2, <1>7 DEF SetRecurring
<1>8. CASE ~RemoveRecurring(i)
  <2>1. /\ run' \in [Runs -> Run]
        /\ \A q \in Runs : run'[q] = z(q)
    BY <1>7, <1>8
  <2> QED
    BY <1>1, <1>8, <2>1 DEF marks
<1> QED
  BY <1>6, <1>8

\* The runs stay runs at their places.
LEMMA PlacesStep ==
  ASSUME TypeOK, PlacesOK, [Next]_vars
  PROVE  run' \in [Runs -> Run] /\ PlacesOK'
<1>0. run \in [Runs -> Run] /\ \A q \in Runs : PlaceOK(run[q])
  BY DEF TypeOK, PlacesOK
<1>1. SUFFICES run' \in [Runs -> Run] /\ \A q \in Runs : PlaceOK(run'[q])
  BY DEF PlacesOK
<1>2. CASE run' = run
  BY <1>0, <1>2
<1>3. ASSUME NEW r \in Runs, RunStep(r)
      PROVE  run' \in [Runs -> Run] /\ \A q \in Runs : PlaceOK(run'[q])
  <2>1. PICK y : Turn(r, y)
    BY <1>3, RunStepTurns
  <2> QED
    BY <1>0, <2>1 DEF Turn
<1>4. ASSUME NEW r \in Runs, Start(r)
      PROVE  run' \in [Runs -> Run] /\ \A q \in Runs : PlaceOK(run'[q])
  <2>1. \A q \in Runs \ {r} : PlaceOK(run'[q])
    BY <1>0, <1>4, StartFacts, SamePlaceFacts
  <2> QED
    BY <1>4, <2>1, StartFacts
<1>5. ASSUME NEW i \in Items, (\E s \in Schedules : SetRecurring(i, s)) \/ RemoveRecurring(i)
      PROVE  run' \in [Runs -> Run] /\ \A q \in Runs : PlaceOK(run'[q])
  BY <1>0, <1>5, EditFacts, SamePlaceFacts
<1>6. ASSUME NEW d \in Days, NextDay(d) PROVE run' = run
  BY <1>6 DEF NextDay
<1> QED
  BY <1>2, <1>3, <1>4, <1>5, <1>6 DEF Next, vars

\* A step leaves the date, or it is the next day and the runs are of yesterday.
LEMMA DatesStep ==
  ASSUME TypeOK, PlacesOK, DatesOK, [Next]_vars
  PROVE  DatesOK' /\ today' \in Days /\ today <= today'
<1>0. /\ run \in [Runs -> Run] /\ today \in Days /\ today \in Int
      /\ \A q \in Runs : PlaceOK(run[q]) /\ run[q].day \in Int
  <2>1. run \in [Runs -> Run] /\ today \in Days
    BY DEF TypeOK
  <2>2. \A q \in Runs : run[q].day \in Days
    BY <2>1 DEF Run
  <2> QED
    BY <2>1, <2>2, DayFacts DEF PlacesOK
<1> DEFINE act(q) == run[q].at # "idle"
           actN(q) == run'[q].at # "idle"
           ok == \A r \in Runs : act(r) =>
                   /\ run[r].day \in {today, today - 1}
                   /\ \A q \in Runs : act(q) /\ run[q].day # run[r].day => run[r].met
           okN == \A r \in Runs : actN(r) =>
                   /\ run'[r].day \in {today', today' - 1}
                   /\ \A q \in Runs : actN(q) /\ run'[q].day # run'[r].day => run'[r].met
<1>1. ok
  BY DEF DatesOK, Active
<1>2. SUFFICES okN /\ today' \in Days /\ today <= today'
  BY DEF DatesOK, Active
<1>3. ASSUME today' = today, \A q \in Runs : actN(q) => act(q) /\ run'[q].day = run[q].day
                                                  /\ (run[q].met => run'[q].met)
      PROVE  okN /\ today' \in Days /\ today <= today'
  BY <1>0, <1>1, <1>3
<1>4. CASE UNCHANGED vars
  BY <1>3, <1>4 DEF vars
<1>5. ASSUME NEW r \in Runs, RunStep(r)
      PROVE  okN /\ today' \in Days /\ today <= today'
  <2>1. PICK y : Turn(r, y)
    BY <1>5, RunStepTurns
  <2>2. \A q \in Runs : actN(q) => act(q) /\ run'[q].day = run[q].day
                                       /\ (run[q].met => run'[q].met)
    BY <1>0, <1>5, <2>1, RunStepTurns DEF Turn, Active
  <2> QED
    BY <1>3, <1>5, <2>2, RunStepTurns
<1>6. ASSUME NEW r \in Runs, Start(r)
      PROVE  okN /\ today' \in Days /\ today <= today'
  <2>1. today' = today
    BY <1>6 DEF Start
  <2>2. /\ run'[r].day = today
        /\ (\E q \in Runs : act(q) /\ run[q].day # today) => run'[r].met
        /\ \A q \in Runs \ {r} :
             /\ run'[q].at = run[q].at /\ run'[q].day = run[q].day
             /\ run[q].met \/ (act(q) /\ run[q].day # today) => run'[q].met
    BY <1>6, StartFacts DEF SamePlace, Others, Active
  <2> QED
    BY <1>0, <1>1, <2>1, <2>2
<1>7. ASSUME NEW i \in Items, (\E s \in Schedules : SetRecurring(i, s)) \/ RemoveRecurring(i)
      PROVE  okN /\ today' \in Days /\ today <= today'
  <2>1. today' = today
    BY <1>7 DEF SetRecurring, RemoveRecurring
  <2>2. \A q \in Runs : run'[q].at = run[q].at /\ run'[q].day = run[q].day
                         /\ run'[q].met = run[q].met
    BY <1>7, EditFacts DEF SamePlace
  <2> QED
    BY <1>3, <2>1, <2>2
<1>8. ASSUME NEW d \in Days, NextDay(d)
      PROVE  okN /\ today' \in Days /\ today <= today'
  <2>1. /\ today' = d /\ today < d /\ run' = run
        /\ \A q \in Runs : act(q) => run[q].day = today /\ d = today + 1
    BY <1>8 DEF NextDay, Active
  <2>2. d \in Int
    BY DayFacts
  <2> QED
    BY <1>0, <2>1, <2>2
<1> QED
  BY <1>4, <1>5, <1>6, <1>7, <1>8 DEF Next

-----------------------------------------------------------------------------
(***************************************************************************)
(* Types.                                                                  *)
(***************************************************************************)

\* The row of an alert in the week of a date.
LEMMA KeyType ==
  ASSUME NEW a \in Alerts, NEW d \in Days
  PROVE  <<a, WeekStart(d)>> \in Alerts \X Weeks
BY DayFacts

\* What is abandoned is such a row.
LEMMA AbandonedType ==
  ASSUME NEW x \in Run
  PROVE  Abandoned(x) \subseteq Alerts \X Weeks
<1>1. x.day \in Days
  BY DEF Run
<1> QED
  BY <1>1, KeyType DEF Abandoned

\* The types of the tables and of the history.
DataOK ==
  /\ claims \subseteq Alerts \X Weeks
  /\ items \in [Items -> Item]
  /\ runs \in 0..MaxRuns /\ edits \in 0..MaxEdits
  /\ told \cup again \cup lost \subseteq Alerts \X Weeks
  /\ reminded \in [Items -> [due: Int, day: Days \cup {Never}]]
  /\ repeats \subseteq Items

\* A step keeps them.
LEMMA DataStep ==
  ASSUME TypeOK, PlacesOK, [Next]_vars
  PROVE  DataOK'
<1>0. DataOK
  BY DEF TypeOK, DataOK
<1>1. \A r \in Runs : run[r] \in Run /\ run[r].day \in Days /\ PlaceOK(run[r])
  BY DEF TypeOK, PlacesOK, Run
<1>k. CASE UNCHANGED <<claims, items, runs, edits, history>>
  BY <1>0, <1>k DEF DataOK, history
<1>2. ASSUME NEW r \in Runs, Start(r) PROVE DataOK'
  <2>1. runs' \in 0..MaxRuns
    <3>1. runs < MaxRuns /\ runs' = runs + 1
      BY <1>2 DEF Start
    <3> QED
      BY <1>0, <3>1, CronAssumption DEF DataOK
  <2> QED
    BY <1>0, <1>2, <2>1 DEF Start, DataOK, history
<1>3. ASSUME NEW r \in Runs, NEW nudges \in BOOLEAN, NEW summaries \in BOOLEAN,
             Hygiene(r, nudges, summaries)
      PROVE  DataOK'
  BY <1>0, <1>3 DEF Hygiene, DataOK, history
<1>4. ASSUME NEW r \in Runs, NEW a \in run[r].todo, ClaimNudge(r, a) PROVE DataOK'
  <2>1. a \in Alerts
    BY <1>1, <1>4 DEF ClaimNudge, PlaceOK
  <2>2. <<a, WeekStart(run[r].day)>> \in Alerts \X Weeks
    BY <1>1, <2>1, KeyType
  <2> QED
    BY <1>0, <1>4, <2>2 DEF ClaimNudge, DataOK, history
<1>t. ASSUME NEW r \in Runs, NEW a \in run[r].todo, run[r].at = "reminders",
             TakeReminder(run[r], a)
      PROVE  /\ items' \in [Items -> Item] /\ repeats' \subseteq Items
             /\ reminded' \in [Items -> [due: Int, day: Days \cup {Never}]]
  <2>1. a \in Items \X Int /\ a[1] \in Items /\ a[2] \in Int
    BY <1>1, <1>t DEF PlaceOK
  <2>2. items' \in [Items -> Item]
    <3>1. items[a[1]] \in Item /\ run[r].day \in Days
      BY <1>0, <1>1, <2>1 DEF DataOK
    <3>2. [items[a[1]] EXCEPT !.last = run[r].day] \in Item
      BY <3>1 DEF Item
    <3> QED
      BY <1>0, <1>t, <2>1, <3>2 DEF TakeReminder, DataOK
  <2>3. reminded' \in [Items -> [due: Int, day: Days \cup {Never}]]
    <3> DEFINE h == reminded[a[1]]
               u == IF h.day = Never \/ h.due < a[2] THEN a[2] ELSE h.due
               v == IF h.day < run[r].day THEN run[r].day ELSE h.day
    <3>1. h.due \in Int /\ h.day \in Days \cup {Never} /\ run[r].day \in Days
      BY <1>0, <1>1, <2>1 DEF DataOK
    <3>2. u \in Int /\ v \in Days \cup {Never}
      BY <2>1, <3>1
    <3>3. reminded' = [reminded EXCEPT ![a[1]] = [due |-> u, day |-> v]]
      BY <1>t DEF TakeReminder
    <3> HIDE DEF u, v
    <3> QED
      BY <1>0, <2>1, <3>2, <3>3 DEF DataOK
  <2>4. repeats' \subseteq Items
    BY <1>0, <1>t, <2>1 DEF TakeReminder, DataOK
  <2> QED
    BY <2>2, <2>3, <2>4
<1>5. ASSUME NEW r \in Runs, NEW a \in run[r].todo,
             ClaimReminder(r, a) \/ ReminderUnanswered(r, a)
      PROVE  DataOK'
  <2>1. /\ run[r].at = "reminders"
        /\ UNCHANGED <<claims, runs, edits, told, again, lost>>
        /\ TakeReminder(run[r], a) \/ UNCHANGED <<items, reminded, repeats>>
    BY <1>5 DEF ClaimReminder, ReminderUnanswered
  <2> QED
    BY <1>0, <1>t, <2>1 DEF DataOK
<1>6. ASSUME NEW r \in Runs, ClaimRecap(r) PROVE DataOK'
  <2>1. <<Recap, WeekStart(run[r].day)>> \in Alerts \X Weeks
    BY <1>1, KeyType DEF Alerts, Recap
  <2> QED
    BY <1>0, <1>6, <2>1 DEF ClaimRecap, DataOK, history
<1>7. ASSUME NEW r \in Runs, NEW ok \in BOOLEAN, Send(r, ok) PROVE DataOK'
  <2>1. run[r].sending \in Alerts => <<run[r].sending, WeekStart(run[r].day)>> \in Alerts \X Weeks
    BY <1>1, KeyType
  <2> QED
    BY <1>0, <1>7, <2>1 DEF Send, DataOK
<1>u. ASSUME NEW r \in Runs, NEW a \in run[r].todo \cup {Recap}, AlertUnanswered(r, a)
      PROVE  DataOK'
  <2>1. a \in Alerts
    BY <1>1, <1>u DEF AlertUnanswered, PlaceOK, Alerts, Recap
  <2>2. <<a, WeekStart(run[r].day)>> \in Alerts \X Weeks
    BY <1>1, <2>1, KeyType
  <2> QED
    BY <1>0, <1>u, <2>2 DEF AlertUnanswered, DataOK
<1>8. ASSUME NEW r \in Runs, StepError(r) \/ Stop(r) PROVE DataOK'
  <2>1. Abandoned(run[r]) \subseteq Alerts \X Weeks
    BY <1>1, AbandonedType
  <2> QED
    BY <1>0, <1>8, <2>1 DEF StepError, Stop, DataOK
<1>9. ASSUME NEW i \in Items, NEW s \in Schedules, SetRecurring(i, s) PROVE DataOK'
  <2>1. items[i] \in Item
    BY <1>0 DEF DataOK
  <2>2. /\ [items[i] EXCEPT !.schedule = s] \in Item
        /\ [there |-> TRUE, schedule |-> s, last |-> Never] \in Item
    BY <2>1 DEF Item
  <2>3. items' \in [Items -> Item]
    BY <1>0, <1>9, <2>2 DEF SetRecurring, DataOK
  <2>4. edits' \in 0..MaxEdits
    BY <1>0, <1>9, CronAssumption DEF SetRecurring, DataOK
  <2> QED
    BY <1>0, <1>9, <2>3, <2>4 DEF SetRecurring, DataOK, history
<1>10. ASSUME NEW i \in Items, RemoveRecurring(i) PROVE DataOK'
  <2>1. NoItem \in Item
    BY CronAssumption DEF NoItem, Item
  <2>2. items' \in [Items -> Item]
    BY <1>0, <1>10, <2>1 DEF RemoveRecurring, DataOK
  <2>3. edits' \in 0..MaxEdits
    BY <1>0, <1>10, CronAssumption DEF RemoveRecurring, DataOK
  <2>4. reminded' \in [Items -> [due: Int, day: Days \cup {Never}]]
    <3>1. NotReminded \in [due: Int, day: Days \cup {Never}]
      BY DEF Never, NotReminded
    <3> QED
      BY <1>0, <1>10, <3>1 DEF RemoveRecurring, DataOK
  <2> QED
    BY <1>0, <1>10, <2>2, <2>3, <2>4 DEF RemoveRecurring, DataOK
<1>11. CASE \E d \in Days : NextDay(d)
  BY <1>k, <1>11 DEF NextDay
<1>12. ASSUME NEW r \in Runs,
              \/ \E near, pace \in SUBSET Categories : ReadBudgets(r, near, pace)
              \/ \E behind \in SUBSET Goals : ReadGoals(r, behind)
              \/ ReadReminders(r) \/ ReadRecap(r) \/ EndStep(r)
       PROVE  DataOK'
  BY <1>k, <1>12 DEF ReadBudgets, ReadGoals, ReadReminders, ReadRecap, EndStep
<1>13. CASE UNCHANGED vars
  BY <1>k, <1>13 DEF vars
<1> QED
  BY <1>2, <1>3, <1>4, <1>5, <1>6, <1>7, <1>8, <1>9, <1>10, <1>11, <1>12, <1>13, <1>u
     DEF Next, RunStep

\* Types, places and dates make an invariant of their own.
BaseInv == TypeOK /\ PlacesOK /\ DatesOK

LEMMA BaseInit == Init => BaseInv
<1> SUFFICES ASSUME Init PROVE BaseInv
  OBVIOUS
<1>1. \A r \in Runs : run[r] = Idle
  BY DEF Init
<1>2. PlacesOK /\ DatesOK
  BY <1>1, IdleFacts DEF PlacesOK, DatesOK, Active, Idle
<1>3. run \in [Runs -> Run]
  BY <1>1, IdleFacts DEF Init
<1>4. today \in Days
  <2>1. \E d \in Days : \A e \in Days : d <= e
    BY CronAssumption
  <2>2. today = CHOOSE d \in Days : \A e \in Days : d <= e
    BY DEF Init
  <2> QED
    BY <2>1, <2>2
<1>5. items \in [Items -> Item]
  BY DEF Init
<1>6. reminded \in [Items -> [due: Int, day: Days \cup {Never}]]
  BY DEF Init, Never, NotReminded
<1>7. runs \in 0..MaxRuns /\ edits \in 0..MaxEdits
  BY CronAssumption DEF Init
<1> QED
  BY <1>2, <1>3, <1>4, <1>5, <1>6, <1>7 DEF Init, BaseInv, TypeOK

LEMMA BaseStep == BaseInv /\ [Next]_vars => BaseInv' /\ today <= today'
<1> SUFFICES ASSUME BaseInv, [Next]_vars PROVE BaseInv' /\ today <= today'
  OBVIOUS
<1>1. TypeOK /\ PlacesOK /\ DatesOK
  BY DEF BaseInv
<1>2. run' \in [Runs -> Run] /\ PlacesOK' /\ DatesOK' /\ today' \in Days /\ today <= today'
  BY <1>1, PlacesStep, DatesStep
<1>3. DataOK'
  BY <1>1, DataStep
<1> QED
  BY <1>2, <1>3 DEF BaseInv, TypeOK, DataOK

\* Every variable keeps its type.
THEOREM TypeCorrect == Spec => []TypeOK
<1>1. BaseInv => TypeOK
  BY DEF BaseInv
<1> QED
  BY <1>1, BaseInit, BaseStep, PTL DEF Spec

\* Whatever date a run starts on, the month's bounds, the month before and the
\* due date of every schedule are right (month_bounds, prev_month_anchor,
\* due_recurring_today): for all dates from 2000 to 2098, not chosen ones.
THEOREM CalendarRight == Spec => []CalendarSound
<1>1. BaseInv => CalendarSound
  BY AllSound DEF BaseInv, TypeOK, CalendarSound
<1> QED
  BY <1>1, BaseInit, BaseStep, PTL DEF Spec

-----------------------------------------------------------------------------
(***************************************************************************)
(* Nudges and recaps.  A step leaves what the user hears of them alone, or *)
(* cleans up, or claims a row, or claims and loses it, or settles a row    *)
(* that was claimed.                                                       *)
(***************************************************************************)
Unheard ==
  /\ UNCHANGED <<claims, told, again, lost>>
  /\ \A q \in Runs : Abandoned(run'[q]) = Abandoned(run[q])

Cleans(r) ==
  /\ UNCHANGED <<today, told, again, lost>>
  /\ \A q \in Runs : Abandoned(run'[q]) = Abandoned(run[q])
  /\ claims' \subseteq claims
  /\ \A c \in claims \ claims' : Reapable(c, run[r].day)

Claims(r, c) ==
  /\ UNCHANGED <<today, told, again, lost>>
  /\ claims' = claims \cup {c}
  /\ Abandoned(run[r]) = {}
  /\ Abandoned(run'[r]) = IF c \in claims THEN {} ELSE {c}
  /\ \A q \in Runs \ {r} : Abandoned(run'[q]) = Abandoned(run[q])

Drops(r, c) ==
  /\ UNCHANGED <<today, told, again>>
  /\ claims' = claims \cup {c}
  /\ lost' = IF c \in claims THEN lost ELSE lost \cup {c}
  /\ \A q \in Runs : Abandoned(run'[q]) = Abandoned(run[q])

Settles(r) ==
  /\ UNCHANGED <<today, claims>>
  /\ Abandoned(run'[r]) = {}
  /\ \A q \in Runs \ {r} : Abandoned(run'[q]) = Abandoned(run[q])
  /\ \/ /\ told' = told \cup Abandoned(run[r])
        /\ again' = again \cup (told \cap Abandoned(run[r]))
        /\ lost' = lost
     \/ /\ UNCHANGED <<told, again>>
        /\ lost' = lost \cup Abandoned(run[r])

\* A run that is not sending has nothing to abandon.
LEMMA NothingAbandoned ==
  ASSUME NEW x, x.at = "idle" \/ x.pc # "send"
  PROVE  Abandoned(x) = {}
BY DEF Abandoned

LEMMA AlertSteps ==
  ASSUME BaseInv, [Next]_vars
  PROVE  \/ Unheard
         \/ \E r \in Runs : /\ Active(r)
                            /\ \/ Cleans(r) \/ Settles(r)
                               \/ \E a \in Alerts :
                                    LET c == <<a, WeekStart(run[r].day)>> IN
                                    Claims(r, c) \/ Drops(r, c)
<1> DEFINE OK == \/ Unheard
                 \/ \E r \in Runs : /\ Active(r)
                                    /\ \/ Cleans(r) \/ Settles(r)
                                       \/ \E a \in Alerts :
                                            LET c == <<a, WeekStart(run[r].day)>> IN
                                            Claims(r, c) \/ Drops(r, c)
<1>0. /\ run \in [Runs -> Run]
      /\ \A r \in Runs : run[r] \in Run /\ PlaceOK(run[r])
  BY DEF BaseInv, TypeOK, PlacesOK
<1>1. ASSUME NEW r \in Runs, NEW y, run' = [run EXCEPT ![r] = y]
      PROVE  run'[r] = y /\ \A q \in Runs \ {r} : run'[q] = run[q]
  BY <1>0, <1>1
<1>q. ASSUME NEW r \in Runs, NEW y, run' = [run EXCEPT ![r] = y],
             UNCHANGED <<claims, told, again, lost>>,
             run[r].pc # "send", Abandoned(y) = {}
      PROVE  OK
  <2>1. Abandoned(run[r]) = {}
    BY <1>q, NothingAbandoned
  <2>2. \A q \in Runs : Abandoned(run'[q]) = Abandoned(run[q])
    BY <1>q, <1>1, <2>1
  <2> QED
    BY <1>q, <2>2 DEF Unheard
<1>n. ASSUME NEW r \in Runs, run[r].at # "idle"
      PROVE  Abandoned(NextStep(run[r])) = {} /\ Abandoned(AfterError(run[r])) = {}
  BY <1>0, <1>n, NextStepFacts, AfterErrorFacts
<1>2. CASE UNCHANGED vars
  BY <1>2 DEF vars, history, Unheard
<1>3. ASSUME NEW r \in Runs, Start(r) PROVE OK
  <2>1. \A q \in Runs : Abandoned(run'[q]) = Abandoned(run[q])
    <3>1. Abandoned(run'[r]) = Abandoned(run[r])
      BY <1>3, StartFacts DEF BaseInv
    <3>2. \A q \in Runs \ {r} : SamePlace(run[q], run'[q]) /\ run'[q].todo \subseteq run[q].todo
      BY <1>3, StartFacts DEF BaseInv
    <3> QED
      BY <1>0, <3>1, <3>2, SamePlaceFacts
  <2> QED
    BY <1>3, <2>1 DEF Start, history, Unheard
<1>4. ASSUME NEW i \in Items, (\E s \in Schedules : SetRecurring(i, s)) \/ RemoveRecurring(i)
      PROVE  OK
  <2>1. \A q \in Runs : Abandoned(run'[q]) = Abandoned(run[q])
    BY <1>0, <1>4, EditFacts, SamePlaceFacts DEF BaseInv
  <2> QED
    BY <1>4, <2>1 DEF SetRecurring, RemoveRecurring, history, Unheard
<1>5. ASSUME NEW d \in Days, NextDay(d) PROVE OK
  BY <1>5 DEF NextDay, history, Unheard
<1>6. ASSUME NEW r \in Runs, NEW nudges \in BOOLEAN, NEW summaries \in BOOLEAN,
             Hygiene(r, nudges, summaries)
      PROVE  OK
  <2>1. run[r].at = "hygiene" /\ run[r].pc # "send"
    BY <1>0, <1>6 DEF Hygiene, PlaceOK
  <2>2. \A q \in Runs : Abandoned(run'[q]) = Abandoned(run[q])
    <3>1. Abandoned(run[r]) = {} /\ Abandoned(NextStep(run[r])) = {}
      BY <1>n, <2>1, NothingAbandoned
    <3>2. run' = [run EXCEPT ![r] = NextStep(run[r])]
      BY <1>6 DEF Hygiene
    <3> QED
      BY <1>1, <3>1, <3>2
  <2>3. claims' \subseteq claims /\ \A c \in claims \ claims' : Reapable(c, run[r].day)
    BY <1>6 DEF Hygiene
  <2> QED
    BY <1>6, <2>1, <2>2, <2>3 DEF Hygiene, history, Cleans, Active
<1>7. ASSUME NEW r \in Runs,
             \/ \E near, pace \in SUBSET Categories : ReadBudgets(r, near, pace)
             \/ \E behind \in SUBSET Goals : ReadGoals(r, behind)
             \/ ReadReminders(r)
      PROVE  OK
  <2>1. /\ UNCHANGED <<claims, told, again, lost>> /\ run[r].pc # "send"
        /\ \E y : run' = [run EXCEPT ![r] = y] /\ y.pc = "claim"
    <3>1. UNCHANGED <<claims, told, again, lost>> /\ run[r].pc # "send"
      BY <1>7 DEF ReadBudgets, ReadGoals, ReadReminders, history
    <3>2. ASSUME NEW near \in SUBSET Categories, NEW pace \in SUBSET Categories,
                 ReadBudgets(r, near, pace)
          PROVE  \E y : run' = [run EXCEPT ![r] = y] /\ y.pc = "claim"
      <4> DEFINE y == [run[r] EXCEPT !.pc = "claim",
                         !.todo = ({"budget"} \X near) \cup ({"pace"} \X pace)]
      <4>1. run' = [run EXCEPT ![r] = y]
        BY <3>2 DEF ReadBudgets
      <4>2. y.pc = "claim"
        BY <1>0 DEF Run
      <4> QED
        BY <4>1, <4>2
    <3>3. ASSUME NEW behind \in SUBSET Goals, ReadGoals(r, behind)
          PROVE  \E y : run' = [run EXCEPT ![r] = y] /\ y.pc = "claim"
      <4> DEFINE y == [run[r] EXCEPT !.pc = "claim", !.listed = FALSE, !.edited = {},
                         !.todo = {"goalpace"} \X behind]
      <4>1. run' = [run EXCEPT ![r] = y]
        BY <3>3 DEF ReadGoals
      <4>2. y.pc = "claim"
        BY <1>0 DEF Run
      <4> QED
        BY <4>1, <4>2
    <3>4. ASSUME ReadReminders(r)
          PROVE  \E y : run' = [run EXCEPT ![r] = y] /\ y.pc = "claim"
      <4> DEFINE y == [run[r] EXCEPT !.pc = "claim",
                 !.todo = {<<i, DueDates[items[i].schedule][run[r].day]>> :
                             i \in {j \in Items : DueToday(j, run[r].day)}}]
      <4>1. run' = [run EXCEPT ![r] = y]
        BY <3>4 DEF ReadReminders
      <4>2. y.pc = "claim"
        BY <1>0 DEF Run
      <4> QED
        BY <4>1, <4>2
    <3> QED
      BY <1>7, <3>1, <3>2, <3>3, <3>4
  <2> QED
    BY <1>q, <2>1, NothingAbandoned
<1>c. ASSUME NEW r \in Runs, NEW a \in Alerts, NEW y,
             run[r].at # "idle", run[r].pc # "send",
             UNCHANGED <<today, told, again, lost>>,
             claims' = claims \cup {<<a, WeekStart(run[r].day)>>},
             run' = [run EXCEPT ![r] = IF NewClaim(a, WeekStart(run[r].day))
                                         THEN Sending(run[r], a) ELSE y],
             Abandoned(y) = {}
      PROVE  OK
  <2> DEFINE k == <<a, WeekStart(run[r].day)>>
             z == Sending(run[r], a)
  <2>1. z.at = run[r].at /\ z.pc = "send" /\ z.sending = a /\ z.day = run[r].day
    BY <1>0 DEF Sending, Run
  <2> HIDE DEF z
  <2>2. Abandoned(z) = {k}
    BY <1>c, <2>1 DEF Abandoned
  <2>3. Abandoned(run[r]) = {}
    BY <1>c, NothingAbandoned
  <2>4. run' = [run EXCEPT ![r] = IF k \in claims THEN y ELSE z]
    BY <1>c DEF NewClaim, z
  <2>5. Abandoned(run'[r]) = IF k \in claims THEN {} ELSE {k}
    BY <1>1, <1>c, <2>2, <2>4
  <2>6. \A q \in Runs \ {r} : Abandoned(run'[q]) = Abandoned(run[q])
    BY <1>1, <2>4
  <2>7. Claims(r, k)
    BY <1>c, <2>3, <2>5, <2>6 DEF Claims
  <2> QED
    BY <1>c, <2>7 DEF Active
<1>8. ASSUME NEW r \in Runs, NEW a \in run[r].todo, ClaimNudge(r, a) PROVE OK
  <2>1. a \in Alerts /\ run[r].at # "idle" /\ run[r].pc = "claim"
    BY <1>0, <1>8 DEF ClaimNudge, PlaceOK
  <2>2. Skip(run[r], a).pc = "claim"
    BY <1>0, <2>1 DEF Skip, Run
  <2>3. Abandoned(Skip(run[r], a)) = {}
    BY <2>2, NothingAbandoned
  <2>4. /\ UNCHANGED <<today, told, again, lost>>
        /\ claims' = claims \cup {<<a, WeekStart(run[r].day)>>}
        /\ run' = [run EXCEPT ![r] = IF NewClaim(a, WeekStart(run[r].day))
                                       THEN Sending(run[r], a) ELSE Skip(run[r], a)]
    BY <1>8 DEF ClaimNudge, history
  <2> QED
    BY <1>c, <2>1, <2>3, <2>4
<1>9. ASSUME NEW r \in Runs, ClaimRecap(r) PROVE OK
  <2>1. Recap \in Alerts /\ run[r].at # "idle" /\ run[r].pc # "send"
    BY <1>9 DEF ClaimRecap, Alerts, Recap
  <2>2. /\ UNCHANGED <<today, told, again, lost>>
        /\ claims' = claims \cup {<<Recap, WeekStart(run[r].day)>>}
        /\ run' = [run EXCEPT ![r] = IF NewClaim(Recap, WeekStart(run[r].day))
                                       THEN Sending(run[r], Recap) ELSE NextStep(run[r])]
    BY <1>9 DEF ClaimRecap, history
  <2> QED
    BY <1>c, <1>n, <2>1, <2>2
<1>10. ASSUME NEW r \in Runs, NEW a \in run[r].todo, ClaimReminder(r, a) PROVE OK
  <2>1. a \notin Alerts /\ run[r].pc = "claim"
    BY <1>0, <1>10, RemindersAreNoAlerts DEF ClaimReminder, PlaceOK
  <2>2. Skip(run[r], a).pc = "claim" /\ Sending(run[r], a).sending = a
    BY <1>0, <2>1 DEF Skip, Sending, Run
  <2>3. Abandoned(Skip(run[r], a)) = {} /\ Abandoned(Sending(run[r], a)) = {}
    BY <2>1, <2>2 DEF Abandoned
  <2>4. /\ UNCHANGED <<claims, told, again, lost>>
        /\ \/ run' = [run EXCEPT ![r] = Sending(run[r], a)]
           \/ run' = [run EXCEPT ![r] = Skip(run[r], a)]
    BY <1>10 DEF ClaimReminder, TakeReminder
  <2> QED
    BY <1>q, <2>1, <2>3, <2>4
<1>11. ASSUME NEW r \in Runs, ReadRecap(r) PROVE OK
  <2> DEFINE y == [run[r] EXCEPT !.pc = "record"]
  <2>1. y.pc = "record"
    BY <1>0 DEF Run
  <2>2. Abandoned(y) = {}
    BY <2>1, NothingAbandoned
  <2>3. /\ UNCHANGED <<claims, told, again, lost>>
        /\ run[r].pc # "send" /\ run[r].at # "idle"
        /\ \/ run' = [run EXCEPT ![r] = NextStep(run[r])]
           \/ run' = [run EXCEPT ![r] = y]
    BY <1>11 DEF ReadRecap, history
  <2> QED
    BY <1>q, <1>n, <2>2, <2>3
<1>12. ASSUME NEW r \in Runs, EndStep(r) PROVE OK
  <2>1. /\ UNCHANGED <<claims, told, again, lost>>
        /\ run[r].pc # "send" /\ run[r].at # "idle"
        /\ run' = [run EXCEPT ![r] = NextStep(run[r])]
    BY <1>12 DEF EndStep, history, Active
  <2> QED
    BY <1>q, <1>n, <2>1
<1>s. ASSUME NEW r \in Runs, NEW y, Active(r), run' = [run EXCEPT ![r] = y], Abandoned(y) = {},
             UNCHANGED <<today, claims>>,
             \/ /\ told' = told \cup Abandoned(run[r])
                /\ again' = again \cup (told \cap Abandoned(run[r]))
                /\ lost' = lost
             \/ /\ UNCHANGED <<told, again>>
                /\ lost' = lost \cup Abandoned(run[r])
      PROVE  OK
  <2>1. /\ Abandoned(run'[r]) = {}
        /\ \A q \in Runs \ {r} : Abandoned(run'[q]) = Abandoned(run[q])
    BY <1>1, <1>s
  <2>2. Settles(r)
    BY <1>s, <2>1 DEF Settles
  <2> QED
    BY <1>s, <2>2
<1>13. ASSUME NEW r \in Runs, NEW ok \in BOOLEAN, Send(r, ok) PROVE OK
  <2> DEFINE y == IF run[r].at = "recap" THEN NextStep(run[r])
                  ELSE [run[r] EXCEPT !.pc = "claim", !.sending = Recap]
             key == <<run[r].sending, WeekStart(run[r].day)>>
  <2>1. Active(r) /\ run[r].at # "idle" /\ run[r].pc = "send"
    BY <1>13 DEF Send, Active
  <2>2. Abandoned(y) = {}
    <3>1. CASE run[r].at = "recap"
      BY <1>n, <2>1, <3>1
    <3>2. CASE run[r].at # "recap"
      <4>1. y.pc = "claim"
        BY <1>0, <3>2 DEF Run
      <4> QED
        BY <4>1, NothingAbandoned
    <3> QED
      BY <3>1, <3>2
  <2>3. run' = [run EXCEPT ![r] = y] /\ UNCHANGED <<today, claims>>
    BY <1>13 DEF Send
  <2>4. Abandoned(run[r]) = IF run[r].sending \in Alerts THEN {key} ELSE {}
    BY <2>1 DEF Abandoned
  <2>5. IF run[r].sending \in Alerts
          THEN /\ told' = IF ok THEN told \cup {key} ELSE told
               /\ again' = IF ok /\ key \in told THEN again \cup {key} ELSE again
               /\ lost' = IF ok THEN lost ELSE lost \cup {key}
          ELSE UNCHANGED <<told, again, lost>>
    BY <1>13 DEF Send
  <2> HIDE DEF y, key
  <2>6. \/ /\ told' = told \cup Abandoned(run[r])
           /\ again' = again \cup (told \cap Abandoned(run[r]))
           /\ lost' = lost
        \/ /\ UNCHANGED <<told, again>>
           /\ lost' = lost \cup Abandoned(run[r])
    <3>1. CASE run[r].sending \notin Alerts
      BY <2>4, <2>5, <3>1
    <3>2. CASE run[r].sending \in Alerts /\ ok
      <4>1. told \cap {key} = IF key \in told THEN {key} ELSE {}
        OBVIOUS
      <4> QED
        BY <2>4, <2>5, <3>2, <4>1
    <3>3. CASE run[r].sending \in Alerts /\ ~ok
      BY <2>4, <2>5, <3>3
    <3> QED
      BY <3>1, <3>2, <3>3
  <2> QED
    BY <1>s, <2>1, <2>2, <2>3, <2>6
<1>14. ASSUME NEW r \in Runs, StepError(r) PROVE OK
  <2>1. /\ Active(r) /\ run[r].at # "idle" /\ run' = [run EXCEPT ![r] = AfterError(run[r])]
        /\ UNCHANGED <<today, claims, told, again>> /\ lost' = lost \cup Abandoned(run[r])
    BY <1>14 DEF StepError, Active
  <2> QED
    BY <1>n, <1>s, <2>1
<1>16. ASSUME NEW r \in Runs, NEW a \in run[r].todo \cup {Recap}, AlertUnanswered(r, a)
       PROVE  OK
  <2> DEFINE k == <<a, WeekStart(run[r].day)>>
  <2>1. a \in Alerts /\ run[r].at # "idle" /\ run[r].pc # "send"
    BY <1>0, <1>16 DEF AlertUnanswered, PlaceOK, Alerts, Recap
  <2>2. Abandoned(run[r]) = {} /\ Abandoned(AfterError(run[r])) = {}
    BY <1>n, <2>1, NothingAbandoned
  <2>3. /\ UNCHANGED <<today, told, again>> /\ claims' = claims \cup {k}
        /\ lost' = IF k \in claims THEN lost ELSE lost \cup {k}
        /\ run' = [run EXCEPT ![r] = AfterError(run[r])]
    BY <1>16 DEF AlertUnanswered, NewClaim
  <2>4. \A q \in Runs : Abandoned(run'[q]) = Abandoned(run[q])
    BY <1>1, <2>2, <2>3
  <2>5. Drops(r, k)
    BY <2>3, <2>4 DEF Drops
  <2> QED
    BY <2>1, <2>5 DEF Active
<1>17. ASSUME NEW r \in Runs, NEW a \in run[r].todo, ReminderUnanswered(r, a) PROVE OK
  <2>1. /\ UNCHANGED <<claims, told, again, lost>>
        /\ run[r].pc = "claim" /\ run[r].at # "idle"
        /\ run' = [run EXCEPT ![r] = AfterError(run[r])]
    BY <1>17 DEF ReminderUnanswered
  <2> QED
    BY <1>n, <1>q, <2>1
<1>15. ASSUME NEW r \in Runs, Stop(r) PROVE OK
  <2>1. /\ Active(r) /\ run' = [run EXCEPT ![r] = Idle]
        /\ UNCHANGED <<today, claims, told, again>> /\ lost' = lost \cup Abandoned(run[r])
    BY <1>15 DEF Stop
  <2> QED
    BY <1>s, <2>1, IdleFacts
<1> QED
  BY <1>2, <1>3, <1>4, <1>5, <1>6, <1>7, <1>8, <1>9, <1>10, <1>11, <1>12, <1>13, <1>14, <1>15,
     <1>16, <1>17 DEF Next, RunStep

\* What has been claimed, as far as any run can tell.
Taken(c) == c \in claims \/ Outdated(c)

AlertInv == SentOK /\ ToldOncePerWeek /\ SilenceExplained

\* The dates of the runs under way.
LEMMA ActiveDates ==
  ASSUME BaseInv, NEW r \in Runs, Active(r)
  PROVE  /\ run[r].day \in Days /\ run[r].day \in Int /\ today \in Days /\ today \in Int
         /\ WeekStart(run[r].day) \in Int /\ WeekStart(today) \in Int
         /\ WeekStart(run[r].day) <= WeekStart(today)
         /\ WeekStart(today) - 7 <= WeekStart(run[r].day)
<1>1. run[r].day \in Days /\ today \in Days
  BY DEF BaseInv, TypeOK, Run
<1>2. run[r].day \in Int /\ today \in Int
  BY <1>1, DayFacts
<1>3. run[r].day <= today /\ today <= run[r].day + 1
  BY <1>2 DEF BaseInv, DatesOK
<1> QED
  BY <1>1, <1>2, <1>3, WeekStartFacts, WeekStartOrder

\* What a run may clean up is too old to be claimed again ...
LEMMA ReapedOutdated ==
  ASSUME BaseInv, NEW r \in Runs, Active(r), NEW c \in Alerts \X Weeks,
         Reapable(c, run[r].day)
  PROVE  Outdated(c)
<1> DEFINE k == 7 * (IF c[1] = Recap THEN KeepSummaries ELSE KeepWeeks)
<1>1. k \in Int /\ c[2] \in Int
  BY CronAssumption DEF Weeks
<1>2. c[2] < WeekStart(run[r].day) - k
  BY DEF Reapable
<1> HIDE DEF k
<1>3. c[2] < WeekStart(today) - k
  BY <1>1, <1>2, ActiveDates
<1> QED
  BY <1>3 DEF Outdated, k

\* ... and stays so, and what a run claims is not.
LEMMA OutdatedStays ==
  ASSUME BaseInv, BaseInv', today <= today', NEW c \in Alerts \X Weeks, Outdated(c)
  PROVE  Outdated(c)'
<1> DEFINE k == 7 * (IF c[1] = Recap THEN KeepSummaries ELSE KeepWeeks)
<1>1. k \in Int /\ c[2] \in Int
  BY CronAssumption DEF Weeks
<1>2. today \in Int /\ today' \in Int
  BY DayFacts DEF BaseInv, TypeOK
<1>3. /\ WeekStart(today) \in Int /\ WeekStart(today') \in Int
      /\ WeekStart(today) <= WeekStart(today')
  BY <1>2, WeekStartFacts, WeekStartOrder
<1>4. c[2] < WeekStart(today) - k
  BY DEF Outdated
<1> HIDE DEF k
<1>5. c[2] < WeekStart(today') - k
  BY <1>1, <1>3, <1>4
<1> QED
  BY <1>5 DEF Outdated, k

LEMMA CurrentNotOutdated ==
  ASSUME BaseInv, NEW r \in Runs, Active(r), NEW a
  PROVE  ~Outdated(<<a, WeekStart(run[r].day)>>)
<1> DEFINE k == IF a = Recap THEN KeepSummaries ELSE KeepWeeks
<1>1. k \in Nat \ {0}
  BY CronAssumption
<1>2. SUFFICES ASSUME Outdated(<<a, WeekStart(run[r].day)>>) PROVE FALSE
  OBVIOUS
<1>3. WeekStart(run[r].day) < WeekStart(today) - 7 * k
  BY <1>2 DEF Outdated
<1>4. WeekStart(today) - 7 <= WeekStart(run[r].day) /\ WeekStart(today) \in Int
      /\ WeekStart(run[r].day) \in Int
  BY ActiveDates
<1> HIDE DEF k
<1> QED
  BY <1>1, <1>3, <1>4

\* Rows are claimed before they are sent, and once a week.
LEMMA AlertStep == BaseInv /\ AlertInv /\ [Next]_vars => AlertInv'
<1> SUFFICES ASSUME BaseInv, AlertInv, [Next]_vars PROVE AlertInv'
  OBVIOUS
<1> DEFINE TakenN(c) == c \in claims' \/ Outdated(c)'
           A(q) == Abandoned(run[q])
           B(q) == Abandoned(run'[q])
<1>0. BaseInv' /\ today <= today'
  BY BaseStep
<1>1. /\ \A c \in told : c \in Alerts \X Weeks
      /\ \A q \in Runs : A(q) \subseteq Alerts \X Weeks
      /\ \A c \in claims : c \in Alerts \X Weeks
  BY AbandonedType DEF BaseInv, TypeOK
<1>2. /\ \A c \in told : Taken(c)
      /\ \A q \in Runs : \A c \in A(q) :
           Taken(c) /\ c \notin told /\ \A p \in Runs \ {q} : c \notin A(p)
      /\ again = {}
      /\ \A c \in claims : c \in told \cup lost \/ \E q \in Runs : c \in A(q)
  BY DEF AlertInv, SentOK, ToldOncePerWeek, SilenceExplained, Taken
<1>3. SUFFICES
        /\ \A c \in told' : TakenN(c)
        /\ \A q \in Runs : \A c \in B(q) :
             TakenN(c) /\ c \notin told' /\ \A p \in Runs \ {q} : c \notin B(p)
        /\ again' = {}
        /\ \A c \in claims' : c \in told' \cup lost' \/ \E q \in Runs : c \in B(q)
  BY DEF AlertInv, SentOK, ToldOncePerWeek, SilenceExplained
<1>4. \A c \in Alerts \X Weeks : Outdated(c) => Outdated(c)'
  BY <1>0, OutdatedStays
<1>5. CASE Unheard
  <2>1. \A q \in Runs : B(q) = A(q)
    BY <1>5 DEF Unheard
  <2>2. told' = told /\ again' = again /\ lost' = lost /\ claims' = claims
    BY <1>5 DEF Unheard
  <2>3. \A c \in Alerts \X Weeks : Taken(c) => TakenN(c)
    BY <1>4, <2>2 DEF Taken
  <2> HIDE DEF A, B, TakenN
  <2> QED
    BY <1>1, <1>2, <2>1, <2>2, <2>3
<1>6. ASSUME NEW r \in Runs, Active(r), Cleans(r)
      PROVE  /\ \A c \in told' : TakenN(c)
             /\ \A q \in Runs : \A c \in B(q) :
                  TakenN(c) /\ c \notin told' /\ \A p \in Runs \ {q} : c \notin B(p)
             /\ again' = {}
             /\ \A c \in claims' : c \in told' \cup lost' \/ \E q \in Runs : c \in B(q)
  <2>1. \A q \in Runs : B(q) = A(q)
    BY <1>6 DEF Cleans
  <2>2. told' = told /\ again' = again /\ lost' = lost /\ claims' \subseteq claims
    BY <1>6 DEF Cleans
  <2>3. \A c \in claims \ claims' : Outdated(c)
    BY <1>1, <1>6, ReapedOutdated DEF Cleans
  <2>4. \A c \in Alerts \X Weeks : Taken(c) => TakenN(c)
    BY <1>4, <2>3 DEF Taken
  <2> HIDE DEF A, B, TakenN
  <2> QED
    BY <1>1, <1>2, <2>1, <2>2, <2>4
<1>7. ASSUME NEW r \in Runs, Active(r), NEW a \in Alerts,
             Claims(r, <<a, WeekStart(run[r].day)>>)
      PROVE  /\ \A c \in told' : TakenN(c)
             /\ \A q \in Runs : \A c \in B(q) :
                  TakenN(c) /\ c \notin told' /\ \A p \in Runs \ {q} : c \notin B(p)
             /\ again' = {}
             /\ \A c \in claims' : c \in told' \cup lost' \/ \E q \in Runs : c \in B(q)
  <2> DEFINE k == <<a, WeekStart(run[r].day)>>
  <2>1. ~Outdated(k)
    BY <1>7, CurrentNotOutdated
  <2>2. /\ told' = told /\ again' = again /\ lost' = lost /\ claims' = claims \cup {k}
        /\ A(r) = {} /\ B(r) = IF k \in claims THEN {} ELSE {k}
        /\ \A q \in Runs \ {r} : B(q) = A(q)
    BY <1>7 DEF Claims
  <2> HIDE DEF k, A, B
  <2>3. \A c \in Alerts \X Weeks : Taken(c) => TakenN(c)
    BY <1>4, <2>2 DEF Taken
  <2>4. TakenN(k)
    BY <2>2
  <2>5. k \notin claims => k \notin told /\ \A q \in Runs : k \notin A(q)
    BY <1>2, <2>1 DEF Taken
  <2> HIDE DEF TakenN
  <2>6. CASE k \in claims
    <3>1. claims' = claims /\ B(r) = A(r)
      BY <2>2, <2>6
    <3>2. \A q \in Runs : B(q) = A(q)
      BY <2>2, <3>1
    <3> QED
      BY <1>1, <1>2, <2>2, <2>3, <3>1, <3>2
  <2>7. CASE k \notin claims
    <3>1. B(r) = {k} /\ \A q \in Runs \ {r} : B(q) = A(q) /\ k \notin A(q)
      BY <2>2, <2>5, <2>7
    <3>2. ASSUME NEW q \in Runs, NEW c \in B(q)
          PROVE  TakenN(c) /\ c \notin told' /\ \A p \in Runs \ {q} : c \notin B(p)
      <4>1. CASE q = r
        BY <2>2, <2>4, <2>5, <2>7, <3>1, <3>2, <4>1
      <4>2. CASE q # r
        BY <1>1, <1>2, <2>2, <2>3, <3>1, <3>2, <4>2
      <4> QED
        BY <4>1, <4>2
    <3>3. \A c \in claims' : c \in told' \cup lost' \/ \E q \in Runs : c \in B(q)
      <4> SUFFICES ASSUME NEW c \in claims', c \notin told' \cup lost'
                   PROVE  \E q \in Runs : c \in B(q)
        OBVIOUS
      <4>1. CASE c = k
        BY <3>1, <4>1
      <4>2. CASE c # k
        <5>1. PICK q \in Runs : c \in A(q)
          BY <1>2, <2>2, <4>2
        <5> QED
          BY <2>2, <5>1
      <4> QED
        BY <4>1, <4>2
    <3> QED
      BY <1>1, <1>2, <2>2, <2>3, <3>2, <3>3
  <2> QED
    BY <2>6, <2>7
<1>9. ASSUME NEW r \in Runs, Active(r), NEW a \in Alerts,
             Drops(r, <<a, WeekStart(run[r].day)>>)
      PROVE  /\ \A c \in told' : TakenN(c)
             /\ \A q \in Runs : \A c \in B(q) :
                  TakenN(c) /\ c \notin told' /\ \A p \in Runs \ {q} : c \notin B(p)
             /\ again' = {}
             /\ \A c \in claims' : c \in told' \cup lost' \/ \E q \in Runs : c \in B(q)
  <2> DEFINE k == <<a, WeekStart(run[r].day)>>
  <2>1. \A q \in Runs : B(q) = A(q)
    BY <1>9 DEF Drops
  <2>2. /\ told' = told /\ again' = again /\ claims' = claims \cup {k}
        /\ lost' = IF k \in claims THEN lost ELSE lost \cup {k}
    BY <1>9 DEF Drops
  <2> HIDE DEF k
  <2>3. \A c \in Alerts \X Weeks : Taken(c) => TakenN(c)
    BY <1>4, <2>2 DEF Taken
  <2> HIDE DEF A, B, TakenN
  <2>4. ASSUME NEW c \in claims'
        PROVE  c \in told' \cup lost' \/ \E q \in Runs : c \in B(q)
    <3>1. CASE c \in claims
      BY <1>2, <2>1, <2>2, <3>1
    <3>2. CASE c \notin claims
      BY <2>2, <2>4, <3>2
    <3> QED
      BY <3>1, <3>2
  <2> QED
    BY <1>1, <1>2, <2>1, <2>2, <2>3, <2>4
<1>8. ASSUME NEW r \in Runs, Active(r), Settles(r)
      PROVE  /\ \A c \in told' : TakenN(c)
             /\ \A q \in Runs : \A c \in B(q) :
                  TakenN(c) /\ c \notin told' /\ \A p \in Runs \ {q} : c \notin B(p)
             /\ again' = {}
             /\ \A c \in claims' : c \in told' \cup lost' \/ \E q \in Runs : c \in B(q)
  <2>1. /\ claims' = claims /\ B(r) = {} /\ \A q \in Runs \ {r} : B(q) = A(q)
        /\ \/ told' = told \cup A(r) /\ again' = again \cup (told \cap A(r)) /\ lost' = lost
           \/ told' = told /\ again' = again /\ lost' = lost \cup A(r)
    BY <1>8 DEF Settles
  <2> HIDE DEF A, B
  <2>2. \A c \in Alerts \X Weeks : Taken(c) => TakenN(c)
    BY <1>4, <2>1 DEF Taken
  <2> HIDE DEF TakenN
  <2>3. told \cap A(r) = {}
    BY <1>2
  <2>4. \A c \in told' : TakenN(c)
    BY <1>1, <1>2, <2>1, <2>2
  <2>5. again' = {}
    BY <1>2, <2>1, <2>3
  <2>6. ASSUME NEW q \in Runs, NEW c \in B(q)
        PROVE  TakenN(c) /\ c \notin told' /\ \A p \in Runs \ {q} : c \notin B(p)
    <3>1. q # r /\ c \in A(q) /\ c \notin A(r)
      BY <1>2, <2>1, <2>6
    <3>2. \A p \in Runs \ {q} : c \notin B(p)
      BY <1>2, <2>1, <3>1
    <3> QED
      BY <1>1, <1>2, <2>1, <2>2, <3>1, <3>2
  <2>7. \A c \in claims' : c \in told' \cup lost' \/ \E q \in Runs : c \in B(q)
    <3> SUFFICES ASSUME NEW c \in claims', c \notin told' \cup lost'
                 PROVE  \E q \in Runs : c \in B(q)
      OBVIOUS
    <3>1. c \notin told \cup lost /\ c \notin A(r)
      BY <2>1
    <3>2. PICK q \in Runs : c \in A(q)
      BY <1>2, <2>1, <3>1
    <3> QED
      BY <2>1, <3>1, <3>2
  <2> QED
    BY <2>4, <2>5, <2>6, <2>7
<1> QED
  BY <1>5, <1>6, <1>7, <1>8, <1>9, AlertSteps

LEMMA AlertInit == Init => AlertInv
<1> SUFFICES ASSUME Init PROVE AlertInv
  OBVIOUS
<1>1. /\ told = {} /\ again = {} /\ claims = {}
      /\ \A q \in Runs : Abandoned(run[q]) = {}
  BY IdleFacts DEF Init
<1> QED
  BY <1>1 DEF AlertInv, SentOK, ToldOncePerWeek, SilenceExplained

\* No nudge and no recap is sent twice in its week, whatever runs overlap, stop
\* or see midnight, and however long rows are kept beyond a week (record_nudge,
\* record_summary, reap_nudges, reap_summary_runs).
THEOREM OncePerWeek == Spec => []ToldOncePerWeek
<1>1. AlertInv => ToldOncePerWeek
  BY DEF AlertInv
<1> QED
  BY <1>1, BaseInit, BaseStep, AlertInit, AlertStep, PTL DEF Spec

\* A week's silence has a cause: a run is about to send the message, or it was
\* claimed and the claim's answer, the send, the recap's reads or the run was
\* lost (record_nudge, record_summary, send_isolated, run_step).
THEOREM SilenceHasACause == Spec => []SilenceExplained
<1>1. AlertInv => SilenceExplained
  BY DEF AlertInv
<1> QED
  BY <1>1, BaseInit, BaseStep, AlertInit, AlertStep, PTL DEF Spec

-----------------------------------------------------------------------------
(***************************************************************************)
(* The recap.                                                              *)
(***************************************************************************)

\* A row that some run may still need is never reaped.
LEMMA TakenStays ==
  ASSUME BaseInv, [Next]_vars, NEW c \in Alerts \X Weeks, Taken(c)
  PROVE  c \in claims' \/ Outdated(c)'
<1>1. BaseInv' /\ today <= today'
  BY BaseStep
<1>2. CASE Outdated(c)
  BY <1>1, <1>2, OutdatedStays
<1>3. CASE c \in claims
  <2>1. CASE claims \subseteq claims'
    BY <1>3, <2>1
  <2>2. ASSUME NEW r \in Runs, Active(r), Cleans(r) PROVE c \in claims' \/ Outdated(c)'
    BY <1>1, <1>3, <2>2, ReapedOutdated, OutdatedStays DEF Cleans
  <2>3. claims \subseteq claims' \/ \E r \in Runs : Active(r) /\ Cleans(r)
    BY AlertSteps DEF Unheard, Claims, Drops, Settles
  <2> QED
    BY <2>1, <2>2, <2>3
<1> QED
  BY <1>2, <1>3 DEF Taken

\* A run that has just got to its end, its recap's step in order, has found the
\* row of its week or claimed it.
LEMMA JustEnded ==
  ASSUME BaseInv, AlertInv, NEW r \in Runs, RunStep(r),
         run'[r].ended, ~run'[r].noRecap
  PROVE  LET c == <<Recap, WeekStart(run[r].day)>> IN
         /\ run'[r].day = run[r].day
         /\ Taken(c) \/ c \in claims'
<1> DEFINE x == run[r]
           c == <<Recap, WeekStart(x.day)>>
           Goal == run'[r].day = x.day /\ (Taken(c) \/ c \in claims')
<1>0. /\ x \in Run /\ PlaceOK(x) /\ run \in [Runs -> Run] /\ x.at # "idle"
  BY RunStepTurns DEF BaseInv, TypeOK, PlacesOK, Active
<1>1. \A y : run' = [run EXCEPT ![r] = y] => run'[r] = y
  BY <1>0
<1>n. ASSUME run' = [run EXCEPT ![r] = NextStep(x)], x.at = "recap" => Taken(c) \/ c \in claims'
      PROVE  Goal
  <2>1. run'[r] = NextStep(x)
    BY <1>n, <1>1
  <2>2. NextStep(x).day = x.day /\ (x.at # "recap" => ~NextStep(x).ended)
    BY <1>0, NextStepFacts
  <2> QED
    BY <1>n, <2>1, <2>2
<1>m. ASSUME NEW y, run' = [run EXCEPT ![r] = y], y.ended = x.ended PROVE Goal
  <2>1. run'[r] = y
    BY <1>m, <1>1
  <2>2. ~x.ended
    BY <1>0 DEF PlaceOK
  <2> QED
    BY <1>m, <2>1, <2>2
<1> HIDE DEF Goal
<1>2. ASSUME NEW nudges \in BOOLEAN, NEW summaries \in BOOLEAN, Hygiene(r, nudges, summaries)
      PROVE  Goal
  BY <1>2, <1>n DEF Hygiene
<1>3. ASSUME NEW near \in SUBSET Categories, NEW pace \in SUBSET Categories,
             ReadBudgets(r, near, pace)
      PROVE  Goal
  <2> DEFINE y == [x EXCEPT !.pc = "claim", !.todo = ({"budget"} \X near) \cup ({"pace"} \X pace)]
  <2>1. y.ended = x.ended
    BY <1>0 DEF Run
  <2>2. run' = [run EXCEPT ![r] = y]
    BY <1>3 DEF ReadBudgets
  <2> QED
    BY <1>m, <2>1, <2>2
<1>4. ASSUME NEW behind \in SUBSET Goals, ReadGoals(r, behind) PROVE Goal
  <2> DEFINE y == [x EXCEPT !.pc = "claim", !.listed = FALSE, !.edited = {},
                     !.todo = {"goalpace"} \X behind]
  <2>1. y.ended = x.ended
    BY <1>0 DEF Run
  <2>2. run' = [run EXCEPT ![r] = y]
    BY <1>4 DEF ReadGoals
  <2> QED
    BY <1>m, <2>1, <2>2
<1>5. ASSUME ReadReminders(r) PROVE Goal
  <2> DEFINE y == [x EXCEPT !.pc = "claim",
                 !.todo = {<<i, DueDates[items[i].schedule][x.day]>> :
                             i \in {j \in Items : DueToday(j, x.day)}}]
  <2>1. y.ended = x.ended
    BY <1>0 DEF Run
  <2>2. run' = [run EXCEPT ![r] = y]
    BY <1>5 DEF ReadReminders
  <2> QED
    BY <1>m, <2>1, <2>2
<1>6. ASSUME NEW a \in x.todo, ClaimNudge(r, a) \/ ClaimReminder(r, a) PROVE Goal
  <2>1. Skip(x, a).ended = x.ended /\ Sending(x, a).ended = x.ended
    BY <1>0 DEF Run, Skip, Sending
  <2>2. \/ run' = [run EXCEPT ![r] = Skip(x, a)]
        \/ run' = [run EXCEPT ![r] = Sending(x, a)]
    BY <1>6 DEF ClaimNudge, ClaimReminder
  <2> QED
    BY <1>m, <2>1, <2>2
<1>7. ASSUME ReadRecap(r) PROVE Goal
  <2> DEFINE y == [x EXCEPT !.pc = "record"]
  <2>1. y.ended = x.ended
    BY <1>0 DEF Run
  <2>2. CASE c \in claims
    BY <1>7, <1>n, <2>2 DEF ReadRecap, Taken
  <2>3. CASE c \notin claims
    <3>1. run' = [run EXCEPT ![r] = y]
      BY <1>7, <2>3 DEF ReadRecap
    <3> QED
      BY <1>m, <2>1, <3>1
  <2> QED
    BY <2>2, <2>3
<1>8. ASSUME ClaimRecap(r) PROVE Goal
  <2>1. Sending(x, Recap).ended = x.ended
    BY <1>0 DEF Run, Sending
  <2>2. c \in claims'
    BY <1>8 DEF ClaimRecap
  <2>3. \/ run' = [run EXCEPT ![r] = Sending(x, Recap)]
        \/ run' = [run EXCEPT ![r] = NextStep(x)]
    BY <1>8 DEF ClaimRecap
  <2> QED
    BY <1>m, <1>n, <2>1, <2>2, <2>3
<1>9. ASSUME NEW ok \in BOOLEAN, Send(r, ok) PROVE Goal
  <2> DEFINE y == [x EXCEPT !.pc = "claim", !.sending = Recap]
  <2>1. y.ended = x.ended
    BY <1>0 DEF Run
  <2>2. CASE x.at = "recap"
    <3>1. x.pc = "send" /\ x.sending = Recap /\ Recap \in Alerts
      BY <1>0, <1>9, <2>2 DEF Send, PlaceOK, Alerts, Recap
    <3>2. Abandoned(x) = {c}
      BY <1>0, <3>1 DEF Abandoned
    <3>3. Taken(c)
      BY <3>2 DEF AlertInv, SentOK, Taken
    <3>4. run' = [run EXCEPT ![r] = NextStep(x)]
      BY <1>9, <2>2 DEF Send
    <3> QED
      BY <1>n, <3>3, <3>4
  <2>3. CASE x.at # "recap"
    <3>1. run' = [run EXCEPT ![r] = y]
      BY <1>9, <2>3 DEF Send
    <3> QED
      BY <1>m, <2>1, <3>1
  <2> QED
    BY <2>2, <2>3
<1>10. ASSUME EndStep(r) PROVE Goal
  <2>1. x.at # "recap"
    BY <1>0, <1>10 DEF EndStep, PlaceOK
  <2> QED
    BY <1>10, <1>n, <2>1 DEF EndStep
<1>11. ASSUME \/ StepError(r)
              \/ \E a \in x.todo \cup {Recap} : AlertUnanswered(r, a)
              \/ \E a \in x.todo : ReminderUnanswered(r, a)
       PROVE  Goal
  <2>1. run'[r] = AfterError(x)
    BY <1>11, <1>1 DEF StepError, AlertUnanswered, ReminderUnanswered
  <2>2. IF x.at = "recap" THEN AfterError(x).noRecap = TRUE ELSE ~AfterError(x).ended
    BY <1>0, AfterErrorFacts
  <2> QED
    BY <2>1, <2>2
<1>12. ASSUME Stop(r) PROVE Goal
  BY <1>12, <1>1 DEF Stop, Idle
<1> QED
  BY <1>2, <1>3, <1>4, <1>5, <1>6, <1>7, <1>8, <1>9, <1>10, <1>11, <1>12 DEF RunStep, Goal

\* What the property says of one run.
SeenTo(x) == x.ended /\ ~x.noRecap => Taken(<<Recap, WeekStart(x.day)>>)

LEMMA SeenToAll ==
  ASSUME TypeOK
  PROVE  RecapDespiteErrors <=> \A r \in Runs : SeenTo(run[r])
<1>1. today \in Days /\ \A r \in Runs : run[r].day \in Days
  BY DEF TypeOK, Run
<1>2. WeekStart(today) \in Int /\ \A r \in Runs : WeekStart(run[r].day) \in Int
  BY <1>1, DayFacts
<1>k. KeepSummaries \in Nat
  BY CronAssumption
<1>3. \A w \in Int : Outdated(<<Recap, w>>) <=> ~(WeekStart(today) - 7 * KeepSummaries <= w)
  BY <1>2, <1>k DEF Outdated
<1> QED
  BY <1>2, <1>3 DEF RecapDespiteErrors, SeenTo, Taken

\* The end of a run keeps its row.
LEMMA RecapStep ==
  BaseInv /\ AlertInv /\ RecapDespiteErrors /\ [Next]_vars => RecapDespiteErrors'
<1> SUFFICES ASSUME BaseInv, AlertInv, RecapDespiteErrors, [Next]_vars
             PROVE  RecapDespiteErrors'
  OBVIOUS
<1> DEFINE key(d) == <<Recap, WeekStart(d)>>
           TakenN(c) == c \in claims' \/ Outdated(c)'
<1>0. /\ TypeOK /\ PlacesOK /\ TypeOK' /\ run \in [Runs -> Run]
      /\ \A q \in Runs : run[q].day \in Days /\ run'[q].day \in Days
  BY BaseStep DEF BaseInv, TypeOK, Run
<1>1. \A q \in Runs : SeenTo(run[q])
  BY <1>0, SeenToAll
<1>2. SUFFICES ASSUME NEW q \in Runs, run'[q].ended, ~run'[q].noRecap,
                      NEW d \in Days, d = run'[q].day
               PROVE  TakenN(key(d))
  <2>1. SUFFICES ASSUME NEW q \in Runs, run'[q].ended, ~run'[q].noRecap,
                        WeekStart(today') - 7 * KeepSummaries <= WeekStart(run'[q].day)
                 PROVE  key(run'[q].day) \in claims'
    BY DEF RecapDespiteErrors
  <2>0. PICK u \in Days : u = run'[q].day
    BY <1>0
  <2>2. TakenN(key(u))
    BY <2>1, <2>0
  <2>3. ASSUME Outdated(key(u))' PROVE FALSE
    <3>1. WeekStart(u) < WeekStart(today') - 7 * KeepSummaries
      BY <2>3 DEF Outdated
    <3>2. WeekStart(u) \in Int /\ WeekStart(today') \in Int
      BY <1>0, DayFacts DEF TypeOK
    <3>3. KeepSummaries \in Nat
      BY CronAssumption
    <3> QED
      BY <2>1, <2>0, <3>1, <3>2, <3>3
  <2> QED
    BY <2>2, <2>3, <2>0
<1>3. \A u \in Days : key(u) \in Alerts \X Weeks
  BY KeyType DEF Alerts, Recap
<1>4. ASSUME SamePlace(run[q], run'[q]) PROVE TakenN(key(d))
  <2>1. Taken(key(d)) /\ d = run[q].day
    BY <1>1, <1>2, <1>4 DEF SeenTo, SamePlace
  <2>2. key(d) \in Alerts \X Weeks
    BY <1>0, <1>3
  <2>3. TakenN(key(d))
    BY <2>1, <2>2, TakenStays
  <2> QED
    BY <2>1, <2>3
<1>5. CASE run' = run
  BY <1>4, <1>5 DEF SamePlace
<1>6. ASSUME NEW r \in Runs, RunStep(r) PROVE TakenN(key(d))
  <2>1. CASE q = r
    <3>1. d = run[q].day /\ (Taken(key(d)) \/ key(d) \in claims')
      BY <1>2, <1>6, <2>1, JustEnded
    <3>2. key(d) \in Alerts \X Weeks
      BY <1>0, <1>3
    <3>3. TakenN(key(d))
      BY <3>1, <3>2, TakenStays
    <3> QED
      BY <3>1, <3>3
  <2>2. CASE q # r
    <3>1. run'[q] = run[q]
      BY <1>0, <1>6, <2>2, RunStepTurns DEF Turn
    <3> QED
      BY <1>4, <3>1 DEF SamePlace
  <2> QED
    BY <2>1, <2>2
<1>7. ASSUME NEW r \in Runs, Start(r) PROVE TakenN(key(d))
  BY <1>0, <1>2, <1>4, <1>7, StartFacts
<1>8. ASSUME NEW i \in Items, (\E s \in Schedules : SetRecurring(i, s)) \/ RemoveRecurring(i)
      PROVE  TakenN(key(d))
  BY <1>0, <1>4, <1>8, EditFacts
<1>9. ASSUME NEW e \in Days, NextDay(e) PROVE run' = run
  BY <1>9 DEF NextDay
<1> QED
  BY <1>5, <1>6, <1>7, <1>8, <1>9 DEF Next, vars

\* A run that reaches its end has seen to its week's recap, whatever failed in
\* the steps before, in it or in runs beside it, and as long as the row is kept
\* (run_step, has_summary_for_week, record_summary, reap_summary_runs).
THEOREM RecapSurvivesErrors == Spec => []RecapDespiteErrors
<1>1. Init => RecapDespiteErrors
  BY DEF Init, RecapDespiteErrors, Idle
<1> QED
  BY <1>1, BaseInit, BaseStep, AlertInit, AlertStep, RecapStep, PTL DEF Spec

-----------------------------------------------------------------------------
(***************************************************************************)
(* Reminders.  A run that is at its reminders goes on with its list, or    *)
(* has not read it yet; one that is past them has none left to do.         *)
(***************************************************************************)
Keeps(x, y) ==
  /\ y.at = "reminders" =>
       \/ y.pc = "read" /\ y.todo = {}
       \/ /\ x.at = "reminders" /\ y.day = x.day /\ (x.met => y.met)
          /\ y.todo = x.todo /\ (y.pc # "read" => x.pc # "read")
          /\ x.edited \subseteq y.edited
  /\ y.listed => x.listed /\ y.day = x.day /\ x.edited \subseteq y.edited

\* Only a run at its reminders, and the user, change items or lists.
LEMMA ReminderSteps ==
  ASSUME BaseInv, [Next]_vars
  PROVE  \/ /\ UNCHANGED <<items, reminded, repeats>>
            /\ \A q \in Runs : Keeps(run[q], run'[q])
         \/ \E r \in Runs : \/ ReadReminders(r)
                            \/ EndStep(r) /\ run[r].at = "reminders"
                            \/ \E a \in run[r].todo :
                                 ClaimReminder(r, a) \/ ReminderUnanswered(r, a)
         \/ \E i \in Items :
              (\E s \in Schedules : SetRecurring(i, s)) \/ RemoveRecurring(i)
<1> DEFINE Same == UNCHANGED <<items, reminded, repeats>>
           OK == Same /\ \A q \in Runs : Keeps(run[q], run'[q])
<1>0. /\ run \in [Runs -> Run] /\ TypeOK /\ PlacesOK
      /\ \A r \in Runs : run[r] \in Run /\ PlaceOK(run[r])
  BY DEF BaseInv, TypeOK, PlacesOK
<1>1. \A x : Keeps(x, x)
  BY DEF Keeps
<1>2. ASSUME NEW r \in Runs, NEW y, run' = [run EXCEPT ![r] = y], Same, Keeps(run[r], y)
      PROVE  OK
  <2>1. run'[r] = y /\ \A q \in Runs \ {r} : run'[q] = run[q]
    BY <1>0, <1>2
  <2> QED
    BY <1>1, <1>2, <2>1
<1>n. ASSUME NEW r \in Runs, run[r].at \notin {"idle", "reminders"}
      PROVE  Keeps(run[r], NextStep(run[r]))
  <2>1. LET y == NextStep(run[r]) IN y.pc = "read" /\ y.todo = {} /\ y.listed = FALSE
    BY <1>0, <1>n, NextStepFacts
  <2> QED
    BY <2>1 DEF Keeps
<1>k. \A x, y : ( /\ y.at = x.at /\ y.day = x.day /\ y.met = x.met /\ y.edited = x.edited
                  /\ y.listed = x.listed
                  /\ x.at = "reminders" => y.todo = x.todo /\ x.pc # "read" )
                => Keeps(x, y)
  BY DEF Keeps
<1>3. CASE UNCHANGED vars
  BY <1>1, <1>3 DEF vars, history
<1>4. ASSUME NEW d \in Days, NextDay(d) PROVE OK
  BY <1>1, <1>4 DEF NextDay, history
<1>5. ASSUME NEW r \in Runs, Start(r) PROVE OK
  <2>1. Keeps(run[r], run'[r])
    BY <1>0, <1>5, StartFacts DEF Keeps
  <2>2. \A q \in Runs \ {r} : Keeps(run[q], run'[q])
    <3>1. \A q \in Runs \ {r} :
              /\ SamePlace(run[q], run'[q])
              /\ run'[q].todo = run[q].todo /\ run'[q].edited = run[q].edited
              /\ (run[q].met => run'[q].met)
      BY <1>0, <1>5, StartFacts
    <3> QED
      BY <3>1 DEF SamePlace, Keeps
  <2>3. Same
    BY <1>5 DEF Start, history
  <2> QED
    BY <2>1, <2>2, <2>3
<1>6. ASSUME NEW r \in Runs, NEW nudges \in BOOLEAN, NEW summaries \in BOOLEAN,
             Hygiene(r, nudges, summaries)
      PROVE  OK
  <2>1. run' = [run EXCEPT ![r] = NextStep(run[r])] /\ Same /\ run[r].at = "hygiene"
    BY <1>6 DEF Hygiene, history
  <2> QED
    BY <1>2, <1>n, <2>1
<1>7. ASSUME NEW r \in Runs, NEW near \in SUBSET Categories, NEW pace \in SUBSET Categories,
             ReadBudgets(r, near, pace)
      PROVE  OK
  <2> DEFINE y == [run[r] EXCEPT !.pc = "claim",
                     !.todo = ({"budget"} \X near) \cup ({"pace"} \X pace)]
  <2>1. run' = [run EXCEPT ![r] = y] /\ Same /\ run[r].at = "budgets"
    BY <1>7 DEF ReadBudgets, history
  <2>2. /\ y.at = run[r].at /\ y.day = run[r].day /\ y.met = run[r].met
        /\ y.edited = run[r].edited /\ y.listed = run[r].listed
    BY <1>0 DEF Run
  <2> HIDE DEF y
  <2>3. Keeps(run[r], y)
    BY <1>k, <2>1, <2>2
  <2> QED
    BY <1>2, <2>1, <2>3
<1>8. ASSUME NEW r \in Runs, NEW behind \in SUBSET Goals, ReadGoals(r, behind) PROVE OK
  <2> DEFINE y == [run[r] EXCEPT !.pc = "claim", !.listed = FALSE, !.edited = {},
                     !.todo = {"goalpace"} \X behind]
  <2>1. run' = [run EXCEPT ![r] = y] /\ Same /\ run[r].at = "goals"
    BY <1>8 DEF ReadGoals, history
  <2>2. y.at = run[r].at /\ y.listed = FALSE
    BY <1>0 DEF Run
  <2> HIDE DEF y
  <2>3. Keeps(run[r], y)
    BY <2>1, <2>2 DEF Keeps
  <2> QED
    BY <1>2, <2>1, <2>3
<1>9. ASSUME NEW r \in Runs, NEW a, run[r].at # "reminders" PROVE
        Keeps(run[r], Skip(run[r], a)) /\ Keeps(run[r], Sending(run[r], a))
  <2>1. \A y \in {Skip(run[r], a), Sending(run[r], a)} :
          /\ y.at = run[r].at /\ y.day = run[r].day /\ y.met = run[r].met
          /\ y.edited = run[r].edited /\ y.listed = run[r].listed
    BY <1>0 DEF Run, Skip, Sending
  <2> QED
    BY <1>9, <1>k, <2>1
<1>10. ASSUME NEW r \in Runs, NEW a \in run[r].todo, ClaimNudge(r, a) PROVE OK
  <2>1. /\ Same /\ run[r].at # "reminders"
        /\ \/ run' = [run EXCEPT ![r] = Skip(run[r], a)]
           \/ run' = [run EXCEPT ![r] = Sending(run[r], a)]
    BY <1>10 DEF ClaimNudge, history
  <2> QED
    BY <1>2, <1>9, <2>1
<1>11. ASSUME NEW r \in Runs, ReadRecap(r) PROVE OK
  <2> DEFINE y == [run[r] EXCEPT !.pc = "record"]
  <2>1. /\ y.at = run[r].at /\ y.day = run[r].day /\ y.met = run[r].met
        /\ y.edited = run[r].edited /\ y.listed = run[r].listed
    BY <1>0 DEF Run
  <2>2. /\ Same /\ run[r].at = "recap"
        /\ \/ run' = [run EXCEPT ![r] = NextStep(run[r])]
           \/ run' = [run EXCEPT ![r] = y]
    BY <1>11 DEF ReadRecap, history
  <2> HIDE DEF y
  <2>3. Keeps(run[r], y)
    BY <1>k, <2>1, <2>2
  <2> QED
    BY <1>2, <1>n, <2>2, <2>3
<1>12. ASSUME NEW r \in Runs, ClaimRecap(r) PROVE OK
  <2>1. /\ Same /\ run[r].at = "recap"
        /\ \/ run' = [run EXCEPT ![r] = Sending(run[r], Recap)]
           \/ run' = [run EXCEPT ![r] = NextStep(run[r])]
    BY <1>12 DEF ClaimRecap, history
  <2> QED
    BY <1>2, <1>9, <1>n, <2>1
<1>13. ASSUME NEW r \in Runs, NEW ok \in BOOLEAN, Send(r, ok) PROVE OK
  <2> DEFINE y == [run[r] EXCEPT !.pc = "claim", !.sending = Recap]
  <2>1. /\ y.at = run[r].at /\ y.day = run[r].day /\ y.met = run[r].met
        /\ y.edited = run[r].edited /\ y.listed = run[r].listed /\ y.todo = run[r].todo
    BY <1>0 DEF Run
  <2>2. /\ Same /\ run[r].pc = "send" /\ run[r].at # "idle"
        /\ run' = [run EXCEPT ![r] = IF run[r].at = "recap" THEN NextStep(run[r]) ELSE y]
    BY <1>13 DEF Send, Active
  <2> HIDE DEF y
  <2>3. Keeps(run[r], y)
    BY <1>k, <2>1, <2>2
  <2>4. CASE run[r].at = "recap"
    BY <1>2, <1>n, <2>2, <2>4
  <2>5. CASE run[r].at # "recap"
    BY <1>2, <2>2, <2>3, <2>5
  <2> QED
    BY <2>4, <2>5
<1>14. ASSUME NEW r \in Runs, EndStep(r), run[r].at # "reminders" PROVE OK
  <2>1. run' = [run EXCEPT ![r] = NextStep(run[r])] /\ Same /\ run[r].at # "idle"
    BY <1>14 DEF EndStep, history, Active
  <2> QED
    BY <1>14, <1>2, <1>n, <2>1
<1>15. ASSUME NEW r \in Runs,
              StepError(r) \/ \E a \in run[r].todo \cup {Recap} : AlertUnanswered(r, a)
       PROVE  OK
  <2>1. /\ run' = [run EXCEPT ![r] = AfterError(run[r])] /\ Same
        /\ run[r].at # "idle"
    BY <1>15 DEF StepError, AlertUnanswered
  <2>2. LET y == AfterError(run[r]) IN y.pc = "read" /\ y.todo = {} /\ y.listed = FALSE
    BY <1>0, <2>1, AfterErrorFacts
  <2>3. Keeps(run[r], AfterError(run[r]))
    BY <2>2 DEF Keeps
  <2> QED
    BY <1>2, <2>1, <2>3
<1>16. ASSUME NEW r \in Runs, Stop(r) PROVE OK
  <2>1. run' = [run EXCEPT ![r] = Idle] /\ Same
    BY <1>16 DEF Stop
  <2>2. Keeps(run[r], Idle)
    BY DEF Idle, Keeps
  <2> QED
    BY <1>2, <2>1, <2>2
<1> QED
  BY <1>3, <1>4, <1>5, <1>6, <1>7, <1>8, <1>10, <1>11, <1>12, <1>13, <1>14, <1>15, <1>16
     DEF Next, RunStep

\* What a run that is past its reminders leaves behind needs none.
CaughtUp(x) ==
  \A i \in Items \ x.edited :
    items[i].there => Settled(i, x.day)

RunOK(x) ==
  /\ x.at = "reminders" => ListOK(x)
  /\ x.listed => CaughtUp(x)

RemindInv == ItemsOK /\ RemindedOnce /\ \A q \in Runs : RunOK(run[q])

\* What the invariant says is what the property says.
LEMMA CaughtUpAll ==
  RemindersCaughtUp <=> \A q \in Runs : run[q].listed => CaughtUp(run[q])
BY DEF RemindersCaughtUp, CaughtUp, Settled

\* The numbers that are compared.
LEMMA ItemTypes ==
  ASSUME TypeOK, NEW i \in Items
  PROVE  /\ items[i].there \in BOOLEAN /\ items[i].schedule \in Schedules
         /\ items[i].last \in Int /\ reminded[i].due \in Int /\ reminded[i].day \in Int
         /\ \A d \in Days : d \in Int /\ d # Never /\ DueDates[items[i].schedule][d] \in Int
<1>1. /\ items[i] \in Item /\ reminded[i] \in [due: Int, day: Days \cup {Never}]
  BY DEF TypeOK
<1>2. \A d \in Days : d \in Int /\ 0 <= d
  BY DayFacts
<1>3. /\ items[i].there \in BOOLEAN /\ items[i].schedule \in Schedules
      /\ items[i].last \in Int
  BY <1>1, <1>2 DEF Item, Never
<1>4. \A d \in Days : DueDates[items[i].schedule][d] \in Int
  <2>1. TAKE d \in Days
  <2>2. items[i].schedule \in Schedule
    BY <1>3, CronAssumption
  <2>3. DueDates[items[i].schedule][d] = DueDate(items[i].schedule, d)
    BY <1>3 DEF DueDates
  <2> QED
    BY <2>2, <2>3, DueDateType
<1>5. \A d \in Days : d # Never
  BY <1>2 DEF Never
<1>6. reminded[i].due \in Int /\ reminded[i].day \in Int
  BY <1>1, <1>2 DEF Never
<1> QED
  BY <1>6, <1>1, <1>2, <1>3, <1>4, <1>5

\* Reading the list: it holds what is due, and nothing that was reminded of.
LEMMA ReadOK ==
  ASSUME BaseInv, RemindInv, NEW r \in Runs, ReadReminders(r)
  PROVE  RemindInv'
<1> DEFINE x == run[r]
           due(i) == DueDates[items[i].schedule][x.day]
           list == {<<i, due(i)>> : i \in {j \in Items : DueToday(j, x.day)}}
           y == [x EXCEPT !.pc = "claim", !.todo = list]
<1>0. TypeOK /\ x \in Run /\ x.day \in Days /\ run \in [Runs -> Run] /\ PlaceOK(x)
  BY DEF BaseInv, TypeOK, PlacesOK, Run
<1>1. /\ run' = [run EXCEPT ![r] = y] /\ UNCHANGED <<items, reminded, repeats>>
      /\ x.at = "reminders"
  BY DEF ReadReminders, history
<1>2. /\ y.at = "reminders" /\ y.day = x.day /\ y.todo = list /\ y.edited = x.edited
      /\ y.listed = x.listed /\ ~x.listed
  BY <1>0, <1>1 DEF Run, PlaceOK
<1> HIDE DEF y
<1>3. ASSUME NEW a \in list PROVE Fresh(y, a)
  <2>1. PICK i \in Items : DueToday(i, x.day) /\ a = <<i, due(i)>>
    OBVIOUS
  <2>2. /\ due(i) \in Int /\ items[i].last \in Int
        /\ reminded[i].due \in Int /\ reminded[i].day \in Int
    BY <1>0, ItemTypes
  <2>3. items[i].last = Never \/ items[i].last < due(i)
    BY <2>1 DEF DueToday
  <2>4. /\ items[i].last <= reminded[i].day
        /\ reminded[i].day # Never => reminded[i].due <= reminded[i].day
    BY DEF RemindInv, ItemsOK
  <2>5. MovedBack(i) \/ reminded[i].day = Never \/ reminded[i].due < a[2]
    BY <2>1, <2>2, <2>3, <2>4 DEF MovedBack
  <2> QED
    BY <2>1, <2>5 DEF Fresh
<1>4. ASSUME NEW i \in Items, items[i].there, <<i, due(i)>> \notin list
      PROVE  Settled(i, x.day)
  <2>1. ~DueToday(i, x.day)
    BY <1>4
  <2>2. due(i) \in Int /\ items[i].last \in Int /\ x.day \in Int /\ reminded[i].day \in Int
    BY <1>0, ItemTypes
  <2>3. \/ items[i].last = x.day \/ x.day < due(i)
        \/ items[i].last # Never /\ due(i) <= items[i].last
    BY <1>4, <2>1, <2>2 DEF DueToday
  <2>5. items[i].last <= reminded[i].day
    BY DEF RemindInv, ItemsOK
  <2>4. x.day < due(i) \/ due(i) <= reminded[i].day
    BY <2>2, <2>3, <2>5
  <2> QED
    BY <2>4 DEF Settled
<1> HIDE DEF list, due
<1>5. ListOK(y)
  <2>1. \A a \in y.todo : Fresh(y, a)
    BY <1>2, <1>3
  <2>2. \A i \in Items \ y.edited :
         items[i].there => Settled(i, y.day) \/ <<i, due(i)>> \in y.todo
    BY <1>2, <1>4
  <2> QED
    BY <1>2, <2>1, <2>2 DEF ListOK, due
<1>6. run'[r] = y /\ \A q \in Runs \ {r} : run'[q] = run[q]
  BY <1>0, <1>1
<1>7. RunOK(y)
  BY <1>2, <1>5 DEF RunOK
<1>8. ASSUME NEW q \in Runs, NEW z, z = run'[q], RunOK(z) PROVE RunOK(run[q])'
  BY <1>1, <1>8 DEF RunOK, ListOK, CaughtUp, Fresh, Settled, MovedBack, BesideMidnight
<1>9. \A q \in Runs : RunOK(run[q])'
  BY <1>6, <1>7, <1>8 DEF RemindInv
<1> QED
  BY <1>1, <1>9 DEF RemindInv, ItemsOK, RemindedOnce

\* What a step does that leaves items and lists alone.
LEMMA KeptOK ==
  ASSUME RemindInv, UNCHANGED <<items, reminded, repeats>>,
         \A q \in Runs : Keeps(run[q], run'[q])
  PROVE  RemindInv'
<1>1. ASSUME NEW q \in Runs, NEW y, y = run'[q] PROVE RunOK(y)
  <2> DEFINE x == run[q]
  <2>0. RunOK(x) /\ Keeps(x, y)
    BY <1>1 DEF RemindInv
  <2>1. ASSUME y.at = "reminders" PROVE ListOK(y)
    <3>1. CASE y.pc = "read" /\ y.todo = {}
      BY <3>1 DEF ListOK
    <3>2. CASE ~(y.pc = "read" /\ y.todo = {})
      <4>1. /\ x.at = "reminders" /\ y.day = x.day /\ (x.met => y.met)
            /\ y.todo = x.todo /\ (y.pc # "read" => x.pc # "read")
            /\ x.edited \subseteq y.edited
        BY <2>0, <2>1, <3>2 DEF Keeps
      <4>2. ListOK(x)
        BY <2>0, <4>1 DEF RunOK
      <4> HIDE DEF x
      <4>3. \A a \in y.todo : Fresh(y, a)
        BY <4>1, <4>2 DEF ListOK, Fresh, BesideMidnight
      <4> QED
        BY <4>1, <4>2, <4>3 DEF ListOK
    <3> QED
      BY <3>1, <3>2
  <2>2. ASSUME y.listed PROVE CaughtUp(y)
    BY <2>0, <2>2 DEF Keeps, RunOK, CaughtUp
  <2> QED
    BY <2>1, <2>2 DEF RunOK
<1>2. ASSUME NEW q \in Runs PROVE RunOK(run[q])'
  <2>1. PICK y : y = run'[q]
    OBVIOUS
  <2>2. RunOK(y)
    BY <1>1, <2>1
  <2> QED
    BY <2>1, <2>2 DEF RunOK, ListOK, CaughtUp, Fresh, Settled, MovedBack, BesideMidnight
<1> QED
  BY <1>2 DEF RemindInv, ItemsOK, RemindedOnce

\* The list is done: nothing is left behind.
LEMMA ListDoneOK ==
  ASSUME BaseInv, RemindInv, NEW r \in Runs, EndStep(r), run[r].at = "reminders"
  PROVE  RemindInv'
<1> DEFINE x == run[r]
           y == NextStep(x)
<1>0. x \in Run /\ run \in [Runs -> Run] /\ PlaceOK(x) /\ ListOK(x)
  BY DEF BaseInv, TypeOK, PlacesOK, RemindInv, RunOK
<1>1. /\ run' = [run EXCEPT ![r] = y] /\ UNCHANGED <<items, reminded, repeats>>
      /\ x.pc = "claim" /\ x.todo = {}
  BY DEF EndStep, history
<1>2. /\ y.pc = "read" /\ y.todo = {} /\ y.day = x.day /\ y.edited = x.edited
  BY <1>0, NextStepFacts
<1>3. CaughtUp(x)
  BY <1>0, <1>1 DEF ListOK, CaughtUp
<1> HIDE DEF y
<1>4. RunOK(y)
  BY <1>2, <1>3 DEF RunOK, ListOK, CaughtUp
<1>6. run'[r] = y /\ \A q \in Runs \ {r} : run'[q] = run[q]
  BY <1>0, <1>1
<1>8. ASSUME NEW q \in Runs, NEW z, z = run'[q], RunOK(z) PROVE RunOK(run[q])'
  BY <1>1, <1>8 DEF RunOK, ListOK, CaughtUp, Fresh, Settled, MovedBack, BesideMidnight
<1>9. \A q \in Runs : RunOK(run[q])'
  BY <1>4, <1>6, <1>8 DEF RemindInv
<1> QED
  BY <1>1, <1>9 DEF RemindInv, ItemsOK, RemindedOnce

\* An entry of the list is skipped: its item was removed, or just reminded of
\* by another run.
LEMMA SkipOK ==
  ASSUME BaseInv, RemindInv, NEW r \in Runs, NEW a \in run[r].todo,
         run[r].at = "reminders", run[r].pc = "claim", ~Reminds(a[1], run[r].day),
         run' = [run EXCEPT ![r] = Skip(run[r], a)], UNCHANGED <<items, reminded, repeats>>
  PROVE  RemindInv'
<1> DEFINE x == run[r]
           i == a[1]
           y == Skip(x, a)
           due(j, d) == DueDates[items[j].schedule][d]
<1>0. /\ x \in Run /\ x.day \in Days /\ run \in [Runs -> Run] /\ PlaceOK(x) /\ TypeOK
  BY DEF BaseInv, TypeOK, PlacesOK, Run
<1>1. /\ a \in Items \X Int /\ i \in Items /\ a[2] \in Int /\ a[2] <= x.day
  BY <1>0 DEF PlaceOK
<1>2. ListOK(x) /\ \A q \in Runs : RunOK(run[q])
  BY <1>1 DEF RemindInv, RunOK
<1>3. /\ x.day \in Int /\ items[i].last \in Int /\ reminded[i].day \in Int
      /\ due(i, x.day) \in Int /\ items[i].last <= reminded[i].day
  BY <1>0, <1>1, ItemTypes DEF RemindInv, ItemsOK
<1>4. /\ y.at = "reminders" /\ y.pc = x.pc /\ y.day = x.day /\ y.met = x.met
      /\ y.todo = x.todo \ {a} /\ y.edited = x.edited /\ y.listed = x.listed
  BY <1>0 DEF Skip, Run
<1>5. ~x.listed
  BY <1>0 DEF PlaceOK
<1>6. items[i].there => Settled(i, x.day)
  <2>1. ASSUME items[i].there PROVE x.day < due(i, x.day) \/ due(i, x.day) <= reminded[i].day
    <3>1. items[i].last = x.day
      BY <2>1 DEF Reminds
    <3> QED
      BY <1>3, <3>1
  <2> QED
    BY <2>1 DEF Settled
<1>r. run'[r] = y /\ \A q \in Runs \ {r} : run'[q] = run[q]
  BY <1>0
<1> HIDE DEF x, i, y
<1>7. \A b \in y.todo : Fresh(y, b)
  BY <1>2, <1>4 DEF ListOK, Fresh, BesideMidnight
<1>8. \A j \in Items \ y.edited :
        items[j].there => Settled(j, y.day) \/ <<j, due(j, y.day)>> \in y.todo
  <2> SUFFICES ASSUME NEW j \in Items \ y.edited, items[j].there, ~Settled(j, y.day)
               PROVE  <<j, due(j, y.day)>> \in y.todo
    OBVIOUS
  <2>1. <<j, due(j, x.day)>> \in x.todo
    BY <1>2, <1>4 DEF ListOK, x
  <2>2. j # i
    BY <1>4, <1>6
  <2>3. <<j, due(j, x.day)>> # a
    BY <2>2 DEF i
  <2> QED
    BY <1>4, <2>1, <2>3
<1>9. RunOK(y)
  BY <1>4, <1>5, <1>7, <1>8 DEF RunOK, ListOK
<1>10. ASSUME NEW q \in Runs, NEW z, z = run'[q], RunOK(z) PROVE RunOK(run[q])'
  BY <1>10 DEF RunOK, ListOK, CaughtUp, Fresh, Settled, MovedBack, BesideMidnight
<1>11. \A q \in Runs : RunOK(run[q])'
  BY <1>r, <1>2, <1>9, <1>10
<1> QED
  BY <1>11 DEF RemindInv, ItemsOK, RemindedOnce

\* A reminder is taken: the item is settled for every run under way, and newer
\* than what a run of another date has on its list only where midnight excuses
\* it.  The run goes on to send it, or its step ends with an error.
LEMMA TakeOK ==
  ASSUME BaseInv, RemindInv, NEW r \in Runs, NEW a \in run[r].todo,
         run[r].at = "reminders", run[r].pc = "claim", TakeReminder(run[r], a),
         NEW y, run' = [run EXCEPT ![r] = y],
         y = Sending(run[r], a) \/ y = AfterError(run[r])
  PROVE  RemindInv'
<1> DEFINE x == run[r]
           i == a[1]
           h == reminded[i]
           SetN(j, d) == Settled(j, d)'
           due(j, d) == DueDates[items[j].schedule][d]
<1>0. /\ x \in Run /\ x.day \in Days /\ run \in [Runs -> Run] /\ PlaceOK(x) /\ TypeOK
      /\ items \in [Items -> Item] /\ reminded \in [Items -> [due: Int, day: Days \cup {Never}]]
      /\ \A q \in Runs : run[q] \in Run /\ PlaceOK(run[q]) /\ run[q].day \in Days
      /\ today \in Days
  BY DEF BaseInv, TypeOK, PlacesOK, Run
<1>1. /\ a \in Items \X Int /\ i \in Items /\ a[2] \in Int /\ a[2] <= x.day
  BY <1>0 DEF PlaceOK
<1>2. ListOK(x) /\ \A q \in Runs : RunOK(run[q])
  BY <1>1 DEF RemindInv, RunOK
<1>3. /\ x.day \in Int /\ x.day # Never /\ Never < x.day
      /\ h.due \in Int /\ h.day \in Int /\ items[i].last \in Int
      /\ \A j \in Items, d \in Days : due(j, d) \in Int
  <2>1. 0 <= x.day
    BY <1>0, DayFacts
  <2> QED
    BY <1>0, <1>1, <2>1, ItemTypes DEF Never
<1>r. run'[r] = y /\ \A q \in Runs \ {r} : run'[q] = run[q]
  BY <1>0
<1>a. items[i].there /\ items[i].last # x.day
  BY DEF TakeReminder, Reminds
<1>4. /\ items' = [items EXCEPT ![i].last = x.day]
      /\ reminded' = [reminded EXCEPT ![i] =
           [due |-> IF h.day = Never \/ h.due < a[2] THEN a[2] ELSE h.due,
            day |-> IF h.day < x.day THEN x.day ELSE h.day]]
      /\ repeats' = IF h.day # Never /\ a[2] <= h.due /\ ~MovedBack(i)
                         /\ ~(x.met /\ h.day \in {x.day - 1, x.day + 1})
                      THEN repeats \cup {i} ELSE repeats
  BY DEF TakeReminder
<1>5. /\ items'[i].there = items[i].there /\ items'[i].schedule = items[i].schedule
      /\ items'[i].last = x.day
      /\ \A j \in Items \ {i} : items'[j] = items[j]
  BY <1>0, <1>1, <1>4 DEF Item
<1>6. /\ reminded'[i].due = (IF h.day = Never \/ h.due < a[2] THEN a[2] ELSE h.due)
      /\ reminded'[i].day = (IF h.day < x.day THEN x.day ELSE h.day)
      /\ \A j \in Items \ {i} : reminded'[j] = reminded[j]
  BY <1>0, <1>1, <1>4
<1>7. repeats' = repeats
  <2>1. Fresh(x, a)
    BY <1>2 DEF ListOK
  <2>2. \/ MovedBack(i) \/ (x.met /\ h.day \in {x.day - 1, x.day + 1})
        \/ h.day = Never \/ h.due < a[2]
    <3>1. \/ items[i].last = x.day \/ MovedBack(i) \/ BesideMidnight(x, i)
          \/ h.day = Never \/ h.due < a[2]
      BY <2>1 DEF Fresh
    <3>2. BesideMidnight(x, i) => x.met /\ h.day \in {x.day - 1, x.day + 1}
      BY DEF BesideMidnight
    <3>3. items[i].last # x.day
      BY <1>a
    <3> HIDE DEF x, h, i
    <3> QED
      BY <3>1, <3>2, <3>3, Zenon
  <2> QED
    BY <1>1, <1>3, <1>4, <2>2
<1>8. ItemsOK'
  <2> SUFFICES ASSUME NEW j \in Items
               PROVE  /\ ~items'[j].there => items'[j].last = Never
                      /\ items'[j].last <= reminded'[j].day
                      /\ reminded'[j].day # Never => reminded'[j].due <= reminded'[j].day
    BY DEF ItemsOK
  <2>1. CASE j = i
    <3>1. h.day # Never => h.due <= h.day
      BY <1>1 DEF RemindInv, ItemsOK
    <3>2. /\ x.day <= reminded'[i].day
          /\ reminded'[i].due <= reminded'[i].day
      <4> HIDE DEF x, h
      <4> QED
        BY <1>1, <1>3, <1>6, <3>1
    <3> QED
      BY <1>a, <1>5, <2>1, <3>2
  <2>2. CASE j # i
    BY <1>5, <1>6, <2>2 DEF RemindInv, ItemsOK
  <2> QED
    BY <2>1, <2>2
\* The last reminder is no earlier than this run, nor than the one before it.
<1>9. /\ reminded'[i].day \in Int /\ x.day <= reminded'[i].day
      /\ reminded'[i].day = x.day \/ x.day < reminded'[i].day
  <2> HIDE DEF x, h
  <2> QED
    BY <1>3, <1>6
\* What was settled stays so, and the item is settled for this run's date.
<1>m. \A j \in Items, d \in Days : Settled(j, d) => SetN(j, d)
  <2>1. TAKE j \in Items, d \in Days
  <2>2. HAVE Settled(j, d)
  <2>3. CASE j = i
    <3>1. PICK e \in Int : e = due(i, d)
      BY <1>1, <1>3
    <3>2. d \in Int
      BY DayFacts
    <3>3. d < e \/ e <= h.day
      BY <2>2, <2>3, <3>1 DEF Settled
    <3>4. h.day <= reminded'[i].day
      <4> HIDE DEF h, x
      <4> QED
        BY <1>3, <1>6
    <3>5. d < e \/ e <= reminded'[i].day
      <4> HIDE DEF h
      <4> QED
        BY <1>3, <1>9, <3>1, <3>2, <3>3, <3>4
    <3>6. DueDates[items'[i].schedule][d] = e
      BY <1>5, <3>1
    <3> QED
      BY <2>3, <3>5, <3>6 DEF Settled
  <2>4. CASE j # i
    BY <1>5, <1>6, <2>2, <2>4 DEF Settled
  <2> QED
    BY <2>3, <2>4
<1>n. ASSUME NEW d, d = x.day PROVE SetN(i, d)
  <2>1. PICK e \in Int : e = due(i, d)
    BY <1>0, <1>1, <1>3, <1>n
  <2>2. d < e \/ e <= reminded'[i].day
    <3> HIDE DEF x
    <3> QED
      BY <1>3, <1>9, <1>n, <2>1
  <2>3. DueDates[items'[i].schedule][d] = e
    BY <1>5, <2>1
  <2> QED
    BY <2>2, <2>3 DEF Settled
<1> HIDE DEF x, h
\* A run of this date finds the item taken, one of another date what midnight
\* excuses.
<1>f. ASSUME NEW q \in Runs, q # r, NEW b \in run[q].todo, Fresh(run[q], b),
             run[q].at = "reminders", NEW w, w = run[q]
      PROVE  Fresh(run[q], b)'
  <2>1. /\ run'[q] = w /\ b[1] \in Items /\ Fresh(w, b)
        /\ Active(q) /\ Active(r) /\ run[q].day = w.day
    BY <1>0, <1>r, <1>f DEF PlaceOK, Active
  <2>2. CASE b[1] # i
    <3>1. items'[b[1]] = items[b[1]] /\ reminded'[b[1]] = reminded[b[1]]
      BY <1>5, <1>6, <2>1, <2>2
    <3> QED
      BY <1>f, <2>1, <3>1 DEF Fresh, MovedBack, BesideMidnight
  <2>3. CASE b[1] = i
    <3>1. w.day = x.day \/ (w.met /\ x.day \in {w.day - 1, w.day + 1})
      <4>1. w.day \in {today, today - 1} /\ x.day \in {today, today - 1}
        BY <1>f, <2>1 DEF BaseInv, DatesOK, x
      <4>2. today \in Int
        BY <1>0, DayFacts
      <4>3. w.day = x.day \/ x.day \in {w.day - 1, w.day + 1}
        BY <4>1, <4>2
      <4>4. w.day # x.day => w.met
        BY <1>f, <2>1 DEF BaseInv, DatesOK, x
      <4> QED
        BY <4>3, <4>4, Zenon
    <3>2. CASE w.day = x.day
      BY <1>5, <2>1, <2>3, <3>2 DEF Fresh
    <3>3. CASE x.day < reminded'[i].day
      BY <1>5, <2>1, <2>3, <3>3 DEF Fresh, MovedBack
    <3>4. CASE w.met /\ x.day \in {w.day - 1, w.day + 1} /\ reminded'[i].day = x.day
      BY <2>1, <2>3, <3>4 DEF Fresh, BesideMidnight
    <3> QED
      BY <1>9, <3>1, <3>2, <3>3, <3>4
  <2> QED
    BY <2>2, <2>3
<1>10. ASSUME NEW q \in Runs, q # r, NEW w, w = run[q] PROVE RunOK(run[q])'
  <2>1. run'[q] = w /\ w.day \in Days /\ RunOK(w)
    BY <1>0, <1>2, <1>r, <1>10
  <2>2. ASSUME NEW j \in Items
        PROVE  /\ items'[j].there = items[j].there
               /\ items'[j].schedule = items[j].schedule
    BY <1>5
  <2>3. w.at = "reminders" => \A b \in w.todo : Fresh(run[q], b)'
    <3>1. w.at = "reminders" => \A b \in run[q].todo : Fresh(run[q], b)
      BY <1>10, <2>1 DEF RunOK, ListOK
    <3> QED
      BY <1>10, <1>f, <2>1, <3>1
  <2>4. ASSUME w.at = "reminders", w.pc # "read", NEW j \in Items \ w.edited, items'[j].there
        PROVE  SetN(j, w.day) \/ <<j, DueDates[items'[j].schedule][w.day]>> \in w.todo
    <3>1. Settled(j, w.day) \/ <<j, DueDates[items[j].schedule][w.day]>> \in w.todo
      BY <2>1, <2>2, <2>4 DEF RunOK, ListOK
    <3> QED
      BY <1>m, <2>1, <2>2, <3>1
  <2>5. ASSUME w.listed, NEW j \in Items \ w.edited, items'[j].there
        PROVE  SetN(j, w.day)
    BY <1>m, <2>1, <2>2, <2>5 DEF RunOK, CaughtUp
  <2>6. w.listed => CaughtUp(run[q])'
    BY <2>1, <2>5 DEF CaughtUp
  <2>7. w.at = "reminders" => ListOK(run[q])'
    BY <2>1, <2>3, <2>4 DEF ListOK
  <2> QED
    BY <2>1, <2>6, <2>7 DEF RunOK
<1>11. CASE y = AfterError(x)
  <2>1. y.pc = "read" /\ y.todo = {} /\ y.listed = FALSE
    BY <1>0, <1>11, AfterErrorFacts DEF x
  <2>2. RunOK(run[r])'
    BY <1>r, <2>1 DEF RunOK, ListOK
  <2>3. \A q \in Runs : RunOK(run[q])'
    BY <1>10, <2>2
  <2> QED
    BY <1>7, <1>8, <2>3 DEF RemindInv, RemindedOnce
<1>12. CASE y = Sending(x, a)
  <2>1. /\ y.at = "reminders" /\ y.day = x.day /\ y.listed = FALSE
        /\ y.todo = x.todo \ {a} /\ y.edited = x.edited /\ y.met = x.met
    BY <1>0, <1>12 DEF Sending, Run, PlaceOK, x
  <2>2. ASSUME NEW b \in y.todo PROVE Fresh(run[r], b)'
    <3>1. b \in x.todo /\ b[1] \in Items /\ Fresh(x, b)
      BY <1>0, <1>2, <2>1, <2>2 DEF PlaceOK, ListOK, x
    <3>2. CASE b[1] = i
      BY <1>5, <1>r, <2>1, <3>2 DEF Fresh
    <3>3. CASE b[1] # i
      <4>1. items'[b[1]] = items[b[1]] /\ reminded'[b[1]] = reminded[b[1]]
        BY <1>5, <1>6, <3>1, <3>3
      <4> QED
        BY <1>r, <2>1, <3>1, <4>1 DEF Fresh, MovedBack, BesideMidnight
    <3> QED
      BY <3>2, <3>3
  <2>3. ASSUME NEW j \in Items \ y.edited, items'[j].there
        PROVE  SetN(j, y.day) \/ <<j, DueDates[items'[j].schedule][y.day]>> \in y.todo
    <3>1. CASE j = i
      BY <1>n, <2>1, <3>1
    <3>2. CASE j # i
      <4>1. items'[j] = items[j] /\ <<j, due(j, x.day)>> # a
        BY <1>5, <3>2 DEF i
      <4>2. Settled(j, x.day) \/ <<j, due(j, x.day)>> \in x.todo
        BY <1>2, <2>1, <2>3, <4>1 DEF ListOK, x
      <4> QED
        BY <1>0, <1>m, <2>1, <4>1, <4>2 DEF x
    <3> QED
      BY <3>1, <3>2
  <2>4. ListOK(run[r])'
    BY <1>r, <2>2, <2>3 DEF ListOK
  <2>5. RunOK(run[r])'
    BY <1>r, <2>1, <2>4 DEF RunOK
  <2>6. \A q \in Runs : RunOK(run[q])'
    BY <1>10, <2>5
  <2> QED
    BY <1>7, <1>8, <2>6 DEF RemindInv, RemindedOnce
<1> QED
  BY <1>11, <1>12 DEF x

\* An entry of the list is taken or skipped.
LEMMA ClaimOK ==
  ASSUME BaseInv, RemindInv, NEW r \in Runs, NEW a \in run[r].todo,
         ClaimReminder(r, a) \/ ReminderUnanswered(r, a)
  PROVE  RemindInv'
<1>1. run[r].at = "reminders" /\ run[r].pc = "claim"
  BY DEF ClaimReminder, ReminderUnanswered
<1>2. CASE ~Reminds(a[1], run[r].day)
  BY <1>1, <1>2, SkipOK DEF ClaimReminder, ReminderUnanswered, TakeReminder
<1>3. CASE Reminds(a[1], run[r].day)
  <2>1. PICK y : /\ run' = [run EXCEPT ![r] = y]
                 /\ y = Sending(run[r], a) \/ y = AfterError(run[r])
    BY <1>3 DEF ClaimReminder, ReminderUnanswered
  <2>2. TakeReminder(run[r], a)
    BY <1>3 DEF ClaimReminder, ReminderUnanswered
  <2> QED
    BY <1>1, <2>1, <2>2, TakeOK
<1> QED
  BY <1>2, <1>3

\* The user's edit: no list vouches for the item any more, and a new schedule
\* leaves the date of the last reminder.
LEMMA EditOK ==
  ASSUME BaseInv, RemindInv, NEW i \in Items,
         (\E s \in Schedules : SetRecurring(i, s)) \/ RemoveRecurring(i)
  PROVE  RemindInv'
<1> DEFINE SetN(j, d) == Settled(j, d)'
<1>0. /\ TypeOK /\ PlacesOK
      /\ items \in [Items -> Item] /\ reminded \in [Items -> [due: Int, day: Days \cup {Never}]]
      /\ \A q \in Runs : PlaceOK(run[q])
  BY DEF BaseInv, TypeOK, PlacesOK
<1>1. /\ \A q \in Runs :
           /\ SamePlace(run[q], run'[q]) /\ run'[q].met = run[q].met
           /\ run'[q].todo \subseteq run[q].todo /\ run[q].edited \subseteq run'[q].edited
           /\ (run[q].at = "reminders" /\ run[q].pc # "read") \/ run[q].listed
                => i \in run'[q].edited
           /\ \A b \in run[q].todo : b[1] # i => b \in run'[q].todo
           /\ RemoveRecurring(i) => \A b \in run'[q].todo : b[1] # i
  BY <1>0, EditFacts
<1>2. /\ repeats' = repeats
      /\ \A j \in Items \ {i} : items'[j] = items[j] /\ reminded'[j] = reminded[j]
  BY <1>0 DEF SetRecurring, RemoveRecurring, history
<1>3. \A j \in Items : ~items[j].there => items[j].last = Never
  BY DEF RemindInv, ItemsOK
<1>4. \/ /\ items'[i].there /\ items'[i].last = items[i].last /\ reminded' = reminded
      \/ /\ ~items'[i].there /\ items'[i].last = Never /\ reminded'[i].day = Never
         /\ RemoveRecurring(i)
  <2>1. ASSUME NEW s \in Schedules, SetRecurring(i, s)
        PROVE  items'[i].there /\ items'[i].last = items[i].last /\ reminded' = reminded
    <3>1. items'[i] = IF items[i].there THEN [items[i] EXCEPT !.schedule = s]
                      ELSE [there |-> TRUE, schedule |-> s, last |-> Never]
      BY <1>0, <2>1 DEF SetRecurring
    <3>2. items[i] \in Item
      BY <1>0
    <3> QED
      BY <1>3, <2>1, <3>1, <3>2 DEF SetRecurring, history, Item
  <2>2. ASSUME RemoveRecurring(i)
        PROVE  ~items'[i].there /\ items'[i].last = Never /\ reminded'[i].day = Never
    BY <1>0, <2>2 DEF RemoveRecurring, NoItem, NotReminded
  <2> QED
    BY <2>1, <2>2
<1>5. ItemsOK'
  <2> SUFFICES ASSUME NEW j \in Items
               PROVE  /\ ~items'[j].there => items'[j].last = Never
                      /\ items'[j].last <= reminded'[j].day
                      /\ reminded'[j].day # Never => reminded'[j].due <= reminded'[j].day
    BY DEF ItemsOK
  <2>1. /\ items[j].last <= reminded[j].day
        /\ reminded[j].day # Never => reminded[j].due <= reminded[j].day
    BY DEF RemindInv, ItemsOK
  <2>2. Never <= Never
    BY DEF Never
  <2> QED
    BY <1>2, <1>3, <1>4, <2>1, <2>2
<1>6. \A j \in Items \ {i} : \A d : SetN(j, d) <=> Settled(j, d)
  BY <1>2 DEF Settled
<1>7. ASSUME NEW q \in Runs, NEW z, z = run'[q]
      PROVE  LET w == run[q] IN
             /\ z.at = w.at /\ z.pc = w.pc /\ z.day = w.day /\ z.met = w.met
             /\ z.listed = w.listed /\ w.edited \subseteq z.edited
             /\ z.todo \subseteq w.todo
             /\ (w.at = "reminders" /\ w.pc # "read") \/ w.listed => i \in z.edited
             /\ \A b \in w.todo : b[1] # i => b \in z.todo
             /\ RemoveRecurring(i) => \A b \in z.todo : b[1] # i
  BY <1>1, <1>7 DEF SamePlace
<1>8. ASSUME NEW q \in Runs, NEW z, z = run'[q], z.at = "reminders"
      PROVE  /\ \A b \in z.todo : Fresh(z, b)'
             /\ z.pc # "read" =>
                  \A j \in Items \ z.edited :
                    items'[j].there
                      => SetN(j, z.day) \/ <<j, DueDates[items'[j].schedule][z.day]>> \in z.todo
  <2> DEFINE w == run[q]
  <2>1. w.at = "reminders" /\ ListOK(w)
    BY <1>7, <1>8 DEF RemindInv, RunOK
  <2>2. /\ z.pc = w.pc /\ z.day = w.day /\ z.met = w.met
        /\ w.edited \subseteq z.edited /\ z.todo \subseteq w.todo
        /\ (w.pc # "read" => i \in z.edited)
        /\ \A b \in w.todo : b[1] # i => b \in z.todo
        /\ RemoveRecurring(i) => \A b \in z.todo : b[1] # i
    BY <1>7, <1>8, <2>1
  <2>3. \A b \in w.todo : b[1] \in Items
    BY <1>0, <2>1 DEF PlaceOK
  <2> HIDE DEF w
  <2>4. ASSUME NEW b \in z.todo PROVE Fresh(z, b)'
    <3>1. Fresh(w, b) /\ b[1] \in Items
      BY <2>1, <2>2, <2>3 DEF ListOK
    <3>2. items'[b[1]].last = items[b[1]].last /\ reminded'[b[1]] = reminded[b[1]]
      BY <1>2, <1>4, <2>2, <3>1
    <3> QED
      BY <2>2, <3>1, <3>2 DEF Fresh, MovedBack, BesideMidnight
  <2>5. ASSUME z.pc # "read", NEW j \in Items \ z.edited, items'[j].there
        PROVE  SetN(j, z.day) \/ <<j, DueDates[items'[j].schedule][z.day]>> \in z.todo
    <3>1. j # i
      BY <2>2, <2>5
    <3>2. items'[j] = items[j] /\ reminded'[j] = reminded[j]
      BY <1>2, <3>1
    <3>3. Settled(j, z.day) \/ <<j, DueDates[items[j].schedule][z.day]>> \in w.todo
      BY <2>1, <2>2, <2>5, <3>2 DEF ListOK
    <3> QED
      BY <1>6, <2>2, <3>1, <3>2, <3>3
  <2> QED
    BY <2>4, <2>5
<1>9. ASSUME NEW q \in Runs, NEW z, z = run'[q], z.listed,
             NEW j \in Items \ z.edited, items'[j].there
      PROVE  SetN(j, z.day)
  <2>1. j # i /\ run[q].listed /\ z.day = run[q].day /\ j \notin run[q].edited
    BY <1>7, <1>9
  <2>2. items'[j] = items[j] /\ reminded'[j] = reminded[j]
    BY <1>2, <2>1
  <2>3. Settled(j, z.day)
    BY <1>9, <2>1, <2>2 DEF RemindInv, RunOK, CaughtUp
  <2> QED
    BY <1>6, <2>1, <2>3
<1>10. ASSUME NEW q \in Runs PROVE RunOK(run[q])'
  <2>1. PICK z : z = run'[q]
    OBVIOUS
  <2>2. z.listed => CaughtUp(run[q])'
    BY <1>9, <2>1 DEF CaughtUp
  <2>3. z.at = "reminders" => ListOK(run[q])'
    BY <1>8, <2>1 DEF ListOK, Fresh, MovedBack, BesideMidnight
  <2> QED
    BY <2>1, <2>2, <2>3 DEF RunOK
<1> QED
  BY <1>2, <1>5, <1>10 DEF RemindInv, RemindedOnce

LEMMA RemindStep == BaseInv /\ RemindInv /\ [Next]_vars => RemindInv'
BY ReminderSteps, KeptOK, ReadOK, ListDoneOK, ClaimOK, EditOK

LEMMA RemindInit == Init => RemindInv
<1> SUFFICES ASSUME Init PROVE RemindInv
  OBVIOUS
<1>1. \A q \in Runs : run[q].at = "idle" /\ ~run[q].listed
  BY DEF Init, Idle
<1>2. ItemsOK
  BY DEF Init, ItemsOK, NotReminded, Never
<1> QED
  BY <1>1, <1>2 DEF Init, RemindInv, RunOK, RemindedOnce

\* No item is claimed again for the latest due date it was claimed for, or for
\* an earlier one, however runs and edits of its schedule interleave
\* (due_recurring_today, claim_reminder), but for the two exceptions of
\* midnight: a run that overlapped one of the date before or after, which was
\* the last to claim it, and a claim where last_reminded_date was set back.
THEOREM NoSecondReminder == Spec => []RemindedOnce
<1>1. RemindInv => RemindedOnce
  BY DEF RemindInv
<1> QED
  BY <1>1, BaseInit, BaseStep, RemindInit, RemindStep, PTL DEF Spec

\* When a run has gone through its reminders, every item that was due by its
\* date has been claimed on its due date or later, whatever other runs took
\* from its list meanwhile (due_recurring_today, claim_reminder).
THEOREM NoneLeftBehind == Spec => []RemindersCaughtUp
<1>1. RemindInv => RemindersCaughtUp
  BY CaughtUpAll DEF RemindInv, RunOK
<1> QED
  BY <1>1, BaseInit, BaseStep, RemindInit, RemindStep, PTL DEF Spec
=============================================================================
