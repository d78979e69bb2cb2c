----------------------------- MODULE AlertsProofs -----------------------------
(***************************************************************************)
(* Theorems about Alerts: for any turns, amounts, limits, contributions and*)
(* target, and any dates of the years 2000 to 2098.                        *)
(***************************************************************************)
EXTENDS Alerts, FiniteSetTheorems, TLAPS

-----------------------------------------------------------------------------
(***************************************************************************)
(* The calendar.                                                           *)
(***************************************************************************)

LEMMA DaysBeforeTable ==
  /\ DaysBefore[1] = 0 /\ DaysBefore[2] = 31 /\ DaysBefore[3] = 59
  /\ DaysBefore[4] = 90 /\ DaysBefore[5] = 120 /\ DaysBefore[6] = 151
  /\ DaysBefore[7] = 181 /\ DaysBefore[8] = 212 /\ DaysBefore[9] = 243
  /\ DaysBefore[10] = 273 /\ DaysBefore[11] = 304 /\ DaysBefore[12] = 334
BY DEF DaysBefore

Years == 1999..2099

LeapDay(y) == IF Leap(y) THEN 1 ELSE 0

LEMMA LeapDaysFacts ==
  ASSUME NEW y \in 1999..2101
  PROVE  /\ LeapDays(y) \in 0..26
         /\ LeapDays(y) <= IF y < 2000 THEN 0 ELSE y - 2000
BY DEF LeapDays

LEMMA LeapDaysNext ==
  ASSUME NEW y \in Years
  PROVE  LeapDays(y + 1) = LeapDays(y) + LeapDay(y)
BY DEF LeapDays, Leap, LeapDay, Years

\* A year is as long as its days, and years do not overlap.
LEMMA YearLength ==
  ASSUME NEW y \in Years
  PROVE  /\ FromYmd(y, 1, 1) \in Int
         /\ FromYmd(y + 1, 1, 1) = FromYmd(y, 1, 1) + 365 + LeapDay(y)
         /\ FromYmd(y, 1, 1) = 365 * (y - 2000) + LeapDays(y)
<1>1. FromYmd(y, 1, 1) = 365 * (y - 2000) + LeapDays(y)
  BY DaysBeforeTable, LeapDaysFacts DEF FromYmd, Years
<1>2. FromYmd(y + 1, 1, 1) = 365 * (y + 1 - 2000) + LeapDays(y + 1)
  <2>1. LeapDays(y + 1) \in Int
    BY LeapDaysFacts DEF Years
  <2> QED
    BY <2>1, DaysBeforeTable DEF FromYmd, Years
<1>3. LeapDays(y) \in Int /\ LeapDay(y) \in Int /\ LeapDays(y + 1) = LeapDays(y) + LeapDay(y)
  BY LeapDaysFacts, LeapDaysNext DEF Years, LeapDay
<1> QED
  BY <1>1, <1>2, <1>3 DEF Years

\* In(n, y): day n is one of year y.
In(n, y) == FromYmd(y, 1, 1) <= n /\ n < FromYmd(y + 1, 1, 1)

LEMMA YearsApart ==
  ASSUME NEW y \in Years, NEW z \in Years, NEW n \in Int, In(n, y), In(n, z)
  PROVE  y = z
<1>1. ASSUME NEW u \in Years, NEW v \in Years, u < v
      PROVE  FromYmd(u + 1, 1, 1) <= FromYmd(v, 1, 1)
  <2>1. /\ FromYmd(u, 1, 1) = 365 * (u - 2000) + LeapDays(u)
        /\ FromYmd(v, 1, 1) = 365 * (v - 2000) + LeapDays(v)
        /\ FromYmd(u + 1, 1, 1) = FromYmd(u, 1, 1) + 365 + LeapDay(u)
    BY YearLength
  <2>2. LeapDays(u) \in 0..26 /\ LeapDays(v) \in 0..26 /\ LeapDay(u) \in 0..1
    BY LeapDaysFacts DEF Years, LeapDay
  <2>3. CASE v = u + 1
    BY <2>1, <2>2, <2>3 DEF Years
  <2>4. CASE v >= u + 2
    BY <2>1, <2>2, <2>4 DEF Years
  <2> QED
    BY <1>1, <2>3, <2>4 DEF Years
<1>2. /\ FromYmd(y, 1, 1) \in Int /\ FromYmd(y + 1, 1, 1) \in Int
      /\ FromYmd(z, 1, 1) \in Int /\ FromYmd(z + 1, 1, 1) \in Int
  BY YearLength DEF LeapDay
<1>3. ~(y < z) /\ ~(z < y)
  BY <1>1, <1>2 DEF In
<1> QED
  BY <1>3 DEF Years

\* Year finds the year of a day.
LEMMA YearFound ==
  ASSUME NEW y \in Years, NEW n \in Int, In(n, y)
  PROVE  Year(n) = y
<1> DEFINE least == 2000 + n \div 366
<1>1. /\ FromYmd(y, 1, 1) = 365 * (y - 2000) + LeapDays(y)
      /\ FromYmd(y + 1, 1, 1) = FromYmd(y, 1, 1) + 365 + LeapDay(y)
  BY YearLength
<1>2. LeapDays(y) \in 0..26 /\ LeapDay(y) \in 0..1
      /\ LeapDays(y) <= IF y < 2000 THEN 0 ELSE y - 2000
  BY LeapDaysFacts DEF Years, LeapDay
<1>3. y = 1999 => LeapDay(y) = 0
  BY DEF LeapDay, Leap
<1>4. n \div 366 \in Int /\ 366 * (n \div 366) <= n /\ n < 366 * (n \div 366) + 366
  OBVIOUS
<1>5. least \in 1999..2099 /\ y \in least..(least + 1)
  BY <1>1, <1>2, <1>3, <1>4 DEF In, Years
<1>6. \A z \in least..(least + 1) : In(n, z) => z = y
  <2> SUFFICES ASSUME NEW z \in least..(least + 1), In(n, z) PROVE z = y
    OBVIOUS
  <2>1. CASE z \in Years
    BY <2>1, YearsApart
  <2>2. CASE z = 2100
    <3>1. FromYmd(2100, 1, 1) = 36525
      BY YearLength, DaysBeforeTable DEF FromYmd, LeapDays, Leap
    <3>2. y = 2099
      BY <1>5, <2>2 DEF Years
    <3>3. n < 36525
      BY <3>1, <3>2 DEF In
    <3> QED
      BY <2>2, <3>1, <3>3 DEF In
  <2> QED
    BY <1>5, <2>1, <2>2 DEF Years
<1> QED
  BY <1>5, <1>6 DEF Year, In

\* The day after the last of month m of year y.
After(y, m) == IF m = 12 THEN FromYmd(y + 1, 1, 1) ELSE FromYmd(y, m + 1, 1)

\* The days of a month are numbered one after another.
LEMMA MonthDays ==
  ASSUME NEW y \in Years, NEW m \in Months, NEW d \in Int
  PROVE  /\ FromYmd(y, m, 1) \in Int
         /\ FromYmd(y, m, d) = FromYmd(y, m, 1) + d - 1
<1>1. LeapDays(y) \in Int
  BY LeapDaysFacts DEF Years
<1>2. DaysBefore[m] \in Int
  BY DaysBeforeTable DEF Months
<1> QED
  BY <1>1, <1>2 DEF FromYmd, Years

\* Where a month starts in its year.
LEMMA MonthStart ==
  ASSUME NEW y \in Years, NEW m \in Months
  PROVE  FromYmd(y, m, 1) = FromYmd(y, 1, 1) + DaysBefore[m] + IF m > 2 THEN LeapDay(y) ELSE 0
<1>1. LeapDays(y) \in Int
  BY LeapDaysFacts DEF Years
<1>2. DaysBefore[m] \in Int /\ DaysBefore[1] = 0
  BY DaysBeforeTable DEF Months
<1> QED
  BY <1>1, <1>2 DEF FromYmd, Years, LeapDay, Months

\* A month has 28 to 31 days, and December 31.
LEMMA MonthLength ==
  ASSUME NEW y \in Years, NEW m \in Months
  PROVE  /\ After(y, m) \in Int
         /\ After(y, m) - FromYmd(y, m, 1) \in 28..31
         /\ m = 12 => FromYmd(y, 12, 31) = After(y, m) - 1
<1>1. /\ FromYmd(y, 1, 1) \in Int /\ LeapDay(y) \in 0..1
      /\ FromYmd(y + 1, 1, 1) = FromYmd(y, 1, 1) + 365 + LeapDay(y)
  BY YearLength DEF LeapDay
<1>2. CASE m = 12
  <2>1. FromYmd(y, 12, 1) = FromYmd(y, 1, 1) + 334 + LeapDay(y)
    BY <1>2, MonthStart, DaysBeforeTable
  <2>2. FromYmd(y, 12, 31) = FromYmd(y, 12, 1) + 30
    BY <1>2, MonthDays
  <2> QED
    BY <1>1, <1>2, <2>1, <2>2 DEF After
<1>3. CASE m # 12
  <2>1. m + 1 \in Months /\ m \in 1..11
    BY <1>3 DEF Months
  <2>2. /\ FromYmd(y, m + 1, 1) = FromYmd(y, 1, 1) + DaysBefore[m + 1]
                                    + IF m + 1 > 2 THEN LeapDay(y) ELSE 0
        /\ FromYmd(y, m, 1) = FromYmd(y, 1, 1) + DaysBefore[m] + IF m > 2 THEN LeapDay(y) ELSE 0
    BY <2>1, MonthStart
  <2>3. DaysBefore[m] \in Int /\ DaysBefore[m + 1] \in Int
    BY <2>1, DaysBeforeTable DEF Months
  <2>4. /\ DaysBefore[m + 1] - DaysBefore[m] \in 28..31
        /\ m = 2 => DaysBefore[m + 1] - DaysBefore[m] = 28
    BY <2>1, DaysBeforeTable
  <2> QED
    BY <1>1, <1>3, <2>1, <2>2, <2>3, <2>4 DEF After
<1> QED
  BY <1>2, <1>3

\* The day is one of month m of year y.
OfMonth(n, y, m) == FromYmd(y, m, 1) <= n /\ n < After(y, m)

\* Months lie in their year, one after another.
LEMMA MonthsApart ==
  ASSUME NEW y \in Years, NEW k \in Months, NEW m \in Months, k < m
  PROVE  After(y, k) <= FromYmd(y, m, 1)
<1>1. FromYmd(y, 1, 1) \in Int /\ LeapDay(y) \in 0..1
  BY YearLength DEF LeapDay
<1>2. k + 1 \in Months /\ After(y, k) = FromYmd(y, k + 1, 1)
  BY DEF After, Months
<1>3. DaysBefore[k + 1] <= DaysBefore[m] /\ DaysBefore[k + 1] \in Int /\ DaysBefore[m] \in Int
  BY <1>2, DaysBeforeTable DEF Months
<1>4. /\ FromYmd(y, k + 1, 1) = FromYmd(y, 1, 1) + DaysBefore[k + 1]
                                  + IF k + 1 > 2 THEN LeapDay(y) ELSE 0
      /\ FromYmd(y, m, 1) = FromYmd(y, 1, 1) + DaysBefore[m] + IF m > 2 THEN LeapDay(y) ELSE 0
  BY <1>2, MonthStart
<1> QED
  BY <1>1, <1>2, <1>3, <1>4 DEF Months

LEMMA MonthInYear ==
  ASSUME NEW y \in Years, NEW m \in Months
  PROVE  FromYmd(y, 1, 1) <= FromYmd(y, m, 1) /\ After(y, m) <= FromYmd(y + 1, 1, 1)
<1>1. /\ FromYmd(y, 1, 1) \in Int /\ LeapDay(y) \in 0..1
      /\ FromYmd(y + 1, 1, 1) = FromYmd(y, 1, 1) + 365 + LeapDay(y)
  BY YearLength DEF LeapDay
<1>2. /\ FromYmd(y, m, 1) = FromYmd(y, 1, 1) + DaysBefore[m] + IF m > 2 THEN LeapDay(y) ELSE 0
      /\ DaysBefore[m] \in 0..334
  BY MonthStart, DaysBeforeTable DEF Months
<1>3. CASE m = 12
  BY <1>1, <1>2, <1>3 DEF After
<1>4. CASE m # 12
  <2>1. After(y, m) <= FromYmd(y, 12, 1)
    BY <1>4, MonthsApart DEF Months
  <2>2. FromYmd(y, 12, 1) = FromYmd(y, 1, 1) + 334 + LeapDay(y)
    BY MonthStart, DaysBeforeTable DEF Months
  <2>3. After(y, m) \in Int
    BY MonthLength
  <2> QED
    BY <1>1, <1>2, <2>1, <2>2, <2>3
<1> QED
  BY <1>3, <1>4

\* Year and Month find the month of a day.
LEMMA MonthFound ==
  ASSUME NEW y \in Years, NEW m \in Months, NEW n \in Int, OfMonth(n, y, m)
  PROVE  Year(n) = y /\ Month(n) = m
<1>1. /\ FromYmd(y, 1, 1) \in Int /\ FromYmd(y + 1, 1, 1) \in Int
      /\ \A k \in Months : FromYmd(y, k, 1) \in Int /\ After(y, k) \in Int
  BY YearLength, MonthDays, MonthLength DEF LeapDay
<1>2. Year(n) = y
  <2>1. In(n, y)
    BY <1>1, MonthInYear DEF In, OfMonth
  <2> QED
    BY <2>1, YearFound
<1> DEFINE Fits(k) == FromYmd(y, k, 1) <= n /\ (k < 12 => n < FromYmd(y, k + 1, 1))
<1>3. Fits(m)
  BY DEF OfMonth, After, Months
<1>4. \A k \in Months : Fits(k) => k = m
  <2> SUFFICES ASSUME NEW k \in Months, Fits(k), k # m PROVE FALSE
    OBVIOUS
  <2>1. CASE k < m
    BY <1>1, <2>1, MonthsApart DEF OfMonth, After, Months
  <2>2. CASE m < k
    BY <1>1, <2>2, MonthsApart DEF OfMonth
  <2> QED
    BY <2>1, <2>2 DEF Months
<1> QED
  BY <1>2, <1>3, <1>4 DEF Month

\* Every day from December 1999 to 2098 has its month.
LEMMA MonthExists ==
  ASSUME NEW n \in Int, -31 <= n, n <= 36150
  PROVE  \E y \in 1999..2098, m \in Months : OfMonth(n, y, m)
<1> DEFINE k == n \div 366
<1>1. /\ k \in Int /\ -1 <= k /\ k <= 98
      /\ 366 * k <= n /\ n < 366 * k + 366
  OBVIOUS
<1>2. \E y \in 1999..2098 : In(n, y)
  <2> HIDE DEF k
  <2> DEFINE y == 2000 + k
  <2>1. y \in Years /\ y + 1 \in Years /\ y \in 1999..2098
    BY <1>1 DEF Years
  <2>2. /\ FromYmd(y, 1, 1) = 365 * (y - 2000) + LeapDays(y)
        /\ FromYmd(y + 1, 1, 1) = 365 * (y + 1 - 2000) + LeapDays(y + 1)
        /\ FromYmd(y + 2, 1, 1) = FromYmd(y + 1, 1, 1) + 365 + LeapDay(y + 1)
    <3>1. FromYmd(y + 1 + 1, 1, 1) = FromYmd(y + 1, 1, 1) + 365 + LeapDay(y + 1)
      BY <2>1, YearLength
    <3>2. y + 1 + 1 = y + 2
      BY <2>1
    <3> QED
      BY <2>1, <3>1, <3>2, YearLength
  <2>3. /\ LeapDays(y) \in 0..26 /\ LeapDays(y + 1) \in 0..26 /\ LeapDay(y + 1) \in 0..1
        /\ LeapDays(y) <= IF y < 2000 THEN 0 ELSE y - 2000
    BY <2>1, LeapDaysFacts DEF Years, LeapDay
  <2> HIDE DEF y
  <2>4. FromYmd(y, 1, 1) <= n /\ n < FromYmd(y + 2, 1, 1)
    <3>1. k = y - 2000
      BY <1>1 DEF y
    <3> QED
      BY <1>1, <2>1, <2>2, <2>3, <3>1
  <2>5. CASE n < FromYmd(y + 1, 1, 1)
    BY <2>1, <2>4, <2>5 DEF In
  <2>6. CASE ~(n < FromYmd(y + 1, 1, 1))
    <3>1. In(n, y + 1)
      BY <2>1, <2>2, <2>3, <2>4, <2>6 DEF In
    <3>2. y + 1 # 2099
      <4>1. FromYmd(2099, 1, 1) = 36160
        BY DaysBeforeTable DEF FromYmd, LeapDays, Leap
      <4>2. ~In(n, 2099)
        BY <4>1 DEF In
      <4> QED
        BY <3>1, <4>2
    <3> QED
      BY <2>1, <3>1, <3>2
  <2> QED
    BY <2>5, <2>6
<1>3. PICK y \in 1999..2098 : In(n, y)
  BY <1>2
<1>4. y \in Years /\ FromYmd(y, 1, 1) \in Int
  BY YearLength DEF Years
<1>5. SUFFICES ASSUME \A m \in Months : ~OfMonth(n, y, m) PROVE FALSE
  BY <1>3
<1>6. \A m \in 1..11 : FromYmd(y, m, 1) <= n => FromYmd(y, m + 1, 1) <= n
  <2> SUFFICES ASSUME NEW m \in 1..11, FromYmd(y, m, 1) <= n PROVE FromYmd(y, m + 1, 1) <= n
    OBVIOUS
  <2>1. m \in Months /\ m + 1 \in Months
    BY DEF Months
  <2>2. FromYmd(y, m + 1, 1) \in Int
    BY <1>4, <2>1, MonthDays
  <2>3. ~(n < FromYmd(y, m + 1, 1))
    BY <1>5, <2>1 DEF OfMonth, After
  <2> QED
    BY <2>2, <2>3
<1>7. FromYmd(y, 12, 1) <= n
  BY <1>3, <1>6 DEF In
<1> QED
  BY <1>3, <1>5, <1>7 DEF In, OfMonth, After, Months

\* month_bounds and days_in_local_month are those of the month.
LEMMA BoundsFound ==
  ASSUME NEW y \in Years, NEW m \in Months, NEW n \in Int, OfMonth(n, y, m)
  PROVE  /\ MonthBounds(n) = <<FromYmd(y, m, 1), After(y, m) - 1>>
         /\ DaysInMonth(n) = After(y, m) - FromYmd(y, m, 1)
<1>1. Year(n) = y /\ Month(n) = m
  BY MonthFound
<1>2. /\ FromYmd(y, m, 1) \in Int /\ After(y, m) \in Int
      /\ After(y, m) - FromYmd(y, m, 1) \in 28..31
  BY MonthDays, MonthLength
<1>3. MonthBounds(n) = <<FromYmd(y, m, 1), After(y, m) - 1>>
  BY <1>1, MonthLength DEF MonthBounds, After
<1>4. OfMonth(After(y, m) - 1, y, m)
  BY <1>2 DEF OfMonth
<1>5. Year(After(y, m) - 1) = y /\ Month(After(y, m) - 1) = m
  BY <1>2, <1>4, MonthFound
<1> QED
  BY <1>2, <1>3, <1>5 DEF DaysInMonth, Day

LEMMA DatesFacts ==
  Days # {} /\ Days \subseteq Nat /\ (\A d \in Days : d <= 36000) /\ Deadline \in Nat
BY AlertsAssumption

\* The dates of the model have their month.
LEMMA DayInMonth ==
  ASSUME NEW d \in Days
  PROVE  \E y \in Years, m \in Months : OfMonth(d, y, m)
<1>1. d \in Nat /\ d <= 36000
  BY DatesFacts
<1>2. \E y \in 1999..2098, m \in Months : OfMonth(d, y, m)
  BY <1>1, MonthExists
<1> QED
  BY <1>2 DEF Years

-----------------------------------------------------------------------------
(***************************************************************************)
(* Least numbers.                                                          *)
(***************************************************************************)

\* A set of numbers that is not empty has a least one.
LEMMA Least ==
  ASSUME NEW T \in SUBSET Nat, T # {}
  PROVE  \E x \in T : \A y \in T : x <= y
<1> DEFINE R == StrictSubsetOrdering(Nat)
           U == {1..n : n \in T}
<1>1. IsWellFoundedOn(R, FiniteSubsetsOf(Nat))
  BY FS_StrictSubsetOrderingWellFounded
<1>2. \A n \in Nat : 1..n \in FiniteSubsetsOf(Nat)
  BY FS_Interval DEF FiniteSubsetsOf
<1>3. U \subseteq FiniteSubsetsOf(Nat) /\ U # {}
  BY <1>2
<1> HIDE DEF R
<1>4. PICK u \in U : \A v \in U : ~(<<v, u>> \in R)
  BY <1>1, <1>3, WFMin, Zenon
<1>5. PICK x \in T : u = 1..x
  OBVIOUS
<1>6. ASSUME NEW y \in T, y < x PROVE FALSE
  <2>1. 1..y \subseteq 1..x /\ x \in 1..x /\ x \notin 1..y
    BY <1>6
  <2>2. <<1..y, 1..x>> \in R
    BY <2>1 DEF R, StrictSubsetOrdering
  <2> QED
    BY <1>4, <1>5, <2>2
<1> QED
  BY <1>6

\* A first number for which something fails has a predecessor for which it
\* does not.
LEMMA LeastBad ==
  ASSUME NEW l \in Nat, NEW m \in Nat, NEW B \in SUBSET (l..m), B # {}, l \notin B
  PROVE  \E n \in B : n \in (l + 1)..m /\ n - 1 \in l..m /\ n - 1 \notin B
<1>1. B \in SUBSET Nat
  OBVIOUS
<1>2. PICK n \in B : \A y \in B : n <= y
  BY <1>1, Least
<1> QED
  BY <1>2

LEMMA FirstBad ==
  ASSUME NEW m \in Nat, NEW B \in SUBSET (0..m), B # {}, 0 \notin B
  PROVE  \E n \in B : n \in 1..m /\ n - 1 \in 0..m /\ n - 1 \notin B
<1>1. \E n \in B : n \in (0 + 1)..m /\ n - 1 \in 0..m /\ n - 1 \notin B
  BY LeastBad
<1> QED
  BY <1>1

-----------------------------------------------------------------------------
(***************************************************************************)
(* Sums.                                                                   *)
(***************************************************************************)

\* P[n] is the sum of the values of v up to n.
PrefixSums(v, P, m) ==
  /\ P \in [0..m -> Int]
  /\ P[0] = v[0]
  /\ \A n \in 1..m : P[n] = P[n - 1] + v[n]

Total(v, m) == (CHOOSE P : PrefixSums(v, P, m))[m]

LEMMA PrefixSumsExist ==
  ASSUME NEW N \in Nat, NEW v \in [0..N -> Int]
  PROVE  \E P : PrefixSums(v, P, N)
<1> DEFINE B == {m \in 0..N : ~ \E P : PrefixSums(v, P, m)}
<1>1. 0 \notin B
  <2>1. PrefixSums(v, [i \in 0..0 |-> v[0]], 0)
    BY DEF PrefixSums
  <2> QED
    BY <2>1
<1>2. ASSUME NEW n \in 1..N, n - 1 \in 0..N, n - 1 \notin B PROVE n \notin B
  <2>1. PICK P : PrefixSums(v, P, n - 1)
    BY <1>2
  <2> DEFINE Q == [i \in 0..n |-> IF i = n THEN P[n - 1] + v[n] ELSE P[i]]
  <2>2. v[n] \in Int /\ P[n - 1] \in Int
    BY <2>1 DEF PrefixSums
  <2>3. Q \in [0..n -> Int] /\ Q[0] = v[0]
    BY <2>1, <2>2 DEF PrefixSums
  <2>4. \A i \in 1..n : Q[i] = Q[i - 1] + v[i]
    BY <2>1 DEF PrefixSums
  <2>5. PrefixSums(v, Q, n)
    BY <2>3, <2>4 DEF PrefixSums
  <2> QED
    BY <2>5
<1>3. B = {}
  BY <1>1, <1>2, FirstBad
<1>4. N \in 0..N
  OBVIOUS
<1> QED
  BY <1>3, <1>4

\* Total is the last prefix sum, whichever way these are found.
LEMMA TotalIs ==
  ASSUME NEW N \in Nat, NEW v \in [0..N -> Int], NEW P, PrefixSums(v, P, N)
  PROVE  Total(v, N) = P[N] /\ P[N] \in Int
<1> DEFINE Q == CHOOSE R : PrefixSums(v, R, N)
           B == {m \in 0..N : P[m] # Q[m]}
<1>1. PrefixSums(v, Q, N)
  BY PrefixSumsExist
<1> HIDE DEF Q
<1>2. 0 \notin B
  BY <1>1 DEF PrefixSums
<1>3. ASSUME NEW n \in 1..N, n - 1 \in 0..N, n - 1 \notin B PROVE n \notin B
  BY <1>1, <1>3 DEF PrefixSums
<1>4. B = {}
  BY <1>2, <1>3, FirstBad
<1>5. P[N] = Q[N] /\ P[N] \in Int
  <2>1. N \in 0..N
    OBVIOUS
  <2> QED
    BY <1>4, <2>1 DEF PrefixSums
<1> QED
  BY <1>5 DEF Q, Total

LEMMA TotalInt ==
  ASSUME NEW N \in Nat, NEW v \in [0..N -> Int]
  PROVE  Total(v, N) \in Int
BY PrefixSumsExist, TotalIs

\* The sum of zeros.
LEMMA TotalZero ==
  ASSUME NEW N \in Nat, NEW v \in [0..N -> Int], \A n \in 0..N : v[n] = 0
  PROVE  Total(v, N) = 0
<1> DEFINE P == [m \in 0..N |-> 0]
<1>1. PrefixSums(v, P, N)
  BY DEF PrefixSums
<1> QED
  BY <1>1, TotalIs

\* The sum changes by as much as one value does.
LEMMA TotalBump ==
  ASSUME NEW N \in Nat, NEW v \in [0..N -> Int], NEW w \in [0..N -> Int],
         NEW t \in 0..N, \A n \in (0..N) \ {t} : w[n] = v[n]
  PROVE  Total(w, N) = Total(v, N) + (w[t] - v[t])
<1>1. PICK P : PrefixSums(v, P, N)
  BY PrefixSumsExist
<1> DEFINE d == w[t] - v[t]
           Q == [m \in 0..N |-> IF t <= m THEN P[m] + d ELSE P[m]]
<1>2. d \in Int /\ w[t] = v[t] + d /\ \A n \in 0..N : P[n] \in Int /\ v[n] \in Int
  BY <1>1 DEF PrefixSums
<1> HIDE DEF d
<1>3. Q \in [0..N -> Int] /\ Q[0] = w[0]
  <2>1. P[0] = v[0]
    BY <1>1 DEF PrefixSums
  <2> QED
    BY <1>2, <2>1
<1>4. ASSUME NEW n \in 1..N PROVE Q[n] = Q[n - 1] + w[n]
  <2>1. /\ P[n] = P[n - 1] + v[n] /\ n - 1 \in 0..N /\ n \in 0..N
        /\ {P[n], P[n - 1], v[n], d} \subseteq Int
    BY <1>1, <1>2 DEF PrefixSums
  <2>2. /\ Q[n] = IF t <= n THEN P[n] + d ELSE P[n]
        /\ Q[n - 1] = IF t <= n - 1 THEN P[n - 1] + d ELSE P[n - 1]
    BY <2>1
  <2> HIDE DEF Q
  <2>3. CASE t = n
    BY <1>2, <2>1, <2>2, <2>3
  <2>4. CASE t # n
    <3>1. w[n] = v[n] /\ (t <= n <=> t <= n - 1)
      BY <2>1, <2>4
    <3> QED
      BY <2>1, <2>2, <3>1
  <2> QED
    BY <2>3, <2>4
<1>5. PrefixSums(w, Q, N)
  BY <1>3, <1>4 DEF PrefixSums
<1>6. Q[N] = P[N] + d
  OBVIOUS
<1> HIDE DEF Q
<1>7. Total(w, N) = Q[N] /\ Total(v, N) = P[N]
  BY <1>1, <1>5, TotalIs
<1> QED
  BY <1>6, <1>7 DEF d

\* SumFunctionOnSet, a fold over a set, adds up the values of its members.
LEMMA SumIsTotal ==
  ASSUME NEW N \in Nat, NEW D \in SUBSET (0..N), NEW v \in [D -> Int],
         NEW C \in SUBSET D
  PROVE  SumFunctionOnSet(v, C) = Total([n \in 0..N |-> IF n \in C THEN v[n] ELSE 0], N)
<1> DEFINE pick(S) == CHOOSE x \in S : TRUE
           row(S) == [n \in 0..N |-> IF n \in S THEN v[n] ELSE 0]
           sum(h, S) == IF S = {} THEN 0 ELSE v[pick(S)] + h[S \ {pick(S)}]
           H == [S \in SUBSET C |-> Total(row(S), N)]
           iter == CHOOSE h : h = [S \in SUBSET C |-> sum(h, S)]
<1>1. \A S \in SUBSET C : row(S) \in [0..N -> Int]
  OBVIOUS
<1>2. \A S \in SUBSET C : S # {} => pick(S) \in S
  OBVIOUS
<1>3. ASSUME NEW S \in SUBSET C PROVE Total(row(S), N) = sum(H, S)
  <2>1. CASE S = {}
    <3>1. \A n \in 0..N : row(S)[n] = 0
      BY <2>1
    <3>2. Total(row(S), N) = 0
      <4>1. row(S) \in [0..N -> Int]
        BY <1>1
      <4> HIDE DEF row
      <4> QED
        BY <3>1, <4>1, TotalZero
    <3> QED
      BY <2>1, <3>2
  <2>2. CASE S # {}
    <3>1. PICK t \in S : t = pick(S)
      BY <1>2, <2>2
    <3> DEFINE R == S \ {t}
    <3>2. R \in SUBSET C /\ t \in 0..N /\ t \in C
      OBVIOUS
    <3>3. /\ \A n \in (0..N) \ {t} : row(S)[n] = row(R)[n]
          /\ row(S)[t] = v[t] /\ row(R)[t] = 0
      BY <3>2
    <3>4. Total(row(S), N) = Total(row(R), N) + (v[t] - 0)
      <4>1. row(S) \in [0..N -> Int] /\ row(R) \in [0..N -> Int]
        BY <1>1, <3>2
      <4>2. PICK u, z : u = row(S) /\ z = row(R)
        OBVIOUS
      <4> HIDE DEF row, R
      <4>3. u \in [0..N -> Int] /\ z \in [0..N -> Int] /\ t \in 0..N
        BY <3>2, <4>1, <4>2
      <4>4. \A n \in (0..N) \ {t} : u[n] = z[n]
        BY <3>3, <4>2
      <4>5. Total(u, N) = Total(z, N) + (u[t] - z[t])
        BY <4>3, <4>4, TotalBump
      <4> QED
        BY <3>3, <4>2, <4>5
    <3>5. H[R] = Total(row(R), N)
      BY <3>2
    <3>6. v[t] \in Int /\ Total(row(R), N) \in Int
      <4>1. row(R) \in [0..N -> Int]
        BY <1>1, <3>2
      <4> HIDE DEF row
      <4> QED
        BY <3>2, <4>1, TotalInt
    <3>7. sum(H, S) = v[t] + H[R]
      BY <2>2, <3>1
    <3> HIDE DEF H, row, R
    <3> QED
      BY <3>4, <3>5, <3>6, <3>7
  <2> QED
    BY <2>1, <2>2
<1>4. H = [S \in SUBSET C |-> sum(H, S)]
  <2> HIDE DEF sum, row
  <2> QED
    BY <1>3
<1>5. iter = [S \in SUBSET C |-> sum(iter, S)]
  <2> HIDE DEF H, sum
  <2> QED
    BY <1>4
<1>6. SumFunctionOnSet(v, C) = iter[C]
  BY DEF SumFunctionOnSet, FoldFunctionOnSet, MapThenFoldSet
<1> HIDE DEF iter
<1>7. \A S \in SUBSET C : iter[S] = H[S]
  <2> DEFINE B == {S \in SUBSET C : iter[S] # H[S]}
             W == StrictSubsetOrdering(C)
  <2>1. IsFiniteSet(C)
    <3>1. IsFiniteSet(0..N)
      BY FS_Interval
    <3> QED
      BY <3>1, FS_Subset
  <2>2. IsWellFoundedOn(W, FiniteSubsetsOf(C))
    BY FS_StrictSubsetOrderingWellFounded
  <2>3. SUFFICES ASSUME B # {} PROVE FALSE
    OBVIOUS
  <2>4. B \subseteq FiniteSubsetsOf(C)
    BY <2>1, FS_Subset DEF FiniteSubsetsOf
  <2>5. PICK S \in B : \A R \in B : ~(<<R, S>> \in W)
    <3> HIDE DEF W, B
    <3> QED
      BY <2>2, <2>3, <2>4, WFMin, Zenon
  <2>6. iter[S] = sum(iter, S) /\ H[S] = sum(H, S)
    <3> HIDE DEF sum, H
    <3> QED
      BY <1>4, <1>5
  <2>7. CASE S = {}
    BY <2>5, <2>6, <2>7
  <2>8. CASE S # {}
    <3>1. PICK t \in S : t = pick(S)
      BY <1>2, <2>8
    <3> HIDE DEF pick, H
    <3>2. S \ {t} \in SUBSET C /\ <<S \ {t}, S>> \in W
      BY DEF StrictSubsetOrdering
    <3>3. iter[S \ {t}] = H[S \ {t}]
      BY <2>5, <3>2
    <3>4. iter[S] = v[t] + iter[S \ {t}] /\ H[S] = v[t] + H[S \ {t}]
      BY <2>6, <2>8, <3>1
    <3> QED
      BY <2>5, <3>3, <3>4
  <2> QED
    BY <2>7, <2>8
<1> HIDE DEF row, sum
<1>8. SumFunctionOnSet(v, C) = Total(row(C), N)
  BY <1>6, <1>7
<1> QED
  BY <1>8 DEF row

\* The sum of numbers that are not negative.
LEMMA TotalNat ==
  ASSUME NEW N \in Nat, NEW v \in [0..N -> Nat]
  PROVE  Total(v, N) \in Nat
<1>0. v \in [0..N -> Int]
  OBVIOUS
<1>1. PICK P : PrefixSums(v, P, N)
  BY <1>0, PrefixSumsExist
<1> DEFINE B == {m \in 0..N : P[m] \notin Nat}
<1>2. 0 \notin B
  BY <1>1 DEF PrefixSums
<1>3. ASSUME NEW n \in 1..N, n - 1 \in 0..N, n - 1 \notin B PROVE n \notin B
  BY <1>1, <1>3 DEF PrefixSums
<1>4. B = {}
  BY <1>2, <1>3, FirstBad
<1>5. P[N] \in Nat
  BY <1>4
<1> QED
  BY <1>0, <1>1, <1>5, TotalIs

\* The sum of sums.
LEMMA TotalAdd ==
  ASSUME NEW N \in Nat, NEW u \in [0..N -> Int], NEW v \in [0..N -> Int],
         NEW w, w = [n \in 0..N |-> u[n] + v[n]]
  PROVE  Total(w, N) = Total(u, N) + Total(v, N)
<1>1. PICK P, Q : PrefixSums(u, P, N) /\ PrefixSums(v, Q, N)
  BY PrefixSumsExist
<1>2. PICK R : R = [n \in 0..N |-> P[n] + Q[n]]
  OBVIOUS
<1>3. /\ P \in [0..N -> Int] /\ P[0] = u[0] /\ Q \in [0..N -> Int] /\ Q[0] = v[0]
      /\ \A n \in 1..N : P[n] = P[n - 1] + u[n] /\ Q[n] = Q[n - 1] + v[n]
  BY <1>1 DEF PrefixSums
<1>4. R \in [0..N -> Int] /\ R[0] = w[0]
  BY <1>2, <1>3
<1>5. ASSUME NEW n \in 1..N PROVE R[n] = R[n - 1] + w[n]
  <2>1. n \in 0..N /\ n - 1 \in 0..N
    OBVIOUS
  <2>2. PICK p, q, a, b \in Int :
          p = P[n - 1] /\ q = Q[n - 1] /\ a = u[n] /\ b = v[n]
    BY <1>3, <2>1
  <2>3. R[n] = p + a + (q + b) /\ R[n - 1] = p + q /\ w[n] = a + b
    BY <1>2, <1>3, <2>1, <2>2
  <2> QED
    BY <2>3
<1>6. PrefixSums(w, R, N)
  BY <1>4, <1>5 DEF PrefixSums
<1>7. N \in 0..N /\ R[N] = P[N] + Q[N]
  BY <1>2
<1>8. w \in [0..N -> Int]
  OBVIOUS
<1>9. Total(w, N) = R[N] /\ Total(u, N) = P[N] /\ Total(v, N) = Q[N]
  BY <1>1, <1>6, <1>8, TotalIs
<1> QED
  BY <1>7, <1>9

\* The sum of one run of numbers after another.
LEMMA TotalConcat ==
  ASSUME NEW N \in Nat, NEW M \in Nat, NEW u \in [0..N -> Int], NEW w \in [0..M -> Int],
         NEW x \in [0..(N + M) -> Int],
         \A n \in 0..N : x[n] = u[n],
         w[0] = 0, \A n \in 1..M : x[N + n] = w[n]
  PROVE  Total(x, N + M) = Total(u, N) + Total(w, M)
<1>1. PICK P, Q : PrefixSums(u, P, N) /\ PrefixSums(w, Q, M)
  BY PrefixSumsExist
<1> DEFINE R == [n \in 0..(N + M) |-> IF n <= N THEN P[n] ELSE P[N] + Q[n - N]]
<1>2. P[N] \in Int /\ Q[0] = 0
  BY <1>1 DEF PrefixSums
<1>3. R \in [0..(N + M) -> Int] /\ R[0] = x[0]
  <2>1. P \in [0..N -> Int] /\ Q \in [0..M -> Int] /\ P[0] = u[0]
    BY <1>1 DEF PrefixSums
  <2>2. ASSUME NEW n \in 0..(N + M)
        PROVE  (IF n <= N THEN P[n] ELSE P[N] + Q[n - N]) \in Int
    <3>1. CASE n <= N
      BY <2>1, <3>1
    <3>2. CASE n > N
      <4>1. n - N \in 0..M
        BY <3>2
      <4>2. Q[n - N] \in Int
        BY <2>1, <4>1
      <4> QED
        BY <1>2, <3>2, <4>2
    <3> QED
      BY <3>1, <3>2
  <2>3. R[0] = x[0]
    BY <2>1
  <2> QED
    BY <2>2, <2>3
<1>4. ASSUME NEW n \in 1..(N + M) PROVE R[n] = R[n - 1] + x[n]
  <2>1. CASE n <= N
    <3>1. R[n] = P[n] /\ R[n - 1] = P[n - 1]
      BY <2>1
    <3>2. n \in 1..N /\ n \in 0..N
      BY <2>1
    <3> HIDE DEF R
    <3> QED
      BY <1>1, <3>1, <3>2 DEF PrefixSums
  <2>2. CASE n > N
    <3> DEFINE k == n - N
    <3>1. k \in 1..M /\ k \in 0..M /\ k - 1 \in 0..M /\ n = N + k
      BY <2>2
    <3>2. R[n] = P[N] + Q[k]
      BY <2>2
    <3>3. R[n - 1] = P[N] + Q[k - 1]
      <4>1. CASE n - 1 <= N
        <5>1. n - 1 = N /\ k - 1 = 0
          BY <2>2, <4>1
        <5>2. R[n - 1] = P[N]
          BY <5>1
        <5> HIDE DEF k, R
        <5> QED
          BY <1>2, <5>1, <5>2
      <4>2. CASE n - 1 > N
        <5>1. R[n - 1] = P[N] + Q[n - 1 - N] /\ n - 1 - N = k - 1
          BY <4>2
        <5> HIDE DEF R, k
        <5> QED
          BY <5>1
      <4> QED
        BY <4>1, <4>2
    <3>4. Q[k] = Q[k - 1] + w[k] /\ {Q[k], Q[k - 1], w[k]} \subseteq Int
      <4> HIDE DEF k
      <4>1. Q \in [0..M -> Int] /\ Q[k] = Q[k - 1] + w[k]
        BY <1>1, <3>1 DEF PrefixSums
      <4> QED
        BY <3>1, <4>1
    <3>5. x[n] = w[k]
      BY <3>1
    <3> HIDE DEF R, k
    <3> QED
      BY <1>2, <3>2, <3>3, <3>4, <3>5
  <2> QED
    BY <2>1, <2>2
<1>5. PrefixSums(x, R, N + M)
  <2> HIDE DEF R
  <2> QED
    BY <1>3, <1>4 DEF PrefixSums
<1>6. R[N + M] = P[N] + Q[M]
  <2>1. CASE M = 0
    <3>1. R[N + M] = P[N]
      BY <2>1
    <3> HIDE DEF R
    <3> QED
      BY <1>2, <2>1, <3>1
  <2>2. CASE M # 0
    <3>1. N + M > N /\ N + M - N = M
      BY <2>2
    <3> QED
      BY <3>1
  <2> QED
    BY <2>1, <2>2
<1> HIDE DEF R
<1>7. N + M \in Nat
  OBVIOUS
<1>8. Total(x, N + M) = R[N + M] /\ Total(u, N) = P[N] /\ Total(w, M) = Q[M]
  BY <1>1, <1>5, <1>7, TotalIs
<1> QED
  BY <1>6, <1>8

-----------------------------------------------------------------------------
(***************************************************************************)
(* The spending of a month.                                                *)
(***************************************************************************)

\* The positions of the month's expenses.
Counted(rs, date) == {n \in DOMAIN rs : InMonth(rs[n], date)}

\* The amounts of some of the rows, and 0 for the others.
Listed(rs, C) == [n \in 0..Len(rs) |-> IF n \in C THEN rs[n].amount ELSE 0]

LEMMA RowFacts ==
  ASSUME NEW r \in Row
  PROVE  r.amount \in Nat /\ r.amount > 0 /\ r.date \in Days /\ r.date \in Nat
<1>1. r.amount \in Amounts /\ r.date \in Days
  BY DEF Row
<1>2. Amounts \subseteq Nat \ {0}
  BY AlertsAssumption
<1>3. Days \subseteq Nat
  BY DatesFacts
<1>4. r.amount \in Nat \ {0}
  BY <1>1, <1>2
<1>5. r.date \in Nat
  BY <1>1, <1>3
<1> QED
  BY <1>1, <1>4, <1>5

LEMMA ListedType ==
  ASSUME NEW rs \in Seq(Row), NEW C \in SUBSET DOMAIN rs
  PROVE  Len(rs) \in Nat /\ Listed(rs, C) \in [0..Len(rs) -> Nat]
<1>1. \A n \in DOMAIN rs : rs[n].amount \in Nat
  BY RowFacts
<1> QED
  BY <1>1 DEF Listed

\* The sum of some of the month's amounts.
LEMMA SumOver ==
  ASSUME NEW rs \in Seq(Row), NEW date \in Days, NEW C \in SUBSET Counted(rs, date)
  PROVE  /\ SumFunctionOnSet(AmountsThisMonth(rs, date), C) = Total(Listed(rs, C), Len(rs))
         /\ SumFunctionOnSet(AmountsThisMonth(rs, date), C) \in Nat
<1>1. PICK N \in Nat : N = Len(rs) /\ DOMAIN rs = 1..N
  OBVIOUS
<1>2. PICK D \in SUBSET (0..N) : D = Counted(rs, date)
  <2>1. Counted(rs, date) \subseteq 1..N /\ 1..N \subseteq 0..N
    BY <1>1 DEF Counted
  <2> QED
    BY <2>1
<1>3. PICK v : v = AmountsThisMonth(rs, date)
  OBVIOUS
<1>4. v = [n \in D |-> rs[n].amount]
  BY <1>2, <1>3 DEF AmountsThisMonth, Counted
<1>5. D \subseteq DOMAIN rs
  BY <1>2 DEF Counted
<1>6. v \in [D -> Int]
  BY <1>4, <1>5, RowFacts
<1>7. C \in SUBSET D
  BY <1>2
<1>8. SumFunctionOnSet(v, C) = Total([n \in 0..N |-> IF n \in C THEN v[n] ELSE 0], N)
  BY <1>2, <1>6, <1>7, SumIsTotal
<1>9. [n \in 0..N |-> IF n \in C THEN v[n] ELSE 0] = Listed(rs, C)
  BY <1>1, <1>4, <1>7 DEF Listed
<1>10. Total(Listed(rs, C), N) \in Nat
  <2>1. Listed(rs, C) \in [0..N -> Nat]
    BY <1>1, <1>5, <1>7, ListedType
  <2> QED
    BY <2>1, TotalNat
<1> QED
  BY <1>1, <1>3, <1>8, <1>9, <1>10

LEMMA SpentIs ==
  ASSUME NEW rs \in Seq(Row), NEW date \in Days
  PROVE  /\ Spent(rs, date) = Total(Listed(rs, Counted(rs, date)), Len(rs))
         /\ Spent(rs, date) \in Nat
<1>1. DOMAIN AmountsThisMonth(rs, date) = Counted(rs, date)
  BY DEF AmountsThisMonth, Counted
<1>2. Spent(rs, date) = SumFunctionOnSet(AmountsThisMonth(rs, date), Counted(rs, date))
  BY <1>1 DEF Spent, SumFunction
<1> QED
  BY <1>2, SumOver

\* What a batch adds to the month is what it logs in the month.
LEMMA SpentConcat ==
  ASSUME NEW rs \in Seq(Row), NEW batch \in Seq(Row), NEW date \in Days
  PROVE  Spent(rs \o batch, date) = Spent(rs, date) + Spent(batch, date)
<1>1. PICK all \in Seq(Row) : all = rs \o batch
  <2>1. rs \o batch \in Seq(Row)
    OBVIOUS
  <2> QED
    BY <2>1
<1>2. PICK N \in Nat, M \in Nat : N = Len(rs) /\ M = Len(batch)
  OBVIOUS
<1>3. /\ Len(all) = N + M /\ DOMAIN rs = 1..N /\ DOMAIN batch = 1..M
      /\ DOMAIN all = 1..(N + M)
      /\ \A n \in 1..N : all[n] = rs[n]
      /\ \A n \in 1..M : all[N + n] = batch[n]
  BY <1>1, <1>2
<1>4. PICK u, w, x : /\ u = Listed(rs, Counted(rs, date))
                     /\ w = Listed(batch, Counted(batch, date))
                     /\ x = Listed(all, Counted(all, date))
  OBVIOUS
<1>5. /\ Counted(rs, date) \in SUBSET DOMAIN rs
      /\ Counted(batch, date) \in SUBSET DOMAIN batch
      /\ Counted(all, date) \in SUBSET DOMAIN all
  BY DEF Counted
<1>6. u \in [0..N -> Nat] /\ w \in [0..M -> Nat] /\ x \in [0..(N + M) -> Nat]
  BY <1>2, <1>3, <1>4, <1>5, ListedType
<1>7. u \in [0..N -> Int] /\ w \in [0..M -> Int] /\ x \in [0..(N + M) -> Int]
  BY <1>6
<1>8. \A n \in 0..N : x[n] = u[n]
  <2> SUFFICES ASSUME NEW n \in 0..N PROVE x[n] = u[n]
    OBVIOUS
  <2>1. n \in 0..(N + M)
    OBVIOUS
  <2>2. n \in Counted(all, date) <=> n \in Counted(rs, date)
    BY <1>3 DEF Counted
  <2>3. n \in Counted(rs, date) => all[n] = rs[n]
    BY <1>3 DEF Counted
  <2> QED
    BY <1>2, <1>3, <1>4, <2>1, <2>2, <2>3 DEF Listed
<1>9. w[0] = 0
  BY <1>2, <1>3, <1>4 DEF Listed, Counted
<1>10. \A n \in 1..M : x[N + n] = w[n]
  <2> SUFFICES ASSUME NEW n \in 1..M PROVE x[N + n] = w[n]
    OBVIOUS
  <2>1. N + n \in 0..(N + M) /\ N + n \in 1..(N + M) /\ n \in 0..M
    OBVIOUS
  <2>2. all[N + n] = batch[n]
    BY <1>3
  <2>3. N + n \in Counted(all, date) <=> n \in Counted(batch, date)
    BY <1>3, <2>1, <2>2 DEF Counted
  <2> QED
    BY <1>2, <1>3, <1>4, <2>1, <2>2, <2>3 DEF Listed
<1>11. Total(x, N + M) = Total(u, N) + Total(w, M)
  BY <1>7, <1>8, <1>9, <1>10, TotalConcat
<1> QED
  BY <1>1, <1>2, <1>3, <1>4, <1>11, SpentIs

\* Nothing is spent in a month without expenses.
LEMMA SpentNone ==
  ASSUME NEW rs \in Seq(Row), NEW date \in Days, Counted(rs, date) = {}
  PROVE  Spent(rs, date) = 0
<1>1. PICK N \in Nat : N = Len(rs)
  OBVIOUS
<1>2. PICK v : v = [n \in 0..N |-> 0]
  OBVIOUS
<1>3. v \in [0..N -> Int] /\ \A n \in 0..N : v[n] = 0
  BY <1>2
<1>4. Total(v, N) = 0
  BY <1>3, TotalZero
<1>5. Listed(rs, {}) = v
  BY <1>1, <1>2 DEF Listed
<1> QED
  BY <1>1, <1>4, <1>5, SpentIs

\* Two dates of one month see the same spending.
LEMMA SpentSame ==
  ASSUME NEW rs, NEW d, NEW e, MonthRange[d] = MonthRange[e]
  PROVE  Spent(rs, d) = Spent(rs, e)
BY DEF Spent, AmountsThisMonth, InMonth

\* The month's spending in two parts.
LEMMA SpentSplit ==
  ASSUME NEW rs \in Seq(Row), NEW date \in Days, NEW C \in SUBSET Counted(rs, date)
  PROVE  Spent(rs, date) = SumFunctionOnSet(AmountsThisMonth(rs, date), C)
             + SumFunctionOnSet(AmountsThisMonth(rs, date), Counted(rs, date) \ C)
<1>1. PICK N \in Nat : N = Len(rs) /\ DOMAIN rs = 1..N
  OBVIOUS
<1>2. PICK A, B : A = C /\ B = Counted(rs, date) \ C
  OBVIOUS
<1>3. /\ A \in SUBSET DOMAIN rs /\ B \in SUBSET DOMAIN rs
      /\ Counted(rs, date) = A \cup B /\ A \cap B = {}
  BY <1>2 DEF Counted
<1>4. PICK u, v, w : u = Listed(rs, A) /\ v = Listed(rs, B) /\ w = Listed(rs, A \cup B)
  OBVIOUS
<1>5. u \in [0..N -> Nat] /\ v \in [0..N -> Nat]
  BY <1>1, <1>3, <1>4, ListedType
<1>6. w = [n \in 0..N |-> u[n] + v[n]]
  <2>1. w = [n \in 0..N |-> IF n \in A \cup B THEN rs[n].amount ELSE 0]
    BY <1>1, <1>4 DEF Listed
  <2>2. ASSUME NEW n \in 0..N
        PROVE  (IF n \in A \cup B THEN rs[n].amount ELSE 0) = u[n] + v[n]
    <3>1. /\ u[n] = IF n \in A THEN rs[n].amount ELSE 0
          /\ v[n] = IF n \in B THEN rs[n].amount ELSE 0
      BY <1>1, <1>4 DEF Listed
    <3>2. n \in A \cup B => rs[n].amount \in Nat
      BY <1>3, RowFacts
    <3> QED
      BY <1>3, <3>1, <3>2
  <2> QED
    BY <2>1, <2>2
<1>7. u \in [0..N -> Int] /\ v \in [0..N -> Int]
  BY <1>5
<1>8. Total(w, N) = Total(u, N) + Total(v, N)
  BY <1>6, <1>7, TotalAdd
<1>9. /\ SumFunctionOnSet(AmountsThisMonth(rs, date), A) = Total(u, N)
      /\ SumFunctionOnSet(AmountsThisMonth(rs, date), B) = Total(v, N)
  BY <1>1, <1>3, <1>4, SumOver
<1> QED
  BY <1>1, <1>2, <1>3, <1>4, <1>8, <1>9, SpentIs

-----------------------------------------------------------------------------
(***************************************************************************)
(* Levels, and the lines that announce them.                               *)
(***************************************************************************)

LEMMA LevelFacts ==
  ASSUME NEW lim \in Nat, NEW s \in Nat
  PROVE  /\ Level(s, lim) \in Levels
         /\ Level(s, lim) = 2 <=> lim > 0 /\ s > lim
         /\ Level(s, lim) = 1 <=> lim > 0 /\ s <= lim /\ s * 100 >= Near * lim
<1>1. lim = 0 \/ lim > 0
  OBVIOUS
<1> QED
  BY <1>1 DEF Level, Levels, RatioCrossed, Near

\* More spending is not at a lower level.
LEMMA LevelRises ==
  ASSUME NEW lim \in Nat, NEW s \in Nat, NEW u \in Nat, s <= u
  PROVE  Level(s, lim) <= Level(u, lim)
<1>1. /\ Level(s, lim) \in Levels /\ Level(u, lim) \in Levels
      /\ Level(s, lim) = 2 => Level(u, lim) = 2
      /\ Level(s, lim) = 1 => Level(u, lim) = 1 \/ Level(u, lim) = 2
  BY LevelFacts DEF Near, Levels
<1> QED
  BY <1>1 DEF Levels

\* budget_reaction_line: for any limit and spending, a line announces a level
\* exactly when the spending rises to it.
THEOREM LineIsCrossing ==
  ASSUME NEW lim \in Nat, NEW prior \in Nat, NEW s \in Nat, prior <= s
  PROVE  ReactionLine(lim, s, prior) =
           IF Level(s, lim) > Level(prior, lim) THEN Level(s, lim) ELSE 0
<1>1. CASE lim = 0
  <2>1. Level(s, lim) = 0 /\ Level(prior, lim) = 0
    BY <1>1 DEF Level
  <2>2. ReactionLine(lim, s, prior) = 0
    BY <1>1 DEF ReactionLine
  <2> QED
    BY <2>1, <2>2
<1>2. CASE lim > 0
  <2>1. ~(lim <= 0)
    BY <1>2
  <2>2. CASE s > lim /\ prior <= lim
    <3>1. ReactionLine(lim, s, prior) = 2
      BY <2>1, <2>2, <1>2 DEF ReactionLine
    <3>2. Level(s, lim) = 2 /\ Level(prior, lim) \in 0..1
      BY <1>2, <2>2, LevelFacts DEF Levels
    <3> QED
      BY <3>1, <3>2
  <2>3. CASE ~(s > lim /\ prior <= lim) /\ s * 100 >= 80 * lim /\ ~(prior * 100 >= 80 * lim)
    <3>1. ReactionLine(lim, s, prior) = 1
      BY <1>2, <2>1, <2>3 DEF ReactionLine, RatioCrossed, Near
    <3>2. Level(s, lim) = 1
      BY <1>2, <2>3, LevelFacts DEF Near
    <3>3. Level(prior, lim) = 0
      BY <1>2, <2>3, LevelFacts DEF Near, Levels
    <3> QED
      BY <3>1, <3>2, <3>3
  <2>4. CASE /\ ~(s > lim /\ prior <= lim)
             /\ ~(s * 100 >= 80 * lim /\ ~(prior * 100 >= 80 * lim))
    <3>1. ReactionLine(lim, s, prior) = 0
      BY <1>2, <2>1, <2>4 DEF ReactionLine, RatioCrossed, Near
    <3>2. Level(s, lim) <= Level(prior, lim)
      <4>1. Level(s, lim) = 2 => Level(prior, lim) = 2
        BY <2>4, LevelFacts
      <4>2. Level(s, lim) = 1 => Level(prior, lim) = 1
        BY <2>4, LevelFacts DEF Near
      <4> QED
        BY <4>1, <4>2, LevelFacts DEF Levels
    <3>3. Level(s, lim) \in 0..2 /\ Level(prior, lim) \in 0..2
      BY LevelFacts DEF Levels
    <3> QED
      BY <3>1, <3>2, <3>3
  <2> QED
    BY <2>2, <2>3, <2>4
<1> QED
  BY <1>1, <1>2

\* What the reply says of a batch: the level the batch takes the month to.
LEMMA ReactsIs ==
  ASSUME limit \in Nat, rows \in Seq(Row), today \in Days, NEW batch \in Seq(Row)
  PROVE  Reacts(batch) = IF Level(Spent(rows \o batch, today), limit) > LevelNow
                         THEN Level(Spent(rows \o batch, today), limit) ELSE 0
<1> DEFINE prior == Spent(rows, today)
           added == Spent(batch, today)
<1>1. prior \in Nat /\ added \in Nat /\ Spent(rows \o batch, today) = prior + added
  BY SpentIs, SpentConcat
<1>2. LevelNow = Level(prior, limit) /\ JustLogged(batch, today) = added
  BY DEF LevelNow, JustLogged
<1>3. CASE added = 0
  <2>1. Reacts(batch) = 0 /\ Spent(rows \o batch, today) = prior
    BY <1>1, <1>2, <1>3 DEF Reacts
  <2>2. ~(Level(prior, limit) > Level(prior, limit))
    <3> HIDE DEF prior, added
    <3>1. Level(prior, limit) \in 0..2
      BY <1>1, LevelFacts DEF Levels
    <3> QED
      BY <3>1
  <2> QED
    BY <1>2, <2>1, <2>2
<1>4. CASE added # 0
  <2>1. Reacts(batch) = ReactionLine(limit, prior + added, prior)
    BY <1>2, <1>4 DEF Reacts
  <2>2. prior + added \in Nat /\ prior <= prior + added
    BY <1>1
  <2> HIDE DEF prior, added
  <2> QED
    BY <1>1, <1>2, <2>1, <2>2, LineIsCrossing
<1> QED
  BY <1>3, <1>4

-----------------------------------------------------------------------------
(***************************************************************************)
(* The inductive invariant.                                                *)
(***************************************************************************)

\* The causes why may give.
Causes == {"none", "overlap", "confirmed", "limit", "edit", "contribution"}

\* Rows of no later than a date.
DatedBy(rs, date) == \A n \in DOMAIN rs : rs[n].date <= date

\* Nothing is dated in the future.
DatesPast ==
  /\ DatedBy(rows, today)
  /\ \A t \in Turns : DatedBy(turn[t].batch, today) /\ turn[t].extra.date <= today

\* The user was not told of more than there is.
ToldHolds == told <= LevelNow

\* A reply that nothing has overtaken says what its flush will make true.
LinesFresh ==
  \A t \in Turns :
    turn[t].pc = "read" /\ ~turn[t].stale =>
      ~turn[t].newMonth /\ turn[t].line = Reacts(turn[t].batch)

AlertsInv == TypeOK /\ DatesPast /\ ToldHolds /\ LinesFresh /\ CrossingAnnounced

LEMMA CreatedFacts == Created \in Days /\ \A d \in Days : Created <= d
<1>1. \E d \in Days : \A e \in Days : d <= e
  BY Least, DatesFacts
<1> QED
  BY <1>1 DEF Created

\* The next date there is.
LEMMA NextDate ==
  ASSUME NEW n \in Days, NEW m, \E d \in Days : d > n,
         m = CHOOSE d \in Days : d > n /\ \A e \in Days : e > n => d <= e
  PROVE  m \in Days /\ m > n
<1> DEFINE T == {d \in Days : d > n}
<1>1. T \in SUBSET Nat /\ T # {}
  <2>1. Days \subseteq Nat
    BY DatesFacts
  <2> QED
    BY <2>1
<1>2. \E x \in T : \A y \in T : x <= y
  <2> HIDE DEF T
  <2> QED
    BY <1>1, Least
<1>3. \E d \in Days : d > n /\ \A e \in Days : e > n => d <= e
  BY <1>2
<1> QED
  BY <1>3

\* A month of the model is an interval, and a date in another month than an
\* earlier one is in a month that starts later.
LEMMA MonthFacts ==
  ASSUME NEW d \in Days
  PROVE  /\ MonthRange[d] = MonthBounds(d)
         /\ MonthRange[d][1] \in Int /\ MonthRange[d][2] \in Int
         /\ MonthRange[d][1] <= d /\ d <= MonthRange[d][2]
<1>1. d \in Int
  BY DatesFacts
<1>2. PICK y \in Years, m \in Months : OfMonth(d, y, m)
  BY DayInMonth
<1>3. MonthRange[d] = MonthBounds(d)
  BY DEF MonthRange
<1>4. MonthBounds(d) = <<FromYmd(y, m, 1), After(y, m) - 1>>
  BY <1>1, <1>2, BoundsFound
<1>5. FromYmd(y, m, 1) \in Int /\ After(y, m) \in Int
  BY MonthDays, MonthLength
<1>6. /\ MonthRange[d][1] = FromYmd(y, m, 1)
      /\ MonthRange[d][2] = After(y, m) - 1
  BY <1>3, <1>4
<1> QED
  BY <1>1, <1>2, <1>3, <1>5, <1>6 DEF OfMonth

LEMMA LaterMonth ==
  ASSUME NEW d \in Days, NEW e \in Days, d < e, MonthRange[d] # MonthRange[e]
  PROVE  d < MonthRange[e][1]
<1>1. d \in Int /\ e \in Int
  BY DatesFacts
<1>2. PICK y \in Years, m \in Months : OfMonth(e, y, m)
  BY DayInMonth
<1>3. /\ MonthBounds(e) = <<FromYmd(y, m, 1), After(y, m) - 1>>
      /\ FromYmd(y, m, 1) \in Int /\ After(y, m) \in Int
  BY <1>1, <1>2, BoundsFound, MonthDays, MonthLength
<1>4. MonthRange[e][1] = FromYmd(y, m, 1)
  BY <1>3, MonthFacts
<1>5. ~OfMonth(d, y, m)
  <2>1. OfMonth(d, y, m) => MonthBounds(d) = <<FromYmd(y, m, 1), After(y, m) - 1>>
    BY <1>1, BoundsFound
  <2> QED
    BY <1>3, <2>1, MonthFacts
<1> QED
  BY <1>1, <1>2, <1>3, <1>4, <1>5 DEF OfMonth

-----------------------------------------------------------------------------
(***************************************************************************)
(* What every step has in common.                                          *)
(***************************************************************************)

LEMMA ExtraFacts ==
  /\ NoExtra \in Extras /\ NoExtra.date = Created
  /\ \A x \in Extras :
       /\ x.own \in BOOLEAN /\ x.date \in Days /\ x.limit \in Limits
       /\ x.op \in {"none", "edit", "delete", "move", "contribute", "budget"}
       /\ x.op \in {"edit", "move", "contribute"} => x.amount \in Amounts
<1>1. Created \in Days /\ 0 \in Limits
  BY CreatedFacts, AlertsAssumption
<1>2. NoExtra \in Extras /\ NoExtra.date = Created
  BY <1>1 DEF NoExtra, Extras
<1>3. ASSUME NEW x \in Extras
      PROVE  /\ x.own \in BOOLEAN /\ x.date \in Days /\ x.limit \in Limits
             /\ x.op \in {"none", "edit", "delete", "move", "contribute", "budget"}
             /\ x.op \in {"edit", "move", "contribute"} => x.amount \in Amounts
  BY DEF Extras
<1> QED
  BY <1>2, <1>3

LEMMA ExtraNumbers ==
  ASSUME NEW x \in Extras
  PROVE  /\ x.date \in Nat /\ x.limit \in Nat
         /\ x.op \in {"edit", "move", "contribute"} => x.amount \in Nat
<1>1. Amounts \subseteq Nat /\ Limits \subseteq Nat /\ Days \subseteq Nat
  BY AlertsAssumption
<1>2. /\ x.date \in Days /\ x.limit \in Limits
      /\ x.op \in {"edit", "move", "contribute"} => x.amount \in Amounts
  BY ExtraFacts
<1> QED
  BY <1>1, <1>2

LEMMA TypeFacts ==
  ASSUME TypeOK
  PROVE  /\ today \in Days /\ rows \in Seq(Row) /\ limit \in Nat
         /\ told \in Levels /\ LevelNow \in Levels
         /\ \A t \in Turns : /\ turn[t] \in Turn /\ turn[t].batch \in Seq(Row)
                             /\ turn[t].extra \in Extras
<1>1. /\ today \in Days /\ rows \in Seq(Row) /\ limit \in Nat /\ told \in Levels
      /\ turn \in [Turns -> Turn]
  BY AlertsAssumption DEF TypeOK
<1>2. LevelNow \in Levels
  BY <1>1, SpentIs, LevelFacts DEF LevelNow
<1> QED
  BY <1>1, <1>2 DEF Turn

LEMMA IdleFacts ==
  /\ Idle \in Turn /\ Idle.pc = "idle" /\ Idle.batch = <<>> /\ Idle.extra = NoExtra
  /\ \A d : DatedBy(Idle.batch, d)
  /\ \A d \in Days : Idle.extra.date <= d
<1>1. <<>> \in Seq(Row) /\ DOMAIN <<>> = {}
  OBVIOUS
<1>2. Idle \in Turn /\ Idle.pc = "idle" /\ Idle.batch = <<>> /\ Idle.extra = NoExtra
  BY <1>1, ExtraFacts DEF Idle, Turn, Levels
<1> QED
  BY <1>1, <1>2, ExtraFacts, CreatedFacts DEF DatedBy

\* A turn that is overtaken keeps what it is doing.
LEMMA OvertakenFacts ==
  ASSUME TypeOK, NEW month \in BOOLEAN
  PROVE  /\ Overtaken(month) \in [Turns -> Turn]
         /\ \A t \in Turns :
              /\ Overtaken(month)[t].pc = turn[t].pc
              /\ Overtaken(month)[t].batch = turn[t].batch
              /\ Overtaken(month)[t].extra = turn[t].extra
              /\ turn[t].pc = "read" => Overtaken(month)[t].stale
<1>1. \A t \in Turns : turn[t] \in Turn
  BY TypeFacts
<1>2. ASSUME NEW t \in Turns
      PROVE  /\ Overtaken(month)[t] = IF turn[t].pc = "read"
                  THEN [turn[t] EXCEPT !.stale = TRUE, !.newMonth = @ \/ month]
                  ELSE turn[t]
             /\ Overtaken(month)[t] \in Turn
  BY <1>1 DEF Overtaken, Turn
<1>3. ASSUME NEW t \in Turns
      PROVE  /\ Overtaken(month)[t].pc = turn[t].pc
             /\ Overtaken(month)[t].batch = turn[t].batch
             /\ Overtaken(month)[t].extra = turn[t].extra
             /\ turn[t].pc = "read" => Overtaken(month)[t].stale
  BY <1>1, <1>2 DEF Turn
<1> QED
  BY <1>2, <1>3 DEF Overtaken

\* What Settle makes of the history.
LEMMA SettleFacts ==
  ASSUME told \in Levels, LevelNow' \in Levels, NEW said \in Levels,
         NEW cause \in Causes,
         Settle(said, cause)
  PROVE  /\ told' \in Levels /\ ToldHolds'
         /\ why' \in {"none", cause, why}
         /\ (cause # "none" \/ why # "none" \/ told >= LevelNow' \/ said >= LevelNow')
              => CrossingAnnounced'
         /\ told < said /\ said <= LevelNow' => told' = said
<1> DEFINE level == Level(Spent(rows', today'), limit')
           known == IF said > told THEN said ELSE told
<1>1. LevelNow' = level
  BY DEF LevelNow
<1>2. /\ told' = IF known > level THEN level ELSE known
      /\ why' = CASE told' = level                   -> "none"
                  [] told' # level /\ cause = "none" -> why
                  [] OTHER                           -> cause
  BY DEF Settle
<1>3. PICK l \in 0..2, s \in 0..2, k \in 0..2 : l = level /\ s = said /\ k = told
  BY <1>1 DEF Levels
<1>4. /\ told' = IF s > k THEN IF s > l THEN l ELSE s ELSE IF k > l THEN l ELSE k
      /\ CrossingAnnounced' <=> told' = l \/ why' # "none"
      /\ ToldHolds' <=> told' <= l
  <2>1. known = IF s > k THEN s ELSE k
    BY <1>3
  <2>2. told' = IF known > l THEN l ELSE known
    BY <1>2, <1>3
  <2>3. told' = IF s > k THEN IF s > l THEN l ELSE s ELSE IF k > l THEN l ELSE k
    <3> HIDE DEF known
    <3> QED
      BY <2>1, <2>2
  <2> QED
    BY <1>1, <1>3, <2>3 DEF CrossingAnnounced, ToldHolds
<1>5. told' \in 0..2 /\ told' <= l
  BY <1>4
<1>6. why' = CASE told' = l -> "none"
               [] told' # l /\ cause = "none" -> why
               [] OTHER -> cause
  BY <1>2, <1>3
<1>7. why' \in {"none", cause, why}
  BY <1>6
<1>8. ASSUME cause # "none" \/ why # "none" \/ k >= l \/ s >= l
      PROVE  told' = l \/ why' # "none"
  <2>1. CASE k >= l \/ s >= l
    BY <1>4, <2>1
  <2>2. CASE cause # "none" \/ why # "none"
    BY <1>6, <2>2
  <2> QED
    BY <1>8, <2>1, <2>2
<1>9. k < s /\ s <= l => told' = s
  BY <1>4
<1> HIDE DEF level, known
<1> QED
  BY <1>1, <1>3, <1>4, <1>5, <1>7, <1>8, <1>9 DEF Levels

\* A step that leaves the month alone leaves what is made of it.
LEMMA MonthSame ==
  ASSUME UNCHANGED <<today, rows, limit>>
  PROVE  LevelNow' = LevelNow /\ \A b : Reacts(b)' = Reacts(b)
BY DEF LevelNow, Reacts

-----------------------------------------------------------------------------
(***************************************************************************)
(* The invariant, one lemma per operation.                                 *)
(***************************************************************************)

LEMMA InvInit == Init => AlertsInv
<1> SUFFICES ASSUME Init PROVE AlertsInv
  OBVIOUS
<1>1. TypeOK
  <2>1. rows \in Seq(Row) /\ Len(rows) = 0 /\ MaxRows \in Nat /\ MaxChanges \in Nat
    BY AlertsAssumption DEF Init
  <2>2. turn \in [Turns -> Turn]
    BY IdleFacts DEF Init
  <2> QED
    BY <2>1, <2>2, CreatedFacts DEF Init, TypeOK, Levels
<1>2. DatesPast
  <2>1. rows = <<>> /\ today \in Days /\ \A t \in Turns : turn[t] = Idle
    BY CreatedFacts DEF Init
  <2>2. DOMAIN <<>> = {}
    OBVIOUS
  <2>3. DatedBy(rows, today)
    BY <2>1, <2>2 DEF DatedBy
  <2> QED
    BY <2>1, <2>3, IdleFacts DEF DatesPast
<1>3. LevelNow = 0
  <2>1. limit \in Nat /\ today \in Days /\ rows = <<>> /\ rows \in Seq(Row)
    BY <1>1, TypeFacts DEF Init
  <2>2. Counted(rows, today) = {}
    BY <2>1 DEF Counted
  <2>3. Spent(rows, today) = 0
    BY <2>1, <2>2, SpentNone
  <2>4. Level(0, limit) \in 0..2 /\ Level(0, limit) # 2 /\ Level(0, limit) # 1
    BY <2>1, LevelFacts DEF Levels, Near
  <2> QED
    BY <2>3, <2>4 DEF LevelNow
<1>4. ToldHolds /\ CrossingAnnounced
  BY <1>3 DEF Init, ToldHolds, CrossingAnnounced
<1>5. LinesFresh
  BY IdleFacts DEF Init, LinesFresh
<1> QED
  BY <1>1, <1>2, <1>4, <1>5 DEF AlertsInv

\* A step of one turn that touches neither the month nor what was told.
LEMMA TurnKeeps ==
  ASSUME AlertsInv, NEW t \in Turns, NEW r \in Turn,
         turn' = [turn EXCEPT ![t] = r],
         UNCHANGED <<today, rows, limit, saved, told, why>>,
         changes' \in 0..MaxChanges,
         DatedBy(r.batch, today), r.extra.date <= today,
         r.pc = "read" => ~r.newMonth /\ r.line = Reacts(r.batch)
  PROVE  AlertsInv'
<1>1. /\ turn \in [Turns -> Turn] /\ turn'[t] = r
      /\ \A u \in Turns \ {t} : turn'[u] = turn[u]
  BY DEF AlertsInv, TypeOK
<1>2. TypeOK'
  BY DEF AlertsInv, TypeOK
<1>3. DatesPast'
  BY <1>1 DEF AlertsInv, DatesPast, DatedBy
<1>4. LevelNow' = LevelNow /\ \A b : Reacts(b)' = Reacts(b)
  BY MonthSame
<1>5. (ToldHolds /\ CrossingAnnounced)'
  BY <1>4 DEF AlertsInv, ToldHolds, CrossingAnnounced
<1>6. LinesFresh'
  <2>1. \A u \in Turns : turn'[u].pc = "read" /\ ~turn'[u].stale =>
          ~turn'[u].newMonth /\ turn'[u].line = Reacts(turn'[u].batch)
    BY <1>1 DEF AlertsInv, LinesFresh
  <2> QED
    BY <2>1 DEF LinesFresh, Reacts, JustLogged
<1> QED
  BY <1>2, <1>3, <1>5, <1>6 DEF AlertsInv

LEMMA ReadKeeps ==
  ASSUME AlertsInv, NEW t \in Turns, NEW amounts \in Batches, NEW date \in Days,
         NEW x \in Extras, Read(t, amounts, date, x)
  PROVE  AlertsInv'
<1>1. PICK b : b = [n \in DOMAIN amounts |->
                      [amount |-> amounts[n], date |-> date, goal |-> FALSE]]
  OBVIOUS
<1>2. b \in Seq(Row) /\ \A n \in DOMAIN b : b[n].date = date
  <2>1. amounts \in Seq(Amounts)
    BY AlertsAssumption
  <2>2. \A n \in DOMAIN amounts : [amount |-> amounts[n], date |-> date, goal |-> FALSE] \in Row
    BY <2>1 DEF Row
  <2>3. PICK N \in Nat : DOMAIN amounts = 1..N
    BY <2>1
  <2>4. b \in [1..N -> Row]
    BY <1>1, <2>2, <2>3
  <2> QED
    BY <1>1, <2>4
<1>3. TypeOK /\ today \in Days /\ rows \in Seq(Row) /\ limit \in Nat
  BY TypeFacts DEF AlertsInv
<1>4. Reacts(b) \in Levels
  <2>1. rows \o b \in Seq(Row)
    BY <1>2, <1>3
  <2>2. Level(Spent(rows \o b, today), limit) \in Levels
    BY <1>3, <2>1, SpentIs, LevelFacts
  <2> QED
    BY <1>2, <1>3, <2>2, ReactsIs DEF Levels
<1>5. PICK r : r = [pc |-> "read", batch |-> b, extra |-> x, line |-> Reacts(b),
                    stale |-> FALSE, newMonth |-> FALSE]
  OBVIOUS
<1>6. r \in Turn
  BY <1>2, <1>4, <1>5 DEF Turn
<1>7. /\ turn' = [turn EXCEPT ![t] = r] /\ date <= today /\ x.date <= today
      /\ UNCHANGED <<today, rows, limit, saved, told, why>>
  BY <1>1, <1>5 DEF Read
<1>8. changes' \in 0..MaxChanges
  BY <1>3, AlertsAssumption DEF Read, TypeOK
<1>9. DatedBy(r.batch, today)
  BY <1>2, <1>5, <1>7 DEF DatedBy
<1> QED
  BY <1>5, <1>6, <1>7, <1>8, <1>9, TurnKeeps

LEMMA ParkKeeps ==
  ASSUME AlertsInv, NEW t \in Turns, Park(t)
  PROVE  AlertsInv'
<1>1. turn[t] \in Turn /\ DatedBy(turn[t].batch, today) /\ turn[t].extra.date <= today
      /\ changes \in 0..MaxChanges
  BY TypeFacts DEF AlertsInv, DatesPast, TypeOK
<1>2. PICK r : r = [pc |-> "parked", batch |-> turn[t].batch, extra |-> turn[t].extra,
                    line |-> 0, stale |-> FALSE, newMonth |-> FALSE]
  OBVIOUS
<1>3. r \in Turn /\ r.pc = "parked" /\ r.batch = turn[t].batch /\ r.extra = turn[t].extra
  <2>1. 0 \in Levels
    BY DEF Levels
  <2> QED
    BY <1>1, <1>2, <2>1 DEF Turn
<1>4. turn' = [turn EXCEPT ![t] = r]
  BY <1>2 DEF Park
<1> QED
  BY <1>1, <1>3, <1>4, TurnKeeps DEF Park

LEMMA DropKeeps ==
  ASSUME AlertsInv, NEW t \in Turns, Drop(t)
  PROVE  AlertsInv'
<1>1. PICK r : r = Idle
  OBVIOUS
<1>2. /\ today \in Days /\ changes \in 0..MaxChanges
      /\ r \in Turn /\ r.pc = "idle" /\ DatedBy(r.batch, today) /\ r.extra.date <= today
  BY <1>1, IdleFacts, TypeFacts DEF AlertsInv, TypeOK
<1> QED
  BY <1>1, <1>2, TurnKeeps DEF Drop

\* The level after a step: it is one of the levels.
LEMMA LevelNext ==
  ASSUME today' \in Days, rows' \in Seq(Row), limit' \in Nat
  PROVE  LevelNow' \in Levels /\ LevelNow' = Level(Spent(rows', today'), limit')
<1>1. Spent(rows', today') \in Nat
  BY SpentIs
<1> QED
  BY <1>1, LevelFacts DEF LevelNow

\* A step that overtakes the replies being composed when it changes the month: what
\* is told after it is settled.
LEMMA ChangeKeeps ==
  ASSUME AlertsInv, TypeOK', DatesPast',
         \A t \in Turns : turn'[t].pc = "read" =>
           turn'[t].stale \/ (turn'[t] = turn[t] /\ UNCHANGED <<today, rows, limit>>),
         NEW said \in Levels, NEW cause \in Causes, Settle(said, cause),
         cause # "none" \/ told >= LevelNow' \/ said >= LevelNow' \/ why # "none"
  PROVE  AlertsInv'
<1>1. told \in Levels /\ LevelNow' \in Levels
  <2>1. today' \in Days /\ rows' \in Seq(Row) /\ limit' \in Nat
    BY AlertsAssumption DEF TypeOK
  <2> QED
    BY <2>1, LevelNext, TypeFacts DEF AlertsInv
<1>2. ToldHolds' /\ CrossingAnnounced'
  BY <1>1, SettleFacts
<1>3. ASSUME NEW t \in Turns, turn'[t].pc = "read", ~turn'[t].stale
      PROVE  ~turn'[t].newMonth /\ turn'[t].line = Reacts(turn[t].batch)'
  <2>1. turn'[t] = turn[t] /\ UNCHANGED <<today, rows, limit>>
    BY <1>3
  <2>2. ~turn[t].newMonth /\ turn[t].line = Reacts(turn[t].batch)
    BY <1>3, <2>1 DEF AlertsInv, LinesFresh
  <2> QED
    BY <2>1, <2>2 DEF Reacts, JustLogged
<1>4. LinesFresh'
  BY <1>3 DEF LinesFresh
<1> QED
  BY <1>2, <1>4 DEF AlertsInv

-----------------------------------------------------------------------------
(***************************************************************************)
(* What a flush does to the month.                                         *)
(***************************************************************************)

\* Rows that join the table.
LEMMA JoinedFacts ==
  ASSUME NEW rs \in Seq(Row), NEW batch \in Seq(Row), NEW date \in Days,
         DatedBy(rs, date), DatedBy(batch, date)
  PROVE  /\ rs \o batch \in Seq(Row) /\ Len(rs \o batch) = Len(rs) + Len(batch)
         /\ DatedBy(rs \o batch, date)
<1>0. PICK N \in Nat, M \in Nat : N = Len(rs) /\ M = Len(batch)
  OBVIOUS
<1>1. PICK all \in Seq(Row) : all = rs \o batch
  <2>1. rs \o batch \in Seq(Row)
    OBVIOUS
  <2> QED
    BY <2>1
<1>2. /\ Len(all) = N + M
      /\ DOMAIN rs = 1..N /\ DOMAIN batch = 1..M /\ DOMAIN all = 1..(N + M)
      /\ \A n \in 1..N : all[n] = rs[n]
      /\ \A n \in 1..M : all[N + n] = batch[n]
  BY <1>0, <1>1
<1>3. ASSUME NEW n \in 1..(N + M) PROVE all[n].date <= date
  <2>0. n <= N \/ n > N
    OBVIOUS
  <2>1. CASE n <= N
    <3>1. n \in 1..N
      BY <2>1
    <3> QED
      BY <1>2, <3>1 DEF DatedBy
  <2>2. CASE n > N
    <3>1. n - N \in 1..M /\ N + (n - N) = n
      BY <2>2
    <3>2. all[n] = batch[n - N]
      BY <1>2, <3>1
    <3> QED
      BY <1>2, <3>1, <3>2 DEF DatedBy
  <2> QED
    BY <2>0, <2>1, <2>2, Zenon
<1> QED
  BY <1>0, <1>1, <1>2, <1>3 DEF DatedBy

\* A row whose amount is edited.
LEMMA EditedFacts ==
  ASSUME NEW rs \in Seq(Row), NEW n \in Nat, NEW a \in Amounts, NEW date,
         DatedBy(rs, date)
  PROVE  Repriced(rs, n, a) \in Seq(Row) /\ DatedBy(Repriced(rs, n, a), date)
<1>1. PICK N \in Nat : N = Len(rs) /\ DOMAIN rs = 1..N
  OBVIOUS
<1>2. PICK e : e = [rs EXCEPT ![n].amount = a]
  OBVIOUS
<1>3. ASSUME NEW k \in 1..N PROVE e[k] \in Row /\ e[k].date = rs[k].date
  <2>1. rs[k] \in Row
    BY <1>1
  <2>2. [rs[k] EXCEPT !.amount = a] \in Row /\ [rs[k] EXCEPT !.amount = a].date = rs[k].date
    BY <2>1 DEF Row
  <2>3. e[k] = IF k = n THEN [rs[k] EXCEPT !.amount = a] ELSE rs[k]
    BY <1>1, <1>2
  <2> QED
    BY <2>1, <2>2, <2>3
<1>4. e = [k \in 1..N |-> e[k]]
  BY <1>1, <1>2
<1>5. e \in Seq(Row) /\ DOMAIN e = 1..N
  BY <1>3, <1>4
<1>6. DatedBy(e, date)
  BY <1>1, <1>3, <1>5 DEF DatedBy
<1> QED
  BY <1>2, <1>5, <1>6 DEF Repriced

LEMMA ConcatFacts ==
  ASSUME NEW a \in Seq(Row), NEW b \in Seq(Row), NEW c, c = a \o b
  PROVE  /\ c \in Seq(Row) /\ Len(c) = Len(a) + Len(b)
         /\ \A k \in 1..Len(a) : c[k] = a[k]
         /\ \A k \in 1..Len(b) : c[Len(a) + k] = b[k]
OBVIOUS

\* A row that is taken away.
LEMMA RemovedFacts ==
  ASSUME NEW rs \in Seq(Row), NEW n \in 1..Len(rs), NEW date \in Days, DatedBy(rs, date)
  PROVE  /\ RemoveAt(rs, n) \in Seq(Row) /\ DatedBy(RemoveAt(rs, n), date)
         /\ Spent(RemoveAt(rs, n), date) <= Spent(rs, date)
<1>1. PICK N \in Nat : N = Len(rs) /\ DOMAIN rs = 1..N /\ n \in 1..N
  OBVIOUS
<1>2. PICK f, b, l : f = SubSeq(rs, 1, n - 1) /\ b = <<rs[n]>> /\ l = SubSeq(rs, n + 1, N)
  OBVIOUS
<1>3. /\ f \in Seq(Row) /\ Len(f) = n - 1 /\ \A k \in 1..(n - 1) : f[k] = rs[k]
      /\ l \in Seq(Row) /\ Len(l) = N - n /\ \A k \in 1..(N - n) : l[k] = rs[n + k]
  BY <1>1, <1>2
<1>4. b \in Seq(Row) /\ Len(b) = 1 /\ b[1] = rs[n]
  BY <1>1, <1>2
<1>5. f \o b \in Seq(Row) /\ (f \o b) \o l \in Seq(Row)
  BY <1>3, <1>4
<1>6. rs = (f \o b) \o l
  <2>1. PICK c \in Seq(Row) : c = f \o b
    BY <1>5
  <2>2. Len(c) = n /\ c[n] = rs[n] /\ \A k \in 1..(n - 1) : c[k] = rs[k]
    <3>1. /\ Len(c) = (n - 1) + 1 /\ \A k \in 1..(n - 1) : c[k] = f[k]
          /\ \A k \in 1..1 : c[(n - 1) + k] = b[k]
      <4>1. /\ Len(c) = Len(f) + Len(b) /\ \A k \in 1..Len(f) : c[k] = f[k]
            /\ \A k \in 1..Len(b) : c[Len(f) + k] = b[k]
        <5>1. f \in Seq(Row) /\ b \in Seq(Row) /\ c = f \o b
          BY <1>3, <1>4, <2>1
        <5> QED
          BY <5>1, ConcatFacts
      <4> QED
        BY <1>3, <1>4, <4>1
    <3>2. (n - 1) + 1 = n /\ 1 \in 1..1
      BY <1>1
    <3>3. c[n] = b[1]
      BY <3>1, <3>2
    <3> QED
      BY <1>3, <1>4, <3>1, <3>2, <3>3
  <2>3. \A k \in 1..n : c[k] = rs[k]
    <3>1. \A k \in 1..n : k = n \/ k \in 1..(n - 1)
      BY <1>1
    <3> QED
      BY <2>2, <3>1
  <2>4. PICK d \in Seq(Row) : d = c \o l
    BY <1>5, <2>1
  <2>5. /\ Len(d) = N /\ \A k \in 1..n : d[k] = rs[k]
        /\ \A k \in 1..(N - n) : d[n + k] = rs[n + k]
    <3>1. /\ Len(d) = n + (N - n) /\ \A k \in 1..n : d[k] = c[k]
          /\ \A k \in 1..(N - n) : d[n + k] = l[k]
      <4>1. /\ Len(d) = Len(c) + Len(l) /\ \A k \in 1..Len(c) : d[k] = c[k]
            /\ \A k \in 1..Len(l) : d[Len(c) + k] = l[k]
        <5>1. c \in Seq(Row) /\ l \in Seq(Row) /\ d = c \o l
          BY <1>3, <2>1, <2>4
        <5> QED
          BY <5>1, ConcatFacts
      <4> QED
        BY <1>3, <2>2, <4>1
    <3>2. n + (N - n) = N
      BY <1>1
    <3> QED
      BY <1>3, <2>3, <3>1, <3>2
  <2>6. \A k \in 1..N : d[k] = rs[k]
    <3>1. \A k \in 1..N : k \in 1..n \/ (k - n \in 1..(N - n) /\ n + (k - n) = k)
      BY <1>1
    <3> QED
      BY <2>5, <3>1
  <2>7. rs = d
    BY <1>1, <2>5, <2>6
  <2> QED
    BY <2>1, <2>4, <2>7
<1>7. Spent(rs, date) = Spent(f, date) + Spent(b, date) + Spent(l, date)
  <2>1. Spent(rs, date) = Spent(f \o b, date) + Spent(l, date)
    BY <1>3, <1>5, <1>6, SpentConcat
  <2>2. Spent(f \o b, date) = Spent(f, date) + Spent(b, date)
    BY <1>3, <1>4, SpentConcat
  <2> QED
    BY <2>1, <2>2
<1>8. Spent(f \o l, date) = Spent(f, date) + Spent(l, date)
  BY <1>3, SpentConcat
<1>9. Spent(f, date) \in Nat /\ Spent(b, date) \in Nat /\ Spent(l, date) \in Nat
  BY <1>3, <1>4, SpentIs
<1>10. DatedBy(f, date) /\ DatedBy(l, date)
  <2>1. \A k \in DOMAIN f : k \in 1..N /\ f[k] = rs[k]
    BY <1>1, <1>3
  <2>2. \A k \in DOMAIN l : n + k \in 1..N /\ l[k] = rs[n + k]
    BY <1>1, <1>3
  <2> QED
    BY <1>1, <2>1, <2>2 DEF DatedBy
<1>11. RemoveAt(rs, n) = f \o l
  BY <1>1, <1>2 DEF RemoveAt
<1>12. f \o l \in Seq(Row) /\ DatedBy(f \o l, date)
  BY <1>3, <1>10, JoinedFacts
<1> QED
  BY <1>7, <1>8, <1>9, <1>11, <1>12

LEMMA FrontFacts ==
  ASSUME NEW rs \in Seq(Row), NEW date \in Days, DatedBy(rs, date)
  PROVE  /\ Front(rs) \in Seq(Row) /\ DatedBy(Front(rs), date)
         /\ Spent(Front(rs), date) <= Spent(rs, date)
<1>1. PICK N \in Nat : N = Len(rs) /\ DOMAIN rs = 1..N
  OBVIOUS
<1>2. Front(rs) = SubSeq(rs, 1, N - 1)
  BY <1>1 DEF Front
<1>3. CASE N = 0
  <2>1. Front(rs) = <<>> /\ rs = <<>>
    BY <1>1, <1>2, <1>3
  <2>2. Spent(rs, date) <= Spent(rs, date)
    <3>1. Spent(rs, date) \in Nat
      BY SpentIs
    <3> QED
      BY <3>1
  <2> QED
    BY <2>1, <2>2
<1>4. CASE N # 0
  <2>1. N \in 1..N /\ RemoveAt(rs, N) = SubSeq(rs, 1, N - 1) \o SubSeq(rs, N + 1, N)
    BY <1>1, <1>4 DEF RemoveAt
  <2>2. PICK f \in Seq(Row), l \in Seq(Row) :
          f = SubSeq(rs, 1, N - 1) /\ l = SubSeq(rs, N + 1, N) /\ Len(l) = 0
    <3>1. SubSeq(rs, 1, N - 1) \in Seq(Row)
      BY <1>1, <1>4
    <3>2. SubSeq(rs, N + 1, N) \in Seq(Row) /\ Len(SubSeq(rs, N + 1, N)) = 0
      BY <1>1, <1>4
    <3> QED
      BY <3>1, <3>2
  <2>3. f \o l = f
    BY <2>2
  <2> QED
    BY <1>1, <1>2, <2>1, <2>2, <2>3, RemovedFacts
<1> QED
  BY <1>3, <1>4

\* A row that a turn brings in besides.
LEMMA AppendedFacts ==
  ASSUME NEW rs \in Seq(Row), NEW r \in Row, NEW date \in Days,
         DatedBy(rs, date), r.date <= date
  PROVE  /\ Append(rs, r) \in Seq(Row) /\ DatedBy(Append(rs, r), date)
         /\ Spent(rs, date) <= Spent(Append(rs, r), date)
<1>1. PICK b \in Seq(Row) : b = <<r>> /\ DOMAIN b = {1} /\ b[1] = r
  <2>1. <<r>> \in Seq(Row) /\ DOMAIN <<r>> = {1} /\ <<r>>[1] = r
    OBVIOUS
  <2> QED
    BY <2>1
<1>2. Append(rs, r) = rs \o b
  BY <1>1
<1>3. DatedBy(b, date)
  BY <1>1 DEF DatedBy
<1>4. Spent(rs \o b, date) = Spent(rs, date) + Spent(b, date)
      /\ Spent(rs, date) \in Nat /\ Spent(b, date) \in Nat
  BY SpentConcat, SpentIs
<1>5. rs \o b \in Seq(Row) /\ DatedBy(rs \o b, date)
  BY <1>3, JoinedFacts
<1> QED
  BY <1>2, <1>4, <1>5

\* What a turn leaves behind: no more than it logged when it has no cause to, and no
\* less unless it takes it back.
LEMMA LeftFacts ==
  ASSUME NEW batch \in Seq(Row), NEW x \in Extras, NEW date \in Days,
         DatedBy(batch, date), x.date <= date
  PROVE  /\ Left(batch, x) \in Seq(Row) /\ DatedBy(Left(batch, x), date)
         /\ Cause(x) = "none" => Spent(Left(batch, x), date) <= Spent(batch, date)
         /\ x.op \notin {"edit", "delete"} =>
              Spent(batch, date) <= Spent(Left(batch, x), date)
<1>1. Spent(batch, date) <= Spent(batch, date)
  <2>1. Spent(batch, date) \in Nat
    BY SpentIs
  <2> QED
    BY <2>1
<1>2. CASE x.op = "delete" /\ x.own
  <2>1. Left(batch, x) = Front(batch)
    BY <1>2 DEF Left
  <2> QED
    BY <1>2, <2>1, FrontFacts
<1>3. CASE x.op = "edit" /\ x.own
  <2>1. Left(batch, x) = Repriced(batch, Len(batch), x.amount)
        /\ Cause(x) = "edit" /\ x.amount \in Amounts /\ Len(batch) \in Nat
    BY <1>3, ExtraFacts DEF Left, Cause
  <2>2. Left(batch, x) \in Seq(Row) /\ DatedBy(Left(batch, x), date)
    BY <2>1, EditedFacts
  <2> QED
    BY <1>3, <2>1, <2>2
<1>4. CASE x.op = "move" \/ (x.op = "contribute" /\ SavingsGoals)
  <2>1. PICK r \in Row : Left(batch, x) = Append(batch, r) /\ r.date = x.date
    <3>1. x.amount \in Amounts /\ x.date \in Days
      BY <1>4, ExtraFacts
    <3>0. ASSUME NEW g \in BOOLEAN
          PROVE  /\ [amount |-> x.amount, date |-> x.date, goal |-> g] \in Row
                 /\ [amount |-> x.amount, date |-> x.date, goal |-> g].date = x.date
      BY <3>1 DEF Row
    <3>2. CASE x.op = "move"
      <4>1. Left(batch, x)
              = Append(batch, [amount |-> x.amount, date |-> x.date, goal |-> FALSE])
        BY <3>2 DEF Left
      <4> QED
        BY <3>0, <4>1
    <3>3. CASE x.op = "contribute" /\ SavingsGoals
      <4>1. Left(batch, x)
              = Append(batch, [amount |-> x.amount, date |-> x.date, goal |-> TRUE])
        BY <3>3 DEF Left
      <4> QED
        BY <3>0, <4>1
    <3> QED
      BY <1>4, <3>2, <3>3
  <2>2. Cause(x) # "none"
    BY <1>4 DEF Cause
  <2> QED
    BY <2>1, <2>2, AppendedFacts
<1>5. CASE /\ ~(x.op = "delete" /\ x.own) /\ ~(x.op = "edit" /\ x.own)
           /\ ~(x.op = "move" \/ (x.op = "contribute" /\ SavingsGoals))
  <2>1. Left(batch, x) = batch
    BY <1>5 DEF Left
  <2> QED
    BY <1>1, <2>1
<1> QED
  BY <1>2, <1>3, <1>4, <1>5, Zenon

\* What a correction makes of the table.
LEMMA CorrectedFacts ==
  ASSUME AlertsInv, NEW n \in 0..Len(rows), NEW x \in Extras
  PROVE  /\ Corrected(n, x) \in Seq(Row) /\ DatedBy(Corrected(n, x), today)
         /\ Cause(x) = "none" => Spent(Corrected(n, x), today) <= Spent(rows, today)
         /\ x.op \notin {"edit", "delete"} => Corrected(n, x) = rows
<1>1. rows \in Seq(Row) /\ today \in Days /\ DatedBy(rows, today)
  BY TypeFacts DEF AlertsInv, DatesPast
<1>2. Spent(rows, today) <= Spent(rows, today)
  <2>1. Spent(rows, today) \in Nat
    BY <1>1, SpentIs
  <2> QED
    BY <2>1
<1>3. CASE n # 0 /\ x.op = "edit"
  <2>1. Corrected(n, x) = Repriced(rows, n, x.amount) /\ Cause(x) = "edit"
        /\ x.amount \in Amounts /\ n \in Nat
    BY <1>3, ExtraFacts DEF Corrected, Cause
  <2>2. Corrected(n, x) \in Seq(Row) /\ DatedBy(Corrected(n, x), today)
    BY <1>1, <2>1, EditedFacts
  <2> QED
    BY <1>3, <2>1, <2>2
<1>4. CASE n # 0 /\ x.op = "delete"
  <2>1. Corrected(n, x) = RemoveAt(rows, n) /\ n \in 1..Len(rows)
    BY <1>1, <1>4 DEF Corrected
  <2> QED
    BY <1>1, <1>4, <2>1, RemovedFacts
<1>5. CASE ~(n # 0 /\ x.op = "edit") /\ ~(n # 0 /\ x.op = "delete")
  <2>1. Corrected(n, x) = rows
    BY <1>5 DEF Corrected
  <2> QED
    BY <1>1, <1>2, <2>1
<1> QED
  BY <1>3, <1>4, <1>5

LEMMA GainedInt ==
  ASSUME AlertsInv, NEW n \in 0..Len(rows), NEW x \in Extras
  PROVE  Gained(n, x) \in Int
<1>1. rows \in Seq(Row)
  BY TypeFacts DEF AlertsInv
<1>2. n # 0 => rows[n].amount \in Int
  <2>1. n # 0 => rows[n] \in Row
    BY <1>1
  <2> QED
    BY <2>1, RowFacts
<1>3. x.op \in {"contribute", "edit"} => x.amount \in Int
  BY ExtraNumbers
<1>4. CASE x.op = "contribute"
  BY <1>3, <1>4 DEF Gained
<1>5. CASE x.op # "contribute" /\ n # 0 /\ x.op = "edit" /\ rows[n].goal
  <2>1. Gained(n, x) = x.amount - rows[n].amount
    BY <1>5 DEF Gained
  <2> QED
    BY <1>2, <1>3, <1>5, <2>1
<1>6. CASE x.op # "contribute" /\ n # 0 /\ x.op = "delete" /\ rows[n].goal
  <2>1. Gained(n, x) = 0 - rows[n].amount
    BY <1>6 DEF Gained
  <2> QED
    BY <1>2, <1>6, <2>1
<1>7. CASE x.op # "contribute" /\ ~(n # 0 /\ x.op = "edit" /\ rows[n].goal)
           /\ ~(n # 0 /\ x.op = "delete" /\ rows[n].goal)
  <2>1. Gained(n, x) = 0
    BY <1>7 DEF Gained
  <2> QED
    BY <2>1
<1> QED
  BY <1>4, <1>5, <1>6, <1>7, Zenon

\* The month after a flush, beside what it would be with the batch alone.
LEMMA FlushMonth ==
  ASSUME AlertsInv, NEW t \in Turns, Flush(t), today' = today,
         NEW x, x = turn[t].extra, NEW b, b = turn[t].batch
  PROVE  /\ rows' \in Seq(Row) /\ Len(rows') <= MaxRows /\ DatedBy(rows', today)
         /\ limit' \in Limits /\ saved' \in Nat
         /\ LevelNow' \in Levels /\ Level(Spent(rows \o b, today), limit) \in Levels
         /\ Cause(x) = "none" => LevelNow' <= Level(Spent(rows \o b, today), limit)
         /\ x.op \notin {"edit", "delete", "budget"} =>
              Level(Spent(rows \o b, today), limit) <= LevelNow'
<1>1. /\ rows \in Seq(Row) /\ today \in Days /\ limit \in Limits /\ limit \in Nat
      /\ saved \in Nat /\ b \in Seq(Row) /\ x \in Extras
      /\ DatedBy(b, today) /\ x.date <= today
  BY TypeFacts DEF AlertsInv, TypeOK, DatesPast
<1>2. PICK left : left = Left(b, x)
  OBVIOUS
<1>3. PICK n \in 0..Len(rows) :
        /\ rows' = Corrected(n, x) \o left /\ Len(rows') <= MaxRows
        /\ saved' = saved + Gained(n, x) /\ saved' >= 0
        /\ limit' = IF x.op = "budget" THEN x.limit ELSE limit
  BY <1>2 DEF Flush
<1>4. PICK c : c = Corrected(n, x)
  OBVIOUS
<1>5. /\ left \in Seq(Row) /\ DatedBy(left, today)
      /\ Cause(x) = "none" => Spent(left, today) <= Spent(b, today)
      /\ x.op \notin {"edit", "delete"} => Spent(b, today) <= Spent(left, today)
  BY <1>1, <1>2, LeftFacts
<1>6. /\ c \in Seq(Row) /\ DatedBy(c, today)
      /\ Cause(x) = "none" => Spent(c, today) <= Spent(rows, today)
      /\ x.op \notin {"edit", "delete"} => c = rows
  BY <1>1, <1>4, CorrectedFacts
<1>7. rows' \in Seq(Row) /\ DatedBy(rows', today)
  BY <1>1, <1>3, <1>4, <1>5, <1>6, JoinedFacts
<1>8. limit' \in Limits /\ limit' \in Nat
  BY <1>1, <1>3, ExtraFacts, ExtraNumbers
<1>9. saved' \in Nat
  BY <1>1, <1>3, GainedInt
<1>10. PICK k \in Nat, l \in Nat, r \in Nat, m \in Nat :
         /\ k = Spent(c, today) /\ l = Spent(left, today)
         /\ r = Spent(rows, today) /\ m = Spent(b, today)
  BY <1>1, <1>5, <1>6, SpentIs
<1>11. Spent(rows', today) = k + l /\ Spent(rows \o b, today) = r + m
  BY <1>1, <1>3, <1>4, <1>5, <1>6, <1>10, SpentConcat
<1>12. LevelNow' = Level(k + l, limit') /\ LevelNow' \in Levels
  BY <1>1, <1>7, <1>8, <1>11, LevelNext
<1>13. Level(r + m, limit) \in Levels
  BY <1>1, LevelFacts
<1>14. ASSUME Cause(x) = "none" PROVE LevelNow' <= Level(r + m, limit)
  <2>1. limit' = limit
    BY <1>3, <1>14 DEF Cause
  <2>2. k + l <= r + m
    BY <1>5, <1>6, <1>10, <1>14
  <2> QED
    BY <1>1, <1>12, <2>1, <2>2, LevelRises
<1>15. ASSUME x.op \notin {"edit", "delete", "budget"} PROVE Level(r + m, limit) <= LevelNow'
  <2>1. limit' = limit
    BY <1>3, <1>15
  <2>2. r + m <= k + l
    BY <1>5, <1>6, <1>10, <1>15
  <2> QED
    BY <1>1, <1>12, <2>1, <2>2, LevelRises
<1> QED
  BY <1>3, <1>7, <1>8, <1>9, <1>11, <1>12, <1>13, <1>14, <1>15

\* What a flush leaves behind it, whether it was asked about or not.
LEMMA FlushFacts ==
  ASSUME AlertsInv, NEW t \in Turns, Flush(t), UNCHANGED <<today, changes>>,
         told' \in Levels, why' \in Causes
  PROVE  /\ TypeOK' /\ DatesPast'
         /\ \A u \in Turns : turn'[u].pc = "read" =>
              turn'[u].stale \/ (turn'[u] = turn[u] /\ UNCHANGED <<today, rows, limit>>)
<1>1. TypeOK /\ Overtaken(FALSE) \in [Turns -> Turn] /\ turn \in [Turns -> Turn]
  BY OvertakenFacts DEF AlertsInv, TypeOK
<1>2. PICK others : /\ others = IF <<rows', limit'>> = <<rows, limit>> THEN turn
                                ELSE Overtaken(FALSE)
                    /\ turn' = [others EXCEPT ![t] = Idle]
  BY DEF Flush
<1>3. /\ others \in [Turns -> Turn]
      /\ \A u \in Turns :
           /\ others[u].batch = turn[u].batch /\ others[u].extra = turn[u].extra
           /\ others[u].pc = "read" =>
                others[u].stale \/ (others[u] = turn[u] /\ UNCHANGED <<rows, limit>>)
  BY <1>1, <1>2, OvertakenFacts
<1>4. /\ turn' \in [Turns -> Turn] /\ turn'[t] = Idle
      /\ \A u \in Turns \ {t} : turn'[u] = others[u]
  BY <1>2, <1>3, IdleFacts
<1>5. TypeOK'
  BY <1>1, <1>4, FlushMonth DEF TypeOK, Causes
<1>6. DatesPast'
  <2>1. DatedBy(rows', today') /\ today \in Days
    BY <1>1, FlushMonth, TypeFacts
  <2>2. ASSUME NEW u \in Turns
        PROVE  DatedBy(turn'[u].batch, today) /\ turn'[u].extra.date <= today
    <3>1. CASE u = t
      BY <1>4, <2>1, <3>1, IdleFacts
    <3>2. CASE u # t
      BY <1>3, <1>4, <3>2 DEF AlertsInv, DatesPast
    <3> QED
      BY <3>1, <3>2
  <2> QED
    BY <2>1, <2>2 DEF DatesPast, DatedBy
<1>7. ASSUME NEW u \in Turns, turn'[u].pc = "read"
      PROVE  turn'[u].stale \/ (turn'[u] = turn[u] /\ UNCHANGED <<today, rows, limit>>)
  <2>1. u # t
    BY <1>4, <1>7, IdleFacts
  <2> QED
    BY <1>3, <1>4, <1>7, <2>1
<1> QED
  BY <1>5, <1>6, <1>7

\* What the reply of a turn says when nothing has overtaken it.
LEMMA FreshLine ==
  ASSUME AlertsInv, NEW t \in Turns, turn[t].pc = "read", ~turn[t].stale
  PROVE  /\ ~turn[t].newMonth
         /\ turn[t].line = IF Level(Spent(rows \o turn[t].batch, today), limit) > LevelNow
                           THEN Level(Spent(rows \o turn[t].batch, today), limit) ELSE 0
<1>1. ~turn[t].newMonth /\ turn[t].line = Reacts(turn[t].batch)
  BY DEF AlertsInv, LinesFresh
<1>2. turn[t].batch \in Seq(Row) /\ today \in Days /\ rows \in Seq(Row) /\ limit \in Nat
  BY TypeFacts DEF AlertsInv
<1> QED
  BY <1>1, <1>2, ReactsIs

LEMMA CommitSettles ==
  ASSUME AlertsInv, NEW t \in Turns, Commit(t)
  PROVE  \E said \in Levels, cause \in Causes :
           /\ Settle(said, cause)
           /\ ~turn[t].stale => said = turn[t].line
           /\ cause # "none" \/ told >= LevelNow' \/ said >= LevelNow' \/ why # "none"
<1>1. PICK x, b : x = turn[t].extra /\ b = turn[t].batch
  OBVIOUS
<1>2. /\ turn[t] \in Turn /\ turn[t].pc = "read" /\ x \in Extras
      /\ told \in Levels /\ LevelNow \in Levels
  BY <1>1, TypeFacts DEF AlertsInv, Commit
<1>3. PICK said, cause : /\ said = IF turn[t].newMonth THEN 0 ELSE turn[t].line
                         /\ cause = IF turn[t].stale THEN "overlap" ELSE Cause(x)
  OBVIOUS
<1>4. Settle(said, cause)
  BY <1>1, <1>3 DEF Commit
<1>5. said \in Levels
  <2>1. turn[t].line \in Levels /\ 0 \in Levels
    BY <1>2 DEF Turn, Levels
  <2> QED
    BY <1>3, <2>1
<1>6. cause \in Causes
  <2>1. Cause(x) \in Causes
    BY DEF Cause, Causes
  <2> QED
    BY <1>3, <2>1 DEF Causes
<1>7. ~turn[t].stale => said = turn[t].line
  BY <1>2, <1>3, FreshLine
<1>8. ASSUME cause = "none", why = "none" PROVE told >= LevelNow' \/ said >= LevelNow'
  <2>1. ~turn[t].stale /\ Cause(x) = "none"
    BY <1>3, <1>8
  <2>2. PICK l : l = Level(Spent(rows \o b, today), limit)
    OBVIOUS
  <2>3. said = IF l > LevelNow THEN l ELSE 0
    BY <1>1, <1>2, <1>7, <2>1, <2>2, FreshLine
  <2>4. l \in Levels /\ LevelNow' \in Levels /\ LevelNow' <= l
    BY <1>1, <2>1, <2>2, FlushMonth DEF Commit
  <2>5. told = LevelNow
    BY <1>8 DEF AlertsInv, CrossingAnnounced
  <2> QED
    BY <1>2, <2>3, <2>4, <2>5 DEF Levels
<1> QED
  BY <1>4, <1>5, <1>6, <1>7, <1>8

LEMMA CommitKeeps ==
  ASSUME AlertsInv, NEW t \in Turns, Commit(t)
  PROVE  AlertsInv'
<1>1. PICK said \in Levels, cause \in Causes :
        /\ Settle(said, cause)
        /\ cause # "none" \/ told >= LevelNow' \/ said >= LevelNow' \/ why # "none"
  BY CommitSettles
<1>2. told \in Levels /\ why \in Causes
  BY DEF AlertsInv, TypeOK, Causes
<1>3. LevelNow' \in Levels /\ Flush(t) /\ UNCHANGED <<today, changes>>
  BY FlushMonth DEF Commit
<1>4. told' \in Levels /\ why' \in {"none", cause, why}
  BY <1>1, <1>2, <1>3, SettleFacts
<1>5. why' \in Causes
  BY <1>2, <1>4 DEF Causes
<1> QED
  BY <1>1, <1>3, <1>4, <1>5, FlushFacts, ChangeKeeps

LEMMA ConfirmKeeps ==
  ASSUME AlertsInv, NEW t \in Turns, Confirm(t)
  PROVE  AlertsInv'
<1>1. told \in Levels /\ why \in Causes /\ 0 \in Levels /\ "confirmed" \in Causes
      /\ Settle(0, "confirmed")
  BY DEF AlertsInv, TypeOK, Causes, Confirm, Levels
<1>2. LevelNow' \in Levels /\ Flush(t) /\ UNCHANGED <<today, changes>>
  BY FlushMonth DEF Confirm
<1>3. told' \in Levels /\ why' \in {"none", "confirmed", why}
  BY <1>1, <1>2, SettleFacts
<1>4. why' \in Causes
  BY <1>1, <1>3 DEF Causes
<1> QED
  BY <1>1, <1>2, <1>3, <1>4, FlushFacts, ChangeKeeps

\* A level of nothing spent.
LEMMA LevelOfNone ==
  ASSUME NEW lim \in Nat
  PROVE  Level(0, lim) = 0
<1>1. Level(0, lim) \in 0..2 /\ Level(0, lim) # 2 /\ Level(0, lim) # 1
  BY LevelFacts DEF Levels, Near
<1> QED
  BY <1>1

\* Tomorrow everything is still of the past.
LEMMA DatesStay ==
  ASSUME AlertsInv, today' \in Days, today <= today', rows' = rows,
         \A t \in Turns : turn'[t].batch = turn[t].batch /\ turn'[t].extra = turn[t].extra
  PROVE  DatesPast'
<1>1. today \in Nat /\ today' \in Nat /\ rows \in Seq(Row)
  <2>1. today \in Days /\ rows \in Seq(Row)
    BY TypeFacts DEF AlertsInv
  <2> QED
    BY <2>1, DatesFacts
<1>2. \A d \in Nat : d <= today => d <= today'
  BY <1>1
<1>3. ASSUME NEW rs \in Seq(Row), DatedBy(rs, today) PROVE DatedBy(rs, today')
  <2>1. ASSUME NEW n \in DOMAIN rs PROVE rs[n].date <= today'
    <3>1. rs[n] \in Row /\ rs[n].date <= today
      BY <1>3 DEF DatedBy
    <3> QED
      BY <1>2, <3>1, RowFacts
  <2> QED
    BY <2>1 DEF DatedBy
<1>4. DatedBy(rows, today')
  BY <1>1, <1>3 DEF AlertsInv, DatesPast
<1>5. ASSUME NEW t \in Turns
      PROVE  DatedBy(turn[t].batch, today') /\ turn[t].extra.date <= today'
  <2>1. turn[t].batch \in Seq(Row) /\ turn[t].extra.date \in Nat
    BY TypeFacts, ExtraNumbers DEF AlertsInv
  <2> QED
    BY <1>2, <1>3, <2>1 DEF AlertsInv, DatesPast
<1> QED
  BY <1>4, <1>5 DEF DatesPast, DatedBy

LEMMA NextDayKeeps ==
  ASSUME AlertsInv, NextDay
  PROVE  AlertsInv'
<1>1. /\ TypeOK /\ rows \in Seq(Row) /\ limit \in Nat
      /\ today \in Days /\ told \in Levels /\ LevelNow \in Levels
      /\ 0 \in Levels /\ "none" \in Causes
      /\ UNCHANGED <<rows, limit, saved, changes>> /\ Settle(0, "none")
  <2>1. TypeOK
    BY DEF AlertsInv
  <2> QED
    BY <2>1, TypeFacts DEF NextDay, Levels, Causes
<1>2. today' \in Days /\ today' > today
  BY <1>1, NextDate DEF NextDay
<1>3. today \in Nat /\ today' \in Nat /\ today <= today'
  BY <1>1, <1>2, DatesFacts
<1>4. LevelNow' \in Levels
  BY <1>1, <1>2, LevelNext
<1>5. told' \in Levels /\ why' \in {"none", why} /\ ToldHolds'
  BY <1>1, <1>4, SettleFacts
<1>6. /\ turn' \in [Turns -> Turn]
      /\ \A t \in Turns : turn'[t].batch = turn[t].batch /\ turn'[t].extra = turn[t].extra
  BY <1>1, OvertakenFacts DEF NextDay, TypeOK
<1>7. TypeOK' /\ DatesPast'
  <2>1. TypeOK'
    BY <1>1, <1>2, <1>5, <1>6 DEF TypeOK
  <2> QED
    BY <1>1, <1>2, <1>3, <1>6, <2>1, DatesStay
<1>8. CASE MonthRange[today'] = MonthRange[today]
  <2>1. turn' = turn
    BY <1>8 DEF NextDay
  <2>2. \A rs : Spent(rs, today') = Spent(rs, today)
    BY <1>8, SpentSame
  <2>3. LevelNow' = LevelNow
    BY <1>1, <2>2 DEF LevelNow
  <2>4. LinesFresh'
    <3>1. \A u \in Turns : turn'[u].pc = "read" /\ ~turn'[u].stale =>
            ~turn'[u].newMonth /\ turn'[u].line = Reacts(turn'[u].batch)
      BY <2>1 DEF AlertsInv, LinesFresh
    <3> QED
      BY <1>1, <2>2, <3>1 DEF LinesFresh, Reacts, JustLogged
  <2>5. CrossingAnnounced'
    <3>1. told = LevelNow \/ why # "none"
      BY DEF AlertsInv, CrossingAnnounced
    <3>2. told >= LevelNow' \/ why # "none"
      BY <1>1, <2>3, <3>1 DEF Levels
    <3> QED
      BY <1>1, <1>4, <3>2, SettleFacts
  <2> QED
    BY <1>5, <1>7, <2>4, <2>5 DEF AlertsInv
<1>9. CASE MonthRange[today'] # MonthRange[today]
  <2>1. turn' = Overtaken(TRUE)
    BY <1>9 DEF NextDay
  <2>2. \A u \in Turns : turn'[u].pc = "read" => turn'[u].stale
    BY <1>1, <2>1, OvertakenFacts
  <2>3. LevelNow' = 0
    <3>1. today < MonthRange[today'][1] /\ MonthRange[today'][1] \in Int
      BY <1>1, <1>2, <1>3, <1>9, LaterMonth, MonthFacts
    <3>2. ASSUME NEW n \in DOMAIN rows PROVE ~InMonth(rows[n], today')
      <4>1. rows[n] \in Row /\ rows[n].date <= today
        BY <1>1 DEF AlertsInv, DatesPast, DatedBy
      <4>2. rows[n].date \in Nat
        BY <4>1, RowFacts
      <4> QED
        BY <1>3, <3>1, <4>1, <4>2 DEF InMonth
    <3>3. Counted(rows, today') = {}
      BY <3>2 DEF Counted
    <3>4. Spent(rows, today') = 0
      BY <1>1, <1>2, <3>3, SpentNone
    <3> QED
      BY <1>1, <3>4, LevelOfNone DEF LevelNow
  <2>4. told >= LevelNow'
    BY <1>1, <2>3 DEF Levels
  <2> QED
    BY <1>1, <1>7, <2>2, <2>4, ChangeKeeps
<1> QED
  BY <1>8, <1>9

LEMMA InvStep == AlertsInv /\ [Next]_vars => AlertsInv'
<1> SUFFICES ASSUME AlertsInv, [Next]_vars PROVE AlertsInv'
  OBVIOUS
<1>1. ASSUME NEW t \in Turns, NEW b \in Batches, NEW d \in Days, NEW x \in Extras,
             Read(t, b, d, x)
      PROVE  AlertsInv'
  BY <1>1, ReadKeeps
<1>2. ASSUME NEW t \in Turns, Commit(t) PROVE AlertsInv'
  BY <1>2, CommitKeeps
<1>3. ASSUME NEW t \in Turns, Park(t) PROVE AlertsInv'
  BY <1>3, ParkKeeps
<1>4. ASSUME NEW t \in Turns, Confirm(t) PROVE AlertsInv'
  BY <1>4, ConfirmKeeps
<1>5. ASSUME NEW t \in Turns, Drop(t) PROVE AlertsInv'
  BY <1>5, DropKeeps
<1>6. CASE NextDay
  BY <1>6, NextDayKeeps
<1>7. CASE UNCHANGED vars
  BY <1>7 DEF AlertsInv, TypeOK, DatesPast, DatedBy, ToldHolds, LinesFresh,
              CrossingAnnounced, LevelNow, Reacts, JustLogged, vars
<1> QED
  BY <1>1, <1>2, <1>3, <1>4, <1>5, <1>6, <1>7 DEF Next

-----------------------------------------------------------------------------
(***************************************************************************)
(* Theorems of the specification.                                          *)
(***************************************************************************)

LEMMA Invariant == Spec => []AlertsInv
BY InvInit, InvStep, PTL DEF Spec

\* The state is what the modules beside it take it for.
THEOREM TypeCorrect == Spec => []TypeOK
<1>1. AlertsInv => TypeOK
  BY DEF AlertsInv
<1> QED
  BY <1>1, Invariant, PTL

\* append_budget_reaction, classify_writes and run_budget_checks: for any turns,
\* expenses, corrections and contributions, whether the category is Savings/Goals or
\* not, the level of a budget is announced, or one of the five ways past the reply
\* has been taken.
THEOREM CrossingsAnnounced == Spec => []CrossingAnnounced
<1>1. AlertsInv => CrossingAnnounced
  BY DEF AlertsInv
<1> QED
  BY <1>1, Invariant, PTL

\* A step of a turn that is about to answer changes the table when it is the
\* flush of that turn, and only then ends the turn.
LEMMA OnlyCommitAnswers ==
  ASSUME AlertsInv, Next, NEW t \in Turns,
         turn[t].pc = "read", turn'[t].pc = "idle", rows' # rows
  PROVE  Commit(t)
<1>1. turn \in [Turns -> Turn] /\ TypeOK
  BY DEF AlertsInv, TypeOK
<1>2. Overtaken(FALSE) \in [Turns -> Turn] /\ Overtaken(FALSE)[t].pc = "read"
  BY <1>1, OvertakenFacts
<1>3. ASSUME NEW u \in Turns, u # t, Flush(u) PROVE FALSE
  <2>1. PICK others : /\ others = IF <<rows', limit'>> = <<rows, limit>> THEN turn
                                  ELSE Overtaken(FALSE)
                      /\ turn' = [others EXCEPT ![u] = Idle]
    BY <1>3 DEF Flush
  <2>2. others \in [Turns -> Turn] /\ others[t].pc = "read"
    BY <1>1, <1>2, <2>1
  <2> QED
    BY <1>3, <2>1, <2>2
<1>4. ASSUME NEW u \in Turns, Commit(u) PROVE Commit(t)
  BY <1>3, <1>4 DEF Commit
<1>5. ASSUME NEW u \in Turns, Confirm(u) PROVE FALSE
  BY <1>3, <1>5 DEF Confirm
<1>6. ASSUME NEW u \in Turns,
             \/ Park(u) \/ Drop(u)
             \/ \E b \in Batches, d \in Days, x \in Extras : Read(u, b, d, x)
      PROVE  FALSE
  BY <1>6 DEF Park, Drop, Read
<1>7. ~NextDay
  BY DEF NextDay
<1> QED
  BY <1>4, <1>5, <1>6, <1>7 DEF Next

LEMMA SaysWhatIsNew ==
  ASSUME AlertsInv, NEW t \in Turns, Commit(t), turn[t].line > 0, ~turn[t].stale,
         turn[t].extra.op \notin {"edit", "delete", "budget"}
  PROVE  told' > told
<1>1. PICK said \in Levels, cause \in Causes : Settle(said, cause) /\ said = turn[t].line
  BY CommitSettles
<1>2. told \in Levels /\ LevelNow \in Levels /\ told <= LevelNow
  BY TypeFacts DEF AlertsInv, ToldHolds
<1>3. PICK l : l = Level(Spent(rows \o turn[t].batch, today), limit)
  OBVIOUS
<1>4. said = IF l > LevelNow THEN l ELSE 0
  BY <1>1, <1>3, FreshLine DEF Commit
<1>5. LevelNow' \in Levels /\ l \in Levels /\ l <= LevelNow'
  BY <1>3, FlushMonth DEF Commit
<1>6. told < said /\ said <= LevelNow'
  BY <1>1, <1>2, <1>4, <1>5 DEF Levels
<1>7. told' = said
  BY <1>1, <1>2, <1>5, <1>6, SettleFacts
<1> QED
  BY <1>6, <1>7

\* budget_reaction_line: for any turns and expenses, a reply nothing has overtaken, of
\* a turn that corrects nothing and sets no limit, announces a level the user does not
\* know of.
THEOREM AnnouncesOnce == Spec => AnnouncedOnce
<1>1. AlertsInv /\ [Next]_vars =>
        [\A t \in Turns :
           turn[t].pc = "read" /\ turn'[t].pc = "idle" /\ rows' # rows
             /\ turn[t].line > 0 /\ ~turn[t].stale
             /\ turn[t].extra.op \notin {"edit", "delete", "budget"} => told' > told]_vars
  BY OnlyCommitAnswers, SaysWhatIsNew
<1> QED
  BY <1>1, Invariant, PTL DEF Spec, AnnouncedOnce

-----------------------------------------------------------------------------
(***************************************************************************)
(* The arithmetic of the cron: products, quotients, rounding.              *)
(***************************************************************************)

LEMMA MulMono ==
  ASSUME NEW a \in Int, NEW b \in Int, NEW c \in Nat, a <= b
  PROVE  a * c <= b * c
OBVIOUS

LEMMA MulStrict ==
  ASSUME NEW a \in Int, NEW b \in Int, NEW c \in Nat, a * c < b * c
  PROVE  a < b
BY MulMono

LEMMA DivBounds ==
  ASSUME NEW a \in Int, NEW b \in Nat \ {0}
  PROVE  /\ a \div b \in Int
         /\ (a \div b) * b <= a /\ a < (a \div b) * b + b
<1>1. a \div b \in Int /\ b * (a \div b) <= a /\ a < b * (a \div b) + b
  OBVIOUS
<1>2. \A q \in Int : b * q = q * b
  OBVIOUS
<1> QED
  BY <1>1, <1>2

\* A rounded quotient is half a unit off.
LEMMA RoundFacts ==
  ASSUME NEW x \in Nat, NEW y \in Nat \ {0}, NEW r, r = Round(x, y)
  PROVE  /\ r \in Int
         /\ 2 * (r * y) <= 2 * x + y /\ 2 * x < 2 * (r * y) + y
<1>1. 2 * x + y \in Int /\ 2 * y \in Nat \ {0} /\ r = (2 * x + y) \div (2 * y)
  BY DEF Round
<1>2. r \in Int /\ r * (2 * y) <= 2 * x + y /\ 2 * x + y < r * (2 * y) + 2 * y
  BY <1>1, DivBounds
<1>3. r * (2 * y) = 2 * (r * y) /\ r * y \in Int
  BY <1>2
<1>4. PICK p \in Int : p = r * y
  BY <1>3
<1> QED
  BY <1>2, <1>3, <1>4

\* project_month_end on a day of the month.
LEMMA ProjectFacts ==
  ASSUME NEW s \in Nat, NEW dom \in Nat, NEW dim \in Nat, 1 <= dom, dom <= dim,
         NEW r, r = ProjectMonthEnd(s, dom, dim)
  PROVE  /\ r \in Int /\ s <= r
         /\ 2 * (r * dom) <= 2 * (s * dim) + dom
         /\ dom = dim => r = s
<1>1. r = Round(s * dim, dom) /\ s * dim \in Nat /\ dom \in Nat \ {0}
  BY DEF ProjectMonthEnd
<1>2. PICK x \in Nat : x = s * dim
  BY <1>1
<1>3. r \in Int /\ 2 * (r * dom) <= 2 * x + dom /\ 2 * x < 2 * (r * dom) + dom
  BY <1>1, <1>2, RoundFacts
<1>4. PICK p \in Int : p = r * dom
  BY <1>3
<1>5. PICK q \in Int : q = s * dom
  OBVIOUS
<1>6. q <= x
  <2>1. dom * s <= dim * s
    BY MulMono
  <2>2. dom * s = s * dom /\ dim * s = s * dim
    OBVIOUS
  <2> QED
    BY <1>2, <1>5, <2>1, <2>2
<1>7. s <= r
  <2> SUFFICES ASSUME r <= s - 1 PROVE FALSE
    BY <1>3
  <2>1. r * dom <= (s - 1) * dom
    BY <1>3, MulMono
  <2>2. (s - 1) * dom = s * dom - dom
    OBVIOUS
  <2> QED
    BY <1>3, <1>4, <1>5, <1>6, <2>1, <2>2
<1>8. ASSUME dom = dim PROVE r = s
  <2>1. x = q
    BY <1>2, <1>5, <1>8
  <2> SUFFICES ASSUME s + 1 <= r PROVE FALSE
    BY <1>3, <1>7
  <2>2. (s + 1) * dom <= r * dom
    BY <1>3, MulMono
  <2>3. (s + 1) * dom = s * dom + dom
    OBVIOUS
  <2> QED
    BY <1>3, <1>4, <1>5, <2>1, <2>2, <2>3
<1> QED
  BY <1>2, <1>3, <1>7, <1>8

\* The projection of the month.
LEMMA RobustFacts ==
  ASSUME NEW rs \in Seq(Row), NEW date \in Days,
         NEW dom \in Nat, NEW dim \in Nat, 1 <= dom, dom <= dim,
         NEW r, r = ProjectRobust(AmountsThisMonth(rs, date), dom, dim)
  PROVE  /\ r \in Int /\ Spent(rs, date) <= r
         /\ 2 * (r * dom) <= 2 * (Spent(rs, date) * dim) + dom
         /\ dom = dim => r = Spent(rs, date)
<1>1. PICK A : A = AmountsThisMonth(rs, date)
  OBVIOUS
<1>2. DOMAIN A = Counted(rs, date)
  BY <1>1 DEF AmountsThisMonth, Counted
<1>3. Outliers(A) \in SUBSET Counted(rs, date)
  BY <1>2 DEF Outliers
<1>4. PICK outlying, typical, s \in Nat :
        /\ outlying = SumFunctionOnSet(A, Outliers(A))
        /\ typical = SumFunctionOnSet(A, DOMAIN A \ Outliers(A))
        /\ s = Spent(rs, date) /\ s = outlying + typical
  <2>1. SumFunctionOnSet(A, Outliers(A)) \in Nat
    BY <1>1, <1>3, SumOver
  <2>2. SumFunctionOnSet(A, DOMAIN A \ Outliers(A)) \in Nat
    <3>1. DOMAIN A \ Outliers(A) \in SUBSET Counted(rs, date)
      BY <1>2
    <3> QED
      BY <1>1, <3>1, SumOver
  <2>3. Spent(rs, date) = SumFunctionOnSet(A, Outliers(A))
                            + SumFunctionOnSet(A, DOMAIN A \ Outliers(A))
    BY <1>1, <1>2, <1>3, SpentSplit
  <2> QED
    BY <2>1, <2>2, <2>3
<1>5. SumFunction(A) = s
  BY <1>1, <1>4 DEF Spent
<1>6. PICK e : e = ProjectMonthEnd(typical, dom, dim)
  OBVIOUS
<1>7. e \in Int
  BY <1>6, ProjectFacts
<1>8. PICK p \in Int : p = e + outlying
  BY <1>7
<1>9. /\ p \in Int /\ s <= p
      /\ 2 * (p * dom) <= 2 * (s * dim) + dom
      /\ dom = dim => p = s
  <2>1. /\ s = outlying + typical /\ typical <= e
        /\ 2 * (e * dom) <= 2 * (typical * dim) + dom
        /\ dom = dim => e = typical
    BY <1>4, <1>6, ProjectFacts
  <2>2. s <= p /\ (dom = dim => p = s)
    BY <1>7, <1>8, <2>1
  <2>3. outlying * dom <= outlying * dim
    <3>1. dom * outlying <= dim * outlying
      BY MulMono
    <3> QED
      BY <3>1
  <2>4. p * dom = e * dom + outlying * dom
    BY <1>7, <1>8
  <2>5. s * dim = outlying * dim + typical * dim
    BY <2>1
  <2>6. PICK a, b, c, d \in Int :
          a = e * dom /\ b = outlying * dom /\ c = outlying * dim /\ d = typical * dim
    BY <1>7
  <2>7. p * dom = a + b /\ s * dim = c + d
    BY <2>4, <2>5, <2>6
  <2>8. 2 * (p * dom) <= 2 * (s * dim) + dom
    <3>1. 2 * a <= 2 * d + dom
      BY <2>1, <2>6, Zenon
    <3>2. b <= c
      BY <2>3, <2>6, Zenon
    <3>3. 2 * (a + b) <= 2 * (c + d) + dom
      BY <3>1, <3>2
    <3> QED
      BY <2>7, <3>3, Zenon
  <2> QED
    BY <2>2, <2>8
<1>10. CASE r = ProjectMonthEnd(s, dom, dim)
  BY <1>4, <1>10, ProjectFacts
<1>11. CASE r = IF p > s THEN p ELSE s
  <2>1. r = p
    BY <1>9, <1>11
  <2> QED
    BY <1>4, <1>9, <2>1
<1>12. r = ProjectMonthEnd(s, dom, dim) \/ r = IF p > s THEN p ELSE s
  BY <1>1, <1>4, <1>5, <1>6, <1>8 DEF ProjectRobust
<1> QED
  BY <1>10, <1>11, <1>12

\* A date is a day of its month.
LEMMA DayBounds ==
  ASSUME NEW d \in Days
  PROVE  /\ DayOfMonth(d) \in Nat /\ DaysInMonth(d) \in Nat
         /\ 1 <= DayOfMonth(d) /\ DayOfMonth(d) <= DaysInMonth(d)
<1>1. d \in Int
  BY DatesFacts
<1>2. PICK y \in Years, m \in Months : OfMonth(d, y, m)
  BY DayInMonth
<1>3. Year(d) = y /\ Month(d) = m /\ DaysInMonth(d) = After(y, m) - FromYmd(y, m, 1)
  BY <1>1, <1>2, MonthFound, BoundsFound
<1>4. FromYmd(y, m, 1) \in Int /\ After(y, m) \in Int
  BY MonthDays, MonthLength
<1>5. DayOfMonth(d) = d - FromYmd(y, m, 1) + 1
  BY <1>3 DEF DayOfMonth, Day
<1> QED
  BY <1>1, <1>2, <1>3, <1>4, <1>5 DEF OfMonth

\* project_month_end_robust, run_budget_checks: for any expenses and limit, on any
\* date.
THEOREM ProjectionsSound == Spec => []ProjectionSound
<1> SUFFICES ASSUME TypeOK PROVE ProjectionSound
  <2>1. AlertsInv => TypeOK
    BY DEF AlertsInv
  <2>2. TypeOK => ProjectionSound
    OBVIOUS
  <2> QED
    BY <2>1, <2>2, Invariant, PTL
<1>1. PICK amounts, dom, dim, projected :
        /\ amounts = AmountsThisMonth(rows, today)
        /\ dom = DayOfMonth(today) /\ dim = DaysInMonth(today)
        /\ projected = ProjectRobust(amounts, dom, dim)
  OBVIOUS
<1>2. today \in Days /\ rows \in Seq(Row) /\ limit \in Nat
  BY TypeFacts
<1>3. PICK spent \in Nat : spent = Spent(rows, today)
  BY <1>2, SpentIs
<1>4. dom \in Nat /\ dim \in Nat /\ 1 <= dom /\ dom <= dim
  BY <1>1, <1>2, DayBounds
<1>5. /\ projected \in Int /\ spent <= projected
      /\ 2 * (projected * dom) <= 2 * (spent * dim) + dom
      /\ dom = dim => projected = spent
  BY <1>1, <1>2, <1>3, <1>4, RobustFacts
<1>6. PICK x \in Int, z \in Int : x = projected * dom /\ z = spent * dim
  BY <1>4, <1>5
<1>7. 2 * projected * dom = 2 * x /\ 2 * spent * dim = 2 * z /\ 100 * spent * dim = 100 * z
  BY <1>4, <1>5, <1>6
<1>8. 2 * projected * dom <= 2 * spent * dim + dom
  BY <1>4, <1>5, <1>6, <1>7
<1>9. CronFinds(rows, today, limit) = "budget" <=> LevelNow > 0
  <2>1. LevelNow > 0 <=> limit > 0 /\ spent * 100 >= 80 * limit
    <3>1. /\ LevelNow \in 0..2
          /\ LevelNow = 2 <=> limit > 0 /\ spent > limit
          /\ LevelNow = 1 <=> limit > 0 /\ spent <= limit /\ spent * 100 >= 80 * limit
      BY <1>2, <1>3, LevelFacts DEF LevelNow, Levels, Near
    <3> QED
      BY <1>2, <3>1
  <2>2. CronFinds(rows, today, limit) = "budget" <=> limit > 0 /\ spent * 100 >= limit * 80
    <3>1. CASE limit = 0
      <4>1. CronFinds(rows, today, limit) = "nothing"
        BY <3>1 DEF CronFinds
      <4> QED
        BY <3>1, <4>1
    <3>2. CASE limit > 0 /\ spent * 100 >= limit * 80
      <4>1. ~(limit <= 0)
        BY <1>2, <3>2
      <4>2. ~WarnsOfPace(amounts, dom, dim, limit)
        <5>1. SumFunction(amounts) = spent
          BY <1>1, <1>3 DEF Spent
        <5> QED
          BY <1>2, <3>2, <5>1 DEF WarnsOfPace, Near
      <4> QED
        BY <1>1, <1>3, <3>2, <4>1, <4>2 DEF CronFinds, Near
    <3>3. CASE limit > 0 /\ ~(spent * 100 >= limit * 80)
      <4>1. ~(limit <= 0)
        BY <1>2, <3>3
      <4>2. CronFinds(rows, today, limit) \in {"pace", "nothing"}
        BY <1>3, <3>3, <4>1 DEF CronFinds, Near
      <4> QED
        BY <3>3, <4>2
    <3> QED
      BY <1>2, <3>1, <3>2, <3>3
  <2> QED
    BY <1>2, <2>1, <2>2
<1>10. ASSUME CronFinds(rows, today, limit) = "pace"
       PROVE  100 * spent * dim + 50 * dom >= 110 * limit * dom
  <2>1. WarnsOfPace(amounts, dom, dim, limit)
    BY <1>1, <1>10 DEF CronFinds
  <2>2. projected * 100 >= limit * 110
    BY <1>1, <2>1 DEF WarnsOfPace
  <2>3. (limit * 110) * dom <= (projected * 100) * dom
    BY <1>2, <1>4, <1>5, <2>2, MulMono
  <2>4. PICK w \in Int : w = limit * dom
    BY <1>2, <1>4
  <2>5. (limit * 110) * dom = 110 * w /\ (projected * 100) * dom = 100 * x
        /\ 110 * limit * dom = 110 * w
    BY <1>2, <1>4, <1>5, <1>6, <2>4
  <2>6. 110 * w <= 100 * x /\ 2 * x <= 2 * z + dom
    BY <1>5, <1>6, <2>3, <2>5
  <2> QED
    BY <1>4, <1>7, <2>5, <2>6
<1> QED
  BY <1>1, <1>3, <1>5, <1>8, <1>9, <1>10 DEF ProjectionSound

-----------------------------------------------------------------------------
(***************************************************************************)
(* What stands out.                                                        *)
(***************************************************************************)

\* Of finitely many numbers one is not exceeded.
LEMMA Highest ==
  ASSUME NEW C, IsFiniteSet(C), C # {}, NEW v, \A n \in C : v[n] \in Nat
  PROVE  \E n \in C : \A m \in C : v[m] <= v[n]
<1> DEFINE over(n) == {m \in C : v[m] > v[n]}
<1>1. ASSUME NEW n \in C
      PROVE  over(n) \in SUBSET C /\ IsFiniteSet(over(n)) /\ Cardinality(over(n)) \in Nat
  <2>1. over(n) \in SUBSET C
    OBVIOUS
  <2> HIDE DEF over
  <2> QED
    BY <2>1, FS_Subset, FS_CardinalityType
<1>2. PICK T : T = {Cardinality(over(n)) : n \in C}
  OBVIOUS
<1>3. T \in SUBSET Nat /\ T # {}
  BY <1>1, <1>2
<1>4. PICK x \in T : \A y \in T : x <= y
  BY <1>3, Least
<1>5. PICK n \in C : x = Cardinality(over(n))
  BY <1>2
<1>6. ASSUME NEW m \in C, ~(v[m] <= v[n]) PROVE FALSE
  <2>1. over(m) \in SUBSET over(n) /\ m \in over(n) /\ m \notin over(m)
    BY <1>6
  <2>2. Cardinality(over(m)) >= x
    BY <1>1, <1>2, <1>3, <1>4
  <2> HIDE DEF over
  <2>3. /\ Cardinality(over(m)) <= Cardinality(over(n))
        /\ Cardinality(over(n)) = Cardinality(over(m)) => over(n) = over(m)
    BY <1>1, <2>1, FS_Subset
  <2>4. Cardinality(over(m)) = Cardinality(over(n))
    BY <1>1, <1>5, <2>2, <2>3
  <2> QED
    BY <2>1, <2>3, <2>4
<1> QED
  BY <1>6

\* The k-th number is there: fewer than k are below it, k are not above it.
LEMMA RankedIs ==
  ASSUME NEW D, IsFiniteSet(D), NEW v \in [D -> Nat],
         NEW k \in Nat \ {0}, k <= Cardinality(D)
  PROVE  /\ Ranked(v, k) \in Nat
         /\ Cardinality({n \in D : v[n] < Ranked(v, k)}) < k
         /\ k <= Cardinality({n \in D : v[n] <= Ranked(v, k)})
<1> DEFINE below(a) == {n \in D : v[n] < a}
           upTo(a) == {n \in D : v[n] <= a}
<1>1. ASSUME NEW a
      PROVE  /\ IsFiniteSet(below(a)) /\ Cardinality(below(a)) \in Nat
             /\ IsFiniteSet(upTo(a)) /\ Cardinality(upTo(a)) \in Nat
  <2>1. below(a) \in SUBSET D /\ upTo(a) \in SUBSET D
    OBVIOUS
  <2> HIDE DEF below, upTo
  <2> QED
    BY <2>1, FS_Subset, FS_CardinalityType
<1>2. PICK T : T = {a \in Range(v) : k <= Cardinality(upTo(a))}
  OBVIOUS
<1>3. Range(v) \in SUBSET Nat
  BY DEF Range
<1>4. T \in SUBSET Nat /\ T # {}
  <2>1. D # {}
    BY FS_EmptySet
  <2>2. \A n \in D : v[n] \in Nat
    OBVIOUS
  <2>3. PICK n \in D : \A m \in D : v[m] <= v[n]
    BY <2>1, <2>2, Highest
  <2>4. upTo(v[n]) = D /\ v[n] \in Range(v)
    BY <2>3 DEF Range
  <2> HIDE DEF upTo
  <2> QED
    BY <1>2, <1>3, <2>4
<1>5. PICK a \in T : \A b \in T : a <= b
  BY <1>4, Least
<1>6. a \in Range(v) /\ a \in Nat /\ k <= Cardinality(upTo(a))
  BY <1>2, <1>4
<1>7. Cardinality(below(a)) < k
  <2>0. PICK c \in Nat : c = Cardinality(below(a)) /\ IsFiniteSet(below(a))
    <3> HIDE DEF below, upTo
    <3> QED
      BY <1>1, Zenon
  <2> SUFFICES ASSUME k <= c PROVE FALSE
    <3> HIDE DEF below
    <3> QED
      BY <2>0
  <2>1. below(a) # {}
    <3> HIDE DEF below
    <3>1. c # 0
      OBVIOUS
    <3> QED
      BY <2>0, <3>1, FS_EmptySet
  <2>2. \A n \in below(a) : v[n] \in Nat
    OBVIOUS
  <2>3. PICK n \in below(a) : \A m \in below(a) : v[m] <= v[n]
    <3> HIDE DEF below
    <3> QED
      BY <1>1, <2>1, <2>2, Highest
  <2>4. v[n] \in Range(v) /\ v[n] \in Nat /\ v[n] < a /\ below(a) \in SUBSET upTo(v[n])
    BY <2>3 DEF Range
  <2> HIDE DEF below, upTo
  <2>5. Cardinality(below(a)) <= Cardinality(upTo(v[n]))
    BY <1>1, <2>4, FS_Subset
  <2>6. k <= Cardinality(upTo(v[n]))
    <3>1. Cardinality(upTo(v[n])) \in Nat
      BY <1>1, Zenon
    <3> QED
      BY <2>0, <2>5, <3>1
  <2>7. v[n] \in T
    BY <1>2, <2>4, <2>6
  <2> QED
    BY <1>5, <1>6, <2>4, <2>7
<1>8. Ranked(v, k) =
        CHOOSE b \in Range(v) : Cardinality(below(b)) < k /\ k <= Cardinality(upTo(b))
  BY DEF Ranked
<1>9. PICK r : r = Ranked(v, k)
  OBVIOUS
<1>10. r \in Range(v) /\ Cardinality(below(r)) < k /\ k <= Cardinality(upTo(r))
  <2> HIDE DEF below, upTo
  <2> QED
    BY <1>6, <1>7, <1>8, <1>9
<1> QED
  BY <1>3, <1>9, <1>10

\* project_month_end_robust: of any expenses fewer than half stand out.
THEOREM OutliersAreFew ==
  ASSUME NEW D, IsFiniteSet(D), D # {}, NEW amounts \in [D -> Nat]
  PROVE  2 * Cardinality(Outliers(amounts)) < Cardinality(D)
<1>1. PICK count \in Nat \ {0} : count = Cardinality(D)
  BY FS_CardinalityType, FS_EmptySet
<1>2. PICK mid \in Nat : mid = count \div 2
  BY <1>1
<1>3. /\ 2 * mid <= count /\ count <= 2 * mid + 1
      /\ count % 2 = 0 => count = 2 * mid
  BY <1>1, <1>2
<1>4. mid + 1 \in Nat \ {0} /\ mid + 1 <= count /\ (count % 2 = 0 => mid \in Nat \ {0})
  BY <1>1, <1>3
<1>5. PICK r : r = Ranked(amounts, mid + 1)
  OBVIOUS
<1>6. r \in Nat /\ mid + 1 <= Cardinality({n \in D : amounts[n] <= r})
  <2>1. PICK k \in Nat \ {0} : k = mid + 1 /\ k <= Cardinality(D)
    BY <1>1, <1>4
  <2>2. /\ Ranked(amounts, k) \in Nat
        /\ k <= Cardinality({n \in D : amounts[n] <= Ranked(amounts, k)})
    BY <2>1, RankedIs, Zenon
  <2> QED
    BY <1>5, <2>1, <2>2
<1>7. TwiceMedian(amounts) \in Nat /\ r <= TwiceMedian(amounts)
  <2>0. DOMAIN amounts = D
    OBVIOUS
  <2>1. CASE count % 2 = 0
    <3>1. Ranked(amounts, mid) \in Nat
      <4>1. mid \in Nat \ {0} /\ mid <= Cardinality(D)
        BY <1>1, <1>3, <1>4, <2>1
      <4> QED
        BY <4>1, RankedIs, Zenon
    <3>2. TwiceMedian(amounts) = Ranked(amounts, mid) + r
      BY <1>1, <1>2, <1>5, <2>0, <2>1 DEF TwiceMedian
    <3> QED
      BY <1>6, <3>1, <3>2
  <2>2. CASE count % 2 # 0
    <3>1. TwiceMedian(amounts) = 2 * r
      BY <1>1, <1>2, <1>5, <2>0, <2>2 DEF TwiceMedian
    <3> QED
      BY <1>6, <3>1
  <2> QED
    BY <2>1, <2>2
<1>8. PICK out, rest : out = Outliers(amounts) /\ rest = {n \in D : amounts[n] <= r}
  OBVIOUS
<1>9. out \in SUBSET D /\ rest \in SUBSET D /\ out \cap rest = {}
  BY <1>6, <1>7, <1>8 DEF Outliers
<1>10. /\ IsFiniteSet(out) /\ IsFiniteSet(rest)
       /\ Cardinality(out) \in Nat /\ Cardinality(rest) \in Nat
       /\ Cardinality(out \cup rest) <= count
  <2>1. out \cup rest \in SUBSET D
    BY <1>9
  <2> QED
    BY <1>1, <1>9, <2>1, FS_Subset, FS_CardinalityType
<1>11. Cardinality(out \cup rest) = Cardinality(out) + Cardinality(rest)
  <2>1. Cardinality(out \cap rest) = 0
    BY <1>9, FS_EmptySet
  <2> QED
    BY <1>10, <2>1, FS_Union
<1>12. mid + 1 <= Cardinality(rest)
  BY <1>6, <1>8
<1>13. 2 * Cardinality(out) < count
  BY <1>1, <1>3, <1>10, <1>11, <1>12
<1> QED
  BY <1>1, <1>8, <1>13

-----------------------------------------------------------------------------
(***************************************************************************)
(* The goal.                                                               *)
(***************************************************************************)

\* A goal that is not on track is not reached, and one on track at its deadline
\* is.
LEMMA OnTrackFacts ==
  ASSUME NEW amount \in Nat, NEW date \in Days
  PROVE  /\ ~OnTrack(amount, date) => amount < Target
         /\ date >= Deadline /\ OnTrack(amount, date) => amount >= Target
<1>1. Target \in Nat /\ Deadline \in Nat /\ date \in Nat /\ Created \in Nat /\ Created <= date
  BY AlertsAssumption, DatesFacts, CreatedFacts
<1>2. PICK span \in Int, gone \in Int : span = Deadline - Created /\ gone = date - Created
  BY <1>1
<1>3. CASE ~(span > 0)
  <2>1. OnTrack(amount, date) <=> amount >= Target
    BY <1>2, <1>3 DEF OnTrack
  <2> QED
    BY <1>1, <2>1
<1>4. CASE span > 0
  <2>1. PICK clamped \in Nat : /\ clamped = IF gone > span THEN span ELSE gone
                               /\ clamped <= span
                               /\ date >= Deadline => clamped = span
    <3>1. gone \in Nat /\ span \in Nat /\ (date >= Deadline => gone >= span)
      BY <1>1, <1>2, <1>4
    <3>2. PICK c : c = IF gone > span THEN span ELSE gone
      OBVIOUS
    <3>3. c \in Nat /\ c <= span /\ (date >= Deadline => c = span)
      BY <3>1, <3>2
    <3> QED
      BY <3>2, <3>3
  <2>2. OnTrack(amount, date) <=> amount * span >= clamped * Target
    <3>1. ~(gone < 0)
      BY <1>1, <1>2
    <3>2. clamped = CASE gone < 0 -> 0 [] gone > span -> span [] OTHER -> gone
      BY <2>1, <3>1
    <3> QED
      BY <1>2, <1>4, <3>2 DEF OnTrack
  <2>3. span \in Nat /\ amount * span \in Int /\ clamped * Target \in Int
        /\ span * Target = Target * span /\ Target * span \in Int
    BY <1>1, <1>2, <1>4
  <2>4. clamped * Target <= Target * span
    BY <1>1, <2>1, <2>3, MulMono
  <2>5. ~OnTrack(amount, date) => amount < Target
    <3> SUFFICES ASSUME ~OnTrack(amount, date) PROVE amount < Target
      OBVIOUS
    <3>1. amount * span < Target * span
      BY <2>2, <2>3, <2>4
    <3> QED
      BY <1>1, <2>3, <3>1, MulStrict
  <2>6. ASSUME date >= Deadline, OnTrack(amount, date) PROVE amount >= Target
    <3>1. amount * span >= Target * span
      BY <2>1, <2>2, <2>3, <2>6
    <3>2. ~(amount < Target)
      <4> SUFFICES ASSUME amount + 1 <= Target PROVE FALSE
        BY <1>1
      <4>1. (amount + 1) * span <= Target * span
        BY <1>1, <2>3, MulMono
      <4>2. (amount + 1) * span = amount * span + span
        BY <2>3
      <4> QED
        BY <1>4, <2>3, <3>1, <4>1, <4>2
    <3> QED
      BY <1>1, <3>2
  <2> QED
    BY <2>5, <2>6
<1> QED
  BY <1>3, <1>4

\* goal_pace: for any target and deadline, contributions, date and hour.
THEOREM GoalsAdvised == Spec => []GoalAdvice
<1> SUFFICES ASSUME TypeOK PROVE GoalAdvice
  <2>1. AlertsInv => TypeOK
    BY DEF AlertsInv
  <2>2. TypeOK => GoalAdvice
    OBVIOUS
  <2> QED
    BY <2>1, <2>2, Invariant, PTL
<1>1. saved \in Nat /\ today \in Days /\ today \in Nat /\ Target \in Nat /\ Deadline \in Nat
  <2>1. saved \in Nat /\ today \in Days
    BY DEF TypeOK
  <2> QED
    BY <2>1, AlertsAssumption, DatesFacts
<1>2. ~OnTrack(saved, today) => saved < Target
  BY <1>1, OnTrackFacts
<1>3. today >= Deadline /\ OnTrack(saved, today) => saved >= Target
  BY <1>1, OnTrackFacts
<1>4. ASSUME ~OnTrack(saved, today), NEW h \in Hours,
             NEW weeks, weeks = WeeksRemaining(today, h),
             NEW advised, advised = PerWeek(saved, today, h)
      PROVE  /\ advised > 0
             /\ saved + advised * weeks >= Target
             /\ saved + (advised - 1) * weeks < Target
  <2>1. weeks \in Nat \ {0}
    <3>1. h \in Nat
      BY AlertsAssumption
    <3>2. PICK k \in Int : k = ((Deadline - today) * 24 + 8 - h) \div (7 * 24)
      BY <1>1, <3>1
    <3> QED
      BY <1>4, <3>2 DEF WeeksRemaining
  <2>2. PICK lacking \in Nat : lacking = Target - saved /\ lacking > 0
    BY <1>1, <1>2, <1>4
  <2>3. advised = (lacking + weeks - 1) \div weeks /\ lacking + weeks - 1 \in Int
    BY <1>4, <2>1, <2>2 DEF PerWeek
  <2>4. /\ advised \in Int /\ advised * weeks <= lacking + weeks - 1
        /\ lacking + weeks - 1 < advised * weeks + weeks
    BY <2>1, <2>3, DivBounds
  <2>5. advised > 0
    <3> SUFFICES ASSUME advised <= 0 PROVE FALSE
      BY <2>4
    <3>1. advised * weeks <= 0 * weeks /\ 0 * weeks = 0
      BY <2>1, <2>4, MulMono
    <3> QED
      BY <2>1, <2>2, <2>4, <3>1
  <2>6. PICK p \in Int : p = advised * weeks
    BY <2>1, <2>4
  <2>7. (advised - 1) * weeks = p - weeks
    BY <2>1, <2>4, <2>6
  <2>8. saved + p >= Target /\ saved + (p - weeks) < Target
    BY <1>1, <2>1, <2>2, <2>4, <2>6
  <2> QED
    BY <2>5, <2>6, <2>7, <2>8
<1> QED
  BY <1>3, <1>4 DEF GoalAdvice
=============================================================================
