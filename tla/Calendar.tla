------------------------------- MODULE Calendar -------------------------------
(***************************************************************************)
(* The date arithmetic of shared/time.rs on local dates.  A date is the    *)
(* number of days since 1 January 2000, a Saturday; what chrono does with  *)
(* it (valid dates, weekdays, differences) is in the external part.        *)
(***************************************************************************)
EXTENDS Integers, Sequences

-----------------------------------------------------------------------------
(***************************************************************************)
(* chrono::NaiveDate, for the years 2000 to 2100.                          *)
(***************************************************************************)
Months == 1..12

Leap(y) == y % 4 = 0 /\ (y % 100 # 0 \/ y % 400 = 0)

DaysBefore == <<0, 31, 59, 90, 120, 151, 181, 212, 243, 273, 304, 334>>

\* Leap days in the years from 2000 up to and without y.
LeapDays(y) ==
  LET n == y - 2000 IN ((n + 3) \div 4) - ((n + 99) \div 100) + ((n + 399) \div 400)

\* NaiveDate::from_ymd_opt
FromYmd(y, m, d) ==
  365 * (y - 2000) + LeapDays(y) + DaysBefore[m]
    + (IF Leap(y) /\ m > 2 THEN 1 ELSE 0) + d - 1

Year(n) ==
  LET least == 2000 + n \div 366 IN
  CHOOSE y \in least..(least + 1) : FromYmd(y, 1, 1) <= n /\ n < FromYmd(y + 1, 1, 1)

Month(n) ==
  LET y == Year(n) IN
  CHOOSE m \in Months :
    FromYmd(y, m, 1) <= n /\ (m < 12 => n < FromYmd(y, m + 1, 1))

Day(n) == n - FromYmd(Year(n), Month(n), 1) + 1

DaysFromMonday(n) == (n + 5) % 7
DaysFromSunday(n) == (n + 6) % 7

-----------------------------------------------------------------------------
(***************************************************************************)
(* time.rs.                                                                *)
(***************************************************************************)

\* Mutant: January for December.
MonthBounds_NoDecember(n) ==
  <<FromYmd(Year(n), Month(n), 1), FromYmd(Year(n), (Month(n) % 12) + 1, 1) - 1>>

\* month_bounds, month_range: first and last day of the month.
MonthBounds(n) ==
  <<FromYmd(Year(n), Month(n), 1),
    IF Month(n) = 12 THEN FromYmd(Year(n), 12, 31)
                     ELSE FromYmd(Year(n), Month(n) + 1, 1) - 1>>

\* current_week_start: the Monday of the week.
WeekStart(n) == n - DaysFromMonday(n)

\* local_day_of_month, days_in_local_month
DayOfMonth(n) == Day(n)
DaysInMonth(n) == Day(MonthBounds(n)[2])

\* prev_month_anchor: the 15th of the month before.
PrevMonthAnchor(n) ==
  IF Month(n) = 1 THEN FromYmd(Year(n) - 1, 12, 15)
                  ELSE FromYmd(Year(n), Month(n) - 1, 15)
=============================================================================
