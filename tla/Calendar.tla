-------------------------------- MODULE Calendar -------------------------------
(* The clock of the clients: the date of today and the trading phase (net/utils.rs).   *)
(* A moment is a day since 1970-01-01, a Thursday, and a second of it, both in UTC;    *)
(* Beijing is eight hours ahead.                                                       *)
EXTENDS Integers, Sequences, FiniteSets

CONSTANT LastYear \* bound on the years looked for

OneDay == 86400

-----------------------------------------------------------------------------
(* today_yyyymmdd *)

MutLeap(y) == y % 4 = 0
Leap(y) == y % 4 = 0 /\ (y % 100 # 0 \/ y % 400 = 0)

MonthDays(y) == <<31, IF Leap(y) THEN 29 ELSE 28, 31, 30, 31, 30, 31, 31, 30, 31, 30, 31>>

BeijingDay(m) == m.day + (m.sec + 8 * 3600) \div OneDay

\* What the loops take off: the days of the years before y, of the months before the nth of y.
YearsBefore(y) == 365 * (y - 1970) + Cardinality({k \in 1970..(y - 1) : Leap(k)})
MonthsBefore(y, n) ==
  LET before[k \in 1..13] == IF k = 1 THEN 0 ELSE before[k - 1] + MonthDays(y)[k - 1] IN before[n]

TodayYyyymmdd(m) ==
  LET day == BeijingDay(m)
      y == CHOOSE k \in 1970..LastYear : YearsBefore(k) <= day /\ day < YearsBefore(k + 1)
      left == day - YearsBefore(y)
      n == CHOOSE k \in 1..12 : MonthsBefore(y, k) <= left /\ left < MonthsBefore(y, k + 1)
  IN y * 10000 + n * 100 + left - MonthsBefore(y, n) + 1

-----------------------------------------------------------------------------
(* detect_trading_phase: the day of the week is that of UTC *)

Weekday(day) == (day + 4) % 7 \* 0 is Sunday

DetectTradingPhase(m) ==
  IF Weekday(m.day) \in {0, 6} THEN "closed"
  ELSE IF 5400 <= m.sec /\ m.sec <= 25200 THEN "trading" ELSE "prepost"

-----------------------------------------------------------------------------
(* Properties *)

\* The Gregorian calendar: its leap years up to y, the days before a month, the days to a date.
LeapsUpto(y) == (y \div 4) - (y \div 100) + (y \div 400)
DaysTo(y, n) ==
  365 * (y - 1970) + LeapsUpto(y - 1) - LeapsUpto(1969)
  + <<0, 31, 59, 90, 120, 151, 181, 212, 243, 273, 304, 334, 365>>[n]
  + (IF n > 2 THEN LeapsUpto(y) - LeapsUpto(y - 1) ELSE 0)

\* Today is the date in Beijing, whatever the time there: a date of the Gregorian calendar,
\* as many days after 1970-01-01 as have passed.
TodayIsBeijings(m) ==
  LET date == TodayYyyymmdd(m)
      y == date \div 10000
      n == (date \div 100) % 100
  IN /\ DaysTo(y, n) + (date % 100) - 1 = BeijingDay(m)
     /\ DaysTo(y, n) + (date % 100) <= DaysTo(y, n + 1)

\* A limiter is set to trading exactly in the session: Monday to Friday, 9:30 to 15:00 in Beijing.
TradingInSession(m) ==
  LET sec == (m.sec + 8 * 3600) % OneDay
  IN DetectTradingPhase(m) = "trading" <=>
       Weekday(BeijingDay(m)) \in 1..5 /\ 9 * 3600 + 1800 <= sec /\ sec <= 15 * 3600

\* It is set to closed exactly at the weekend (comments of TradingPhase: on weekends; before
\* and after the session of a weekday, PrePost).
ClosedAtWeekend(m) == DetectTradingPhase(m) = "closed" <=> Weekday(BeijingDay(m)) \in {0, 6}
=============================================================================
