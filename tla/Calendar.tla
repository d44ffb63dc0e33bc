------------------------------- MODULE Calendar -------------------------------
(***************************************************************************)
(* The calendar arithmetic of glacier/base/date.cc and the conversions of  *)
(* timezone.cc between seconds since 1970 and the fields of a struct tm,   *)
(* walked through day by day, forward and backward, beside a civil         *)
(* calendar that knows nothing but the lengths of the months.              *)
(*                                                                         *)
(* TLC's integers have 32 bits where the code has 64: NearDays bounds the  *)
(* days whose seconds TLC computes; the theorems of CalendarProofs have no *)
(* such bound.                                                             *)
(***************************************************************************)
EXTENDS Integers

CONSTANTS FirstDay, LastDay,  \* bound: the days walked, from 1970-01-01
          NearDays,           \* bound: days whose seconds are computed
          Seconds             \* the seconds looked at on each

SecondsOfDay == {s \in Nat : s < 86400}

ASSUME DaysAssumption ==
  /\ FirstDay \in Int /\ FirstDay >= -2472326  \* New Year's Day, 4800 BC
  /\ LastDay \in Int
  /\ NearDays \subseteq Int

ASSUME SecondsAssumption == Seconds \subseteq SecondsOfDay

VARIABLES day,   \* days since 1970-01-01
          date   \* the date, counted by the civil calendar

vars == <<day, date>>

-----------------------------------------------------------------------------
(* The code.  Division truncates in C and rounds down in TLA+: the two     *)
(* differ on negative numbers, which from 4800 BC on only toUtcTime        *)
(* divides.                                                                *)

kSecondsPerDay == 24 * 60 * 60

Quotient(a, b) == IF a >= 0 THEN a \div b ELSE -((-a) \div b)
Remainder(a, b) == a - b * Quotient(a, b)

(* Mutant of getYearMonthDay: the month of a date is not carried over into *)
(* the next year.                                                          *)
YearOfMarch(j) ==
  LET a == j + 32044
      b == (4 * a + 3) \div 146097
      c == a - ((b * 146097) \div 4)
      d == (4 * c + 3) \div 1461
      e == c - ((1461 * d) \div 4)
      m == (5 * e + 2) \div 153
  IN [year |-> b * 100 + d - 4800,
      month |-> m + 3 - 12 * (m \div 10),
      day |-> e - ((153 * m + 2) \div 5) + 1]

getYearMonthDay(j) ==
  LET a == j + 32044
      b == (4 * a + 3) \div 146097
      c == a - ((b * 146097) \div 4)
      d == (4 * c + 3) \div 1461
      e == c - ((1461 * d) \div 4)
      m == (5 * e + 2) \div 153
  IN [year |-> b * 100 + d - 4800 + (m \div 10),
      month |-> m + 3 - 12 * (m \div 10),
      day |-> e - ((153 * m + 2) \div 5) + 1]

getJulianDayNumber(year, month, d) ==
  LET a == (14 - month) \div 12
      y == year + 4800 - a
      m == month + 12 * a - 3
  IN d + (153 * m + 2) \div 5 + y * 365 + y \div 4 - y \div 100 + y \div 400 - 32045

kJulianDayOf1970 == getJulianDayNumber(1970, 1, 1)

weekDay(j) == (j + 1) % 7

fillHMS(seconds) ==
  [hour |-> (seconds \div 60) \div 60,
   min |-> (seconds \div 60) % 60,
   sec |-> seconds % 60]

(* Mutant of toUtcTime: before 1970 the remainder is negative. *)
NoBorrow(t) ==
  LET julian == Quotient(t, kSecondsPerDay) + kJulianDayOf1970
      ymd == getYearMonthDay(julian)
  IN [ymd |-> ymd,
      hms |-> fillHMS(Remainder(t, kSecondsPerDay)),
      wday |-> weekDay(julian),
      yday |-> julian - getJulianDayNumber(ymd.year, 1, 1)]

(* The fields of a struct tm; tm_year and tm_mon are kept as the year and  *)
(* the month they stand for.                                               *)
toUtcTime(t) ==
  LET r == Remainder(t, kSecondsPerDay)
      seconds == IF r < 0 THEN r + kSecondsPerDay ELSE r
      days == Quotient(t, kSecondsPerDay) - (IF r < 0 THEN 1 ELSE 0)
      julian == days + kJulianDayOf1970
      ymd == getYearMonthDay(julian)
  IN [ymd |-> ymd,
      hms |-> fillHMS(seconds),
      wday |-> weekDay(julian),
      yday |-> julian - getJulianDayNumber(ymd.year, 1, 1)]

fromUtcTime(tm) ==
  LET days == getJulianDayNumber(tm.ymd.year, tm.ymd.month, tm.ymd.day)
              - kJulianDayOf1970
  IN days * kSecondsPerDay
     + tm.hms.hour * 3600 + tm.hms.min * 60 + tm.hms.sec

-----------------------------------------------------------------------------
(* The reference.                                                          *)

IsLeap(y) == y % 4 = 0 /\ (y % 100 = 0 => y % 400 = 0)

DaysIn(y, m) ==
  IF m = 2 THEN IF IsLeap(y) THEN 29 ELSE 28
  ELSE IF m \in {4, 6, 9, 11} THEN 30 ELSE 31

DayOfYear(x) ==
  <<0, 31, 59, 90, 120, 151, 181, 212, 243, 273, 304, 334>>[x.month]
  + (IF x.month > 2 /\ IsLeap(x.year) THEN 1 ELSE 0) + x.day - 1

(* The day after x and the day before. *)
NextDate(x) ==
  IF x.day < DaysIn(x.year, x.month)
  THEN [x EXCEPT !.day = @ + 1]
  ELSE IF x.month < 12
       THEN [year |-> x.year, month |-> x.month + 1, day |-> 1]
       ELSE [year |-> x.year + 1, month |-> 1, day |-> 1]

PreviousDate(x) ==
  IF x.day > 1
  THEN [x EXCEPT !.day = @ - 1]
  ELSE IF x.month > 1
       THEN [year |-> x.year, month |-> x.month - 1,
             day |-> DaysIn(x.year, x.month - 1)]
       ELSE [year |-> x.year - 1, month |-> 12, day |-> 31]

Init == day = 0 /\ date = [year |-> 1970, month |-> 1, day |-> 1]

Tomorrow == day < LastDay /\ day' = day + 1 /\ date' = NextDate(date)
Yesterday == day > FirstDay /\ day' = day - 1 /\ date' = PreviousDate(date)

Next == Tomorrow \/ Yesterday

Spec == Init /\ [][Next]_vars

-----------------------------------------------------------------------------
(* Properties.                                                             *)

(* The Julian day numbers of date.cc count the days of the Gregorian       *)
(* calendar, both ways, and the week goes on through all of them           *)
(* (date.cc:7-26, date.h:45).                                              *)
CivilDate ==
  /\ getYearMonthDay(day + kJulianDayOf1970) = date
  /\ getJulianDayNumber(date.year, date.month, date.day) = day + kJulianDayOf1970
  /\ weekDay(day + kJulianDayOf1970) = (day + 4) % 7

(* toUtcTime splits a time, before 1970 too, into the date, the second of  *)
(* the day and the day of the year; fromUtcTime puts it together again     *)
(* (timezone.cc:229-264; tests/timezone_test.cc:197-215 tries it on a few  *)
(* years about 1970).                                                      *)
UtcTimeAt(s) ==
  LET t == day * kSecondsPerDay + s
      tm == toUtcTime(t)
  IN /\ tm.ymd = date
     /\ tm.hms = [hour |-> s \div 3600, min |-> (s % 3600) \div 60, sec |-> s % 60]
     /\ tm.wday = (day + 4) % 7
     /\ tm.yday = DayOfYear(date)
     /\ fromUtcTime(tm) = t

UtcTime == day \in NearDays => \A s \in Seconds : UtcTimeAt(s)

=============================================================================
