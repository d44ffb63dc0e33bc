---------------------------- MODULE CalendarProofs ----------------------------
(***************************************************************************)
(* The calendar arithmetic is right on every day from 4800 BC on, and so   *)
(* is local time in every zone whose clocks change in the usual way.       *)
(*                                                                         *)
(* The code counts years from March, so that February comes last and its   *)
(* length never matters: a day has a March-year Y, a month M of it, from   *)
(* 0 to 11, and an index E in the year.  B and D are the century of Y and  *)
(* the year within it.  The lemmas show that the code's divisions find     *)
(* them again.                                                             *)
(***************************************************************************)
EXTENDS TimeZone, WellFoundedInduction, TLAPS

(* The day of the March-year on which month M begins (date.cc:15, 25). *)
FirstOf(M) == (153 * M + 2) \div 5

(* The number of years back from a calendar year to its March-year. *)
Early(m) == (14 - m) \div 12

Valid(x) ==
  /\ x \in [year : Int, month : 1..12, day : 1..31]
  /\ x.year >= -4799
  /\ x.day <= DaysIn(x.year, x.month)

Number(x) == getJulianDayNumber(x.year, x.month, x.day)

(* t is second s of day n. *)
IsTime(t, n, s) == t \in Int /\ n \in Int /\ s \in Nat /\ s < 86400 /\ t = n * 86400 + s

(* The days of the March-years before Y. *)
YearDays(Y) == 365 * Y + Y \div 4 - Y \div 100 + Y \div 400

-----------------------------------------------------------------------------

(* The century B of a day is found again: its days are 36524, and one more *)
(* in every fourth.                                                        *)
LEMMA Century ==
  ASSUME NEW B \in Nat, NEW C \in Nat,
         C <= 36524, C = 36524 => B % 4 = 3
  PROVE  (4 * (C + 36524 * B + (B \div 4)) + 3) \div 146097 = B
OBVIOUS

LEMMA CenturyStart ==
  ASSUME NEW B \in Nat
  PROVE  (B * 146097) \div 4 = 36524 * B + (B \div 4)
OBVIOUS

(* The year D of a century, likewise: its days are 365, and one more in    *)
(* every fourth.                                                           *)
LEMMA YearOfCentury ==
  ASSUME NEW D \in Nat, NEW E \in Nat,
         E <= 365, E = 365 => D % 4 = 3
  PROVE  /\ (4 * (E + 365 * D + (D \div 4)) + 3) \div 1461 = D
         /\ (1461 * D) \div 4 = 365 * D + (D \div 4)
OBVIOUS

(* A day of the month M of thirty or thirty-one days is in month M, whose  *)
(* days follow one another from March on.                                  *)
LEMMA MonthOfYear ==
  ASSUME NEW M \in 0..11, NEW d \in Nat, d < 31,
         M \in {1, 3, 6, 8} => d < 30, M = 11 => d < 29
  PROVE  /\ (5 * (d + FirstOf(M)) + 2) \div 153 = M
         /\ d + FirstOf(M) \in 0..365
         /\ d + FirstOf(M) = 365 => M = 11 /\ d = 28
BY DEF FirstOf

(* getYearMonthDay inverts getJulianDayNumber on every date of the         *)
(* calendar.                                                               *)
LEMMA DateOfNumber ==
  ASSUME NEW x, Valid(x)
  PROVE  /\ Number(x) \in Int
         /\ getYearMonthDay(Number(x)) = x
<1> DEFINE a0 == Early(x.month)
           Y == x.year + 4800 - a0
           M == x.month + 12 * a0 - 3
           E == (x.day - 1) + FirstOf(M)
           B == Y \div 100
           D == Y % 100
           C == E + 365 * D + (D \div 4)
           J == Number(x)
<1>1. /\ x.year \in Int /\ x.month \in 1..12 /\ x.day \in 1..31
      /\ x = [year |-> x.year, month |-> x.month, day |-> x.day]
  BY DEF Valid
<1>2. a0 \in {0, 1} /\ Y \in Nat /\ M \in 0..11 /\ a0 = M \div 10
      /\ x.month = M + 3 - 12 * a0 /\ x.year = Y - 4800 + a0
  BY <1>1 DEF Valid, Early
<1>3. /\ x.day - 1 \in Nat /\ x.day - 1 < 31
      /\ M \in {1, 3, 6, 8} => x.day - 1 < 30
      /\ M = 11 => x.day - 1 < 29
      /\ M = 11 /\ x.day = 29 => (Y + 1) % 4 = 0 /\ ((Y + 1) % 100 = 0 => (Y + 1) % 400 = 0)
  BY <1>1, <1>2 DEF Valid, DaysIn, IsLeap
<1> HIDE DEF a0, Y, M
<1>4. /\ (5 * E + 2) \div 153 = M
      /\ E \in 0..365
      /\ E = 365 => M = 11 /\ x.day = 29
  BY <1>1, <1>2, <1>3, MonthOfYear
<1>5. E = 365 => (Y + 1) % 4 = 0 /\ ((Y + 1) % 100 = 0 => (Y + 1) % 400 = 0)
  BY <1>3, <1>4
<1>6. B \in Nat /\ D \in 0..99 /\ Y = 100 * B + D
      /\ Y \div 4 - Y \div 100 + Y \div 400 = 24 * B + (D \div 4) + (B \div 4)
  BY <1>2
<1>7. J = E + 365 * Y + (Y \div 4 - Y \div 100 + Y \div 400) - 32044
  BY <1>1, <1>2 DEF Number, getJulianDayNumber, FirstOf, a0, Y, M, Early
<1> HIDE DEF E, B, D, J
<1>8. J + 32044 = C + 36524 * B + (B \div 4) /\ J \in Int
  BY <1>2, <1>4, <1>6, <1>7
<1>9. E = 365 => D % 4 = 3 /\ (D = 99 => B % 4 = 3)
  BY <1>2, <1>5, <1>6
<1>10. C \in Nat /\ C <= 36524 /\ (C = 36524 => B % 4 = 3)
  BY <1>4, <1>6, <1>9
<1>11. (4 * (E + 365 * D + (D \div 4)) + 3) \div 1461 = D
       /\ (1461 * D) \div 4 = 365 * D + (D \div 4)
  BY <1>4, <1>6, <1>9, YearOfCentury
<1> HIDE DEF C
<1>12. (4 * (J + 32044) + 3) \div 146097 = B
       /\ (B * 146097) \div 4 = 36524 * B + (B \div 4)
  BY <1>6, <1>8, <1>10, Century, CenturyStart
<1>13. J + 32044 - ((B * 146097) \div 4) = C
  BY <1>6, <1>8, <1>10, <1>12
<1>14. C - ((1461 * D) \div 4) = E
  BY <1>4, <1>6, <1>11 DEF C
<1>15. (4 * C + 3) \div 1461 = D
  BY <1>11 DEF C
<1>16. getYearMonthDay(J) = [year |-> B * 100 + D - 4800 + (M \div 10),
                             month |-> M + 3 - 12 * (M \div 10),
                             day |-> E - ((153 * M + 2) \div 5) + 1]
  BY <1>2, <1>4, <1>6, <1>8, <1>10, <1>12, <1>13, <1>14, <1>15, SMTT(30) DEF getYearMonthDay
<1>17. B * 100 + D - 4800 + (M \div 10) = x.year /\ M + 3 - 12 * (M \div 10) = x.month
       /\ E - ((153 * M + 2) \div 5) + 1 = x.day
  BY <1>1, <1>2, <1>6 DEF E, FirstOf
<1>18. QED
  BY <1>1, <1>8, <1>16, <1>17 DEF J

-----------------------------------------------------------------------------

(* The number of a date by the March-year it is in. *)
LEMMA NumberOf ==
  ASSUME NEW y \in Int, NEW m \in 1..12, NEW d \in Int, y >= -4799
  PROVE  /\ m >= 3 => getJulianDayNumber(y, m, d)
                      = d + FirstOf(m - 3) + YearDays(y + 4800) - 32045
         /\ m <= 2 => getJulianDayNumber(y, m, d)
                      = d + FirstOf(m + 9) + YearDays(y + 4799) - 32045
<1>1. CASE m >= 3
  <2>1. (14 - m) \div 12 = 0
    BY <1>1
  <2>2. QED
    BY <1>1, <2>1 DEF getJulianDayNumber, FirstOf, YearDays
<1>2. CASE m <= 2
  <2>1. (14 - m) \div 12 = 1
    BY <1>2
  <2>2. QED
    BY <1>2, <2>1 DEF getJulianDayNumber, FirstOf, YearDays
<1>3. QED
  BY <1>1, <1>2

LEMMA LeapDay ==
  ASSUME NEW y \in Int, y >= -4799
  PROVE  /\ YearDays(y + 4800) \in Int /\ YearDays(y + 4799) \in Int
         /\ YearDays(y + 4800) = YearDays(y + 4799) + (IF IsLeap(y) THEN 366 ELSE 365)
BY DEF YearDays, IsLeap

(* The months begin where the ones before them end. *)
LEMMA Firsts ==
  /\ FirstOf(0) = 0 /\ FirstOf(1) = 31 /\ FirstOf(2) = 61 /\ FirstOf(3) = 92
  /\ FirstOf(4) = 122 /\ FirstOf(5) = 153 /\ FirstOf(6) = 184 /\ FirstOf(7) = 214
  /\ FirstOf(8) = 245 /\ FirstOf(9) = 275 /\ FirstOf(10) = 306 /\ FirstOf(11) = 337
BY DEF FirstOf

LEMMA MonthLength ==
  ASSUME NEW y, NEW m \in 1..12
  PROVE  DaysIn(y, m) \in 28..31
BY DEF DaysIn

(* One date follows another within the month, at the end of a month, at    *)
(* the end of February and at the end of the year.                         *)
LEMMA NextNumber ==
  ASSUME NEW x, Valid(x)
  PROVE  Valid(NextDate(x)) /\ Number(NextDate(x)) = Number(x) + 1
<1> DEFINE y == x.year  m == x.month  d == x.day
<1>1. /\ y \in Int /\ m \in 1..12 /\ d \in 1..31 /\ y >= -4799
      /\ x = [year |-> y, month |-> m, day |-> d]
      /\ d <= DaysIn(y, m)
  BY DEF Valid
<1>2. DaysIn(y, m) \in 28..31 /\ (m < 12 => DaysIn(y, m + 1) \in 28..31)
  BY <1>1, MonthLength
<1>3. CASE d < DaysIn(y, m)
  <2>1. NextDate(x) = [year |-> y, month |-> m, day |-> d + 1]
    BY <1>1, <1>3 DEF NextDate
  <2>2. Valid(NextDate(x))
    BY <1>1, <1>2, <1>3, <2>1 DEF Valid
  <2>3. Number(NextDate(x)) = Number(x) + 1
    BY <1>1, <2>1 DEF Number, getJulianDayNumber
  <2>4. QED
    BY <2>2, <2>3
<1>4. CASE d = DaysIn(y, m) /\ m < 12
  <2>1. NextDate(x) = [year |-> y, month |-> m + 1, day |-> 1]
    BY <1>1, <1>2, <1>4 DEF NextDate
  <2>2. Valid(NextDate(x))
    BY <1>1, <1>2, <1>4, <2>1 DEF Valid
  <2>3. CASE m >= 3
    <3>1. /\ Number(x) = d + FirstOf(m - 3) + YearDays(y + 4800) - 32045
          /\ Number(NextDate(x)) = 1 + FirstOf(m - 2) + YearDays(y + 4800) - 32045
      BY <1>1, <1>4, <2>1, <2>3, NumberOf DEF Number
    <3>2. FirstOf(m - 2) = FirstOf(m - 3) + DaysIn(y, m) /\ FirstOf(m - 3) \in Int
      BY <1>1, <1>4, <2>3 DEF DaysIn, FirstOf
    <3>3. QED
      BY <1>1, <1>2, <1>4, <2>2, <3>1, <3>2 DEF YearDays
  <2>4. CASE m = 1
    <3>1. /\ Number(x) = 31 + FirstOf(10) + YearDays(y + 4799) - 32045
          /\ Number(NextDate(x)) = 1 + FirstOf(11) + YearDays(y + 4799) - 32045
      BY <1>1, <1>4, <2>1, <2>4, NumberOf DEF Number, DaysIn
    <3>2. QED
      BY <1>1, <2>2, <2>4, <3>1, Firsts, LeapDay
  <2>5. CASE m = 2
    <3>1. /\ Number(x) = d + FirstOf(11) + YearDays(y + 4799) - 32045
          /\ Number(NextDate(x)) = 1 + FirstOf(0) + YearDays(y + 4800) - 32045
      BY <1>1, <1>4, <2>1, <2>5, NumberOf DEF Number
    <3>2. d = IF IsLeap(y) THEN 29 ELSE 28
      BY <1>4, <2>5 DEF DaysIn
    <3>3. QED
      BY <1>1, <2>2, <2>5, <3>1, <3>2, Firsts, LeapDay
  <2>6. QED
    BY <1>1, <2>2, <2>3, <2>4, <2>5
<1>5. CASE d = DaysIn(y, m) /\ m = 12
  <2>1. NextDate(x) = [year |-> y + 1, month |-> 1, day |-> 1] /\ d = 31
    BY <1>1, <1>2, <1>5 DEF NextDate, DaysIn
  <2>2. Valid(NextDate(x))
    BY <1>1, <2>1, MonthLength DEF Valid
  <2>3. /\ Number(x) = 31 + FirstOf(9) + YearDays(y + 4800) - 32045
        /\ Number(NextDate(x)) = 1 + FirstOf(10) + YearDays(y + 4800) - 32045
    <3>1. Number(x) = 31 + FirstOf(9) + YearDays(y + 4800) - 32045
      BY <1>1, <1>5, <2>1, NumberOf DEF Number
    <3>2. y + 1 \in Int /\ y + 1 >= -4799 /\ (y + 1) + 4799 = y + 4800
      BY <1>1
    <3>3. getJulianDayNumber(y + 1, 1, 1) = 1 + FirstOf(10) + YearDays((y + 1) + 4799) - 32045
      BY <3>2, NumberOf
    <3>4. QED
      BY <2>1, <3>1, <3>2, <3>3 DEF Number
  <2>4. QED
    BY <1>1, <2>2, <2>3, Firsts DEF YearDays
<1>6. QED
  BY <1>1, <1>2, <1>3, <1>4, <1>5

(* And back: a day is the one after the day before it. *)
LEMMA PreviousNumber ==
  ASSUME NEW x, Valid(x), Number(x) > -31738
  PROVE  Valid(PreviousDate(x)) /\ Number(PreviousDate(x)) = Number(x) - 1
<1> DEFINE y == x.year  m == x.month  d == x.day  p == PreviousDate(x)
<1>1. /\ y \in Int /\ m \in 1..12 /\ d \in 1..31 /\ y >= -4799
      /\ x = [year |-> y, month |-> m, day |-> d]
      /\ d <= DaysIn(y, m)
  BY DEF Valid
<1>2. Valid(p) /\ NextDate(p) = x
  <2>1. CASE d > 1
    <3>1. p = [year |-> y, month |-> m, day |-> d - 1]
      BY <1>1, <2>1 DEF PreviousDate
    <3>2. d - 1 < DaysIn(y, m)
      BY <1>1, MonthLength
    <3>3. NextDate(p) = [year |-> y, month |-> m, day |-> (d - 1) + 1]
      BY <3>1, <3>2 DEF NextDate
    <3>4. QED
      BY <1>1, <2>1, <3>1, <3>2, <3>3, MonthLength DEF Valid
  <2>2. CASE d = 1 /\ m > 1
    <3>1. p = [year |-> y, month |-> m - 1, day |-> DaysIn(y, m - 1)]
      BY <1>1, <2>2 DEF PreviousDate
    <3>2. DaysIn(y, m - 1) \in 28..31
      BY <1>1, <2>2, MonthLength
    <3>3. NextDate(p) = [year |-> y, month |-> (m - 1) + 1, day |-> 1]
      BY <1>1, <2>2, <3>1, <3>2 DEF NextDate
    <3>4. QED
      BY <1>1, <2>2, <3>1, <3>2, <3>3 DEF Valid
  <2>3. CASE d = 1 /\ m = 1
    <3>1. p = [year |-> y - 1, month |-> 12, day |-> 31]
      BY <1>1, <2>3 DEF PreviousDate
    <3>2. DaysIn(y - 1, 12) = 31
      BY DEF DaysIn
    <3>3. NextDate(p) = [year |-> (y - 1) + 1, month |-> 1, day |-> 1]
      BY <3>1, <3>2 DEF NextDate
    <3>4. y # -4799
      <4>1. getJulianDayNumber(-4799, 1, 1) = -31738
        BY DEF getJulianDayNumber
      <4>2. QED
        BY <1>1, <2>3, <4>1 DEF Number
    <3>5. QED
      BY <1>1, <2>3, <3>1, <3>2, <3>3, <3>4 DEF Valid
  <2>4. QED
    BY <1>1, <2>1, <2>2, <2>3
<1>3. Number(x) = Number(p) + 1 /\ Number(p) \in Int
  BY <1>2, NextNumber, DateOfNumber
<1>4. QED
  BY <1>2, <1>3

(* The table of DayOfYear, from January, against the months from March. *)
LEMMA MonthTable ==
  ASSUME NEW m \in 1..12
  PROVE  <<0, 31, 59, 90, 120, 151, 181, 212, 243, 273, 304, 334>>[m]
         = IF m >= 3 THEN FirstOf(m - 3) + 59 ELSE FirstOf(m + 9) - 306
<1>1. \/ m = 1 \/ m = 2 \/ m = 3 \/ m = 4 \/ m = 5 \/ m = 6
      \/ m = 7 \/ m = 8 \/ m = 9 \/ m = 10 \/ m = 11 \/ m = 12
  OBVIOUS
<1>2. QED
  BY <1>1, Firsts

(* The day of the year (timezone.cc:247-250). *)
LEMMA YearDay ==
  ASSUME NEW x, Valid(x)
  PROVE  Number(x) - getJulianDayNumber(x.year, 1, 1) = DayOfYear(x)
<1> DEFINE y == x.year  m == x.month  d == x.day
<1>1. y \in Int /\ m \in 1..12 /\ d \in 1..31 /\ d \in Int /\ y >= -4799
  BY DEF Valid
<1>2. getJulianDayNumber(y, 1, 1) = 1 + FirstOf(10) + YearDays(y + 4799) - 32045
  BY <1>1, NumberOf
<1>3. /\ YearDays(y + 4800) \in Int /\ YearDays(y + 4799) \in Int
      /\ YearDays(y + 4800) = YearDays(y + 4799) + (IF IsLeap(y) THEN 366 ELSE 365)
  BY <1>1, LeapDay
<1>4. /\ m >= 3 => Number(x) = d + FirstOf(m - 3) + YearDays(y + 4800) - 32045
      /\ m <= 2 => Number(x) = d + FirstOf(m + 9) + YearDays(y + 4799) - 32045
  <2>1. m >= 3 => (14 - m) \div 12 = 0
    BY <1>1
  <2>2. m <= 2 => (14 - m) \div 12 = 1
    BY <1>1
  <2>3. QED
    BY <1>1, <2>1, <2>2 DEF Number, getJulianDayNumber, FirstOf, YearDays
<1>5. DayOfYear(x) = (IF m >= 3 THEN FirstOf(m - 3) + 59 ELSE FirstOf(m + 9) - 306)
                     + (IF m > 2 /\ IsLeap(y) THEN 1 ELSE 0) + d - 1
  BY <1>1, MonthTable DEF DayOfYear
<1>6. CASE m >= 3
  <2>1. Number(x) = d + FirstOf(m - 3) + YearDays(y + 4800) - 32045
    BY <1>4, <1>6
  <2>2. FirstOf(m - 3) \in Int
    BY <1>1, <1>6 DEF FirstOf
  <2>3. QED
    BY <1>1, <1>2, <1>3, <1>5, <1>6, <2>1, <2>2, Firsts
<1>7. CASE m <= 2
  <2>1. Number(x) = d + FirstOf(m + 9) + YearDays(y + 4799) - 32045
    BY <1>4, <1>7
  <2>2. FirstOf(m + 9) \in Int
    BY <1>1, <1>7 DEF FirstOf
  <2>3. QED
    BY <1>1, <1>2, <1>3, <1>5, <1>7, <2>1, <2>2, Firsts, SMTT(30)
<1>8. QED
  BY <1>1, <1>6, <1>7

LEMMA DayLength == kSecondsPerDay = 86400
BY DEF kSecondsPerDay

(* A time is split into its day and the second of it, on both sides of     *)
(* 1970 (timezone.cc:233-238).                                             *)
LEMMA SplitTime ==
  ASSUME NEW t, NEW n, NEW s, IsTime(t, n, s)
  PROVE  \/ Quotient(t, 86400) = n /\ Remainder(t, 86400) = s
         \/ Quotient(t, 86400) = n + 1 /\ Remainder(t, 86400) = s - 86400
<1> USE DEF IsTime
<1>1. CASE t >= 0
  <2>1. Quotient(t, 86400) = n
    BY <1>1 DEF Quotient
  <2>2. QED
    BY <2>1 DEF Remainder
<1>2. CASE t < 0 /\ s = 0
  <2>1. Quotient(t, 86400) = n
    BY <1>2 DEF Quotient
  <2>2. QED
    BY <1>2, <2>1 DEF Remainder
<1>3. CASE t < 0 /\ s > 0
  <2>1. Quotient(t, 86400) = n + 1
    BY <1>3 DEF Quotient
  <2>2. QED
    BY <2>1 DEF Remainder
<1>4. QED
  BY <1>1, <1>2, <1>3

LEMMA UtcFields ==
  ASSUME NEW t, NEW n, NEW s, IsTime(t, n, s)
  PROVE  toUtcTime(t)
         = [ymd |-> getYearMonthDay(n + kJulianDayOf1970),
            hms |-> fillHMS(s),
            wday |-> weekDay(n + kJulianDayOf1970),
            yday |-> (n + kJulianDayOf1970)
                     - getJulianDayNumber(getYearMonthDay(n + kJulianDayOf1970).year, 1, 1)]
<1> DEFINE q == Quotient(t, 86400)
           r == Remainder(t, 86400)
<1>1. \/ q = n /\ r = s
      \/ q = n + 1 /\ r = s - 86400
  BY ONLY IsTime(t, n, s), SplitTime
<1>2. n \in Int /\ s \in Nat /\ s < 86400
  BY ONLY IsTime(t, n, s) DEF IsTime
<1> HIDE DEF q, r
<1>3. (IF r < 0 THEN r + 86400 ELSE r) = s /\ q - (IF r < 0 THEN 1 ELSE 0) = n
  <2>1. r < 0 => r + 86400 = s /\ q - 1 = n
    BY ONLY <1>1, <1>2
  <2>2. ~(r < 0) => r = s /\ q - 0 = n
    BY ONLY <1>1, <1>2
  <2>3. CASE r < 0
    BY ONLY <2>1, <2>3
  <2>4. CASE ~(r < 0)
    BY ONLY <2>2, <2>4
  <2>5. QED
    BY <2>3, <2>4
<1>4. QED
  BY ONLY <1>3, DayLength DEF toUtcTime, q, r

LEMMA Epoch == kJulianDayOf1970 = 2440588
BY DEF kJulianDayOf1970, getJulianDayNumber

(* A time on day n has the date that has the number of day n, and survives *)
(* its fields.                                                             *)
LEMMA FieldsOf ==
  ASSUME NEW x, Valid(x), NEW t, NEW n, NEW s, IsTime(t, n, s),
         Number(x) = n + kJulianDayOf1970
  PROVE  /\ toUtcTime(t) = [ymd |-> x, hms |-> fillHMS(s), wday |-> weekDay(Number(x)),
                            yday |-> Number(x) - getJulianDayNumber(x.year, 1, 1)]
         /\ fromUtcTime(toUtcTime(t)) = t
<1>1. getYearMonthDay(Number(x)) = x /\ Number(x) \in Int
  BY DateOfNumber
<1>2. toUtcTime(t) = [ymd |-> x, hms |-> fillHMS(s), wday |-> weekDay(Number(x)),
                      yday |-> Number(x) - getJulianDayNumber(x.year, 1, 1)]
  <2>1. toUtcTime(t)
        = [ymd |-> getYearMonthDay(n + kJulianDayOf1970), hms |-> fillHMS(s),
           wday |-> weekDay(n + kJulianDayOf1970),
           yday |-> (n + kJulianDayOf1970)
                    - getJulianDayNumber(getYearMonthDay(n + kJulianDayOf1970).year, 1, 1)]
    BY ONLY IsTime(t, n, s), UtcFields, Zenon
  <2>2. QED
    BY ONLY <1>1, <2>1, Number(x) = n + kJulianDayOf1970
<1>3. n \in Int /\ s \in Nat /\ s < 86400 /\ t = n * 86400 + s
  BY DEF IsTime
<1>4. (s \div 3600) * 3600 + ((s % 3600) \div 60) * 60 + (s % 60) = s
  BY ONLY <1>3
<1>5. fillHMS(s) = [hour |-> s \div 3600, min |-> (s % 3600) \div 60, sec |-> s % 60]
  BY <1>3 DEF fillHMS
<1>6. fromUtcTime(toUtcTime(t))
      = (Number(x) - kJulianDayOf1970) * 86400
        + (s \div 3600) * 3600 + ((s % 3600) \div 60) * 60 + (s % 60)
  BY ONLY <1>2, <1>5, DayLength DEF fromUtcTime, Number
<1>7. QED
  BY ONLY <1>1, <1>2, <1>3, <1>4, <1>6, Epoch, Number(x) = n + kJulianDayOf1970

-----------------------------------------------------------------------------

(* The date beside the day count is a date of the calendar, with the       *)
(* number the code gives it.  That the code finds the date from the number *)
(* then needs no induction: it is lemma DateOfNumber.                           *)
IInv ==
  /\ day \in Int
  /\ Valid(date)
  /\ Number(date) = day + kJulianDayOf1970

THEOREM Counted == Spec => []IInv
<1>1. Init => IInv
  BY Epoch DEF Init, IInv, Valid, Number, getJulianDayNumber, DaysIn
<1>2. IInv /\ [Next]_vars => IInv'
  <2> SUFFICES ASSUME IInv, [Next]_vars PROVE IInv'
    OBVIOUS
  <2>1. CASE Tomorrow
    <3>1. Valid(date') /\ Number(date') = Number(date) + 1
      BY <2>1, NextNumber DEF IInv, Tomorrow
    <3>2. QED
      BY <2>1, <3>1, Epoch DEF IInv, Tomorrow
  <2>2. CASE Yesterday
    <3>1. Number(date) > -31738
      <4>1. day > FirstDay
        BY <2>2 DEF Yesterday
      <4>2. FirstDay \in Int /\ FirstDay >= -2472326
        BY ONLY DaysAssumption DEF DaysAssumption
      <4>3. day \in Int /\ Number(date) = day + 2440588
        BY Epoch DEF IInv
      <4>4. QED
        BY <4>1, <4>2, <4>3
    <3>2. Valid(PreviousDate(date)) /\ Number(PreviousDate(date)) = Number(date) - 1
      BY <3>1, PreviousNumber DEF IInv
    <3>3. day' = day - 1 /\ date' = PreviousDate(date)
      BY <2>2 DEF Yesterday
    <3>4. QED
      BY <3>2, <3>3, Epoch DEF IInv
  <2>3. CASE UNCHANGED vars
    BY <2>3 DEF IInv, vars, Number, Valid
  <2>4. QED
    BY <2>1, <2>2, <2>3 DEF Next
<1>3. QED
  BY <1>1, <1>2, PTL DEF Spec

(* On every day the Julian day numbers and the dates of date.cc are those  *)
(* of the Gregorian calendar.                                              *)
THEOREM DatesAgree == Spec => []CivilDate
<1>1. IInv => CivilDate
  <2> SUFFICES ASSUME IInv PROVE CivilDate
    OBVIOUS
  <2>1. getYearMonthDay(day + kJulianDayOf1970) = date
    BY DateOfNumber DEF IInv
  <2>2. weekDay(day + kJulianDayOf1970) = (day + 4) % 7
    BY Epoch DEF IInv, weekDay
  <2>3. QED
    BY <2>1, <2>2 DEF IInv, CivilDate, Number
<1>2. QED
  BY <1>1, Counted, PTL

(* On every day and at every second of it toUtcTime gives the civil date   *)
(* and time, and fromUtcTime gives the second back.                        *)
THEOREM TimesAgree == Spec => []UtcTime
<1>1. IInv => UtcTime
  <2> SUFFICES ASSUME IInv, NEW s \in Seconds PROVE UtcTimeAt(s)
    BY DEF UtcTime
  <2> DEFINE t == day * kSecondsPerDay + s
             N == day + kJulianDayOf1970
  <2>1. day \in Int /\ s \in Nat /\ s < 86400 /\ Valid(date) /\ Number(date) = N
    <3>1. day \in Int /\ Valid(date) /\ Number(date) = N
      BY DEF IInv
    <3>2. s \in Nat /\ s < 86400
      <4>1. s \in SecondsOfDay
        BY SecondsAssumption, Zenon DEF SecondsAssumption
      <4>2. QED
        BY ONLY <4>1 DEF SecondsOfDay
    <3>3. QED
      BY ONLY <3>1, <3>2
  <2>2. IsTime(t, day, s)
    <3>1. t = day * 86400 + s
      BY ONLY DayLength
    <3>2. day * 86400 + s \in Int
      BY <2>1
    <3> HIDE DEF t
    <3>3. QED
      BY ONLY <2>1, <3>1, <3>2 DEF IsTime
  <2>3. /\ toUtcTime(t) = [ymd |-> date, hms |-> fillHMS(s), wday |-> weekDay(N),
                           yday |-> N - getJulianDayNumber(date.year, 1, 1)]
        /\ fromUtcTime(toUtcTime(t)) = t
    <3> HIDE DEF t
    <3>1. QED
      BY ONLY <2>1, <2>2, FieldsOf
  <2>4. fillHMS(s) = [hour |-> s \div 3600, min |-> (s % 3600) \div 60, sec |-> s % 60]
    BY <2>1 DEF fillHMS
  <2>5. weekDay(N) = (day + 4) % 7
    BY <2>1, Epoch DEF weekDay
  <2>6. N - getJulianDayNumber(date.year, 1, 1) = DayOfYear(date)
    BY <2>1, YearDay
  <2> HIDE DEF t, N
  <2>7. QED
    BY <2>3, <2>4, <2>5, <2>6 DEF UtcTimeAt, t
<1>2. QED
  BY <1>1, Counted, PTL

-----------------------------------------------------------------------------
(* Induction, in the form of least elements.                               *)
LEMMA LeastOf ==
  ASSUME NEW T \in SUBSET Nat, T # {}
  PROVE  \E m \in T : \A k \in T : m <= k
<1> DEFINE R == OpToRel(<, Nat)
<1>1. IsWellFoundedOn(R, Nat)
  BY NatLessThanWellFounded
<1> HIDE DEF R
<1>2. PICK m \in T : \A k \in T : ~(<<k, m>> \in R)
  BY <1>1, WFMin
<1>3. \A k \in T : ~(k < m)
  BY <1>2 DEF R, OpToRel
<1>4. QED
  BY <1>3

(* Every day from 4800 BC on has a date.                                   *)
LEMMA EveryDay ==
  ASSUME NEW j \in Int, j >= -31738
  PROVE  \E x : Valid(x) /\ Number(x) = j
<1> DEFINE Dated(k) == \E x : Valid(x) /\ Number(x) = k - 31738
           T == {k \in Nat : ~Dated(k)}
<1>1. ASSUME T # {} PROVE FALSE
  <2>1. T \in SUBSET Nat
    OBVIOUS
  <2> HIDE DEF T
  <2>2. PICK m \in T : \A k \in T : m <= k
    BY <1>1, <2>1, LeastOf
  <2>3. \A k \in T : ~(k < m)
    BY <2>1, <2>2
  <2>4. m \in Nat /\ ~Dated(m)
    BY <2>1 DEF T
  <2>5. m # 0
    <3>1. Valid([year |-> -4799, month |-> 1, day |-> 1])
      BY DEF Valid, DaysIn
    <3>2. getJulianDayNumber(-4799, 1, 1) = -31738
      BY DEF getJulianDayNumber
    <3>3. Number([year |-> -4799, month |-> 1, day |-> 1]) = -31738
      BY <3>2 DEF Number
    <3>4. QED
      BY <2>4, <3>1, <3>3
  <2>6. Dated(m - 1)
    <3> HIDE DEF Dated
    <3>1. m - 1 \in Nat /\ m - 1 < m
      BY <2>4, <2>5
    <3>2. m - 1 \notin T
      BY <2>3, <3>1
    <3>3. QED
      BY <3>1, <3>2 DEF T
  <2>7. PICK x : Valid(x) /\ Number(x) = (m - 1) - 31738
    BY <2>6
  <2>8. Valid(NextDate(x)) /\ Number(NextDate(x)) = m - 31738
    BY <2>4, <2>7, NextNumber
  <2>9. QED
    BY <2>4, <2>8
<1>2. Dated(j + 31738)
  <2> HIDE DEF Dated
  <2>1. j + 31738 \in Nat
    OBVIOUS
  <2>2. QED
    BY <1>1, <2>1
<1>3. QED
  BY <1>2

(* The first second of 4800 BC. *)
Earliest == -2472326 * 86400

LEMMA RoundTrip ==
  ASSUME NEW t \in Int, t >= Earliest
  PROVE  fromUtcTime(toUtcTime(t)) = t
<1> DEFINE n == t \div 86400
           s == t % 86400
<1>1. IsTime(t, n, s) /\ n >= -2472326
  <2>1. n \in Int /\ s \in Nat /\ s < 86400 /\ t = n * 86400 + s
    OBVIOUS
  <2> HIDE DEF n, s
  <2>2. QED
    BY <2>1 DEF IsTime, Earliest
<1>2. n \in Int
  BY <1>1 DEF IsTime
<1> HIDE DEF n, s
<1>3. PICK x : Valid(x) /\ Number(x) = n + 2440588
  BY <1>1, <1>2, EveryDay
<1>4. QED
  BY <1>1, <1>3, FieldsOf, Epoch

-----------------------------------------------------------------------------
(* Looking up a time in a table whose times increase.                      *)

LEMMA MinIs ==
  ASSUME NEW S, NEW x \in S, S \subseteq Int, \A y \in S : x <= y
  PROVE  Min(S) = x
<1>1. \A z \in S : (\A y \in S : z <= y) => z = x
  OBVIOUS
<1>2. QED
  BY <1>1 DEF Min

LEMMA MaxIs ==
  ASSUME NEW S, NEW x \in S, S \subseteq Int, \A y \in S : x >= y
  PROVE  Max(S) = x
<1>1. \A z \in S : (\A y \in S : z >= y) => z = x
  OBVIOUS
<1>2. QED
  BY <1>1 DEF Max

(* at[i] is the time of transition i.                                      *)
Rising(n, at) ==
  /\ \A i \in 1 .. n : at[i] \in Int
  /\ \A i, j \in 1 .. n : i < j => at[i] < at[j]

(* The last transition not after a time. *)
IsLast(n, at, time, m) ==
  /\ m \in 0 .. n
  /\ m > 0 => at[m] <= time
  /\ m < n => time < at[m + 1]

(* Times that increase from each to the next increase altogether.          *)
LEMMA StepsRise ==
  ASSUME NEW n \in Nat, NEW at, \A i \in 1 .. n : at[i] \in Int,
         \A i \in 2 .. n : at[i - 1] < at[i]
  PROVE  Rising(n, at)
<1> DEFINE T == {j \in 1 .. n : \E i \in 1 .. j - 1 : ~(at[i] < at[j])}
<1>1. ASSUME T # {} PROVE FALSE
  <2>1. T \in SUBSET Nat
    OBVIOUS
  <2> HIDE DEF T
  <2>2. PICK m \in T : \A k \in T : m <= k
    BY <1>1, <2>1, LeastOf
  <2>3. \A k \in T : ~(k < m)
    BY <2>1, <2>2
  <2>4. m \in 1 .. n
    BY DEF T
  <2>5. PICK i \in 1 .. m - 1 : ~(at[i] < at[m])
    BY DEF T
  <2>6. i < m - 1 /\ m - 1 \in 1 .. n /\ at[m - 1] < at[m]
    BY <2>4, <2>5
  <2>7. m - 1 \notin T
    BY <2>3, <2>4
  <2>8. at[i] < at[m - 1]
    BY <2>5, <2>6, <2>7 DEF T
  <2>9. at[i] \in Int /\ at[m - 1] \in Int /\ at[m] \in Int
    BY <2>4, <2>5, <2>6
  <2>10. QED
    BY <2>5, <2>6, <2>8, <2>9
<1>2. QED
  BY <1>1 DEF Rising

(* Every time has a last transition not after it, or comes before all.     *)
LEMMA LastExists ==
  ASSUME NEW n \in Nat, NEW at, \A i \in 1 .. n : at[i] \in Int, NEW time \in Int
  PROVE  \E m : IsLast(n, at, time, m)
<1> DEFINE T == {i \in 1 .. n : time < at[i]}
<1>1. CASE T = {}
  <2>1. IsLast(n, at, time, n)
    BY <1>1 DEF IsLast
  <2>2. QED
    BY <2>1
<1>2. CASE T # {}
  <2>1. T \in SUBSET Nat
    OBVIOUS
  <2> HIDE DEF T
  <2>2. PICK m \in T : \A k \in T : m <= k
    BY <1>2, <2>1, LeastOf
  <2>3. \A k \in T : ~(k < m)
    BY <2>1, <2>2
  <2>4. m \in 1 .. n /\ time < at[m]
    BY DEF T
  <2>5. m - 1 > 0 => at[m - 1] <= time
    <3>1. m - 1 \notin T
      BY <2>3, <2>4
    <3>2. QED
      BY <2>4, <3>1 DEF T
  <2>6. IsLast(n, at, time, m - 1)
    BY <2>4, <2>5 DEF IsLast
  <2>7. QED
    BY <2>6
<1>3. QED
  BY <1>1, <1>2

(* What lower_bound finds among the transitions not before a time. *)
Found(n, at, time, m) ==
  LET notBefore == {i \in 1 .. n : at[i] >= time}
  IN  IF m > 0 /\ at[m] = time
      THEN m \in notBefore /\ Min(notBefore) = m
      ELSE /\ m < n => /\ m + 1 \in notBefore /\ Min(notBefore) = m + 1
                       /\ at[m + 1] # time
           /\ m = n => notBefore = {}

LEMMA Bounds ==
  ASSUME NEW n \in Nat, NEW at, Rising(n, at), NEW time \in Int, NEW m, IsLast(n, at, time, m)
  PROVE  /\ {i \in 1 .. n : at[i] <= time} = 1 .. m
         /\ Found(n, at, time, m)
<1> DEFINE S == {i \in 1 .. n : at[i] >= time}
<1>1. /\ m \in 0 .. n /\ m \in Int
      /\ m > 0 => at[m] <= time
      /\ m < n => time < at[m + 1]
  BY DEF IsLast
<1>2. \A i \in 1 .. n : at[i] \in Int
  BY DEF Rising
<1>3. \A i \in 1 .. n : i < m => at[i] < time
  BY <1>1, <1>2 DEF Rising
<1>4. \A i \in 1 .. n : i > m => at[i] > time
  <2> SUFFICES ASSUME NEW i \in 1 .. n, i > m PROVE at[i] > time
    OBVIOUS
  <2>1. m + 1 \in 1 .. n /\ time < at[m + 1] /\ at[m + 1] \in Int /\ at[i] \in Int
    BY <1>1, <1>2
  <2>2. i = m + 1 \/ at[m + 1] < at[i]
    BY <1>1, <2>1 DEF Rising
  <2>3. QED
    BY <2>1, <2>2
<1>5. {i \in 1 .. n : at[i] <= time} = 1 .. m
  BY <1>1, <1>2, <1>3, <1>4
<1>6. S \subseteq Int /\ \A i \in S : i >= m
  BY <1>1, <1>2, <1>3
<1>7. CASE m > 0 /\ at[m] = time
  <2>1. m \in S
    BY <1>1, <1>7
  <2> HIDE DEF S
  <2>2. Min(S) = m
    BY <1>1, <1>6, <2>1, MinIs
  <2>3. QED
    BY <1>5, <1>7, <2>1, <2>2, Zenon DEF S, Found
<1>8. CASE ~(m > 0 /\ at[m] = time)
  <2>1. m \notin S
    BY <1>1, <1>2, <1>8
  <2>2. m < n => m + 1 \in S /\ at[m + 1] # time
    BY <1>1, <1>2, <1>4
  <2>3. m = n => S = {}
    BY <1>1, <1>6, <2>1
  <2> HIDE DEF S
  <2>4. \A i \in S : i >= m + 1
    BY <1>1, <1>6, <2>1
  <2>5. m < n => Min(S) = m + 1
    BY <1>1, <1>6, <2>2, <2>4, MinIs
  <2>6. QED
    BY <1>5, <1>8, <2>2, <2>3, <2>5, Zenon DEF S, Found
<1>9. QED
  BY <1>7, <1>8
-----------------------------------------------------------------------------
(* Zones.                                                                  *)

Times(zone, clock) == [i \in 1 .. Len(zone.transitions) |-> zone.transitions[i][clock]]

(* What is known of a sequence without looking at its elements.            *)
LEMMA SeqFacts ==
  ASSUME NEW S, NEW s \in Seq(S)
  PROVE  /\ Len(s) \in Nat /\ DOMAIN s = 1 .. Len(s) /\ (s # <<>> => Len(s) # 0)
         /\ \A i \in DOMAIN s : s[i] \in S
OBVIOUS

(* A zone's table, with its numbers.                                       *)
LEMMA ZoneType ==
  ASSUME NEW zone \in Zones
  PROVE  /\ Len(zone.transitions) \in Nat
         /\ DOMAIN zone.transitions = 1 .. Len(zone.transitions)
         /\ \A i \in 0 .. Len(zone.transitions) :
              /\ KindFrom(zone, i).gmtOffset \in Int /\ KindFrom(zone, i).isDst \in BOOLEAN
              /\ -kSecondsPerDay < KindFrom(zone, i).gmtOffset
              /\ KindFrom(zone, i).gmtOffset < kSecondsPerDay
         /\ \A i \in 1 .. Len(zone.transitions) :
              /\ zone.transitions[i].gmttime \in Int
              /\ zone.transitions[i].localtime
                 = zone.transitions[i].gmttime + KindFrom(zone, i).gmtOffset
<1> DEFINE trs == zone.transitions
           kinds == zone.localtimes
<1>1. IsTable(zone)
  BY ZonesAssumption, Zenon DEF ZonesAssumption
<1>2. /\ \A i \in DOMAIN kinds : -kSecondsPerDay < kinds[i].gmtOffset
                              /\ kinds[i].gmtOffset < kSecondsPerDay
      /\ \A i \in DOMAIN trs :
           /\ trs[i].localtimeIdx \in DOMAIN kinds
           /\ trs[i].localtime = trs[i].gmttime + KindFrom(zone, i).gmtOffset
  BY <1>1, Zenon DEF IsTable
<1>3. \A i : KindFrom(zone, i) = IF i = 0 THEN kinds[1] ELSE kinds[trs[i].localtimeIdx]
  BY DEF KindFrom
<1> DEFINE Tr == [gmttime : Int, localtime : Int, localtimeIdx : Nat]
           Kinds == [gmtOffset : Int, isDst : BOOLEAN]
<1>4. zone \in [transitions : Seq(Tr), localtimes : Seq(Kinds)] /\ kinds # <<>>
  BY <1>1, Zenon DEF IsTable
<1> HIDE DEF Tr, Kinds
<1>5. trs \in Seq(Tr) /\ kinds \in Seq(Kinds)
  BY <1>4
<1> HIDE DEF trs, kinds
<1>6. /\ Len(trs) \in Nat /\ DOMAIN trs = 1 .. Len(trs)
      /\ Len(kinds) \in Nat /\ DOMAIN kinds = 1 .. Len(kinds) /\ Len(kinds) # 0
      /\ \A i \in DOMAIN trs : trs[i] \in Tr
      /\ \A i \in DOMAIN kinds : kinds[i] \in Kinds
  BY <1>4, <1>5, SeqFacts
<1>7. /\ \A i \in DOMAIN trs : trs[i].gmttime \in Int
      /\ \A i \in DOMAIN kinds : kinds[i].gmtOffset \in Int /\ kinds[i].isDst \in BOOLEAN
  BY <1>6 DEF Tr, Kinds
<1>8. ASSUME NEW i \in 0 .. Len(trs)
      PROVE  \E k \in DOMAIN kinds : KindFrom(zone, i) = kinds[k]
  <2>1. 1 \in DOMAIN kinds /\ (i # 0 => i \in DOMAIN trs)
    BY <1>6
  <2>2. QED
    BY <1>2, <1>3, <2>1
<1>9. \A i \in 0 .. Len(trs) :
        /\ KindFrom(zone, i).gmtOffset \in Int /\ KindFrom(zone, i).isDst \in BOOLEAN
        /\ -kSecondsPerDay < KindFrom(zone, i).gmtOffset
              /\ KindFrom(zone, i).gmtOffset < kSecondsPerDay
  BY <1>2, <1>7, <1>8
<1>10. \A i \in 1 .. Len(trs) :
         /\ trs[i].gmttime \in Int
         /\ trs[i].localtime = trs[i].gmttime + KindFrom(zone, i).gmtOffset
  BY <1>2, <1>6, <1>7
<1>11. QED
  BY <1>6, <1>9, <1>10 DEF trs

(* Both clocks' times increase from transition to transition.              *)
LEMMA ZoneRises ==
  ASSUME NEW zone \in Zones, NEW clock \in {"gmttime", "localtime"}
  PROVE  Rising(Len(zone.transitions), Times(zone, clock))
<1> DEFINE n == Len(zone.transitions)
           g(i) == zone.transitions[i].gmttime
           o(i) == KindFrom(zone, i).gmtOffset
<1>1. n \in Nat /\ DOMAIN zone.transitions = 1 .. n
  BY ZoneType
<1>2. \A i \in 0 .. n : o(i) \in Int
  BY ZoneType
<1>3. \A i \in 1 .. n : g(i) \in Int /\ zone.transitions[i].localtime = g(i) + o(i)
  BY ZoneType
<1>4. ASSUME NEW i \in 2 .. n
      PROVE  \A a \in {g(i - 1) + o(i - 2), g(i - 1) + o(i - 1)} :
             \A b \in {g(i) + o(i - 1), g(i) + o(i)} : a < b
  <2>1. ClockChanges(zone)
    BY ZonesAssumption, Zenon DEF ZonesAssumption
  <2>2. i \in DOMAIN zone.transitions /\ i > 1 /\ (i - 1) - 1 = i - 2
    BY <1>1
  <2>3. \A a \in ShownAt(zone, i - 1), b \in ShownAt(zone, i) : a < b
    BY <2>1, <2>2 DEF ClockChanges
  <2>4. /\ ShownAt(zone, i - 1) = {g(i - 1) + o(k) : k \in {i - 2, i - 1}}
        /\ ShownAt(zone, i) = {g(i) + o(k) : k \in {i - 1, i}}
    BY <2>2 DEF ShownAt
  <2>5. QED
    BY <2>3, <2>4
<1> HIDE DEF n, g, o
<1>5. ASSUME NEW i \in 2 .. n
      PROVE  g(i - 1) < g(i) /\ g(i - 1) + o(i - 1) < g(i) + o(i)
  <2>1. i - 1 \in 1 .. n /\ i - 1 \in 0 .. n /\ i \in 1 .. n /\ i \in 0 .. n
    BY <1>1
  <2>2. g(i - 1) + o(i - 1) < g(i) + o(i - 1) /\ g(i - 1) + o(i - 1) < g(i) + o(i)
    BY <1>4
  <2>3. g(i - 1) \in Int /\ g(i) \in Int /\ o(i - 1) \in Int
    BY <1>2, <1>3, <2>1
  <2>4. QED
    BY <2>2, <2>3
<1> DEFINE at == Times(zone, clock)
<1>6. \A i \in 1 .. n : at[i] = IF clock = "gmttime" THEN g(i) ELSE g(i) + o(i)
  BY <1>3 DEF Times, n, g
<1>7. \A i \in 1 .. n : at[i] \in Int
  BY <1>1, <1>2, <1>3, <1>6
<1>8. \A i \in 2 .. n : i \in 1 .. n /\ i - 1 \in 1 .. n
  BY <1>1
<1>9. \A i \in 2 .. n : at[i - 1] < at[i]
  BY <1>5, <1>6, <1>8
<1> HIDE DEF at
<1>10. Rising(n, at)
  BY <1>1, <1>7, <1>9, StepsRise
<1>11. QED
  BY <1>10 DEF n, at

(* findLocaltime finds the kind of local time since the last transition    *)
(* not after the time.                                                     *)
LEMMA LookUp ==
  ASSUME NEW zone \in Zones, NEW clock \in {"gmttime", "localtime"}, NEW time \in Int,
         NEW m, IsLast(Len(zone.transitions), Times(zone, clock), time, m)
  PROVE  findLocaltime(zone, time, clock) = KindFrom(zone, m)
<1> DEFINE n == Len(zone.transitions)
           at == Times(zone, clock)
           notBefore == {i \in 1 .. n : at[i] >= time}
<1>1. n \in Nat /\ DOMAIN zone.transitions = 1 .. n
  BY ZoneType
<1>2. \A i \in 1 .. n : zone.transitions[i][clock] = at[i]
  BY DEF Times
<1>3. {i \in DOMAIN zone.transitions : zone.transitions[i][clock] >= time} = notBefore
  BY <1>1, <1>2
<1>4. Rising(n, at)
  BY ZoneRises
<1>5. m \in 0 .. n /\ m \in Int /\ (m < n => time < at[m + 1]) /\ (m > 0 => at[m] <= time)
  BY <1>1 DEF IsLast
<1>6. \A i \in 1 .. n : at[i] \in Int
  BY <1>4 DEF Rising
<1>7. Found(n, at, time, m)
  BY <1>1, <1>4, Bounds, Zenon
<1>8. CASE m = 0
  <2>1. n = 0 \/ time < at[1]
    BY <1>1, <1>5, <1>8
  <2>2. n = 0 \/ time < zone.transitions[1][clock]
    BY <1>1, <1>2, <2>1
  <2>3. QED
    BY <1>8, <2>2 DEF findLocaltime, KindFrom
<1>9. CASE m > 0
  <2>1. m \in 1 .. n /\ 1 \in 1 .. n
    BY <1>1, <1>5, <1>9
  <2>2. m = 1 \/ at[1] < at[m]
    BY <1>4, <1>5, <1>9, <2>1 DEF Rising
  <2>3. ~(n = 0 \/ time < at[1])
    <3>1. at[1] \in Int /\ at[m] \in Int /\ at[m] <= time
      BY <1>5, <1>6, <1>9, <2>1
    <3>2. QED
      BY <1>1, <2>1, <2>2, <3>1
  <2>4. ~(n = 0 \/ time < zone.transitions[1][clock])
    BY <1>2, <2>1, <2>3
  <2>5. findLocaltime(zone, time, clock)
        = zone.localtimes[zone.transitions[
            IF notBefore = {} THEN n
            ELSE IF zone.transitions[Min(notBefore)][clock] = time THEN Min(notBefore)
            ELSE Min(notBefore) - 1].localtimeIdx]
    <3> HIDE DEF notBefore
    <3>1. QED
      BY <1>3, <2>4, Zenon DEF findLocaltime
  <2>6. (IF notBefore = {} THEN n
         ELSE IF zone.transitions[Min(notBefore)][clock] = time THEN Min(notBefore)
         ELSE Min(notBefore) - 1) = m
    <3>1. IF at[m] = time THEN m \in notBefore /\ Min(notBefore) = m
          ELSE /\ m < n => /\ m + 1 \in notBefore /\ Min(notBefore) = m + 1
                           /\ at[m + 1] # time
               /\ m = n => notBefore = {}
      BY <1>7, <1>9, Zenon DEF Found
    <3> HIDE DEF n, at, notBefore
    <3>2. CASE at[m] = time
      BY <1>2, <2>1, <3>1, <3>2
    <3>3. CASE at[m] # time /\ m < n
      <4>1. m + 1 \in 1 .. n /\ (m + 1) - 1 = m
        BY <1>1, <1>5, <2>1, <3>3
      <4>2. QED
        BY <1>2, <3>1, <3>3, <4>1
    <3>4. CASE at[m] # time /\ m = n
      BY <3>1, <3>4
    <3>5. QED
      BY <1>1, <1>5, <3>2, <3>3, <3>4
  <2>7. KindFrom(zone, m) = zone.localtimes[zone.transitions[m].localtimeIdx]
    BY <1>9 DEF KindFrom
  <2> HIDE DEF notBefore
  <2>8. QED
    BY <2>5, <2>6, <2>7, Zenon
<1>10. QED
  BY <1>5, <1>8, <1>9

(* Offset looks for the same transition as findLocaltime.                  *)
LEMMA OffsetIs ==
  ASSUME NEW zone \in Zones, NEW t \in Int,
         NEW m, IsLast(Len(zone.transitions), Times(zone, "gmttime"), t, m)
  PROVE  Offset(zone, t) = KindFrom(zone, m).gmtOffset
<1> DEFINE n == Len(zone.transitions)
           at == Times(zone, "gmttime")
           past == {i \in DOMAIN zone.transitions : zone.transitions[i].gmttime <= t}
<1>1. n \in Nat /\ DOMAIN zone.transitions = 1 .. n
  BY ZoneType
<1>2. past = {i \in 1 .. n : at[i] <= t}
  BY <1>1 DEF Times
<1>3. Rising(n, at)
  BY ZoneRises
<1>4. m \in 0 .. n
  BY DEF IsLast
<1> HIDE DEF past
<1>5. past = 1 .. m
  BY <1>1, <1>2, <1>3, Bounds
<1>6. (IF past = {} THEN 0 ELSE Max(past)) = m
  <2>1. CASE m = 0
    BY <1>5, <2>1
  <2>2. CASE m # 0
    <3>1. m \in past /\ past \subseteq Int /\ \A y \in past : m >= y
      BY <1>1, <1>4, <1>5, <2>2
    <3>2. Max(past) = m
      BY <3>1, MaxIs
    <3>3. QED
      BY <3>1, <3>2
  <2>3. QED
    BY <2>1, <2>2
<1>7. QED
  BY <1>6, Zenon DEF Offset, past

-----------------------------------------------------------------------------
(* Local time.                                                             *)

(* The clock at t, between transitions m and m + 1: it shows a time that   *)
(* the clocks of m + 1 show as well only if it is put back.                *)
LEMMA ShownOnce ==
  ASSUME NEW zone \in Zones, NEW t \in Int,
         NEW m, IsLast(Len(zone.transitions), Times(zone, "gmttime"), t, m),
         NEW k, IsLast(Len(zone.transitions), Times(zone, "localtime"),
                       t + KindFrom(zone, m).gmtOffset, k)
  PROVE  \/ k = m
         \/ /\ k = m + 1
            /\ KindFrom(zone, m).isDst /\ ~KindFrom(zone, k).isDst
            /\ KindFrom(zone, m).gmtOffset - KindFrom(zone, k).gmtOffset = 3600
            /\ IsLast(Len(zone.transitions), Times(zone, "gmttime"), t + 3600, k)
<1> DEFINE n == Len(zone.transitions)
           g(i) == zone.transitions[i].gmttime
           o(i) == KindFrom(zone, i).gmtOffset
           lt == Times(zone, "localtime")
<1>1. n \in Nat /\ DOMAIN zone.transitions = 1 .. n
  BY ZoneType
<1>2. \A i \in 0 .. n : o(i) \in Int
  BY ZoneType
<1>3. \A i \in 1 .. n : g(i) \in Int /\ zone.transitions[i].localtime = g(i) + o(i)
  BY ZoneType
<1>4. /\ \A i \in 1 .. n : Times(zone, "gmttime")[i] = g(i)
      /\ \A i \in 1 .. n : lt[i] = g(i) + o(i)
  BY <1>3 DEF Times
<1>5. m \in 0 .. n /\ (m > 0 => g(m) <= t) /\ (m < n => t < g(m + 1))
  BY <1>1, <1>4 DEF IsLast
<1>6. k \in 0 .. n /\ (k > 0 => lt[k] <= t + o(m)) /\ (k < n => t + o(m) < lt[k + 1])
  BY DEF IsLast
<1>7. Rising(n, lt)
  BY ZoneRises
<1>8. ClockChanges(zone)
  BY ZonesAssumption, Zenon DEF ZonesAssumption
<1>9. ASSUME NEW i \in 1 .. n, o(i) < o(i - 1)
      PROVE  KindFrom(zone, i - 1).isDst /\ ~KindFrom(zone, i).isDst /\ o(i - 1) - o(i) = 3600
  BY <1>1, <1>8, <1>9 DEF ClockChanges
<1>10. ASSUME NEW i \in 2 .. n
       PROVE  g(i - 1) + o(i - 2) < g(i) + o(i - 1) /\ g(i - 1) + o(i - 2) < g(i) + o(i)
  <2>1. i \in DOMAIN zone.transitions /\ i > 1 /\ (i - 1) - 1 = i - 2
    BY <1>1
  <2>2. \A a \in ShownAt(zone, i - 1), b \in ShownAt(zone, i) : a < b
    BY <1>8, <2>1 DEF ClockChanges
  <2>3. /\ ShownAt(zone, i - 1) = {g(i - 1) + o(j) : j \in {i - 2, i - 1}}
        /\ ShownAt(zone, i) = {g(i) + o(j) : j \in {i - 1, i}}
    BY <2>1 DEF ShownAt
  <2>4. QED
    BY <2>2, <2>3
<1> HIDE DEF n, g, o, lt
<1>11. o(m) \in Int /\ o(k) \in Int
  BY <1>2, <1>5, <1>6
<1>12. k >= m
  <2> SUFFICES ASSUME k < m PROVE FALSE
    BY <1>1, <1>5, <1>6
  <2>1. k + 1 \in 1 .. n /\ m \in 1 .. n /\ k < n
    BY <1>1, <1>5, <1>6
  <2>2. t + o(m) < lt[k + 1] /\ lt[m] <= t + o(m)
    BY <1>3, <1>4, <1>5, <1>6, <1>11, <2>1
  <2>3. lt[k + 1] \in Int /\ lt[m] \in Int /\ (k + 1 = m \/ lt[k + 1] < lt[m])
    BY <1>5, <1>6, <1>7, <2>1 DEF Rising
  <2>4. QED
    BY <1>11, <2>2, <2>3
<1>13. CASE k > m
  <2>1. m \in 0 .. n /\ m < n /\ m + 1 \in 1 .. n /\ k \in 1 .. n
    BY <1>1, <1>5, <1>6, <1>13
  <2>2. g(m + 1) \in Int /\ o(m + 1) \in Int /\ t < g(m + 1)
    BY <1>1, <1>2, <1>3, <1>5, <2>1
  <2>3. k = m + 1
    <3> SUFFICES ASSUME k # m + 1 PROVE FALSE
      OBVIOUS
    <3>1. m + 2 \in 2 .. n /\ (m + 2) - 1 = m + 1 /\ (m + 2) - 2 = m
      BY <1>1, <1>13, <2>1
    <3>2. g(m + 1) + o(m) < g(m + 2) + o(m + 2)
      BY <1>10, <3>1
    <3>3. m + 2 \in 1 .. n /\ lt[m + 2] = g(m + 2) + o(m + 2)
      BY <1>4, <3>1
    <3>4. lt[m + 2] \in Int /\ lt[k] \in Int /\ (k = m + 2 \/ lt[m + 2] < lt[k])
      BY <1>7, <1>13, <2>1, <3>3 DEF Rising
    <3>5. lt[k] <= t + o(m)
      BY <1>6, <2>1
    <3>6. QED
      BY <1>11, <2>2, <3>2, <3>3, <3>4, <3>5
  <2>4. o(k) < o(m)
    <3>1. g(m + 1) + o(m + 1) <= t + o(m)
      BY <1>4, <1>6, <2>1, <2>3
    <3>2. QED
      BY <1>11, <2>2, <2>3, <3>1
  <2>5. KindFrom(zone, m).isDst /\ ~KindFrom(zone, k).isDst /\ o(m) - o(k) = 3600
    <3>1. k - 1 = m
      BY <2>1, <2>3
    <3>2. QED
      BY <1>9, <2>1, <2>4, <3>1
  <2>6. IsLast(n, Times(zone, "gmttime"), t + 3600, k)
    <3>1. g(k) <= t + 3600
      <4>1. g(k) + o(k) <= t + o(m)
        BY <1>4, <1>6, <2>1
      <4>2. QED
        BY <1>11, <2>2, <2>3, <2>5, <4>1
    <3>2. k < n => t + 3600 < g(k + 1)
      <4> SUFFICES ASSUME k < n PROVE t + 3600 < g(k + 1)
        OBVIOUS
      <4>1. k + 1 \in 2 .. n /\ k + 1 \in 1 .. n /\ (k + 1) - 1 = k /\ (k + 1) - 2 = m
        BY <1>1, <2>1, <2>3
      <4>2. g(k) + o(m) < g(k + 1) + o(k)
        BY <1>10, <4>1
      <4>3. g(k + 1) \in Int
        BY <1>3, <4>1
      <4>4. QED
        BY <1>11, <2>2, <2>3, <2>5, <4>2, <4>3
    <3>3. QED
      BY <1>1, <1>4, <1>6, <2>1, <3>1, <3>2 DEF IsLast
  <2>7. QED
    BY <2>3, <2>5, <2>6 DEF n, o
<1>14. k \in Int /\ m \in Int
  BY <1>1, <1>5, <1>6
<1>15. QED
  BY <1>12, <1>13, <1>14

(* toLocalTime tells the kind of local time since the last transition.     *)
LEMMA LocalFields ==
  ASSUME NEW zone \in Zones, NEW t \in Int,
         NEW m, IsLast(Len(zone.transitions), Times(zone, "gmttime"), t, m)
  PROVE  toLocalTime(zone, t) = [tm |-> toUtcTime(t + KindFrom(zone, m).gmtOffset),
                                 isdst |-> KindFrom(zone, m).isDst,
                                 gmtoff |-> KindFrom(zone, m).gmtOffset]
<1>1. findLocaltime(zone, t, "gmttime") = KindFrom(zone, m)
  BY LookUp
<1>2. QED
  BY <1>1, Zenon DEF toLocalTime

(* Of a local time that is shown twice, the flag tells which one is meant: *)
(* shifted by an hour it is found in the period that follows.              *)
LEMMA ThereAndBack ==
  ASSUME NEW zone \in Zones, NEW t \in Int, t >= Earliest + kSecondsPerDay
  PROVE  /\ toLocalTime(zone, t).gmtoff = Offset(zone, t)
         /\ fromLocalTime(zone, toLocalTime(zone, t)) = t
<1> DEFINE n == Len(zone.transitions)
           o(i) == KindFrom(zone, i).gmtOffset
           dst(i) == KindFrom(zone, i).isDst
<1>1. n \in Nat /\ \A i \in 1 .. n :
                     Times(zone, "gmttime")[i] \in Int /\ Times(zone, "localtime")[i] \in Int
  BY ZoneType, ZoneRises DEF Rising
<1>2. PICK m : IsLast(n, Times(zone, "gmttime"), t, m)
  BY <1>1, LastExists
<1>3. m \in 0 .. n
  BY <1>2 DEF IsLast
<1>4. o(m) \in Int /\ -kSecondsPerDay < o(m)
  BY <1>3, ZoneType
<1>5. PICK k : IsLast(n, Times(zone, "localtime"), t + o(m), k)
  <2>1. t + o(m) \in Int
    BY <1>4
  <2>2. QED
    BY <1>1, <2>1, LastExists
<1>6. k \in 0 .. n
  BY <1>5 DEF IsLast
<1>7. o(k) \in Int
  BY <1>6, ZoneType
<1>8. \/ k = m
      \/ dst(m) /\ ~dst(k) /\ o(m) - o(k) = 3600 /\ IsLast(n, Times(zone, "gmttime"), t + 3600, k)
  BY <1>2, <1>5, ShownOnce
<1> DEFINE local == toLocalTime(zone, t)
           tm == toUtcTime(t + o(m))
<1>9. local = [tm |-> tm, isdst |-> dst(m), gmtoff |-> o(m)]
  BY <1>2, LocalFields
<1>10. local.gmtoff = Offset(zone, t)
  BY <1>2, <1>9, OffsetIs
<1>11. fromUtcTime(tm) = t + o(m)
  <2>1. t + o(m) \in Int /\ t + o(m) >= Earliest
    BY <1>4, DayLength DEF Earliest
  <2>2. QED
    BY <2>1, RoundTrip
<1>12. findLocaltime(zone, t + o(m), "localtime") = KindFrom(zone, k)
  BY <1>4, <1>5, LookUp
<1> DEFINE tryTm == toLocalTime(zone, (t + o(m)) - o(k))
           first == /\ dst(m)
                    /\ ~tryTm.isdst
                    /\ tryTm.tm.hms.hour = tm.hms.hour
                    /\ tryTm.tm.hms.min = tm.hms.min
<1>13. fromLocalTime(zone, local) = (t + o(m)) - (IF first THEN 3600 ELSE 0) - o(k)
  <2> HIDE DEF local, tm
  <2>1. local.tm = tm /\ local.isdst = dst(m)
    BY <1>9
  <2>2. QED
    BY <1>11, <1>12, <2>1 DEF fromLocalTime
<1>14. CASE k = m
  <2>1. tryTm = local
    <3>1. (t + o(m)) - o(k) = t
      BY <1>4, <1>14
    <3>2. QED
      BY <3>1
  <2>2. ~first
    <3> HIDE DEF local, tm, tryTm
    <3>1. QED
      BY <1>9, <2>1
  <2> HIDE DEF local, first
  <2>3. QED
    BY <1>4, <1>10, <1>13, <1>14, <2>2 DEF local
<1>15. CASE k # m
  <2>1. /\ dst(m) /\ ~dst(k) /\ o(m) - o(k) = 3600
        /\ IsLast(n, Times(zone, "gmttime"), t + 3600, k)
    BY <1>8, <1>15
  <2>2. (t + o(m)) - o(k) = t + 3600 /\ (t + 3600) + o(k) = t + o(m) /\ t + 3600 \in Int
    BY <1>4, <1>7, <2>1
  <2>3. tryTm = [tm |-> toUtcTime((t + 3600) + o(k)), isdst |-> dst(k), gmtoff |-> o(k)]
    <3>1. toLocalTime(zone, t + 3600)
          = [tm |-> toUtcTime((t + 3600) + o(k)), isdst |-> dst(k), gmtoff |-> o(k)]
      BY <2>1, <2>2, LocalFields
    <3>2. QED
      BY <2>2, <3>1
  <2>4. tryTm.tm = tm /\ tryTm.isdst = dst(k)
    BY <2>2, <2>3
  <2> HIDE DEF tryTm, tm, local
  <2>5. first
    BY <2>1, <2>4
  <2> HIDE DEF first
  <2>6. QED
    BY <1>4, <1>7, <1>10, <1>13, <2>1, <2>5 DEF local
<1>16. QED
  BY <1>14, <1>15

(* The local time of every second is that of the rule in force, and leads  *)
(* back to that second, for any zones whose clocks change as ClockChanges  *)
(* has it (timezone.cc:162-227).                                           *)
THEOREM LocalTimesAgree == Spec => []LocalTime
<1>1. LocalTime
  <2> SUFFICES ASSUME day \in ZoneDays, NEW zone \in Zones, NEW s \in ZoneSeconds
               PROVE  LET t == day * kSecondsPerDay + s
                          local == toLocalTime(zone, t)
                      IN  /\ local.gmtoff = Offset(zone, t)
                          /\ fromLocalTime(zone, local) = t
    BY Zenon DEF LocalTime
  <2> DEFINE t == day * kSecondsPerDay + s
  <2>1. day \in Int /\ day > -2472326
    BY ZoneTimesAssumption, SMT DEF ZoneTimesAssumption
  <2>2. s \in Nat
    <3>1. s \in SecondsOfDay
      BY ZoneTimesAssumption, SMT DEF ZoneTimesAssumption
    <3>2. QED
      BY <3>1 DEF SecondsOfDay
  <2>3. t \in Int /\ t >= Earliest + kSecondsPerDay
    BY <2>1, <2>2, DayLength DEF Earliest
  <2> HIDE DEF t
  <2>4. toLocalTime(zone, t).gmtoff = Offset(zone, t) /\ fromLocalTime(zone, toLocalTime(zone, t)) = t
    BY <2>3, ThereAndBack
  <2>5. QED
    BY <2>4, Zenon DEF t
<1>2. QED
  BY <1>1, PTL

=============================================================================
