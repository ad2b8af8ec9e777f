------------------------------ MODULE Calendar ------------------------------
(***************************************************************************)
(* CalendarUtil and the normalisation of LocalDate and LocalTime, as       *)
(* operators.  A date is <<y, m, d>>, a time <<y, m, d, h, mn, s>>.        *)
(***************************************************************************)
EXTENDS Integers, SequencesExt, FiniteSetsExt

CONSTANTS Hours, Minutes, Seconds   \* 24, 60 and 60 in the code

IsLeapYear(year) == IF year % 100 = 0 THEN year % 400 = 0 ELSE year % 4 = 0
TotalDaysInYear(year) == IF IsLeapYear(year) THEN 366 ELSE 365

\* The default is that of a point without a month, which has a negative one.
MaxDaysInMonth(year, month) ==
  IF month < 0 THEN 31
  ELSE IF month = 2 THEN IF IsLeapYear(year) THEN 29 ELSE 28
  ELSE <<31, 28, 31, 30, 31, 30, 31, 31, 30, 31, 30, 31>>[month]

GetDayOfYear(year, month, day) ==
  <<0, 31, 59, 90, 120, 151, 181, 212, 243, 273, 304, 334>>[month] + day
    + IF IsLeapYear(year) /\ month >= 3 THEN 1 ELSE 0

\* <<month, day>> of a day of a year.
FindByDayNum(year, seq) ==
  LET month == Max({m \in 1..12 : GetDayOfYear(year, m, 1) <= seq})
  IN <<month, seq - GetDayOfYear(year, month, 1) + 1>>

DaysSince1970(year, month, day) ==
  IF year < 1970 THEN 0
  ELSE (year - 1970) * 365
       + (year - 1969) \div 4 - (year - 1901) \div 100 + (year - 1601) \div 400
       + GetDayOfYear(year, month, day) - 1

\* The search for the year goes on for ever if total is negative.
ElapseFrom1970(total) ==
  LET year == Max({y \in 1970 + total \div 366..1970 + total \div 365 :
                     DaysSince1970(y, 1, 1) <= total})
  IN <<year>> \o FindByDayNum(year, total - DaysSince1970(year, 1, 1) + 1)

GetDayOfWeek(year, month, day) == ((4 + DaysSince1970(year, month, day)) % 7) + 1

\* The n-th day of the week dw in a month, from its end if n is negative.
LocateByWeekAndDay(year, month, n, dw) ==
  LET first == GetDayOfWeek(year, month, 1)
      last == MaxDaysInMonth(year, month)
      after == GetDayOfWeek(year, month, last) IN
  IF n > 0 THEN Min({last, 1 + ((dw - first) % 7) + 7 * (n - 1)})
  ELSE Max({1, last - ((after - dw) % 7) + 7 * (n + 1)})

\* The day of a normalised month is off by less than a month.
NormalizeDay(y, m, d) ==
  LET py == IF m = 1 THEN y - 1 ELSE y
      pm == IF m = 1 THEN 12 ELSE m - 1
      days == MaxDaysInMonth(y, m) IN
  IF d < 1 THEN <<py, pm, d + MaxDaysInMonth(py, pm)>>
  ELSE IF d > days THEN <<IF m = 12 THEN y + 1 ELSE y, (m % 12) + 1, d - days>>
  ELSE <<y, m, d>>

NormalizeDate(year, month, day) ==
  LET y == year + (month - 1) \div 12
      m == ((month - 1) % 12) + 1 IN
  IF year < 1970 THEN <<1970, 1, 1>>
  ELSE IF day > -20 /\ day < 50 THEN NormalizeDay(y, m, day)
  ELSE ElapseFrom1970(DaysSince1970(y, m, 1) + day - 1)

\* LocalTime::Normalize(): carries from the second up to the day.
Normalize(t) ==
  LET mn == t[5] + t[6] \div Seconds
      h == t[4] + mn \div Minutes IN
  NormalizeDate(t[1], t[2], t[3] + h \div Hours) \o <<h % Hours, mn % Minutes, t[6] % Seconds>>

\* operator< of LocalTime, on the fields from the first one on.
Before(a, b) ==
  \E i \in DOMAIN a : a[i] < b[i] /\ \A j \in 1..i - 1 : a[j] = b[j]
=============================================================================
