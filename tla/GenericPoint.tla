---------------------------- MODULE GenericPoint ----------------------------
(***************************************************************************)
(* SharpPoint and GenericPoint: a point such as "the second Monday of a    *)
(* month at 3:00" or "t1z2", the sunset of a Sunday, from its text to the  *)
(* next or previous time that matches it.  A sharp point gives the day, by *)
(* the rounds of ModifyTime(), and the sun the time; if that is on another *)
(* day the search is tried once more from there.  The clocks of the place  *)
(* are never put forward or back.  In other behaviours a LocalDate is      *)
(* moved by days, with the same calendar.                                  *)
(***************************************************************************)
EXTENDS Calendar

CONSTANTS
  Texts,      \* the texts of the points
  Currents,   \* the times the search starts from
  SunClock,   \* external: <<sunrise, sunset>>, the clock times at the place
  Skies,      \* external: the dates without them, where the sun stays up or down
              \* for days ("dark"), and where only the date has none ("skipped")
  Starts,     \* the dates that are moved
  Steps,      \* days that are added at once, either way
  MaxDays     \* bound: days from the first date

VARIABLES
  text, current,     \* what is asked
  fuzzy,             \* fuzzy_type_: 1 for sunrise, 2 for sunset
  trial,             \* i of the loop; the days a date has moved
  next,              \* the answer
  sky,
  point, get_next,   \* the call of ModifyTime()
  newtime,           \* the time it has come to, or the date
  at                 \* "search", "found" or "none", where its caller is, or "date"

vars == <<sky, text, current, fuzzy, trial, next, point, get_next, newtime, at>>

U == -100     \* UNDEFINED
NoNumber == -1
INFINITY_INT == 2147483647
Fields == {"year", "month", "wy", "wm", "dw", "dm", "h", "mn", "s"}
Set(p, f, n) == [p EXCEPT ![f] = n]

-----------------------------------------------------------------------------
(***************************************************************************)
(* The text of a point: a sequence of a symbol with its number.  The state *)
(* of the parser is the point so far, the text that is left, and whether   *)
(* there was an error.                                                     *)
(***************************************************************************)
Fresh(spec) == [p |-> [x \in Fields |-> U], rest |-> spec, error |-> FALSE]
At(st, symbol) == ~st.error /\ st.rest # <<>> /\ st.rest[1][1] = symbol

\* All fields but the year are of type char.
Narrow(n, field) == IF field = "year" THEN n ELSE ((n + 128) % 256) - 128

\* An optional field: the symbol and a number, in its range once it is stored.
ParseNext(st, symbol, field, low, high) ==
  IF ~At(st, symbol) THEN st
  ELSE LET n == Narrow(st.rest[1][2], field) IN
       IF st.rest[1][2] # NoNumber /\ low <= n /\ n <= high
       THEN [p |-> Set(st.p, field, n), rest |-> Tail(st.rest), error |-> FALSE]
       ELSE [st EXCEPT !.error = TRUE]

\* Two digits: the week and the day; the weeks of "l" are counted from the end.
ParseWeekDaySpec(st, sign) ==
  LET n == st.rest[1][2] IN
  IF n \div 10 \in 1..5 /\ n % 10 \in 1..7
  THEN [p |-> Set(Set(st.p, "wm", sign * (n \div 10)), "dw", n % 10),
        rest |-> Tail(st.rest), error |-> FALSE]
  ELSE [st EXCEPT !.error = TRUE]

ParseDay(st) ==
  CASE At(st, "d") -> ParseNext(st, "d", "dm", 1, MaxDaysInMonth(st.p["year"], st.p["month"]))
    [] At(st, "f") -> ParseWeekDaySpec(st, 1)
    [] At(st, "l") -> ParseWeekDaySpec(st, -1)
    [] OTHER       -> ParseNext(st, "t", "dw", 1, 7)

\* A week of the year excludes a month, and goes only with a day of the week.
InitFromSpec(spec) ==
  LET year  == ParseNext(Fresh(spec), "y", "year", 1970, INFINITY_INT)
      month == ParseNext(year, "M", "month", 1, 12)
      week  == ParseNext(month, "w", "wy", 1, 53)
      day   == IF month.p["month"] # U THEN ParseDay(month)
               ELSE IF week.p["wy"] # U THEN ParseNext(week, "t", "dw", 1, 7)
               ELSE ParseDay(week)
      h     == ParseNext(day, "h", "h", 0, Hours - 1)
      mn    == ParseNext(h, "m", "mn", 0, Minutes - 1) IN
  ParseNext(mn, "s", "s", 0, Seconds - 1)

AllEmpty(p) == \A x \in Fields : p[x] = U

\* What is smaller than the smallest field that was given is at its first value.
SetDefaultValues(p) ==
  LET noDay == \A x \in {"dm", "dw", "wm"} : p[x] = U
      s == Set(p, "s", 0)
      mn == Set(s, "mn", 0)
      h == Set(mn, "h", 0)
      day == IF p["wy"] # U THEN Set(h, "dw", 1) ELSE Set(h, "dm", 1) IN
  IF AllEmpty(p) \/ p["s"] # U THEN p
  ELSE IF p["mn"] # U THEN s
  ELSE IF p["h"] # U THEN mn
  ELSE IF ~noDay THEN h
  ELSE IF p["wy"] = U /\ p["month"] = U THEN Set(day, "month", 1)
  ELSE day

\* The text of a point, by its fields.
PrintShort(p) ==
  LET field(symbol, f) == IF p[f] = U THEN <<>> ELSE <<<<symbol, p[f]>>>>
      day == CASE p["wm"] # U /\ p["wm"] > 0 -> <<<<"f", p["wm"] * 10 + p["dw"]>>>>
               [] p["wm"] # U /\ p["wm"] < 0 -> <<<<"l", p["dw"] - p["wm"] * 10>>>>
               [] p["dw"] # U -> field("t", "dw")
               [] OTHER -> field("d", "dm") IN
  field("y", "year") \o (IF p["month"] # U THEN field("M", "month") ELSE field("w", "wy"))
    \o day \o field("h", "h") \o field("m", "mn") \o field("s", "s")

-----------------------------------------------------------------------------
y == newtime[1]
m == newtime[2]
d == newtime[3]

-----------------------------------------------------------------------------
Week(t) == (GetDayOfYear(t[1], t[2], t[3]) - 1) \div 7 + 1
Wants(f, n) == point[f] \in {U, n}

\* Whether a field of newtime is the one the point asks for.
Fits(f) ==
  CASE f = "year"  -> Wants("year", y)
    [] f = "month" -> Wants("month", m)
    [] f = "week"  -> Wants("wy", Week(newtime))
    [] f = "day"   -> IF point["wm"] # U
                      THEN d = LocateByWeekAndDay(y, m, point["wm"], point["dw"])
                      ELSE IF point["dm"] # U THEN point["dm"] = d
                      ELSE Wants("dw", GetDayOfWeek(y, m, d))
    [] f = "h"     -> Wants("h", newtime[4])
    [] f = "mn"    -> Wants("mn", newtime[5])
    [] f = "s"     -> Wants("s", newtime[6])

Order == <<"year", "month", "week", "day", "h", "mn", "s">>

\* The round reaches the field: those before it fit and it does not.
Adjusts(i) ==
  /\ at = "search" /\ y > 1970
  /\ \A j \in 1..i - 1 : Fits(Order[j])
  /\ ~Fits(Order[i])

GoTo(t) == newtime' = Normalize(t) /\ UNCHANGED <<point, get_next, at>>

\* The larger unit moves on if the wanted value has already passed in this one.
Carry(want, have) ==
  IF get_next /\ want < have THEN 1 ELSE IF ~get_next /\ want > have THEN -1 ELSE 0

\* The first or the last hour, minute and second of a day.
Edge == IF get_next THEN <<0, 0, 0>> ELSE <<Hours - 1, Minutes - 1, Seconds - 1>>

-----------------------------------------------------------------------------
AdjustYear ==
  /\ Adjusts(1) /\ (get_next <=> point["year"] > y)
  /\ GoTo((IF get_next THEN <<point["year"], 1, 1>> ELSE <<point["year"], 12, 31>>) \o Edge)

\* Out of the calendar, or the year is on the other side.
NotFound ==
  /\ at = "search"
  /\ y <= 1970 \/ (~Fits("year") /\ (get_next # (point["year"] > y)))
  /\ at' = "none"
  /\ UNCHANGED <<point, get_next, newtime>>

AdjustMonth ==
  LET year == y + Carry(point["month"], m) IN
  /\ Adjusts(2)
  /\ GoTo(<<year, point["month"],
            IF get_next THEN 1 ELSE MaxDaysInMonth(year, point["month"])>> \o Edge)

AdjustWeek ==
  LET year == y + Carry(point["wy"], Week(newtime))
      n == IF get_next THEN point["wy"] * 7 - 6
           ELSE Min({point["wy"] * 7, TotalDaysInYear(year)}) IN
  Adjusts(3) /\ GoTo(<<year>> \o FindByDayNum(year, n) \o Edge)

\* To the wanted day of this month, or over its end and try again.
ToDay(day) ==
  IF get_next THEN IF day > d THEN <<y, m, day>> ELSE <<y, m + 1, 1>>
  ELSE IF day < d THEN <<y, m, day>> ELSE <<y, m, 0>>

AdjustDay ==
  LET wanted == IF point["wm"] # U
                THEN LocateByWeekAndDay(y, m, point["wm"], point["dw"]) ELSE point["dm"]
      today == GetDayOfWeek(y, m, d) IN
  /\ Adjusts(4)
  /\ GoTo((IF wanted # U THEN ToDay(wanted)
           ELSE IF get_next THEN <<y, m, d + ((point["dw"] - today) % 7)>>
           ELSE <<y, m, d - ((today - point["dw"]) % 7)>>) \o Edge)

AdjustHour ==
  /\ Adjusts(5)
  /\ GoTo(<<y, m, d + Carry(point["h"], newtime[4]), point["h"], Edge[2], Edge[3]>>)

AdjustMinute ==
  /\ Adjusts(6)
  /\ GoTo(<<y, m, d, newtime[4] + Carry(point["mn"], newtime[5]), point["mn"], Edge[3]>>)

AdjustSecond ==
  /\ Adjusts(7)
  /\ GoTo(<<y, m, d, newtime[4], newtime[5] + Carry(point["s"], newtime[6]), point["s"]>>)

Found ==
  /\ at = "search" /\ y > 1970 /\ \A i \in DOMAIN Order : Fits(Order[i])
  /\ at' = "found"
  /\ UNCHANGED <<point, get_next, newtime>>

\* One round of ModifyTime().
ModifyTime ==
  \/ AdjustYear \/ NotFound \/ AdjustMonth \/ AdjustWeek \/ AdjustDay
  \/ AdjustHour \/ AdjustMinute \/ AdjustSecond \/ Found

-----------------------------------------------------------------------------
Infinite == <<>>

-----------------------------------------------------------------------------
\* Init() from a string; "z" goes with no hour, minute or second, and instead of
\* the default values.
Parsed(t) ==
  LET sharp == InitFromSpec(t)
      z == IF At(sharp, "z") THEN sharp.rest[1][2] ELSE U
      rest == IF z = U THEN sharp.rest ELSE Tail(sharp.rest)
      clock == \E x \in {"h", "mn", "s"} : sharp.p[x] # U IN
  [ok |-> ~sharp.error /\ rest = <<>> /\ z \in {U, 1, 2} /\ (z # U => ~clock),
   p |-> IF z = U THEN SetDefaultValues(sharp.p) ELSE sharp.p, z |-> z]

PrintShortFuzzy(p, z) == PrintShort(p) \o (IF z = U THEN <<>> ELSE <<<<"z", z>>>>)

Date(t) == SubSeq(t, 1, 3)
OtherDay(t, n) == Date(Normalize(<<t[1], t[2], t[3] + n, 0, 0, 0>>))

EventOn(date) ==
  IF date \in sky.dark \cup sky.skipped THEN Infinite ELSE date \o SunClock[fuzzy]

\* The sunrise or sunset at t, or else the one after or before it.
NearSun(t) ==
  LET today == EventOn(Date(t))
      other == EventOn(OtherDay(t, IF get_next THEN 1 ELSE -1))
      passed == IF get_next THEN Before(today, t) ELSE Before(t, today) IN
  IF Date(t) \in sky.dark THEN Infinite
  ELSE IF Date(t) \in sky.skipped \/ passed THEN other
  ELSE today

is_pure_fuzzy == fuzzy # U /\ AllEmpty(point)

-----------------------------------------------------------------------------
Init ==
  /\ \/ /\ sky \in Skies /\ text \in Texts /\ current \in Currents
        /\ get_next \in BOOLEAN /\ at = "text"
     \/ /\ sky = [dark |-> {}, skipped |-> {}] /\ text = <<>> /\ current \in Starts
        /\ get_next = TRUE /\ at = "date"
  /\ point = [x \in Fields |-> U] /\ fuzzy = U
  /\ trial = 0 /\ next = Infinite /\ newtime = current

InitPoint ==
  /\ at = "text"
  /\ \E r \in {Parsed(text)} :
     IF r.ok THEN point' = r.p /\ fuzzy' = r.z /\ at' = "search"
     ELSE at' = "rejected" /\ UNCHANGED <<point, fuzzy>>
  /\ UNCHANGED <<sky, text, current, trial, next, get_next, newtime>>

Search == ModifyTime /\ UNCHANGED <<sky, text, current, fuzzy, trial, next>>

Answer(t) == next' = t /\ at' = IF t = Infinite THEN "nothing" ELSE "answer"

Exists ==
  /\ at = "none" \/ (at = "found" /\ fuzzy = U)
  /\ Answer(IF at = "found" THEN newtime ELSE Infinite)
  /\ UNCHANGED <<sky, text, current, fuzzy, trial, point, get_next, newtime>>

\* Nothing to try again for: no event at all, or one on the day of the point.
Settled(t) == IF t = Infinite THEN TRUE ELSE is_pure_fuzzy \/ Date(t) = Date(newtime)

Fuzzy ==
  LET t == NearSun(newtime) IN
  /\ at = "found" /\ fuzzy # U
  /\ \/ Settled(t) /\ Answer(t) /\ UNCHANGED <<trial, newtime>>
     \/ /\ ~Settled(t) /\ trial = 0
        /\ trial' = 1 /\ newtime' = t /\ at' = "search" /\ UNCHANGED next
     \/ ~Settled(t) /\ trial = 1 /\ Answer(Infinite) /\ UNCHANGED <<trial, newtime>>
  /\ UNCHANGED <<sky, text, current, fuzzy, point, get_next>>

IncrementDay(n) ==
  /\ at = "date"
  /\ trial' = trial + n /\ trial' \in 0..MaxDays
  /\ newtime' = NormalizeDate(y, m, d + n)
  /\ UNCHANGED <<sky, text, current, fuzzy, next, point, get_next, at>>

Next == InitPoint \/ Search \/ Exists \/ Fuzzy \/ \E n \in Steps : IncrementDay(n)

Spec == Init /\ [][Next]_vars

-----------------------------------------------------------------------------
\* The reference: what it is for a day to match, by counting in its month.
DayMatches(t) ==
  LET dw == GetDayOfWeek(t[1], t[2], t[3])
      last == MaxDaysInMonth(t[1], t[2])
      nth == (t[3] - 1) \div 7 + 1
      nthLast == (last - t[3]) \div 7 + 1
      missing(count(_)) == \A e \in 1..last :
        GetDayOfWeek(t[1], t[2], e) = point["dw"] => count(e) # 5 IN
  /\ point["year"] \in {U, t[1]}
  /\ point["month"] \in {U, t[2]}
  /\ point["wy"] \in {U, Week(t)}
  /\ point["dm"] \in {U, t[3]}
  /\ CASE point["wm"] = U -> point["dw"] \in {U, dw}
       [] point["wm"] \in 1..5 ->
            \/ dw = point["dw"] /\ nth = point["wm"]
            \/ /\ point["wm"] = 5 /\ t[3] = last
               /\ missing(LAMBDA e : (e - 1) \div 7 + 1)
       [] OTHER ->
            \/ dw = point["dw"] /\ nthLast = -point["wm"]
            \/ /\ point["wm"] = -5 /\ t[3] = 1
               /\ missing(LAMBDA e : (last - e) \div 7 + 1)

TimeMatches(t) ==
  point["h"] \in {U, t[4]} /\ point["mn"] \in {U, t[5]} /\ point["s"] \in {U, t[6]}

Clock == (0..Hours - 1) \X (0..Minutes - 1) \X (0..Seconds - 1)

\* The matching times of a day.
Matching(date) ==
  IF DayMatches(date) THEN {date \o c : c \in {c \in Clock : TimeMatches(<<0, 0, 0>> \o c)}} ELSE {}

\* Strictly between two times, or the first of them.
PassedOver(from, to, t) ==
  IF get_next THEN ~Before(t, from) /\ Before(t, to) ELSE ~Before(from, t) /\ Before(to, t)

DayNum(t) == DaysSince1970(t[1], t[2], t[3])

\* "given a time, find the prev/next time point that matches this specification":
\* every round moves the time in the direction of the search and passes over no
\* time that matches, whichever field it adjusts and whatever it resets below it.
PassesNothing ==
  at = "search" /\ newtime' # newtime =>
    /\ IF get_next THEN Before(newtime, newtime') ELSE Before(newtime', newtime)
    /\ \A k \in Min({DayNum(newtime), DayNum(newtime')})..Max({DayNum(newtime), DayNum(newtime')}) :
         \A t \in Matching(ElapseFrom1970(k)) : ~PassedOver(newtime, newtime', t)

\* What is found matches by the reference definition: a round that fixes one
\* field has not undone another one.
FoundMatches == at = "found" => newtime \in Matching(SubSeq(newtime, 1, 3))

\* "if control reaches here, we are unable to find sunset/sunrise for this day":
\* where the sun rises and sets every day, the second trial is enough; nothing is
\* found only if the search for the day ends at the limits of the calendar.
TrialsSuffice ==
  at = "nothing" /\ sky.dark \cup sky.skipped = {} =>
    newtime[1] \in {1969, 1970} \/ point["year"] # U

\* The sunrise or sunset that is found is one, on a day that matches, and none
\* on a day that matches is passed over from where the search started.
FuzzyExact ==
  at = "answer" /\ fuzzy # U =>
    /\ next = EventOn(Date(next)) /\ DayMatches(next)
    /\ IF get_next THEN ~Before(next, current) ELSE ~Before(current, next)
    /\ \A k \in Min({DayNum(current), DayNum(next)})..Max({DayNum(current), DayNum(next)}) :
         LET e == EventOn(ElapseFrom1970(k)) IN
         e # Infinite /\ DayMatches(e) =>
           IF get_next THEN Before(e, current) \/ ~Before(e, next)
           ELSE Before(current, e) \/ ~Before(next, e)

\* A point is copied by printing and parsing it, whatever was left out in its text.
CopySame ==
  at \notin {"text", "rejected", "date"} =>
    Parsed(PrintShortFuzzy(point, fuzzy)) = [ok |-> TRUE, p |-> point, z |-> fuzzy]

IsDate(t) == t[2] \in 1..12 /\ t[3] \in 1..MaxDaysInMonth(t[1], t[2])

\* The date after any steps, short or long, is the one that many days after the
\* first: the fast and the slow way of NormalizeDate() agree with DaysSince1970()
\* and ElapseFrom1970(), over the ends of months, leap years and centuries.
DaysAdd ==
  at = "date" =>
    /\ IsDate(newtime)
    /\ DayNum(newtime) = DayNum(current) + trial
    /\ ElapseFrom1970(DayNum(newtime)) = newtime

\* A month added and taken away again (IncrementMonth) gives the same date, over
\* the ends of years too; if the other month is shorter, the days that are left
\* over fall into the one after it.
MonthBack ==
  LET other == NormalizeDate(y, m + 1, d)
      back == NormalizeDate(other[1], other[2] - 1, other[3]) IN
  at = "date" =>
    IF d = other[3] THEN back = newtime
    ELSE other[3] <= 3 /\ d > MaxDaysInMonth(y, (m % 12) + 1)
=============================================================================
