----------------------------- MODULE Timezones -----------------------------
(***************************************************************************)
(* Time zones: the zones that are known, the conversion between Time (a    *)
(* time_t, here t) and LocalTime (here local, with its is_dst), and the    *)
(* operations of the two classes.  A domain of daylight saving time, or of *)
(* TimeUtil::CheckDomain(), is [(start)(end)] with a start and an end in   *)
(* every year, or on every day.                                            *)
(***************************************************************************)
EXTENDS Calendar, Sequences, TLC

CONSTANTS
  Zones,            \* what KnownTimezones::Init() adds, in order
  Used,             \* the ids of the zones of a behaviour
  Instants,         \* the times it starts with
  INFINITE_PAST, INFINITE_FUTURE,
  Multiples, Cushions,   \* arguments in seconds
  Clocks,           \* arguments <<hour, minute, second>>
  Increments,       \* arguments, fields of a time
  Durations,        \* TimeDuration objects: years .. seconds
  Domains,          \* daily domains: [start, end], each an hour
  MaxSteps

VARIABLES zone, t, local, last, steps

vars == <<zone, t, local, last, steps>>

ONE_MINUTE == Seconds
ONE_HOUR == Minutes * ONE_MINUTE
ONE_DAY == Hours * ONE_HOUR

-----------------------------------------------------------------------------
\* SetTimezone(): "GMT-08:00" in seconds.
SetTimezone(z) ==
  [id |-> z.id, dst_domain |-> z.domain,
   gmt_offset |-> (IF z.sign = "+" THEN 1 ELSE -1) * (z.hour * ONE_HOUR + z.minute * ONE_MINUTE),
   dst_offset |-> z.dst * ONE_MINUTE]

Signature(z) == <<z.gmt_offset, z.dst_offset, z.dst_domain>>

\* The collection keeps one zone of a signature, to which all its ids lead.
AddTimezone(known, z) ==
  LET tz == SetTimezone(z)
      same == SelectSeq(known.stored, LAMBDA s : Signature(s) = Signature(tz))
      stored == IF same = <<>> THEN tz ELSE same[1] IN
  [stored |-> IF same = <<>> THEN Append(known.stored, tz) ELSE known.stored,
   by_id |-> (z.id :> stored) @@ known.by_id]

KnownTimezones == FoldLeft(AddTimezone, [stored |-> <<>>, by_id |-> <<>>], Zones)
GetTimezoneSpec(id) == KnownTimezones.by_id[id]

\* Timezone::InitTZ(): the id of the zone with this signature.
InitTZ(z) ==
  SelectSeq(KnownTimezones.stored, LAMBDA s : Signature(s) = Signature(SetTimezone(z)))[1].id

-----------------------------------------------------------------------------
DaysOf(at) == DaysSince1970(at[1], at[2], at[3])
SecondsSince1970(at) == DaysOf(at) * ONE_DAY + at[4] * ONE_HOUR + at[5] * ONE_MINUTE + at[6]

ElapseSeconds(n) ==
  ElapseFrom1970(n \div ONE_DAY)
    \o <<(n % ONE_DAY) \div ONE_HOUR, (n % ONE_HOUR) \div ONE_MINUTE, n % ONE_MINUTE>>

Plus(at, n) == Normalize([at EXCEPT ![6] = @ + n])
Midnight(date) == <<date[1], date[2], date[3], 0, 0, 0>>
InfinitePastTime == Midnight(<<1970, 1, 1>>)
InfiniteFutureTime == Midnight(<<3000, 1, 1>>)
IsFinite(at) == at[1] > 1970 /\ at[1] < 3000

\* The n-th Sunday of the month, as in (M3f21h2).
PointIn(year, p) == <<year, p.month, LocateByWeekAndDay(year, p.month, p.n, 1), p.h, p.mn, 0>>

Latest(S) == CHOOSE x \in S : \A z \in S : ~Before(x, z)
Earliest(S) == CHOOSE x \in S : \A z \in S : ~Before(z, x)

\* TimeDomainSingle_TwoPoints::CheckTime(), of the starts and ends around a time:
\* the last start, the first end after it, and the next start.
TwoPoints(starts, ends, at) ==
  LET start == Latest({s \in starts : ~Before(at, s)})
      end == Earliest({e \in ends : Before(start, e)}) IN
  IF Before(at, end) THEN [in |-> TRUE, prev |-> start, next |-> end]
  ELSE [in |-> FALSE, prev |-> end, next |-> Earliest({s \in starts : Before(at, s)})]

CheckTime(domain, at) ==
  LET points(p) == {PointIn(at[1] + i, p) : i \in -1..1} IN
  TwoPoints(points(domain.start), points(domain.end), at)

\* The end of the domain is in daylight saving time, so that the hour before it
\* comes twice; then is_dst tells which one is meant.
InDST(tz, l) ==
  /\ tz.dst_offset # 0
  /\ LET c == CheckTime(tz.dst_domain, l.at) IN
     c.in /\ (~Before(Plus(l.at, tz.dst_offset), c.next) => l.is_dst = 1)

FromLocalTime(tz, l) ==
  IF l.at[1] <= 1970 THEN INFINITE_PAST ELSE IF l.at[1] >= 3000 THEN INFINITE_FUTURE
  ELSE LET offset == tz.gmt_offset + (IF InDST(tz, l) THEN tz.dst_offset ELSE 0) IN
       SecondsSince1970(Plus(l.at, -offset))

\* CheckTime() takes the standard time for daylight saving time in the hour after
\* the end; the boundary after that is the one after the next midnight.
Compensated(tz, at) ==
  LET Ending(c) ==
        IF c.in /\ ~Before(Plus(at, tz.dst_offset), c.next)
        THEN [in |-> FALSE,
              next |-> CheckTime(tz.dst_domain, Midnight(NormalizeDate(at[1], at[2], at[3] + 1))).next]
        ELSE [in |-> c.in, next |-> c.next]
  IN  Ending(CheckTime(tz.dst_domain, at))

\* The local time, its offset and the next change of the offset, 0 if there is none.
ToLocalTime(tz, u) ==
  LET unset(infinite) == [at |-> infinite, is_dst |-> -1, offset |-> tz.gmt_offset, boundary |-> 0]
      Shown(at, in, next) ==
        [at |-> IF in THEN Plus(at, tz.dst_offset) ELSE at, is_dst |-> IF in THEN 1 ELSE 0,
         offset |-> tz.gmt_offset + IF in THEN tz.dst_offset ELSE 0,
         boundary |-> IF tz.dst_offset = 0 THEN 0
                      ELSE FromLocalTime(tz, [at |-> Plus(next, -1), is_dst |-> IF in THEN 1 ELSE 0]) + 1]
      Standard(at, c) == Shown(at, tz.dst_offset # 0 /\ c.in, c.next)
      Compensate(at) == Standard(at, Compensated(tz, at)) IN
  IF u <= INFINITE_PAST THEN unset(InfinitePastTime)
  ELSE IF u >= INFINITE_FUTURE THEN unset(InfiniteFutureTime)
  ELSE Compensate(ElapseSeconds(u + tz.gmt_offset))

-----------------------------------------------------------------------------
Zone == GetTimezoneSpec(zone)

GetLocalTime(u) ==
  LET Flagged(r) == [at |-> r.at, is_dst |-> r.is_dst] IN Flagged(ToLocalTime(Zone, u))
GetUniversalTime(l) == FromLocalTime(Zone, l)
Unflagged(at) == [at |-> at, is_dst |-> -1]

\* The points before and after a time are new LocalTimes, whose is_dst is unknown.
LastMidnight(u) == GetUniversalTime(Unflagged(Midnight(GetLocalTime(u).at)))

NextMidnight(u) ==
  LET NextDay(at) == GetUniversalTime(Unflagged(Midnight(NormalizeDate(at[1], at[2], at[3] + 1)))) IN
  NextDay(GetLocalTime(u).at)

Fraction(u) ==
  LET Past(at) == at[5] * ONE_MINUTE + at[6] IN Past(GetLocalTime(u).at)
LastFullHour(u) == u - Fraction(u)
NextFullHour(u) == u + ONE_HOUR - Fraction(u)
LastMultiple(u, n) == u - (u % n)
NextMultiple(u, n) == u - (u % n) + n
CushionForward(u, min, n) == NextMultiple(u + min - 1, n)
CushionBackward(u, min, n) == LastMultiple(u - min, n)

\* The same of a LocalTime.
LocalNextMultiple(at, n) == Plus(at, n - (SecondsSince1970(at) % n))
LocalLastMultiple(at, n) == Plus(at, -(SecondsSince1970(at) % n))
LocalCushionForward(at, min, n) == LocalNextMultiple(Plus(at, min - 1), n)
LocalCushionBackward(at, min, n) == LocalLastMultiple(Plus(at, -min), n)

\* LocalTime: to a time of the day, and the fields one by one.
AtClock(at, clock) == Normalize(<<at[1], at[2], at[3]>> \o clock)
ForwardTo(at, clock) ==
  LET x == AtClock(at, clock) IN IF Before(x, at) THEN Normalize([x EXCEPT ![3] = @ + 1]) ELSE x
RewindTo(at, clock) ==
  LET x == AtClock(at, clock) IN IF Before(at, x) THEN Normalize([x EXCEPT ![3] = @ - 1]) ELSE x
Increment(at, field, n) == Normalize([at EXCEPT ![field] = @ + n])

\* TimeDuration::TimeAfter() and TimeBefore().
Reversed(d) == [i \in DOMAIN d |-> -d[i]]
TimeAfter(at, d) == Normalize([i \in DOMAIN at |-> at[i] + d[i]])
TimeBefore(at, d) == TimeAfter(at, Reversed(d))
GetSign(d) ==
  LET set == {i \in DOMAIN d : d[i] # 0} IN
  IF set = {} THEN 0 ELSE IF d[Min(set)] > 0 THEN 1 ELSE -1

\* TimeDuration::PrintShort() of a TimePoint's offset, with its sign, and Init():
\* symbols in their order, each followed by a number; weeks are days.
Symbols == <<"y", "M", "d", "h", "m", "s">>
PrintShort(d) ==
  LET shown == SelectSeq(<<1, 2, 3, 4, 5, 6>>, LAMBDA i : d[i] # 0) IN
  IF GetSign(d) = 0 THEN <<[symbol |-> "s", n |-> 0]>>
  ELSE [k \in DOMAIN shown |-> [symbol |-> Symbols[shown[k]], n |-> d[shown[k]]]]

InitDuration(tokens) ==
  LET num(s) == LET found == SelectSeq(tokens, LAMBDA k : k.symbol = s) IN
                IF found = <<>> THEN 0 ELSE found[1].n IN
  [i \in 1..6 |-> num(Symbols[i]) + IF i = 3 THEN 7 * num("w") ELSE 0]

PrintOffset(d) == [minus |-> GetSign(d) < 0, tokens |-> PrintShort(IF GetSign(d) < 0 THEN Reversed(d) ELSE d)]
InitOffset(p) == IF p.minus THEN Reversed(InitDuration(p.tokens)) ELSE InitDuration(p.tokens)

\* Dates as eight digits, and the parts of the number they make.
Digits(n, width) == [i \in 1..width |-> (n \div 10 ^ (width - i)) % 10]
Atoi(s) == FoldLeft(LAMBDA n, c : 10 * n + c, 0, s)
PrintSpecifier(specifier, at) ==
  CASE specifier = "Y" -> Digits(at[1], 4)
    [] specifier = "y" -> Digits(at[1] % 100, 2)
    [] specifier = "m" -> Digits(at[2], 2)
    [] specifier = "d" -> Digits(at[3], 2)
PrintFormatted(format, at) == FlattenSeq([k \in DOMAIN format |-> PrintSpecifier(format[k], at)])
PrintDate_YYYYMMDD(at) == PrintFormatted(<<"Y", "m", "d">>, at)
PrintDate_MMDDYYYY(at) == PrintFormatted(<<"m", "d", "Y">>, at)
PrintTime_HHMM(at) == Digits(at[4], 2) \o Digits(at[5], 2)
ParseFromYYYYMMDD(s) ==
  LET n == Atoi(s) IN NormalizeDate(n \div 10000, (n % 10000) \div 100, n % 100)
ParseFromMMDDYYYY(s) ==
  LET n == Atoi(s) IN NormalizeDate(n % 10000, n \div 1000000, (n % 1000000) \div 10000)
ParseFromYYYYMMDDHHMM(s, hhmm) ==
  Normalize(ParseFromYYYYMMDD(s) \o <<Atoi(hhmm) \div 100, Atoi(hhmm) % 100, 0>>)

\* TimeUtil::CheckDomain(): a domain of every day, its boundaries in local time and
\* as Times.
LocalDomain(domain, u) ==
  LET On(days, at) == TwoPoints({d \o <<domain.start, 0, 0>> : d \in days}, {d \o <<domain.end, 0, 0>> : d \in days}, at)
      Around(at) == On({NormalizeDate(at[1], at[2], at[3] + i) : i \in -2..2}, at) IN
  Around(GetLocalTime(u).at)

CheckDomain(domain, u) ==
  LET Universal(c) ==
        [in |-> c.in, prev |-> GetUniversalTime(Unflagged(c.prev)), next |-> GetUniversalTime(Unflagged(c.next))]
  IN  Universal(LocalDomain(domain, u))

-----------------------------------------------------------------------------
Init ==
  /\ zone \in Used /\ t \in Instants
  /\ local = GetLocalTime(t)
  /\ last = [op |-> "none"] /\ steps = 0

Step(op) == steps < MaxSteps /\ steps' = steps + 1 /\ last' = op
SetLocal(op, at) == Step(op) /\ local' = [local EXCEPT !.at = at] /\ UNCHANGED <<zone, t>>
SetTime(op, u) == Step(op) /\ t' = u /\ UNCHANGED <<zone, local>>

ToLocal == Step([op |-> "local"]) /\ local' = GetLocalTime(t) /\ UNCHANGED <<zone, t>>
ToUniversal == SetTime([op |-> "universal"], GetUniversalTime(local))
SetFlag == \E f \in {-1, 0, 1} : Step([op |-> "flag"]) /\ local' = [local EXCEPT !.is_dst = f] /\ UNCHANGED <<zone, t>>
ChangeZone == \E z \in Used : Step([op |-> "zone"]) /\ zone' = z /\ UNCHANGED <<t, local>>

FiniteTime == t > INFINITE_PAST /\ t < INFINITE_FUTURE
ToMidnight ==
  /\ FiniteTime
  /\ \/ SetTime([op |-> "last midnight"], LastMidnight(t))
     \/ SetTime([op |-> "next midnight"], NextMidnight(t))
ToFullHour ==
  /\ FiniteTime
  /\ \/ SetTime([op |-> "last hour"], LastFullHour(t))
     \/ SetTime([op |-> "next hour"], NextFullHour(t))
Cushion ==
  /\ FiniteTime
  /\ \E n \in Multiples, min \in Cushions :
       \/ SetTime([op |-> "forward", n |-> n, min |-> min], CushionForward(t, min, n))
       \/ SetTime([op |-> "backward", n |-> n, min |-> min], CushionBackward(t, min, n))

AskDomain ==
  /\ FiniteTime
  /\ \E d \in Domains : Step([op |-> "domain", of |-> LocalDomain(d, t), answer |-> CheckDomain(d, t)])
  /\ UNCHANGED <<zone, t, local>>

MoveLocal ==
  /\ IsFinite(local.at)
  /\ \/ \E c \in Clocks : SetLocal([op |-> "to", clock |-> c], ForwardTo(local.at, c))
     \/ \E c \in Clocks : SetLocal([op |-> "back to", clock |-> c], RewindTo(local.at, c))
     \/ \E n \in Multiples, min \in Cushions :
          \/ SetLocal([op |-> "on", n |-> n, min |-> min], LocalCushionForward(local.at, min, n))
          \/ SetLocal([op |-> "back on", n |-> n, min |-> min], LocalCushionBackward(local.at, min, n))
     \/ \E f \in 2..6, n \in Increments : SetLocal([op |-> "add", field |-> f, n |-> n], Increment(local.at, f, n))
     \/ \E d \in Durations : SetLocal([op |-> "after", d |-> d], TimeAfter(local.at, d))
     \/ \E d \in Durations : SetLocal([op |-> "before", d |-> d], TimeBefore(local.at, d))

Next ==
  \/ ToLocal \/ ToUniversal \/ SetFlag \/ ChangeZone
  \/ ToMidnight \/ ToFullHour \/ Cushion \/ MoveLocal \/ AskDomain

Spec == Init /\ [][Next]_vars

-----------------------------------------------------------------------------
\* The reference: the changes of a zone's offset, and the offset between them.
Starts(tz, years) ==
  {SecondsSince1970(PointIn(y, tz.dst_domain.start)) - tz.gmt_offset : y \in years}
Ends(tz, years) ==
  {SecondsSince1970(PointIn(y, tz.dst_domain.end)) - tz.gmt_offset - tz.dst_offset : y \in years}
YearsAround(u) == LET year == ElapseSeconds(u)[1] IN year - 1..year + 1
Offset(tz, u) ==
  IF tz.dst_offset = 0 THEN tz.gmt_offset
  ELSE LET since(S) == Max({x \in S : x <= u}) IN
       IF since(Starts(tz, YearsAround(u))) > since(Ends(tz, YearsAround(u)))
       THEN tz.gmt_offset + tz.dst_offset ELSE tz.gmt_offset

\* The times at which the clocks of a zone show a local time: none, one or two.
ShownAt(tz, at) ==
  {u \in {SecondsSince1970(at) - tz.gmt_offset, SecondsSince1970(at) - tz.gmt_offset - tz.dst_offset} :
     u + Offset(tz, u) = SecondsSince1970(at)}

\* The hour before the clocks go back to it reaches into the next day.
MidnightTwice(tz) == tz.dst_offset # 0 /\ tz.dst_domain.end.h * ONE_HOUR + tz.dst_domain.end.mn * ONE_MINUTE < tz.dst_offset

\* ToLocalTime() shows the clock of the zone and names the next change of its
\* offset, on either side of each change; only where the clocks go back over
\* midnight the change may be the one just over ("needs to be compensated here").
LocalExact ==
  LET Exact(tz, r, changes) ==
        /\ SecondsSince1970(r.at) = t + Offset(tz, t)
        /\ r.offset = Offset(tz, t) /\ r.is_dst = IF r.offset # tz.gmt_offset THEN 1 ELSE 0
        /\ IF tz.dst_offset = 0 THEN r.boundary = 0
           ELSE \/ r.boundary = Min(changes)
                \/ /\ MidnightTwice(tz)
                   /\ \E e \in Ends(tz, YearsAround(t)) : e <= t /\ t < e + tz.dst_offset
      In(tz) == Exact(tz, ToLocalTime(tz, t),
                      {u \in Starts(tz, YearsAround(t)) \cup Ends(tz, YearsAround(t)) : u > t})
  IN  FiniteTime => In(Zone)

\* FromLocalTime() is its inverse wherever there is one: a local time that comes
\* twice is the one of its is_dst, or the later one, and one that never comes is
\* taken for daylight saving time (the notes of timezone.cc).
UniversalExact ==
  \A f \in {-1, 0, 1} :
    LET tz == Zone
        u == FromLocalTime(tz, [local EXCEPT !.is_dst = f])
        shown == ShownAt(tz, local.at) IN
    IsFinite(local.at) =>
      u = IF shown = {} THEN SecondsSince1970(local.at) - tz.gmt_offset - tz.dst_offset
          ELSE IF f = 1 THEN Min(shown) ELSE Max(shown)

\* What is converted there and back is what it was.
ThereAndBack == FiniteTime => GetUniversalTime(GetLocalTime(t)) = t

ShowsMidnight(tz, u) == (u + Offset(tz, u)) % ONE_DAY = 0
ShowsHour(tz, u) == (u + Offset(tz, u)) % ONE_HOUR = 0

\* The first multiple of n that is at least min after a time, and the last one as
\* much before it.
FirstMultiple(from, to, a) == to % a.n = 0 /\ to - from \in a.min..a.min + a.n - 1
LastOfMultiples(from, to, a) == to % a.n = 0 /\ from - to \in a.min..a.min + a.n - 1

\* "the last time when localtime was 00:00:00", at most the time, and the next
\* one, after it, with no midnight between them and the time; so for full hours.
\* Where midnight comes twice in a night this is so of full hours only.
LandsExactly ==
  LET tz == Zone IN
  CASE last'.op = "last midnight" /\ ~MidnightTwice(tz) ->
         t' <= t /\ ShowsMidnight(tz, t') /\ \A u \in t' + 1..t : ~ShowsMidnight(tz, u)
    [] last'.op = "next midnight" /\ ~MidnightTwice(tz) ->
         t' > t /\ ShowsMidnight(tz, t') /\ \A u \in t + 1..t' - 1 : ~ShowsMidnight(tz, u)
    [] last'.op = "last hour" ->
         t' <= t /\ ShowsHour(tz, t') /\ \A u \in t' + 1..t : ~ShowsHour(tz, u)
    [] last'.op = "next hour" ->
         t' > t /\ ShowsHour(tz, t') /\ \A u \in t + 1..t' - 1 : ~ShowsHour(tz, u)
    [] last'.op = "forward" -> FirstMultiple(t, t', last')
    [] last'.op = "backward" -> LastOfMultiples(t, t', last')
    [] OTHER -> TRUE

\* Local times move by what they are asked to, whichever way the carries go: the
\* months are whole, and what is below them is counted in seconds.
After(at, d) ==
  LET months == at[1] * 12 + at[2] - 1 + d[1] * 12 + d[2]
      first == <<months \div 12, (months % 12) + 1, 1, 0, 0, 0>> IN
  SecondsSince1970(first) + (at[3] - 1 + d[3]) * ONE_DAY + (at[4] + d[4]) * ONE_HOUR
    + (at[5] + d[5]) * ONE_MINUTE + at[6] + d[6]

MovesExactly ==
  LET from == local.at
      to == local'.at
      seconds == SecondsSince1970(to) - SecondsSince1970(from) IN
  CASE last'.op = "to" -> SubSeq(to, 4, 6) = last'.clock /\ seconds \in 0..ONE_DAY - 1
    [] last'.op = "back to" -> SubSeq(to, 4, 6) = last'.clock /\ -seconds \in 0..ONE_DAY - 1
    [] last'.op = "on" -> FirstMultiple(SecondsSince1970(from), SecondsSince1970(to), last')
    [] last'.op = "back on" -> LastOfMultiples(SecondsSince1970(from), SecondsSince1970(to), last')
    [] last'.op = "add" -> SecondsSince1970(to) = After(from, [i \in 1..6 |-> IF i = last'.field THEN last'.n ELSE 0])
    [] last'.op = "after" -> SecondsSince1970(to) = After(from, last'.d)
    [] last'.op = "before" -> SecondsSince1970(to) = After(from, Reversed(last'.d))
    [] OTHER -> TRUE

\* Every id leads to a zone of its own offsets and domain, and a Timezone made
\* from those has "only one primary ID, which is the first ID assigned to it".
ZonesKnown ==
  \A k \in DOMAIN Zones :
    /\ Signature(GetTimezoneSpec(Zones[k].id)) = Signature(SetTimezone(Zones[k]))
    /\ \E j \in 1..k : InitTZ(Zones[k]) = Zones[j].id
                       /\ \A i \in 1..j - 1 : Signature(SetTimezone(Zones[i])) # Signature(SetTimezone(Zones[k]))

\* Dates, times of the day and durations are read as they were printed.
PrintedIsRead ==
  /\ IsFinite(local.at) =>
       /\ ParseFromYYYYMMDD(PrintDate_YYYYMMDD(local.at)) = SubSeq(local.at, 1, 3)
       /\ ParseFromMMDDYYYY(PrintDate_MMDDYYYY(local.at)) = SubSeq(local.at, 1, 3)
       /\ ParseFromYYYYMMDDHHMM(PrintDate_YYYYMMDD(local.at), PrintTime_HHMM(local.at))
            = [local.at EXCEPT ![6] = 0]
  /\ \A d \in Durations : (\A i, j \in DOMAIN d : d[i] * d[j] >= 0) => InitOffset(PrintOffset(d)) = d

\* "In all cases, prev_boundary is guaranteed to be <= current, next_boundary is
\* guaranteed to be > current": so it is, if the local times of both boundaries
\* come exactly once.
DomainAround ==
  last.op = "domain" =>
    LET once(at) == Cardinality(ShownAt(Zone, at)) = 1 IN
    once(last.of.prev) /\ once(last.of.next) => last.answer.prev <= t /\ t < last.answer.next
=============================================================================
