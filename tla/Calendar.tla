------------------------------ MODULE Calendar ------------------------------
(***************************************************************************)
(* Local days, the windows a schedule opens in them, when an allowance     *)
(* starts over, and the statistics of the days: schedule.rs, the refills   *)
(* of budget.rs, and stats.rs.                                             *)
(*                                                                         *)
(* An instant and a local time are integers in the same unit, and a date   *)
(* is the number of a local day.  A zone is a function from the instants   *)
(* at which its clocks are moved to the offset that holds from then on.    *)
(* What may be missing is a set of at most one element.                    *)
(***************************************************************************)
EXTENDS Integers, Sequences, FiniteSets, FiniteSetsExt, SequencesExt

CONSTANTS
  DAY,            \* units in a local day: 24 * 60 minutes in the code
  LONGEST_GAP,    \* how far a skipped local time is carried forward: 180 minutes
  FIRST_WEEKDAY,  \* the weekday of date 0, Monday being 0
  MonthLengths    \* the lengths of the months of a year, from date 0 on

ASSUME CalendarAssumption ==
  /\ DAY \in Nat \ {0} /\ LONGEST_GAP \in Nat /\ FIRST_WEEKDAY \in 0..6
  /\ MonthLengths \in Seq(Nat \ {0}) /\ MonthLengths # <<>>

\* ----------------------------------------------------------- local time

OffsetAt(zone, t) ==
  LET moved == {m \in DOMAIN zone : m <= t}
  IN  zone[IF moved = {} THEN Min(DOMAIN zone) ELSE Max(moved)]

local_date(t, zone) == (t + OffsetAt(zone, t)) \div DAY

\* The instants at which the local clocks show a time: none when it is
\* skipped, two when it is repeated.
Instants(local, zone) ==
  {t \in {local - zone[m] : m \in DOMAIN zone} : t + OffsetAt(zone, t) = local}

\* The earliest instant of a local time, or of the first one after it that
\* exists.
local_instant(date, minute, zone) ==
  LET local  == date * DAY + Min({minute, DAY})
      shown  == {k \in 0..LONGEST_GAP : Instants(local + k, zone) # {}}
  IN  IF shown = {} THEN local ELSE Min(Instants(local + Min(shown), zone))

Weekday(date) == (date + FIRST_WEEKDAY) % 7

\* -------------------------------------------------------- weekly windows

\* A weekly schedule: [profile, days, start, end, enabled, locks].
runs_on(weekly, date) ==
  weekly.enabled /\ (weekly.days = {} \/ Weekday(date) \in weekly.days)

span_on(weekly, date, zone) ==
  LET last == IF weekly.end <= weekly.start THEN date + 1 ELSE date
  IN  <<local_instant(date, weekly.start, zone), local_instant(last, weekly.end, zone)>>

Inside(span, t) == span[1] <= t /\ t < span[2]

\* The window that covers an instant, looked for on that day and the day
\* before; yesterday's is the one found first.
WeeklyAt(weekly, now, zone) ==
  LET today == local_date(now, zone)
      open  == {d \in {today - 1, today} :
                  runs_on(weekly, d) /\ Inside(span_on(weekly, d, zone), now)}
  IN  IF open = {} THEN {}
      ELSE {[profile |-> weekly.profile, span |-> span_on(weekly, Min(open), zone)]}

\* ------------------------------------------------------- calendar events

\* An event: [title, calendar, place, start, end, all_day, busy, categories];
\* a matcher asks for some of these, {} where it does not ask.  Titles and
\* places are sets of the patterns they match.
Duration(event) == Max({event.end - event.start, 0})

Matches(matcher, event) ==
  /\ matcher.busy_only => event.busy
  /\ \A want \in matcher.all_day : want = event.all_day
  /\ matcher.title \subseteq event.title
  /\ matcher.location \subseteq event.place
  /\ \A name \in matcher.calendar : name = event.calendar
  /\ matcher.categories # {} => matcher.categories \cap event.categories # {}
  /\ \A least \in matcher.at_least : Duration(event) >= least
  /\ \A most \in matcher.at_most : Duration(event) <= most

\* A calendar schedule: [profile, matcher, pad_before, pad_after, enabled].
\* An event of no length still has its own start inside its activation.
Activations(schedule, events) ==
  IF schedule.enabled
  THEN {[profile |-> schedule.profile,
         span |-> <<e.start - schedule.pad_before,
                    Max({e.end, e.start}) + schedule.pad_after + 1>>] :
         e \in {e \in events : Matches(schedule.matcher, e)}}
  ELSE {}

\* What should be running at an instant.
active_at(now, zone, weekly, calendars, events) ==
  (UNION {WeeklyAt(w, now, zone) : w \in weekly})
    \cup {a \in UNION {Activations(c, events) : c \in calendars} : Inside(a.span, now)}

\* What will be running at some time between two instants.
upcoming(from, to, zone, weekly, calendars, events) ==
  LET Overlaps(span) == span[1] < to /\ span[2] > from
      first == local_date(from, zone)
      dates == (first - 1)..(first + ((to - from) \div DAY) + 2)
  IN  {a \in (UNION {{[profile |-> w.profile, span |-> span_on(w, d, zone)] :
                        d \in {d \in dates : runs_on(w, d)}} : w \in weekly})
             \cup (UNION {Activations(c, events) : c \in calendars}) : Overlaps(a.span)}

\* The next instant at which something may start or end: a week ahead is
\* looked at.
next_change_after(now, zone, weekly, calendars, events) ==
  LET today  == local_date(now, zone)
      spans  == {a.span : a \in UNION {Activations(c, events) : c \in calendars}}
                  \cup (UNION {{span_on(w, d, zone) :
                         d \in {d \in (today - 1)..(today + 7) : runs_on(w, d)}} : w \in weekly})
      later  == {t \in UNION {{span[1], span[2]} : span \in spans} : t > now}
  IN  IF later = {} THEN {} ELSE {Min(later)}

\* ---------------------------------------------------------------- refills

\* The date of the first day of a month, counted from month 0.
MonthStart(month) ==
  LET year == Len(MonthLengths)
      First(n) == FoldSeq(LAMBDA x, y : x + y, 0, SubSeq(MonthLengths, 1, n))
  IN  (month \div year) * First(year) + First(month % year)

MonthOf(date) ==
  LET least == date \div Max(Range(MonthLengths))
  IN  CHOOSE m \in Min({date, least})..Max({date, least}) :
        MonthStart(m) <= date /\ date < MonthStart(m + 1)

\* A day of a month, or the last day of a month that is too short for it.
clamp_day(month, day) ==
  MonthStart(month) + Min({Max({day, 1}), MonthStart(month + 1) - MonthStart(month)}) - 1

\* The first of three candidate dates whose reset is not in the future, or
\* the fourth.
walk_back(anchor(_), minute, zone, now) ==
  LET past == {k \in 0..2 : local_instant(anchor(k), minute, zone) <= now}
  IN  local_instant(anchor(IF past = {} THEN 3 ELSE Min(past)), minute, zone)

\* When the current window of an allowance opened; {} when it never starts
\* over.
window_start(refill, now, zone) ==
  LET today == local_date(now, zone)
  IN  CASE refill.kind = "never"   -> {}
        [] refill.kind = "rolling" -> {now - refill.seconds}
        [] refill.kind = "daily"   ->
             {walk_back(LAMBDA k : today - k, refill.at, zone, now)}
        [] refill.kind = "weekly"  ->
             {walk_back(LAMBDA k : today - ((Weekday(today) - refill.day) % 7) - 7 * k,
                        refill.at, zone, now)}
        [] refill.kind = "monthly" ->
             {walk_back(LAMBDA k : clamp_day(MonthOf(today) - k, refill.day),
                        refill.at, zone, now)}

\* ------------------------------------------------------------- statistics

\* The first instant of a local day; a skipped midnight is the next hour
\* that exists.
day_start(date, zone) == local_instant(date, 0, zone)

\* A record: [start, end], the end being {} while the session runs.  One
\* that ends before it starts is a clock that was moved.
SpanOf(record, now) ==
  LET end == IF record.end = {} THEN now ELSE Max(record.end)
  IN  <<record.start, Max({record.start, end})>>

Touches(span, date, zone) ==
  LET from == day_start(date, zone)
      to   == day_start(date + 1, zone)
  IN  /\ local_date(span[1], zone) <= date /\ date <= local_date(span[2], zone)
      /\ \/ Min({span[2], to}) > Max({span[1], from})
         \/ from <= span[1] /\ span[1] < to

Overlap(span, date, zone) ==
  Max({0, Min({span[2], day_start(date + 1, zone)}) - Max({span[1], day_start(date, zone)})})

\* A mutant: sessions that run at once are counted one by one.
Joined_Each(spans) == spans

\* Spans that touch or overlap become one.
Joined(spans) ==
  LET Reach(a, b) == a[1] <= b[1] /\ b[1] <= a[2]
      Begins(s) == \A o \in spans : Reach(o, s) => o[1] = s[1]
      EndFrom(s) ==
        Min({e \in {o[2] : o \in spans} :
               /\ e >= s[2]
               /\ \A o \in spans : o[1] >= s[1] /\ o[1] <= e => o[2] <= e})
  IN  {<<s[1], EndFrom(s)>> : s \in {s \in spans : Begins(s)}}

\* The days of a window that ends today, oldest first.
summarize(records, now, zone, days) ==
  LET today  == local_date(now, zone)
      count  == Max({days, 1})
      Date(i) == today - count + i
      spans  == [r \in DOMAIN records |-> SpanOf(records[r], now)]
      joined == Joined(Range(spans))
      On(i)  == {r \in DOMAIN records : Touches(spans[r], Date(i), zone)}
      hit    == {i \in 1..count : On(i) # {}}
      last   == IF count \in hit THEN count ELSE count - 1
      Streak(a, b) == a..b \subseteq hit
  IN  [blocked  |-> [i \in 1..count |->
                       MapThenSumSet(LAMBDA s :
                         IF Touches(s, Date(i), zone) THEN Overlap(s, Date(i), zone) ELSE 0, joined)],
       sessions |-> [i \in 1..count |-> Cardinality(On(i))],
       total    |-> Cardinality(UNION {On(i) : i \in 1..count}),
       current  |-> Max({0} \cup {last - a + 1 : a \in {a \in 1..last : Streak(a, last)}}),
       longest  |-> Max({0} \cup UNION {{b - a + 1 : b \in {b \in a..count : Streak(a, b)}} : a \in 1..count})]
=============================================================================
