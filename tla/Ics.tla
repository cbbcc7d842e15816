--------------------------------- MODULE Ics ---------------------------------
(***************************************************************************)
(* What a calendar document says happens in a window: curfew-ics.          *)
(*                                                                         *)
(* A document is the sequence of its unfolded lines: a line [name, value], *)
(* where BEGIN and END lines carry the name of a component.  A time is     *)
(* written [form, at, zone], where form is "utc", "local" or "date" and    *)
(* the zone is a set of at most one element.                               *)
(***************************************************************************)
EXTENDS Calendar

CONSTANTS
  HOUR,              \* units in an hour
  Shorter,           \* the units of the frequencies shorter than a day
  MAX_OCCURRENCES, MAX_ITERATIONS

ASSUME IcsAssumption ==
  HOUR \in Nat \ {0} /\ MAX_OCCURRENCES \in Nat /\ MAX_ITERATIONS \in Nat

\* ------------------------------------------------------------------- times

\* A local time as an instant: the first time it is shown, and when it is
\* skipped the next whole hour from it that is shown once.
in_zone(local, zone) ==
  LET shown  == Instants(local, zone)
      probes == {k \in 1..4 : Cardinality(Instants(local + k * HOUR, zone)) = 1}
  IN  IF shown # {} THEN Min(shown)
      ELSE IF probes # {} THEN Min(Instants(local + Min(probes) * HOUR, zone))
      ELSE local

parse_time(time, default) ==
  IF time.form = "utc" THEN time.at
  ELSE in_zone(IF time.form = "date" THEN time.at * DAY ELSE time.at,
               FoldSet(LAMBDA z, d : z, default, time.zone))

\* -------------------------------------------------------------- components

\* A line read while an event is open, nested components being skipped.
Read(s, line) ==
  CASE line.name = "BEGIN" ->
         IF line.value = "VEVENT" THEN [s EXCEPT !.open = TRUE, !.current = <<>>]
         ELSE IF s.open THEN [s EXCEPT !.depth = @ + 1] ELSE s
    [] line.name = "END" ->
         IF line.value = "VEVENT"
         THEN [out |-> IF s.open THEN Append(s.out, s.current) ELSE s.out,
               open |-> FALSE, current |-> <<>>, depth |-> 0]
         ELSE IF s.open THEN [s EXCEPT !.depth = Max({0, @ - 1})] ELSE s
    [] OTHER ->
         IF s.open /\ s.depth = 0 THEN [s EXCEPT !.current = Append(@, line)] ELSE s

\* The events of a document, each the sequence of its properties.
components(text) ==
  FoldLeft(Read, [out |-> <<>>, open |-> FALSE, current |-> <<>>, depth |-> 0], text).out

Lines(component, name) == SelectSeq(component, LAMBDA line : line.name = name)

\* The first property of a name, or {}.
property(component, name) ==
  LET found == Lines(component, name) IN IF found = <<>> THEN {} ELSE {found[1].value}

time(component, name, default) ==
  {parse_time(t, default) : t \in property(component, name)}

is_cancelled(component) == "CANCELLED" \in property(component, "STATUS")
is_all_day(component) == \E t \in property(component, "DTSTART") : t.form = "date"
is_busy(component) == "TRANSPARENT" \notin property(component, "TRANSP")

\* The first occurrence's span, or {} without a start.
span(component, default) ==
  LET Ends(start) ==
        LET ends == time(component, "DTEND", default)
            durations == property(component, "DURATION")
        IN  IF ends # {} THEN Max(ends \cup {start})
            ELSE start + (IF durations # {} THEN Max(durations)
                          ELSE IF is_all_day(component) THEN 24 * HOUR ELSE 0)
  IN  {<<start, Ends(start)>> : start \in time(component, "DTSTART", default)}

to_event(component, id, start, end) ==
  [id |-> id, title |-> property(component, "SUMMARY"), start |-> start, end |-> end,
   all_day |-> is_all_day(component), busy |-> is_busy(component)]

\* -------------------------------------------------------------- recurrence

\* A rule: [freq, interval, count, until, refused, by_day, by_month,
\* by_month_day]; it is refused for a part or a token that is not supported.
Local(t, zone) == t + OffsetAt(zone, t)

month_day_matches(tokens, date) ==
  LET month  == MonthOf(date)
      length == MonthStart(month + 1) - MonthStart(month)
      day    == date - MonthStart(month) + 1
  IN  tokens # {} => \E k \in tokens : day = (IF k > 0 THEN k ELSE length + 1 + k)

Keep(rule, date) ==
  /\ rule.by_month # {} => (MonthOf(date) % Len(MonthLengths)) + 1 \in rule.by_month
  /\ month_day_matches(rule.by_month_day, date)
  /\ rule.by_day # {} => Weekday(date) \in rule.by_day

\* The same local time a number of months on, or on the last day of a month
\* that is too short.
add_months(local, months) ==
  LET date == local \div DAY
      day  == date - MonthStart(MonthOf(date)) + 1
  IN  clamp_day(MonthOf(date) + months, day) * DAY + (local % DAY)

\* The next local time to be looked at, or {}.  Months are counted from the
\* start and days from the occurrence before.
Following(rule, cursor, start, steps, zone) ==
  LET local == Local(cursor, zone)
      year  == Len(MonthLengths)
  IN  CASE rule.freq \in DOMAIN Shorter -> {local + rule.interval * Shorter[rule.freq]}
        [] rule.freq = "DAILY" -> {local + rule.interval * DAY}
        [] rule.freq = "WEEKLY" ->
             IF rule.by_day = {} THEN {local + rule.interval * 7 * DAY}
             ELSE IF rule.interval = 1 THEN {local + DAY} ELSE {}
        [] rule.freq = "MONTHLY" -> {add_months(Local(start, zone), rule.interval * steps)}
        [] rule.freq = "YEARLY" -> {add_months(Local(start, zone), rule.interval * year * steps)}
        [] OTHER -> {}

\* One that is skipped is taken an hour later, if that hour is shown once.
advance(rule, cursor, start, steps, zone) ==
  UNION {LET shown == Instants(next, zone)
             later == Instants(next + HOUR, zone)
         IN  IF shown # {} THEN {Min(shown)}
             ELSE IF Cardinality(later) = 1 THEN later ELSE {} :
         next \in Following(rule, cursor, start, steps, zone)}

\* The starts a rule produces up to an instant, walked from its first.
expand(rule, first, to, zone) ==
  LET horizon == Min({to} \cup {parse_time(t, zone) : t \in rule.until})
      Stops(s) ==
        \/ s.cursor = {} \/ \E c \in s.cursor : c > horizon
        \/ Cardinality(s.out) >= MAX_OCCURRENCES
        \/ \E n \in rule.count : Cardinality(s.out) >= n
      Step(s, steps) ==
        LET c == CHOOSE c \in s.cursor : TRUE
        IN  [out |-> IF Keep(rule, local_date(c, zone)) THEN s.out \cup {c} ELSE s.out,
             cursor |-> advance(rule, c, first, steps, zone)]
      run[n \in 0..MAX_ITERATIONS] ==
        IF n = 0 THEN [cursor |-> {first}, out |-> {}]
        ELSE LET s == run[n - 1] IN IF Stops(s) THEN s ELSE Step(s, n)
  IN  IF rule.refused THEN {} ELSE run[MAX_ITERATIONS].out

\* Recurrence is counted in the zone the event is written in.
zone_of(component, default) ==
  FoldSet(LAMBDA z, d : z, default, UNION {t.zone : t \in property(component, "DTSTART")})

Dates(component, name, default) ==
  UNION {{parse_time(t, default) : t \in line.value} : line \in Range(Lines(component, name))}

starts(component, first, to, default) ==
  {first} \cup Dates(component, "RDATE", default)
    \cup UNION {expand(r, first, to, zone_of(component, default)) :
                  r \in property(component, "RRULE")}

\* ------------------------------------------------------------------ windows

Overlapping(s, from, to) == s[1] < to /\ s[2] > from

occurrence_id(uid, start) == <<uid, start>>

Of(c, default) == <<property(c, "UID"), time(c, "RECURRENCE-ID", default)>>

\* The components that describe one occurrence of another, by uid and instant.  Of two that
\* describe the same one, the later stands.
Overrides(text, default) ==
  LET list == components(text)
      Describing == {i \in DOMAIN list :
                       property(list[i], "UID") # {} /\ time(list[i], "RECURRENCE-ID", default) # {}}
  IN  {list[i] : i \in {i \in Describing : \A j \in Describing :
                           Of(list[j], default) = Of(list[i], default) => j <= i}}

\* What a component makes happen in a window.  An occurrence with a
\* description of its own happens as that says, or not at all.
occurrences(component, from, to, default, changed) ==
  UNION {UNION {
    LET At(start) == <<start, start + first[2] - first[1]>>
        Own(start) == {c \in changed : Of(c, default) = <<{uid}, {start}>>}
        Told(start, own) ==
          IF own = {} THEN {<<component, At(start)>>}
          ELSE {<<c, s>> \in UNION {{c} \X span(c, default) : c \in own} : ~is_cancelled(c)}
        Seen(start) == Told(start, Own(start))
    IN  UNION {{to_event(cs[1], occurrence_id(uid, start), cs[2][1], cs[2][2]) :
                  cs \in {cs \in Seen(start) : Overlapping(cs[2], from, to)}} :
               start \in starts(component, first[1], to, default)
                         \ Dates(component, "EXDATE", default)} :
    first \in span(component, default)} : uid \in property(component, "UID")}

\* What was moved into the window from an occurrence that is not in it.
Moved(text, from, to, default) ==
  UNION {{to_event(c, occurrence_id(of[1], of[2]), s[1], s[2]) :
            of \in property(c, "UID") \X time(c, "RECURRENCE-ID", default),
            s \in {s \in span(c, default) : Overlapping(s, from, to)}} :
         c \in {c \in Overrides(text, default) : ~is_cancelled(c)}}

\* What the series of a document make happen, overridden components aside.
Series(text, from, to, default, changed) ==
  UNION {occurrences(c, from, to, default, changed) :
           c \in {c \in Range(components(text)) : property(c, "RECURRENCE-ID") = {}}}

\* The events of a window.  One that the series has already is not added.
events_between(text, from, to, default) ==
  LET With(series) == series \cup {e \in Moved(text, from, to, default) :
                                      \A o \in series : o.id # e.id}
  IN  With(Series(text, from, to, default, Overrides(text, default)))
=============================================================================
