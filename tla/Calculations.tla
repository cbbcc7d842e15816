---------------------------- MODULE Calculations ----------------------------
(***************************************************************************)
(* What the pure parts answer, asked at every instant of a few stories:    *)
(* when an allowance starts over, what the schedules have running, what    *)
(* the days add up to, what a calendar document says happens, and what the *)
(* rules decide.  A story is [about, zone, from, until] with what it asks  *)
(* about.                                                                  *)
(***************************************************************************)
EXTENDS Commands, Ics

CONSTANTS
  Stories,
  Observed,   \* the observations that are decided about
  Ledgers,    \* the uses recorded
  Patterns, Texts, Domains, Files

VARIABLES story, now
vars == <<story, now>>

Init ==
  /\ story \in Stories
  /\ now = story.from

Next ==
  /\ now < story.until
  /\ now' = now + 1
  /\ UNCHANGED story

Spec == Init /\ [][Next]_vars

-----------------------------------------------------------------------------
(***************************************************************************)
(* What the answers are compared with.                                     *)
(***************************************************************************)
\* The first instant at which a local date has reached a minute.
Reached(date, minute, zone) ==
  LET near == (date * DAY + minute - 2 * DAY)..(date * DAY + minute + 2 * DAY)
  IN  Min({t \in near : Local(t, zone) >= date * DAY + minute})

Near(days) == (local_date(now, story.zone) - days)..(local_date(now, story.zone) + days)

\* The days on which an allowance starts over.
Resets(refill, date) ==
  CASE refill.kind = "daily"   -> TRUE
    [] refill.kind = "weekly"  -> Weekday(date) = refill.day
    [] refill.kind = "monthly" -> date = clamp_day(MonthOf(date), refill.day)

LastReset(refill, zone) ==
  Max({t \in {Reached(d, refill.at, zone) : d \in {d \in Near(15) : Resets(refill, d)}} : t <= now})

\* The instants of a day a record covers, the clocks being what they are.
Covered(date, spans) ==
  {t \in (date * DAY - 2 * DAY)..(date * DAY + 3 * DAY) :
     local_date(t, story.zone) = date /\ \E s \in spans : s[1] <= t /\ t < s[2]}

(***************************************************************************)
(* A budget is counted from the latest reset that is not in the future,    *)
(* however the clocks were moved since and however short the month is; and *)
(* a day of the statistics adds up to the time some session covered it.    *)
(***************************************************************************)
DaysAddUp ==
  /\ story.about = "refill" =>
       window_start(story.refill, now, story.zone) = {LastReset(story.refill, story.zone)}
  /\ story.about = "days" =>
       LET spans == {SpanOf(r, now) : r \in Range(story.records)}
           days  == summarize(story.records, now, story.zone, story.days)
           today == local_date(now, story.zone)
       IN  \A i \in 1..story.days :
             days.blocked[i] = Cardinality(Covered(today - story.days + i, spans))

At(t) == active_at(t, story.zone, story.weekly, story.calendars, story.events)

\* Some date's window is open, whichever date it is.
Open(w, t) ==
  \E d \in Near(9) :
    /\ runs_on(w, d)
    /\ Reached(d, w.start, story.zone) <= t
    /\ t < Reached(IF w.end <= w.start THEN d + 1 ELSE d, w.end, story.zone)

(***************************************************************************)
(* What is active at an instant is what some window or event covers; it    *)
(* stays so until the instant the next change is announced for; and what   *)
(* will be active before another instant is in the list of what is coming. *)
(***************************************************************************)
SchedulesAgree ==
  story.about = "week" =>
    LET next == next_change_after(now, story.zone, story.weekly, story.calendars, story.events)
        soon == now + 2 * DAY
        list == upcoming(now, soon, story.zone, story.weekly, story.calendars, story.events)
    IN  /\ \A w \in story.weekly : WeeklyAt(w, now, story.zone) # {} <=> Open(w, now)
        /\ \A t \in now..Min({soon} \cup next) :
             (\A n \in next : t < n) => {a.profile : a \in At(t)} = {a.profile : a \in At(now)}
        /\ \A t \in now..(soon - 1) : At(t) \subseteq list

\* The dates a rule recurs on, said without walking through them.
Recurs(rule, first, date) ==
  LET day == first - MonthStart(MonthOf(first)) + 1
      months == MonthOf(date) - MonthOf(first)
  IN  /\ CASE rule.freq = "DAILY"   -> (date - first) % rule.interval = 0
            [] rule.freq = "WEEKLY"  -> \/ rule.by_day # {} /\ rule.interval = 1
                                        \/ rule.by_day = {} /\ (date - first) % (7 * rule.interval) = 0
            [] rule.freq = "MONTHLY" -> /\ months % rule.interval = 0
                                        /\ date = clamp_day(MonthOf(date), day)
      /\ Keep(rule, date)

Horizon == story.until + 8 * DAY
BegunOn == local_date(story.first, story.zone)
Expected == {d \in BegunOn..(local_date(Horizon, story.zone) - 1) :
               d = BegunOn \/ \E r \in story.rule : Recurs(r, BegunOn, d)}

\* Events on just the dates expected, once each, at the hour of the first if no date skipped it.
OnDates(events) ==
  LET On(e)  == local_date(e.start, story.zone)
      hour   == Local(story.first, story.zone) % DAY
      Skipped(date) == \E d \in BegunOn..date : Instants(d * DAY + hour, story.zone) = {}
  IN  /\ {On(e) : e \in events} \ {local_date(Horizon, story.zone)} = Expected
      /\ \A e \in events : ~Skipped(On(e)) => Local(e.start, story.zone) % DAY = hour
      /\ Cardinality(events) = Cardinality({On(e) : e \in events})

Consistent(narrow, wide) ==
  /\ narrow = {e \in wide : Overlapping(<<e.start, e.end>>, now, now + DAY)}
  /\ \A e, o \in wide : e.id = o.id => e = o
  /\ story.rule # {} => OnDates(wide)

(***************************************************************************)
(* What happens in a window does not depend on which window was asked for, *)
(* though occurrences are moved into it, out of it and within it, and an   *)
(* occurrence happens once, though it is described again and again.  A     *)
(* rule makes it happen on just the dates it recurs on, as often as it     *)
(* may, at the hour it began unless that hour was skipped on the way.      *)
(***************************************************************************)
OccurrencesAgree ==
  story.about = "feed" =>
    Consistent(events_between(story.document, now, now + DAY, story.zone),
               events_between(story.document, story.from - 3 * DAY, Horizon, story.zone))

(***************************************************************************)
(* What is said about days, windows and the events of a calendar file is   *)
(* what going through every second of them says.                           *)
(***************************************************************************)
CalendarAgrees == DaysAddUp /\ SchedulesAgree /\ OccurrencesAgree

\* ------------------------------------------------------------------ rules

World(usage, launches) ==
  [active |-> story.active, usage |-> usage, launches |-> launches, platform |-> "windows"]

\* A limit that decides about something is one that it is charged to.
Metered(c) ==
  \A obs \in Observed, l \in Ledgers, m \in Ledgers :
    (\A k \in charged_keys(World(l, <<>>), obs, c) : Recorded(l, k) = Recorded(m, k))
      => decide(now, World(l, <<>>), obs, c) = decide(now, World(m, <<>>), obs, c)

\* A name the resolver refuses is one the rules block.  The www of an entry
\* is left out there, so one written with it stands for more than it says.
RefusedIsBlocked(c) ==
  \A obs \in {o \in Observed : o.kind = "web"} :
    (\E d \in covered(obs.host, blocked_domains(now, World(<<>>, <<>>), c)) : bare(d) = d)
      => decide(now, World(<<>>, <<>>), obs, c) = Block

\* A pattern matches what some way of filling in its stars spells.
Spells[p \in Seq(STRING), t \in Seq(STRING)] ==
  IF p = <<>> THEN t = <<>>
  ELSE \/ p[1] = "*" /\ \E n \in 0..Len(t) : Spells[Tail(p), SubSeq(t, n + 1, Len(t))]
       \/ p[1] # "*" /\ t # <<>> /\ p[1] \in {"?", t[1]} /\ Spells[Tail(p), Tail(t)]

\* The document after so many commands of a story.
Edited(n) == FoldLeft(LAMBDA c, command : main(c, story.running, command), story.config,
                      SubSeq(story.commands, 1, n))

AsStrict(given, than) ==
  \/ than = Allow \/ given \in {than, Block, Mute}
  \/ given.kind = "delay" /\ than.kind = "delay" /\ given.seconds >= than.seconds

\* What an edit that weakens no rule of a profile makes of its decisions.
NothingLetThrough(before, after, p) ==
  LET Answer(c, obs, l) ==
        decide(now, [active |-> {p}, usage |-> l, launches |-> <<>>, platform |-> "windows"], obs, c)
  IN  rules_weakened_by(before, after, p) = {} =>
        \A obs \in Observed, l \in {l \in Ledgers : \A j, k \in DOMAIN l : l[j] = l[k]} :
          AsStrict(Answer(after, obs, l), Answer(before, obs, l))

\* What a command is for, when it went through.
DoesWhatItSays(before, after, c) ==
  CASE c.verb = "block" ->
         \A p \in Profile(after, c.flags), s \in DOMAIN c.flags \cap {"app", "exe", "site", "title"} :
           \A name \in required(c.flags, s) :
             "on" \notin DOMAIN c.flags => run_decide(after, p, s, name, now) = Block
    [] c.verb = "unblock" ->
         \A p \in Profile(after, c.flags), t \in target(c.flags) :
           ~\E rule \in RulesOf(after, p) : key(rule.target) = key(t)
    [] c.verb = "add-window" ->
         \A w \in WindowOf(c.flags), t \in now..(now + 7 * DAY) :
           WeeklyAt(w, t, after.zone) # {} =>
             \/ \E v \in Range(after.weekly) :
                  v.enabled /\ v.profile = w.profile /\ WeeklyAt(v, t, after.zone) # {}
             \/ \E v \in Range(before.weekly) : v.days = w.days /\ ~v.enabled
    [] c.verb = "remove" ->
         \A list \in {after.profiles, after.weekly, after.calendars, after.sources} : ById(list, c.id) = {}
    [] OTHER -> TRUE

Schedules(c) == {s.id : s \in Range(c.weekly) \cup Range(c.calendars)}

\* Every document stands up again when it is read; no edit takes away the
\* schedule something running was started by, nor lets anything through
\* without a rule that was weakened; and the apps that are picked are those
\* that are shown as picked.
EditsAgree ==
  LET n == now - story.from IN
  /\ validate(Edited(n))
  /\ n > 0 =>
       LET before == Edited(n - 1)  after == Edited(n)  c == story.commands[n] IN
       /\ \A p \in {q.id : q \in Range(before.profiles)} : NothingLetThrough(before, after, p)
       /\ run(before, c) # {} /\ removal_refusal(story.running, c) = {} => DoesWhatItSays(before, after, c)
       /\ \A p \in DOMAIN story.running : story.running[p] \cap Schedules(before) \subseteq Schedules(after)
       /\ \A p \in {q.id : q \in Range(after.profiles)}, rule \in story.edits :
            NothingLetThrough(after, upsert_rule(after, p, rule), p)
       /\ \A p \in Range(after.profiles), picked \in SUBSET {"chat", "game"} :
            blocked_apps(set_blocked_apps(after, p.id, picked), p.id) = picked

(***************************************************************************)
(* The parts that answer for the same rules agree: what is decided, what   *)
(* it is charged to, what the resolver refuses, what the hosts file holds, *)
(* what a pattern matches, and what the commands that edit the rules say   *)
(* they do.                                                                *)
(***************************************************************************)
DecisionsAgree ==
  /\ story.about = "edits" => EditsAgree
  /\ story.about = "rules" => Metered(story.config) /\ RefusedIsBlocked(story.config)
  /\ story.about = "names" =>
       /\ \A p \in Patterns, t \in Texts : glob_match(p, t) <=> Spells[p, t]
       /\ \A f \in Files, D \in SUBSET Domains :
            /\ strip(render(f, D)) = strip(f)
            /\ D \subseteq Sunk(render(f, D)) /\ (D = {} => Sunk(render(f, D)) = {})
=============================================================================
