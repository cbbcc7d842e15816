--------------------------- MODULE MCCalculations ---------------------------
(***************************************************************************)
(* Days of four units, an hour of one, weeks of seven days and months of   *)
(* five, two and four.  The clocks are left alone, put forward at noon or  *)
(* at midnight, or put back at noon.                                       *)
(***************************************************************************)
EXTENDS Calculations

MCMonthLengths == <<5, 2, 4>>
MCShorter == [HOURLY |-> 1]

Steady   == (0 :> 0)
Spring   == (-100 :> 0) @@ (22 :> 1)
Midnight == (-100 :> 0) @@ (20 :> 1)
Autumn   == (-100 :> 1) @@ (21 :> 0)
Zones == {Steady, Spring, Midnight, Autumn}

Story(about, zone, from, until, rest) ==
  [about |-> about, zone |-> zone, from |-> from, until |-> until] @@ rest

\* ---------------------------------------------------------------- refills
Refills == {[kind |-> "daily", at |-> 0], [kind |-> "daily", at |-> 2],
            [kind |-> "weekly", day |-> 1, at |-> 2],
            [kind |-> "monthly", day |-> 1, at |-> 2], [kind |-> "monthly", day |-> 5, at |-> 1]}

RefillStories == {Story("refill", z, 8, 40, [refill |-> r]) : z \in Zones, r \in Refills}

\* -------------------------------------------------------------- schedules
Weekly(days, start, end) ==
  [id |-> "w", profile |-> "work", days |-> days, start |-> start, end |-> end,
   enabled |-> TRUE, locks |-> {}]

Overnight == Weekly({}, 3, 1)
Noon      == Weekly({4, 5}, 1, 3)
Meetings  == [profile |-> "calm", pad_before |-> 1, pad_after |-> 0, enabled |-> TRUE,
              matcher |-> [busy_only |-> TRUE, all_day |-> {}, title |-> {"m"}, location |-> {},
                           calendar |-> {}, categories |-> {}, at_least |-> {}, at_most |-> {4}]]
Event(title, start, end, busy) ==
  [title |-> title, calendar |-> "home", place |-> {}, start |-> start, end |-> end,
   all_day |-> FALSE, busy |-> busy, categories |-> {}]

WeekStories ==
  {Story("week", z, 12, 32, [weekly |-> w, calendars |-> {Meetings},
     events |-> {Event({"m"}, 18, 20, TRUE), Event({"m"}, 24, 24, TRUE), Event({"m"}, 14, 19, TRUE),
                 Event({"m"}, 26, 27, FALSE), Event({}, 29, 30, TRUE)}]) :
     z \in Zones, w \in {{Overnight}, {Noon}, {Overnight, Noon}}}

\* ------------------------------------------------------------- statistics
Record(start, end) == [start |-> start, end |-> end]

DayStories ==
  {Story("days", z, 18, 30, [records |-> r, days |-> 4]) :
     z \in Zones,
     r \in {<<Record(9, {15}), Record(13, {18}), Record(17, {})>>,
            <<Record(18, {26}), Record(20, {22}), Record(21, {19})>>}}

\* -------------------------------------------------------------- documents
At0(t) == [form |-> "local", at |-> t, zone |-> {}]
Line(name, value) == [name |-> name, value |-> value]

Meeting(start, rule, extra) ==
  <<Line("BEGIN", "VEVENT"), Line("UID", "u"), Line("DTSTART", start), Line("DURATION", 2),
    Line("BEGIN", "VALARM"), Line("DURATION", 9), Line("END", "VALARM"),
    Line("RRULE", rule)>> \o extra \o <<Line("END", "VEVENT")>>

Changed(from, lines) ==
  <<Line("BEGIN", "VEVENT"), Line("UID", "u"), Line("RECURRENCE-ID", At0(from))>> \o lines
    \o <<Line("END", "VEVENT")>>

Rule(freq, interval) ==
  [freq |-> freq, interval |-> interval, count |-> {}, until |-> {}, refused |-> FALSE,
   by_day |-> {}, by_month |-> {}, by_month_day |-> {}]

Rules == {Rule("DAILY", 1), Rule("DAILY", 3), Rule("WEEKLY", 2), Rule("MONTHLY", 1),
          Rule("MONTHLY", 2), [Rule("WEEKLY", 1) EXCEPT !.by_day = {4, 6}],
          [Rule("DAILY", 1) EXCEPT !.by_month_day = {-1}],
          [Rule("DAILY", 2) EXCEPT !.by_month = {2}]}

\* Moved ahead, out of reach and back, taken out and called off, and moved twice.
Exceptions ==
  {<<Line("EXDATE", {At0(25)})>>, <<Line("RDATE", {At0(19)})>>}

Moves ==
  {<<>>,
   Changed(17, <<Line("DTSTART", At0(30)), Line("DURATION", 1)>>)
     \o Changed(61, <<Line("DTSTART", At0(18)), Line("DURATION", 1)>>)
     \o Changed(29, <<Line("STATUS", "CANCELLED")>>),
   Changed(17, <<Line("DTSTART", At0(19)), Line("DURATION", 1)>>)
     \o Changed(17, <<Line("DTSTART", At0(30)), Line("DURATION", 1)>>)
     \o Changed(25, <<Line("STATUS", "CANCELLED")>>)
     \o Changed(25, <<Line("DTSTART", At0(26)), Line("DURATION", 1)>>)}

Feed(zone, start, document, rule) ==
  Story("feed", zone, 12, 32,
        [document |-> document, first |-> parse_time(start, zone), rule |-> rule])

Starts == {At0(13), At0(14), [form |-> "date", at |-> 3, zone |-> {}]}

FeedStories ==
  {Feed(z, t, Meeting(t, r, <<>>), {r}) : z \in Zones, t \in Starts, r \in Rules}
    \cup {Feed(z, At0(13), Meeting(At0(13), r, x) \o m, {}) :
            z \in Zones, x \in Exceptions, m \in Moves,
            r \in {Rule("DAILY", 1), [Rule("DAILY", 1) EXCEPT !.count = {4}],
                   [Rule("HOURLY", 5) EXCEPT !.until = {At0(31)}]}}

\* ------------------------------------------------------------------ rules
Every == {}
On(kind, name, action) ==
  [target |-> [kind |-> kind, name |-> name], action |-> action, platforms |-> Every]
Daily == [kind |-> "daily", at |-> 2]
Budget(n) == [kind |-> "budget", seconds |-> n, refill |-> Daily]

RuleSets ==
  {<<On("domain", <<"a", "com">>, Block), On("windows_exe", "editor", Budget(2))>>,
   <<On("domain", <<"com">>, Budget(2)), On("domain", <<"www", "a", "com">>, Block),
     On("url", "feed", Delay(3))>>,
   <<On("domain", <<"a", "com">>, Budget(2)), On("keyword", "game", Budget(1))>>,
   <<On("windows_exe", "editor", [kind |-> "allow_only"]), On("keyword", "game", Budget(1)),
     On("domain", <<"b", "com">>, [kind |-> "allow_only"])>>,
   <<On("whole_device", "", Budget(2)), On("notification_source", "chat", [kind |-> "mute_notifications"])>>}

Document(rules) ==
  [zone |-> Steady, profiles |-> <<[id |-> "p", name |-> "P", rules |-> rules]>>]

RuleStories ==
  {Story("rules", Steady, 21, 22, [active |-> {"p"}, config |-> Document(r)]) : r \in RuleSets}

MCObserved ==
  {Idle, Window("editor", {}), Window("editor", {"game"}), Window("other", {"game"}),
   Web(<<"a", "com">>, {}), Web(<<"www", "a", "com">>, {"feed"}), Web(<<"b", "com">>, {"feed", "game"}),
   Web(<<"aa", "com">>, {}), Web(<<"a", "com">>, {"game"}), Web(<<"m", "www", "a", "com">>, {}),
   Notice("chat", {}), App("editor", {})}

Keys == {<<"windows_exe", "editor">>, <<"keyword", "game">>, <<"domain", <<"a", "com">>>>,
         <<"domain", <<"com">>>>, <<"whole_device", "">>}
MCLedgers == [Keys -> {<<>>, <<[at |-> 21, seconds |-> 2]>>}]

\* ------------------------------------------------------------------ names
MCPatterns == UNION {[1..n -> {"a", "b", "*", "?"}] : n \in 0..3}
MCTexts == UNION {[1..n -> {"a", "b"}] : n \in 0..3}
MCDomains == {<<"a", "com">>, <<"www", "a", "com">>, <<"b", "org">>}
MCFiles ==
  {<<>>, <<Other("x")>>, <<Other("x"), BEGIN, Ours(<<"old">>), END, Other("y")>>,
   <<BEGIN, Ours(<<"old">>), Other("z"), END>>}

\* --------------------------------------------------------------- commands
Flags(verb, flags) == [verb |-> verb, flags |-> flags]
Said(x) == <<{x}>>
Unread == <<{}>>

Plan(rules) ==
  [zone |-> Steady,
   profiles |-> <<[id |-> "p", name |-> "P", rules |-> rules], [id |-> "q", name |-> "Q", rules |-> <<>>]>>,
   tokens |-> <<>>, calendars |-> <<>>, sources |-> <<[id |-> "s", location |-> "there", refresh |-> 2]>>,
   weekly |-> <<[id |-> "w", profile |-> "p", days |-> 0..4, start |-> 1, end |-> 3,
                 locks |-> {}, enabled |-> TRUE]>>,
   emergency |-> [window |-> 9, passes |-> 1, cooldown |-> 1]]

Site == Said(<<"a", "com">>)
Hours(id, profile, words, from, to) ==
  [id |-> Said(id), profile |-> Said(profile), days |-> Said(words), from |-> Said(from), to |-> Said(to)]

Commanded ==
  {Flags("block", [profile |-> Said("p"), site |-> Site]),
   Flags("block", [profile |-> Said("p"), exe |-> Said("editor"), on |-> Said("windows")]),
   Flags("block", [profile |-> Said("q"), app |-> Said("editor")]),
   Flags("block", [profile |-> Said("q"), app |-> Said("editor"), word |-> Said("game")]),
   Flags("block", [profile |-> Said("r"), title |-> Said("game")]),
   Flags("unblock", [profile |-> Said("p"), site |-> Site]),
   Flags("unblock", [profile |-> Said("p"), exe |-> Said("editor")]),
   Flags("add-profile", [id |-> Said("r")]), Flags("add-profile", [id |-> Said("p"), name |-> Said("")]),
   Flags("add-window", Hours("w", "q", <<"mon", "weekends">>, 3, 1)),
   Flags("add-window", Hours("v", "p", <<"weekdays">>, 1, 3)),
   Flags("add-window", Hours("s", "q", <<"sun", "every", "never">>, 2, 3)),
   Flags("add-window", Hours("y", "p", <<"weekdays">>, 0, 2)),
   Flags("add-window", Hours("x", "p", <<"never", "every">>, 2, 3)),
   Flags("add-calendar", ("id" :> Said("c")) @@ ("profile" :> Said("q")) @@ ("title" :> Said("m"))
                           @@ ("pad-before" :> Said(1)) @@ ("lock" :> Said("timer"))),
   Flags("add-calendar", [id |-> Said("c"), profile |-> Said("q"), timed |-> Said(""), lock |-> Unread]),
   Flags("add-source", [id |-> Said("c"), from |-> Said("here")]),
   [verb |-> "remove", id |-> "w"], [verb |-> "remove", id |-> "p"],
   [verb |-> "remove", id |-> "c"], [verb |-> "remove", id |-> "s"], [verb |-> "remove", id |-> "q"]}

Rewritten ==
  {On("domain", <<"a", "com">>, Delay(2)), On("domain", <<"com">>, Budget(2)),
   On("windows_exe", "editor", Budget(2)), On("windows_exe", "editor", Delay(1))}

EditStories ==
  {Story("edits", Steady, 20, 22,
         [config |-> Plan(rules), commands |-> <<first, second>>, edits |-> Rewritten, running |-> [p |-> from]]) :
     rules \in {<<>>, <<On("domain", <<"a", "com">>, Budget(2)), On("windows_exe", "editor", Block)>>},
     from \in {{}, {"w"}}, first \in Commanded, second \in Commanded}

MCStories ==
  EditStories \cup
  RefillStories \cup WeekStories \cup DayStories \cup FeedStories \cup RuleStories
    \cup {Story("names", Steady, 0, 0, <<>>)}
=============================================================================
