------------------------------- MODULE Commands -------------------------------
(***************************************************************************)
(* The commands of curfew that edit the document, and the one that tries   *)
(* it out (schedule.rs and lib.rs of curfew-cli), with the question the    *)
(* program asks of a running service before it removes anything (main.rs   *)
(* of curfew-svc).                                                         *)
(*                                                                         *)
(* The flags of a command are a function from their names to the values    *)
(* given, in order, each of them the set of what it reads as: {} when it   *)
(* does not read.  What a command makes is in a set too, {} when it is     *)
(* refused.                                                                *)
(***************************************************************************)
EXTENDS Engine

CONSTANT DEFAULT_REFRESH   \* how long a subscription is good for, if it is not said

\* ------------------------------------------------------------------ flags

\* The first value given, or the default; the first if there is one; all of them.
one(flags, name, default) == IF name \in DOMAIN flags THEN flags[name][1] ELSE default
required(flags, name)     == one(flags, name, {})
optional(flags, name)     == IF name \in DOMAIN flags THEN {{v} : v \in flags[name][1]} ELSE {{}}
all(flags, name) ==
  IF name \notin DOMAIN flags THEN {{}}
  ELSE IF {} \in Range(flags[name]) THEN {} ELSE {UNION Range(flags[name])}

Known(flags, names) == DOMAIN flags \subseteq names

DayWords ==
  [mon |-> {0}, tue |-> {1}, wed |-> {2}, thu |-> {3}, fri |-> {4}, sat |-> {5}, sun |-> {6},
   weekdays |-> 0..4, weekends |-> {5, 6}]

\* Every day, as soon as some word says so; words that name no day are refused.
read_days(words) ==
  LET EveryDay == {i \in DOMAIN words : words[i] = "every"}
      Read == IF EveryDay = {} THEN words ELSE SubSeq(words, 1, Min(EveryDay) - 1)
  IN  IF ~Range(Read) \subseteq DOMAIN DayWords THEN {}
      ELSE IF EveryDay # {} THEN {{}}
      ELSE {UNION {DayWords[w] : w \in Range(words)}}

\* What each selector points at.
SELECTORS ==
  [app |-> "app_package", exe |-> "windows_exe", site |-> "domain", url |-> "url",
   title |-> "window_title", word |-> "keyword"]

\* Just one selector, with something to match.
target(flags) ==
  LET chosen == DOMAIN flags \cap DOMAIN SELECTORS
  IN  {[kind |-> SELECTORS[s], name |-> v] :
         s \in {s \in chosen : chosen = {s}}, v \in UNION {required(flags, s) : s \in chosen}}

platforms(flags) == {p \in all(flags, "on") : p \subseteq Platforms}

\* --------------------------------------------------------------- commands

\* An edit that does not stand up is not saved.
Saved(edited) == {c \in edited : validate(c)}

WindowOf(flags) ==
  IF ~Known(flags, {"id", "profile", "from", "to", "days", "lock"}) THEN {}
  ELSE {[id |-> i, profile |-> p, days |-> d, start |-> s, end |-> e, locks |-> l, enabled |-> TRUE] :
          i \in required(flags, "id"), p \in required(flags, "profile"),
          d \in UNION {read_days(words) : words \in one(flags, "days", {<<"every">>})},
          s \in required(flags, "from"), e \in required(flags, "to"), l \in all(flags, "lock")}

add_window(config, flags) == Saved({with_weekly(config, w) : w \in WindowOf(flags)})

MatcherOf(flags) ==
  {[busy_only |-> "busy-only" \in DOMAIN flags,
    all_day |-> IF "all-day" \in DOMAIN flags THEN {TRUE}
                ELSE IF "timed" \in DOMAIN flags THEN {FALSE} ELSE {},
    title |-> one(flags, "title", {}), location |-> one(flags, "location", {}),
    calendar |-> one(flags, "calendar", {}), categories |-> k,
    at_least |-> least, at_most |-> most] :
     k \in all(flags, "category"),
     least \in optional(flags, "longer-than"), most \in optional(flags, "shorter-than")}

\* An event is not all-day and timed.
CalendarOf(flags) ==
  IF \/ {"all-day", "timed"} \subseteq DOMAIN flags
     \/ ~Known(flags, {"id", "profile", "title", "calendar", "location", "category", "busy-only", "all-day",
                       "timed", "pad-before", "pad-after", "shorter-than", "longer-than", "lock"})
  THEN {}
  ELSE {[id |-> i, profile |-> p, matcher |-> m, pad_before |-> b, pad_after |-> a,
         locks |-> l, enabled |-> TRUE] :
          i \in required(flags, "id"), p \in required(flags, "profile"), m \in MatcherOf(flags),
          b \in one(flags, "pad-before", {0}), a \in one(flags, "pad-after", {0}),
          l \in all(flags, "lock")}

add_calendar(config, flags) == Saved({with_calendar(config, c) : c \in CalendarOf(flags)})

\* Its name is its id, if it is given none.
add_profile(config, flags) ==
  IF ~Known(flags, {"id", "name", "description"}) THEN {}
  ELSE Saved({with_profile(config, i, n) :
                i \in required(flags, "id"), n \in one(flags, "name", required(flags, "id"))})

add_source(config, flags) ==
  IF ~Known(flags, {"id", "from", "refresh"}) THEN {}
  ELSE Saved({with_source(config, [id |-> i, location |-> l, refresh |-> r]) :
                i \in required(flags, "id"), l \in required(flags, "from"),
                r \in one(flags, "refresh", {DEFAULT_REFRESH})})

\* A profile the flags name, if there is one.
Profile(config, flags) == {p \in required(flags, "profile") : ById(config.profiles, p) # {}}

block(config, flags) ==
  IF ~Known(flags, {"profile", "on"} \cup DOMAIN SELECTORS) THEN {}
  ELSE Saved({with_rule(config, p, [target |-> t, action |-> Block, platforms |-> on]) :
                p \in Profile(config, flags), t \in target(flags), on \in platforms(flags)})

\* Refused when there was nothing to take away; nothing else is looked at.
unblock(config, flags) ==
  IF ~Known(flags, {"profile"} \cup DOMAIN SELECTORS) THEN {}
  ELSE {remove_rule(config, p, t) : p \in Profile(config, flags), t \in target(flags)} \ {config}

\* Whatever carries the id, but the profile first, which a schedule may need.
remove(config, id) ==
  IF ById(config.profiles, id) # {} /\ remove_profile(config, id) = config THEN {}
  ELSE LET rest == remove_source(remove_calendar(remove_weekly(remove_profile(config, id), id), id), id)
       IN  {rest} \ {config}

run(config, c) ==
  CASE c.verb = "add-profile"  -> add_profile(config, c.flags)
    [] c.verb = "add-window"   -> add_window(config, c.flags)
    [] c.verb = "add-calendar" -> add_calendar(config, c.flags)
    [] c.verb = "add-source"   -> add_source(config, c.flags)
    [] c.verb = "block"        -> block(config, c.flags)
    [] c.verb = "unblock"      -> unblock(config, c.flags)
    [] c.verb = "remove"       -> remove(config, c.id)

removal_target(c) == IF c.verb = "remove" THEN {c.id} ELSE {}

\* What stops a removal: sessions that the schedule of that name started.
\* from is the schedule each running profile was started by, if by one.
removal_refusal(from, c) == {p \in DOMAIN from : from[p] \cap removal_target(c) # {}}

\* The document after a command, given what runs.
main(config, from, c) ==
  LET done == IF removal_refusal(from, c) # {} THEN {} ELSE run(config, c)
  IN  IF done = {} THEN config ELSE CHOOSE d \in done : TRUE

\* ------------------------------------------------------------ trying it out

\* What the engine is shown for a kind of thing, and where it is seen.
parse_target(kind, name) ==
  CASE kind = "app"   -> [obs |-> App(name, {}), platform |-> "android"]
    [] kind = "exe"   -> [obs |-> Window(name, {}), platform |-> "windows"]
    [] kind = "title" -> [obs |-> Window("", {name}), platform |-> "windows"]
    [] kind = "site"  -> [obs |-> Web(name, {}), platform |-> "browser"]

\* With nothing used, in a profile of the document.
run_decide(config, profile, kind, name, at) ==
  LET asked == parse_target(kind, name)
  IN  decide(at, [active |-> {profile}, usage |-> <<>>, launches |-> <<>>, platform |-> asked.platform],
             asked.obs, config)
=============================================================================
