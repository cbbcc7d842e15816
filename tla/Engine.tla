-------------------------------- MODULE Engine --------------------------------
(***************************************************************************)
(* The rules: what they point at (target.rs), what they decide (engine.rs, *)
(* blocked.rs, the browsers of extension.rs), and the document they are    *)
(* kept in with its edits (config.rs).                                     *)
(*                                                                         *)
(* Everything compared without regard to case is written in lower case     *)
(* here.  A text is the set of the patterns and words it matches, so a     *)
(* pattern matches a text when it is one of them; Names has the matcher.   *)
(***************************************************************************)
EXTENDS Calendar, Names, Functions

CONSTANTS BROWSERS, Platforms

\* ---------------------------------------------------------- observations

Idle                  == [kind |-> "idle"]
Window(exe, title)    == [kind |-> "window", name |-> exe, text |-> title]
Web(host, url)        == [kind |-> "web", host |-> host, text |-> url]
App(package, screen)  == [kind |-> "app", name |-> package, text |-> screen]
Notice(package, title) == [kind |-> "notification", name |-> package, text |-> title]
Opened(path)          == [kind |-> "file", text |-> path]

\* The kind of observation a kind of target is about.
AboutKind ==
  [app_package |-> "app", app_screen |-> "app", windows_exe |-> "window",
   window_title |-> "window", domain |-> "web", url |-> "web", file_path |-> "file",
   notification_source |-> "notification"]

\* A target: [kind, name], and the screen of an app_screen.
key(target) == <<target.kind, target.name>>

matches(target, obs) ==
  CASE target.kind = "whole_device" -> obs.kind # "idle"
    [] target.kind = "keyword" -> obs.kind # "idle" /\ target.name \in obs.text
    [] target.kind \in DOMAIN AboutKind ->
         /\ obs.kind = AboutKind[target.kind]
         /\ CASE target.kind = "domain" -> domain_matches(target.name, obs.host)
              [] target.kind \in {"app_package", "windows_exe", "notification_source"} ->
                   target.name = obs.name
              [] target.kind = "app_screen" ->
                   target.name[1] = obs.name /\ target.name[2] \in obs.text
              [] OTHER -> target.name \in obs.text

\* -------------------------------------------------------------- decisions

\* A rule: [target, action, platforms]; an action: [kind] with the seconds,
\* the count and the refill it needs.
applies_to(rule, platform) == rule.platforms = {} \/ platform \in rule.platforms

ById(list, id) == {list[i] : i \in {i \in DOMAIN list : list[i].id = id}}

\* The rules of a profile; there is one with an id, or none.
RulesOf(config, id) ==
  UNION {Range(p.rules) : p \in ById(config.profiles, id)}

\* The same in their order.
RuleList(config, id) ==
  LET found == ById(config.profiles, id)
  IN  IF found = {} THEN <<>> ELSE (CHOOSE p \in found : TRUE).rules

\* The state of the world: [active, usage, launches, platform].
InForce(state, config) ==
  {pr \in UNION {{p} \X RulesOf(config, p) : p \in state.active} : applies_to(pr[2], state.platform)}

\* Seconds and opens since a window opened.
used_since(rollups, from) ==
  SumFunctionOnSet([i \in DOMAIN rollups |-> rollups[i].seconds],
                   {i \in DOMAIN rollups : \A f \in from : rollups[i].at >= f})

count_since(opens, from) == Len(SelectSeq(opens, LAMBDA t : \A f \in from : t >= f))

Recorded(ledger, k) == IF k \in DOMAIN ledger THEN ledger[k] ELSE <<>>

Exhausted(now, state, rule, zone) ==
  \/ /\ rule.action.kind = "budget"
     /\ used_since(Recorded(state.usage, key(rule.target)),
                   window_start(rule.action.refill, now, zone)) >= rule.action.seconds
  \/ /\ rule.action.kind = "launch_limit"
     /\ count_since(Recorded(state.launches, key(rule.target)),
                    window_start(rule.action.refill, now, zone)) >= rule.action.count

Allow      == [kind |-> "allow"]
Block      == [kind |-> "block"]
Mute       == [kind |-> "mute"]
Delay(n)   == [kind |-> "delay", seconds |-> n]

Hits(rules, obs, kind) == {r \in rules : r.action.kind = kind /\ matches(r.target, obs)}

LongestWait(delays) == IF delays = {} THEN Allow ELSE Delay(Max(delays))

Judged(now, state, obs, zone, rules) ==
  CASE obs.kind = "idle" -> Allow
    [] obs.kind = "notification" ->
         IF Hits(rules, obs, "block") \cup Hits(rules, obs, "mute_notifications") # {}
         THEN Mute ELSE Allow
    [] OTHER ->
         IF \/ Hits(rules, obs, "block") # {}
            \/ \E r \in rules : matches(r.target, obs) /\ Exhausted(now, state, r, zone)
            \/ (\E r \in rules : r.action.kind = "allow_only") /\ Hits(rules, obs, "allow_only") = {}
         THEN Block
         ELSE LongestWait({r.action.seconds : r \in Hits(rules, obs, "delay")})

\* Every rule in force is looked at, and the strictest answer wins.
decide(now, state, obs, config) ==
  Judged(now, state, obs, config.zone, {pr[2] : pr \in InForce(state, config)})

\* A mutant: only the first rule that matches is charged.
charged_keys_One(state, obs, config) ==
  LET all == {key(r.target) : r \in {pr[2] : pr \in {pr \in InForce(state, config) :
               /\ pr[2].action.kind \in {"budget", "launch_limit"}
               /\ matches(pr[2].target, obs)}}}
  IN  IF all = {} THEN {} ELSE {CHOOSE k \in all : TRUE}

\* The meters an observation is charged to.
charged_keys(state, obs, config) ==
  {key(r.target) : r \in {pr[2] : pr \in {pr \in InForce(state, config) :
     /\ pr[2].action.kind \in {"budget", "launch_limit"}
     /\ matches(pr[2].target, obs)}}}

\* The domains the hosts file is given: those of the profiles' rules, on any
\* platform, whose own front page is blocked.
blocked_domains(now, state, config) ==
  LET named == {r.target.name : r \in {r \in UNION {RulesOf(config, p) : p \in state.active} :
                                         r.target.kind = "domain"}}
  IN  {d \in named : decide(now, state, Web(d, {}), config) = Block}

is_browser(exe) == exe \in BROWSERS

\* Rules only an extension inside the browser can judge.
needs_extension(state, config) ==
  \E r \in UNION {RulesOf(config, p) : p \in state.active} : r.target.kind \in {"url", "keyword"}

\* -------------------------------------------------------------- documents

\* The first rule of a list for a target on given platforms.
Answering(rules, rule) ==
  LET Same(i) == key(rules[i].target) = key(rule.target) /\ rules[i].platforms = rule.platforms
  IN  {i \in DOMAIN rules : Same(i) /\ \A j \in DOMAIN rules : Same(j) => i <= j}

\* The rules of a profile that another document has no answer for, or
\* answers differently.
rules_weakened_by(config, next, profile) ==
  LET after == RuleList(next, profile)
  IN  {r \in RulesOf(config, profile) : ~\E i \in Answering(after, r) : after[i].action = r.action}

weakening_a_running_session(config, next, profiles) ==
  UNION {rules_weakened_by(config, next, p) : p \in profiles}

NoTwice(list) == \A i, j \in DOMAIN list : list[i].id = list[j].id => i = j

Named(list) == \A i \in DOMAIN list : list[i].id # ""

Sound(rule) ==
  /\ rule.action.kind = "budget" =>
       rule.action.seconds # 0
         /\ ~(rule.action.refill.kind = "rolling" /\ rule.action.refill.seconds = 0)
  /\ rule.action.kind = "launch_limit" => rule.action.count # 0

\* What is accepted when a document is loaded or edited.
validate(config) ==
  /\ \A list \in {config.profiles, config.tokens, config.weekly, config.calendars, config.sources} :
       NoTwice(list) /\ Named(list)
  /\ \A i \in DOMAIN config.profiles :
       /\ config.profiles[i].name # ""
       /\ \A r \in Range(config.profiles[i].rules) : Sound(r)
  /\ \A i \in DOMAIN config.tokens : config.tokens[i].fingerprint
  /\ \A s \in Range(config.weekly) \cup Range(config.calendars) :
       ById(config.profiles, s.profile) # {}
  /\ \A s \in Range(config.sources) : s.location # "" /\ s.refresh # 0
  /\ config.emergency.window # 0
  /\ config.emergency.passes > 0 => config.emergency.cooldown # 0
  /\ \A w \in Range(config.weekly) :
       w.start < DAY /\ w.end < DAY /\ w.start # w.end /\ w.days \subseteq 0..6

\* An edit that does not stand up leaves the document as it was.
Unless(valid, before) == IF validate(valid) THEN valid ELSE before

\* An item takes the place of the first with its id, or joins the list.
Put(list, item) ==
  LET at == {i \in DOMAIN list : list[i].id = item.id}
  IN  IF at = {} THEN Append(list, item) ELSE [list EXCEPT ![Min(at)] = item]

\* The items of a list that are kept, in their order.
Only(list, good) ==
  LET kept == {i \in DOMAIN list : list[i] \in good}
      Before(i) == Cardinality({j \in kept : j <= i})
  IN  [n \in 1..Cardinality(kept) |-> list[CHOOSE i \in kept : Before(i) = n]]

Drop(list, id) == Only(list, {x \in Range(list) : x.id # id})

WithRules(config, id, Edit(_)) ==
  LET of == config.profiles
  IN  [config EXCEPT !.profiles =
         [i \in DOMAIN of |->
            IF of[i].id = id THEN [of[i] EXCEPT !.rules = Edit(of[i].rules)] ELSE of[i]]]

with_rule(config, profile, rule) ==
  LET Edit(rules) ==
        LET same == Answering(rules, rule)
        IN  IF same = {} THEN Append(rules, rule) ELSE [rules EXCEPT ![Min(same)] = rule]
  IN  WithRules(config, profile, Edit)

upsert_rule(config, profile, rule) == Unless(with_rule(config, profile, rule), config)

\* Removing is not validated.
remove_rule(config, profile, target) ==
  LET Edit(rules) == Only(rules, {r \in Range(rules) : key(r.target) # key(target)})
  IN  WithRules(config, profile, Edit)

\* The rules an app picker owns: plain blocks and budgets of apps, on every
\* platform.
Picked(rule) ==
  rule.target.kind = "app_package" /\ rule.action.kind \in {"block", "budget"} /\ rule.platforms = {}

\* The picker's answer replaces its rules and keeps their budgets.  Unlike
\* the other edits this one is not taken back when it does not stand up.
set_blocked_apps(config, profile, packages) ==
  LET Edit(rules) ==
        LET Kept(p) == {i \in DOMAIN rules : Picked(rules[i]) /\ rules[i].target.name = p
                                              /\ rules[i].action.kind = "budget"}
            Rule(p) == [target |-> [kind |-> "app_package", name |-> p],
                        action |-> IF Kept(p) = {} THEN [kind |-> "block"]
                                   ELSE rules[Min(Kept(p))].action,
                        platforms |-> {}]
        IN  Only(rules, {r \in Range(rules) : ~Picked(r)}) \o SetToSeq({Rule(p) : p \in packages})
  IN  WithRules(config, profile, Edit)

blocked_apps(config, profile) ==
  {r.target.name : r \in {r \in RulesOf(config, profile) : Picked(r)}}

with_profile(config, id, name) ==
  [config EXCEPT !.profiles = Put(@, [id |-> id, name |-> name, rules |-> RuleList(config, id)])]

upsert_profile(config, id, name) == Unless(with_profile(config, id, name), config)

\* Refused while a schedule names it.
remove_profile(config, id) ==
  IF \E s \in Range(config.weekly) \cup Range(config.calendars) : s.profile = id
  THEN config ELSE [config EXCEPT !.profiles = Drop(@, id)]

\* A new window that is the same as another one is not stored.
with_weekly(config, window) ==
  LET Same(w) == /\ w.profile = window.profile /\ w.days = window.days
                 /\ w.start = window.start /\ w.end = window.end
  IN  IF ById(config.weekly, window.id) = {} /\ \E w \in Range(config.weekly) : Same(w)
      THEN config ELSE [config EXCEPT !.weekly = Put(@, window)]

with_calendar(config, rule)   == [config EXCEPT !.calendars = Put(@, rule)]
with_source(config, source)   == [config EXCEPT !.sources = Put(@, source)]
upsert_weekly(config, window) == Unless(with_weekly(config, window), config)
upsert_calendar(config, rule) == Unless(with_calendar(config, rule), config)
remove_weekly(config, id)     == [config EXCEPT !.weekly = Drop(@, id)]
remove_calendar(config, id)   == [config EXCEPT !.calendars = Drop(@, id)]
remove_source(config, id)     == [config EXCEPT !.sources = Drop(@, id)]
=============================================================================
