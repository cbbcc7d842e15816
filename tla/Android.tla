------------------------------- MODULE Android -------------------------------
(***************************************************************************)
(* The core as the phone holds it: the Curfew object of curfew-ffi lib.rs, *)
(* the pass of its sync.rs, and the Kotlin that calls them.  Calls that    *)
(* change sessions or the document queue at one gate and write their rows  *)
(* before it opens again.  The pass of sync and the reading of the clocks  *)
(* run outside the gate, and the process may be killed between any two     *)
(* steps.                                                                  *)
(*                                                                         *)
(* The wall clock is not moved here, and what the pass makes of the other  *)
(* devices' sessions is Mirror's subject: it only adopts here.  A call     *)
(* that is refused changes nothing and is no step.                         *)
(***************************************************************************)
EXTENDS Sessions, Engine

CONSTANTS
  Claimable,      \* conditions the caller is the only witness to
  ReleasedBy,     \* [condition -> device]: Lock::PeerRelease
  Me,             \* this device
  Targets,        \* what the rules point at
  Zones,          \* the zones a document may be kept in
  PROOF_SECONDS,
  Blank,          \* the document of a phone that cannot read its own
  Starter,        \* the profile it is given then
  Observed,       \* what may be in front
  Ledgers,        \* what may have been used
  Stories

\* What is in a document.
Refill ==
  [kind : {"never"}] \cup [kind : {"rolling"}, seconds : Nat] \cup [kind : {"daily"}, at : Nat]
    \cup [kind : {"weekly"}, day : 0..6, at : Nat] \cup [kind : {"monthly"}, day : Nat, at : Nat]

Action ==
  [kind : {"block", "allow_only", "mute_notifications"}]
    \cup [kind : {"delay"}, seconds : Nat]
    \cup [kind : {"budget"}, seconds : Nat, refill : Refill]
    \cup [kind : {"launch_limit"}, count : Nat, refill : Refill]

Rule == [target : Targets, action : Action, platforms : SUBSET Platforms]
Profile == [id : Profiles, name : STRING, rules : Seq(Rule)]
Weekly ==
  [id : STRING, profile : Profiles, days : SUBSET Nat, start : Nat, end : Nat, enabled : BOOLEAN,
   locks : SUBSET Conditions]
Matcher ==
  [busy_only : BOOLEAN, all_day : SUBSET BOOLEAN, title : SUBSET STRING, location : SUBSET STRING,
   calendar : SUBSET STRING, categories : SUBSET STRING, at_least : SUBSET Nat, at_most : SUBSET Nat]
CalendarRule ==
  [id : STRING, profile : Profiles, matcher : Matcher, pad_before : Nat, pad_after : Nat,
   enabled : BOOLEAN, locks : SUBSET Conditions]
Document ==
  [profiles : Seq(Profile), weekly : Seq(Weekly), calendars : Seq(CalendarRule),
   sources : Seq([id : STRING, location : STRING, refresh : Nat]),
   tokens : Seq([id : Conditions, fingerprint : BOOLEAN]),
   emergency : [window : Nat, passes : Nat, cooldown : Nat], zone : Zones]

\* What a screen asks for.
Edits ==
  [op : {"rule"}, profile : Profiles, rule : Rule]
    \cup [op : {"unrule"}, profile : Profiles, target : Targets]
    \cup [op : {"profile"}, id : Profiles, name : STRING]
    \cup [op : {"unprofile"}, id : Profiles]
    \cup [op : {"weekly"}, window : Weekly] \cup [op : {"calendar"}, rule : CalendarRule]
    \cup [op : {"unweekly", "uncalendar"}, id : STRING]
    \cup [op : {"apps"}, profile : Profiles, packages : SUBSET STRING]
    \cup [op : {"document"}, config : Document]

Event ==
  [title : SUBSET STRING, calendar : STRING, place : SUBSET STRING, start : Int, end : Int,
   all_day : BOOLEAN, busy : BOOLEAN, categories : SUBSET STRING]

Asked == [profile : Profiles, seconds : Nat, locks : SUBSET Conditions]

\* config: the document at first; edits: what the screens may do to it; asks: what may be started by
\* hand; comes: what another device runs; events: the calendar's; does: the kinds of things that
\* happen, acts times at most; until: the last instant
Story == [config : Document, edits : SUBSET Edits, asks : SUBSET Asked, comes : SUBSET Asked,
          events : SUBSET Event, does : SUBSET STRING, acts : Nat, until : Nat]

ASSUME AndroidAssumption ==
  /\ PROOF_SECONDS \in Nat \ {0}
  /\ Claimable \cup DOMAIN ReleasedBy \subseteq Conditions
  /\ Blank \in Document /\ Blank.profiles = <<>> /\ Starter \in Profile
  /\ \A z \in Zones :
       /\ IsFiniteSet(DOMAIN z) /\ DOMAIN z # {} /\ DOMAIN z \subseteq Int
       /\ \A m \in DOMAIN z : z[m] \in Int
  /\ Stories \subseteq Story
  /\ \A s \in Stories :
       /\ validate(s.config) /\ IsFiniteSet(s.events)
       /\ \A e \in s.edits : e.op = "apps" =>
            /\ IsFiniteSet(e.packages)
            /\ \A p \in e.packages : [kind |-> "app_package", name |-> p] \in Targets

VARIABLES
  story,
  now, uptime,  \* trusted time, and the seconds since the phone was switched on
  acts,
  config,       \* the document
  draft,        \* a document a screen has made of it and not given back yet, {} when there is none
  sessions,
  source,       \* [session -> the schedule it was started from, {} when it was started by hand]
  proofs,       \* {[id, lock, at]}
  releases,     \* the sessions this device has released
  released,     \* pairs <<session, device>> that it knows of
  knows_me,     \* it knows its own name
  passes,       \* the instants of emergency passes
  boots,        \* [session -> the boot it was first seen in]
  counter,      \* [last_uptime, boot_id]
  beat,         \* the service has read the clocks, and not yet written what it made of them
  pending,      \* the rows the call inside the gate still has to write
  sync,         \* how far the pass of sync is: [at, passes, released]
  log,          \* the log: [passes, released]
  disk,         \* what is written: [config, sessions, passes, boots, releases, log]
  history       \* what really happened, see History

memory  == <<config, sessions, source, proofs, releases, released, knows_me, passes, boots,
             counter, beat>>
outside == <<story, uptime>>
vars    == <<outside, now, acts, draft, memory, pending, sync, log, disk, history>>

\* checked: conditions shown to the phone; born: [session -> the number of the boot it came in];
\* boot: that number; spent: instants of the passes spent here, taken: how many there were;
\* deaths: how often the process died
History == [checked : SUBSET [id : Ids, lock : Conditions, at : Nat],
            born : UNION {[S -> Nat] : S \in SUBSET Ids},
            boot : Nat, spent : SUBSET Nat, taken : Nat, deaths : Nat]

Nothing == <<>>
AtRest == [at |-> "rest", passes |-> {}, released |-> {}]

SetAt(f, keys, v) == [x \in DOMAIN f \cup keys |-> IF x \in keys THEN v ELSE f[x]]

Init ==
  /\ story \in Stories
  /\ now = 0 /\ uptime = 0 /\ acts = 0
  /\ config = story.config /\ draft = {}
  /\ sessions = Default /\ source = Nothing
  /\ proofs = {} /\ releases = {} /\ released = {} /\ knows_me = FALSE
  /\ passes = {} /\ boots = Nothing /\ counter = [last_uptime |-> 0, boot_id |-> 0] /\ beat = FALSE
  /\ pending = <<>> /\ sync = AtRest /\ log = [passes |-> {}, released |-> {}]
  /\ disk = [config |-> config, sessions |-> [running |-> sessions, source |-> source],
             passes |-> {}, boots |-> [seen |-> boots, counter |-> counter], releases |-> {},
             log |-> log]
  /\ history = [checked |-> {}, born |-> Nothing, boot |-> 0, spent |-> {}, taken |-> 0, deaths |-> 0]

\* ------------------------------------------------------------ what is asked

\* What the schedules say should run, in the order they are read.
Windows(at, events) ==
  LET From(list, before, found(_)) ==
        UNION {{[profile |-> a.profile, start |-> a.span[1], end |-> a.span[2],
                 locks |-> list[i].locks, schedule |-> list[i].id, place |-> before + i] :
                  a \in {a \in found(list[i]) : Inside(a.span, at)}} : i \in DOMAIN list}
  IN  From(config.weekly, 0, LAMBDA w : WeeklyAt(w, at, config.zone))
        \cup From(config.calendars, Len(config.weekly), LAMBDA c : Activations(c, events))

active_profiles(at) == {s.profile : s \in {s \in sessions.running : ~IsExpired(s.lock, at)}}

World(active, used) ==
  [active |-> active, usage |-> used, launches |-> Nothing, platform |-> "android"]

\* Whether the rules that run read the use at all; when not, it is not fetched.
has_metered_rules(at) ==
  \E r \in UNION {RulesOf(config, p) : p \in active_profiles(at)} :
    r.action.kind \in {"budget", "launch_limit"}

\* A mutant: only the plan is asked.
next_change_ByPlan(at, events) ==
  next_change_after(at, config.zone, Range(config.weekly), Range(config.calendars), events)

\* The next instant the phone has to wake for: of the plan, or the end of a session.
next_change(at, events) ==
  LET ends  == UNION {{s.lock.ends_at, s.lock.delayed_release_at} : s \in sessions.running} \ {None}
      later == {t \in ends : t > at}
                 \cup next_change_after(at, config.zone, Range(config.weekly),
                                        Range(config.calendars), events)
  IN  IF later = {} THEN {} ELSE {Min(later)}

\* The sessions a schedule has started.
running_from(schedule) == {s \in sessions.running : schedule \in source[s.id]}

\* ---------------------------------------------------------------- evidence

Fresh(q, at) == q.at <= at /\ at - q.at < PROOF_SECONDS

Proven(id, at) ==
  {q.lock : q \in {q \in proofs : q.id = id /\ Fresh(q, at)}}
    \cup (IF id \in DOMAIN boots /\ boots[id] # counter.boot_id THEN {"restart"} ELSE {})
    \cup {c \in DOMAIN ReleasedBy : <<id, ReleasedBy[c]>> \in released}

\* The tag a payload is of, if the document has it.
identify(tokens, payload) == {t.id : t \in {t \in Range(tokens) : t.id = payload}}

CanSpend(at) ==
  LET recent == {p \in passes : p > at - config.emergency.window} IN
  /\ config.emergency.passes > Cardinality(recent)
  /\ \A p \in recent : at >= p + config.emergency.cooldown

\* ---------------------------------------------------------------- the gate

\* The rows every call that changes a session writes, in their order.
Persisted == <<"sessions", "passes", "boots">>

Enter(rows) == pending = <<>> /\ pending' = rows

Does(kind) ==
  /\ kind \in story.does /\ acts < story.acts
  /\ acts' = acts + 1

Undisturbed == UNCHANGED <<outside, now, draft, sync, log, disk>>

\* Sessions that are new are in the boot they came in.
Remember(next) ==
  SetAt(history.born, RunningIds(next) \ DOMAIN history.born, history.boot)

\* A mutant: whatever the caller says is taken.
Witnessed_Anything(claimed) == claimed

\* What a caller may be believed.
Witnessed(claimed) == claimed \cap Claimable

Finish(id, satisfied, shown) ==
  /\ sessions' = End(sessions, id, now, satisfied)
  /\ proofs' = IF CanEnd(sessions, id, now, satisfied) THEN {q \in shown : q.id # id} ELSE shown

StartSession(ask) ==
  LET id == <<ask.profile, 100 + acts>>
      S  == Start(sessions, [id |-> id, profile |-> ask.profile, started_at |-> now,
                             lock |-> LockOf(ask.locks, now + ask.seconds)])
  IN
  /\ Does("start") /\ Enter(Persisted)
  /\ sessions' = S
  /\ source' = SetAt(source, {id} \cap RunningIds(S), {})
  /\ history' = [history EXCEPT !.born = Remember(S)]
  /\ Undisturbed
  /\ UNCHANGED <<config, proofs, releases, released, knows_me, passes, boots, counter, beat>>

EndSession(id, claimed) ==
  LET satisfied == Witnessed(claimed) \cup Proven(id, now) IN
  /\ Does("end") /\ CanEnd(sessions, id, now, satisfied) /\ Enter(Persisted)
  /\ Finish(id, satisfied, proofs)
  /\ Undisturbed
  /\ UNCHANGED <<config, source, releases, released, knows_me, passes, boots, counter, beat, history>>

Recorded_(id, lock) ==
  {q \in proofs : ~(q.id = id /\ q.lock = lock)} \cup {[id |-> id, lock |-> lock, at |-> now]}

Checked(id, lock) ==
  [history EXCEPT !.checked = {q \in @ : ~(q.id = id /\ q.lock = lock)}
                                \cup {[id |-> id, lock |-> lock, at |-> now]}]

RecordCredential(id) ==
  /\ Does("credential") /\ Enter(<<>>)
  /\ proofs' = Recorded_(id, "credential")
  /\ history' = Checked(id, "credential")
  /\ Undisturbed
  /\ UNCHANGED <<config, sessions, source, releases, released, knows_me, passes, boots, counter, beat>>

\* A tag that is not enough is remembered, and nothing is written.
ScanToken(id, payload) ==
  LET tags  == identify(config.tokens, payload)
      shown == IF tags = {} THEN proofs ELSE Recorded_(id, payload)
      satisfied == Proven(id, now) \cup tags
  IN
  /\ Does("scan")
  /\ Enter(IF CanEnd(sessions, id, now, satisfied) THEN Persisted ELSE <<>>)
  /\ Finish(id, satisfied, shown)
  /\ history' = IF tags = {} THEN history ELSE Checked(id, payload)
  /\ Undisturbed
  /\ UNCHANGED <<config, source, releases, released, knows_me, passes, boots, counter, beat>>

\* The release is for good, and opens the lock here when it is this device's.
ReleasePeer(id) ==
  LET opens == IF knows_me THEN {c \in DOMAIN ReleasedBy : ReleasedBy[c] = Me} ELSE {} IN
  /\ Does("release") /\ Enter(<<"releases">> \o Persisted)
  /\ releases' = releases \cup {id}
  /\ released' = IF knows_me THEN released \cup {<<id, Me>>} ELSE released
  /\ IF knows_me THEN Finish(id, Proven(id, now) \cup opens, proofs)
                 ELSE UNCHANGED <<sessions, proofs>>
  /\ Undisturbed
  /\ UNCHANGED <<config, source, knows_me, passes, boots, counter, beat, history>>

RequestTheRelease(id) ==
  /\ Does("ask") /\ Running(sessions, id) # {} /\ Enter(Persisted)
  /\ sessions' = AskRelease(sessions, id, now)
  /\ Undisturbed
  /\ UNCHANGED <<config, source, proofs, releases, released, knows_me, passes, boots, counter, beat,
                 history>>

\* The pass is spent before the session is looked at, and is written last.
SpendPass(id) ==
  /\ Does("pass") /\ CanSpend(now) /\ Enter(Persisted)
  /\ passes' = passes \cup {now}
  /\ sessions' = End(sessions, id, now, UNION {s.lock.conditions : s \in Running(sessions, id)})
  /\ history' = [history EXCEPT !.spent = @ \cup {now}, !.taken = @ + 1]
  /\ Undisturbed
  /\ UNCHANGED <<config, source, proofs, releases, released, knows_me, boots, counter, beat>>

\* Sessions brought into line with the schedules, and those that are over dropped.
Reconciled(events) ==
  LET windows == Windows(now, events)
      S == Reconcile(sessions, now, windows, [p \in Profiles |-> <<p, now>>])
      First(p) == CHOOSE w \in {w \in Due(sessions, now, windows) : w.profile = p} :
                    \A v \in Due(sessions, now, windows) : v.profile = p => w.place <= v.place
  IN
  /\ sessions' = Reap(S, now)
  /\ source' = [id \in DOMAIN source \cup RunningIds(S) |->
                  IF id \in RunningIds(S) \ RunningIds(sessions)
                  THEN {First(id[1]).schedule} ELSE source[id]]
  /\ history' = [history EXCEPT !.born = Remember(S)]

\* A tick reads the clocks, outside the gate; so does a screen, which leaves the rest to the tick,
Observe ==
  LET n == IF counter.boot_id = 0 \/ uptime < counter.last_uptime
           THEN counter.boot_id + 1 ELSE counter.boot_id
  IN
  /\ "beat" \in story.does
  /\ counter' = [last_uptime |-> uptime, boot_id |-> n]
  /\ boots' = [id \in RunningIds(sessions) |-> IF id \in DOMAIN boots THEN boots[id] ELSE n]
  /\ beat' \in {beat, TRUE}
  /\ UNCHANGED <<outside, now, acts, draft, config, sessions, source, proofs, releases, released,
                 knows_me, passes, pending, sync, log, disk, history>>

\* and then writes the boots, as they are by then.
WriteBoots ==
  /\ beat /\ beat' = FALSE
  /\ disk' = [disk EXCEPT !.boots = [seen |-> boots, counter |-> counter]]
  /\ UNCHANGED <<outside, now, acts, draft, config, sessions, source, proofs, releases, released,
                 knows_me, passes, boots, counter, pending, sync, log, history>>

Tick ==
  /\ Enter(Persisted)
  /\ Reconciled(story.events)
  /\ UNCHANGED <<outside, now, acts, draft, config, proofs, releases, released, knows_me, passes,
                 boots, counter, beat, sync, log, disk>>

\* ------------------------------------------------------------------- edits

\* A mutant: what a running session would lose is not looked for.
Unweakened_Unchecked(next) == TRUE

\* refuse_weakening.
Unweakened(next) == weakening_a_running_session(config, next, RunningProfiles(sessions)) = {}

\* An accepted edit is acted on before the gate opens again.
Committed == <<"config", "reconcile">> \o Persisted

Adopt(next, rows) ==
  /\ Does("edit") /\ next # config /\ Enter(rows)
  /\ config' = next
  /\ UNCHANGED <<outside, now, draft, sync, log, disk, sessions, source, proofs, releases, released,
                 knows_me, passes, boots, counter, beat, history>>

UpsertRule(e) ==
  LET next == upsert_rule(config, e.profile, e.rule) IN
  e.op = "rule" /\ Unweakened(next) /\ Adopt(next, Committed)

RemoveRule(e) ==
  LET next == remove_rule(config, e.profile, e.target) IN
  e.op = "unrule" /\ Unweakened(next) /\ Adopt(next, Committed)

RemoveProfile(e) ==
  LET next == remove_profile(config, e.id) IN
  e.op = "unprofile" /\ Unweakened(next) /\ Adopt(next, Committed)

UpsertProfile(e)  == e.op = "profile" /\ Adopt(upsert_profile(config, e.id, e.name), Committed)
UpsertWeekly(e)   == e.op = "weekly" /\ Adopt(upsert_weekly(config, e.window), Committed)
UpsertCalendar(e) == e.op = "calendar" /\ Adopt(upsert_calendar(config, e.rule), Committed)

\* A schedule that a running session came from is not removed.
RemoveWeekly(e) ==
  e.op = "unweekly" /\ running_from(e.id) = {} /\ Adopt(remove_weekly(config, e.id), Committed)

RemoveCalendar(e) ==
  e.op = "uncalendar" /\ running_from(e.id) = {} /\ Adopt(remove_calendar(config, e.id), Committed)

\* A screen makes a document of the one it reads; the app picker's answer, or an imported one.
Draft(e) ==
  /\ e.op \in {"apps", "document"} /\ "edit" \in story.does /\ draft = {}
  /\ draft' = {IF e.op = "apps" THEN set_blocked_apps(config, e.profile, e.packages) ELSE e.config}
  /\ UNCHANGED <<outside, now, acts, memory, pending, sync, log, disk, history>>

\* And gives it back at the gate, where it is refused or taken whole.
SetConfig ==
  /\ pending = <<>> /\ draft # {}
  /\ draft' = {}
  /\ IF (\A d \in draft : validate(d) /\ Unweakened(d)) /\ acts < story.acts
     THEN config' \in draft /\ pending' = <<"config">> /\ acts' = acts + 1
     ELSE UNCHANGED <<config, pending, acts>>
  /\ UNCHANGED <<outside, now, sync, log, disk, sessions, source, proofs, releases, released,
                 knows_me, passes, boots, counter, beat, history>>

Edit ==
  \E e \in story.edits :
    \/ UpsertRule(e) \/ RemoveRule(e) \/ UpsertProfile(e) \/ RemoveProfile(e)
    \/ UpsertWeekly(e) \/ RemoveWeekly(e) \/ UpsertCalendar(e) \/ RemoveCalendar(e) \/ Draft(e)

\* ------------------------------------------------------------ rows and sync

\* The next row, as it is now.  An edit is acted on without the calendar's events.
Put_ ==
  /\ pending # <<>>
  /\ pending' = Tail(pending)
  /\ LET row == Head(pending) IN
     /\ disk' = CASE row = "config" -> [disk EXCEPT !.config = config]
                  [] row = "sessions" ->
                       [disk EXCEPT !.sessions = [running |-> sessions, source |-> source]]
                  [] row = "passes" -> [disk EXCEPT !.passes = passes]
                  [] row = "boots" -> [disk EXCEPT !.boots = [seen |-> boots, counter |-> counter]]
                  [] row = "releases" -> [disk EXCEPT !.releases = releases]
                  [] row = "reconcile" -> disk
     /\ IF row = "reconcile" THEN Reconciled({}) ELSE UNCHANGED <<sessions, source, history>>
  /\ UNCHANGED <<outside, now, acts, draft, config, proofs, releases, released, knows_me, passes,
                 boots, counter, beat, sync, log>>

\* The document may be refused, or not be written: the phone goes by it all the same, and nothing
\* else of the call is done.
RefuseConfig ==
  /\ "refuse" \in story.does
  /\ pending # <<>> /\ Head(pending) = "config" /\ pending' = <<>>
  /\ UNCHANGED <<outside, now, acts, draft, memory, sync, log, disk, history>>

\* Another device gives a release the log brings, and the log may be saved with it.
PeerReleases(id, device) ==
  /\ Does("peer")
  /\ log' = [log EXCEPT !.released = @ \cup {<<id, device>>}]
  /\ disk' \in {disk, [disk EXCEPT !.log = log']}
  /\ UNCHANGED <<outside, now, draft, memory, pending, sync, history>>

\* The pass: the passes go out,
SyncPublish ==
  /\ "sync" \in story.does /\ sync.at = "rest"
  /\ log' = [log EXCEPT !.passes = @ \cup passes]
  /\ sync' = [sync EXCEPT !.at = "published"]
  /\ UNCHANGED <<outside, now, acts, draft, memory, pending, disk, history>>

\* sessions come in, but for those of an occurrence that was ended here,
EndedHere(s) ==
  \E w \in Windows(now, story.events) :
    w.profile = s.profile /\ w.end = s.lock.ends_at /\ IsDismissed(sessions, w)

SyncAdopt ==
  /\ sync.at = "published"
  /\ \/ UNCHANGED <<sessions, source, history>>
     \/ \E a \in story.comes :
          LET s == [id |-> <<a.profile, 50>>, profile |-> a.profile, started_at |-> now,
                    lock |-> LockOf(a.locks, a.seconds)]
              S == Start(sessions, s)
          IN
          /\ ~IsExpired(s.lock, now) /\ ~EndedHere(s)
          /\ sessions' = S
          /\ source' = SetAt(source, RunningIds(S) \ RunningIds(sessions), {})
          /\ history' = [history EXCEPT !.born = Remember(S)]
  /\ sync' = [at |-> "adopted", passes |-> log.passes, released |-> log.released]
  /\ UNCHANGED <<outside, now, acts, draft, config, proofs, releases, released, knows_me, passes,
                 boots, counter, beat, pending, log, disk>>

\* the releases go out,
SyncTell ==
  /\ sync.at = "adopted"
  /\ log' = [log EXCEPT !.released = @ \cup (releases \X {Me})]
  /\ sync' = [sync EXCEPT !.at = "told"]
  /\ UNCHANGED <<outside, now, acts, draft, memory, pending, disk, history>>

\* those the log had when the sessions came in take the place of those the phone knows of,
SyncKnow ==
  /\ sync.at = "told"
  /\ released' = sync.released /\ knows_me' = TRUE
  /\ sync' = [sync EXCEPT !.at = "known"]
  /\ UNCHANGED <<outside, now, acts, draft, config, sessions, source, proofs, releases, passes, boots,
                 counter, beat, pending, log, disk, history>>

\* the passes it had then those the phone has,
Ration == sync.passes

SyncRation ==
  /\ sync.at = "known"
  /\ passes' = Ration
  /\ sync' = [AtRest EXCEPT !.at = "unsaved"]
  /\ UNCHANGED <<outside, now, acts, draft, config, sessions, source, proofs, releases, released,
                 knows_me, boots, counter, beat, pending, log, disk, history>>

\* and the log is saved, or the pass has failed and writes nothing.
SyncSave ==
  /\ sync.at = "unsaved"
  /\ \/ sync' = [AtRest EXCEPT !.at = "saved"] /\ disk' = [disk EXCEPT !.log = log]
     \/ sync' = AtRest /\ UNCHANGED disk
  /\ UNCHANGED <<outside, now, acts, draft, memory, pending, log, history>>

\* What came of it is written under the gate.
SyncPersist ==
  /\ sync.at = "saved" /\ Enter(Persisted)
  /\ sync' = AtRest
  /\ UNCHANGED <<outside, now, acts, draft, memory, log, disk, history>>

\* --------------------------------------------------------- death and restart

\* What the rows make of what the process has: everything it was told since is kept.
Restored(S, from, spent, given) ==
  /\ sessions' = Restore(S, disk.sessions.running)
  /\ source' = [id \in DOMAIN from \cup DOMAIN disk.sessions.source |->
                  IF id \in DOMAIN from THEN from[id] ELSE disk.sessions.source[id]]
  /\ passes' = spent \cup disk.passes
  /\ boots' = disk.boots.seen /\ counter' = disk.boots.counter
  /\ releases' = given \cup disk.releases

\* A phone without a profile is given one.
Seeded(document) ==
  IF document.profiles # <<>> THEN document
  ELSE Unless([document EXCEPT !.profiles = <<Starter>>], document)

\* Which is then written like any other edit.
Seeding(document) == IF Seeded(document) # document THEN Committed ELSE <<>>

\* The document of the next process: the file's, or none of it when the file cannot be read, or has
\* a rule that the way the phone watches cannot see to.
Readable == {disk.config} \cup (IF "unread" \in story.does THEN {Blank} ELSE {})

\* The process dies, alone or with the phone, and is started again.
Kill(reboot) ==
  /\ Does(IF reboot THEN "reboot" ELSE "kill")
  /\ Restored(Default, Nothing, {}, {})
  /\ \E document \in Readable : config' = Seeded(document) /\ pending' = Seeding(document)
  /\ proofs' = {} /\ released' = {} /\ knows_me' = FALSE
  /\ draft' = {} /\ beat' = FALSE /\ sync' = AtRest /\ log' = disk.log
  /\ uptime' = IF reboot THEN 0 ELSE uptime
  /\ history' = [history EXCEPT !.deaths = @ + 1, !.boot = IF reboot THEN @ + 1 ELSE @]
  /\ UNCHANGED <<story, now, disk>>

\* The screen and the service each read the rows back when they start.
RestoreAgain ==
  /\ "again" \in story.does /\ Enter(Seeding(config))
  /\ Restored(sessions, source, passes, releases)
  /\ config' = Seeded(config)
  /\ UNCHANGED <<outside, now, acts, draft, proofs, released, knows_me, beat, sync, log, disk,
                 history>>

\* The rows of a call are written within the second.
Clock ==
  /\ now < story.until /\ pending = <<>>
  /\ now' = now + 1 /\ uptime' = uptime + 1
  /\ UNCHANGED <<story, acts, draft, memory, pending, sync, log, disk, history>>

\* The sessions a call may name: those that ran here once, and those of the other devices.
Known == DOMAIN history.born \cup {<<a.profile, 50>> : a \in story.comes}

Next ==
  \/ Clock \/ Observe \/ WriteBoots \/ Tick \/ Edit \/ SetConfig \/ Put_ \/ RefuseConfig
  \/ \E ask \in story.asks : StartSession(ask)
  \/ \E id \in Known :
       \/ \E claimed \in {{}, Claimable, Conditions} : EndSession(id, claimed)
       \/ RecordCredential(id) \/ ReleasePeer(id) \/ RequestTheRelease(id) \/ SpendPass(id)
       \/ \E payload \in {t.id : t \in Range(config.tokens)} \cup {"unknown"} : ScanToken(id, payload)
       \/ \E device \in Range(ReleasedBy) \ {Me} : PeerReleases(id, device)
  \/ SyncPublish \/ SyncAdopt \/ SyncTell \/ SyncKnow \/ SyncRation \/ SyncSave \/ SyncPersist
  \/ Kill(TRUE) \/ Kill(FALSE) \/ RestoreAgain

Spec == Init /\ [][Next]_vars

-----------------------------------------------------------------------------
\* An answer is no easier than another.
AsStrict(a, b) ==
  CASE a.kind = "allow" -> b.kind = "allow"
    [] a.kind = "delay" -> b.kind = "allow" \/ (b.kind = "delay" /\ b.seconds <= a.seconds)
    [] OTHER -> TRUE

AnswerOf(document, p, used, obs) == decide(now, World({p}, used), obs, document)

AllowsOnly(document, p) ==
  {r.target : r \in {r \in RulesOf(document, p) :
                        r.action.kind = "allow_only" /\ applies_to(r, "android")}}

(***************************************************************************)
(* refuse_weakening, lib.rs 164-186: while a session runs, whatever is     *)
(* edited and in whatever order, nothing its profile decides becomes       *)
(* easier.  Two kinds of edit are let through that may make it so, and are *)
(* left out: one that allows more of a profile that allows only what it    *)
(* lists, and one that moves the zone the allowances are counted in.  A    *)
(* process that dies before it has written an edit goes back to the        *)
(* document before it.                                                     *)
(***************************************************************************)
RulesHold ==
  [][\A s \in sessions.running :
       /\ config' # config
       /\ s.id \in RunningIds(sessions')
       /\ config'.zone = config.zone
       /\ AllowsOnly(config', s.profile) \subseteq AllowsOnly(config, s.profile)
       /\ history'.deaths = history.deaths
       => \A obs \in Observed, used \in Ledgers :
            AsStrict(AnswerOf(config', s.profile, used, obs), AnswerOf(config, s.profile, used, obs))]_vars

\* What has really been met of a session's conditions, when a step is taken.  This device's release
\* is one that it has, or that it told the others before it lost it.
Met(s, shown, given) ==
  Claimable
    \cup {q.lock : q \in {q \in shown : q.id = s.id /\ Fresh(q, now)}}
    \cup (IF history.born[s.id] # history.boot THEN {"restart"} ELSE {})
    \cup {c \in DOMAIN ReleasedBy :
            \/ ReleasedBy[c] = Me /\ s.id \in given
            \/ <<s.id, ReleasedBy[c]>> \in log.released}

(***************************************************************************)
(* end_session, lib.rs 480-485: a session leaves when it is over, when     *)
(* every one of its conditions has really been met, or with a pass,        *)
(* whoever else acts on the phone and whatever it loses when it dies.      *)
(* Only one that no row has yet goes with the process.                     *)
(***************************************************************************)
OnlyByRight ==
  [][\A s \in sessions.running :
       s.id \notin RunningIds(sessions') =>
         \/ IsExpired(s.lock, now)
         \/ s.lock.conditions \subseteq Met(s, history'.checked, releases')
         \/ history'.taken # history.taken
         \/ history'.deaths # history.deaths
              /\ s.id \notin RunningIds(disk.sessions.running)]_vars

(***************************************************************************)
(* next_change_after and has_metered_rules, lib.rs 872-975: until the      *)
(* instant the phone sets its alarm for, the plan asks for nothing else    *)
(* and no session ends; and what the phone has used makes no difference    *)
(* when it does not read it.                                               *)
(***************************************************************************)
NothingMissed ==
  pending = <<>> =>
  /\ LET alarm == next_change(now, story.events)
         sleep == (now + 1)..((IF alarm = {} THEN story.until + DAY ELSE Max(alarm)) - 1)
     IN  \A t \in sleep :
           /\ Windows(t, story.events) = Windows(now, story.events)
           /\ active_profiles(t) = active_profiles(now)
  /\ ~has_metered_rules(now) =>
       \A obs \in Observed, used \in Ledgers :
         decide(now, World(active_profiles(now), used), obs, config)
           = decide(now, World(active_profiles(now), Nothing), obs, config)

(***************************************************************************)
(* CurfewRuntime.kt 288-291: a pass this device forgot is a pass the user  *)
(* gets back for free.  So a pass that was spent here stays spent.         *)
(***************************************************************************)
PassesStaySpent == history.spent \subseteq passes
=============================================================================
