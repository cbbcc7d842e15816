------------------------------ MODULE Blocking ------------------------------
(***************************************************************************)
(* What the Windows service does to the machine while sessions run: the    *)
(* pass of tick.rs with the processes it closes (procs.rs), the waits it   *)
(* holds apps behind (delay.rs), the browsers it holds to account          *)
(* (extension.rs), the hosts file and the resolver, the subscriptions, and *)
(* the document it goes by, through reloads, crashes and restarts          *)
(* (runner.rs).                                                            *)
(*                                                                         *)
(* Every lock here is a time lock, so that a session ends at its end; how  *)
(* other locks end is Enforcer.  One process stands for all the processes  *)
(* of an executable, and the trusted clock goes forward only; how it gets  *)
(* there is TrustedClock.                                                  *)
(***************************************************************************)
EXTENDS Engine, Feeds, TLC

CONSTANTS
  TICK,             \* seconds between two passes
  SEEN_SECONDS,     \* how long the tray's word for the foreground is taken
  STARTUP_SECONDS,  \* how long a browser may be silent after it appears
  GRACE_SECONDS,    \* how long it may be silent otherwise
  Start,            \* when the model's time begins
  NAP,              \* how long the machine sleeps, when it does
  LONGEST_DELAY,    \* the longest wait a rule can ask for: what fits a u32
  Stories           \* what is configured and may happen, by the name of the story

\* config: the document at first, once it is read; files: what the file may be changed to, {} being one
\* that does not parse; asks: the sessions asked for; windows: what may be opened; extended: browsers
\* with the extension; stubborn: executables that cannot be closed; replies: what the calendar server
\* answers; does: what happens, acts times at most, until: the last instant
Story == LET all == Range(Stories) IN
         [config : {s.config : s \in all}, files : SUBSET UNION {s.files : s \in all},
          asks : SUBSET [profile : STRING, seconds : Nat],
          windows : SUBSET UNION {s.windows : s \in all},
          extended : SUBSET BROWSERS, stubborn : SUBSET UNION {s.stubborn : s \in all},
          replies : SUBSET UNION {s.replies : s \in all},
          does : SUBSET STRING, acts : Nat, until : Nat]

\* What a document counts with: the waits fit their fields, and an offset is known of some instants.
Fits(doc) ==
  /\ \A p \in Range(doc.profiles) : \A r \in Range(p.rules) :
       r.action.kind = "delay" => r.action.seconds \in 0..LONGEST_DELAY
  /\ \A list \in {doc.weekly, doc.calendars, doc.sources} : list \in Seq(Range(list))
  /\ \A w \in Range(doc.weekly) : w.start \in Nat /\ w.end \in Nat
  /\ \A c \in Range(doc.calendars) : c.pad_before \in Nat /\ c.pad_after \in Nat
  /\ doc.zone \in [DOMAIN doc.zone -> Int]
  /\ DOMAIN doc.zone \subseteq Int /\ IsFiniteSet(DOMAIN doc.zone) /\ DOMAIN doc.zone # {}

\* The events of a calendar.
Dated(events) == IsFiniteSet(events) /\ \A e \in events : e.start \in Int /\ e.end \in Int

ASSUME BlockingAssumption ==
  /\ {TICK, SEEN_SECONDS, STARTUP_SECONDS, GRACE_SECONDS, Start, NAP, WINDOW_SECONDS} \subseteq Nat \ {0}
  /\ LONGEST_DELAY \in Nat
  /\ TICK <= GRACE_SECONDS
  /\ IsFiniteSet(BROWSERS)
  /\ Range(Stories) \subseteq Story
  /\ \A s \in Range(Stories) :
       /\ validate(s.config) /\ Fits(s.config)
       /\ \A text \in s.files : \A c, d \in text : c = d /\ Fits(c)
       /\ \A reply \in s.replies : reply.answers => Dated(reply.document.events)

VARIABLES
  story,
  now,       \* the trusted instant
  sleeps,    \* how often the machine slept
  acts,      \* how many things have happened
  file,      \* the document on disk, {} when it does not parse
  copy,      \* the kept copy of a document the service went by, {} before there is one
  saved,     \* the state file: the sessions, the use, the last pass
  hosts,     \* the lines of the hosts file
  procs,     \* [executable -> its window]
  front,     \* the executable in front, if any
  up,        \* the service runs
  ticked,    \* its pass has enforced and has not been written yet
  config,    \* the document it goes by
  running,   \* [profile -> when its session ends]
  usage,     \* [meter -> rollups]
  previous,  \* the instant of the last pass, {} when none is known
  due_at,    \* when the next pass is due
  seen,      \* what the tray last said of the foreground, and when
  watch,     \* the beats and first sights of browsers
  gates,     \* [executable -> the end of its wait, {} once it is served]
  resolver,  \* the names the resolver refuses; {} while there is no resolver
  feeds,     \* see Feeds
  outcome,   \* what the last pass did about the processes
  history    \* what the properties remember

world   == <<story, sleeps>>
desktop == <<procs, front>>
memory  == <<config, running, usage, previous, due_at, seen, watch, gates, resolver, outcome>>
vars    == <<world, now, acts, file, copy, saved, hosts, desktop, up, ticked, memory, feeds, history>>

\* The story that is told.
Tale == Stories[story]

Nothing   == <<>>
NoWatch   == [beats |-> Nothing, first_seen |-> Nothing]
NoOutcome == [closed |-> {}, failed |-> {}, delayed |-> Nothing, unwatched |-> {}]
Unsaved   == [running |-> Nothing, usage |-> Nothing, at |-> {}]

\* ------------------------------------------------------- the foreground

\* A window: [name, text, host], the host being <<>> for what is no browser.
Title(window) == Window(window.name, window.text)
Page(window)  == Web(window.host, window.text)

\* The sessions that have not reached their ends.
Active(sessions, t) == {p \in DOMAIN sessions : t < sessions[p]}

State(sessions, use, t) ==
  [active |-> Active(sessions, t), usage |-> use, launches |-> Nothing, platform |-> "windows"]

\* The use after an observation was charged for some seconds.
Charged(use, obs, t, seconds) ==
  LET keys == charged_keys(State(running, use, t), obs, config)
  IN  IF seconds = 0 THEN use
      ELSE [k \in DOMAIN use \cup keys |->
              IF k \in keys THEN Append(Recorded(use, k), [at |-> t, seconds |-> seconds])
              ELSE use[k]]

\* The tray's word while it is fresh.  What the process can see for itself
\* is nothing, in session 0.
foreground_now(t) == {s.window : s \in {s \in seen : t - s.at <= SEEN_SECONDS}}

\* The seconds a pass accounts for: those since the last one, a tick at most.
elapsed(t) ==
  IF previous # {} /\ t > Max(previous) THEN Min({t - Max(previous), TICK}) ELSE 0

\* What is in front is charged to its meters.
accrue(t) ==
  FoldSet(LAMBDA w, use : Charged(use, w, t, elapsed(t)), usage, foreground_now(t))

\* ------------------------------------------------------------- browsers

\* A mutant: a beat is worth all the time since the one before.
beat_Whole(w, exe, t) ==
  [seconds |-> IF exe \in DOMAIN w.beats THEN t - w.beats[exe] ELSE 0,
   watch |-> [w EXCEPT !.beats = SetAt(@, exe, t)]]

\* A beat, and the seconds the page it reports can be assumed to have been up.
beat(w, exe, t) ==
  [seconds |-> IF exe \in DOMAIN w.beats THEN Min({t - w.beats[exe], GRACE_SECONDS}) ELSE 0,
   watch |-> [w EXCEPT !.beats = SetAt(@, exe, t)]]

\* A mutant: the beats of browsers that have gone are kept.
saw_KeepsBeats(w, exes, t) ==
  [beats |-> w.beats,
   first_seen |-> [e \in exes |-> IF e \in DOMAIN w.first_seen THEN w.first_seen[e] ELSE t]]

\* What runs is first seen now unless it was seen before; what has gone is
\* forgotten.
saw(w, exes, t) ==
  [beats |-> Restrict(w.beats, DOMAIN w.beats \cap exes),
   first_seen |-> [e \in exes |-> IF e \in DOMAIN w.first_seen THEN w.first_seen[e] ELSE t]]

trusted(w, exe, t) ==
  \/ exe \in DOMAIN w.first_seen /\ t - w.first_seen[exe] < STARTUP_SECONDS
  \/ exe \in DOMAIN w.beats /\ t - w.beats[exe] < GRACE_SECONDS

unwatched(w, exes, t, needed) == {e \in exes : needed /\ is_browser(e) /\ ~trusted(w, e, t)}

\* ---------------------------------------------------------------- waits

forget_absent(g, exes) == Restrict(g, DOMAIN g \cap exes)

\* Whether a wait is over, after it was brought back to what the rule asks.
consider(g, exe, t, seconds) ==
  LET until == IF exe \in DOMAIN g THEN {Min({u, t + seconds}) : u \in g[exe]} ELSE {t + seconds}
  IN  {u \in until : t < u}

\* -------------------------------------------------------- the processes

\* What a pass finds each process to be, and those of them it is to close.
Verdicts(t, state) == [e \in DOMAIN procs |-> decide(t, state, Title(procs[e]), config)]

Blocked(verdict) == {e \in DOMAIN procs : verdict[e] = Block}

Delayed(verdict, silent) == {e \in DOMAIN procs \ silent : verdict[e].kind = "delay"}

\* The waits after a pass: of what has gone they are forgotten.
Gated(known, verdict, waiting, t) ==
  [e \in DOMAIN known \cup waiting |->
     IF e \in waiting THEN consider(known, e, t, verdict[e].seconds) ELSE known[e]]

Held(waiting, gated) == {e \in waiting : gated[e] # {}}

\* What cannot be closed stays, and is reported so.
Closing(looked, gated, blocked, silent, held, stubborn, asked, t) ==
  [watch |-> looked, gates |-> gated, asked |-> asked,
   left |-> (DOMAIN procs \ (blocked \cup silent \cup held)) \cup stubborn,
   outcome |-> [closed |-> blocked \ stubborn, unwatched |-> silent \ stubborn,
                failed |-> (blocked \cup silent) \cap stubborn,
                delayed |-> [e \in held |-> Max(gated[e]) - t]]]

Enforced(t, looked, verdict, silent, gated) ==
  Closing(looked, gated, Blocked(verdict), silent, Held(Delayed(verdict, silent), gated),
          Tale.stubborn \cap DOMAIN procs, [e \in Delayed(verdict, silent) |-> verdict[e].seconds], t)

Unheard(looked, verdict, t, needed) ==
  unwatched(looked, DOMAIN procs, t, needed) \ Blocked(verdict)

Judgement(t, looked, verdict, silent) ==
  Enforced(t, looked, verdict, silent,
           Gated(forget_absent(gates, DOMAIN procs), verdict, Delayed(verdict, silent), t))

Looked(t, looked, verdict, needed) ==
  Judgement(t, looked, verdict, Unheard(looked, verdict, t, needed))

\* What a pass does about every process.
enforce(t, state) ==
  Looked(t, saw(watch, DOMAIN procs, t), Verdicts(t, state), needs_extension(state, config))

\* The sessions after a pass: those the calendar calls for are started, or
\* prolonged to its end, and those that have run out are gone.
reconciled(t, events) ==
  LET called == active_at(t, config.zone, Range(config.weekly), Range(config.calendars), events)
      Ends(p) == {a.span[2] : a \in {a \in called : a.profile = p}}
                   \cup {running[q] : q \in {p} \cap DOMAIN running}
      all    == [p \in DOMAIN running \cup {a.profile : a \in called} |-> Max(Ends(p))]
  IN  Restrict(all, Active(all, t))

\* The rules each session began with that the kept copy had.
Promised(sessions) ==
  [p \in DOMAIN sessions |->
     IF p \in DOMAIN running \cap DOMAIN history.promised THEN history.promised[p]
     ELSE RulesOf(config, p) \cap UNION {RulesOf(c, p) : c \in copy}]

\* How long browsers have been there without a gap, and when they were last heard.
Lives(exes, t) ==
  [e \in exes |->
     IF e \notin DOMAIN history.lives THEN [since |-> {t}, heard |-> {}]
     ELSE [history.lives[e] EXCEPT !.since = IF @ = {} THEN {t} ELSE @]]

\* When the waits that were asked of what is there are over: never later than was said before.
Waits(exes, asked, t) ==
  LET known == DOMAIN history.waits \cap exes
  IN  [e \in known \cup DOMAIN asked |->
         CASE e \in known \cap DOMAIN asked -> Min({history.waits[e], t + asked[e]})
           [] e \in known \ DOMAIN asked    -> history.waits[e]
           [] OTHER                          -> t + asked[e]]

\* The last document with events in it that a source gave when it was asked, of those that the
\* service knew of when it began or was taught since.
Taught(sources, reply) ==
  LET asked == {s.id : s \in {s \in sources : due(feeds, s, now)}}
      good  == reply.answers /\ reply.document.parses /\ reply.document.events # {}
  IN  IF good THEN [id \in DOMAIN history.taught \cup asked |->
                      IF id \in asked THEN reply.document ELSE history.taught[id]]
      ELSE history.taught

\* ------------------------------------------------------------- the loop

\* The machine is brought to what the rules say.
Applied(did, domains, sessions, reply) ==
  /\ watch' = did.watch /\ gates' = did.gates /\ outcome' = did.outcome
  /\ procs' = Restrict(procs, did.left)
  /\ front' = front \cap did.left
  /\ hosts' = render(hosts, domains)
  /\ resolver' = {domains : r \in resolver}
  /\ history' = [promised |-> Promised(sessions), lives |-> Lives(DOMAIN procs, now),
                 waits |-> Waits(DOMAIN procs, did.asked, now),
                 taught |-> Taught(Range(config.sources), reply)]

Judge(state, sessions, reply) ==
  Applied(enforce(now, state), blocked_domains(now, state, config), sessions, reply)

\* The use is charged before the calendar is asked, and judged with what is charged.
Charging(fetched, used, sessions, reply) ==
  /\ feeds' = fetched /\ usage' = used /\ running' = sessions
  /\ Judge(State(sessions, used, now), sessions, reply)

Fetched(reply) ==
  Asked(feeds, Range(config.sources), [id \in {s.id : s \in Range(config.sources)} |-> reply], now)

Called(fetched, reply) ==
  Charging(fetched, accrue(now), reconciled(now, Events(fetched, Range(config.sources), now)), reply)

\* A pass: what is called for starts, the use is charged, and so on.
Tick ==
  /\ up /\ ~ticked /\ now >= due_at
  /\ \E reply \in IF config.sources = <<>> THEN {Down} ELSE Tale.replies :
       Called(Fetched(reply), reply)
  /\ ticked' = TRUE /\ previous' = {now}
  /\ UNCHANGED <<world, now, acts, file, copy, saved, up, config, due_at, seen>>

\* The state is written at every pass while a session runs, and now and then
\* otherwise.
Persist ==
  /\ ticked
  /\ \/ saved' = [running |-> running, usage |-> usage, at |-> previous]
     \/ running = Nothing /\ saved' = saved
  /\ ticked' = FALSE /\ due_at' = now + TICK
  /\ UNCHANGED <<world, now, acts, file, copy, hosts, desktop, up, config, running, usage, previous,
                 seen, watch, gates, resolver, outcome, feeds, history>>

\* What a run that is over leaves of itself in memory.
Forgotten ==
  /\ up' = FALSE /\ ticked' = FALSE
  /\ running' = Nothing /\ usage' = Nothing /\ previous' = {} /\ due_at' = 0 /\ seen' = {}
  /\ watch' = NoWatch /\ gates' = Nothing /\ resolver' = {} /\ outcome' = NoOutcome
  /\ history' = [history EXCEPT !.lives = Nothing, !.waits = Nothing]
  /\ UNCHANGED <<world, now, file, copy, saved, desktop, config, feeds>>

May(act) == /\ act \in Tale.does /\ acts < Tale.acts /\ acts' = acts + 1

Crash == up /\ May("crash") /\ UNCHANGED hosts /\ Forgotten

\* A clean stop gives the hosts file back, unless a session runs.
Stop ==
  /\ up /\ ~ticked /\ May("stop")
  /\ hosts' = IF running = Nothing THEN strip(hosts) ELSE hosts
  /\ Forgotten

Chosen_KeepsIt(sessions) ==
  [config |-> IF file # {} /\ copy # {}
                 /\ \A f \in file, c \in copy : weakening_a_running_session(c, f, sessions) # {}
              THEN copy ELSE IF file = {} THEN copy ELSE file,
   copy |-> IF file = {} THEN copy ELSE file]

\* The document a run goes by, and the copy it keeps: the file's, unless
\* that weakens a session against the kept copy, or does not parse.
Chosen(sessions) ==
  LET weaker == sessions # {} /\ \E f \in file, c \in copy :
                  weakening_a_running_session(c, f, sessions) # {}
  IN  IF file = {} \/ weaker THEN [config |-> copy, copy |-> copy]
      ELSE [config |-> file, copy |-> file]

\* A document with nothing in it, when neither parses.
Empty == [profiles |-> <<>>, weekly |-> <<>>, calendars |-> <<>>, sources |-> <<>>, tokens |-> <<>>,
          emergency |-> Tale.config.emergency, zone |-> Tale.config.zone, resolver |-> FALSE]

\* With no session to hold, a document that does not parse is an error.
Begin ==
  /\ ~up
  /\ file # {} \/ saved.running # Nothing
  /\ LET chosen == Chosen(DOMAIN saved.running)
         next   == IF chosen.config = {} THEN Empty ELSE CHOOSE c \in chosen.config : TRUE
     IN  /\ copy' = chosen.copy
         /\ config' = next
         /\ feeds' = restore(feeds, Range(next.sources))
         /\ resolver' = IF next.resolver THEN {{}} ELSE {}
         /\ history' = [history EXCEPT
              !.promised = Restrict(@, DOMAIN @ \cap DOMAIN saved.running),
              !.taught = Restrict(@, DOMAIN @ \cap {s.id : s \in Range(next.sources)})]
  /\ up' = TRUE
  /\ running' = saved.running /\ usage' = saved.usage /\ previous' = saved.at /\ due_at' = now
  /\ UNCHANGED <<world, now, acts, file, saved, hosts, desktop, ticked, seen, watch, gates, outcome>>

\* ------------------------------------------------------------- requests

\* Requests wait for a pass to be over.
Serving == up /\ ~ticked

\* A start by hand, or one that prolongs what runs.
StartSession(ask) ==
  /\ Serving /\ May("start")
  /\ RulesOf(config, ask.profile) # {}
  /\ running' = SetAt(running, ask.profile,
       Max({now + ask.seconds} \cup {running[p] : p \in {ask.profile} \cap DOMAIN running}))
  /\ history' = [history EXCEPT !.promised = Promised(running')]
  /\ UNCHANGED <<world, now, file, copy, saved, hosts, desktop, up, ticked, config, usage, previous, due_at,
                 seen, watch, gates, resolver, feeds, outcome>>

\* The tray says what is in front.
Seen(exe) ==
  /\ Serving /\ May("tray")
  /\ exe \in front
  /\ seen' = {[window |-> Title(procs[exe]), at |-> now]}
  /\ UNCHANGED <<world, now, file, copy, saved, hosts, desktop, up, ticked, config, running, usage, previous,
                 due_at, watch, gates, resolver, feeds, outcome, history>>

Heard(exe) ==
  history' = [history EXCEPT !.lives = IF exe \in DOMAIN @ THEN [@ EXCEPT ![exe].heard = {now}]
                                       ELSE SetAt(@, exe, [since |-> {}, heard |-> {now}])]

\* The extension says it is there, and which page is in front.
Beat(exe) ==
  /\ Serving /\ May("beat")
  /\ exe \in Tale.extended \cap DOMAIN procs
  /\ LET b == beat(watch, exe, now)
     IN  /\ watch' = b.watch
         /\ usage' = IF exe \in front THEN Charged(usage, Page(procs[exe]), now, b.seconds)
                     ELSE usage
  /\ Heard(exe)
  /\ UNCHANGED <<world, now, file, copy, saved, hosts, desktop, up, ticked, config, running, previous, due_at,
                 seen, gates, resolver, feeds, outcome>>

\* Names that lead nowhere on this machine.
Unresolved(name) ==
  name \in Sunk(hosts) \/ \E domains \in resolver : covered(name, domains) # {}

\* The extension asks before a page loads.  The beat it also is charges nothing.
Check(exe, page) ==
  /\ Serving /\ May("check")
  /\ exe \in Tale.extended \cap DOMAIN procs /\ page.name = exe
  /\ watch' = beat(watch, exe, now).watch
  /\ Heard(exe)
  /\ LET blocked == decide(now, State(running, usage, now), Page(page), config) = Block
     IN  procs' = IF blocked \/ Unresolved(page.host) THEN procs ELSE [procs EXCEPT ![exe] = page]
  /\ UNCHANGED <<world, now, file, copy, saved, hosts, front, up, ticked, config, running, usage, previous,
                 due_at, seen, gates, resolver, feeds, outcome>>

\* A document is adopted when no running session loses a rule by it.
Adopted(next) == weakening_a_running_session(config, next, DOMAIN running) = {}

\* The waits and the sights begin anew under the new document.
Reload ==
  /\ Serving /\ May("reload")
  /\ \E next \in file :
       IF Adopted(next)
       THEN /\ config' = next /\ gates' = Nothing /\ watch' = NoWatch
            /\ history' = [history EXCEPT !.lives = Nothing, !.waits = Nothing]
       ELSE UNCHANGED <<config, gates, watch, history>>
  /\ UNCHANGED <<world, now, file, copy, saved, hosts, desktop, up, ticked, running, usage, previous, due_at,
                 seen, resolver, feeds, outcome>>

\* ---------------------------------------------------------- the machine

\* A second passes.  The loop is not late for its pass while the machine is
\* awake.
Second ==
  /\ now < Tale.until
  /\ up => now < due_at
  /\ now' = now + 1
  /\ UNCHANGED <<world, acts, file, copy, saved, hosts, desktop, up, ticked, memory, feeds, history>>

\* The machine sleeps, and everything on it.
Sleep ==
  /\ May("sleep") /\ now < Tale.until
  /\ now' = now + NAP /\ sleeps' = sleeps + 1
  /\ UNCHANGED <<story, file, copy, saved, hosts, desktop, up, ticked, memory, feeds, history>>

Launch(window) ==
  /\ May("launch")
  /\ window.name \notin DOMAIN procs /\ ~Unresolved(window.host)
  /\ procs' = SetAt(procs, window.name, window)
  /\ front' = {window.name}
  /\ UNCHANGED <<world, now, file, copy, saved, hosts, up, ticked, memory, feeds, history>>

Quit(exe) ==
  /\ May("quit")
  /\ exe \in DOMAIN procs
  /\ procs' = Without(procs, exe) /\ front' = front \ {exe}
  /\ UNCHANGED <<world, now, file, copy, saved, hosts, up, ticked, memory, feeds, history>>

EditFile(text) ==
  /\ May("edit")
  /\ text # file /\ file' = text
  /\ UNCHANGED <<world, now, copy, saved, hosts, desktop, up, ticked, memory, feeds, history>>

Init ==
  /\ story \in DOMAIN Stories
  /\ now = Start /\ sleeps = 0 /\ acts = 0
  /\ file = {Tale.config} /\ copy = {} /\ saved = Unsaved
  /\ hosts = <<Other("early")>>
  /\ procs = Nothing /\ front = {}
  /\ up = FALSE /\ ticked = FALSE /\ config = Empty
  /\ running = Nothing /\ usage = Nothing /\ previous = {} /\ due_at = 0 /\ seen = {}
  /\ watch = NoWatch /\ gates = Nothing /\ resolver = {} /\ feeds = NoFeeds /\ outcome = NoOutcome
  /\ history = [promised |-> Nothing, lives |-> Nothing, waits |-> Nothing, taught |-> Nothing]

Next ==
  \/ Second \/ Sleep \/ Tick \/ Persist \/ Crash \/ Stop \/ Begin \/ Reload
  \/ \E ask \in Tale.asks : StartSession(ask)
  \/ \E exe \in DOMAIN procs : Quit(exe) \/ Beat(exe) \/ Seen(exe)
  \/ \E page \in Tale.windows : Launch(page) \/ Check(page.name, page)
  \/ \E text \in Tale.files : EditFile(text)

Spec == Init /\ [][Next]_vars

\* The loop goes on, time passes, and the watchdog has the service back: weak
\* fairness of Tick, Persist, Second and Begin, each written with the
\* condition that enables it.
Fairness ==
  /\ []<>~(up /\ ~ticked /\ now >= due_at) \/ []<><<~ticked /\ ticked'>>_vars
  /\ []<>~ticked \/ []<><<ticked /\ ~ticked' /\ up'>>_vars
  /\ []<>~(now < Tale.until /\ (up => now < due_at)) \/ []<><<now' = now + 1 /\ sleeps' = sleeps>>_vars
  /\ []<>(up \/ (file = {} /\ saved.running = Nothing)) \/ []<><<~up /\ up'>>_vars

FairSpec == Spec /\ Fairness

\* ------------------------------------------------------------ properties

\* What a machine was awake for, and a grace for each time it slept.
AwakeAtMost == now - Start - sleeps * (NAP - GRACE_SECONDS)

\* Who says what is in use: the tray, and each browser with the extension.
Witnesses ==
  Cardinality({"tray"} \cap Tale.does) + Cardinality({e \in Tale.extended : "beat" \in Tale.does})

(***************************************************************************)
(* Nothing is charged that nobody can have used: whatever the order of     *)
(* passes, beats, reloads, crashes and restarts, no meter holds more than  *)
(* the machine was awake, and one grace for every time it slept, which is  *)
(* what a first beat after waking is worth (runner.rs elapsed,             *)
(* extension.rs beat).  A meter that the tray and an extension both charge *)
(* holds that of each.                                                     *)
(***************************************************************************)
UsedWhileAwake ==
  \A k \in DOMAIN usage : used_since(usage[k], {}) <= Witnesses * AwakeAtMost

\* A schedule that is not padded by more than the events are read ahead.
Reaches(schedule) == schedule.pad_before < WINDOW_SECONDS /\ schedule.pad_after < WINDOW_SECONDS

(***************************************************************************)
(* An outage is not a way out: an event a subscription once gave goes on   *)
(* calling for its session through everything the server then fails to     *)
(* say, or says badly or emptily, and through crashes and restarts, until  *)
(* the server says something else (calendar.rs, feeds.rs).                 *)
(***************************************************************************)
OutageKeepsBlock ==
  ticked =>
    \A s \in Range(config.sources) : s.id \in DOMAIN history.taught =>
      \A c \in {c \in Range(config.calendars) : Reaches(c)} :
        \A a \in Activations(c, {e \in history.taught[s.id].events : e.start <= e.end}) :
          \A t \in previous : Inside(a.span, t) => a.profile \in DOMAIN running

\* A rule has the same answer in a document.
Stands(rule, doc, profile) ==
  \E r \in RulesOf(doc, profile) :
    key(r.target) = key(rule.target) /\ r.platforms = rule.platforms /\ r.action = rule.action

(***************************************************************************)
(* A session keeps the rules it began with that were in the kept copy by   *)
(* then, through every edit, reload, crash and restart until it is over    *)
(* (tick.rs Reload, runner.rs build).                                      *)
(***************************************************************************)
KeptRulesStand ==
  up => \A p \in DOMAIN running \cap DOMAIN history.promised :
          \A r \in history.promised[p] : Stands(r, config, p)

\* A pass has just enforced.
Passed == ~ticked /\ ticked'

(***************************************************************************)
(* While a rule needs the extension, a pass closes exactly the browsers    *)
(* that have been silent for a grace, counting what was heard since they   *)
(* came, and leaves those alone that have only just come: a beat of an     *)
(* earlier run does not vouch for a later one, and no reload, restart or   *)
(* sleep closes a browser that spoke in time.                              *)
(***************************************************************************)
Silent(life) ==
  /\ \A t \in life.since : now - t >= STARTUP_SECONDS
  /\ \A t \in life.heard : now - t >= GRACE_SECONDS

SilentGo ==
  needs_extension(State(running', usage', now), config) =>
    \A e \in DOMAIN history'.lives :
      is_browser(e) /\ e \notin outcome'.closed \cup Tale.stubborn =>
        (e \in outcome'.unwatched <=> Silent(history'.lives[e]))

SilentIsClosed == [][Passed => SilentGo]_vars

(***************************************************************************)
(* An app behind a wait is left open by a pass only when the wait that was *)
(* asked of it since it came has run out, whatever title it has by now;    *)
(* once it has gone, the next wait is a new one (delay.rs).                *)
(***************************************************************************)
WaitedOpen ==
  \A e \in DOMAIN procs' \ Tale.stubborn :
    decide(now, State(running', usage', now), Title(procs[e]), config).kind = "delay" =>
      e \in DOMAIN history'.waits /\ history'.waits[e] <= now

OpensAfterItsWait == [][Passed => WaitedOpen]_vars

\* A pass closes what it has to close and nothing else: both of the above.
ClosesRightly == SilentIsClosed /\ OpensAfterItsWait

(***************************************************************************)
(* The machine is given back: no name stays blocked for good while no      *)
(* session runs, unless the document cannot be read, which keeps the       *)
(* service from starting.  The service is stopped, killed and restarted at *)
(* any point of a pass (runner.rs, the watchdog, tick.rs release).         *)
(***************************************************************************)
GivenBack == []<>(running # Nothing \/ Sunk(hosts) = {} \/ file = {})
=============================================================================
