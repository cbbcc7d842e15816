# Curfew in TLA+

Curfew is a commitment device: a *profile* that blocks sites and applications runs as a *session*
under a *lock*, and the whole program is about one promise, that a session ends when its lock says so
and not before, and that the lock always does say so in the end. Around the promise stand a Windows
service with its watchdog and control channel, a phone, a log that devices share, calendars, budgets,
and what the service does to the machine while a session runs. This directory models them, checks them
with TLC and proves what matters most with TLAPS.

Paths are relative to the repository: `core` is `src/crates/curfew-core/src`, `win`
`src/crates/curfew-win/src`, `svc` `src/crates/curfew-svc/src`, `sync` `src/crates/curfew-sync/src`,
`ffi` `src/crates/curfew-ffi/src` and `tray` `src/crates/curfew-tray/src`.

## The system

| Component | Source | State | Operations | What makes it correct |
|---|---|---|---|---|
| Lock lattice | `core/lock.rs` | `LockSet`: conditions, end, delayed release | `merge`, `harden`, `request_release`, `is_expired`, `can_release` | a join: order and repetition do not matter, nothing gets lighter |
| Sessions | `core/session.rs` | running, dismissed | `start`, `end`, `end_with_pass`, `request_release`, `reap`, `reconcile`, `restore_without_weakening` | one session per profile; ended stays ended |
| Schedules, calendars | `core/schedule.rs`, `curfew-ics` | none | `active_at`, `next_transition`, occurrences of a recurrence | what going through every second says |
| Engine, targets, budgets, edits | `core/engine.rs`, `target.rs`, `budget.rs`, `config.rs`, `stats.rs` | the document, usage | `decide`, `charged_keys`, `used_since`, `validate`, `upsert_*` | the parts agree; an edit weakens nothing that runs |
| Proofs, passes, boots, freeze | `core/proof.rs`, `emergency.rs`, `boot.rs`, `frozen.rs` | what was checked, spent, seen, announced | `record`, `fresh`, `prune`; `spend`; `observe`, `evidence`; `announce`, `due` | only what was really done opens a lock; no freeze without its warning |
| Trusted clock | `core/clock.rs`, `boot.rs` | `ClockWitness`, `BootCounter` | `observe` | no time is won by setting a clock |
| Windows enforcer | `win/tick.rs` | all of the above | `tick` (the pass), `handle` (the pipe) | the two threads do not undo each other |
| Windows blocking | `win/procs.rs`, `delay.rs`, `extension.rs`, `hosts.rs`, `dns.rs` | waits, watched browsers, hosts file, resolver | accrual, closing, writing, giving back | use is charged once; the machine is given back |
| Subscriptions | `win/calendar.rs`, `svc/feeds.rs` | the cache of events | `fetch`, retry, expiry | an outage lifts no block |
| Service loop | `svc/runner.rs` | the enforcer under a mutex, the state file | `build`, `run`, `persist`, `answer_one`, `start_sync` | a crash is no way out |
| State file | `win/state.rs` | `state.json`, `.bak`, `.tmp`, `.locked` | `save`, `load` | the last state is never lost |
| Supervision | `svc/watchdog.rs`, `service.rs`, `main.rs` | registration, processes | `look`, `decide`, install, stop, uninstall | it comes back while there is something to keep, and stays away otherwise |
| Control channel | `win/ipc.rs`, `capacity.rs`, `svc/runner.rs` | connections, places, the mutex | accept, read, handle, reply | who asks hears; a place is given back |
| Pairing | `sync/pair.rs`, `device.rs`, `lan.rs`, `svc/pairing.rs`, `ffi/sync.rs` | keys, invites, peers, beacons | show, read, accept, revoke, `start_sync` | only what was compared is believed |
| Operation log | `sync/oplog.rs`, `wire.rs` | signed chains, heads, checkpoint | `append`, `accept`, `receive`, `compact` | the same entries give the same state |
| Transports | `sync/node.rs`, `lan.rs`, `folder.rs`, `store.rs` | conversations, segments | `push_all`, `scan`, `export` | loss and repetition are harmless |
| Mirror | `sync/mirror.rs` | what was published | `publish*`, `adopt` | adoption frees nobody; an end travels |
| Tray | `tray/shell.rs`, `overlay.rs`, `menu.rs` | the last poll, the menu | `watch`, `plan`, clicks | it speaks true |
| Command line | `curfew-cli` | the document | add, remove, block, try | a command does what it says |
| Phone | `curfew-ffi`, `src/android` | the core behind a database | the gate, `persist`, `restore`, `sync` | as for the service |

How they interact. The service has two kinds of thread under one mutex. The loop reads the trusted
clock, lets the mutex go while it fetches the calendars (up to twenty seconds a subscription), takes it
again, runs one pass *at the instant it read before the fetch*, synchronises, and writes the state file
if it is due. Each request on the control pipe takes the mutex, reads the clock for itself and changes
the sessions at once. The process may be killed between any two of these, the machine may be restarted
while it is down, the user may set the wall clock at any time, and a second process, the watchdog,
decides from the files alone whether a stopped service has to be started again. Devices tell each other
about their sessions through a log that arrives in any order and more than once. The phone puts the same
core behind a gate and a database and runs its pass of sync outside the gate.

The behaviours that are hard are listed one by one, at their lines, under `hazards` in
`PROJECT.json`.

## The modules

| Module | Models | Actions |
|---|---|---|
| `Locks` | `core/lock.rs`, operators on `LockSet` | |
| `SharedLock` | one profile's lock on several devices, each with a store that may be stale | `StartOn`, `Hear`, `AskOn`, `Save`, `RestoreOn`, `Clock` |
| `Sessions` | `core/session.rs`, operators from one `Sessions` value to the next | |
| `Commitment` | the abstract specification: a lock that stands is kept, or let go by right | one step |
| `Enforcer` | `win/tick.rs` between the loop and the pipe | one per request, `Observe` and `Pass` for the loop, `Clock`, `EditSchedule` |
| `Service` | `svc/runner.rs` around `Enforcer`, with kills and reboots | `Handle`, `HandleEmergency`, `LoopObserve`, `LoopPass`, `Stop`, `Restart`, `Begin`, `Environment` |
| `TrustedClock` | `core/clock.rs`, `core/boot.rs` with a machine under them | `Tick`, `SetWall`, `Reboot`, `Begin`, `Kill`, `Iterate`, `Answer`, `See`, `Save` |
| `StateFile` | `win/state.rs` and what the watchdog reads there | the four steps of `save`, `SaveFails`, `Crash`, `Begin`, `Damage`, `Delete` |
| `Pipe` | the control channel: callers, places, threads, mutex, loop | from `Connect` to `Reply`, the faults between |
| `Supervision` | service, watchdogs, service manager, uninstall | `look`, `decide`, `ManagerStarts`, stop, kill, removal |
| `Pairing` | invites, phrases, peer list, beacons, restarts of sync | one per request and per frame |
| `Tray` | what the watch explains, the menu, the click | `watch`, `open_menu`, one per kind of item |
| `Processes` | the five above in one run, one of them moving at a time | |
| `OpLog` | `sync/oplog.rs`, operators on a log | |
| `Gossip` | `node.rs`, `lan.rs`, `folder.rs`, `store.rs` around `OpLog` | one per frame of a conversation, `Carry`, `FolderPass`, kill, revoke, compact |
| `Mirror` | `sync/mirror.rs` between two devices' sessions and the fold of the log | a pass, what the user does, restart |
| `Blocking` | what the pass does to the machine | `Tick`, `Persist`, beats, launches, sleep, reload, crash, stop |
| `Feeds`, `Names` | the cache of subscriptions; names, resolver and hosts file | operators of `Blocking` |
| `Calendar`, `Ics`, `Engine`, `Commands` | days, windows and allowances; occurrences; decisions and edits; the commands of the CLI | operators |
| `Calculations` | asks the four above at every instant of a story | `Ask` |
| `Android` | the phone's core: gate, rows, alarm, pass of sync, deaths of the process | one per call of the binding that changes state |
| `SessionsProofs`, `SharedLockProofs`, `EnforcerProofs`, `TrustedClockProofs`, `ProcessesProofs`, `BlockingProofs`, `GossipProofs`, `AndroidProofs` | theorems and lemmas about the modules they are named for | |
| `MC...` | the instances TLC checks | |

`Enforcer` uses `Sessions`, which uses `Locks`; `Service` extends `Enforcer`. `TrustedClock` and
`StateFile` stand below: `Enforcer` takes trusted time as one clock that never goes back and `Service`
takes a restart to be noticed and the file to be read back whole, which is what the other two are about.
`Mirror` takes the prefixes `Gossip` shows that devices hold. `Blocking` extends `Engine`, `Calendar` and
`Names` and uses `Feeds`; every lock there is a time lock, since how other locks end is `Enforcer`.
`Android` extends `Sessions` and `Engine`.

### How the state corresponds to the code

* A condition (`Lock`) is an element of `Conditions`. What tells conditions apart is who can witness
  them: `Claimable` (a confirmation, a typed passage: `claimable` in `tick.rs`), `Provable` (a password,
  a tag: checked by the service itself), `RestartRequired` (the boot evidence) and `OwnRelease` (this
  device's release). A release by another device arrives with the log: `Mirror` and `Android`.
* A session id is its profile with the value of the enforcer's counter. The code also writes the instant
  into it and leaves gaps in the numbering.
* `running` is a set: the vector is sorted by id, so its order carries nothing. `ended`, `checked`,
  `heard`, `born`, `paid`, `saved`, `history`, `agreed`, `touched` and their like are history, and no
  action's guard reads them.
* A schedule in `Enforcer` is the set of windows it now brings. `EditSchedule` adds or removes one at any
  moment, also between `Observe` and `Pass`; it stands for a calendar that changes, for an edited
  configuration and for the refusal of an edit, which leaves all as it is. In `Blocking` and `Android` the
  windows come from the document and the subscriptions themselves.
* `Reconcile` is written without the loop of the code: since merging is associative, commutative and
  idempotent (proved in `SessionsProofs`), the activations of one profile are joined first.
* `Release` is modelled on a device that has an id of its own, which it has once it is set up to
  synchronise. `OwnRelease` is evidence from then on; after a restart the code has it again from the
  first synchronisation on, which is not told apart.
* `Enforcer.Pass` leaves out accounting for usage, blocking itself and the records for the statistics:
  none of them is read by what decides about a lock. Accounting and blocking are `Blocking`.
* A document is a record with the fields the code's `Config` has, as far as a decision reads them. A name
  is a sequence of words, a text a set of words, a pattern what it matches; an observation has its names
  already. The order of a list is kept where the code reads it and a set where it does not (platforms).
* Trusted time goes forward by one in most modules. In `Calendar` and `Ics` a day is `DAY` units long and
  zones are functions from instants to offsets, so that a change of the clock is a step of the function.
* The devices of `SharedLock` and of `Mirror` share one `now`. In the code each has a trusted clock of its
  own; how far that may be from the real time is `TrustedClock`, and that two devices may differ is
  modelled only for the beacons of `Pairing`, where it decides who fades.
* The document of `Android` is read when the process starts, and may be read as nothing (`Readable`): the
  file cannot be loaded (`CurfewRuntime.kt` 901-909), or it has a rule on a URL or a keyword while the
  detector sees applications only (`ConfigStore.guard`). A phone without a profile is then given the
  starter's (`Seeded`). An edit the core took may still be refused by the store or fail to be written
  (`RefuseConfig`): memory goes by it, the file has the one before, and the rest of the call is not done.
  The clocks are read and the boots written in two steps (`Observe`, `WriteBoots`), and a screen only reads.
  Of the two loops that do both, one is at it at a time. The log is in memory until it is saved, at the
  end of a pass of sync or with what another device sent, and what was not saved goes with the process.
* In `Pairing` an identity is a device and how often its keys were made anew, and a hash is what it was
  computed from. In `OpLog` a signature is believed when its author wrote the entry.
* `Processes` is a composition of parts that share no state: in each behaviour one of them moves. Its
  specification `System` gives each part the fairness of its own module.

## What the runs check

| Run | Configuration | Question |
|---|---|---|
| `shared_gossip` | `SharedLock_gossip.cfg` | Do two devices that heard the same, in any order and with stale stores read back in between, hold their user to the same? Does a hold ever get lighter? |
| `enforcer_locks` | `Enforcer_locks.cfg` | Does the enforcer implement `Commitment`? Can a whole-device profile begin without its own announcement having stood for its time? |
| `enforcer_schedule` | `Enforcer_schedule.cfg` | With overlapping windows, edits and passes at stale instants: is a lock ever lightened while it runs, does an occurrence that was ended by hand stay ended, does the last-resort release always arrive? Is the ration of passes kept while it is spent, refused and filled again? |
| `service_crash` | `Service_crash.cfg` | Is a kill or a reboot, at any point, a way out, a way to get a pass back, or a way to be locked in? |
| `clock_tamper` | `TrustedClock_tamper.cfg` | Can time be won, or a restart feigned, by setting the clock and killing the service? What does an honest machine lose? |
| `processes` | `Processes_parts.cfg` | Is the last saved state what is loaded, wherever a save stopped? Does whoever asks hear? Does the service come back while it has something to keep, and stay away when it has not? Is only what was compared believed? Do devices that went silent fade? Does the icon speak true? |
| `gossip_spread` | `Gossip_spread.cfg` | With conversations cut at any frame, a lossy and capped folder, kills, compaction and revocations: is there one history, is nobody heard who was revoked, and do those who reach each other come to hold the same? |
| `mirror_sync` | `Mirror_sync.cfg` | Does any adoption free anybody, bring back what was ended, count a use twice or forget a pass? Does what happened on one device arrive on the other? |
| `blocking_machine` | `Blocking_machine.cfg` | Is use charged once, does an outage lift a block, do edits weaken what runs, is the right thing closed, is the machine given back? |
| `calculations` | `Calculations_answers.cfg` | Do the pure parts answer what going through every second answers, and do they agree with one another? |
| `android_phone` | `Android_phone.cfg` | On the phone, through edits, deaths and sync: are rules kept, do sessions leave by right only, is the alarm ever too late? |
| `android_passes` | `Android_passes.cfg` | violation, see below |

### Bounds

Time runs to 3 to 6 seconds in the session modules and the waits of requests, proofs and announcements are
one to three of them, so that each can begin, run out and begin again. The ration's waits are longer, and
`enforcer_schedule` has a story of their own for them (`MCWaysOut`, `Ration`): two passes in a window of 5
with a cooldown of 2, in a world that lasts to 6. Passes at 0 and 2, or at 1 and 3, show the cooldown
refusing and letting through; they bar 4 by the quota, and 5, or 6, is open again because the window has
slid past the first of them. `service_crash` has one pass in two seconds; what it asks of a crash is
`PassesArePaid`, and that the ration holds through any number of crashes is the theorem
`RationThroughCrashes`. The other story of `enforcer_schedule`, `Hours`, has no passes; in `enforcer_locks`
two may be spent, a cooldown apart, against sessions under several conditions. `MaxMinted` bounds the
sessions started by hand, `MaxBoots` the boots, `MaxVersion` the changes between saves, `MaxDrift` how far
the wall clock may be moved, `MaxFaults` and `MaxKills` the panics and kills. A profile's sessions only
meet those of the same profile, the freeze slot and the ration, so one profile, or one of each kind, shows
every meeting.

The modules with much data (`Mirror`, `Blocking`, `Android`, `Calculations`, the parts of `Processes`) run
in *stories*: an initial document, what may be asked, which kinds of act happen, how many of them (`acts`)
and until when. Each story is a situation with a name in its MC module, and everything inside it is free:
order, repetition, and where passes, kills and time fall. Every act of a module occurs in some story.

A day is `DAY` units long: 10 on the phone, 4 with a clock change of up to `LONGEST_GAP` = 3 in
`calculations`, where every instant of three or four days is asked for in every zone listed, and 1000 in
`blocking_machine`, where nothing depends on the day and the run stays inside one. In `gossip_spread`
three devices in a row, in a star or with a folder are the shapes in which an entry travels through
another device, is asked for from two sides at once, or goes by file only. In `processes` the places of the
channel are a few: the service's own cap is never reached at its real size, and a small one stands for it,
so that full, filling and given back all happen. In `shared_gossip` the two
devices are interchangeable, hence the symmetry; no other run uses it.

`CHECK_DEADLOCK FALSE` stands only where a bounded world really stops: its story is over, its acts are used
up, the last boot has been reached.

### Fairness

* `enforcer_schedule` (`ReleaseArrives`): weak fairness of the clock and of the loop's two steps. The loop
  is `while !stop()` with a two-second sleep, it takes a mutex that handlers hold only while they answer,
  and the fetch it waits for has a timeout. Nothing is assumed of the user.
* `gossip_spread` (`Together`): beacons and the loop come round for ever, a conversation makes its next
  step or runs into its timeout, and the client of the folder goes on carrying. Nobody has to write, cut,
  kill or revoke.
* `mirror_sync` (`Shared`): passes that hear everything are repeated; `blocking_machine` (`GivenBack`): the
  loop, time, the save and the watchdog go on. Both are weak fairness with the enabling condition written
  out, since the actions quantify over data that makes `ENABLED` expensive to evaluate.
* `processes`: in `Pipe` each connected caller's steps are weakly fair and the mutex strongly, because the
  loop sleeps between its passes; nothing is asked of a client that idles nor of a subscription. In
  `Supervision` the service manager keeps its word and each watchdog looks every three seconds. In
  `Pairing` the loop gets round to `start_sync` and `install_pairing`.

### What the violation shows

`android_passes`: a pass of sync reads the passes at its start, folds them into the log, and assigns the
ration the log then holds at its end, outside the gate that serialises the calls of the app. A pass spent
in between is in neither and is forgotten (`ffi/sync.rs` 328), while `CurfewRuntime.kt` 290-291 calls a
forgotten pass one "the user gets back for free", and `emergency.rs` 14 says that uses only accumulate.

### Where a property is weaker than one would first write it

* `FreezeAnnounced` counts the warning from the instant in the announcement. A scheduled freeze is
  announced at the instant read before the fetch, so the time to cancel in is shorter by the fetch.
* `PassesArePaid` and `CrashIsNoWayOut` are about sessions that have been saved. One started and ended
  between two passes leaves no trace, and on an idle machine up to `PERSIST_IDLE` seconds of ends are
  undone by a kill.
* In `SharedLock` a device runs the profile from the beginning, under no lock; `AskOn` is the handler of
  `session.rs`, which does not look at the lock it is asked about. It says of the delayed release only that
  a merge and a request never move it later: `harden` keeps the later of two, so a store that is behind
  can.
* `PassRation` bounds the gap between two passes by the shorter of cooldown and window: `check` looks for
  the last use only inside the window, and no configuration with a longer cooldown is refused.
* `NoFreeTime` is about one boot. Across a reboot the wall clock is believed, as `clock.rs` says.
  `LagBounded` needs the last restart to have been `Noticed`: a machine that is switched off soon after a
  start and first read later in its next one has not restarted as far as `BootCounter` can tell.
* `EndedStaysEnded` of the enforcer is about the windows cut short by the *last* end of their profile:
  `dismissed` keeps one instant per profile, so with adjacent windows a stale pass and a second end can
  bring the later one back. `EndedStaysEnded` of `Mirror` is about weekly windows.
* `CountedOnce` bounds what is counted by what was used times `2 ^ restarts`. What a device has published
  is remembered in memory only, so after a restart it publishes again what it meters by then, which is
  its own use and what it heard of the others', and one use may be counted once more. The header of
  `mirror.rs` (13-15) says of the set that it "stops a device counting its own minutes twice"; within one
  life of the process it does.
* `NeverFreedBySync` leaves out sessions a release was asked for on some device: the log merges it into a
  newer session of the same profile.
* `OutageKeepsBlock` is about schedules that pad an event by less than `WINDOW_SECONDS` (`Reaches`: only the
  events of the 36 hours on either side are read, so a longer pad begins late or ends early), about events
  that do not end before they start (such a one may be filtered out while its padded span covers now), and
  about sources the service knew of when it began or was taught since (`Taught`): the stored copies are
  read at the start only.
* `RulesHold` leaves out an edit of an allow-only profile and of the zone, which the code lets through.
* `UsedWhileAwake` allows one grace for every sleep: the first beat after waking is worth one. It bounds a
  meter by what all its witnesses may say together (`Witnesses`): the tray charges a keyword's or a whole
  device's budget by what is in front, and a browser's extension charges the same budget by its beats.
* `EditsAgree` leaves out a window with the profile, days and minutes of another: the command calls it
  equal, although its locks and `enabled` may differ, and drops it.

### Behaviour worth knowing

The models keep what the code does where nothing in the repository promises otherwise, or where a promise
is a sentence of a comment. Among what they keep: after a freezing session is ended by hand the next pass
announces the freeze again for as long as its window lasts; a proof checked during the fetch may be pruned
by the pass that follows; the save after a recovery copies the damaged main file over the good backup; a
clean stop saves nothing, and the handler of Stop reads a file that lags memory by up to a pass; watchdogs
accumulate over service restarts; a pairing in flight is lost when sync restarts and re-reads its store; a
revoked device can be accepted again with the same unexpired invite; clocks further apart than a beacon is
worth never hear each other; an unreachable poll clears what the tray had explained; a shorter wait under
one title serves the gate for every title of that program until it is closed; the folder's cap keeps the
oldest segments; a revocation does not travel; a lock strengthened on one device is not published again; a
minute in a browser with the extension is two minutes of a budget on a keyword or on the whole device, one
from the tray and one from the beats; a phone whose file was not read is given the starter profile *and
writes it over the file*, although `ConfigStore.guard` says that "nothing here rewrites the file" and the
comment above `seedStarterProfile` that who deletes the profile "does not get it back on the next launch"
(he does, unless another profile is left); an edit the store refuses holds until the process dies; and a
subscription that is dropped, and taken up again by a reload after the service was restarted without it, is
served nothing from its stored copy, so that an empty answer is then believed and written over it.

## What is proved

The theorems hold for any number of devices, profiles, conditions, locks, windows, documents, programs,
boots, callers and instants. Assumed are only the named assumptions on the constants, which TLC evaluates
in each run: the absent value is none of the values it stands beside, the waits and quotas are natural
numbers, the offered locks, windows and stories have their types. Of the stories of `Blocking` and of
`Android` that is: the document a story begins with is one `Config::validate` accepts, the events a
calendar gives are finitely many and have instants, and an offset is known of some instant of every zone
and of finitely many. In `Blocking` a tick is no longer than a grace (2 s and 90 s in the code) and the
browsers are finitely many.

* `SharedLockProofs`: `TypeCorrect`, `DeliveryDoesNotMatter` (`SameNewsSameHold`) and `HoldOnlyGrows`
  (`NeverLighter`). What two devices hold after the same news is not inductive. The invariant `Inv` says
  what a hold *is*: its conditions are the union of those heard and its end is the latest of the ends heard
  (`Sums`), and what is in the store is a part of that (`Behind`), so that hardening by it changes neither.
* `SessionsProofs`: `Merge` commutes, associates and is idempotent, with the unlocked lock as its unit; a
  merge is at least as strict as either part in every field (`MergeIsAtLeast`), and so is a lock whose
  release has been asked for. Then what each operation on `Sessions` preserves. `Orderly` (one session per
  profile, whose id says so and has a number already minted), `Follows` (every session is new or held at
  least as hard as before; it composes, since `AtLeast` is transitive), and for `Reconcile` which sessions
  it begins. The phone's ids carry no number: of them it is shown that an id names one session (`Well`),
  and that an operation adds none but those it was asked for (`Grows`).
* `EnforcerProofs`: `TypeCorrect`, `NoSecondSession`, `NothingLightens` (`NeverWeaker`),
  `NothingEndedReturns` (`EndedStaysEnded`), `RationKept` (`PassRation`), `NoUnannouncedFreeze`
  (`FreezeAnnounced`), and `EnforcerKeepsThePromise`: the refinement of `Commitment`, initial states to
  initial states and every step to a step or a stutter. `Inv` adds that nothing remembered lies in the
  future (`Dated`: without it a pass could be counted in the wrong window), that a proof which still counts
  was really checked (`Checked`), that a standing countdown has its warning before it (`Announced`), and
  that the instant kept for a profile lies in each window its last end cut short (`Remembered`: this is
  where the clamp of `end` is needed). A step keeps `Inv` and leaves sessions that follow from those before
  (`Good`), one lemma per action.
* `EnforcerProofs`, of the enforcer inside the service that is killed and comes back: `OneSessionThroughCrashes`,
  `RationThroughCrashes` (`PassRation`), `EveryPassIsPaid` (`PassesArePaid`), `ACrashFreesNobody`
  (`CrashIsNoWayOut`). `SInv` is the enforcer's `Inv` with: what is in the file could be what the enforcer
  holds (`Readable`), a process that is down holds nothing (`Down`), every id was given by now (`Known`),
  the boot kept for a session is the one it was started in (`Dates`), what a pass has seen is in the file
  (`Saved`), a use the file does not count is for a session the file would bring back (`Billed`), and what
  is proved can be proved (`Evidence`). The steps of the enforcer are not proved again: `NextGood` is cited.
* `TrustedClockProofs`: `TypeCorrect`, `RestartNotFeigned` (`EvidenceMeansRestart`), `NoTimeIsWon`
  (`NoFreeTime`) and `LittleTimeIsLost` (`LagBounded`). `Inv` says that the counter and the witness were
  fed by one reading (`Paired`), that the uptime has grown since by the real time if that was in this boot
  (`Elapsed`), and that a counter that moved since a session was seen means an earlier boot (`Sighted`);
  and it says so of the state file as of memory, since a killed service comes back from the file. For the
  bound on what is lost it is joined by how far each remembered witness may lie behind (`Kept`).
* `ProcessesProofs`, about the composition: `SavedIsKept` (`StateSurvives`) from `FileInv`, where a running
  session that was saved is in the main file, has its witness, and is in the backup once the next save is
  past its copy; `PlacesAreGiven` (`OnlyWhenFull`) from `ChannelInv`, by which the two counters are the
  cardinalities of who is served and who is calling; `AcceptedWasCompared` (`ComparedIsHeld`) and
  `SilenceIsNoticed` (`GhostsFade`) from `DevicesInv`, by which whoever holds keys is the device they are
  of, a phrase covers the keys it was shown under, and a beacon in the air is no newer than its sender's
  clock; and `TheIconIsTrue` (`TraySpeaksTrue`) from `IconInv` and lemmas about what a lock lets a menu
  offer.
* `BlockingProofs`: `RulesAreKept` (`KeptRulesStand`) from `DocumentInv`, by which what a session was
  promised stands in the document the service goes by and in the kept copy for as long as the session runs
  or is saved; and `ClosesAsItShould` (`ClosesRightly`) from `WatchInv`, which relates what the watch
  remembers of a browser to when it really spoke, and `WaitInv`, which relates a wait that is served to
  the passes that counted it. `OutagesAreNoWayOut` (`OutageKeepsBlock`) is not inductive: after a restart
  nothing but the disk has a calendar. `FeedInv` says that what a source was last taught is both served and
  on the disk, and asking for all the sources keeps that, whatever the order (`AskedKeeps`). The fold over
  the sources, and what it has for every set of them, are shown by the least set that would be a
  counterexample (`FoldExists`); `CalledRun` adds that the windows of a document are finitely many and end,
  so that the latest end a pass chooses is one that is still to come. `NothingIsUsedAsleep`
  (`UsedWhileAwake`) needs to know who said what, which no meter records: `UseInv` says that there is
  (`Billed`) an amount for the tray and one for each browser that together cover every meter, each of them
  within the time awake, and such that what its witness may still say of the time since it last spoke stays
  within it too. The same holds of the copy on the disk, which a restart takes up with the instant of its
  last pass. Sums over any finite set come from the same least counterexample (`SumIs`, `SumStep`).

* `GossipProofs`: `HistoryIsOne` (`OneHistory`), `OnlyPeersAreHeard` (`RevokedUnheard`) and
  `LittleIsForgotten` (`NothingUnlearned`), for any devices, networks, folders, entries, caps and number of
  conversations. What a log holds of an author is a stretch of one history that begins where its checkpoint
  ends (`Whole`). Taking in a batch keeps that only if the batch has no gap either, so `SpreadInv` says it
  of every batch in a conversation, in an outbox or in an inbox (`Unbroken`): a batch with a hole would
  let in what lies above it. It says further that the file on disk has the checkpoint of the log and no entry
  the log lacks, so that a kill only cuts the end off a history; that the segments a reader finds are
  numbered apart; that nobody listens to itself, so that no message changes what a device has written; and,
  while no entry was lost with its author, that every log and every batch holds beginnings of what the
  author has (`Truth`), from which two devices hold beginnings of one history. Every action does no more
  than `Tended` allows, and what `Tended` allows keeps `SpreadInv`. `Collected` and `ReadAll` are recursive
  functions: `Iterated` proves that they exist, by a least counterexample, and what holds of every log
  they pass through is proved in the same way.
* `AndroidProofs`: `DocumentSafe`, `RulesAlwaysHold` (`RulesHold`), `RightSafe` and `OnlyEverByRight`
  (`OnlyByRight`). That an edit keeps the rules is a fact about one call, once the documents are known to be
  lists of rules and the one in memory to be valid (`DocumentInv`): where `rules_weakened_by` names no rule,
  `decide` blocks at least as much of every observation and every use. The order of the rules does not
  matter to it, so the lists are compared as sets. That a session leaves by right only is not. `RightInv`
  says what the evidence is worth when it is used: a session in memory or in a row is one of those that
  came, with its arrival noted, and the only one of its profile there (`RunningInv`); a proof was really
  checked, and a release known of is this device's own or stands in the log (`EvidenceInv`); and there is a
  boot, no later than the real one, up to which the counter has told the boots apart (`BootInv`), so that
  no session is believed to have seen a restart it has not. The process may die between memory and row:
  hence what is said of memory is said of the rows, which may be older than it (`Tells` holds of the
  boots in both). What the pass of sync ends is bounded by what it took
  out of the log, which is no more than is in it.

### What is only model-checked, and why

* `ReleaseArrives`, `Heard`, `ComesBack`, `LeavesAlone`, `ListensOncePaired`, `Together`, `Shared` and
  `GivenBack`: liveness under fairness, which is out of the prover's reach.
* `EndedStaysEnded`, `CountedOnce`, `NeverFreedBySync` of `Mirror`: the state of a device is a fold over the
  log (`Replay`), by recursion over a sequence.
* `CalendarAgrees`, `DecisionsAgree`: recursive definitions against a reference definition.
* `NothingMissed` of `Android`: `next_change` looks at the next edges of every window in every zone, and the
  claim is about all instants up to them, by the division of days into minutes across changes of the clock.

## What is not modelled

* The downtime report: a subtraction and a threshold for one sentence.
* Envelopes and signatures: what is sealed is opened by whom it was sealed for, and a signature is its
  author's.
* The browser extension: what the service makes of its beats is in `Blocking`.
* Encodings, access lists, system calls, sockets, the wire format of DNS, the parsing of URLs, of the
  configuration file and of calendar text before its properties are known.
* The screens of the app, the tray and the phone, wording, listings, statistics records, logs.
* A freeze asked for by a peer: no request of the service makes one.

## What comes next

1. `TrustedClock`: an abstract clock that never runs ahead of real time, and the refinement.
2. `NeverFreedBySync` of `Mirror`: the state of a device is a fold over the log, which a least
   counterexample reaches as it does `Asked` in `BlockingProofs` and `Collected` in `GossipProofs`.
