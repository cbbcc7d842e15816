-------------------------------- MODULE Tray ---------------------------------
(***************************************************************************)
(* The icon by the clock (curfew-tray): what its watch explains on screen  *)
(* (shell.rs, overlay.rs), what its menu offers (menu.rs, from the offers  *)
(* of lock.rs and tick.rs), and what a click on an item does, which may    *)
(* come long after the menu was made.  The sentences are left out, and so  *)
(* are the items about a countdown, which change no session.               *)
(*                                                                         *)
(* What the passes of the service close and hold is any report of it here. *)
(***************************************************************************)
EXTENDS Integers, FiniteSets, FiniteSetsExt

CONSTANTS
  None,
  Scenes,                  \* [about, apps, slow, freezes, profiles, locks, until]
  NOTICE_SECONDS,          \* the least there is between two notices
  DELAYED_RELEASE_SECONDS,
  Quota, Cooldown          \* of the emergency passes

VARIABLES
  scene, now,
  memory,    \* what the watch remembers of its last poll: [closed, announced, waiting, started, last]
  notices,   \* what that poll put on screen
  said,      \* history: [explained, over, last]
  running,   \* the sessions of the service, each [id, lock]
  proofs,    \* proofs: <<id, condition>> shown to the service
  releases,  \* the sessions this device has released
  spent,     \* when passes were spent
  menu,      \* the items on screen
  outcome    \* what the last click was and what came of it

vars == <<scene, now, memory, notices, said, running, proofs, releases, spent, menu, outcome>>

\* "peer" is the release of this device and "far" that of another.
Conditions == {"timer", "credential", "confirm", "tag", "restart", "peer", "far"}

Lock == INSTANCE Locks

Nothing == [do |-> "nothing", id |-> None, answer |-> None, fresh |-> FALSE]

Init ==
  /\ scene \in Scenes /\ now = 0
  /\ memory = [closed |-> {}, announced |-> None, waiting |-> {}, started |-> {}, last |-> None]
  /\ notices = {} /\ said = [explained |-> {}, over |-> {}, last |-> None]
  /\ running = {[id |-> l, lock |-> l] : l \in scene.locks}
  /\ proofs = {} /\ releases = {} /\ spent = {}
  /\ menu = {} /\ outcome = Nothing

-----------------------------------------------------------------------------
(***************************************************************************)
(* The watch.  A report is [closed, delayed, freeze, profiles], or None    *)
(* when the service does not answer.                                       *)
(***************************************************************************)
Notice(kind, what) == [kind |-> kind, what |-> what]

\* A mutant: every notice is worth showing.
should_show_Always(newly, last) == newly # {}

should_show(newly, last) == newly # {} /\ (last = None \/ now - last >= NOTICE_SECONDS)

Countdown(report) ==
  IF report.freeze \in {None, memory.announced} THEN {} ELSE {Notice("freeze", {report.freeze})}

newly_delayed(report) == report.delayed \ memory.waiting
newly_closed(report) == report.closed \ memory.closed

\* With nothing remembered, what is running counts as found and not as begun.
newly_started(report) == IF memory.started = {} THEN {} ELSE report.profiles \ memory.started

\* What is held is told before what was closed, and that before what began.
Told(report) ==
  IF newly_delayed(report) # {} THEN {{Notice("waiting", {e})} : e \in newly_delayed(report)}
  ELSE IF newly_closed(report) = {} /\ should_show(newly_started(report), memory.last)
       THEN {{Notice("started", newly_started(report))}}
       ELSE IF should_show(newly_closed(report), memory.last)
            THEN {{Notice("closed", newly_closed(report))}} ELSE {{}}

Remembered(report, told) ==
  IF newly_delayed(report) # {}
  THEN [memory EXCEPT !.announced = report.freeze, !.waiting = report.delayed]
  ELSE [closed |-> report.closed, announced |-> report.freeze, waiting |-> report.delayed,
        started |-> report.profiles, last |-> IF told = {} THEN memory.last ELSE now]

Explained(told) == UNION {n.what : n \in {n \in told : n.kind = "closed"}}

watch_closures(report) ==
  /\ IF report = None
     THEN memory' = [memory EXCEPT !.closed = {}] /\ notices' = {} /\ said' = [said EXCEPT !.explained = {}]
     ELSE \E told \in Told(report) :
            /\ memory' = Remembered(report, told)
            /\ notices' = Countdown(report) \cup told
            /\ said' = [explained |-> (said.explained \cap report.closed) \cup Explained(told),
                        over |-> said.over \cup ({memory.announced} \ {report.freeze}),
                        last |-> IF \E n \in told : n.kind # "waiting" THEN now ELSE said.last]

Reports ==
  {None} \cup [closed : SUBSET scene.apps, delayed : SUBSET scene.slow,
               freeze : {None} \cup {f \in scene.freezes \ said.over : f > now},
               profiles : SUBSET scene.profiles]

Poll ==
  /\ scene.about = "notices" /\ now < scene.until
  /\ now' = now + 1
  /\ \E report \in Reports : watch_closures(report)
  /\ UNCHANGED <<scene, running, proofs, releases, spent, menu, outcome>>

-----------------------------------------------------------------------------
(***************************************************************************)
(* The menu.                                                               *)
(***************************************************************************)
Offers(l, releasable, released) ==
  [credential |-> "credential" \in l.conditions,
   confirm |-> "confirm" \in l.conditions,
   elsewhere |-> l.conditions \ ({"credential", "confirm", "timer"} \cup IF releasable THEN {"peer"} ELSE {}),
   peer_release |-> releasable /\ ~released,
   delayed_release |-> l.conditions # {} /\ l.delayed_release_at = None]

OffersOf(s) == Offers(s.lock, "peer" \in s.lock.conditions, s.id \in releases)

Item(do, id) == [do |-> do, id |-> id]

\* The way to end a session here and now, if the menu knows one.
Ending(s, offers) ==
  CASE offers.elsewhere # {} -> {}
    [] offers.elsewhere = {} /\ offers.credential -> {Item("unlock", s.id)}
    [] offers.elsewhere = {} /\ ~offers.credential /\ offers.confirm -> {Item("confirmed_end", s.id)}
    [] OTHER -> IF s.lock.ends_at # None /\ s.lock.ends_at > now THEN {} ELSE {Item("end", s.id)}

remaining == IF Quota > Cardinality(spent) THEN Quota - Cardinality(spent) ELSE 0

Items(s) ==
  LET offers == OffersOf(s) IN
  Ending(s, offers)
    \cup (IF offers.peer_release THEN {Item("release", s.id)} ELSE {})
    \cup (IF (offers.credential \/ offers.elsewhere # {}) /\ remaining > 0
          THEN {Item("emergency", s.id)} ELSE {})
    \cup (IF offers.delayed_release THEN {Item("wait", s.id)} ELSE {})
    \cup (IF s.lock.delayed_release_at # None THEN {Item("release_note", s.id)} ELSE {})

Menu == UNION {Items(s) : s \in running}

show_menu ==
  /\ scene.about = "clicks" /\ menu = {}
  /\ menu' = Menu /\ menu' # {}
  /\ UNCHANGED <<scene, now, memory, notices, said, running, proofs, releases, spent, outcome>>

-----------------------------------------------------------------------------
(***************************************************************************)
(* A click, as act turns it into a request and the service answers it.     *)
(***************************************************************************)
Named(id) == {s \in running : s.id = id}

\* What the service can prove of a session's lock.  No proof grows stale in the time there is.
Proven(id, shown, released) ==
  {p[2] : p \in {p \in shown : p[1] = id}} \cup (IF id \in released THEN {"peer"} ELSE {})

Ended(id, satisfied) == {s \in Named(id) : Lock!CanRelease(s.lock, now, satisfied)}

Done(over) ==
  /\ running' = running \ over
  /\ outcome'.answer = IF over = {} THEN "refused" ELSE "ok"

Forgotten(over) == {p \in proofs : p[1] \notin {s.id : s \in over}}

\* Only what was shown to the user is claimed.
Claimed(do) == IF do = "confirmed_end" THEN {"confirm"} ELSE {}

handle_end(item) ==
  LET over == Ended(item.id, Claimed(item.do) \cup Proven(item.id, proofs, releases)) IN
  /\ item.do \in {"end", "confirmed_end"}
  /\ Done(over) /\ proofs' = Forgotten(over) /\ UNCHANGED <<releases, spent>>

\* The password is right, or there would be nothing to prove.  What it proved is not forgotten.
handle_unlock(item) ==
  /\ item.do = "unlock"
  /\ proofs' = proofs \cup {<<item.id, "credential">>} /\ UNCHANGED <<releases, spent>>
  /\ Done(Ended(item.id, Proven(item.id, proofs', releases)))

\* Recorded whether or not it ends anything.
handle_release(item) ==
  LET over == Ended(item.id, Proven(item.id, proofs, releases \cup {item.id})) IN
  /\ item.do = "release"
  /\ releases' = releases \cup {item.id} /\ UNCHANGED spent
  /\ running' = running \ over /\ outcome'.answer = "ok" /\ proofs' = Forgotten(over)

handle_emergency(item) ==
  /\ item.do = "emergency"
  /\ UNCHANGED <<proofs, releases>>
  /\ IF remaining = 0 \/ \E t \in spent : now < t + Cooldown
     THEN outcome'.answer = "no_pass" /\ UNCHANGED <<running, spent>>
     ELSE /\ spent' = spent \cup {now}
          /\ running' = running \ Named(item.id)
          /\ outcome'.answer = IF Named(item.id) = {} THEN "refused" ELSE "ok"

handle_request_release(item) ==
  /\ item.do = "wait"
  /\ running' = {IF s.id = item.id THEN [s EXCEPT !.lock = Lock!RequestRelease(@, now)] ELSE s : s \in running}
  /\ outcome'.answer = IF Named(item.id) = {} THEN "refused" ELSE "ok"
  /\ UNCHANGED <<proofs, releases, spent>>

chosen(item) ==
  /\ menu' = {}
  /\ outcome' \in [do : {item.do}, id : {item.id}, fresh : {item \in Menu},
                   answer : {"ok", "refused", "no_pass"}]
  /\ \/ handle_end(item) \/ handle_unlock(item) \/ handle_release(item)
     \/ handle_emergency(item) \/ handle_request_release(item)
  /\ UNCHANGED <<scene, now, memory, notices, said>>

\* Time passes, and what has run out is gone at the next pass.
Later ==
  /\ scene.about = "clicks" /\ now < scene.until
  /\ now' = now + 1
  /\ running' = {s \in running : ~Lock!IsExpired(s.lock, now')}
  /\ UNCHANGED <<scene, memory, notices, said, proofs, releases, spent, menu, outcome>>

Next == Poll \/ show_menu \/ Later \/ \E item \in menu : chosen(item)

Spec == Init /\ [][Next]_vars

-----------------------------------------------------------------------------
(***************************************************************************)
(* What is put on screen is news: no closed app is explained again while   *)
(* it stays closed and the service answers, no countdown that is over is   *)
(* announced, and two notices about blocks are never close together.       *)
(***************************************************************************)
News ==
  \A n \in notices' :
    /\ n.kind = "closed" => n.what \cap said.explained = {}
    /\ n.kind = "freeze" => n.what \cap said.over = {}
    /\ n.kind \in {"closed", "started"} => said.last = None \/ now - said.last >= NOTICE_SECONDS

(***************************************************************************)
(* The menu shows a way out of every lock, or when it lands.  An item that *)
(* ends a session ends that one and no other, and when nothing has changed *)
(* since the menu was made it is refused only for the timer, which runs    *)
(* out by itself, or for the release the same menu offers, or, with a      *)
(* password, for the confirmation.                                         *)
(***************************************************************************)
WaysOut ==
  \A s \in running : s.lock.conditions # {} =>
    \E i \in menu' : i.id = s.id /\ i.do \in {"wait", "release_note"}

Answered ==
  LET mine == Named(outcome'.id) IN
  /\ running \ mine \subseteq running'
  /\ (outcome'.fresh /\ outcome'.answer = "refused") =>
       \E s \in mine :
         \/ "timer" \in s.lock.conditions
         \/ outcome'.do = "unlock" /\ "confirm" \in s.lock.conditions
         \/ "peer" \in s.lock.conditions /\ s.id \notin releases

TraySpeaksTrue ==
  [][/\ scene.about = "notices" => News
     /\ menu' # {} /\ menu = {} => WaysOut
     /\ menu' = {} /\ menu # {} => Answered]_vars
=============================================================================
