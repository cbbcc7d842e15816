------------------------------- MODULE Mirror -------------------------------
(***************************************************************************)
(* Several devices and what their log makes of each other's sessions,      *)
(* passes, releases, use and calendars: curfew-sync/src/mirror.rs between  *)
(* the enforcer of each device and the fold of oplog.rs.                   *)
(*                                                                         *)
(* wrote[a] is the chain of author a and heard[d][a] how much of it d has; *)
(* Gossip shows that devices hold such prefixes.  They arrive at any       *)
(* moment; a pass is one step, because the service holds the enforcer      *)
(* throughout and nothing can be heard that it would see by halves.        *)
(***************************************************************************)
EXTENDS Sessions, Sequences, SequencesExt, FiniteSets

CONSTANTS
  Devices,          \* numbers, which is the order of the device ids
  Claimable,        \* conditions the user can always meet
  ReleasedBy,       \* [condition -> device]: Lock::PeerRelease
  Quota,            \* emergency passes in the time the model covers
  CALENDAR_SECONDS,
  Stories           \* what devices are configured to do and users may do: see Story

\* weekly[d]: the windows of d; asks: what may be started by hand; events: what calendars may hold;
\* does: the kinds of things users do; acts, until: bounds on how many of them there are and on the clock
Story == [weekly : [Devices -> SUBSET Activation],
          asks : SUBSET [profile : Profiles, seconds : Nat, locks : SUBSET Conditions],
          events : SUBSET Activation, does : SUBSET STRING, acts : Nat, until : Nat]

ASSUME MirrorAssumption ==
  /\ Devices \subseteq Nat
  /\ ReleasedBy \in [DOMAIN ReleasedBy -> Devices] /\ DOMAIN ReleasedBy \subseteq Conditions
  /\ {Quota, CALENDAR_SECONDS} \subseteq Nat

VARIABLES
  story,      \* as it is throughout
  now,        \* trusted time, on which the devices are taken to agree
  sessions,   \* sessions[d]: what d enforces
  used,       \* used[d]: the rollups of one budget, in the order d holds them
  passes,     \* passes[d]: instants of the emergency passes d knows of
  releases,   \* releases[d]: the sessions d agreed to release
  released,   \* released[d]: pairs <<session, device>> that d has from the log
  sees,       \* sees[d]: the events of d's own calendars
  peerEvents, \* peerEvents[d]: those it has from the others
  mirror,     \* mirror[d]: what d has said, see Said
  wrote,      \* wrote[a]: the chain of a
  heard,      \* heard[d][a]: how much of another's it has
  counter,    \* counter[d]: the enforcer's, which tells ids of one second apart
  acts,       \* how many things users have done
  history     \* what they did, see History

vars == <<story, now, sessions, used, passes, releases, released, sees, peerEvents, mirror,
          wrote, heard, counter, acts, history>>

Said == [sessions : SUBSET [id : Ids, profile : Profiles, release : Optional],
         used : Nat, passes : Nat, released : SUBSET Ids,
         calendar : {None} \cup [events : SUBSET Activation, at : Nat]]

NothingSaid == [sessions |-> {}, used |-> 0, passes |-> 0, released |-> {}, calendar |-> None]

\* The operations of the log.  what is the session, id, instant or events the operation is about.
Op(kind, at, what) == [kind |-> kind, at |-> at, what |-> what]

(***************************************************************************)
(* Entries as they are folded: by time, then author, then number.          *)
(***************************************************************************)
\* chains[a] is what a device has of a's chain.
EntriesAt(chains, at) ==
  UNION {{[author |-> a, no |-> n, op |-> chains[a][n]] :
            n \in {k \in DOMAIN chains[a] : chains[a][k].at <= at}} : a \in Devices}

Before(e, f) ==
  \/ e.op.at < f.op.at
  \/ e.op.at = f.op.at /\ e.author < f.author
  \/ e.op.at = f.op.at /\ e.author = f.author /\ e.no < f.no

Blank == [sessions |-> Default, used |-> <<>>, passes |-> {}, released |-> {},
          calendars |-> [d \in Devices |-> {}], still_locked |-> {}]

\* A peer's release lands no earlier than the full wait after it was asked for, and only where a lock is.
AnnouncedRelease(S, id, claimed, asked) ==
  LET at == Later(claimed, asked + DELAYED_RELEASE_SECONDS) IN
  [S EXCEPT !.running =
     {IF s.id = id /\ IsLocked(s.lock)
        THEN [s EXCEPT !.lock = Merge(@, [@ EXCEPT !.delayed_release_at = at])] ELSE s : s \in @}]

HeldBy(S, id, at) == \E s \in Running(S, id) : IsLocked(s.lock) /\ ~IsExpired(s.lock, at)

\* One entry folded into the state, judged at the instant of the replay.
Apply(state, e, at) ==
  CASE e.op.kind = "Start" -> [state EXCEPT !.sessions = Start(@, e.op.what)]
    [] e.op.kind = "End" ->
         IF HeldBy(state.sessions, e.op.what, at)
         THEN [state EXCEPT !.still_locked = @ \cup {e.op.what}]
         ELSE [state EXCEPT !.sessions = End(@, e.op.what, at, {})]
    [] e.op.kind = "ReleaseRequested" ->
         [state EXCEPT !.sessions = AnnouncedRelease(@, e.op.what.id, e.op.what.at, e.op.at)]
    [] e.op.kind = "Used" -> [state EXCEPT !.used = Append(@, e.op.what)]
    [] e.op.kind = "EmergencyUsed" -> [state EXCEPT !.passes = @ \cup {e.op.what}]
    [] e.op.kind = "Released" -> [state EXCEPT !.released = @ \cup {<<e.op.what, e.author>>}]
    [] e.op.kind = "Calendar" -> [state EXCEPT !.calendars[e.author] = e.op.what]

\* The elements of S from first to last.
InOrder(S, Lt(_, _)) ==
  [n \in 1 .. Cardinality(S) |-> CHOOSE x \in S : Cardinality({y \in S : Lt(y, x)}) = n - 1]

Replay(chains, at) ==
  LET entries == InOrder(EntriesAt(chains, at), Before)
      state[n \in 0 .. Len(entries)] ==
        IF n = 0 THEN Blank ELSE Apply(state[n - 1], entries[n], at)
  IN state[Len(entries)]

-----------------------------------------------------------------------------
\* begun, asked: profiles started by hand, or asked to be released; ends: <<device, profile, instant>> of the ends by hand;
\* used, spent: how much was used, and when passes were spent; restarts: how many there were
History == [begun : SUBSET Profiles, asked : SUBSET Profiles, ends : SUBSET (Devices \X Profiles \X Nat),
            used : Nat, spent : SUBSET Nat, restarts : Nat]

Init ==
  /\ story \in Stories
  /\ now = 0
  /\ sessions = [d \in Devices |-> Default]
  /\ used = [d \in Devices |-> <<>>]
  /\ passes = [d \in Devices |-> {}]
  /\ releases = [d \in Devices |-> {}] /\ released = releases
  /\ sees = [d \in Devices |-> {}] /\ peerEvents = sees
  /\ mirror = [d \in Devices |-> NothingSaid]
  /\ wrote = [d \in Devices |-> <<>>]
  /\ heard = [d \in Devices |-> [a \in Devices |-> 0]]
  /\ counter = [d \in Devices |-> 0] /\ acts = 0
  /\ history = [begun |-> {}, asked |-> {}, ends |-> {}, used |-> 0, spent |-> {},
                 restarts |-> 0]

log == <<mirror, wrote, heard>>
known == <<released, peerEvents>>

NewId(d, p) == <<p, 10 * now + counter[d] + 1>>

Does(kind) ==
  /\ kind \in story.does
  /\ acts < story.acts
  /\ acts' = acts + 1

-----------------------------------------------------------------------------
(***************************************************************************)
(* What happens to a device between two of its passes.                     *)
(***************************************************************************)
Begin(d, r) ==
  /\ Does("Begin")
  /\ sessions' = [sessions EXCEPT ![d] = Start(@, [id |-> NewId(d, r.profile), profile |-> r.profile,
                     started_at |-> now, lock |-> LockOf(r.locks, now + r.seconds)])]
  /\ counter' = [counter EXCEPT ![d] = @ + 1]
  /\ history' = [history EXCEPT !.begun = @ \cup {r.profile}]
  /\ UNCHANGED <<story, now, used, passes, releases, sees, known, log>>

Evidence(d, id) ==
  Claimable \cup {c \in DOMAIN ReleasedBy : <<id, ReleasedBy[c]>> \in released[d]}

EndByHand(d, id, evidence) ==
  /\ CanEnd(sessions[d], id, now, evidence)
  /\ sessions' = [sessions EXCEPT ![d] = End(@, id, now, evidence)]
  /\ history' = [history EXCEPT !.ends = @ \cup {<<d, id[1], now>>}]

Finish(d, id) ==
  /\ Does("Finish")
  /\ EndByHand(d, id, Evidence(d, id))
  /\ UNCHANGED <<story, now, used, passes, releases, sees, counter, known, log>>

Emergency(d, id) ==
  /\ Does("Emergency")
  /\ Cardinality(passes[d]) < Quota
  /\ passes' = [passes EXCEPT ![d] = @ \cup {now}]
  /\ sessions' = [sessions EXCEPT ![d] = End(@, id, now, Conditions)]
  /\ history' = [history EXCEPT !.ends = @ \cup {<<d, id[1], now>>}, !.spent = @ \cup {now}]
  /\ UNCHANGED <<story, now, used, releases, sees, counter, known, log>>

RequestTheRelease(d, id) ==
  /\ Does("RequestTheRelease")
  /\ sessions' = [sessions EXCEPT ![d] = AskRelease(@, id, now)]
  /\ history' = [history EXCEPT !.asked = @ \cup {id[1]}]
  /\ UNCHANGED <<story, now, used, passes, releases, sees, counter, known, log>>

\* Agreed to for a session that runs elsewhere as well as for one that runs here, which it may end.
Release(d, id) ==
  /\ Does("Release")
  /\ id \notin releases[d]
  /\ releases' = [releases EXCEPT ![d] = @ \cup {id}]
  /\ released' = [released EXCEPT ![d] = @ \cup {<<id, d>>}]
  /\ LET evidence == {c \in DOMAIN ReleasedBy : <<id, ReleasedBy[c]>> \in released'[d]} IN
     /\ sessions' = [sessions EXCEPT ![d] = End(@, id, now, evidence)]
     /\ history' = IF CanEnd(sessions[d], id, now, evidence)
                   THEN [history EXCEPT !.ends = @ \cup {<<d, id[1], now>>}] ELSE history
  /\ UNCHANGED <<story, now, used, passes, sees, counter, peerEvents, log>>

Use(d) ==
  /\ Does("Use")
  /\ used' = [used EXCEPT ![d] = Append(@, now)]
  /\ history' = [history EXCEPT !.used = @ + 1]
  /\ UNCHANGED <<story, now, sessions, passes, releases, sees, counter, known, log>>

\* A calendar is fetched and an event has appeared or gone.
Fetch(d, w) ==
  /\ Does("Fetch")
  /\ sees' = [sees EXCEPT ![d] = IF w \in @ THEN @ \ {w} ELSE @ \cup {w}]
  /\ UNCHANGED <<story, now, sessions, used, passes, releases, counter, known, log, history>>

\* The service starts again: the state file has what it enforces, and nothing has what it said.
Restart(d) ==
  /\ Does("Restart")
  /\ mirror' = [mirror EXCEPT ![d] = NothingSaid]
  /\ counter' = [counter EXCEPT ![d] = 0]
  /\ peerEvents' = [peerEvents EXCEPT ![d] = {}]
  /\ released' = [released EXCEPT ![d] = {}]
  /\ history' = [history EXCEPT !.restarts = @ + 1]
  /\ UNCHANGED <<story, now, sessions, used, passes, releases, sees, wrote, heard>>

Clock ==
  /\ now < story.until
  /\ now' = now + 1
  /\ UNCHANGED <<story, sessions, used, passes, releases, sees, counter, known, log, acts, history>>

-----------------------------------------------------------------------------
(***************************************************************************)
(* A pass of the loop: the enforcer reconciles and reaps, then the mirror  *)
(* says what is new here and takes back what everybody knows.              *)
(***************************************************************************)
Windows(d) == {w \in story.weekly[d] \cup sees[d] \cup peerEvents[d] : Covers(w, now)}

Enforced(d) ==
  Reap(Reconcile(sessions[d], now, Windows(d), [p \in Profiles |-> NewId(d, p)]), now)

ById(s, t) == s.id[2] < t.id[2]

Saying(m, s) ==
  LET before == {k \in m.sessions : k.id = s.id} IN
  (IF \E k \in before : k.profile = s.profile THEN <<>> ELSE <<Op("Start", now, s)>>)
  \o (IF \/ s.lock.delayed_release_at = None
         \/ \E k \in before : k.release = s.lock.delayed_release_at
      THEN <<>>
      ELSE <<Op("ReleaseRequested", now, [id |-> s.id, at |-> s.lock.delayed_release_at])>>)

About(s) == [id |-> s.id, profile |-> s.profile, release |-> s.lock.delayed_release_at]

\* Mirror::publish
Publish(d, S) ==
  LET m == mirror[d] IN
  FlattenSeq([n \in 1 .. Cardinality(S.running) |-> Saying(m, InOrder(S.running, ById)[n])])
  \o SetToSeq({Op("End", now, k.id) : k \in {j \in m.sessions : j.id \notin RunningIds(S)}})
  \o [n \in 1 .. Len(used[d]) - m.used |-> Op("Used", now, used[d][m.used + n])]

PublishPasses(d) ==
  LET ordered == InOrder(passes[d], <) IN
  [n \in 1 .. Len(ordered) - mirror[d].passes |->
     Op("EmergencyUsed", now, ordered[mirror[d].passes + n])]

\* A mutant: a release is told for sessions that run here.
PublishReleases_Here(d) ==
  SetToSeq({Op("Released", now, id) :
              id \in (releases[d] \ mirror[d].released) \cap RunningIds(sessions[d])})

PublishReleases(d) == SetToSeq({Op("Released", now, id) : id \in releases[d] \ mirror[d].released})

PublishCalendar(d) ==
  LET said == mirror[d].calendar IN
  IF \/ said = None
     \/ said.events # sees[d]
     \/ now - said.at >= CALENDAR_SECONDS
  THEN <<Op("Calendar", now, sees[d])>> ELSE <<>>

\* A peer's session for the occurrence this device's user ended, which is known by when it ends.
EndedHere(S, windows, s) ==
  \E w \in windows : w.profile = s.profile /\ w.end = s.lock.ends_at /\ IsDismissed(S, w)

\* Mutants: a session ended here is taken back; the log is believed about what is over.
Adopted_Anyway(S, believed, windows) ==
  LET taken == believed.running
      joined == FoldSet(LAMBDA b, T : Start(T, b), S, taken)
  IN FoldSet(LAMBDA id, T : End(T, id, now, {}), joined, RunningIds(joined) \ RunningIds(believed))

Adopted_LogDecides(S, believed, windows) ==
  LET taken == {b \in believed.running :
                  \/ ForProfile(S, b.profile) # {}
                  \/ ~DismissalCovers(S, b) /\ ~EndedHere(S, windows, b)}
      joined == FoldSet(LAMBDA b, T : Start(T, b), S, taken)
  IN FoldSet(LAMBDA id, T : End(T, id, now, Conditions), joined,
             RunningIds(joined) \ RunningIds(believed))

\* Mirror::adopt, of the sessions: what peers started is started here, and what is over for the log
\* ends here if the lock here has no more to ask.
Adopted(S, believed, windows) ==
  LET taken == {b \in believed.running :
                  \/ ForProfile(S, b.profile) # {}
                  \/ ~DismissalCovers(S, b) /\ ~EndedHere(S, windows, b)}
      joined == FoldSet(LAMBDA b, T : Start(T, b), S, taken)
  IN FoldSet(LAMBDA id, T : End(T, id, now, {}), joined, RunningIds(joined) \ RunningIds(believed))

\* Ends that are told are forgotten, adopted sessions count as said, ended ones as never said.
SaidSessions(d, S, after, believed) ==
  {About(s) : s \in {r \in S.running : r.id \in RunningIds(after)}}
  \cup {About(b) : b \in {r \in believed.running :
                           ForProfile(S, r.profile) = {} /\ r.id \in RunningIds(after)}}

\* What d holds of each chain once it has heard what is in ears and said what it has to say.
Chains(d, ears, said) ==
  [a \in Devices |-> IF a = d THEN wrote[d] \o said ELSE SubSeq(wrote[a], 1, ears[a])]

\* By its pass d has heard nothing new, or all there is.
AllEars(d) == [a \in Devices |-> IF a = d THEN heard[d][d] ELSE Len(wrote[a])]
Ears(d) == {heard[d], AllEars(d)}

Holds(d) ==
  [sessions |-> sessions[d], used |-> used[d], passes |-> passes[d], released |-> released[d],
   peerEvents |-> peerEvents[d], mirror |-> mirror[d], wrote |-> wrote[d], heard |-> heard[d],
   counter |-> counter[d]]

\* A mutant: what was counted here before the log was taken back is what was told.
Told_OwnCount(d, state) == Len(used[d])

Told(d, state) == Len(state.used)

Outcome(d, ears, S, said, state, after, calendar) ==
  [sessions |-> after,
   used |-> state.used,
   passes |-> state.passes,
   released |-> state.released,
   peerEvents |-> UNION {state.calendars[a] : a \in Devices \ {d}},
   mirror |-> [sessions |-> SaidSessions(d, S, after, state.sessions),
               used |-> Told(d, state),
               passes |-> Cardinality(state.passes),
               released |-> releases[d],
               calendar |-> IF calendar = <<>> THEN mirror[d].calendar
                            ELSE [events |-> sees[d], at |-> now]],
   wrote |-> wrote[d] \o said \o calendar,
   heard |-> ears,
   counter |-> IF RunningIds(S) \subseteq RunningIds(sessions[d])
               THEN counter[d] ELSE counter[d] + 1]

\* Whether a pass that has heard what is in ears leaves d with what next holds.
Leaves(d, ears, next) ==
  \E S \in {Enforced(d)} :
  \E said \in {PublishPasses(d) \o PublishReleases(d) \o Publish(d, S)} :
  \E state \in {Replay(Chains(d, ears, said), now)} :
  \E after \in {Adopted(S, state.sessions, Windows(d))} :
    next = Outcome(d, ears, S, said, state, after, PublishCalendar(d))

LoopPass(d, ears) ==
  \E S \in {Enforced(d)} :
  \E said \in {PublishPasses(d) \o PublishReleases(d) \o Publish(d, S)} :
  \E state \in {Replay(Chains(d, ears, said), now)} :
  \E after \in {Adopted(S, state.sessions, Windows(d))} :
  \E next \in {Outcome(d, ears, S, said, state, after, PublishCalendar(d))} :
    /\ sessions' = [sessions EXCEPT ![d] = next.sessions]
    /\ used' = [used EXCEPT ![d] = next.used]
    /\ passes' = [passes EXCEPT ![d] = next.passes]
    /\ released' = [released EXCEPT ![d] = next.released]
    /\ peerEvents' = [peerEvents EXCEPT ![d] = next.peerEvents]
    /\ mirror' = [mirror EXCEPT ![d] = next.mirror]
    /\ wrote' = [wrote EXCEPT ![d] = next.wrote]
    /\ heard' = [heard EXCEPT ![d] = next.heard]
    /\ counter' = [counter EXCEPT ![d] = next.counter]
    /\ UNCHANGED <<story, now, releases, sees, acts, history>>

-----------------------------------------------------------------------------
Next ==
  \/ Clock
  \/ \E d \in Devices :
       \/ \E r \in story.asks : Begin(d, r)
       \/ \E id \in RunningIds(sessions[d]) :
            Finish(d, id) \/ Emergency(d, id) \/ RequestTheRelease(d, id)
       \/ \E id \in UNION {RunningIds(sessions[e]) : e \in Devices} : Release(d, id)
       \/ Use(d)
       \/ \E w \in story.events : Fetch(d, w)
       \/ Restart(d)
       \/ \E ears \in Ears(d) : LoopPass(d, ears)

Spec == Init /\ [][Next]_vars

\* A pass of d that heard all there was and made a difference: no other step changes what d holds
\* and leaves the clock and the users alone.
PassOf(d) ==
  /\ acts' = acts /\ now' = now
  /\ heard'[d] = AllEars(d) /\ Holds(d)' # Holds(d)

(***************************************************************************)
(* The loops run, and what is written is heard in the end.  Nobody has to  *)
(* do anything, and the clock need not go on.  This is weak fairness of    *)
(* the passes that hear everything, with its ENABLED written out: a pass   *)
(* is always possible, and does something when it leaves another state.    *)
(***************************************************************************)
Fairness ==
  []<>(\A d \in Devices : Leaves(d, AllEars(d), Holds(d)))
  \/ []<><<\E d \in Devices : PassOf(d)>>_vars

FairSpec == Spec /\ Fairness

-----------------------------------------------------------------------------
LetGo(s, d) == ~\E t \in sessions'[d].running : t.id = s.id /\ AtLeast(t.lock, s.lock)

(***************************************************************************)
(* Whatever its peers said, nobody whose user did nothing is let go: as    *)
(* long as a lock holds and its time has not come, a pass leaves the       *)
(* session running under a lock at least as strong.  That is so where no   *)
(* release was asked for on any device.                                    *)
(***************************************************************************)
NeverFreedBySync ==
  [][acts' = acts =>
       \A d \in Devices : \A s \in sessions[d].running :
         IsLocked(s.lock) /\ ~IsExpired(s.lock, now) /\ s.profile \notin history.asked
         => ~LetGo(s, d)]_vars

(***************************************************************************)
(* A weekly window ended by hand on a device stays ended there until it is *)
(* over, whichever of its peers holds or starts a session for it, however  *)
(* late, and whatever this device has forgotten in a restart.              *)
(***************************************************************************)
EndedStaysEnded ==
  \A d \in Devices : \A w \in story.weekly[d] :
    (/\ Covers(w, now) /\ w.profile \notin history.begun
     /\ \E t \in w.start .. now : <<d, w.profile, t>> \in history.ends)
    => ForProfile(sessions[d], w.profile) = {}

(***************************************************************************)
(* Nobody's use is counted twice, in whatever order it is told and heard.  *)
(* A device that starts again has forgotten what it told, and tells it     *)
(* once more: a restart may double what is counted, and does no more.  A   *)
(* device never forgets a pass it knows to be spent, or a use, though it   *)
(* was all it knew when it was started again.                              *)
(***************************************************************************)
CountedOnce ==
  [][\A d \in Devices :
       /\ passes[d] \subseteq passes'[d] /\ Len(used[d]) <= Len(used'[d])
       /\ Len(used'[d]) <= history'.used * 2 ^ history'.restarts]_vars

(***************************************************************************)
(* Once nobody does anything more, every device comes to count the same    *)
(* passes and the same use, and to know of every release.                  *)
(***************************************************************************)
Shared ==
  <>[](\A d \in Devices :
         /\ passes[d] = history.spent
         /\ \A e \in Devices : Len(used[e]) = Len(used[d])
         /\ \A e \in Devices : \A id \in releases[e] : <<id, e>> \in released[d])
=============================================================================
