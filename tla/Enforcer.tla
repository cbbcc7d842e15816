------------------------------ MODULE Enforcer ------------------------------
(***************************************************************************)
(* The Windows enforcer: curfew-win/src/tick.rs driven by the loop of      *)
(* curfew-svc/src/runner.rs.  Two kinds of thread share it under a mutex.  *)
(* The loop takes a reading of the clock (Observe), drops the mutex while  *)
(* it fetches the calendars, and then runs one pass (Pass) judged at the   *)
(* instant it read before the fetch.  The pipe's handlers run whenever the *)
(* mutex is free, each at the instant it reads itself.                     *)
(*                                                                         *)
(* now is trusted time, the reading of ClockWitness, which never goes back.*)
(* A session id is the profile with the value of the enforcer's counter;   *)
(* the instant and the gaps in the numbering it also carries are left out. *)
(***************************************************************************)
EXTENDS Sessions, FiniteSets

CONSTANTS
  Windows,          \* the occurrences the schedules and calendars may bring
  Starts,           \* what a start may ask for: [profile, seconds, locks]
  Freezing,         \* the profiles that block the whole device
  Claimable,        \* conditions the caller is the only witness to
  Provable,         \* conditions this device checks: a password, a tag
  RestartRequired,  \* the condition a reboot satisfies
  OwnRelease,       \* the condition this device's release satisfies
  PROOF_SECONDS,
  MINIMUM_WARNING_SECONDS,
  PassQuota, PassWindow, PassCooldown,   \* EmergencyPolicy
  Strangers,        \* ids a caller may name that no session here has
  MaxNow,           \* bound on the clock
  MaxMinted         \* bound on the sessions started by hand

ASSUME EnforcerAssumption ==
  /\ Freezing \subseteq Profiles /\ Strangers \subseteq Profiles \X {0}
  /\ Claimable \subseteq Conditions /\ Provable \subseteq Conditions
  /\ PROOF_SECONDS \in Nat \ {0} /\ MINIMUM_WARNING_SECONDS \in Nat \ {0}
  /\ PassQuota \in Nat /\ PassWindow \in Nat \ {0} /\ PassCooldown \in Nat \ {0}
  /\ MaxNow \in Nat /\ MaxMinted \in Nat
  /\ Windows \subseteq Activation
  /\ \A V \in SUBSET Windows : V # {} => \E w \in V : \A v \in V : v.end <= w.end
  /\ \A r \in Starts : r.profile \in Profiles /\ r.seconds \in Nat /\ r.locks \subseteq Conditions

VARIABLES
  now,           \* the witness's reading
  loopNow,       \* the instant the loop read for the pass it is preparing, or None
  sessions,
  proofs,        \* {[id, lock, at]}: conditions checked recently
  releases,      \* ids this device has released
  passes,        \* the instants at which an emergency pass was spent
  boot_id,
  boots,         \* for each session seen by a pass, the boot it was first seen in
  freeze,        \* the announced freeze, or None
  schedule,      \* the windows the configuration and the calendars now hold
  minted,        \* the enforcer's counter
  checked,       \* history: the checks really made within the last PROOF_SECONDS
  ended          \* history: the windows cut short by the last end of their profile by hand

vars == <<now, loopNow, sessions, proofs, releases, passes, boot_id, boots, freeze,
          schedule, minted, checked, ended>>

Countdown == [profile : Profiles, seconds : Nat, announced_at : Int, fires_at : Int]

Announce(at, profile, seconds) ==
  [profile |-> profile, seconds |-> seconds,
   announced_at |-> at, fires_at |-> at + MINIMUM_WARNING_SECONDS]

NewId(p, n) == <<p, n>>

-----------------------------------------------------------------------------
(***************************************************************************)
(* Evidence.                                                               *)
(***************************************************************************)
Fresh(q, at) == at >= q.at /\ at - q.at < PROOF_SECONDS

\* A mutant: a proof stands until its session ends.
Proven_Forever(id, at) ==
  {q.lock : q \in {r \in proofs : r.id = id}}
  \cup (IF id \in DOMAIN boots /\ boots[id] # boot_id THEN {RestartRequired} ELSE {})
  \cup (IF id \in releases THEN {OwnRelease} ELSE {})

Proven(id, at) ==
  {q.lock : q \in {r \in proofs : r.id = id /\ Fresh(r, at)}}
  \cup (IF id \in DOMAIN boots /\ boots[id] # boot_id THEN {RestartRequired} ELSE {})
  \cup (IF id \in releases THEN {OwnRelease} ELSE {})

Recorded(id, lock) ==
  {q \in proofs : ~(q.id = id /\ q.lock = lock)} \cup {[id |-> id, lock |-> lock, at |-> now]}

RecentPasses == {at \in passes : at > now - PassWindow}

\* A mutant: the ration is one too many.
CanSpend_OneMore ==
  /\ PassQuota > 0
  /\ \A at \in RecentPasses : now >= at + PassCooldown
  /\ Cardinality(RecentPasses) <= PassQuota

CanSpend ==
  /\ PassQuota > 0
  /\ \A at \in RecentPasses : now >= at + PassCooldown
  /\ Cardinality(RecentPasses) < PassQuota

-----------------------------------------------------------------------------
NoBoots == [id \in {} |-> 0]

Init ==
  /\ now = 0 /\ loopNow = None
  /\ sessions = Default
  /\ proofs = {} /\ releases = {} /\ passes = {}
  /\ boot_id = 1 /\ boots = NoBoots
  /\ freeze = None
  /\ schedule = {}
  /\ minted = 0 /\ checked = {} /\ ended = {}

Clock ==
  /\ now < MaxNow
  /\ now' = now + 1
  /\ checked' = {q \in checked : Fresh(q, now + 1)}
  /\ UNCHANGED <<loopNow, sessions, proofs, releases, passes, boot_id, boots, freeze,
                 schedule, minted, ended>>

\* A configuration is reloaded, or a calendar brings or withdraws an event.
EditSchedule(w) ==
  /\ schedule' = (IF w \in schedule THEN schedule \ {w} ELSE schedule \cup {w})
  /\ UNCHANGED <<now, loopNow, sessions, proofs, releases, passes, boot_id, boots, freeze,
                 minted, checked, ended>>

(***************************************************************************)
(* Request::Start.  A freezing profile is announced; a countdown already   *)
(* running for the same profile is kept, any other one is replaced.        *)
(***************************************************************************)
StartSession(r) ==
  /\ r.profile \notin Freezing
  /\ LET fresh == ForProfile(sessions, r.profile) = {}
     IN /\ fresh => minted < MaxMinted
        /\ minted' = (IF fresh THEN minted + 1 ELSE minted)
  /\ sessions' = Start(sessions, [id |-> NewId(r.profile, minted + 1), profile |-> r.profile,
                                  started_at |-> now,
                                  lock |-> LockOf(r.locks, now + r.seconds)])
  /\ UNCHANGED <<now, loopNow, proofs, releases, passes, boot_id, boots, freeze,
                 schedule, checked, ended>>

StartFreeze(r) ==
  /\ r.profile \in Freezing
  /\ freeze # None => freeze.profile # r.profile
  /\ freeze' = Announce(now, r.profile, r.seconds)
  /\ UNCHANGED <<now, loopNow, sessions, proofs, releases, passes, boot_id, boots,
                 schedule, minted, checked, ended>>

CancelFreeze ==
  /\ freeze # None
  /\ freeze' = None
  /\ UNCHANGED <<now, loopNow, sessions, proofs, releases, passes, boot_id, boots,
                 schedule, minted, checked, ended>>

-----------------------------------------------------------------------------
(***************************************************************************)
(* The ways out.  Each presents evidence to End, which forgets nothing if  *)
(* it refuses.  CutShort is what the history remembers of a success: the   *)
(* occurrences that were going on for a session whose time was not up.     *)
(***************************************************************************)
CutShort(id) ==
  {w \in schedule : \E s \in Running(sessions, id) :
     s.profile = w.profile /\ Covers(w, now) /\ ~IsExpired(s.lock, now)}

Ended(id, evidence) ==
  /\ sessions' = End(sessions, id, now, evidence)
  /\ ended' = (IF CanEnd(sessions, id, now, evidence)
               THEN CutShort(id) \cup
                      {w \in ended : \A s \in Running(sessions, id) : s.profile # w.profile}
               ELSE ended)

\* Request::End
EndSession(id, claimed) ==
  LET evidence == (claimed \cap Claimable) \cup Proven(id, now) IN
  /\ CanEnd(sessions, id, now, evidence)
  /\ Ended(id, evidence)
  /\ proofs' = {q \in proofs : q.id # id}
  /\ UNCHANGED <<now, loopNow, releases, passes, boot_id, boots, freeze, schedule, minted,
                 checked>>

(***************************************************************************)
(* Request::Unlock and Request::Token: a check this device made itself is  *)
(* written down, and the session ends if nothing else is missing.  Token   *)
(* forgets the proofs of a session it has ended; Unlock leaves them to the *)
(* next pass.                                                              *)
(***************************************************************************)
Prove(id, lock, forgets) ==
  LET held == Recorded(id, lock)
      evidence == Proven(id, now) \cup {lock}
      done == CanEnd(sessions, id, now, evidence)
  IN /\ Ended(id, evidence)
     /\ proofs' = (IF done /\ forgets THEN {q \in held : q.id # id} ELSE held)
     /\ checked' = checked \cup {[id |-> id, lock |-> lock, at |-> now]}
     /\ UNCHANGED <<now, loopNow, releases, passes, boot_id, boots, freeze, schedule, minted>>

Unlock(id) == \E lock \in Provable : Prove(id, lock, FALSE)
Token(id) == \E lock \in Provable : Prove(id, lock, TRUE)

\* Request::Release, on a device that has an id to release with: also for a session not running here.
Release(id) ==
  LET evidence == Proven(id, now) \cup {OwnRelease} IN
  /\ releases' = releases \cup {id}
  /\ Ended(id, evidence)
  /\ proofs' = (IF CanEnd(sessions, id, now, evidence) THEN {q \in proofs : q.id # id} ELSE proofs)
  /\ UNCHANGED <<now, loopNow, passes, boot_id, boots, freeze, schedule, minted,
                 checked>>

\* Request::Emergency.  The pass is spent first, and stays spent if there is nothing to end.
Emergency(id) ==
  /\ CanSpend
  /\ passes' = passes \cup {now}
  /\ Ended(id, UNION {s.lock.conditions : s \in Running(sessions, id)})
  /\ UNCHANGED <<now, loopNow, proofs, releases, boot_id, boots, freeze, schedule, minted,
                 checked>>

\* Request::RequestRelease
RequestTheRelease(id) ==
  /\ sessions' = AskRelease(sessions, id, now)
  /\ UNCHANGED <<now, loopNow, proofs, releases, passes, boot_id, boots, freeze,
                 schedule, minted, checked, ended>>

Named == RunningIds(sessions) \cup Strangers

-----------------------------------------------------------------------------
(***************************************************************************)
(* The loop.  Observe is observe_clock at the top of an iteration.  Pass   *)
(* is tick, after the fetch: the announced freeze is settled, the windows  *)
(* going on at loopNow are reconciled except the freezing ones, which are  *)
(* announced, and what is over is reaped.                                  *)
(***************************************************************************)
Observe ==
  /\ loopNow = None
  /\ loopNow' = now
  /\ UNCHANGED <<now, sessions, proofs, releases, passes, boot_id, boots, freeze,
                 schedule, minted, checked, ended>>

Fires(at) == freeze # None /\ at >= freeze.fires_at

\* settle_freeze
Settled(at) ==
  IF ~Fires(at) THEN sessions
  ELSE Start(sessions, [id |-> NewId(freeze.profile, minted + 1), profile |-> freeze.profile,
                        started_at |-> at, lock |-> LockOf({}, at + freeze.seconds)])

Withheld(S, at) ==
  {w \in schedule : Covers(w, at) /\ w.profile \in Freezing /\ ForProfile(S, w.profile) = {}}

\* A mutant: freezing windows are started like any other.
Reconciled_FreezesAtOnce(S, at) ==
  Reap(Reconcile(S, at, {w \in schedule : Covers(w, at)},
                 [p \in Profiles |-> NewId(p, minted + 1)]), at)

Reconciled(S, at) ==
  Reap(Reconcile(S, at, {w \in schedule : Covers(w, at)} \ Withheld(S, at),
                 [p \in Profiles |-> NewId(p, minted + 1)]), at)

Pass ==
  LET at == loopNow
      settled == Settled(at)
      withheld == Withheld(settled, at)
      standing == IF Fires(at) THEN None ELSE freeze
      after == Reconciled(settled, at)
  IN /\ at # None
     /\ loopNow' = None
     /\ sessions' = after
     /\ minted' = (IF RunningIds(after) \subseteq RunningIds(sessions) THEN minted ELSE minted + 1)
     /\ IF standing = None /\ withheld # {}
        THEN \E w \in withheld : freeze' = Announce(at, w.profile, w.end - at)
        ELSE freeze' = standing
     /\ boots' = [id \in RunningIds(after) |-> IF id \in DOMAIN boots THEN boots[id] ELSE boot_id]
     /\ proofs' = {q \in proofs : q.id \in RunningIds(after) /\ Fresh(q, at)}
     /\ UNCHANGED <<now, releases, passes, boot_id, schedule, checked, ended>>

-----------------------------------------------------------------------------
Next ==
  \/ Clock
  \/ \E w \in Windows : EditSchedule(w)
  \/ \E r \in Starts : StartSession(r) \/ StartFreeze(r)
  \/ CancelFreeze
  \/ \E id \in Named :
       \/ \E claimed \in SUBSET Conditions : EndSession(id, claimed)
       \/ Unlock(id)
       \/ Token(id)
       \/ Release(id)
       \/ Emergency(id)
       \/ RequestTheRelease(id)
  \/ Observe
  \/ Pass

\* The loop runs for as long as the service does, and time passes.
Fairness == WF_vars(Clock) /\ WF_vars(Observe) /\ WF_vars(Pass)

Spec == Init /\ [][Next]_vars

FairSpec == Spec /\ Fairness

-----------------------------------------------------------------------------
Proof == [id : Ids, lock : Conditions, at : Int]

TypeOK ==
  /\ now \in Int /\ loopNow \in Optional
  /\ sessions \in State
  /\ proofs \in SUBSET Proof /\ checked \in SUBSET Proof
  /\ releases \in SUBSET Ids /\ passes \in SUBSET Int
  /\ boot_id \in Int
  /\ DOMAIN boots \subseteq Ids /\ \A id \in DOMAIN boots : boots[id] \in Int
  /\ freeze = None \/ freeze \in Countdown
  /\ schedule \subseteq Windows
  /\ minted \in Nat
  /\ ended \subseteq Windows

(***************************************************************************)
(* However starts, passes and restarts are interleaved, a profile has one  *)
(* session, and an id names one session.  Everything that looks a session  *)
(* up by profile or by id relies on it, and a second one would be a lock   *)
(* that ending the first leaves behind.                                    *)
(***************************************************************************)
OneSessionPerProfile ==
  \A s, t \in sessions.running : s.profile = t.profile \/ s.id = t.id => s = t

(***************************************************************************)
(* For as long as a session runs, no handler and no pass lightens its      *)
(* lock: not a second start, not a window that ends sooner, not an edited  *)
(* schedule, not a pass judged at an instant that is already past.  Its    *)
(* release, once asked for, is never moved later either.                   *)
(***************************************************************************)
NeverWeaker ==
  [][\A s \in sessions.running : \A t \in sessions'.running :
       s.id = t.id => AtLeast(t.lock, s.lock)]_vars

\* What the enforcer holds its user to, and what the user has really met: by the history,
\* and not by the proofs.
Held ==
  [id \in RunningIds(sessions) |-> LET s == CHOOSE s \in sessions.running : s.id = id IN s.lock]

Satisfied(id) ==
  Claimable \cup {q.lock : q \in {r \in checked : r.id = id /\ Fresh(r, now)}}
            \cup (IF id \in releases THEN {OwnRelease} ELSE {})
            \cup (IF id \in DOMAIN boots /\ boots[id] # boot_id THEN {RestartRequired} ELSE {})

Met == [id \in Profiles \X (0..minted) |-> Satisfied(id)]

Promise == INSTANCE Commitment WITH held <- Held, met <- Met

(***************************************************************************)
(* The enforcer keeps the promise of Commitment.  However requests and     *)
(* passes are interleaved, a session under way is made no lighter, and     *)
(* stops only because its time is up, because a pass was taken from the    *)
(* ration for it, or because every one of its conditions that the caller   *)
(* cannot merely assert was checked here no longer than PROOF_SECONDS ago; *)
(* and an id that has been let go is never given to another session.       *)
(***************************************************************************)
KeepsThePromise == Promise!Spec

(***************************************************************************)
(* The ration: in no stretch of PassWindow seconds are more than PassQuota *)
(* passes spent, and two are never closer than PassCooldown, or, since the *)
(* cooldown is asked only of the uses inside it, than PassWindow.          *)
(***************************************************************************)
QuotaKept ==
  \A at \in passes : Cardinality({b \in passes : at - PassWindow < b /\ b <= at}) <= PassQuota

CooldownKept == \A a, b \in passes : a < b => b - a >= Earlier(PassCooldown, PassWindow)

PassRation == QuotaKept /\ CooldownKept

Begun(p) == ForProfile(sessions, p) = {} /\ ForProfile(sessions', p) # {}

\* A pass starts a profile for no reason but windows that were ended by hand.
Restarted(p, W) ==
  /\ Begun(p) /\ ~Fires(loopNow)
  /\ \A w \in schedule : w.profile = p /\ Covers(w, loopNow) => w \in W

(***************************************************************************)
(* A window that was ended by hand is not started again by any pass, as    *)
(* long as that was the last end of its profile.  The end is remembered as *)
(* one instant, clamped into the session's own lock, while passes judge at *)
(* instants already past: both must still name the occurrence.             *)
(***************************************************************************)
EndedStaysEnded == [][Pass => \A p \in Profiles : ~Restarted(p, ended)]_vars

(***************************************************************************)
(* A freezing profile never begins to run but by a countdown that is       *)
(* standing, was announced for that profile MINIMUM_WARNING_SECONDS        *)
(* before, and has not been cancelled.                                     *)
(***************************************************************************)
FreezeAnnounced ==
  [][\A p \in Freezing :
       Begun(p) => /\ freeze # None /\ freeze.profile = p
                   /\ now >= freeze.announced_at + MINIMUM_WARNING_SECONDS]_vars

(***************************************************************************)
(* The last way out is never blocked: a session whose release has been     *)
(* asked for is gone once the wait is over, whatever its conditions and    *)
(* whatever keeps strengthening it meanwhile.                              *)
(***************************************************************************)
Owed(id) == \E s \in Running(sessions, id) :
              s.lock.delayed_release_at # None /\ s.lock.delayed_release_at <= MaxNow

ReleaseArrives == \A p \in Profiles : \A n \in 1..MaxMinted :
                    Owed(NewId(p, n)) ~> Running(sessions, NewId(p, n)) = {}
=============================================================================
