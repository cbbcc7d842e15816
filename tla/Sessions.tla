------------------------------ MODULE Sessions ------------------------------
(***************************************************************************)
(* The running sessions of one device and everything that may be done to   *)
(* them: curfew-core/src/session.rs.  A value of type State is the Rust    *)
(* struct Sessions; every operation takes one and returns the next.        *)
(*                                                                         *)
(* running is a set because its Vec is kept sorted by id, which makes the  *)
(* order carry nothing.  That it holds one session per profile is not      *)
(* built in: it is what Start has to achieve.  The source of a session and *)
(* its schedule's name are left out: no operation below reads them.        *)
(***************************************************************************)
EXTENDS Locks

CONSTANT Profiles

\* A session id is its profile with a number, whatever else the platform writes into it.
Ids == Profiles \X Nat

Session == [id : Ids, profile : Profiles, started_at : Int, lock : LockSet]

State == [running : SUBSET Session,
          dismissed : [Profiles -> Optional]]

Default == [running |-> {}, dismissed |-> [p \in Profiles |-> None]]

(***************************************************************************)
(* An activation is one occurrence of a schedule: a half-open window in    *)
(* which a profile should be running.  Its lock ends when the window does. *)
(***************************************************************************)
Activation == [profile : Profiles, start : Int, end : Int, locks : SUBSET Conditions]

Covers(window, at) == window.start <= at /\ at < window.end

-----------------------------------------------------------------------------
Running(S, id) == {s \in S.running : s.id = id}
ForProfile(S, p) == {s \in S.running : s.profile = p}
RunningIds(S) == {s.id : s \in S.running}
RunningProfiles(S) == {s.profile : s \in S.running}

\* A mutant: a lock that is replaced, not merged.
Start_Replaces(S, s) ==
  IF ForProfile(S, s.profile) = {}
  THEN [S EXCEPT !.running = @ \cup {s}]
  ELSE [S EXCEPT !.running =
          {IF r.profile = s.profile THEN [r EXCEPT !.lock = s.lock] ELSE r : r \in @}]

\* Begin a session, or strengthen the one already running for that profile.
Start(S, s) ==
  IF ForProfile(S, s.profile) = {}
  THEN [S EXCEPT !.running = @ \cup {s}]
  ELSE [S EXCEPT !.running =
          {IF r.profile = s.profile
             THEN [r EXCEPT !.lock = Merge(@, s.lock),
                            !.started_at = Earlier(@, s.started_at)]
             ELSE r : r \in @}]

\* A mutant: an end in the first second of a window is not taken to be inside it.
IsDismissed_AfterStart(S, window) ==
  LET at == S.dismissed[window.profile] IN at # None /\ window.start < at /\ at < window.end

IsDismissed(S, window) ==
  LET at == S.dismissed[window.profile] IN at # None /\ Covers(window, at)

DismissalCovers(S, s) ==
  LET at == S.dismissed[s.profile] IN
  /\ at # None
  /\ at >= s.started_at
  /\ s.lock.ends_at = None \/ at < s.lock.ends_at

\* The instant at which a session is remembered to have ended: inside the window it was under.
ClampedInto(s, now) ==
  LET from == Later(now, s.started_at) IN
  IF s.lock.ends_at = None THEN from
  ELSE Earlier(from, Later(s.lock.ends_at - 1, s.started_at))

CanEnd(S, id, now, satisfied) ==
  \E s \in Running(S, id) : CanRelease(s.lock, now, satisfied)

\* The only way a session ends before its time.  A refusal changes nothing.
End(S, id, now, satisfied) ==
  IF CanEnd(S, id, now, satisfied)
  THEN LET ended == CHOOSE s \in Running(S, id) : TRUE
       IN [running |-> S.running \ {ended},
           dismissed |-> [S.dismissed EXCEPT ![ended.profile] = ClampedInto(ended, now)]]
  ELSE S

AskRelease(S, id, now) ==
  [S EXCEPT !.running =
     {IF s.id = id THEN [s EXCEPT !.lock = RequestRelease(@, now)] ELSE s : s \in @}]

\* A mutant: only the window's end is looked at.
Reap_EndOnly(S, now) == [S EXCEPT !.running = {s \in @ : ~Passed(s.lock.ends_at, now)}]

\* Drop what is over.  Running out is not an end by hand: nothing is dismissed.
Reap(S, now) == [S EXCEPT !.running = {s \in @ : ~IsExpired(s.lock, now)}]

-----------------------------------------------------------------------------
(***************************************************************************)
(* Reconcile starts, or strengthens, a session for every activation whose  *)
(* occurrence is neither over nor ended by hand.  The loop in the code is  *)
(* a fold of Start over them.  Start only ever merges, merging is          *)
(* associative and commutative, and an activation's lock always has an     *)
(* end, so the locks of one profile are joined first and merged once.      *)
(* mint[p] is the id minted for a new session of p.                        *)
(***************************************************************************)
Due(S, now, windows) == {w \in windows : w.end > now /\ ~IsDismissed(S, w)}

JointLock(windows) ==
  LockOf(UNION {w.locks : w \in windows},
         CHOOSE end \in {w.end : w \in windows} : \A w \in windows : w.end <= end)

Reconcile(S, now, windows, mint) ==
  LET due(p) == {w \in Due(S, now, windows) : w.profile = p}
      started == {[id |-> mint[p], profile |-> p, started_at |-> now, lock |-> JointLock(due(p))] :
                    p \in {q \in Profiles \ RunningProfiles(S) : due(q) # {}}}
  IN [S EXCEPT !.running =
        {IF due(s.profile) = {} THEN s
         ELSE [s EXCEPT !.lock = Merge(@, JointLock(due(s.profile))),
                        !.started_at = Earlier(@, now)] : s \in @}
        \cup started]

\* Adopt sessions read back from storage without ever weakening what is running.
Restore(S, incoming) ==
  [running |->
     {IF ForProfile(incoming, s.profile) = {} THEN s
      ELSE LET stored == CHOOSE r \in ForProfile(incoming, s.profile) : TRUE
           IN [s EXCEPT !.lock = Harden(@, stored.lock)] : s \in S.running}
     \cup {s \in incoming.running :
             s.profile \notin RunningProfiles(S) /\ ~DismissalCovers(S, s)},
   dismissed |->
     [p \in Profiles |-> IF S.dismissed[p] = None THEN incoming.dismissed[p]
                                                  ELSE S.dismissed[p]]]
=============================================================================
