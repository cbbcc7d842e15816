------------------------------- MODULE Locks -------------------------------
(***************************************************************************)
(* The lock lattice of curfew-core/src/lock.rs: what guards one session,   *)
(* and the two ways of combining two such guards.  merge combines two      *)
(* promises that are both trusted; harden adopts a lock read from storage  *)
(* into one that is already running.                                       *)
(*                                                                         *)
(* A condition (Lock) is an element of Conditions.  None is Rust's         *)
(* Option::None.  Timestamps are integers.                                 *)
(***************************************************************************)
EXTENDS Integers

CONSTANTS
  Conditions,               \* the release conditions a lock may ask for
  None,                     \* the absent value of an Option
  DELAYED_RELEASE_SECONDS   \* the wait of the last-resort release

ASSUME LocksAssumption ==
  /\ None \notin Int
  /\ DELAYED_RELEASE_SECONDS \in Nat \ {0}

Optional == Int \cup {None}

LockSet == [conditions : SUBSET Conditions,
            ends_at : Optional,
            delayed_release_at : Optional]

LockOf(conditions, ends_at) ==
  [conditions |-> conditions, ends_at |-> ends_at, delayed_release_at |-> None]

Unlocked == LockOf({}, None)

IsEmpty(l) == l = Unlocked

IsLocked(l) == l.conditions # {}

Earlier(a, b) == IF a <= b THEN a ELSE b
Later(a, b) == IF a >= b THEN a ELSE b

\* The earlier of two optional instants; an absent one gives way.
MinOpt(a, b) ==
  CASE a = None -> b
    [] b = None -> a
    [] OTHER -> Earlier(a, b)

\* The later of two end times, where an absent one means "until released" and outlasts any other.
LatestEnd(a, b) == IF a = None \/ b = None THEN None ELSE Later(a, b)

\* The later of two bounds, never inventing or removing the one that is running.
KeepOrLater(a, b) == IF a = None \/ b = None THEN a ELSE Later(a, b)

-----------------------------------------------------------------------------
\* A mutant of Merge: the end time of the newcomer wins.
Merge_TakesOtherEnd(l, m) ==
  IF IsEmpty(l) THEN m
  ELSE IF IsEmpty(m) THEN l
  ELSE [conditions |-> l.conditions \cup m.conditions,
        ends_at |-> m.ends_at,
        delayed_release_at |-> MinOpt(l.delayed_release_at, m.delayed_release_at)]

\* The join of two promises: every condition of either, the later end, the earlier release.
Merge(l, m) ==
  IF IsEmpty(l) THEN m
  ELSE IF IsEmpty(m) THEN l
  ELSE [conditions |-> l.conditions \cup m.conditions,
        ends_at |-> LatestEnd(l.ends_at, m.ends_at),
        delayed_release_at |-> MinOpt(l.delayed_release_at, m.delayed_release_at)]

\* What a running lock becomes when a stored one is adopted into it.
Harden(l, m) ==
  [conditions |-> l.conditions \cup m.conditions,
   ends_at |-> KeepOrLater(l.ends_at, m.ends_at),
   delayed_release_at |-> KeepOrLater(l.delayed_release_at, m.delayed_release_at)]

RequestRelease(l, now) ==
  [l EXCEPT !.delayed_release_at = MinOpt(@, now + DELAYED_RELEASE_SECONDS)]

Passed(at, now) == at # None /\ now >= at

IsExpired(l, now) == Passed(l.ends_at, now) \/ Passed(l.delayed_release_at, now)

CanRelease(l, now, satisfied) == IsExpired(l, now) \/ l.conditions \subseteq satisfied

-----------------------------------------------------------------------------
(***************************************************************************)
(* The order the lattice is about.  AtLeast(m, l): whoever was held by l   *)
(* is held at least as hard by m, and is owed a release no later.          *)
(***************************************************************************)
EndsNoEarlier(b, a) == a # None => b = None \/ b >= a

ReleaseNoLater(b, a) == a # None => b # None /\ b <= a

AtLeast(m, l) ==
  /\ l.conditions \subseteq m.conditions
  /\ EndsNoEarlier(m.ends_at, l.ends_at)
  /\ ~IsEmpty(l) => ~IsEmpty(m) /\ (l.ends_at = None => m.ends_at = None)
  /\ ReleaseNoLater(m.delayed_release_at, l.delayed_release_at)
=============================================================================
