--------------------------- MODULE SessionsProofs ---------------------------
(***************************************************************************)
(* What the operations on locks promise for every lock, and what those on  *)
(* sessions preserve, whatever they are given.                             *)
(***************************************************************************)
EXTENDS Sessions, TLAPS

(***************************************************************************)
(* The operations on a LockSet return a LockSet.                           *)
(***************************************************************************)
LEMMA OptionType ==
  ASSUME NEW a \in Optional, NEW b \in Optional
  PROVE  /\ MinOpt(a, b) \in Optional
         /\ LatestEnd(a, b) \in Optional
         /\ KeepOrLater(a, b) \in Optional
BY DEF MinOpt, LatestEnd, KeepOrLater, Earlier, Later, Optional

LEMMA MergeType == ASSUME NEW l \in LockSet, NEW m \in LockSet PROVE Merge(l, m) \in LockSet
BY OptionType DEF Merge, LockSet

LEMMA HardenType == ASSUME NEW l \in LockSet, NEW m \in LockSet PROVE Harden(l, m) \in LockSet
BY OptionType DEF Harden, LockSet

LEMMA ReleaseType ==
  ASSUME NEW l \in LockSet, NEW now \in Int PROVE RequestRelease(l, now) \in LockSet
<1>1. now + DELAYED_RELEASE_SECONDS \in Optional
  BY LocksAssumption DEF Optional
<1> QED BY <1>1, OptionType DEF RequestRelease, LockSet

LEMMA LockOfType ==
  ASSUME NEW conditions \in SUBSET Conditions, NEW ends_at \in Optional
  PROVE  LockOf(conditions, ends_at) \in LockSet
BY DEF LockOf, LockSet, Optional

LEMMA UnlockedType == Unlocked \in LockSet
BY DEF Unlocked, LockOf, LockSet, Optional

-----------------------------------------------------------------------------
(***************************************************************************)
(* merge is the join of a semilattice: two devices that are told of the    *)
(* same locks in a different order, or of one of them twice, hold the same *)
(* lock.                                                                   *)
(***************************************************************************)
LEMMA FieldsDecide ==
  ASSUME NEW l \in LockSet, NEW m \in LockSet,
         l.conditions = m.conditions, l.ends_at = m.ends_at,
         l.delayed_release_at = m.delayed_release_at
  PROVE  l = m
BY DEF LockSet

THEOREM MergeCommutes ==
  ASSUME NEW l \in LockSet, NEW m \in LockSet PROVE Merge(l, m) = Merge(m, l)
<1>1. CASE IsEmpty(l) \/ IsEmpty(m)
  BY <1>1 DEF Merge, IsEmpty
<1>2. CASE ~IsEmpty(l) /\ ~IsEmpty(m)
  <2>1. LatestEnd(l.ends_at, m.ends_at) = LatestEnd(m.ends_at, l.ends_at)
    BY DEF LatestEnd, Later, LockSet, Optional
  <2>2. MinOpt(l.delayed_release_at, m.delayed_release_at)
          = MinOpt(m.delayed_release_at, l.delayed_release_at)
    BY DEF MinOpt, Earlier, LockSet, Optional
  <2>3. l.conditions \cup m.conditions = m.conditions \cup l.conditions
    OBVIOUS
  <2> QED BY <1>2, <2>1, <2>2, <2>3 DEF Merge
<1> QED BY <1>1, <1>2

THEOREM MergeIdempotent == ASSUME NEW l \in LockSet PROVE Merge(l, l) = l
<1>1. LatestEnd(l.ends_at, l.ends_at) = l.ends_at
  BY DEF LatestEnd, Later
<1>2. MinOpt(l.delayed_release_at, l.delayed_release_at) = l.delayed_release_at
  BY DEF MinOpt, Earlier
<1>3. l.conditions \cup l.conditions = l.conditions
  OBVIOUS
<1> QED BY <1>1, <1>2, <1>3, MergeType, FieldsDecide DEF Merge, LockSet

\* The empty lock adds nothing to another.
LEMMA MergeUnit ==
  ASSUME NEW l, NEW m, IsEmpty(m) PROVE Merge(l, m) = l /\ Merge(m, l) = l
BY DEF Merge, IsEmpty

\* Joining two locks that bind somebody gives one that does.
LEMMA MergeKeepsNonEmpty ==
  ASSUME NEW l \in LockSet, NEW m \in LockSet, ~IsEmpty(l) \/ ~IsEmpty(m)
  PROVE  ~IsEmpty(Merge(l, m))
<1>1. CASE IsEmpty(l) \/ IsEmpty(m)
  BY <1>1 DEF Merge
<1>2. CASE ~IsEmpty(l) /\ ~IsEmpty(m)
  <2> DEFINE j == Merge(l, m)
  <2>1. /\ j.conditions = l.conditions \cup m.conditions
        /\ j.ends_at = LatestEnd(l.ends_at, m.ends_at)
        /\ j.delayed_release_at = MinOpt(l.delayed_release_at, m.delayed_release_at)
    BY <1>2 DEF Merge
  <2>2. SUFFICES ASSUME IsEmpty(j) PROVE FALSE
    OBVIOUS
  <2>3. j.conditions = {} /\ j.ends_at = None /\ j.delayed_release_at = None
    BY <2>2 DEF IsEmpty, Unlocked, LockOf
  <2>4. l.conditions = {} /\ m.conditions = {}
    BY <2>1, <2>3
  <2>5. l.delayed_release_at = None /\ m.delayed_release_at = None
    BY <2>1, <2>3, LocksAssumption DEF MinOpt, Earlier, LockSet, Optional
  <2>6. l.ends_at = None \/ m.ends_at = None
    BY <2>1, <2>3, LocksAssumption DEF LatestEnd, Later, LockSet, Optional
  <2>7. l = Unlocked \/ m = Unlocked
    BY <2>4, <2>5, <2>6, FieldsDecide, UnlockedType DEF Unlocked, LockOf
  <2> QED BY <2>7, <1>2 DEF IsEmpty
<1> QED BY <1>1, <1>2

THEOREM MergeAssociative ==
  ASSUME NEW k \in LockSet, NEW l \in LockSet, NEW m \in LockSet
  PROVE  Merge(Merge(k, l), m) = Merge(k, Merge(l, m))
<1>1. CASE IsEmpty(k) \/ IsEmpty(l) \/ IsEmpty(m)
  BY <1>1, MergeUnit
<1>2. CASE ~IsEmpty(k) /\ ~IsEmpty(l) /\ ~IsEmpty(m)
  <2>1. ~IsEmpty(Merge(k, l)) /\ ~IsEmpty(Merge(l, m))
    BY <1>2, MergeKeepsNonEmpty
  <2>2. LatestEnd(LatestEnd(k.ends_at, l.ends_at), m.ends_at)
          = LatestEnd(k.ends_at, LatestEnd(l.ends_at, m.ends_at))
    BY LocksAssumption DEF LatestEnd, Later, LockSet, Optional
  <2>3. MinOpt(MinOpt(k.delayed_release_at, l.delayed_release_at), m.delayed_release_at)
          = MinOpt(k.delayed_release_at, MinOpt(l.delayed_release_at, m.delayed_release_at))
    BY LocksAssumption DEF MinOpt, Earlier, LockSet, Optional
  <2>4. (k.conditions \cup l.conditions) \cup m.conditions
          = k.conditions \cup (l.conditions \cup m.conditions)
    OBVIOUS
  <2> QED BY <1>2, <2>1, <2>2, <2>3, <2>4 DEF Merge
<1> QED BY <1>1, <1>2

-----------------------------------------------------------------------------
(***************************************************************************)
(* Whoever is held by a lock is held at least as hard once another promise *)
(* is merged in, and is owed the earlier of the two releases.              *)
(***************************************************************************)
THEOREM MergeIsAtLeast ==
  ASSUME NEW l \in LockSet, NEW m \in LockSet
  PROVE  AtLeast(Merge(l, m), l)
<1>1. CASE IsEmpty(l)
  BY <1>1 DEF Merge, AtLeast, EndsNoEarlier, ReleaseNoLater, IsEmpty, Unlocked, LockOf
<1>2. CASE ~IsEmpty(l) /\ IsEmpty(m)
  BY <1>2 DEF Merge, AtLeast, EndsNoEarlier, ReleaseNoLater, LockSet, Optional
<1>3. CASE ~IsEmpty(l) /\ ~IsEmpty(m)
  <2>1. EndsNoEarlier(LatestEnd(l.ends_at, m.ends_at), l.ends_at)
    BY LocksAssumption DEF EndsNoEarlier, LatestEnd, Later, LockSet, Optional
  <2>2. ReleaseNoLater(MinOpt(l.delayed_release_at, m.delayed_release_at), l.delayed_release_at)
    BY LocksAssumption DEF ReleaseNoLater, MinOpt, Earlier, LockSet, Optional
  <2>3. ~IsEmpty(Merge(l, m))
    BY <1>3, MergeKeepsNonEmpty
  <2> QED BY <1>3, <2>1, <2>2, <2>3 DEF Merge, AtLeast, LatestEnd
<1> QED BY <1>1, <1>2, <1>3

\* Asking for the release moves it no later, and touches nothing else.
LEMMA ReleaseIsAtLeast ==
  ASSUME NEW l \in LockSet, NEW now \in Int
  PROVE  AtLeast(RequestRelease(l, now), l)
<1> DEFINE at == now + DELAYED_RELEASE_SECONDS
<1>1. at \in Int /\ at # None
  BY LocksAssumption
<1>2. ReleaseNoLater(MinOpt(l.delayed_release_at, at), l.delayed_release_at)
  BY <1>1, LocksAssumption DEF ReleaseNoLater, MinOpt, Earlier, LockSet, Optional
<1> HIDE DEF at
<1>3. /\ RequestRelease(l, now).conditions = l.conditions
      /\ RequestRelease(l, now).ends_at = l.ends_at
      /\ RequestRelease(l, now).delayed_release_at = MinOpt(l.delayed_release_at, at)
  BY DEF RequestRelease, LockSet, at
<1>4. EndsNoEarlier(l.ends_at, l.ends_at)
  BY DEF EndsNoEarlier, LockSet, Optional
<1>5. MinOpt(l.delayed_release_at, at) # None
  BY <1>1 DEF MinOpt, Earlier, LockSet, Optional
<1>6. ~IsEmpty(RequestRelease(l, now))
  BY <1>3, <1>5 DEF IsEmpty, Unlocked, LockOf
<1> QED BY <1>2, <1>3, <1>4, <1>6 DEF AtLeast

\* Adopting a stored lock drops no condition and brings no end forward.
LEMMA HardenNeverLighter ==
  ASSUME NEW l \in LockSet, NEW m \in LockSet
  PROVE  /\ l.conditions \subseteq Harden(l, m).conditions
         /\ EndsNoEarlier(Harden(l, m).ends_at, l.ends_at)
BY LocksAssumption DEF Harden, EndsNoEarlier, KeepOrLater, Later, LockSet, Optional

\* The order is reflexive and transitive.
LEMMA AtLeastSelf == ASSUME NEW l \in LockSet PROVE AtLeast(l, l)
BY DEF AtLeast, EndsNoEarlier, ReleaseNoLater, LockSet, Optional

-----------------------------------------------------------------------------

(***************************************************************************)
(* A state is orderly if each profile has one session, whose id says so and*)
(* has a number up to n.                                                   *)
(***************************************************************************)
OnePerProfile(S) == \A s, t \in S.running : s.profile = t.profile => s = t

Numbered(S, n) == \A s \in S.running : \E i \in 0..n : s.id = <<s.profile, i>>

Orderly(S, n) == S \in State /\ OnePerProfile(S) /\ Numbered(S, n)

(***************************************************************************)
(* T follows from S if every session in it either is new, and then has the *)
(* number n + 1, or was there and is held at least as hard.                *)
(***************************************************************************)
Heir(t, s) == t.id = s.id /\ t.profile = s.profile /\ AtLeast(t.lock, s.lock)

Follows(S, T, n) ==
  \A t \in T.running : t.id = <<t.profile, n + 1>> \/ \E s \in S.running : Heir(t, s)

-----------------------------------------------------------------------------
LEMMA AtLeastTransitive ==
  ASSUME NEW k \in LockSet, NEW l \in LockSet, NEW m \in LockSet,
         AtLeast(m, l), AtLeast(l, k)
  PROVE  AtLeast(m, k)
<1>1. k.conditions \subseteq m.conditions
  BY DEF AtLeast
<1>2. EndsNoEarlier(m.ends_at, k.ends_at)
  <2>1. CASE k.ends_at = None
    BY <2>1 DEF EndsNoEarlier
  <2>2. CASE k.ends_at # None
    <3>1. ~IsEmpty(l)
      BY <2>2 DEF AtLeast, IsEmpty, Unlocked, LockOf
    <3>2. CASE l.ends_at = None
      BY <3>1, <3>2 DEF AtLeast, EndsNoEarlier
    <3>3. CASE l.ends_at # None
      BY <2>2, <3>3, LocksAssumption DEF AtLeast, EndsNoEarlier, LockSet, Optional
    <3> QED BY <3>2, <3>3
  <2> QED BY <2>1, <2>2
<1>3. ReleaseNoLater(m.delayed_release_at, k.delayed_release_at)
  BY LocksAssumption DEF AtLeast, ReleaseNoLater, LockSet, Optional
<1>4. ~IsEmpty(k) => ~IsEmpty(m) /\ (k.ends_at = None => m.ends_at = None)
  BY DEF AtLeast
<1> QED BY <1>1, <1>2, <1>3, <1>4 DEF AtLeast

LEMMA FollowsSelf == ASSUME NEW S \in State, NEW n PROVE Follows(S, S, n)
BY AtLeastSelf DEF Follows, Heir, State, Session

LEMMA FollowsTransitive ==
  ASSUME NEW S \in State, NEW T \in State, NEW U \in State, NEW n,
         Follows(S, T, n), Follows(T, U, n)
  PROVE  Follows(S, U, n)
<1> SUFFICES ASSUME NEW u \in U.running, u.id # <<u.profile, n + 1>>
             PROVE  \E s \in S.running : Heir(u, s)
  BY DEF Follows
<1>1. PICK t \in T.running : Heir(u, t)
  BY DEF Follows
<1>2. PICK s \in S.running : Heir(t, s)
  BY <1>1 DEF Follows, Heir
<1>3. u.lock \in LockSet /\ t.lock \in LockSet /\ s.lock \in LockSet
  BY DEF State, Session
<1>4. Heir(u, s)
  BY <1>1, <1>2, <1>3, AtLeastTransitive DEF Heir
<1> QED BY <1>4

\* What a step that follows from an orderly state cannot do: lighten a lock under its id.
LEMMA FollowsNeverWeaker ==
  ASSUME NEW n \in Nat, NEW S, Orderly(S, n), NEW T, Follows(S, T, n),
         NEW s \in S.running, NEW t \in T.running, s.id = t.id
  PROVE  AtLeast(t.lock, s.lock)
<1>1. t.id # <<t.profile, n + 1>>
  BY DEF Orderly, Numbered
<1>2. PICK r \in S.running : Heir(t, r)
  BY <1>1 DEF Follows
<1>3. r.profile = s.profile
  BY <1>2 DEF Heir, Orderly, Numbered
<1>4. r = s
  BY <1>3 DEF Orderly, OnePerProfile
<1> QED BY <1>2, <1>4 DEF Heir

\* A step that brings no new id needs no new number.
LEMMA SameIdsSameNumbers ==
  ASSUME NEW n \in Nat, NEW S, NEW T, Orderly(S, n), Orderly(T, n + 1),
         RunningIds(T) \subseteq RunningIds(S)
  PROVE  Orderly(T, n)
<1> SUFFICES ASSUME NEW t \in T.running PROVE \E i \in 0..n : t.id = <<t.profile, i>>
  BY DEF Orderly, Numbered
<1>1. PICK i \in 0..(n + 1) : t.id = <<t.profile, i>>
  BY DEF Orderly, Numbered
<1>2. PICK s \in S.running : s.id = t.id
  BY DEF RunningIds
<1>3. PICK j \in 0..n : s.id = <<s.profile, j>>
  BY DEF Orderly, Numbered
<1>4. i = j
  BY <1>1, <1>2, <1>3
<1> QED BY <1>1, <1>4

-----------------------------------------------------------------------------
(***************************************************************************)
(* The operations.                                                         *)
(***************************************************************************)
LEMMA LockOfSession ==
  ASSUME NEW S \in State, NEW s \in S.running
  PROVE  /\ s \in Session
         /\ s.lock \in LockSet /\ s.profile \in Profiles /\ s.started_at \in Int /\ s.id \in Ids
BY DEF State, Session

\* A promise that says nothing of a release leaves it where it is.
LEMMA MergeKeepsRelease ==
  ASSUME NEW l \in LockSet, NEW m \in LockSet, m.delayed_release_at = None
  PROVE  Merge(l, m).delayed_release_at = l.delayed_release_at
BY DEF Merge, MinOpt, IsEmpty, Unlocked, LockOf, LockSet

\* The session that a merge leaves in the place of another.
LEMMA Strengthened ==
  ASSUME NEW s \in Session, NEW l \in LockSet, NEW at \in Int
  PROVE  LET t == [s EXCEPT !.lock = Merge(@, l), !.started_at = Earlier(@, at)]
         IN t \in Session /\ Heir(t, s)
<1> DEFINE t == [s EXCEPT !.lock = Merge(@, l), !.started_at = Earlier(@, at)]
<1>1. Merge(s.lock, l) \in LockSet /\ AtLeast(Merge(s.lock, l), s.lock)
  BY MergeType, MergeIsAtLeast DEF Session
<1>2. Earlier(s.started_at, at) \in Int
  BY DEF Earlier, Session
<1>3. t.id = s.id /\ t.profile = s.profile /\ t.lock = Merge(s.lock, l)
  BY DEF Session
<1>4. t \in Session
  BY <1>1, <1>2 DEF Session
<1> QED BY <1>1, <1>3, <1>4 DEF Heir

StartedBy(S, at) == \A s \in S.running : s.started_at <= at

LEMMA StartStarted ==
  ASSUME NEW S \in State, NEW s \in Session, NEW at \in Int, StartedBy(S, at), s.started_at <= at
  PROVE  StartedBy(Start(S, s), at)
<1> SUFFICES ASSUME NEW t \in Start(S, s).running PROVE t.started_at <= at
  BY DEF StartedBy
<1>1. CASE ForProfile(S, s.profile) = {}
  <2>1. Start(S, s).running = S.running \cup {s}
    BY <1>1 DEF Start, State
  <2> QED BY <2>1 DEF StartedBy
<1>2. CASE ForProfile(S, s.profile) # {}
  <2>1. Start(S, s).running =
          {IF r.profile = s.profile
             THEN [r EXCEPT !.lock = Merge(@, s.lock), !.started_at = Earlier(@, s.started_at)]
             ELSE r : r \in S.running}
    BY <1>2 DEF Start, State
  <2>2. PICK r \in S.running :
          t = IF r.profile = s.profile
              THEN [r EXCEPT !.lock = Merge(@, s.lock), !.started_at = Earlier(@, s.started_at)]
              ELSE r
    BY <2>1
  <2>3. r \in Session /\ r.started_at <= at /\ s.started_at \in Int
    BY DEF State, StartedBy, Session
  <2>4. t.started_at = r.started_at \/ t.started_at = Earlier(r.started_at, s.started_at)
    BY <2>2, <2>3 DEF Session
  <2> QED BY <2>3, <2>4 DEF Earlier, Session
<1> QED BY <1>1, <1>2

LEMMA StartSound ==
  ASSUME NEW n \in Nat, NEW S, Orderly(S, n),
         NEW s \in Session, s.id = <<s.profile, n + 1>>
  PROVE  /\ Orderly(Start(S, s), n + 1)
         /\ Follows(S, Start(S, s), n)
         /\ Start(S, s).dismissed = S.dismissed
         /\ ForProfile(S, s.profile) # {} => RunningIds(Start(S, s)) = RunningIds(S)
         /\ \A t \in Start(S, s).running :
              t.profile = s.profile \/ ForProfile(S, t.profile) # {}
         /\ \A r \in S.running : \E t \in Start(S, s).running :
              /\ Heir(t, r)
              /\ s.lock.delayed_release_at = None =>
                   t.lock.delayed_release_at = r.lock.delayed_release_at
<1> DEFINE T == Start(S, s)
<1>0. S \in State /\ S.running \subseteq Session
  BY DEF Orderly, State
<1>1. CASE ForProfile(S, s.profile) = {}
  <2>1. T.running = S.running \cup {s} /\ T.dismissed = S.dismissed /\ T \in State
    BY <1>0, <1>1 DEF Start, State
  <2>2. OnePerProfile(T)
    BY <1>1, <2>1 DEF Orderly, OnePerProfile, ForProfile
  <2>3. Numbered(T, n + 1)
    <3> SUFFICES ASSUME NEW t \in T.running PROVE \E i \in 0..(n + 1) : t.id = <<t.profile, i>>
      BY DEF Numbered
    <3>1. CASE t = s
      BY <3>1
    <3>2. CASE t \in S.running
      <4>1. PICK i \in 0..n : t.id = <<t.profile, i>>
        BY <3>2 DEF Orderly, Numbered
      <4> QED BY <4>1
    <3> QED BY <2>1, <3>1, <3>2
  <2>4. Follows(S, T, n)
    BY <1>0, <2>1, LockOfSession, AtLeastSelf DEF Follows, Heir
  <2>5. \A t \in T.running : t.profile = s.profile \/ ForProfile(S, t.profile) # {}
    BY <2>1 DEF ForProfile
  <2>6. \A r \in S.running : r \in T.running /\ Heir(r, r)
    BY <1>0, <2>1, LockOfSession, AtLeastSelf DEF Heir
  <2> QED BY <1>1, <2>1, <2>2, <2>3, <2>4, <2>5, <2>6 DEF Orderly
<1>2. CASE ForProfile(S, s.profile) # {}
  <2> DEFINE F(r) == IF r.profile = s.profile
                       THEN [r EXCEPT !.lock = Merge(@, s.lock),
                                      !.started_at = Earlier(@, s.started_at)]
                       ELSE r
  <2>1. T.running = {F(r) : r \in S.running} /\ T.dismissed = S.dismissed
    BY <1>0, <1>2 DEF Start, State
  <2>2. ASSUME NEW r \in S.running
        PROVE  /\ F(r) \in Session /\ Heir(F(r), r)
               /\ s.lock.delayed_release_at = None =>
                    F(r).lock.delayed_release_at = r.lock.delayed_release_at
    <3>1. r \in Session /\ s.lock \in LockSet /\ s.started_at \in Int /\ r.lock \in LockSet
      BY <1>0 DEF Session
    <3>2. CASE r.profile = s.profile
      <4>1. F(r) \in Session /\ Heir(F(r), r)
        BY <3>1, <3>2, Strengthened
      <4>2. F(r).lock = Merge(r.lock, s.lock)
        BY <3>1, <3>2 DEF Session
      <4> QED BY <3>1, <4>1, <4>2, MergeKeepsRelease
    <3>3. CASE r.profile # s.profile
      BY <3>1, <3>3, AtLeastSelf DEF Heir
    <3> QED BY <3>2, <3>3
  <2> HIDE DEF F
  <2>3. T \in State
    BY <1>0, <1>2, <2>1, <2>2 DEF Start, State
  <2>4. ASSUME NEW r \in S.running PROVE F(r).id = r.id /\ F(r).profile = r.profile
    BY <2>2 DEF Heir
  <2>5. OnePerProfile(T)
    BY <2>1, <2>4 DEF Orderly, OnePerProfile
  <2>6. Numbered(T, n + 1)
    <3> SUFFICES ASSUME NEW r \in S.running
                 PROVE  \E i \in 0..(n + 1) : F(r).id = <<F(r).profile, i>>
      BY <2>1 DEF Numbered
    <3>1. PICK i \in 0..n : r.id = <<r.profile, i>>
      BY DEF Orderly, Numbered
    <3> QED BY <2>4, <3>1
  <2>7. Follows(S, T, n)
    BY <2>1, <2>2 DEF Follows
  <2>8. RunningIds(T) = RunningIds(S)
    BY <2>1, <2>4 DEF RunningIds
  <2>9. \A t \in T.running : ForProfile(S, t.profile) # {}
    BY <2>1, <2>4 DEF ForProfile
  <2>10. \A r \in S.running : F(r) \in T.running
    BY <2>1
  <2> QED BY <2>1, <2>2, <2>3, <2>5, <2>6, <2>7, <2>8, <2>9, <2>10 DEF Orderly
<1> QED BY <1>1, <1>2

\* Whatever only takes sessions away.
LEMMA FewerSound ==
  ASSUME NEW n \in Nat, NEW S, Orderly(S, n), NEW T \in State, T.running \subseteq S.running
  PROVE  Orderly(T, n) /\ Follows(S, T, n)
<1>1. Orderly(T, n)
  BY DEF Orderly, OnePerProfile, Numbered
<1>2. Follows(S, T, n)
  BY LockOfSession, AtLeastSelf DEF Orderly, Follows, Heir
<1> QED BY <1>1, <1>2

\* An end takes one session away, and only when its lock lets it go.
LEMMA EndFewer ==
  ASSUME NEW S \in State, NEW id, NEW now \in Int, NEW satisfied
  PROVE  LET T == End(S, id, now, satisfied) IN
         /\ T \in State /\ T.running \subseteq S.running
         /\ CanEnd(S, id, now, satisfied) =>
              \E e \in Running(S, id) : T.running = S.running \ {e}
         /\ ~CanEnd(S, id, now, satisfied) => T = S
<1> DEFINE T == End(S, id, now, satisfied)
<1>1. CASE ~CanEnd(S, id, now, satisfied)
  BY <1>1 DEF End
<1>2. CASE CanEnd(S, id, now, satisfied)
  <2> DEFINE e == CHOOSE s \in Running(S, id) : TRUE
  <2>1. e \in Running(S, id) /\ e \in S.running
    BY <1>2 DEF CanEnd, Running
  <2>2. T = [running |-> S.running \ {e},
             dismissed |-> [S.dismissed EXCEPT ![e.profile] = ClampedInto(e, now)]]
    BY <1>2 DEF End
  <2> HIDE DEF e
  <2>3. e.lock \in LockSet /\ e.started_at \in Int
    BY <2>1, LockOfSession
  <2>4. ClampedInto(e, now) \in Optional
    BY <2>3 DEF ClampedInto, Later, Earlier, LockSet, Optional
  <2>5. [S.dismissed EXCEPT ![e.profile] = ClampedInto(e, now)] \in [Profiles -> Optional]
    BY <2>4 DEF State
  <2>6. S.running \ {e} \in SUBSET Session
    BY DEF State
  <2>7. T \in State /\ T.running = S.running \ {e}
    BY <2>2, <2>5, <2>6 DEF State
  <2> QED BY <1>2, <2>1, <2>7
<1> QED BY <1>1, <1>2

LEMMA EndSound ==
  ASSUME NEW n \in Nat, NEW S, Orderly(S, n), NEW id, NEW now \in Int, NEW satisfied
  PROVE  /\ Orderly(End(S, id, now, satisfied), n)
         /\ Follows(S, End(S, id, now, satisfied), n)
<1>1. /\ End(S, id, now, satisfied) \in State
      /\ End(S, id, now, satisfied).running \subseteq S.running
  BY EndFewer DEF Orderly
<1> QED BY <1>1, FewerSound

LEMMA ReapSound ==
  ASSUME NEW n \in Nat, NEW S, Orderly(S, n), NEW now
  PROVE  Orderly(Reap(S, now), n) /\ Follows(S, Reap(S, now), n)
<1>1. Reap(S, now) \in State /\ Reap(S, now).running \subseteq S.running
  BY DEF Orderly, Reap, State
<1> QED BY <1>1, FewerSound

LEMMA AskReleaseSound ==
  ASSUME NEW n \in Nat, NEW S, Orderly(S, n), NEW id, NEW now \in Int
  PROVE  /\ Orderly(AskRelease(S, id, now), n)
         /\ Follows(S, AskRelease(S, id, now), n)
         /\ AskRelease(S, id, now).dismissed = S.dismissed
         /\ \A at : StartedBy(S, at) => StartedBy(AskRelease(S, id, now), at)
         /\ RunningIds(AskRelease(S, id, now)) = RunningIds(S)
<1> DEFINE T == AskRelease(S, id, now)
           F(s) == IF s.id = id THEN [s EXCEPT !.lock = RequestRelease(@, now)] ELSE s
<1>0. S \in State
  BY DEF Orderly
<1>1. T.running = {F(s) : s \in S.running} /\ T.dismissed = S.dismissed
  BY <1>0 DEF AskRelease, State
<1>2. ASSUME NEW s \in S.running
      PROVE  F(s) \in Session /\ Heir(F(s), s) /\ F(s).started_at = s.started_at
  <2>1. s \in Session
    BY <1>0 DEF State
  <2>2. RequestRelease(s.lock, now) \in LockSet /\ AtLeast(RequestRelease(s.lock, now), s.lock)
    BY <2>1, ReleaseType, ReleaseIsAtLeast DEF Session
  <2>3. AtLeast(s.lock, s.lock)
    BY <2>1, AtLeastSelf DEF Session
  <2> QED BY <2>1, <2>2, <2>3 DEF Session, Heir
<1> HIDE DEF F
<1>3. T \in State
  BY <1>0, <1>1, <1>2 DEF AskRelease, State
<1>4. ASSUME NEW s \in S.running PROVE F(s).id = s.id /\ F(s).profile = s.profile
  BY <1>2 DEF Heir
<1>5. OnePerProfile(T) /\ Numbered(T, n)
  BY <1>1, <1>4 DEF Orderly, OnePerProfile, Numbered
<1>6. Follows(S, T, n)
  BY <1>1, <1>2 DEF Follows
<1>7. RunningIds(T) = RunningIds(S)
  BY <1>1, <1>4 DEF RunningIds
<1>8. \A at : StartedBy(S, at) => StartedBy(T, at)
  BY <1>1, <1>2 DEF StartedBy
<1> QED BY <1>1, <1>3, <1>5, <1>6, <1>7, <1>8 DEF Orderly

(***************************************************************************)
(* Reconcile.  HasLast says of a set of windows what is true of every      *)
(* finite one: one of any of them ends last.                               *)
(***************************************************************************)
HasLast(W) == \A V \in SUBSET W : V # {} => \E w \in V : \A v \in V : v.end <= w.end

\* A window, as far as reconciling looks at it.
Opening(w) == w.profile \in Profiles /\ w.end \in Int /\ w.locks \subseteq Conditions

LEMMA JointLockOf ==
  ASSUME NEW W, \A w \in W : Opening(w), W # {}, HasLast(W)
  PROVE  /\ JointLock(W) \in LockSet /\ JointLock(W).delayed_release_at = None
         /\ \E w \in W : JointLock(W).ends_at = w.end
<1> DEFINE end == CHOOSE end \in {w.end : w \in W} : \A w \in W : w.end <= end
<1>1. PICK w \in W : \A v \in W : v.end <= w.end
  BY DEF HasLast
<1>2. w.end \in {v.end : v \in W} /\ \A v \in W : v.end <= w.end
  BY <1>1
<1>3. end \in {v.end : v \in W}
  BY <1>2
<1>4. end \in Int /\ \E v \in W : end = v.end
  BY <1>3 DEF Opening
<1>5. UNION {v.locks : v \in W} \in SUBSET Conditions
  BY DEF Opening
<1>6. JointLock(W) = LockOf(UNION {v.locks : v \in W}, end)
  BY DEF JointLock
<1> HIDE DEF end
<1> QED BY <1>4, <1>5, <1>6, LockOfType DEF LockOf, Optional

LEMMA JointLockType ==
  ASSUME NEW W \in SUBSET Activation, W # {}, HasLast(W)
  PROVE  JointLock(W) \in LockSet /\ JointLock(W).delayed_release_at = None
BY JointLockOf DEF Opening, Activation

(***************************************************************************)
(* What reconciling does: every session goes on, none with another         *)
(* release, and those that are begun have a window that asks for them.     *)
(***************************************************************************)
Reconciles(S, T, W, n) ==
  /\ Orderly(T, n + 1)
  /\ Follows(S, T, n)
  /\ \A t \in T.running :
       ForProfile(S, t.profile) = {} => \E w \in W : w.profile = t.profile
  /\ \A s \in S.running : \E t \in T.running :
       Heir(t, s) /\ t.lock.delayed_release_at = s.lock.delayed_release_at

LEMMA ReconcileSound ==
  ASSUME NEW n \in Nat, NEW S, Orderly(S, n + 1), NEW now \in Int,
         NEW W \in SUBSET Activation, HasLast(W),
         NEW mint \in [Profiles -> Ids], \A p \in Profiles : mint[p] = <<p, n + 1>>
  PROVE  LET T == Reconcile(S, now, W, mint) IN
         /\ Reconciles(S, T, W, n)
         /\ T.dismissed = S.dismissed
         /\ \A at \in Int : StartedBy(S, at) /\ now <= at => StartedBy(T, at)
<1> DEFINE T == Reconcile(S, now, W, mint)
           due(p) == {w \in Due(S, now, W) : w.profile = p}
           F(s) == IF due(s.profile) = {} THEN s
                   ELSE [s EXCEPT !.lock = Merge(@, JointLock(due(s.profile))),
                                  !.started_at = Earlier(@, now)]
           new(p) == [id |-> mint[p], profile |-> p, started_at |-> now,
                      lock |-> JointLock(due(p))]
           fresh == {p \in Profiles \ RunningProfiles(S) : due(p) # {}}
<1>0. S \in State /\ S.running \subseteq Session
  BY DEF Orderly, State
<1>1. /\ T = [S EXCEPT !.running = T.running]
      /\ T.running = {F(s) : s \in S.running} \cup {new(p) : p \in fresh}
  <2>1. T = [S EXCEPT !.running = {F(s) : s \in @} \cup {new(p) : p \in fresh}]
    BY DEF Reconcile
  <2> HIDE DEF T, F, new, fresh
  <2> QED BY <1>0, <2>1 DEF State
<1>2. ASSUME NEW p \in Profiles, due(p) # {}
      PROVE  JointLock(due(p)) \in LockSet /\ JointLock(due(p)).delayed_release_at = None
  <2>1. due(p) \in SUBSET Activation /\ HasLast(due(p))
    BY DEF Due, HasLast
  <2> HIDE DEF due
  <2> QED BY <1>2, <2>1, JointLockType
<1>3. ASSUME NEW s \in S.running
      PROVE  /\ F(s) \in Session /\ Heir(F(s), s)
             /\ F(s).lock.delayed_release_at = s.lock.delayed_release_at
  <2>1. s \in Session /\ s.profile \in Profiles /\ s.lock \in LockSet
    BY <1>0 DEF Session
  <2>2. CASE due(s.profile) = {}
    BY <2>1, <2>2, AtLeastSelf DEF Heir
  <2>3. CASE due(s.profile) # {}
    <3> DEFINE l == JointLock(due(s.profile))
    <3>1. l \in LockSet /\ l.delayed_release_at = None
      BY <1>2, <2>1, <2>3
    <3>2. F(s) = [s EXCEPT !.lock = Merge(@, l), !.started_at = Earlier(@, now)]
      BY <2>3
    <3> HIDE DEF l, F, due
    <3> DEFINE t == [s EXCEPT !.lock = Merge(@, l), !.started_at = Earlier(@, now)]
    <3>3. t \in Session /\ Heir(t, s)
      BY <2>1, <3>1, Strengthened
    <3> HIDE DEF t
    <3>4. F(s) \in Session /\ Heir(F(s), s)
      BY <3>2, <3>3 DEF t
    <3>5. F(s).lock = Merge(s.lock, l)
      BY <2>1, <3>2 DEF Session
    <3>6. Merge(s.lock, l).delayed_release_at = s.lock.delayed_release_at
      BY <2>1, <3>1, MergeKeepsRelease
    <3> QED BY <3>4, <3>5, <3>6
  <2> QED BY <2>2, <2>3
<1>4. ASSUME NEW p \in fresh
      PROVE  /\ new(p) \in Session /\ new(p).profile = p /\ new(p).id = <<p, n + 1>>
             /\ p \in Profiles \ RunningProfiles(S)
             /\ \E w \in W : w.profile = p
  <2>1. p \in Profiles \ RunningProfiles(S) /\ due(p) # {}
    OBVIOUS
  <2>2. \E w \in W : w.profile = p
    BY <2>1 DEF Due
  <2>3. JointLock(due(p)) \in LockSet
    BY <1>2, <2>1
  <2> HIDE DEF due, fresh
  <2>4. new(p) \in Session
    BY <2>1, <2>3 DEF Session
  <2> QED BY <2>1, <2>2, <2>4
<1>started. ASSUME NEW at \in Int, StartedBy(S, at), now <= at PROVE StartedBy(T, at)
  <2>1. ASSUME NEW s \in S.running PROVE F(s).started_at <= at
    <3>1. s \in Session /\ s.started_at <= at
      BY <1>0, <1>started DEF StartedBy
    <3>2. F(s).started_at = s.started_at \/ F(s).started_at = Earlier(s.started_at, now)
      BY <3>1 DEF Session
    <3> QED BY <1>started, <3>1, <3>2 DEF Earlier, Session
  <2>2. \A p \in fresh : new(p).started_at <= at
    BY <1>started
  <2> HIDE DEF T, F, new, fresh
  <2> QED BY <1>1, <2>1, <2>2 DEF StartedBy
<1>dismissed. T.dismissed = S.dismissed
  BY <1>0 DEF Reconcile, State
<1> HIDE DEF F, new, fresh, due
<1>5. T \in State
  <2> HIDE DEF T
  <2>1. T.running \in SUBSET Session
    BY <1>1, <1>3, <1>4
  <2> QED BY <1>0, <1>1, <2>1 DEF State
<1>6. ASSUME NEW s \in S.running PROVE F(s).id = s.id /\ F(s).profile = s.profile
  BY <1>3 DEF Heir
<1> HIDE DEF T
<1>7. OnePerProfile(T)
  <2> SUFFICES ASSUME NEW a \in T.running, NEW b \in T.running, a.profile = b.profile
               PROVE  a = b
    BY DEF OnePerProfile
  <2>1. CASE \E r, s \in S.running : a = F(r) /\ b = F(s)
    BY <1>6, <2>1 DEF Orderly, OnePerProfile
  <2>2. CASE \E p, q \in fresh : a = new(p) /\ b = new(q)
    BY <1>4, <2>2
  <2>3. \A r \in S.running, p \in fresh : F(r).profile # new(p).profile
    BY <1>4, <1>6 DEF RunningProfiles
  <2> QED BY <1>1, <2>1, <2>2, <2>3
<1>8. Numbered(T, n + 1)
  <2> SUFFICES ASSUME NEW t \in T.running PROVE \E i \in 0..(n + 1) : t.id = <<t.profile, i>>
    BY DEF Numbered
  <2>1. ASSUME NEW s \in S.running, t = F(s) PROVE \E i \in 0..(n + 1) : t.id = <<t.profile, i>>
    <3>1. PICK i \in 0..(n + 1) : s.id = <<s.profile, i>>
      BY DEF Orderly, Numbered
    <3> QED BY <1>6, <2>1, <3>1
  <2>2. ASSUME NEW p \in fresh, t = new(p) PROVE t.id = <<t.profile, n + 1>> /\ n + 1 \in 0..(n + 1)
    BY <1>4, <2>2
  <2> QED BY <1>1, <2>1, <2>2
<1>9. Follows(S, T, n)
  BY <1>1, <1>3, <1>4 DEF Follows
<1>10. \A t \in T.running :
         ForProfile(S, t.profile) = {} => \E w \in W : w.profile = t.profile
  BY <1>1, <1>4, <1>6 DEF ForProfile
<1>11. \A s \in S.running : \E t \in T.running :
         Heir(t, s) /\ t.lock.delayed_release_at = s.lock.delayed_release_at
  BY <1>1, <1>3
<1>12. Orderly(T, n + 1)
  BY <1>5, <1>7, <1>8 DEF Orderly
<1> QED BY <1>started, <1>dismissed, <1>9, <1>10, <1>11, <1>12 DEF T, Reconciles

\* No session is begun for a profile none of whose windows is due.
LEMMA ReconcileNeedsDue ==
  ASSUME NEW S \in State, NEW now, NEW W, NEW mint, NEW p,
         Due(S, now, W) \cap {w \in W : w.profile = p} = {}
  PROVE  \A t \in Reconcile(S, now, W, mint).running :
           ForProfile(S, t.profile) # {} \/ t.profile # p
<1> DEFINE due(q) == {w \in Due(S, now, W) : w.profile = q}
           F(s) == IF due(s.profile) = {} THEN s
                   ELSE [s EXCEPT !.lock = Merge(@, JointLock(due(s.profile))),
                                  !.started_at = Earlier(@, now)]
           new(q) == [id |-> mint[q], profile |-> q, started_at |-> now,
                      lock |-> JointLock(due(q))]
           fresh == {q \in Profiles \ RunningProfiles(S) : due(q) # {}}
<1>1. Reconcile(S, now, W, mint)
        = [S EXCEPT !.running = {F(s) : s \in @} \cup {new(q) : q \in fresh}]
  BY DEF Reconcile
<1>2. due(p) = {}
  BY DEF Due
<1>3. \A s \in S.running : F(s).profile = s.profile
  BY DEF State, Session
<1>4. \A q \in fresh : new(q).profile = q /\ due(q) # {}
  OBVIOUS
<1> HIDE DEF F, new, fresh, due
<1>5. Reconcile(S, now, W, mint).running
        = {F(s) : s \in S.running} \cup {new(q) : q \in fresh}
  BY <1>1 DEF State
<1> QED BY <1>2, <1>3, <1>4, <1>5 DEF ForProfile

-----------------------------------------------------------------------------
(***************************************************************************)
(* Sessions whose ids carry no number that says when they were begun, as   *)
(* on the phone: what becomes of the ids.                                  *)
(***************************************************************************)
Well(S) == S \in State /\ OnePerProfile(S) /\ \A s \in S.running : s.id[1] = s.profile

LEMMA OnePerId ==
  ASSUME NEW S, Well(S), NEW s \in S.running, NEW t \in S.running, s.id = t.id PROVE s = t
BY DEF Well, OnePerProfile

LEMMA DefaultWell == Well(Default) /\ RunningIds(Default) = {}
BY DEF Well, Default, State, OnePerProfile, Optional, RunningIds

LEMMA FewerWell ==
  ASSUME NEW S, Well(S), NEW T \in State, T.running \subseteq S.running
  PROVE  Well(T) /\ RunningIds(T) \subseteq RunningIds(S)
BY DEF Well, OnePerProfile, RunningIds

\* f says what becomes of the sessions that go on, N which ones are new.
GoesOn(S, f) ==
  f \in [S.running -> Session] /\ \A s \in S.running : f[s].id = s.id /\ f[s].profile = s.profile

Newcomers(S, N) ==
  /\ N \in SUBSET Session
  /\ \A s, t \in N : s.profile = t.profile => s = t
  /\ \A s \in N : s.id[1] = s.profile /\ s.profile \notin RunningProfiles(S)

Grows(S, T, f, N) ==
  /\ T = [running |-> T.running, dismissed |-> T.dismissed]
  /\ T.running = {f[s] : s \in S.running} \cup N
  /\ T.dismissed \in [Profiles -> Optional]

LEMMA GrownWell ==
  ASSUME NEW S, Well(S), NEW f, GoesOn(S, f), NEW N, Newcomers(S, N), NEW T, Grows(S, T, f, N)
  PROVE  /\ Well(T) /\ RunningIds(S) \subseteq RunningIds(T) /\ N \subseteq T.running
         /\ \A t \in T.running : t \in N \/ \E s \in S.running : t = f[s] /\ s.id = t.id
<1>1. T \in State
  <2>1. {f[s] : s \in S.running} \cup N \in SUBSET Session
    BY DEF GoesOn, Newcomers
  <2> QED BY <2>1 DEF Grows, State
<1>2. ASSUME NEW a \in T.running, NEW b \in T.running, a.profile = b.profile PROVE a = b
  <2>1. CASE \E r, s \in S.running : a = f[r] /\ b = f[s]
    BY <1>2, <2>1 DEF Well, OnePerProfile, GoesOn
  <2>2. \A r \in S.running, s \in N : f[r].profile # s.profile
    BY DEF RunningProfiles, GoesOn, Newcomers
  <2> QED BY <1>2, <2>1, <2>2 DEF Grows, Newcomers
<1>3. \A t \in T.running : t.id[1] = t.profile
  BY DEF Well, Grows, GoesOn, Newcomers
<1>4. /\ RunningIds(S) \subseteq RunningIds(T) /\ N \subseteq T.running
      /\ \A t \in T.running : t \in N \/ \E s \in S.running : t = f[s] /\ s.id = t.id
  BY DEF RunningIds, Grows, GoesOn
<1> QED BY <1>1, <1>2, <1>3, <1>4 DEF Well, OnePerProfile

LEMMA StartWell ==
  ASSUME NEW S, Well(S), NEW s \in Session, s.id[1] = s.profile
  PROVE  Well(Start(S, s)) /\ RunningIds(S) \subseteq RunningIds(Start(S, s))
<1> DEFINE T == Start(S, s)
<1>0. S = [running |-> S.running, dismissed |-> S.dismissed]
      /\ S.running \subseteq Session /\ S.dismissed \in [Profiles -> Optional]
  BY DEF Well, State
<1>1. CASE ForProfile(S, s.profile) = {}
  <2> DEFINE f == [r \in S.running |-> r]
             N == {s}
  <2>1. T = [running |-> S.running \cup {s}, dismissed |-> S.dismissed]
    BY <1>0, <1>1 DEF Start
  <2>2. {f[r] : r \in S.running} = S.running
    OBVIOUS
  <2>3. GoesOn(S, f)
    BY <1>0 DEF GoesOn
  <2> HIDE DEF f, T
  <2>4. Grows(S, T, f, N)
    BY <1>0, <2>1, <2>2 DEF Grows
  <2>5. Newcomers(S, N)
    BY <1>1 DEF Newcomers, RunningProfiles, ForProfile
  <2> HIDE DEF N
  <2>6. Well(T) /\ RunningIds(S) \subseteq RunningIds(T)
    BY <2>3, <2>4, <2>5, GrownWell
  <2> QED BY <2>6 DEF T
<1>2. CASE ForProfile(S, s.profile) # {}
  <2> DEFINE stronger(r) == [r EXCEPT !.lock = Merge(@, s.lock), !.started_at = Earlier(@, s.started_at)]
             f == [r \in S.running |-> IF r.profile = s.profile THEN stronger(r) ELSE r]
             N == {}
  <2>1. T = [running |-> {f[r] : r \in S.running}, dismissed |-> S.dismissed]
    BY <1>0, <1>2 DEF Start
  <2>2. ASSUME NEW r \in S.running
        PROVE  f[r] \in Session /\ f[r].id = r.id /\ f[r].profile = r.profile
    <3>1. r \in Session /\ s.lock \in LockSet /\ s.started_at \in Int
      BY <1>0 DEF Session
    <3>2. stronger(r) \in Session /\ Heir(stronger(r), r)
      BY <3>1, Strengthened
    <3> QED BY <3>1, <3>2 DEF Heir
  <2>3. GoesOn(S, f)
    <3>1. f = [r \in S.running |-> f[r]]
      OBVIOUS
    <3> HIDE DEF f
    <3> QED BY <2>2, <3>1 DEF GoesOn
  <2> HIDE DEF f, T
  <2>4. Grows(S, T, f, N)
    BY <1>0, <2>1 DEF Grows
  <2>5. Newcomers(S, N)
    BY DEF Newcomers
  <2> HIDE DEF N
  <2>6. Well(T) /\ RunningIds(S) \subseteq RunningIds(T)
    BY <2>3, <2>4, <2>5, GrownWell
  <2> QED BY <2>6 DEF T
<1> QED BY <1>1, <1>2

LEMMA AskReleaseWell ==
  ASSUME NEW S, Well(S), NEW id, NEW now \in Int
  PROVE  Well(AskRelease(S, id, now)) /\ RunningIds(AskRelease(S, id, now)) = RunningIds(S)
<1> DEFINE T == AskRelease(S, id, now)
           asked(s) == IF s.id = id THEN [s EXCEPT !.lock = RequestRelease(@, now)] ELSE s
           f == [s \in S.running |-> asked(s)]
           N == {}
<1>0. S = [running |-> S.running, dismissed |-> S.dismissed]
      /\ S.running \subseteq Session /\ S.dismissed \in [Profiles -> Optional]
  BY DEF Well, State
<1>1. T = [S EXCEPT !.running = {asked(s) : s \in S.running}]
  BY DEF AskRelease
<1>2. ASSUME NEW s \in S.running
      PROVE  asked(s) \in Session /\ asked(s).id = s.id /\ asked(s).profile = s.profile
  <2>1. s \in Session /\ s.lock \in LockSet
    BY <1>0 DEF Session
  <2>2. RequestRelease(s.lock, now) \in LockSet
    BY <2>1, ReleaseType
  <2> QED BY <2>1, <2>2 DEF Session
<1> HIDE DEF asked
<1>3. {f[s] : s \in S.running} = {asked(s) : s \in S.running}
  OBVIOUS
<1>4. GoesOn(S, f)
  BY <1>2 DEF GoesOn
<1> HIDE DEF f, T
<1>5. Grows(S, T, f, N)
  BY <1>0, <1>1, <1>3 DEF Grows
<1>6. Newcomers(S, N)
  BY DEF Newcomers
<1>7. RunningIds(T) \subseteq RunningIds(S)
  <2>1. T.running = {asked(s) : s \in S.running}
    BY <1>0, <1>1
  <2> QED BY <1>2, <2>1 DEF RunningIds
<1> HIDE DEF N
<1>8. Well(T) /\ RunningIds(S) \subseteq RunningIds(T)
  BY <1>4, <1>5, <1>6, GrownWell
<1> QED BY <1>7, <1>8 DEF T

\* An end that is not allowed changes nothing; one that is takes the session of that id.
LEMMA EndWell ==
  ASSUME NEW S, Well(S), NEW id, NEW now \in Int, NEW satisfied
  PROVE  LET T == End(S, id, now, satisfied) IN
         /\ Well(T) /\ RunningIds(T) \subseteq RunningIds(S)
         /\ \A s \in S.running : s.id \notin RunningIds(T) =>
              s.id = id /\ CanRelease(s.lock, now, satisfied)
<1> DEFINE T == End(S, id, now, satisfied)
<1>1. Well(T) /\ RunningIds(T) \subseteq RunningIds(S)
  BY EndFewer, FewerWell DEF Well
<1>2. ASSUME NEW s \in S.running, s.id \notin RunningIds(T)
      PROVE  s.id = id /\ CanRelease(s.lock, now, satisfied)
  <2>1. s \notin T.running
    BY <1>2 DEF RunningIds
  <2>2. CanEnd(S, id, now, satisfied) /\ \E e \in Running(S, id) : T.running = S.running \ {e}
    BY <2>1, EndFewer DEF Well
  <2>3. PICK e \in Running(S, id) : T.running = S.running \ {e}
    BY <2>2
  <2>4. s = e
    BY <2>1, <2>3
  <2>5. PICK r \in Running(S, id) : CanRelease(r.lock, now, satisfied)
    BY <2>2 DEF CanEnd
  <2>6. r = s
    BY <2>3, <2>4, <2>5, OnePerId DEF Running
  <2> QED BY <2>3, <2>4, <2>5, <2>6 DEF Running
<1> QED BY <1>1, <1>2

\* Nothing that reconciling makes of a session is over that the session was not.
LEMMA ReconcileWell ==
  ASSUME NEW S, Well(S), NEW now \in Int, NEW W, \A w \in W : Opening(w), HasLast(W),
         NEW mint \in [Profiles -> Ids], \A p \in Profiles : mint[p][1] = p
  PROVE  LET T == Reconcile(S, now, W, mint) IN
         /\ Well(T) /\ RunningIds(S) \subseteq RunningIds(T)
         /\ \A s \in S.running, t \in T.running :
              s.id = t.id /\ IsExpired(t.lock, now) => IsExpired(s.lock, now)
<1> DEFINE T == Reconcile(S, now, W, mint)
           due(p) == {w \in Due(S, now, W) : w.profile = p}
           f == [s \in S.running |->
                  IF due(s.profile) = {} THEN s
                  ELSE [s EXCEPT !.lock = Merge(@, JointLock(due(s.profile))),
                                 !.started_at = Earlier(@, now)]]
           new(p) == [id |-> mint[p], profile |-> p, started_at |-> now,
                      lock |-> JointLock(due(p))]
           fresh == {p \in Profiles \ RunningProfiles(S) : due(p) # {}}
           N == {new(p) : p \in fresh}
<1>0. S = [running |-> S.running, dismissed |-> S.dismissed]
      /\ S.running \subseteq Session /\ S.dismissed \in [Profiles -> Optional]
  BY DEF Well, State
<1>1. Grows(S, T, f, N)
  <2>1. T = [S EXCEPT !.running = {f[s] : s \in S.running} \cup N]
    BY DEF Reconcile
  <2> HIDE DEF T, f, N
  <2> QED BY <1>0, <2>1 DEF Grows
<1>2. ASSUME NEW p \in Profiles, due(p) # {}
      PROVE  LET l == JointLock(due(p)) IN
             /\ l \in LockSet /\ l.delayed_release_at = None
             /\ l.ends_at \in Int /\ l.ends_at > now
  <2>1. HasLast(due(p)) /\ \A w \in due(p) : Opening(w) /\ w.end > now
    BY DEF Due, HasLast
  <2> HIDE DEF due
  <2>2. PICK w \in due(p) : JointLock(due(p)).ends_at = w.end
    BY <1>2, <2>1, JointLockOf
  <2> QED BY <1>2, <2>1, <2>2, JointLockOf DEF Opening
<1>3. ASSUME NEW s \in S.running
      PROVE  /\ f[s] \in Session /\ f[s].id = s.id /\ f[s].profile = s.profile
             /\ IsExpired(f[s].lock, now) => IsExpired(s.lock, now)
  <2>1. s \in Session /\ s.profile \in Profiles /\ s.lock \in LockSet
    BY <1>0 DEF Session
  <2>2. CASE due(s.profile) = {}
    BY <2>1, <2>2
  <2>3. CASE due(s.profile) # {}
    <3> DEFINE l == JointLock(due(s.profile))
    <3>1. l \in LockSet /\ l.delayed_release_at = None /\ l.ends_at \in Int /\ l.ends_at > now
      BY <1>2, <2>1, <2>3
    <3>2. f[s] = [s EXCEPT !.lock = Merge(@, l), !.started_at = Earlier(@, now)]
      BY <2>3
    <3> HIDE DEF l, f, due
    <3> DEFINE t == [s EXCEPT !.lock = Merge(@, l), !.started_at = Earlier(@, now)]
    <3>3. t \in Session /\ Heir(t, s)
      BY <2>1, <3>1, Strengthened
    <3>4. t.lock = Merge(s.lock, l)
      BY <2>1 DEF Session
    <3> HIDE DEF t
    <3>5. IsExpired(Merge(s.lock, l), now) => IsExpired(s.lock, now)
      BY <2>1, <3>1, LocksAssumption
         DEF Merge, IsEmpty, Unlocked, LockOf, LatestEnd, Later, MinOpt, IsExpired, Passed, LockSet, Optional
    <3> QED BY <3>2, <3>3, <3>4, <3>5 DEF t, Heir
  <2> QED BY <2>2, <2>3
<1>4. ASSUME NEW p \in fresh
      PROVE  /\ new(p) \in Session /\ new(p).profile = p /\ new(p).id[1] = p
             /\ p \notin RunningProfiles(S) /\ ~IsExpired(new(p).lock, now)
  <2>1. p \in Profiles \ RunningProfiles(S) /\ due(p) # {}
    OBVIOUS
  <2>2. LET l == JointLock(due(p)) IN
          l \in LockSet /\ l.delayed_release_at = None /\ l.ends_at \in Int /\ l.ends_at > now
    BY <1>2, <2>1
  <2>3. ~IsExpired(JointLock(due(p)), now)
    BY <2>2 DEF IsExpired, Passed
  <2> HIDE DEF due, fresh
  <2> QED BY <2>1, <2>2, <2>3 DEF Session
<1>5. GoesOn(S, f)
  <2>1. f = [s \in S.running |-> f[s]]
    OBVIOUS
  <2> HIDE DEF f
  <2> QED BY <1>3, <2>1 DEF GoesOn
<1> HIDE DEF f, new, fresh, due
<1>6. Newcomers(S, N) /\ \A s \in N : ~IsExpired(s.lock, now)
  BY <1>4 DEF Newcomers
<1> HIDE DEF T, N
<1>7. /\ Well(T) /\ RunningIds(S) \subseteq RunningIds(T)
      /\ \A t \in T.running : t \in N \/ \E s \in S.running : t = f[s] /\ s.id = t.id
  BY <1>1, <1>5, <1>6, GrownWell
<1>8. ASSUME NEW s \in S.running, NEW t \in T.running, s.id = t.id, IsExpired(t.lock, now)
      PROVE  IsExpired(s.lock, now)
  <2>1. PICK r \in S.running : t = f[r] /\ r.id = t.id
    BY <1>6, <1>7, <1>8
  <2>2. r = s
    BY <1>8, <2>1, OnePerId
  <2> QED BY <1>3, <1>8, <2>1, <2>2
<1> QED BY <1>7, <1>8 DEF T

\* Reaping takes what is over.
LEMMA ReapWell ==
  ASSUME NEW S, Well(S), NEW now
  PROVE  /\ Well(Reap(S, now)) /\ RunningIds(Reap(S, now)) \subseteq RunningIds(S)
         /\ \A s \in S.running : s.id \notin RunningIds(Reap(S, now)) => IsExpired(s.lock, now)
<1>1. /\ Reap(S, now) \in State
      /\ Reap(S, now).running = {s \in S.running : ~IsExpired(s.lock, now)}
  BY DEF Well, Reap, State
<1> QED BY <1>1, FewerWell DEF RunningIds

\* What is read back takes nothing away, and all of it comes back where nothing runs.
LEMMA RestoreWell ==
  ASSUME NEW S, Well(S), NEW R, Well(R)
  PROVE  LET T == Restore(S, R) IN
         /\ Well(T) /\ RunningIds(S) \subseteq RunningIds(T)
         /\ RunningIds(T) \subseteq RunningIds(S) \cup RunningIds(R)
         /\ S = Default => RunningIds(R) \subseteq RunningIds(T)
<1> DEFINE T == Restore(S, R)
           stored(s) == CHOOSE r \in ForProfile(R, s.profile) : TRUE
           f == [s \in S.running |->
                  IF ForProfile(R, s.profile) = {} THEN s
                  ELSE [s EXCEPT !.lock = Harden(@, stored(s).lock)]]
           N == {s \in R.running : s.profile \notin RunningProfiles(S) /\ ~DismissalCovers(S, s)}
<1>0. /\ S.running \subseteq Session /\ S.dismissed \in [Profiles -> Optional]
      /\ R.running \subseteq Session /\ R.dismissed \in [Profiles -> Optional]
  BY DEF Well, State
<1>1. /\ T = [running |-> T.running, dismissed |-> T.dismissed]
      /\ T.running = {f[s] : s \in S.running} \cup N
      /\ T.dismissed = [p \in Profiles |-> IF S.dismissed[p] = None THEN R.dismissed[p]
                                                                    ELSE S.dismissed[p]]
  BY DEF Restore
<1>2. Grows(S, T, f, N)
  <2> HIDE DEF T, f, N
  <2> QED BY <1>0, <1>1 DEF Grows
<1>3. ASSUME NEW s \in S.running
      PROVE  f[s] \in Session /\ f[s].id = s.id /\ f[s].profile = s.profile
  <2>1. s \in Session /\ s.lock \in LockSet
    BY <1>0 DEF Session
  <2>2. CASE ForProfile(R, s.profile) = {}
    BY <2>1, <2>2
  <2>3. CASE ForProfile(R, s.profile) # {}
    <3>1. stored(s) \in R.running
      BY <2>3 DEF ForProfile
    <3>2. f[s] = [s EXCEPT !.lock = Harden(@, stored(s).lock)]
      BY <2>3
    <3> HIDE DEF stored, f
    <3>3. Harden(s.lock, stored(s).lock) \in LockSet
      BY <1>0, <2>1, <3>1, HardenType DEF Session
    <3> QED BY <2>1, <3>2, <3>3 DEF Session
  <2> QED BY <2>2, <2>3
<1>4. GoesOn(S, f)
  <2>1. f = [s \in S.running |-> f[s]]
    OBVIOUS
  <2> HIDE DEF f
  <2> QED BY <1>3, <2>1 DEF GoesOn
<1>5. Newcomers(S, N)
  BY <1>0 DEF Newcomers, Well, OnePerProfile
<1>6. S = Default => R.running \subseteq N
  <2> SUFFICES ASSUME S = Default, NEW s \in R.running PROVE s \in N
    OBVIOUS
  <2>1. s.profile \in Profiles
    BY <1>0 DEF Session
  <2>2. S.running = {} /\ S.dismissed[s.profile] = None
    BY <2>1 DEF Default
  <2> QED BY <2>2 DEF DismissalCovers, RunningProfiles
<1>7. N \subseteq R.running
  OBVIOUS
<1> HIDE DEF T, N, f
<1>8. /\ Well(T) /\ RunningIds(S) \subseteq RunningIds(T) /\ N \subseteq T.running
      /\ \A t \in T.running : t \in N \/ \E s \in S.running : t = f[s] /\ s.id = t.id
  BY <1>2, <1>4, <1>5, GrownWell
<1> QED BY <1>6, <1>7, <1>8 DEF T, RunningIds
=============================================================================
