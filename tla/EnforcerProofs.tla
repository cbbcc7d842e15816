--------------------------- MODULE EnforcerProofs ---------------------------
(***************************************************************************)
(* The safety of the enforcer, and of the service around it through any    *)
(* number of crashes and restarts, for any profiles, windows, conditions   *)
(* and waits.                                                              *)
(***************************************************************************)
EXTENDS Service, SessionsProofs, FiniteSetTheorems

(***************************************************************************)
(* The invariant.  Orderly: one session per profile, numbered up to minted.  *)
(* Dated: nothing that is remembered lies in the future.  Checked: a proof *)
(* that still counts is a check that was really made.  Announced: the      *)
(* freeze fires no sooner than its warning has run.  Remembered: the       *)
(* instant kept for a profile lies in every window its last end cut short. *)
(***************************************************************************)
Dated ==
  /\ loopNow # None => loopNow <= now
  /\ \A at \in passes : at <= now
  /\ \A q \in proofs : q.at <= now
  /\ StartedBy(sessions, now)

Checked == \A q \in proofs : Fresh(q, now) => q \in checked

Announced == freeze # None => freeze.fires_at = freeze.announced_at + MINIMUM_WARNING_SECONDS

Remembered ==
  \A w \in ended : /\ sessions.dismissed[w.profile] # None
                        /\ Covers(w, sessions.dismissed[w.profile])

Inv ==
  /\ TypeOK
  /\ Orderly(sessions, minted)
  /\ Dated
  /\ Checked
  /\ Announced
  /\ Remembered
  /\ IsFiniteSet(passes)
  /\ PassRation

LEMMA Constants ==
  /\ None \notin Int
  /\ PROOF_SECONDS \in Nat \ {0} /\ MINIMUM_WARNING_SECONDS \in Nat \ {0}
  /\ PassQuota \in Nat /\ PassWindow \in Nat \ {0} /\ PassCooldown \in Nat \ {0}
  /\ Strangers \subseteq Ids /\ Windows \in SUBSET Activation /\ HasLast(Windows)
  /\ \A r \in Starts : r.profile \in Profiles /\ r.seconds \in Nat /\ r.locks \in SUBSET Conditions
  /\ Claimable \subseteq Conditions /\ Provable \subseteq Conditions
BY LocksAssumption, EnforcerAssumption DEF Ids, HasLast

LEMMA InitInv == Init => Inv
<1> SUFFICES ASSUME Init PROVE Inv
  OBVIOUS
<1>1. Orderly(sessions, minted)
  BY DEF Init, Default, Orderly, State, OnePerProfile, Numbered, Optional
<1>2. TypeOK
  BY <1>1 DEF Init, TypeOK, Orderly, NoBoots, Optional
<1>3. Dated /\ Checked /\ Announced /\ Remembered /\ PassRation
  BY DEF Init, Default, StartedBy, Dated, Checked, Announced, Remembered,
         PassRation, QuotaKept, CooldownKept
<1>4. IsFiniteSet(passes)
  BY FS_EmptySet DEF Init
<1> QED BY <1>1, <1>2, <1>3, <1>4 DEF Inv

-----------------------------------------------------------------------------
(***************************************************************************)
(* The ways out and the release end or ask; both keep the sessions sound.  *)
(***************************************************************************)
\* Which session an end takes away, and when it is remembered to have ended.
LEMMA EndTakes ==
  ASSUME Inv, NEW id, NEW evidence, Ended(id, evidence), CanEnd(sessions, id, now, evidence)
  PROVE  \E e \in sessions.running :
           /\ Running(sessions, id) = {e}
           /\ CanRelease(e.lock, now, evidence)
           /\ sessions'.running = sessions.running \ {e}
           /\ sessions'.dismissed
                = [sessions.dismissed EXCEPT ![e.profile] = ClampedInto(e, now)]
<1> DEFINE e == CHOOSE r \in Running(sessions, id) : TRUE
<1>1. e \in Running(sessions, id)
  BY DEF CanEnd
<1>2. /\ sessions'.running = sessions.running \ {e}
      /\ sessions'.dismissed = [sessions.dismissed EXCEPT ![e.profile] = ClampedInto(e, now)]
  BY DEF Ended, End
<1> HIDE DEF e
<1>3. ASSUME NEW r \in Running(sessions, id) PROVE r = e
  <2>1. r.profile = e.profile
    BY <1>1 DEF Inv, Orderly, Numbered, Running
  <2> QED BY <1>1, <2>1 DEF Inv, Orderly, OnePerProfile, Running
<1>4. Running(sessions, id) = {e} /\ CanRelease(e.lock, now, evidence)
  BY <1>1, <1>3 DEF CanEnd
<1> QED BY <1>1, <1>2, <1>4 DEF Running

LEMMA EndedSound ==
  ASSUME Inv, NEW id, NEW evidence, Ended(id, evidence)
  PROVE  /\ Orderly(sessions', minted) /\ Follows(sessions, sessions', minted)
         /\ ended' \in SUBSET Windows
         /\ StartedBy(sessions', now)
         /\ Remembered'
<1>1. minted \in Nat /\ now \in Int /\ schedule \subseteq Windows
      /\ ended \in SUBSET Windows
  BY DEF Inv, TypeOK
<1>2. Orderly(sessions', minted) /\ Follows(sessions, sessions', minted)
  BY <1>1, EndSound DEF Ended, Inv
<1>3. CutShort(id) \subseteq Windows
  BY <1>1 DEF CutShort
<1>4. CASE ~CanEnd(sessions, id, now, evidence)
  <2>1. sessions' = sessions /\ ended' = ended
    BY <1>4 DEF Ended, End
  <2> QED BY <1>1, <1>2, <2>1 DEF Inv, Dated, StartedBy, Remembered
<1>5. CASE CanEnd(sessions, id, now, evidence)
  <2>1. PICK e \in sessions.running :
          /\ Running(sessions, id) = {e}
          /\ sessions'.running = sessions.running \ {e}
          /\ sessions'.dismissed = [sessions.dismissed EXCEPT ![e.profile] = ClampedInto(e, now)]
    BY <1>5, EndTakes
  <2>2. ended' = CutShort(id) \cup {w \in ended : e.profile # w.profile}
    BY <1>5, <2>1 DEF Ended
  <2>3. e \in Session /\ e.started_at <= now /\ e.profile \in Profiles
        /\ sessions.dismissed \in [Profiles -> Optional]
    BY DEF Inv, TypeOK, State, Session, Dated, StartedBy
  <2>4. ASSUME NEW w \in CutShort(id)
        PROVE  /\ sessions'.dismissed[w.profile] # None
               /\ Covers(w, sessions'.dismissed[w.profile])
    <3>1. e.profile = w.profile /\ Covers(w, now) /\ ~IsExpired(e.lock, now)
      BY <2>1 DEF CutShort
    <3>2. e.started_at \in Int /\ e.lock.ends_at \in Optional
      BY <2>3 DEF Session, LockSet
    <3>3. ClampedInto(e, now) = now
      BY <1>1, <2>3, <3>1, <3>2, Constants
         DEF ClampedInto, Later, Earlier, IsExpired, Passed, Optional
    <3>4. sessions'.dismissed[w.profile] = now
      BY <2>1, <2>3, <3>1, <3>3
    <3> QED BY <1>1, <3>1, <3>4, Constants
  <2>5. ASSUME NEW w \in ended, e.profile # w.profile
        PROVE  /\ sessions'.dismissed[w.profile] # None
               /\ Covers(w, sessions'.dismissed[w.profile])
    <3>1. w.profile \in Profiles
      BY <1>1, Constants DEF Activation
    <3>2. sessions'.dismissed[w.profile] = sessions.dismissed[w.profile]
      BY <2>1, <2>3, <2>5, <3>1
    <3> QED BY <3>2 DEF Inv, Remembered
  <2>6. StartedBy(sessions', now)
    BY <2>1 DEF StartedBy, Inv, Dated
  <2> QED BY <1>1, <1>2, <1>3, <2>2, <2>4, <2>5, <2>6 DEF Remembered
<1> QED BY <1>4, <1>5

\* A session is gone after it was ended: it was that one, and the lock allowed it.
LEMMA EndedByRight ==
  ASSUME Inv, NEW id, NEW evidence, Ended(id, evidence),
         NEW s \in sessions.running, s.id \notin RunningIds(sessions)'
  PROVE  s.id = id /\ CanRelease(s.lock, now, evidence)
<1>1. sessions' = End(sessions, id, now, evidence)
  BY DEF Ended
<1>2. CanEnd(sessions, id, now, evidence)
  BY <1>1 DEF End, RunningIds
<1>3. PICK e \in sessions.running :
        /\ Running(sessions, id) = {e}
        /\ CanRelease(e.lock, now, evidence)
        /\ sessions'.running = sessions.running \ {e}
  BY <1>2, EndTakes
<1>4. s = e
  BY <1>3 DEF RunningIds
<1> QED BY <1>3, <1>4 DEF Running

-----------------------------------------------------------------------------
(***************************************************************************)
(* The invariant, one lemma per action.  With it goes what a step does to  *)
(* the sessions (Follows), which is what NeverWeaker is about.             *)
(***************************************************************************)
Good == Inv' /\ Follows(sessions, sessions', minted)

LEMMA Still == Inv => Follows(sessions, sessions, minted)
BY FollowsSelf DEF Inv, Orderly

LEMMA ClockGood == Inv /\ Clock => Good
<1> SUFFICES ASSUME Inv, Clock PROVE Good
  OBVIOUS
<1>1. TypeOK'
  BY DEF Inv, TypeOK, Clock
<1>2. Dated'
  <2>1. now \in Int /\ now' = now + 1 /\ UNCHANGED <<loopNow, passes, proofs, sessions>>
    BY DEF Inv, TypeOK, Clock
  <2>2. \A s \in sessions.running : s.started_at \in Int /\ s.started_at <= now
    BY LockOfSession DEF Inv, TypeOK, Dated, StartedBy
  <2>3. StartedBy(sessions, now)'
    BY <2>1, <2>2 DEF StartedBy
  <2> QED BY <2>1, <2>3 DEF Inv, TypeOK, Dated, Proof, Optional
<1>3. Checked'
  <2> SUFFICES ASSUME NEW q \in proofs, Fresh(q, now + 1) PROVE q \in checked'
    BY DEF Clock, Checked
  <2>1. q.at \in Int /\ now \in Int /\ q.at <= now /\ PROOF_SECONDS \in Int
    BY Constants DEF Inv, TypeOK, Proof, Dated
  <2>2. Fresh(q, now)
    BY <2>1 DEF Fresh
  <2> QED BY <2>2 DEF Inv, Checked, Clock
<1> QED BY <1>1, <1>2, <1>3, Still
        DEF Inv, Clock, Good, Announced, Remembered, PassRation, QuotaKept, CooldownKept

LEMMA EditGood == ASSUME Inv, NEW w \in Windows, EditSchedule(w) PROVE Good
<1>1. TypeOK'
  BY DEF Inv, TypeOK, EditSchedule
<1> QED BY <1>1, Still
        DEF Inv, EditSchedule, Good, Dated, Checked, Fresh, Announced, Remembered, PassRation, QuotaKept, CooldownKept

LEMMA StartGood == ASSUME Inv, NEW r \in Starts, StartSession(r) PROVE Good
<1> DEFINE s == [id |-> NewId(r.profile, minted + 1), profile |-> r.profile,
                 started_at |-> now, lock |-> LockOf(r.locks, now + r.seconds)]
<1>1. minted \in Nat /\ now \in Int /\ now + r.seconds \in Optional
  BY Constants DEF Inv, TypeOK, Optional
<1>2. s \in Session /\ s.id = <<s.profile, minted + 1>> /\ s.profile = r.profile
  BY <1>1, Constants, LockOfType DEF Session, Ids, NewId
<1>3. sessions' = Start(sessions, s) /\ s.started_at = now
  BY DEF StartSession
<1>4. Orderly(sessions, minted)
  BY DEF Inv
<1> HIDE DEF s
<1>5. /\ Orderly(sessions', minted + 1) /\ Follows(sessions, sessions', minted)
      /\ ForProfile(sessions, r.profile) # {} => RunningIds(sessions') = RunningIds(sessions)
      /\ sessions'.dismissed = sessions.dismissed
  BY <1>1, <1>2, <1>3, <1>4, StartSound
<1>6. minted' \in Nat /\ Orderly(sessions', minted')
  <2>1. CASE ForProfile(sessions, r.profile) = {}
    BY <1>1, <1>5, <2>1 DEF StartSession
  <2>2. CASE ForProfile(sessions, r.profile) # {}
    BY <1>1, <1>4, <1>5, <2>2, SameIdsSameNumbers DEF StartSession
  <2> QED BY <2>1, <2>2
<1>7. TypeOK'
  BY <1>6 DEF Inv, TypeOK, StartSession, Orderly
<1>8. StartedBy(sessions', now)
  BY <1>1, <1>2, <1>3, StartStarted DEF Inv, TypeOK, Dated
<1> QED BY <1>5, <1>6, <1>7, <1>8
        DEF Inv, StartSession, Good, Dated, Checked, Fresh, Announced, Remembered, PassRation, QuotaKept, CooldownKept

LEMMA AnnounceType ==
  ASSUME NEW at \in Int, NEW p \in Profiles, NEW seconds \in Nat
  PROVE  /\ Announce(at, p, seconds) \in Countdown
         /\ Announce(at, p, seconds).fires_at
              = Announce(at, p, seconds).announced_at + MINIMUM_WARNING_SECONDS
BY Constants DEF Announce, Countdown

LEMMA FreezeGood ==
  ASSUME Inv, CancelFreeze \/ \E r \in Starts : StartFreeze(r) PROVE Good
<1>1. (freeze' = None \/ freeze' \in Countdown) /\ Announced'
  <2>1. CASE CancelFreeze
    BY <2>1 DEF CancelFreeze, Announced
  <2>2. ASSUME NEW r \in Starts, StartFreeze(r)
        PROVE  freeze' \in Countdown /\ Announced'
    BY <2>2, Constants, AnnounceType DEF StartFreeze, Announced, Inv, TypeOK
  <2> QED BY <2>1, <2>2
<1>2. UNCHANGED <<now, loopNow, sessions, proofs, releases, passes, boot_id, boots, schedule,
                  minted, checked, ended>>
  BY DEF CancelFreeze, StartFreeze
<1>3. TypeOK'
  BY <1>1, <1>2 DEF Inv, TypeOK
<1> QED BY <1>1, <1>2, <1>3, Still
        DEF Inv, Good, Dated, Checked, Fresh, Remembered, PassRation, QuotaKept, CooldownKept

LEMMA EndGood ==
  ASSUME Inv, NEW id, NEW claimed \in SUBSET Conditions, EndSession(id, claimed) PROVE Good
<1> DEFINE evidence == (claimed \cap Claimable) \cup Proven(id, now)
<1>1. Ended(id, evidence)
  BY DEF EndSession
<1> HIDE DEF evidence
<1>2. /\ Orderly(sessions', minted) /\ Follows(sessions, sessions', minted)
      /\ ended' \in SUBSET Windows
      /\ StartedBy(sessions', now) /\ Remembered'
  BY <1>1, EndedSound
<1>3. TypeOK'
  BY <1>2 DEF Inv, TypeOK, EndSession, Orderly
<1>4. Dated' /\ Checked'
  BY <1>2 DEF Inv, EndSession, Dated, Checked, Fresh
<1> QED BY <1>2, <1>3, <1>4
        DEF Inv, EndSession, Good, Announced, PassRation, QuotaKept, CooldownKept

LEMMA ProveGood ==
  ASSUME Inv, NEW id \in Ids, NEW lock \in Provable, NEW forgets, Prove(id, lock, forgets)
  PROVE  Good
<1> DEFINE q0 == [id |-> id, lock |-> lock, at |-> now]
<1>1. /\ Orderly(sessions', minted) /\ Follows(sessions, sessions', minted)
      /\ ended' \in SUBSET Windows
      /\ StartedBy(sessions', now) /\ Remembered'
  BY EndedSound DEF Prove
<1>2. proofs' \subseteq proofs \cup {q0} /\ checked' = checked \cup {q0}
  BY DEF Prove, Recorded
<1>3. q0 \in Proof /\ q0.at = now /\ now \in Int
  BY Constants DEF Proof, Inv, TypeOK
<1>4. UNCHANGED <<now, loopNow, releases, passes, boot_id, boots, freeze, schedule, minted>>
  BY DEF Prove
<1> HIDE DEF q0
<1>5. TypeOK'
  BY <1>1, <1>2, <1>3, <1>4 DEF Inv, TypeOK, Orderly
<1>6. Dated' /\ Checked'
  BY <1>1, <1>2, <1>3, <1>4 DEF Inv, Dated, Checked, Fresh
<1> QED BY <1>1, <1>4, <1>5, <1>6
        DEF Inv, Good, Announced, PassRation, QuotaKept, CooldownKept

LEMMA ReleaseGood == ASSUME Inv, NEW id \in Ids, Release(id) PROVE Good
<1>1. /\ Orderly(sessions', minted) /\ Follows(sessions, sessions', minted)
      /\ ended' \in SUBSET Windows
      /\ StartedBy(sessions', now) /\ Remembered'
  BY EndedSound DEF Release
<1>2. proofs' \subseteq proofs /\ releases' = releases \cup {id}
  BY DEF Release
<1>3. UNCHANGED <<now, loopNow, passes, boot_id, boots, freeze, schedule, minted, checked>>
  BY DEF Release
<1>4. TypeOK'
  BY <1>1, <1>2, <1>3 DEF Inv, TypeOK, Orderly
<1>5. Dated' /\ Checked'
  BY <1>1, <1>2, <1>3 DEF Inv, Dated, Checked, Fresh
<1> QED BY <1>1, <1>3, <1>4, <1>5
        DEF Inv, Good, Announced, PassRation, QuotaKept, CooldownKept

LEMMA AskGood == ASSUME Inv, NEW id, RequestTheRelease(id) PROVE Good
<1>1. minted \in Nat /\ now \in Int /\ Orderly(sessions, minted)
  BY DEF Inv, TypeOK
<1>2. /\ Orderly(sessions', minted) /\ Follows(sessions, sessions', minted)
      /\ sessions'.dismissed = sessions.dismissed
      /\ \A at : StartedBy(sessions, at) => StartedBy(sessions', at)
  BY <1>1, AskReleaseSound DEF RequestTheRelease
<1>3. TypeOK'
  BY <1>2 DEF Inv, TypeOK, RequestTheRelease, Orderly
<1> QED BY <1>2, <1>3
        DEF Inv, RequestTheRelease, Good, Dated, Checked, Fresh, Announced, Remembered, PassRation, QuotaKept,
            CooldownKept

LEMMA ObserveGood == Inv /\ Observe => Good
<1> SUFFICES ASSUME Inv, Observe PROVE Good
  OBVIOUS
<1>1. TypeOK'
  BY DEF Inv, TypeOK, Observe, Optional
<1> QED BY <1>1, Still
        DEF Inv, TypeOK, Observe, Good, Dated, Checked, Fresh, Announced, Remembered, PassRation, QuotaKept,
            CooldownKept

(***************************************************************************)
(* The ration.  A pass that may be spent is the first of its instant and   *)
(* finds fewer than the quota in the window that ends with it; no earlier  *)
(* pass sees the new one.                                                  *)
(***************************************************************************)
LEMMA SpendKeepsRation ==
  ASSUME Inv, CanSpend, passes' = passes \cup {now}, now' = now
  PROVE  IsFiniteSet(passes') /\ now \notin passes /\ PassRation'
<1>1. /\ now \in Int /\ passes \in SUBSET Int /\ IsFiniteSet(passes)
      /\ \A at \in passes : at <= now
  BY DEF Inv, TypeOK, Dated
<1>2. now \notin passes
  <2> SUFFICES ASSUME now \in passes PROVE FALSE
    OBVIOUS
  <2>1. now \in RecentPasses
    BY <1>1, Constants DEF RecentPasses
  <2> QED BY <1>1, <2>1, Constants DEF CanSpend
<1>3. IsFiniteSet(passes')
  BY <1>1, FS_AddElement
<1>4. CooldownKept'
  <2>1. ASSUME NEW a \in passes, a < now PROVE now - a >= Earlier(PassCooldown, PassWindow)
    <3>1. CASE a > now - PassWindow
      <4>1. now >= a + PassCooldown
        BY <3>1 DEF CanSpend, RecentPasses
      <4> QED BY <1>1, <4>1, Constants DEF Earlier
    <3>2. CASE ~(a > now - PassWindow)
      BY <1>1, <3>2, Constants DEF Earlier
    <3> QED BY <3>1, <3>2
  <2>2. ASSUME NEW a \in passes', NEW b \in passes', a < b
        PROVE  b - a >= Earlier(PassCooldown, PassWindow)
    <3>1. a \in passes
      BY <1>1, <2>2
    <3>2. CASE b \in passes
      BY <2>2, <3>1, <3>2 DEF Inv, PassRation, CooldownKept
    <3>3. CASE b = now
      BY <2>1, <2>2, <3>1, <3>3
    <3> QED BY <3>2, <3>3
  <2> QED BY <2>2 DEF CooldownKept
<1>5. QuotaKept'
  <2> SUFFICES ASSUME NEW at \in passes'
               PROVE  Cardinality({b \in passes' : at - PassWindow < b /\ b <= at}) <= PassQuota
    BY DEF QuotaKept
  <2>1. CASE at = now
    <3> DEFINE near == {b \in passes' : at - PassWindow < b /\ b <= at}
    <3>1. near = RecentPasses \cup {now}
      <4>1. PassWindow \in Nat \ {0}
        BY Constants
      <4>2. ASSUME NEW b \in near PROVE b \in RecentPasses \cup {now}
        BY <1>1, <2>1, <4>1 DEF RecentPasses
      <4>3. ASSUME NEW b \in RecentPasses \cup {now} PROVE b \in near
        BY <1>1, <2>1, <4>1 DEF RecentPasses
      <4> QED BY <4>2, <4>3
    <3>2. IsFiniteSet(RecentPasses) /\ now \notin RecentPasses
      BY <1>1, <1>2, FS_Subset DEF RecentPasses
    <3>3. Cardinality(RecentPasses \cup {now}) = Cardinality(RecentPasses) + 1
      BY <3>2, FS_AddElement
    <3>4. Cardinality(RecentPasses) \in Nat /\ Cardinality(RecentPasses) < PassQuota
      BY <3>2, FS_CardinalityType DEF CanSpend
    <3>5. PassQuota \in Nat
      BY Constants
    <3> HIDE DEF near
    <3>6. Cardinality(near) <= PassQuota
      BY <3>1, <3>3, <3>4, <3>5
    <3> QED BY <3>6 DEF near
  <2>2. CASE at \in passes
    <3>1. at < now
      BY <1>1, <1>2, <2>2
    <3>2. {b \in passes' : at - PassWindow < b /\ b <= at}
            = {b \in passes : at - PassWindow < b /\ b <= at}
      BY <1>1, <2>2, <3>1
    <3> QED BY <2>2, <3>2 DEF Inv, PassRation, QuotaKept
  <2> QED BY <2>1, <2>2
<1> QED BY <1>2, <1>3, <1>4, <1>5 DEF PassRation

LEMMA EmergencyGood == ASSUME Inv, NEW id, Emergency(id) PROVE Good
<1>1. /\ Orderly(sessions', minted) /\ Follows(sessions, sessions', minted)
      /\ ended' \in SUBSET Windows
      /\ StartedBy(sessions', now) /\ Remembered'
  BY EndedSound DEF Emergency
<1>2. IsFiniteSet(passes') /\ PassRation'
  BY SpendKeepsRation DEF Emergency
<1>3. TypeOK'
  BY <1>1 DEF Inv, TypeOK, Emergency, Orderly
<1>4. Dated'
  BY <1>1 DEF Inv, TypeOK, Dated, Emergency
<1> QED BY <1>1, <1>2, <1>3, <1>4 DEF Inv, Emergency, Good, Checked, Fresh, Announced

-----------------------------------------------------------------------------
(***************************************************************************)
(* A pass of the loop: settle, reconcile, reap.                            *)
(***************************************************************************)
LEMMA SettledSound ==
  ASSUME Inv, NEW at \in Int
  PROVE  LET T == Settled(at) IN
         /\ Orderly(T, minted + 1) /\ Follows(sessions, T, minted)
         /\ T.dismissed = sessions.dismissed
         /\ at <= now => StartedBy(T, now)
         /\ \A t \in T.running :
              \/ ForProfile(sessions, t.profile) # {}
              \/ Fires(at) /\ t.profile = freeze.profile
         /\ \A r \in sessions.running : \E t \in T.running :
              Heir(t, r) /\ t.lock.delayed_release_at = r.lock.delayed_release_at
<1>1. minted \in Nat /\ Orderly(sessions, minted) /\ sessions \in State
  BY DEF Inv, TypeOK
<1>2. CASE ~Fires(at)
  <2>1. Settled(at) = sessions
    BY <1>2 DEF Settled
  <2>2. Orderly(sessions, minted + 1)
    BY <1>1 DEF Orderly, Numbered
  <2>3. \A r \in sessions.running : Heir(r, r)
    BY <1>1, LockOfSession, AtLeastSelf DEF Heir
  <2>4. \A t \in sessions.running : ForProfile(sessions, t.profile) # {}
    BY DEF ForProfile
  <2>5. Follows(sessions, sessions, minted)
    BY Still
  <2> QED BY <2>1, <2>2, <2>3, <2>4, <2>5 DEF Inv, Dated
<1>3. CASE Fires(at)
  <2> DEFINE s == [id |-> NewId(freeze.profile, minted + 1), profile |-> freeze.profile,
                   started_at |-> at, lock |-> LockOf({}, at + freeze.seconds)]
  <2>1. freeze.profile \in Profiles /\ freeze.seconds \in Nat
    BY <1>3 DEF Fires, Inv, TypeOK, Countdown
  <2>2. LockOf({}, at + freeze.seconds) \in LockSet
    BY <2>1, LockOfType DEF Optional
  <2>3. /\ s \in Session /\ s.id = <<s.profile, minted + 1>> /\ s.profile = freeze.profile
        /\ s.lock.delayed_release_at = None /\ s.started_at = at
    BY <1>1, <2>1, <2>2 DEF Session, Ids, NewId, LockOf
  <2>4. Settled(at) = Start(sessions, s)
    BY <1>3 DEF Settled
  <2> HIDE DEF s
  <2>5. at <= now => StartedBy(Settled(at), now)
    BY <1>1, <2>3, <2>4, StartStarted DEF Inv, TypeOK, Dated
  <2> QED BY <1>1, <1>3, <2>3, <2>4, <2>5, StartSound
<1> QED BY <1>2, <1>3

LEMMA ReconciledSound ==
  ASSUME Inv, NEW at \in Int, NEW S, Orderly(S, minted + 1)
  PROVE  LET W == {w \in schedule : Covers(w, at)} \ Withheld(S, at)
             R == Reconcile(S, at, W, [p \in Profiles |-> NewId(p, minted + 1)])
         IN /\ Reconciled(S, at) = Reap(R, at) /\ Reconciles(S, R, W, minted)
            /\ R.dismissed = S.dismissed
            /\ at <= now /\ StartedBy(S, now) => StartedBy(R, now)
<1> DEFINE W == {w \in schedule : Covers(w, at)} \ Withheld(S, at)
           mint == [p \in Profiles |-> NewId(p, minted + 1)]
<1>1. minted \in Nat /\ now \in Int /\ schedule \subseteq Windows
  BY DEF Inv, TypeOK
<1>2. W \in SUBSET Activation /\ HasLast(W)
  BY <1>1, Constants DEF HasLast
<1>3. mint \in [Profiles -> Ids] /\ \A p \in Profiles : mint[p] = <<p, minted + 1>>
  BY <1>1 DEF NewId, Ids
<1>4. Reconciled(S, at) = Reap(Reconcile(S, at, W, mint), at)
  BY DEF Reconciled
<1> HIDE DEF W, mint
<1>5. /\ Reconciles(S, Reconcile(S, at, W, mint), W, minted)
      /\ Reconcile(S, at, W, mint).dismissed = S.dismissed
      /\ \A a \in Int : StartedBy(S, a) /\ at <= a => StartedBy(Reconcile(S, at, W, mint), a)
  BY <1>1, <1>2, <1>3, ReconcileSound
<1> QED BY <1>1, <1>4, <1>5 DEF W, mint

LEMMA PassSound ==
  ASSUME Inv, NEW at \in Int
  PROVE  LET T == Reconciled(Settled(at), at) IN
         /\ Orderly(T, minted + 1) /\ Follows(sessions, T, minted)
         /\ T.dismissed = sessions.dismissed
         /\ at <= now => StartedBy(T, now)
<1> DEFINE S == Settled(at)
           W == {w \in schedule : Covers(w, at)} \ Withheld(S, at)
           R == Reconcile(S, at, W, [p \in Profiles |-> NewId(p, minted + 1)])
           T == Reconciled(S, at)
<1>1. minted \in Nat /\ sessions \in State
  BY DEF Inv, TypeOK
<1>2. /\ Orderly(S, minted + 1) /\ Follows(sessions, S, minted)
      /\ S.dismissed = sessions.dismissed /\ (at <= now => StartedBy(S, now))
  BY SettledSound
<1>3. /\ T = Reap(R, at) /\ Orderly(R, minted + 1) /\ Follows(S, R, minted)
      /\ R.dismissed = sessions.dismissed /\ (at <= now => StartedBy(R, now))
  BY <1>2, ReconciledSound DEF Reconciles
<1> HIDE DEF S, W, R, T
<1>4. /\ Orderly(T, minted + 1) /\ T.running \subseteq R.running
      /\ T.dismissed = sessions.dismissed
  BY <1>1, <1>3, ReapSound DEF Reap, Orderly, State
<1>5. Follows(S, T, minted)
  BY <1>3, <1>4 DEF Follows
<1>6. Follows(sessions, T, minted)
  BY <1>1, <1>2, <1>4, <1>5, FollowsTransitive DEF Orderly
<1>7. at <= now => StartedBy(T, now)
  BY <1>3, <1>4 DEF StartedBy
<1> QED BY <1>4, <1>6, <1>7 DEF S, T

LEMMA PassGood == Inv /\ Pass => Good
<1> SUFFICES ASSUME Inv, Pass PROVE Good
  OBVIOUS
<1> DEFINE at == loopNow
           after == Reconciled(Settled(at), at)
<1>1. at \in Int /\ at <= now /\ minted \in Nat /\ schedule \subseteq Windows
  BY DEF Pass, Inv, TypeOK, Optional, Dated
<1>2. sessions' = after /\ loopNow' = None
  BY DEF Pass
<1>3. /\ Orderly(after, minted + 1) /\ Follows(sessions, after, minted)
      /\ after.dismissed = sessions.dismissed /\ StartedBy(after, now)
  BY <1>1, PassSound
<1>4. minted' = IF RunningIds(after) \subseteq RunningIds(sessions) THEN minted ELSE minted + 1
  BY DEF Pass
<1>5. UNCHANGED <<now, releases, passes, boot_id, schedule, checked, ended>>
  BY DEF Pass
<1>6. proofs' \subseteq proofs
  BY DEF Pass
<1>7. boots' = [id \in RunningIds(after) |-> IF id \in DOMAIN boots THEN boots[id] ELSE boot_id]
  BY DEF Pass
<1>8. (freeze' = None \/ freeze' \in Countdown) /\ Announced'
  <2>1. freeze' = None \/ freeze' = freeze \/
        \E w \in Withheld(Settled(at), at) : freeze' = Announce(at, w.profile, w.end - at)
    BY DEF Pass
  <2>2. ASSUME NEW w \in Withheld(Settled(at), at), freeze' = Announce(at, w.profile, w.end - at)
        PROVE  freeze' \in Countdown /\ Announced'
    <3>1. w \in Activation /\ at < w.end
      BY <1>1, Constants DEF Withheld, Covers
    <3>2. w.profile \in Profiles /\ w.end - at \in Nat
      BY <1>1, <3>1 DEF Activation
    <3> QED BY <1>1, <2>2, <3>2, AnnounceType DEF Announced
  <2> QED BY <2>1, <2>2 DEF Inv, TypeOK, Announced
<1> HIDE DEF at, after
<1>9. minted' \in Nat /\ Orderly(after, minted')
  BY <1>1, <1>3, <1>4, SameIdsSameNumbers DEF Inv
<1>10. TypeOK'
  <2>1. RunningIds(after) \subseteq Ids
    BY <1>9 DEF RunningIds, Orderly, State, Session
  <2>2. DOMAIN boots' \subseteq Ids /\ \A id \in DOMAIN boots' : boots'[id] \in Int
    BY <1>7, <2>1 DEF Inv, TypeOK
  <2> QED BY <1>2, <1>5, <1>6, <1>8, <1>9, <2>2 DEF Inv, TypeOK, Orderly, Optional
<1>11. Dated' /\ Checked' /\ Remembered'
  BY <1>2, <1>3, <1>5, <1>6 DEF Inv, Dated, Checked, Fresh, Remembered
<1> QED BY <1>2, <1>3, <1>5, <1>8, <1>9, <1>10, <1>11
        DEF Inv, Good, PassRation, QuotaKept, CooldownKept

-----------------------------------------------------------------------------
LEMMA NextGood == Inv /\ [Next]_vars => Good
<1> SUFFICES ASSUME Inv, [Next]_vars PROVE Good
  OBVIOUS
<1>1. CASE Clock BY <1>1, ClockGood
<1>2. ASSUME NEW w \in Windows, EditSchedule(w) PROVE Good BY <1>2, EditGood
<1>3. ASSUME NEW r \in Starts, StartSession(r) PROVE Good BY <1>3, StartGood
<1>4. ASSUME NEW r \in Starts, StartFreeze(r) PROVE Good BY <1>4, FreezeGood
<1>5. CASE CancelFreeze BY <1>5, FreezeGood
<1>6. Named \subseteq Ids
  BY Constants DEF Named, RunningIds, Inv, TypeOK, State, Session
<1>7. ASSUME NEW id \in Named, NEW claimed \in SUBSET Conditions, EndSession(id, claimed)
      PROVE  Good
  BY <1>7, EndGood
<1>8. ASSUME NEW id \in Named, Unlock(id) \/ Token(id) PROVE Good
  BY <1>6, <1>8, ProveGood DEF Unlock, Token
<1>9. ASSUME NEW id \in Named, Release(id) PROVE Good BY <1>6, <1>9, ReleaseGood
<1>10. ASSUME NEW id \in Named, Emergency(id) PROVE Good BY <1>10, EmergencyGood
<1>11. ASSUME NEW id \in Named, RequestTheRelease(id) PROVE Good BY <1>11, AskGood
<1>12. CASE Observe BY <1>12, ObserveGood
<1>13. CASE Pass BY <1>13, PassGood
<1>14. CASE UNCHANGED vars
  BY <1>14, Still
     DEF vars, Good, Inv, TypeOK, Dated, Checked, Fresh, Announced, Remembered, PassRation, QuotaKept, CooldownKept
<1> QED BY <1>1, <1>2, <1>3, <1>4, <1>5, <1>7, <1>8, <1>9, <1>10, <1>11, <1>12, <1>13, <1>14 DEF Next

LEMMA InvHolds == Spec => []Inv
<1>1. Inv /\ [Next]_vars => Inv' BY NextGood DEF Good
<1> QED BY <1>1, InitInv, PTL DEF Spec

\* The state keeps its type.
THEOREM TypeCorrect == Spec => []TypeOK
<1>1. Inv => TypeOK BY DEF Inv
<1> QED BY <1>1, InvHolds, PTL

\* A profile has one session and an id names one, however starts and passes are interleaved.
THEOREM NoSecondSession == Spec => []OneSessionPerProfile
<1>1. Inv => OneSessionPerProfile
  BY DEF Inv, Orderly, OnePerProfile, Numbered, OneSessionPerProfile
<1> QED BY <1>1, InvHolds, PTL

\* No stretch of the window holds more passes than the quota, and none are closer than the cooldown.
THEOREM RationKept == Spec => []PassRation
<1>1. Inv => PassRation BY DEF Inv
<1> QED BY <1>1, InvHolds, PTL

\* No handler and no pass lightens the lock of a session that goes on running.
THEOREM NothingLightens == Spec => NeverWeaker
<1> DEFINE A == \A s \in sessions.running : \A t \in sessions'.running :
                  s.id = t.id => AtLeast(t.lock, s.lock)
<1>1. Inv /\ [Next]_vars => [A]_vars
  BY NextGood, FollowsNeverWeaker DEF Good, Inv, TypeOK
<1> QED BY <1>1, InvHolds, PTL DEF Spec, NeverWeaker

-----------------------------------------------------------------------------
(***************************************************************************)
(* Nothing ends but by right.  Of the ways out, Ended says which session   *)
(* went and that the evidence sufficed; what remains is that the evidence  *)
(* is nothing but what was really done.                                    *)
(***************************************************************************)
ByRight(s) ==
  \/ IsExpired(s.lock, now)
  \/ passes' # passes /\ RunningIds(sessions) \ RunningIds(sessions') = {s.id}
  \/ s.lock.conditions \subseteq Satisfied(s.id)'

LEMMA ProvenIsSatisfied ==
  ASSUME Inv, NEW s, checked \subseteq checked', releases \subseteq releases',
         UNCHANGED <<now, boots, boot_id>>
  PROVE  Proven(s.id, now) \subseteq Satisfied(s.id)'
<1> SUFFICES ASSUME NEW l \in Proven(s.id, now) PROVE l \in Satisfied(s.id)'
  OBVIOUS
<1>1. CASE \E q \in proofs : q.id = s.id /\ Fresh(q, now) /\ l = q.lock
  <2>1. PICK q \in proofs : q.id = s.id /\ Fresh(q, now) /\ l = q.lock
    BY <1>1
  <2>2. q \in checked' /\ Fresh(q, now')
    BY <2>1 DEF Inv, Checked
  <2> QED BY <2>1, <2>2 DEF Satisfied, Fresh
<1>2. CASE l = RestartRequired /\ s.id \in DOMAIN boots /\ boots[s.id] # boot_id
  BY <1>2 DEF Satisfied
<1>3. CASE l = OwnRelease /\ s.id \in releases
  BY <1>3 DEF Satisfied
<1> QED BY <1>1, <1>2, <1>3 DEF Proven

LEMMA EndedWithEvidence ==
  ASSUME Inv, NEW id, NEW evidence, Ended(id, evidence),
         NEW s \in sessions.running, s.id \notin RunningIds(sessions)',
         s.id = id => evidence \subseteq Satisfied(s.id)'
  PROVE  ByRight(s)
BY EndedByRight DEF CanRelease, ByRight

\* A lock that was only strengthened, and keeps its release, runs out no sooner.
LEMMA RunsOutNoSooner ==
  ASSUME NEW l \in LockSet, NEW m \in LockSet, AtLeast(m, l),
         m.delayed_release_at = l.delayed_release_at,
         NEW at \in Int, NEW later \in Int, at <= later, IsExpired(m, at)
  PROVE  IsExpired(l, later) \/ l.conditions = {}
<1>1. CASE Passed(m.delayed_release_at, at)
  BY <1>1 DEF IsExpired, Passed, LockSet, Optional
<1>2. CASE Passed(m.ends_at, at) /\ l.ends_at # None
  BY <1>2, LocksAssumption DEF IsExpired, Passed, LockSet, Optional, AtLeast, EndsNoEarlier
<1>3. CASE Passed(m.ends_at, at) /\ l.ends_at = None
  BY <1>3 DEF Passed, AtLeast, IsEmpty, Unlocked, LockOf
<1> QED BY <1>1, <1>2, <1>3 DEF IsExpired

LEMMA PassByRight ==
  ASSUME Inv, Pass, NEW s \in sessions.running, s.id \notin RunningIds(sessions)'
  PROVE  ByRight(s)
<1> DEFINE at == loopNow
           S == Settled(at)
           W == {w \in schedule : Covers(w, at)} \ Withheld(S, at)
           R == Reconcile(S, at, W, [p \in Profiles |-> NewId(p, minted + 1)])
<1>1. at \in Int /\ now \in Int /\ at <= now
  BY DEF Pass, Inv, TypeOK, Optional, Dated
<1>2. sessions' = Reconciled(S, at)
  BY DEF Pass
<1>3. Orderly(S, minted + 1)
  BY <1>1, SettledSound
<1>4. PICK t \in S.running : Heir(t, s) /\ t.lock.delayed_release_at = s.lock.delayed_release_at
  BY <1>1, SettledSound
<1>5. Reconciled(S, at) = Reap(R, at) /\ Reconciles(S, R, W, minted)
  BY <1>1, <1>3, ReconciledSound
<1> HIDE DEF S, W, R
<1>6. PICK u \in R.running : Heir(u, t) /\ u.lock.delayed_release_at = t.lock.delayed_release_at
  BY <1>5 DEF Reconciles
<1>7. u.id = s.id
  BY <1>4, <1>6 DEF Heir
<1>8. IsExpired(u.lock, at)
  <2>1. u \notin Reap(R, at).running
    BY <1>2, <1>5, <1>7 DEF RunningIds
  <2>2. R \in State
    BY <1>5 DEF Reconciles, Orderly
  <2> QED BY <2>1, <2>2 DEF Reap, State
<1>9. s.lock \in LockSet /\ t.lock \in LockSet /\ u.lock \in LockSet
  BY <1>3, <1>5, LockOfSession DEF Inv, TypeOK, Orderly, Reconciles
<1>10. AtLeast(u.lock, s.lock)
  BY <1>4, <1>6, <1>9, AtLeastTransitive DEF Heir
<1>11. IsExpired(s.lock, now) \/ s.lock.conditions = {}
  BY <1>1, <1>4, <1>6, <1>8, <1>9, <1>10, RunsOutNoSooner
<1> QED BY <1>11 DEF ByRight

\* What starts or strengthens a session keeps every id that was there.
LEMMA StartKeepsIds ==
  ASSUME Inv, NEW r \in Starts, StartSession(r), NEW s \in sessions.running
  PROVE  s.id \in RunningIds(sessions)'
<1> DEFINE f == [id |-> NewId(r.profile, minted + 1), profile |-> r.profile,
                 started_at |-> now, lock |-> LockOf(r.locks, now + r.seconds)]
<1>1. minted \in Nat /\ now \in Int /\ now + r.seconds \in Optional /\ Orderly(sessions, minted)
  BY Constants DEF Inv, TypeOK, Optional
<1>2. f \in Session /\ f.id = <<f.profile, minted + 1>>
  BY <1>1, Constants, LockOfType DEF Session, Ids, NewId
<1>3. sessions' = Start(sessions, f)
  BY DEF StartSession
<1> HIDE DEF f
<1>4. \E t \in Start(sessions, f).running : Heir(t, s)
  BY <1>1, <1>2, StartSound
<1> QED BY <1>3, <1>4 DEF Heir, RunningIds

LEMMA NextByRight ==
  ASSUME Inv, Next, NEW s \in sessions.running, s.id \notin RunningIds(sessions)'
  PROVE  ByRight(s)
<1>1. ASSUME UNCHANGED sessions PROVE FALSE
  BY <1>1 DEF RunningIds
<1>2. CASE \/ Clock \/ CancelFreeze \/ Observe
           \/ \E w \in Windows : EditSchedule(w)
           \/ \E r \in Starts : StartFreeze(r)
  BY <1>1, <1>2 DEF Clock, CancelFreeze, Observe, EditSchedule, StartFreeze
<1>3. ASSUME NEW r \in Starts, StartSession(r) PROVE FALSE
  BY <1>3, StartKeepsIds
<1>4. CASE Pass BY <1>4, PassByRight
<1>5. ASSUME NEW id \in Named, RequestTheRelease(id) PROVE FALSE
  BY <1>5, AskReleaseSound DEF RequestTheRelease, Inv, TypeOK, RunningIds
<1>6. ASSUME NEW id \in Named, NEW claimed \in SUBSET Conditions, EndSession(id, claimed)
      PROVE  ByRight(s)
  <2> DEFINE evidence == (claimed \cap Claimable) \cup Proven(id, now)
  <2>1. Ended(id, evidence) /\ UNCHANGED <<releases, checked, now, boots, boot_id>>
    BY <1>6 DEF EndSession
  <2>2. s.id = id => evidence \subseteq Satisfied(s.id)'
    BY <2>1, ProvenIsSatisfied DEF Satisfied
  <2> HIDE DEF evidence
  <2> QED BY <2>1, <2>2, EndedWithEvidence
<1>7. ASSUME NEW id \in Named, NEW lock \in Provable, NEW forgets, Prove(id, lock, forgets)
      PROVE  ByRight(s)
  <2> DEFINE evidence == Proven(id, now) \cup {lock}
             q == [id |-> id, lock |-> lock, at |-> now]
  <2>1. /\ Ended(id, evidence) /\ checked' = checked \cup {q}
        /\ UNCHANGED <<releases, now, boots, boot_id>>
    BY <1>7 DEF Prove
  <2>2. Fresh(q, now)
    BY Constants DEF Fresh, Inv, TypeOK
  <2>3. q.id = id /\ q.lock = lock
    OBVIOUS
  <2> HIDE DEF q
  <2>4. s.id = id => lock \in Satisfied(s.id)'
    BY <2>1, <2>2, <2>3 DEF Satisfied, Fresh
  <2>5. s.id = id => evidence \subseteq Satisfied(s.id)'
    BY <2>1, <2>4, ProvenIsSatisfied
  <2> HIDE DEF evidence
  <2> QED BY <2>1, <2>5, EndedWithEvidence
<1>8. ASSUME NEW id \in Named, Release(id) PROVE ByRight(s)
  <2> DEFINE evidence == Proven(id, now) \cup {OwnRelease}
  <2>1. /\ Ended(id, evidence) /\ releases' = releases \cup {id}
        /\ UNCHANGED <<checked, now, boots, boot_id>>
    BY <1>8 DEF Release
  <2>2. s.id = id => evidence \subseteq Satisfied(s.id)'
    BY <2>1, ProvenIsSatisfied DEF Satisfied
  <2> HIDE DEF evidence
  <2> QED BY <2>1, <2>2, EndedWithEvidence
<1>9. ASSUME NEW id \in Named, Emergency(id) PROVE ByRight(s)
  <2> DEFINE evidence == UNION {r.lock.conditions : r \in Running(sessions, id)}
  <2>1. now \notin passes /\ passes' = passes \cup {now} /\ Ended(id, evidence)
    BY <1>9, SpendKeepsRation DEF Emergency
  <2>2. ASSUME NEW r \in sessions.running, r.id \notin RunningIds(sessions)' PROVE r.id = id
    BY <2>1, <2>2, EndedByRight
  <2>3. RunningIds(sessions) \ RunningIds(sessions') = {s.id}
    BY <2>2 DEF RunningIds
  <2> QED BY <2>1, <2>3 DEF ByRight
<1> QED BY <1>2, <1>3, <1>4, <1>5, <1>6, <1>7, <1>8, <1>9 DEF Next, Unlock, Token

\* What the promise can see besides the sessions only grows.
LEMMA OnlyGrows ==
  ASSUME Inv, Next PROVE now' >= now /\ passes \subseteq passes' /\ minted' >= minted
<1>1. now \in Int /\ minted \in Nat
  BY DEF Inv, TypeOK
<1>2. ASSUME NEW r \in Starts, StartSession(r)
      PROVE  UNCHANGED <<now, passes>> /\ (minted' = minted + 1 \/ minted' = minted)
  BY <1>2 DEF StartSession
<1>3. CASE Pass
  <2>1. UNCHANGED <<now, passes>> /\ (minted' = minted + 1 \/ minted' = minted)
    BY <1>3 DEF Pass
  <2> QED BY <1>1, <2>1
<1>4. CASE Clock
  BY <1>1, <1>4 DEF Clock
<1>5. CASE Observe \/ CancelFreeze \/ \E w \in Windows : EditSchedule(w)
  BY <1>1, <1>5 DEF Observe, CancelFreeze, EditSchedule
<1>6. ASSUME NEW r \in Starts, StartFreeze(r)
      PROVE  UNCHANGED <<now, passes, minted>>
  BY <1>6 DEF StartFreeze
<1>7. ASSUME NEW id \in Named,
             \/ \E claimed \in SUBSET Conditions : EndSession(id, claimed)
             \/ Unlock(id) \/ Token(id) \/ Release(id) \/ Emergency(id) \/ RequestTheRelease(id)
      PROVE  UNCHANGED <<now, minted>> /\ passes \subseteq passes'
  BY <1>7 DEF EndSession, Unlock, Token, Prove, Release, Emergency, RequestTheRelease
<1> QED BY <1>1, <1>2, <1>3, <1>4, <1>5, <1>6, <1>7 DEF Next

\* The names of sessions are among those that have been given.
LEMMA NamedByNumber ==
  ASSUME NEW n \in Nat, NEW S, Orderly(S, n), NEW s \in S.running
  PROVE  s.id \in Profiles \X (0..n)
<1>1. s.profile \in Profiles
  BY DEF Orderly, State, Session
<1>2. PICK i \in 0..n : s.id = <<s.profile, i>>
  BY DEF Orderly, Numbered
<1> QED BY <1>1, <1>2

\* What a session is held to is its lock, since no other has its id.
LEMMA HeldIsItsLock ==
  ASSUME NEW S, NEW n, Orderly(S, n), NEW s \in S.running
  PROVE  (CHOOSE r \in S.running : r.id = s.id) = s
BY DEF Orderly, Numbered, OnePerProfile

\* A step of the enforcer is a step of the promise.
LEMMA StepKeepsThePromise == ASSUME Inv, Next PROVE Promise!Next
<1>1. Inv' /\ Follows(sessions, sessions', minted) /\ Orderly(sessions, minted) /\ Orderly(sessions', minted')
  BY NextGood DEF Good, Inv
<1>2. minted \in Nat /\ minted' \in Nat /\ minted <= minted' /\ now' >= now /\ passes \subseteq passes'
  BY <1>1, OnlyGrows DEF Inv, TypeOK
<1>3. DOMAIN Held = RunningIds(sessions) /\ DOMAIN Held' = RunningIds(sessions')
  BY DEF Held
<1>4. /\ DOMAIN Met = Profiles \X (0..minted) /\ DOMAIN Met' = Profiles \X (0..minted')
      /\ \A id \in Profiles \X (0..minted') : Met'[id] = Satisfied(id)'
  BY DEF Met
<1>5. \A s \in sessions.running : Held[s.id] = s.lock
  BY <1>1, HeldIsItsLock DEF Held, RunningIds
<1>6. \A s \in sessions'.running : Held'[s.id] = s.lock
  BY <1>1, HeldIsItsLock DEF Held, RunningIds
<1>7. ASSUME NEW s \in sessions.running PROVE Promise!Kept(s.id) \/ Promise!LetGo(s.id)
  <2>1. CASE s.id \in RunningIds(sessions')
    <3>1. PICK t \in sessions'.running : t.id = s.id
      BY <2>1 DEF RunningIds
    <3>2. AtLeast(t.lock, s.lock)
      BY <1>1, <1>2, <3>1, FollowsNeverWeaker
    <3>3. Promise!AtLeast(Held'[s.id], Held[s.id])
      BY <1>5, <1>6, <3>1, <3>2
         DEF AtLeast, EndsNoEarlier, ReleaseNoLater, IsEmpty, Unlocked, LockOf,
             Promise!AtLeast, Promise!EndsNoEarlier, Promise!ReleaseNoLater, Promise!IsEmpty,
             Promise!Unlocked, Promise!LockOf
    <3> QED BY <1>3, <2>1, <3>3 DEF Promise!Kept
  <2>2. CASE s.id \notin RunningIds(sessions')
    <3>1. ByRight(s)
      BY <2>2, NextByRight
    <3>2. s.id \in Profiles \X (0..minted')
      <4>1. s.id \in Profiles \X (0..minted)
        BY <1>1, <1>2, NamedByNumber
      <4> QED BY <1>2, <4>1
    <3>3. Met'[s.id] = Satisfied(s.id)' /\ Held[s.id] = s.lock
      BY <1>4, <1>5, <3>2
    <3>4. Promise!IsExpired(Held[s.id], now) <=> IsExpired(s.lock, now)
      BY <3>3 DEF IsExpired, Passed, Promise!IsExpired, Promise!Passed
    <3> QED BY <1>3, <2>2, <3>1, <3>3, <3>4 DEF ByRight, Promise!LetGo
  <2> QED BY <2>1, <2>2
<1>8. ASSUME NEW t \in sessions'.running, t.id \notin RunningIds(sessions) PROVE Promise!Made(t.id)
  <2>1. t.id = <<t.profile, minted + 1>>
    BY <1>1, <1>8 DEF Follows, Heir, RunningIds
  <2>2. t.id \in Profiles \X (0..minted')
    BY <1>1, <1>2, NamedByNumber
  <2>3. t.id \notin Profiles \X (0..minted)
    BY <1>2, <2>1
  <2> QED BY <1>4, <2>2, <2>3 DEF Promise!Made
<1>9. DOMAIN Met \subseteq DOMAIN Met'
  BY <1>2, <1>4
<1> QED BY <1>2, <1>3, <1>7, <1>8, <1>9 DEF RunningIds, Promise!Next

(***************************************************************************)
(* The enforcer implements Commitment: what it holds its user to is made   *)
(* no lighter, is let go only by right, and does not return once it has    *)
(* been let go.                                                            *)
(***************************************************************************)
THEOREM EnforcerKeepsThePromise == Spec => KeepsThePromise
<1>1. Init => Promise!Init
  BY DEF Init, Default, Held, RunningIds, Promise!Init
<1>2. Inv /\ [Next]_vars => [Promise!Next]_(Promise!vars)
  <2>1. CASE Next
    BY <2>1, StepKeepsThePromise
  <2>2. CASE UNCHANGED vars
    BY <2>2 DEF vars, Held, Met, Satisfied, Fresh, Promise!vars
  <2> QED BY <2>1, <2>2
<1> QED BY <1>1, <1>2, InvHolds, PTL DEF Spec, KeepsThePromise, Promise!Spec

-----------------------------------------------------------------------------
(***************************************************************************)
(* A pass begins a freezing profile only by its own countdown: the windows *)
(* of one that does not run are withheld from reconcile.                   *)
(***************************************************************************)
LEMMA PassFreezes ==
  ASSUME Inv, Pass, NEW p \in Freezing, Begun(p)
  PROVE  Fires(loopNow) /\ freeze.profile = p
<1> DEFINE at == loopNow
           S == Settled(at)
           W == {w \in schedule : Covers(w, at)} \ Withheld(S, at)
           R == Reconcile(S, at, W, [q \in Profiles |-> NewId(q, minted + 1)])
<1>1. at \in Int
  BY DEF Pass, Inv, TypeOK, Optional
<1>2. sessions' = Reconciled(S, at)
  BY DEF Pass
<1>3. /\ Orderly(S, minted + 1)
      /\ \A t \in S.running : \/ ForProfile(sessions, t.profile) # {}
                              \/ Fires(at) /\ t.profile = freeze.profile
  BY <1>1, SettledSound
<1>4. Reconciled(S, at) = Reap(R, at) /\ Reconciles(S, R, W, minted)
  BY <1>1, <1>3, ReconciledSound
<1>5. \A w \in W : w.profile = p => ForProfile(S, p) # {}
  BY DEF Withheld
<1> HIDE DEF S, W, R
<1>6. PICK u \in sessions'.running : u.profile = p
  BY DEF Begun, ForProfile
<1>7. u \in R.running
  BY <1>2, <1>4, <1>6 DEF Reap, Reconciles, Orderly, State
<1>8. ForProfile(S, p) # {}
  BY <1>4, <1>5, <1>6, <1>7 DEF Reconciles
<1>9. PICK t \in S.running : t.profile = p
  BY <1>8 DEF ForProfile
<1> QED BY <1>3, <1>9 DEF Begun

\* Whatever begins a session of a profile is a start that names it or a pass.
LEMMA BegunBy ==
  ASSUME Inv, Next, NEW p \in Profiles, Begun(p)
  PROVE  Pass \/ p \notin Freezing
<1>1. PICK t \in sessions'.running : t.profile = p
  BY DEF Begun, ForProfile
<1>2. ASSUME Good, minted' = minted PROVE FALSE
  <2>1. PICK i \in 0..minted : t.id = <<t.profile, i>>
    BY <1>1, <1>2 DEF Good, Inv, Orderly, Numbered
  <2>2. t.id # <<t.profile, minted + 1>>
    BY <2>1 DEF Inv, TypeOK
  <2>3. PICK s \in sessions.running : Heir(t, s)
    BY <1>1, <1>2, <2>2 DEF Good, Follows
  <2> QED BY <1>1, <2>3 DEF Heir, Begun, ForProfile
<1>3. CASE \E r \in Starts : StartSession(r)
  <2>1. PICK r \in Starts : StartSession(r)
    BY <1>3
  <2> DEFINE f == [id |-> NewId(r.profile, minted + 1), profile |-> r.profile,
                   started_at |-> now, lock |-> LockOf(r.locks, now + r.seconds)]
  <2>2. minted \in Nat /\ now \in Int /\ now + r.seconds \in Optional /\ Orderly(sessions, minted)
    BY Constants DEF Inv, TypeOK, Optional
  <2>3. f \in Session /\ f.id = <<f.profile, minted + 1>> /\ f.profile = r.profile
    BY <2>2, Constants, LockOfType DEF Session, Ids, NewId
  <2>4. sessions' = Start(sessions, f)
    BY <2>1 DEF StartSession
  <2> HIDE DEF f
  <2>5. t.profile = f.profile
    BY <1>1, <2>2, <2>3, <2>4, StartSound DEF Begun
  <2> QED BY <1>1, <2>1, <2>3, <2>5 DEF StartSession
<1>4. CASE \/ Clock \/ CancelFreeze \/ Observe
           \/ \E w \in Windows : EditSchedule(w)
           \/ \E r \in Starts : StartFreeze(r)
  BY <1>4 DEF Clock, CancelFreeze, Observe, EditSchedule, StartFreeze, Begun, ForProfile
<1>5. Named \subseteq Ids
  BY Constants DEF Named, RunningIds, Inv, TypeOK, State, Session
<1>6. ASSUME NEW id \in Named,
             \/ \E claimed \in SUBSET Conditions : EndSession(id, claimed)
             \/ Unlock(id) \/ Token(id) \/ Release(id) \/ Emergency(id)
             \/ RequestTheRelease(id)
      PROVE  FALSE
  <2>1. Good
    BY <1>5, <1>6, EndGood, ProveGood, ReleaseGood, EmergencyGood, AskGood DEF Unlock, Token
  <2>2. minted' = minted
    BY <1>6 DEF EndSession, Unlock, Token, Prove, Release, Emergency, RequestTheRelease
  <2> QED BY <1>2, <2>1, <2>2
<1> QED BY <1>3, <1>4, <1>6 DEF Next

(***************************************************************************)
(* No whole-device profile begins without a countdown of its own that has  *)
(* run its time and was not cancelled.                                     *)
(***************************************************************************)
THEOREM NoUnannouncedFreeze == Spec => FreezeAnnounced
<1> DEFINE A == \A p \in Freezing :
                  Begun(p) => /\ freeze # None /\ freeze.profile = p
                              /\ now >= freeze.announced_at + MINIMUM_WARNING_SECONDS
<1>1. ASSUME Inv, Next, NEW p \in Freezing, Begun(p)
      PROVE  /\ freeze # None /\ freeze.profile = p
             /\ now >= freeze.announced_at + MINIMUM_WARNING_SECONDS
  <2>1. Pass
    BY <1>1, BegunBy, EnforcerAssumption
  <2>2. Fires(loopNow) /\ freeze.profile = p
    BY <1>1, <2>1, PassFreezes
  <2>3. loopNow \in Int /\ loopNow <= now /\ now \in Int
    BY <1>1, <2>1 DEF Pass, Inv, TypeOK, Optional, Dated
  <2>4. freeze \in Countdown /\ freeze.fires_at = freeze.announced_at + MINIMUM_WARNING_SECONDS
    BY <1>1, <2>2 DEF Fires, Inv, TypeOK, Announced
  <2> QED BY <2>2, <2>3, <2>4, Constants DEF Fires, Countdown
<1>2. Inv /\ [Next]_vars => [A]_vars
  BY <1>1 DEF vars
<1> QED BY <1>2, InvHolds, PTL DEF Spec, FreezeAnnounced

-----------------------------------------------------------------------------
\* The instant kept for the profile lies in the window, so reconcile skips it at any instant.
LEMMA PassRestartsNothing ==
  ASSUME Inv, Pass, NEW p \in Profiles PROVE ~Restarted(p, ended)
<1> SUFFICES ASSUME Restarted(p, ended) PROVE FALSE
  OBVIOUS
<1> DEFINE at == loopNow
           S == Settled(at)
           W == {w \in schedule : Covers(w, at)} \ Withheld(S, at)
           mint == [q \in Profiles |-> NewId(q, minted + 1)]
           R == Reconcile(S, at, W, mint)
<1>1. at \in Int /\ sessions' = Reconciled(S, at)
  BY DEF Pass, Inv, TypeOK, Optional
<1>2. S = sessions
  BY DEF Restarted, Settled
<1>3. Orderly(S, minted + 1)
  BY <1>1, SettledSound
<1>4. Reconciled(S, at) = Reap(R, at) /\ Reconciles(S, R, W, minted)
  BY <1>1, <1>3, ReconciledSound
<1>5. Due(S, at, W) \cap {w \in W : w.profile = p} = {}
  <2> SUFFICES ASSUME NEW w \in W, w.profile = p PROVE IsDismissed(S, w)
    BY DEF Due
  <2>1. w \in ended
    BY DEF Restarted
  <2> QED BY <1>2, <2>1 DEF Inv, Remembered, IsDismissed
<1>6. \A t \in R.running : ForProfile(S, t.profile) # {} \/ t.profile # p
  BY <1>3, <1>5, ReconcileNeedsDue DEF Orderly
<1>7. sessions'.running \subseteq R.running
  BY <1>1, <1>4 DEF Reap, Reconciles, Orderly, State
<1> QED BY <1>2, <1>6, <1>7 DEF Restarted, Begun, ForProfile

(***************************************************************************)
(* A pass begins no profile by a window that its last end cut short,       *)
(* however old the instant it is judged at.                                *)
(***************************************************************************)
THEOREM NothingEndedReturns == Spec => EndedStaysEnded
<1> DEFINE A == Pass => \A p \in Profiles : ~Restarted(p, ended)
<1>1. Inv /\ [Next]_vars => [A]_vars
  BY PassRestartsNothing
<1> QED BY <1>1, InvHolds, PTL DEF Spec, EndedStaysEnded

-----------------------------------------------------------------------------
(***************************************************************************)
(* The service's invariant.  Readable: what is in the file could be what   *)
(* the enforcer holds.  Down: a process that is down holds nothing.        *)
(* Known: every id met was given by now.  Dates: the boot kept for a       *)
(* session, in memory and in the file, is the one it was started in, and   *)
(* a session without one was started in this boot.  Saved: a session that  *)
(* a pass has seen is in the file.  Billed: a use the file does not count  *)
(* is one for a session that the file would bring back.  Evidence: what    *)
(* is proved of a lock is something that can be proved.                    *)
(***************************************************************************)
Rationed(P) ==
  /\ \A at \in P : Cardinality({b \in P : at - PassWindow < b /\ b <= at}) <= PassQuota
  /\ \A a, b \in P : a < b => b - a >= Earlier(PassCooldown, PassWindow)

Readable ==
  /\ Orderly(disk.sessions, minted) /\ StartedBy(disk.sessions, now)
  /\ disk.passes \in SUBSET Int /\ IsFiniteSet(disk.passes) /\ Rationed(disk.passes)
  /\ \A at \in disk.passes : at <= now
  /\ disk.releases \in SUBSET Ids

Down ==
  ~up => /\ sessions = Default /\ proofs = {} /\ boots = NoBoots /\ ended = {}
         /\ loopNow = None /\ freeze = None

Given == Profiles \X (0..minted)

Known ==
  /\ DOMAIN born \subseteq Given
  /\ RunningIds(sessions) \cup RunningIds(disk.sessions) \subseteq DOMAIN born
  /\ DOMAIN boots \cup DOMAIN disk.boots \subseteq DOMAIN born

Dates ==
  /\ \A id \in DOMAIN born : born[id] \in Int
  /\ \A id \in DOMAIN boots : boots[id] = born[id]
  /\ \A id \in DOMAIN disk.boots : disk.boots[id] = born[id]
  /\ RunningIds(disk.sessions) \subseteq DOMAIN disk.boots
  /\ up => \A id \in RunningIds(sessions) \ DOMAIN boots : born[id] = boot_id

Saved == up => DOMAIN boots \cap RunningIds(sessions) \subseteq RunningIds(disk.sessions)

Billed ==
  /\ PassesArePaid
  /\ \A e \in paid : e.at \in disk.passes \/ e.id \in RunningIds(disk.sessions)

Evidence == \A q \in proofs : q.lock \in Provable

SInv == Inv /\ Readable /\ Down /\ Known /\ Dates /\ Saved /\ Billed /\ Evidence

-----------------------------------------------------------------------------
LEMMA InitSInv == ServiceInit => SInv
<1> SUFFICES ASSUME ServiceInit PROVE SInv
  OBVIOUS
<1>1. Inv
  BY InitInv DEF ServiceInit
<1>2. /\ sessions = Default /\ disk.sessions = Default /\ minted = 0 /\ Default.running = {}
      /\ proofs = {} /\ disk.passes = {} /\ disk.releases = {} /\ disk.boots = NoBoots
      /\ boots = NoBoots /\ born = NoBoots /\ paid = {} /\ DOMAIN NoBoots = {}
  BY DEF ServiceInit, Init, Default, NoBoots
<1>3. Readable
  BY <1>1, <1>2, FS_EmptySet DEF Readable, Rationed, StartedBy, Inv
<1>4. RunningIds(sessions) = {} /\ RunningIds(disk.sessions) = {}
  BY <1>2 DEF RunningIds
<1>5. Down
  BY <1>2 DEF Down, ServiceInit, Init
<1>6. Known /\ Dates /\ Saved /\ Billed /\ Evidence
  BY <1>2, <1>4 DEF Known, Dates, Saved, Billed, PassesArePaid, Evidence
<1> QED BY <1>1, <1>3, <1>5, <1>6 DEF SInv

\* What the enforcer begins has an id that nothing was given before.
LEMMA NewIsNew ==
  ASSUME Inv, Next
  PROVE  /\ Given \subseteq Given' /\ RunningIds(sessions') \subseteq Given'
         /\ (RunningIds(sessions') \ RunningIds(sessions)) \cap Given = {}
<1>1. Inv' /\ Follows(sessions, sessions', minted) /\ Orderly(sessions', minted')
  BY NextGood DEF Good, Inv
<1>2. minted \in Nat /\ minted' \in Nat /\ minted <= minted'
  BY <1>1, OnlyGrows DEF Inv, TypeOK
<1>3. Given \subseteq Given'
  BY <1>2 DEF Given
<1>4. \A s \in sessions'.running : s.id \in Given'
  BY <1>1, <1>2, NamedByNumber DEF Given
<1>5. ASSUME NEW s \in sessions'.running, s.id \notin RunningIds(sessions) PROVE s.id \notin Given
  <2>1. s.id = <<s.profile, minted + 1>>
    BY <1>1, <1>5 DEF Follows, Heir, RunningIds
  <2> QED BY <1>2, <2>1 DEF Given
<1> QED BY <1>3, <1>4, <1>5 DEF RunningIds

\* The file stays readable while nothing is written and time and numbers go on.
LEMMA StaysReadable ==
  ASSUME SInv, disk' = disk, minted' \in Nat, minted' >= minted, now' \in Int, now' >= now
  PROVE  Readable'
<1>1. minted \in Nat /\ now \in Int
  BY DEF SInv, Inv, TypeOK
<1>2. Orderly(disk.sessions, minted')
  BY <1>1 DEF SInv, Readable, Orderly, Numbered
<1>3. \A s \in disk.sessions.running : s.started_at \in Int /\ s.started_at <= now
  BY LockOfSession DEF SInv, Readable, Orderly, StartedBy
<1>4. StartedBy(disk.sessions, now')
  BY <1>1, <1>3 DEF StartedBy
<1>5. \A at \in disk.passes : at <= now'
  BY <1>1 DEF SInv, Readable
<1> QED BY <1>2, <1>4, <1>5 DEF SInv, Readable, Rationed

LEMMA EnforcerGrows ==
  ASSUME SInv, Next
  PROVE  /\ Inv' /\ passes \subseteq passes'
         /\ minted' \in Nat /\ minted' >= minted /\ now' \in Int /\ now' >= now
BY NextGood, OnlyGrows DEF SInv, Good, Inv, TypeOK

(***************************************************************************)
(* What Remember leaves of the births: those there were, and this boot for *)
(* those that are new.                                                     *)
(***************************************************************************)
LEMMA Births ==
  ASSUME SInv, Next, Remember, boot_id' = boot_id
  PROVE  /\ DOMAIN born' = DOMAIN born \cup RunningIds(sessions') /\ DOMAIN born' \subseteq Given'
         /\ \A id \in DOMAIN born : born'[id] = born[id]
         /\ \A id \in RunningIds(sessions') \ RunningIds(sessions) :
              id \notin DOMAIN born /\ born'[id] = boot_id
         /\ \A id \in DOMAIN born' : born'[id] \in Int
<1> DEFINE new == RunningIds(sessions') \ RunningIds(sessions)
<1>1. born' = [id \in DOMAIN born \cup new |-> IF id \in new THEN boot_id ELSE born[id]]
  BY DEF Remember
<1>2. /\ Given \subseteq Given' /\ RunningIds(sessions') \subseteq Given' /\ new \cap Given = {}
  BY NewIsNew DEF SInv
<1>3. DOMAIN born \subseteq Given /\ RunningIds(sessions) \subseteq DOMAIN born
  BY DEF SInv, Known
<1>4. boot_id \in Int /\ \A id \in DOMAIN born : born[id] \in Int
  BY DEF SInv, Inv, TypeOK, Dates
<1> HIDE DEF new
<1>5. DOMAIN born' = DOMAIN born \cup new
  BY <1>1
<1>6. \A id \in DOMAIN born : id \notin new /\ born'[id] = born[id]
  BY <1>1, <1>2, <1>3
<1>7. \A id \in new : id \notin DOMAIN born /\ born'[id] = boot_id
  BY <1>1, <1>2, <1>3
<1>8. DOMAIN born \cup new = DOMAIN born \cup RunningIds(sessions')
  BY <1>3 DEF new
<1>9. DOMAIN born' \subseteq Given'
  BY <1>2, <1>3, <1>5, <1>8
<1>10. \A id \in DOMAIN born' : born'[id] \in Int
  BY <1>4, <1>5, <1>6, <1>7
<1> QED BY <1>5, <1>6, <1>7, <1>8, <1>9, <1>10 DEF new

-----------------------------------------------------------------------------
(***************************************************************************)
(* A handler: it writes no file and dates no session, and what it begins   *)
(* it begins in this boot.                                                 *)
(***************************************************************************)
LEMMA HandlerDates ==
  ASSUME SInv, Next, up, Remember, UNCHANGED <<up, disk, boots, boot_id>>
  PROVE  Readable' /\ Down' /\ Known' /\ Dates' /\ Saved'
<1>1. /\ DOMAIN born' = DOMAIN born \cup RunningIds(sessions') /\ DOMAIN born' \subseteq Given'
      /\ \A id \in DOMAIN born : born'[id] = born[id]
      /\ \A id \in RunningIds(sessions') \ RunningIds(sessions) :
           id \notin DOMAIN born /\ born'[id] = boot_id
      /\ \A id \in DOMAIN born' : born'[id] \in Int
  BY Births
<1>2. Readable'
  BY StaysReadable, EnforcerGrows
<1>3. Known'
  BY <1>1 DEF SInv, Known
<1>4. Dates'
  <2>1. ASSUME NEW id \in RunningIds(sessions') \ DOMAIN boots PROVE born'[id] = boot_id
    <3>1. CASE id \in RunningIds(sessions)
      BY <1>1, <3>1 DEF SInv, Dates, Known
    <3>2. CASE id \notin RunningIds(sessions)
      BY <1>1, <3>2
    <3> QED BY <3>1, <3>2
  <2>2. DOMAIN boots \subseteq DOMAIN born /\ DOMAIN disk.boots \subseteq DOMAIN born
    BY DEF SInv, Known
  <2> QED BY <1>1, <2>1, <2>2 DEF SInv, Dates
<1>5. Saved'
  <2>1. DOMAIN boots \cap RunningIds(sessions') \subseteq RunningIds(sessions)
    BY <1>1 DEF SInv, Known
  <2> QED BY <2>1 DEF SInv, Saved
<1> QED BY <1>2, <1>3, <1>4, <1>5 DEF Down

LEMMA HandleKeeps == SInv /\ Handle => SInv'
<1> SUFFICES ASSUME SInv, Handle PROVE SInv'
  OBVIOUS
<1>1. Next
  BY DEF Handle, Next
<1>2. UNCHANGED <<up, disk, boots, boot_id, passes, paid>>
  BY DEF Handle, service, StartSession, StartFreeze, CancelFreeze, EndSession, Unlock, Token, Prove,
         Release, RequestTheRelease
<1>3. Evidence'
  <2>1. ASSUME NEW id, NEW lock \in Provable, NEW forgets, Prove(id, lock, forgets)
        PROVE  \A q \in proofs' : q \in proofs \/ q.lock \in Provable
    BY <2>1 DEF Prove, Recorded
  <2>2. ASSUME \/ \E r \in Starts : StartSession(r) \/ StartFreeze(r)
               \/ CancelFreeze
               \/ \E id \in Named : \/ \E claimed \in SUBSET Conditions : EndSession(id, claimed)
                                    \/ Release(id) \/ RequestTheRelease(id)
        PROVE  proofs' \subseteq proofs
    BY <2>2 DEF StartSession, StartFreeze, CancelFreeze, EndSession, Release, RequestTheRelease
  <2>3. \A q \in proofs' : q \in proofs \/ q.lock \in Provable
    BY <2>1, <2>2 DEF Handle, Unlock, Token
  <2> QED BY <2>3 DEF SInv, Evidence
<1>4. Billed'
  BY <1>2 DEF SInv, Billed, PassesArePaid
<1> QED BY <1>1, <1>2, <1>3, <1>4, HandlerDates, EnforcerGrows DEF Handle, SInv

LEMMA EmergencyKeeps == SInv /\ HandleEmergency => SInv'
<1> SUFFICES ASSUME SInv, HandleEmergency PROVE SInv'
  OBVIOUS
<1>1. Next
  BY DEF HandleEmergency, Next
<1>2. /\ UNCHANGED <<up, disk, boots, boot_id, proofs>> /\ passes' = passes \cup {now}
      /\ paid' = paid \cup {[id |-> i, at |-> now] : i \in EndedByHand \cap RunningIds(disk.sessions)}
  BY DEF HandleEmergency, service, Emergency
<1>3. Billed'
  BY <1>2 DEF SInv, Billed, PassesArePaid, HandleEmergency
<1>4. Evidence'
  BY <1>2 DEF SInv, Evidence
<1> QED BY <1>1, <1>2, <1>3, <1>4, HandlerDates, EnforcerGrows DEF HandleEmergency, SInv

-----------------------------------------------------------------------------
(***************************************************************************)
(* A pass.  It dates every session that runs, and writes the file whenever *)
(* one does, with what the enforcer holds after it.                        *)
(***************************************************************************)
LEMMA PassDates ==
  ASSUME SInv, LoopPass
  PROVE  /\ DOMAIN boots' = RunningIds(sessions')
         /\ \A id \in RunningIds(sessions') : boots'[id] = born'[id]
<1>1. Next /\ Remember /\ up /\ boot_id' = boot_id
  BY DEF LoopPass, Pass, Next
<1>2. boots' = [id \in RunningIds(sessions') |-> IF id \in DOMAIN boots THEN boots[id] ELSE boot_id]
  BY DEF LoopPass, Pass
<1>3. /\ \A id \in DOMAIN born : born'[id] = born[id]
      /\ \A id \in RunningIds(sessions') \ RunningIds(sessions) :
           id \notin DOMAIN born /\ born'[id] = boot_id
  BY <1>1, Births
<1>4. ASSUME NEW id \in RunningIds(sessions') PROVE boots'[id] = born'[id]
  <2>1. CASE id \in DOMAIN boots
    BY <1>2, <1>3, <2>1 DEF SInv, Dates, Known
  <2>2. CASE id \notin DOMAIN boots /\ id \in RunningIds(sessions)
    BY <1>1, <1>2, <1>3, <2>2 DEF SInv, Dates, Known
  <2>3. CASE id \notin DOMAIN boots /\ id \notin RunningIds(sessions)
    BY <1>2, <1>3, <2>3
  <2> QED BY <2>1, <2>2, <2>3
<1> QED BY <1>2, <1>4

LEMMA PassKeeps == SInv /\ LoopPass => SInv'
<1> SUFFICES ASSUME SInv, LoopPass PROVE SInv'
  OBVIOUS
<1>1. Next /\ Remember /\ up /\ UNCHANGED <<up, boot_id, passes, releases, paid>>
  BY DEF LoopPass, Pass, Next
<1>2. Inv' /\ minted' \in Nat /\ minted' >= minted /\ now' \in Int /\ now' >= now
  BY <1>1, EnforcerGrows
<1>3. /\ DOMAIN born' = DOMAIN born \cup RunningIds(sessions') /\ DOMAIN born' \subseteq Given'
      /\ \A id \in DOMAIN born : born'[id] = born[id]
      /\ \A id \in DOMAIN born' : born'[id] \in Int
  BY <1>1, Births
<1>4. /\ DOMAIN boots' = RunningIds(sessions')
      /\ \A id \in RunningIds(sessions') : boots'[id] = born'[id]
  BY PassDates
<1>5. Evidence' /\ Down'
  BY <1>1 DEF LoopPass, Pass, SInv, Evidence, Down
<1>6. CASE disk' = Snapshot'
  <2>1. /\ disk'.sessions = sessions' /\ disk'.passes = passes' /\ disk'.releases = releases'
        /\ disk'.boots = boots'
    BY <1>6 DEF Snapshot
  <2>2. Readable'
    BY <1>2, <2>1 DEF Readable, Rationed, PassRation, QuotaKept, CooldownKept, Inv, TypeOK, Dated
  <2>3. Known' /\ Dates' /\ Saved'
    BY <1>3, <1>4, <2>1 DEF Known, Dates, Saved
  <2>4. Billed'
    BY <1>1, <2>1 DEF SInv, Billed, PassesArePaid
  <2> QED BY <1>2, <1>5, <2>2, <2>3, <2>4 DEF SInv
<1>7. CASE disk' = disk /\ sessions'.running = {}
  <2>1. RunningIds(sessions') = {}
    BY <1>7 DEF RunningIds
  <2>2. Readable'
    BY <1>2, <1>7, StaysReadable
  <2>3. Known' /\ Dates' /\ Saved'
    BY <1>3, <1>4, <1>7, <2>1 DEF SInv, Known, Dates, Saved
  <2>4. Billed'
    BY <1>1, <1>7 DEF SInv, Billed, PassesArePaid
  <2> QED BY <1>2, <1>5, <2>2, <2>3, <2>4 DEF SInv
<1> QED BY <1>6, <1>7 DEF LoopPass, persist_due

\* Steps that begin and end nothing: the clock, an edit, the reading before a pass.
LEMMA QuietKeeps == SInv /\ (Environment \/ LoopObserve) => SInv'
<1> SUFFICES ASSUME SInv, Environment \/ LoopObserve PROVE SInv'
  OBVIOUS
<1>1. Next
  BY DEF Environment, LoopObserve, Next
<1>2. /\ UNCHANGED <<up, disk, born, paid, sessions, boots, boot_id, passes, proofs, ended, freeze>>
      /\ minted' = minted
      /\ up \/ loopNow' = loopNow
  BY DEF Environment, LoopObserve, Clock, EditSchedule, Observe, service, history
<1>3. Readable' /\ Inv'
  BY <1>1, <1>2, StaysReadable, EnforcerGrows
<1>4. Down' /\ Known' /\ Dates' /\ Saved' /\ Billed' /\ Evidence'
  BY <1>2 DEF SInv, Down, Known, Given, Dates, Saved, Billed, PassesArePaid, Evidence
<1> QED BY <1>3, <1>4 DEF SInv

-----------------------------------------------------------------------------
(***************************************************************************)
(* The end of the process, a restart of the machine, and the next life.    *)
(***************************************************************************)
LEMMA StopKeeps == SInv /\ Stop => SInv'
<1> SUFFICES ASSUME SInv, Stop PROVE SInv'
  OBVIOUS
<1>1. /\ ~up' /\ sessions' = Default /\ proofs' = {} /\ releases' = {} /\ passes' = {}
      /\ boots' = NoBoots /\ loopNow' = None /\ freeze' = None /\ checked' = {} /\ ended' = {}
      /\ UNCHANGED <<now, boot_id, schedule, minted, disk, born, paid>>
  BY DEF Stop
<1>2. /\ Default.running = {} /\ Default \in State /\ DOMAIN NoBoots = {}
      /\ RunningIds(Default) = {} /\ RunningIds(sessions') = {}
  BY <1>1 DEF Default, State, NoBoots, Optional, RunningIds
<1>3. Orderly(sessions', minted') /\ StartedBy(sessions', now')
  BY <1>1, <1>2 DEF Orderly, OnePerProfile, Numbered, StartedBy
<1>4. TypeOK'
  BY <1>1, <1>2 DEF SInv, Inv, TypeOK, Optional
<1>5. Dated' /\ Checked' /\ Announced' /\ Remembered'
  BY <1>1, <1>3 DEF Dated, Checked, Announced, Remembered
<1>6. IsFiniteSet(passes') /\ PassRation'
  BY <1>1, FS_EmptySet DEF PassRation, QuotaKept, CooldownKept
<1>7. Readable' /\ Down'
  BY <1>1 DEF SInv, Readable, Rationed, Down
<1>8. Known' /\ Dates' /\ Saved' /\ Billed' /\ Evidence'
  BY <1>1, <1>2 DEF SInv, Known, Given, Dates, Saved, Billed, PassesArePaid, Evidence
<1> QED BY <1>3, <1>4, <1>5, <1>6, <1>7, <1>8 DEF SInv, Inv

LEMMA RestartKeeps == SInv /\ Restart => SInv'
<1> SUFFICES ASSUME SInv, Restart PROVE SInv'
  OBVIOUS
<1>1. /\ ~up /\ boot_id' = boot_id + 1
      /\ UNCHANGED <<now, loopNow, sessions, proofs, releases, passes, boots, freeze, schedule,
                     minted, checked, ended, up, disk, born, paid>>
  BY DEF Restart, service, history
<1>2. boot_id \in Int
  BY DEF SInv, Inv, TypeOK
<1>3. Inv'
  BY <1>1, <1>2 DEF SInv, Inv, TypeOK, Dated, Checked, Fresh, Announced, Remembered, PassRation,
                    QuotaKept, CooldownKept
<1>4. Readable' /\ Down' /\ Known' /\ Dates' /\ Saved' /\ Billed' /\ Evidence'
  BY <1>1 DEF SInv, Readable, Rationed, Down, Known, Given, Dates, Saved, Billed, PassesArePaid,
              Evidence
<1> QED BY <1>3, <1>4 DEF SInv

LEMMA BeginKeeps == SInv /\ Begin => SInv'
<1> SUFFICES ASSUME SInv, Begin PROVE SInv'
  OBVIOUS
<1>1. /\ ~up /\ up' /\ sessions' = disk.sessions /\ passes' = disk.passes
      /\ releases' = disk.releases /\ boots' = disk.boots
      /\ paid' = {e \in paid : e.id \notin RunningIds(disk.sessions)}
      /\ UNCHANGED <<now, loopNow, proofs, boot_id, freeze, schedule, minted, checked, ended,
                     disk, born>>
  BY DEF Begin
<1>2. proofs = {} /\ ended = {} /\ loopNow = None /\ freeze = None
  BY <1>1 DEF SInv, Down
<1>3. /\ Orderly(disk.sessions, minted) /\ StartedBy(disk.sessions, now)
      /\ disk.passes \in SUBSET Int /\ IsFiniteSet(disk.passes) /\ Rationed(disk.passes)
      /\ \A at \in disk.passes : at <= now
      /\ disk.releases \in SUBSET Ids
  BY DEF SInv, Readable
<1>4. DOMAIN disk.boots \subseteq Ids /\ \A id \in DOMAIN disk.boots : disk.boots[id] \in Int
  <2>1. Given \subseteq Ids
    BY DEF Given, Ids, SInv, Inv, TypeOK
  <2> QED BY <2>1 DEF SInv, Known, Dates
<1>5. TypeOK'
  BY <1>1, <1>3, <1>4 DEF SInv, Inv, TypeOK, Orderly
<1>6. Dated' /\ Checked' /\ Announced' /\ Remembered'
  BY <1>1, <1>2, <1>3 DEF Dated, Checked, Announced, Remembered
<1>7. IsFiniteSet(passes') /\ PassRation'
  BY <1>1, <1>3 DEF PassRation, QuotaKept, CooldownKept, Rationed
<1>8. Readable' /\ Down'
  BY <1>1 DEF SInv, Readable, Rationed, Down
<1>9. Known' /\ Dates' /\ Saved' /\ Evidence'
  BY <1>1, <1>2 DEF SInv, Known, Given, Dates, Saved, Evidence
<1>10. Billed'
  BY <1>1 DEF SInv, Billed, PassesArePaid
<1> QED BY <1>1, <1>3, <1>5, <1>6, <1>7, <1>8, <1>9, <1>10 DEF SInv, Inv

-----------------------------------------------------------------------------
LEMMA ServiceKeeps == SInv /\ [ServiceNext]_all => SInv'
<1> SUFFICES ASSUME SInv, [ServiceNext]_all PROVE SInv'
  OBVIOUS
<1>1. CASE UNCHANGED all
  BY <1>1 DEF all, vars, service, history, SInv, Inv, TypeOK, Dated, Checked, Fresh, Announced,
              Remembered, PassRation, QuotaKept, CooldownKept, Readable, Rationed, Down, Known,
              Given, Dates, Saved, Billed, PassesArePaid, Evidence
<1> QED BY <1>1, QuietKeeps, HandleKeeps, EmergencyKeeps, PassKeeps, StopKeeps, RestartKeeps,
           BeginKeeps DEF ServiceNext

LEMMA SInvHolds == ServiceSpec => []SInv
BY InitSInv, ServiceKeeps, PTL DEF ServiceSpec

\* However the process dies and comes back, a profile has one session and an id names one.
THEOREM OneSessionThroughCrashes == ServiceSpec => []OneSessionPerProfile
<1>1. SInv => OneSessionPerProfile
  BY DEF SInv, Inv, Orderly, OnePerProfile, Numbered, OneSessionPerProfile
<1> QED BY <1>1, SInvHolds, PTL

\* The passes that are remembered keep the ration in every life of the process, the file's included.
THEOREM RationThroughCrashes == ServiceSpec => []PassRation
<1>1. SInv => PassRation
  BY DEF SInv, Inv
<1> QED BY <1>1, SInvHolds, PTL

\* A saved session that a pass ended, and no crash brought back, is paid for by a use that counts.
THEOREM EveryPassIsPaid == ServiceSpec => []PassesArePaid
<1>1. SInv => PassesArePaid
  BY DEF SInv, Billed
<1> QED BY <1>1, SInvHolds, PTL

(***************************************************************************)
(* A restart is evidence for exactly the sessions that ran before it, and  *)
(* a session that a pass has enforced is in the file for as long as it     *)
(* runs.                                                                   *)
(***************************************************************************)
THEOREM ACrashFreesNobody == ServiceSpec => []CrashIsNoWayOut
<1>1. ASSUME SInv, up, NEW s \in sessions.running
      PROVE  born[s.id] # boot_id <=> RestartRequired \in Proven(s.id, now)
  <2>1. RestartRequired \in Proven(s.id, now) <=> s.id \in DOMAIN boots /\ boots[s.id] # boot_id
    BY <1>1, ServiceAssumption DEF SInv, Evidence, Proven
  <2>2. s.id \in DOMAIN boots => boots[s.id] = born[s.id]
    BY <1>1 DEF SInv, Dates
  <2>3. s.id \notin DOMAIN boots => born[s.id] = boot_id
    BY <1>1 DEF SInv, Dates, RunningIds
  <2> QED BY <2>1, <2>2, <2>3
<1>2. SInv => CrashIsNoWayOut
  BY <1>1 DEF SInv, Saved, CrashIsNoWayOut
<1> QED BY <1>2, SInvHolds, PTL
=============================================================================
