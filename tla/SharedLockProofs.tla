-------------------------- MODULE SharedLockProofs --------------------------
(***************************************************************************)
(* SharedLock, for any number of devices and any locks.                    *)
(***************************************************************************)
EXTENDS SharedLock, SessionsProofs

(***************************************************************************)
(* The inductive invariant.  The lock held is the sum of the locks heard,  *)
(* as far as conditions and the end go, and a store is behind what runs.   *)
(* Without the second part a restore could add something nobody has heard. *)
(***************************************************************************)
Binding(ls) == {l \in ls : ~IsEmpty(l)}

SumsEnd(end, ls) ==
  /\ end = None <=> Binding(ls) = {} \/ \E l \in Binding(ls) : l.ends_at = None
  /\ end # None => /\ \E l \in Binding(ls) : l.ends_at = end
                   /\ \A l \in Binding(ls) : l.ends_at <= end

Sums(h, ls) ==
  /\ h.conditions = UNION {l.conditions : l \in ls}
  /\ IsEmpty(h) <=> Binding(ls) = {}
  /\ SumsEnd(h.ends_at, ls)

Behind(s, h) ==
  /\ s.conditions \subseteq h.conditions
  /\ IsEmpty(h) => IsEmpty(s)
  /\ s.ends_at # None /\ h.ends_at # None => s.ends_at <= h.ends_at

Inv ==
  /\ TypeOK
  /\ heard \in [Devices -> SUBSET LockSet]
  /\ \A d \in Devices : Sums(held[d], heard[d])
  /\ \A d \in Devices : Behind(stored[d], held[d])

-----------------------------------------------------------------------------
LEMMA SumsOne == ASSUME NEW l \in LockSet PROVE Sums(l, {l})
<1>1. UNION {k.conditions : k \in {l}} = l.conditions
  OBVIOUS
<1>2. Binding({l}) = IF IsEmpty(l) THEN {} ELSE {l}
  BY DEF Binding
<1>3. IsEmpty(l) => l.ends_at = None
  BY DEF IsEmpty, Unlocked, LockOf
<1>4. SumsEnd(l.ends_at, {l})
  BY <1>2, <1>3 DEF SumsEnd, LockSet, Optional
<1> QED BY <1>1, <1>2, <1>4 DEF Sums

LEMMA SumsJoin ==
  ASSUME NEW g \in LockSet, NEW h \in LockSet, NEW A \in SUBSET LockSet, NEW B \in SUBSET LockSet,
         Sums(g, A), Sums(h, B)
  PROVE  Sums(Merge(g, h), A \cup B)
<1> DEFINE j == Merge(g, h)
<1>1. Binding(A \cup B) = Binding(A) \cup Binding(B)
  BY DEF Binding
<1>2. UNION {l.conditions : l \in A \cup B}
        = (UNION {l.conditions : l \in A}) \cup (UNION {l.conditions : l \in B})
  OBVIOUS
<1>3. IsEmpty(j) <=> IsEmpty(g) /\ IsEmpty(h)
  BY MergeKeepsNonEmpty DEF Merge
<1>4. IsEmpty(j) <=> Binding(A \cup B) = {}
  BY <1>1, <1>3 DEF Sums
<1>5. \A l \in LockSet : IsEmpty(l) => l.conditions = {} /\ l.ends_at = None
  BY DEF IsEmpty, Unlocked, LockOf
<1>6. j.conditions = g.conditions \cup h.conditions
  BY <1>5 DEF Merge
<1>7. SumsEnd(j.ends_at, A \cup B)
  <2>1. CASE IsEmpty(g)
    <3>1. Binding(A \cup B) = Binding(B) /\ j = h
      BY <2>1, <1>1 DEF Sums, Merge
    <3> QED BY <3>1 DEF Sums, SumsEnd
  <2>2. CASE ~IsEmpty(g) /\ IsEmpty(h)
    <3>1. Binding(A \cup B) = Binding(A) /\ j = g
      BY <2>2, <1>1 DEF Sums, Merge
    <3> QED BY <3>1 DEF Sums, SumsEnd
  <2>3. CASE ~IsEmpty(g) /\ ~IsEmpty(h)
    <3>1. j.ends_at = LatestEnd(g.ends_at, h.ends_at)
      BY <2>3 DEF Merge
    <3>2. Binding(A) # {} /\ Binding(B) # {}
      BY <2>3 DEF Sums
    <3>3. \A l \in Binding(A) \cup Binding(B) : l.ends_at \in Optional
      BY DEF Binding, LockSet
    <3>4. g.ends_at \in Optional /\ h.ends_at \in Optional
      BY DEF LockSet
    <3>5. SumsEnd(g.ends_at, A) /\ SumsEnd(h.ends_at, B)
      BY DEF Sums
    <3>6. CASE g.ends_at = None \/ h.ends_at = None
      <4>1. j.ends_at = None
        BY <3>1, <3>6 DEF LatestEnd
      <4>2. \E l \in Binding(A \cup B) : l.ends_at = None
        BY <3>2, <3>5, <3>6, <1>1 DEF SumsEnd
      <4> QED BY <4>1, <4>2 DEF SumsEnd
    <3>7. CASE g.ends_at # None /\ h.ends_at # None
      <4>1. j.ends_at = Later(g.ends_at, h.ends_at) /\ g.ends_at \in Int /\ h.ends_at \in Int
        BY <3>1, <3>4, <3>7 DEF LatestEnd, Optional
      <4>2. \A l \in Binding(A \cup B) : l.ends_at \in Int
        BY <3>3, <3>5, <3>7, <1>1 DEF SumsEnd, Optional
      <4>3. ASSUME NEW l \in Binding(A \cup B) PROVE l.ends_at <= j.ends_at
        <5>1. l.ends_at \in Int
          BY <4>2
        <5>2. l.ends_at <= g.ends_at \/ l.ends_at <= h.ends_at
          BY <3>5, <3>7, <1>1 DEF SumsEnd
        <5> QED BY <5>1, <5>2, <4>1 DEF Later
      <4>4. \E l \in Binding(A \cup B) : l.ends_at = j.ends_at
        BY <4>1, <3>5, <3>7, <1>1 DEF SumsEnd, Later
      <4>5. j.ends_at \in Int /\ j.ends_at # None
        BY <4>1, LocksAssumption DEF Later
      <4> QED BY <4>2, <4>3, <4>4, <4>5, LocksAssumption DEF SumsEnd
    <3> QED BY <3>6, <3>7
  <2> QED BY <2>1, <2>2, <2>3
<1> QED BY <1>2, <1>4, <1>6, <1>7 DEF Sums

\* What Sums says depends only on the conditions, the end and whether the lock binds at all.
LEMMA SumsLike ==
  ASSUME NEW g, NEW h, NEW A, Sums(g, A),
         h.conditions = g.conditions, h.ends_at = g.ends_at, IsEmpty(h) <=> IsEmpty(g)
  PROVE  Sums(h, A)
BY DEF Sums

LEMMA SumsDecides ==
  ASSUME NEW g \in LockSet, NEW h \in LockSet, NEW A \in SUBSET LockSet, Sums(g, A), Sums(h, A)
  PROVE  g.conditions = h.conditions /\ g.ends_at = h.ends_at
<1>1. g.conditions = h.conditions
  BY DEF Sums
<1>2. CASE g.ends_at = None \/ h.ends_at = None
  BY <1>2 DEF Sums, SumsEnd
<1>3. CASE g.ends_at # None /\ h.ends_at # None
  <2>1. g.ends_at \in Int /\ h.ends_at \in Int
    BY <1>3 DEF LockSet, Optional
  <2>2. g.ends_at <= h.ends_at /\ h.ends_at <= g.ends_at
    BY <1>3 DEF Sums, SumsEnd
  <2> QED BY <1>1, <2>1, <2>2
<1> QED BY <1>1, <1>2, <1>3

\* Adopting a store that is behind changes neither the conditions nor the end.
LEMMA HardenBehind ==
  ASSUME NEW h \in LockSet, NEW s \in LockSet, Behind(s, h)
  PROVE  /\ Harden(h, s).conditions = h.conditions
         /\ Harden(h, s).ends_at = h.ends_at
         /\ IsEmpty(Harden(h, s)) <=> IsEmpty(h)
<1> DEFINE r == Harden(h, s)
<1>1. r.conditions = h.conditions
  BY DEF Harden, Behind
<1>2. r.ends_at = h.ends_at
  <2>1. h.ends_at \in Optional /\ s.ends_at \in Optional
    BY DEF LockSet
  <2> QED BY <2>1, LocksAssumption DEF Harden, Behind, KeepOrLater, Later, Optional
<1>3. r.delayed_release_at = None <=> h.delayed_release_at = None
  <2>1. r.delayed_release_at = KeepOrLater(h.delayed_release_at, s.delayed_release_at)
    BY DEF Harden
  <2>2. h.delayed_release_at \in Optional /\ s.delayed_release_at \in Optional
    BY DEF LockSet
  <2> QED BY <2>1, <2>2, LocksAssumption DEF KeepOrLater, Later, Optional
<1>4. r \in LockSet
  BY HardenType
<1>5. \A l \in LockSet : IsEmpty(l) <=> l.conditions = {} /\ l.ends_at = None
                                                           /\ l.delayed_release_at = None
  BY FieldsDecide, UnlockedType DEF IsEmpty, Unlocked, LockOf
<1> QED BY <1>1, <1>2, <1>3, <1>4, <1>5

-----------------------------------------------------------------------------
LEMMA InitInv == Init => Inv
<1> SUFFICES ASSUME Init PROVE Inv
  OBVIOUS
<1>1. Sums(Unlocked, {})
  BY DEF Sums, SumsEnd, Binding, IsEmpty, Unlocked, LockOf
<1>2. Behind(Unlocked, Unlocked)
  BY LocksAssumption DEF Behind, Unlocked, LockOf
<1>3. \A d \in Devices : held[d] = Unlocked /\ stored[d] = Unlocked /\ heard[d] = {}
  BY DEF Init
<1>4. TypeOK
  BY UnlockedType DEF Init, TypeOK
<1> QED BY <1>1, <1>2, <1>3, <1>4 DEF Inv, Init

\* A lock that is at least as hard keeps a store behind it.
LEMMA BehindMerge ==
  ASSUME NEW s \in LockSet, NEW h \in LockSet, NEW m \in LockSet, Behind(s, h)
  PROVE  Behind(s, Merge(h, m))
<1> DEFINE j == Merge(h, m)
<1>1. AtLeast(j, h)
  BY MergeIsAtLeast
<1>2. s.conditions \subseteq j.conditions
  BY <1>1 DEF AtLeast, Behind
<1>3. IsEmpty(j) => IsEmpty(s)
  BY MergeKeepsNonEmpty DEF Behind
<1>4. s.ends_at # None /\ j.ends_at # None => s.ends_at <= j.ends_at
  <2>1. CASE IsEmpty(h)
    BY <2>1 DEF Behind, IsEmpty, Unlocked, LockOf
  <2>2. CASE ~IsEmpty(h) /\ h.ends_at = None
    BY <2>2, <1>1 DEF AtLeast
  <2>3. CASE h.ends_at # None
    <3>1. j \in LockSet
      BY MergeType
    <3> QED BY <2>3, <3>1, <1>1, LocksAssumption
            DEF AtLeast, EndsNoEarlier, Behind, LockSet, Optional
  <2> QED BY <2>1, <2>2, <2>3
<1> QED BY <1>2, <1>3, <1>4 DEF Behind

\* What another lock with the same conditions, end and weight keeps behind it.
LEMMA BehindLike ==
  ASSUME NEW s, NEW g, NEW h, Behind(s, g),
         h.conditions = g.conditions, h.ends_at = g.ends_at, IsEmpty(h) <=> IsEmpty(g)
  PROVE  Behind(s, h)
BY DEF Behind

LEMMA BehindSelf == ASSUME NEW h \in LockSet PROVE Behind(h, h)
BY DEF Behind, LockSet, Optional

LEMMA NextInv == Inv /\ [Next]_vars => Inv'
<1> SUFFICES ASSUME Inv, [Next]_vars PROVE Inv'
  OBVIOUS
<1> USE DEF Inv, TypeOK
<1>1. CASE Clock
  BY <1>1 DEF Clock
<1>2. ASSUME NEW d \in Devices, NEW l \in LockSet, NEW ls \in SUBSET LockSet, Sums(l, ls),
             held' = [held EXCEPT ![d] = Merge(@, l)],
             heard' = [heard EXCEPT ![d] = @ \cup ls],
             UNCHANGED <<now, stored>>
      PROVE  Inv'
  <2>1. Merge(held[d], l) \in LockSet
    BY MergeType
  <2>2. Sums(Merge(held[d], l), heard[d] \cup ls)
    BY <1>2, SumsJoin
  <2>3. Behind(stored[d], Merge(held[d], l))
    BY BehindMerge
  <2> QED BY <1>2, <2>1, <2>2, <2>3
<1>3. ASSUME NEW d \in Devices, NEW l \in Offered, StartOn(d, l) PROVE Inv'
  <2>1. l \in LockSet /\ Sums(l, {l})
    BY SumsOne, SharedLockAssumption
  <2> QED BY <2>1, <1>2, <1>3 DEF StartOn
<1>4. ASSUME NEW d \in Devices, NEW e \in Devices, Hear(d, e) PROVE Inv'
  <2>1. held[e] \in LockSet /\ heard[e] \in SUBSET LockSet /\ Sums(held[e], heard[e])
    OBVIOUS
  <2> QED BY <2>1, <1>2, <1>4 DEF Hear
<1>5. ASSUME NEW d \in Devices, AskOn(d) PROVE Inv'
  <2> DEFINE asked == RequestRelease(held[d], now)
  <2>1. /\ held[d] \in LockSet /\ asked \in LockSet
        /\ asked.conditions = held[d].conditions /\ asked.ends_at = held[d].ends_at
        /\ asked.delayed_release_at = MinOpt(held[d].delayed_release_at, now + DELAYED_RELEASE_SECONDS)
    BY ReleaseType DEF RequestRelease, LockSet
  <2>2. now + DELAYED_RELEASE_SECONDS \in Int
    BY LocksAssumption
  <2>3. /\ held' = [held EXCEPT ![d] = asked]
        /\ heard' = [heard EXCEPT ![d] = @ \cup ({asked} \ {held[d]})]
        /\ UNCHANGED <<now, stored>>
    BY <1>5 DEF AskOn
  <2> HIDE DEF asked
  <2>4. CASE asked = held[d]
    BY <2>3, <2>4
  <2>5. CASE asked # held[d]
    <3>1. Merge(held[d], asked) = asked
      BY <2>1, <2>2, LocksAssumption
         DEF Merge, IsEmpty, LatestEnd, Later, MinOpt, Earlier, LockSet, Optional, Unlocked, LockOf
    <3>2. {asked} \in SUBSET LockSet /\ Sums(asked, {asked})
      BY <2>1, SumsOne
    <3> QED BY <1>2, <2>1, <2>3, <2>5, <3>1, <3>2
  <2> QED BY <2>4, <2>5
<1>6. ASSUME NEW d \in Devices, Save(d) PROVE Inv'
  BY <1>6, BehindSelf DEF Save
<1>7. ASSUME NEW d \in Devices, RestoreOn(d) PROVE Inv'
  <2> DEFINE restored == Harden(held[d], stored[d])
  <2>1. held[d] \in LockSet /\ stored[d] \in LockSet /\ Behind(stored[d], held[d])
    OBVIOUS
  <2>2. restored \in LockSet
    BY <2>1, HardenType
  <2>3. /\ restored.conditions = held[d].conditions /\ restored.ends_at = held[d].ends_at
        /\ IsEmpty(restored) <=> IsEmpty(held[d])
    BY <2>1, HardenBehind
  <2> HIDE DEF restored
  <2>4. Sums(restored, heard[d])
    BY <2>3, SumsLike
  <2>5. Behind(stored[d], restored)
    BY <2>1, <2>3, BehindLike
  <2>6. held' = [held EXCEPT ![d] = restored] /\ UNCHANGED <<now, stored, heard>>
    BY <1>7 DEF RestoreOn, restored
  <2> QED BY <2>2, <2>4, <2>5, <2>6
<1>8. CASE UNCHANGED vars
  BY <1>8 DEF vars
<1> QED BY <1>1, <1>3, <1>4, <1>5, <1>6, <1>7, <1>8 DEF Next

LEMMA SpecInv == Spec => []Inv
BY InitInv, NextInv, PTL DEF Spec

(***************************************************************************)
(* Every lock a device ever holds or stores is a lock.                     *)
(***************************************************************************)
THEOREM TypeCorrect == Spec => []TypeOK
<1>1. Inv => TypeOK
  BY DEF Inv
<1> QED BY <1>1, SpecInv, PTL

(***************************************************************************)
(* Devices that have been told of the same locks, in any order and any     *)
(* number of times, ask the same of their user.                            *)
(***************************************************************************)
THEOREM DeliveryDoesNotMatter == Spec => []SameNewsSameHold
<1>1. Inv => SameNewsSameHold
  <2> SUFFICES ASSUME Inv, NEW d \in Devices, NEW e \in Devices, heard[d] = heard[e]
               PROVE  held[d].conditions = held[e].conditions /\ held[d].ends_at = held[e].ends_at
    BY DEF SameNewsSameHold
  <2>1. held[d] \in LockSet /\ held[e] \in LockSet /\ heard[d] \in SUBSET LockSet
    BY DEF Inv, TypeOK
  <2>2. Sums(held[d], heard[d]) /\ Sums(held[e], heard[d])
    BY DEF Inv
  <2> QED BY <2>1, <2>2, SumsDecides
<1> QED BY <1>1, SpecInv, PTL

(***************************************************************************)
(* No delivery, no start and no store drops a condition or brings an end   *)
(* forward on any device.                                                  *)
(***************************************************************************)
THEOREM HoldOnlyGrows == Spec => NeverLighter
<1> DEFINE Heavier(d) == /\ held[d].conditions \subseteq held'[d].conditions
                         /\ EndsNoEarlier(held'[d].ends_at, held[d].ends_at)
<1>1. Inv /\ [Next]_vars => [\A d \in Devices : Heavier(d)]_vars
  <2> SUFFICES ASSUME Inv, Next, NEW c \in Devices PROVE Heavier(c)
    BY DEF vars
  <2>1. held[c] \in LockSet /\ stored[c] \in LockSet
    BY DEF Inv, TypeOK
  <2>2. ASSUME held'[c] = held[c] PROVE Heavier(c)
    BY <2>1, <2>2 DEF EndsNoEarlier, LockSet, Optional
  <2>3. ASSUME NEW l \in LockSet, held'[c] = Merge(held[c], l) PROVE Heavier(c)
    BY <2>1, <2>3, MergeIsAtLeast DEF AtLeast
  <2>4. CASE Clock \/ \E d \in Devices : Save(d)
    BY <2>4, <2>2 DEF Clock, Save
  <2>5. ASSUME NEW d \in Devices, NEW l \in Offered, StartOn(d, l) PROVE Heavier(c)
    BY <2>2, <2>3, <2>5, SharedLockAssumption DEF StartOn, Inv, TypeOK
  <2>6. ASSUME NEW d \in Devices, NEW e \in Devices, Hear(d, e) PROVE Heavier(c)
    BY <2>2, <2>3, <2>6 DEF Hear, Inv, TypeOK
  <2>7. ASSUME NEW d \in Devices, AskOn(d) PROVE Heavier(c)
    BY <2>1, <2>2, <2>7, ReleaseIsAtLeast DEF AskOn, Inv, TypeOK, AtLeast
  <2>8. ASSUME NEW d \in Devices, RestoreOn(d) PROVE Heavier(c)
    BY <2>1, <2>2, <2>8, HardenNeverLighter DEF RestoreOn, Inv, TypeOK
  <2> QED BY <2>4, <2>5, <2>6, <2>7, <2>8 DEF Next
<1> QED BY <1>1, SpecInv, PTL DEF Spec, NeverLighter
=============================================================================
