---------------------------- MODULE AndroidProofs ----------------------------
(***************************************************************************)
(* What the phone keeps to, for any stories: a document is never edited    *)
(* into an easier one under a session that runs by it, and no session      *)
(* leaves but by right, whatever is killed and restored in between.        *)
(***************************************************************************)
EXTENDS Android, SessionsProofs, FiniteSetTheorems, SequenceTheorems

-----------------------------------------------------------------------------
(***************************************************************************)
(* Finite sets of numbers, and lists of which some items are kept.         *)
(***************************************************************************)
LEMMA ImageFinite ==
  ASSUME NEW S, IsFiniteSet(S), NEW f, S \subseteq DOMAIN f
  PROVE  IsFiniteSet({f[x] : x \in S})
<1> DEFINE T == {f[x] : x \in S}
           g == [x \in S |-> f[x]]
<1>1. g \in Surjection(S, T)
  BY DEF Surjection
<1> QED BY <1>1, FS_Surjection

LEMMA MaxOf ==
  ASSUME NEW S \in SUBSET Int, IsFiniteSet(S), S # {}
  PROVE  Max(S) \in S /\ \A y \in S : Max(S) >= y
<1> DEFINE Above(x) == {y \in S : y > x}
           T == {Above(x) : x \in S}
           R == StrictSubsetOrdering(S)
<1>1. IsWellFoundedOn(R, FiniteSubsetsOf(S))
  BY FS_StrictSubsetOrderingWellFounded
<1>2. T \subseteq FiniteSubsetsOf(S)
  BY FS_FiniteSubsetsOfFinite
<1>3. T # {}
  BY Zenon
<1>4. \A U, V \in SUBSET S : U \subseteq V /\ U # V => <<U, V>> \in R
  BY DEF StrictSubsetOrdering
<1> HIDE DEF R, T
<1>5. PICK V \in T : \A U \in T : ~(<<U, V>> \in R)
  BY <1>1, <1>2, <1>3, WFMin
<1>6. PICK x \in S : V = Above(x)
  BY <1>5 DEF T
<1>7. ASSUME NEW y \in S, y > x PROVE FALSE
  <2>1. Above(y) \subseteq Above(x)
    <3> SUFFICES ASSUME NEW z \in S, z > y PROVE z > x
      OBVIOUS
    <3>1. x \in Int /\ y \in Int /\ z \in Int
      OBVIOUS
    <3> QED BY <1>7, <3>1
  <2>2. y \in Above(x) /\ y \notin Above(y)
    BY <1>7
  <2>3. Above(y) \in T /\ Above(y) \in SUBSET S /\ Above(x) \in SUBSET S
    BY DEF T
  <2>4. <<Above(y), Above(x)>> \in R
    BY <1>4, <2>1, <2>2, <2>3
  <2> QED BY <1>5, <1>6, <2>3, <2>4
<1>8. \A y \in S : x >= y
  BY <1>7
<1> QED BY <1>8 DEF Max

LEMMA MinOf ==
  ASSUME NEW S \in SUBSET Int, IsFiniteSet(S), S # {}
  PROVE  Min(S) \in S /\ \A y \in S : Min(S) <= y
<1> DEFINE minus == [x \in S |-> 0 - x]
           T == {minus[x] : x \in S}
<1>1. IsFiniteSet(T)
  BY ImageFinite
<1>2. T \in SUBSET Int /\ T # {} /\ \A x \in S : 0 - x \in T
  <2>1. \A x \in S : minus[x] \in Int /\ minus[x] = 0 - x
    OBVIOUS
  <2> HIDE DEF minus
  <2> QED BY <2>1
<1> HIDE DEF T
<1>3. Max(T) \in T /\ \A t \in T : Max(T) >= t
  BY <1>1, <1>2, MaxOf
<1>4. PICK m \in S : Max(T) = 0 - m
  BY <1>3 DEF T
<1>5. ASSUME NEW y \in S PROVE m <= y
  <2>1. 0 - m >= 0 - y /\ m \in Int /\ y \in Int
    BY <1>2, <1>3, <1>4
  <2> QED BY <2>1
<1> QED BY <1>5 DEF Min

LEMMA PlacesFinite ==
  ASSUME NEW n \in Nat, NEW T \in SUBSET (0..n)
  PROVE  IsFiniteSet(T) /\ Cardinality(T) \in Nat
<1>1. 0 \in Int /\ n \in Int
  OBVIOUS
<1>2. IsFiniteSet(0..n)
  BY <1>1, FS_Interval
<1> QED BY <1>2, FS_Subset, FS_CardinalityType

\* A list of some items of another, none of them twice.
Part(short, list) ==
  \E n \in Nat : \E at \in [1..n -> DOMAIN list] :
    IsInjective(at) /\ short = [k \in 1..n |-> list[at[k]]]

\* The items that are kept are items of the list, none of them twice.
LEMMA OnlyKept ==
  ASSUME NEW X, NEW list \in Seq(X), NEW good
  PROVE  Only(list, good) \in Seq(X) /\ Part(Only(list, good), list)
<1> DEFINE kept == {i \in 1..Len(list) : list[i] \in good}
           size == Cardinality(kept)
           Before(i) == Cardinality({j \in kept : j <= i})
           at == [n \in 1..size |-> CHOOSE i \in kept : Before(i) = n]
           short == Only(list, good)
<1>1. Len(list) \in Nat /\ DOMAIN list = 1..Len(list)
  BY LenProperties
<1>2. IsFiniteSet(kept) /\ size \in Nat
  <2>1. kept \in SUBSET (0..Len(list))
    BY <1>1
  <2> QED BY <1>1, <2>1, PlacesFinite
<1>3. ASSUME NEW i \in Int PROVE Before(i) \in Nat /\ IsFiniteSet({j \in kept : j <= i})
  BY <1>2, FS_Subset, FS_CardinalityType
<1>4. Before(0) = 0
  <2>1. {j \in kept : j <= 0} = {}
    BY <1>1
  <2> QED BY <2>1, FS_EmptySet
<1>5. Before(Len(list)) = size
  <2>1. {j \in kept : j <= Len(list)} = kept
    BY <1>1
  <2> QED BY <2>1
<1>6. ASSUME NEW i \in 1..Len(list)
      PROVE  Before(i) = IF i \in kept THEN Before(i - 1) + 1 ELSE Before(i - 1)
  <2> DEFINE U == {j \in kept : j <= i - 1}
  <2>0. i - 1 \in Int /\ i \in Int
    BY <1>1
  <2>1. CASE i \in kept
    <3>1. {j \in kept : j <= i} = U \cup {i} /\ i \notin U
      BY <1>1, <2>1
    <3>2. IsFiniteSet(U)
      BY <1>3, <2>0
    <3> HIDE DEF U
    <3>3. Cardinality(U \cup {i}) = Cardinality(U) + 1
      BY <3>1, <3>2, FS_AddElement
    <3> QED BY <2>1, <3>1, <3>3 DEF U
  <2>2. CASE i \notin kept
    <3>1. {j \in kept : j <= i} = U
      BY <1>1, <2>2
    <3> QED BY <2>2, <3>1
  <2> QED BY <2>1, <2>2
<1> HIDE DEF Before, kept, size
<1>7. ASSUME NEW n \in 1..size PROVE \E i \in kept : Before(i) = n
  <2> DEFINE reached == {i \in 0..Len(list) : Before(i) >= n}
  <2>1. Len(list) \in reached
    BY <1>1, <1>2, <1>5
  <2>2. IsFiniteSet(reached) /\ reached \in SUBSET Int
    <3>1. reached \in SUBSET (0..Len(list)) /\ reached \in SUBSET Int
      BY <1>1
    <3> HIDE DEF reached
    <3> QED BY <1>1, <3>1, PlacesFinite
  <2>3. Min(reached) \in reached /\ \A y \in reached : Min(reached) <= y
    BY <2>1, <2>2, MinOf
  <2> DEFINE i == Min(reached)
  <2> HIDE DEF reached
  <2>4. i \in 0..Len(list) /\ Before(i) >= n
    BY <2>3 DEF reached
  <2> HIDE DEF i
  <2>5. i # 0
    BY <1>2, <1>4, <2>4
  <2>6. i \in 1..Len(list) /\ i - 1 \in 0..Len(list) /\ i - 1 < i
    BY <1>1, <2>4, <2>5
  <2>7. ~(Before(i - 1) >= n)
    BY <2>3, <2>6 DEF reached, i
  <2>8. Before(i) \in Nat /\ Before(i - 1) \in Nat
    <3>1. i \in Int /\ i - 1 \in Int
      BY <1>1, <2>6
    <3> QED BY <1>3, <3>1
  <2> QED BY <1>2, <1>6, <2>4, <2>6, <2>7, <2>8
<1>8. ASSUME NEW n \in 1..size PROVE at[n] \in kept /\ Before(at[n]) = n
  BY <1>7
<1> HIDE DEF at
<1>9. at \in [1..size -> kept]
  BY <1>8 DEF at
<1>10. IsInjective(at)
  <2>1. \A m, n \in 1..size : at[m] = at[n] => m = n
    BY <1>8
  <2> QED BY <1>9, <2>1 DEF IsInjective
<1>11. short = [n \in 1..size |-> list[at[n]]]
  <2>1. kept = {i \in DOMAIN list : list[i] \in good}
    BY <1>1 DEF kept
  <2> QED BY <2>1 DEF Only, at, Before, size
<1>12. \A n \in 1..size : list[at[n]] \in X
  <2>1. kept \subseteq 1..Len(list)
    BY DEF kept
  <2> QED BY <1>9, <2>1, ElementOfSeq
<1>13. [n \in 1..size |-> list[at[n]]] \in Seq(X)
  BY <1>2, <1>12, IsASeq
<1> HIDE DEF short
<1>14. at \in [1..size -> DOMAIN list]
  BY <1>1, <1>9 DEF kept
<1>15. Part(short, list)
  BY <1>2, <1>10, <1>11, <1>14 DEF Part
<1> QED BY <1>11, <1>13, <1>15 DEF short

LEMMA DropKept ==
  ASSUME NEW X, NEW list \in Seq(X), NEW id
  PROVE  /\ Drop(list, id) \in Seq(X)
         /\ NoTwice(list) => NoTwice(Drop(list, id))
<1> DEFINE good == {x \in Range(list) : x.id # id}
           short == Only(list, good)
<1> HIDE DEF good
<1>0. PICK n \in Nat : \E at \in [1..n -> DOMAIN list] :
        IsInjective(at) /\ short = [k \in 1..n |-> list[at[k]]]
  <2>1. Part(short, list)
    BY OnlyKept
  <2> QED BY <2>1 DEF Part
<1>1. PICK at \in [1..n -> DOMAIN list] :
        IsInjective(at) /\ short = [k \in 1..n |-> list[at[k]]]
  BY <1>0
<1>2. short \in Seq(X)
  BY OnlyKept
<1> HIDE DEF short
<1>4. ASSUME NoTwice(list), NEW i \in 1..n, NEW j \in 1..n, short[i].id = short[j].id
      PROVE  i = j
  <2>1. at[i] \in DOMAIN list /\ at[j] \in DOMAIN list /\ list[at[i]].id = list[at[j]].id
    BY <1>1, <1>4
  <2>2. at[i] = at[j]
    BY <1>4, <2>1 DEF NoTwice
  <2> QED BY <1>1, <2>2 DEF IsInjective
<1>5. NoTwice(list) => NoTwice(short)
  BY <1>1, <1>4 DEF NoTwice
<1> QED BY <1>2, <1>5 DEF Drop, short, good

Places(list, id) == {i \in DOMAIN list : list[i].id = id}

LEMMA FirstPlace ==
  ASSUME NEW X, NEW list \in Seq(X), NEW id, Places(list, id) # {}
  PROVE  Min(Places(list, id)) \in Places(list, id)
<1> DEFINE at == Places(list, id)
<1>1. Len(list) \in Nat /\ DOMAIN list = 1..Len(list)
  BY LenProperties
<1>2. at \in SUBSET (0..Len(list)) /\ at \in SUBSET Int
  BY <1>1 DEF Places
<1> HIDE DEF at
<1>3. IsFiniteSet(at)
  BY <1>1, <1>2, PlacesFinite
<1> QED BY <1>2, <1>3, MinOf DEF at

LEMMA PutType ==
  ASSUME NEW X, NEW list \in Seq(X), NEW item \in X
  PROVE  Put(list, item) \in Seq(X)
<1> DEFINE at == Places(list, item.id)
<1>1. CASE at = {}
  BY <1>1, AppendProperties DEF Put, Places
<1>2. CASE at # {}
  <2>1. Min(at) \in 1..Len(list)
    BY <1>2, FirstPlace, LenProperties DEF Places
  <2>2. Put(list, item) = [list EXCEPT ![Min(at)] = item]
    BY <1>2 DEF Put, Places
  <2> QED BY <2>1, <2>2, ExceptSeq
<1> QED BY <1>1, <1>2

LEMMA SetToSeqType ==
  ASSUME NEW X, NEW S \in SUBSET X, IsFiniteSet(S)
  PROVE  SetToSeq(S) \in Seq(X)
<1>1. Cardinality(S) \in Nat /\ ExistsBijection(1..Cardinality(S), S)
  BY FS_CardinalityType
<1>2. \E f \in [1..Cardinality(S) -> S] : IsInjective(f)
  BY <1>1 DEF ExistsBijection, Bijection, Injection
<1>3. SetToSeq(S) \in [1..Cardinality(S) -> S]
  BY <1>2 DEF SetToSeq
<1> QED BY <1>1, <1>3

-----------------------------------------------------------------------------
(***************************************************************************)
(* Documents, and what an edit makes of them.                              *)
(***************************************************************************)
Sensible == {d \in Document : NoTwice(d.profiles)}

LEMMA DocumentParts ==
  ASSUME NEW d \in Document
  PROVE  /\ d.profiles \in Seq(Profile) /\ d.weekly \in Seq(Weekly)
         /\ d.calendars \in Seq(CalendarRule) /\ d.zone \in Zones
BY DEF Document

LEMMA NewParts ==
  ASSUME NEW d \in Document
  PROVE  /\ \A x \in Seq(Profile) : LET e == [d EXCEPT !.profiles = x] IN
              e \in Document /\ e.profiles = x /\ e.zone = d.zone
         /\ \A x \in Seq(Weekly) : LET e == [d EXCEPT !.weekly = x] IN
              e \in Document /\ e.profiles = d.profiles
         /\ \A x \in Seq(CalendarRule) : LET e == [d EXCEPT !.calendars = x] IN
              e \in Document /\ e.profiles = d.profiles
BY DEF Document

LEMMA RulesTyped ==
  ASSUME NEW d \in Document, NEW p
  PROVE  /\ RulesOf(d, p) \subseteq Rule /\ IsFiniteSet(RulesOf(d, p))
         /\ RuleList(d, p) \in Seq(Rule)
         /\ \A r \in Range(RuleList(d, p)) : r \in RulesOf(d, p)
<1> DEFINE found == ById(d.profiles, p)
           lists == {Range(q.rules) : q \in found}
           places == {i \in DOMAIN d.profiles : d.profiles[i].id = p}
<1>1. d.profiles \in Seq(Profile) /\ Len(d.profiles) \in Nat
      /\ DOMAIN d.profiles = 1..Len(d.profiles)
  BY DocumentParts, LenProperties
<1>2. found = {d.profiles[i] : i \in places} /\ found \subseteq Profile
  BY <1>1, ElementOfSeq DEF ById
<1>3. \A q \in found : q.rules \in Seq(Rule)
  BY <1>2 DEF Profile
<1> HIDE DEF found
<1>4. \A l \in lists : l \subseteq Rule
  BY <1>3, RangeOfSeq
<1>5. ASSUME NEW q \in found PROVE IsFiniteSet(Range(q.rules))
  <2>1. q.rules \in Seq(Rule) /\ Len(q.rules) \in Nat /\ DOMAIN q.rules = 1..Len(q.rules)
    BY <1>3, LenProperties
  <2>2. IsFiniteSet(DOMAIN q.rules)
    <3>1. DOMAIN q.rules \in SUBSET (0..Len(q.rules))
      BY <2>1
    <3> QED BY <2>1, <3>1, PlacesFinite
  <2>3. IsFiniteSet({(q.rules)[i] : i \in DOMAIN q.rules})
    BY <2>2, ImageFinite
  <2> QED BY <2>3 DEF Range
<1>6. IsFiniteSet(places)
  <2>1. places \in SUBSET (0..Len(d.profiles))
    BY <1>1
  <2> HIDE DEF places
  <2> QED BY <1>1, <2>1, PlacesFinite
<1>7. IsFiniteSet(lists)
  <2> DEFINE f == [i \in places |-> Range(d.profiles[i].rules)]
  <2>1. {f[i] : i \in places} = lists
    BY <1>2
  <2>2. places = DOMAIN f
    OBVIOUS
  <2> HIDE DEF f, lists
  <2> QED BY <1>6, <2>1, <2>2, ImageFinite
<1>8. RulesOf(d, p) = UNION lists
  BY DEF RulesOf, found
<1>9. IsFiniteSet(UNION lists)
  <2>1. \A l \in lists : IsFiniteSet(l)
    BY <1>5
  <2> HIDE DEF lists
  <2> QED BY <1>7, <2>1, FS_UNION
<1>10. CASE found = {}
  <2>1. RuleList(d, p) = <<>>
    BY <1>10 DEF RuleList, found
  <2>2. <<>> \in Seq(Rule) /\ Range(<<>>) = {}
    BY DEF Range
  <2>3. UNION lists \subseteq Rule
    BY <1>4
  <2> HIDE DEF lists
  <2> QED BY <1>8, <1>9, <2>1, <2>2, <2>3
<1>11. CASE found # {}
  <2>1. PICK q \in found : RuleList(d, p) = q.rules
    BY <1>11 DEF RuleList, found
  <2> QED BY <1>3, <1>4, <1>8, <1>9, <2>1
<1> QED BY <1>10, <1>11

\* Where no two profiles have the same name, a profile's rules are those of its list.
LEMMA RulesAreListed ==
  ASSUME NEW d \in Sensible, NEW p PROVE RulesOf(d, p) = Range(RuleList(d, p))
<1> DEFINE found == ById(d.profiles, p)
<1>1. CASE found = {}
  BY <1>1 DEF RulesOf, RuleList, Range
<1>2. CASE found # {}
  <2>1. \A q, r \in found : q = r
    BY DEF ById, NoTwice, Sensible
  <2>2. PICK q \in found : RuleList(d, p) = q.rules
    BY <1>2 DEF RuleList
  <2>3. RulesOf(d, p) = UNION {Range(r.rules) : r \in found}
    BY DEF RulesOf
  <2> HIDE DEF found
  <2> QED BY <2>1, <2>2, <2>3
<1> QED BY <1>1, <1>2

LEMMA RulesOfItem ==
  ASSUME NEW d \in Document, NEW i \in DOMAIN d.profiles
  PROVE  d.profiles[i] \in Profile /\ d.profiles[i].rules \in Seq(Rule)
<1>1. d.profiles \in Seq(Profile) /\ DOMAIN d.profiles = 1..Len(d.profiles)
  BY DocumentParts, LenProperties
<1>2. d.profiles[i] \in Profile
  BY <1>1, ElementOfSeq
<1> QED BY <1>2 DEF Profile

\* New rules for the profiles of one name.
LEMMA NewRules ==
  ASSUME NEW d \in Document, NEW id, NEW new \in [DOMAIN d.profiles -> Seq(Rule)],
         NEW profiles, profiles = [i \in DOMAIN d.profiles |->
                         IF d.profiles[i].id = id THEN [d.profiles[i] EXCEPT !.rules = new[i]]
                                                  ELSE d.profiles[i]]
  PROVE  /\ [d EXCEPT !.profiles = profiles] \in Document
         /\ d \in Sensible => [d EXCEPT !.profiles = profiles] \in Sensible
<1>1. d.profiles \in Seq(Profile) /\ Len(d.profiles) \in Nat
      /\ DOMAIN d.profiles = 1..Len(d.profiles)
  BY DocumentParts, LenProperties
<1>2. \A i \in 1..Len(d.profiles) : d.profiles[i] \in Profile
  BY <1>1, ElementOfSeq
<1>3. \A i \in 1..Len(d.profiles) : profiles[i] \in Profile /\ profiles[i].id = d.profiles[i].id
  BY <1>1, <1>2 DEF Profile
<1>4. profiles \in Seq(Profile) /\ DOMAIN profiles = DOMAIN d.profiles
  <2>1. DOMAIN profiles = 1..Len(d.profiles)
    BY <1>1
  <2>2. profiles = [i \in 1..Len(d.profiles) |-> profiles[i]]
    BY <1>1
  <2>3. profiles \in [1..Len(d.profiles) -> Profile]
    BY <1>3, <2>2
  <2> QED BY <1>1, <2>1, <2>3
<1>5. NoTwice(d.profiles) => NoTwice(profiles)
  BY <1>1, <1>3, <1>4 DEF NoTwice
<1> QED BY <1>4, <1>5, NewParts DEF Sensible

LEMMA UpsertRuleType ==
  ASSUME NEW d \in Sensible, NEW id, NEW rule \in Rule
  PROVE  upsert_rule(d, id, rule) \in Sensible /\ upsert_rule(d, id, rule).zone = d.zone
<1> DEFINE Edited(rules) ==
             LET same == Answering(rules, rule)
             IN  IF same = {} THEN Append(rules, rule) ELSE [rules EXCEPT ![Min(same)] = rule]
           new == [i \in DOMAIN d.profiles |-> Edited(d.profiles[i].rules)]
           profiles == [i \in DOMAIN d.profiles |->
                          IF d.profiles[i].id = id THEN [d.profiles[i] EXCEPT !.rules = new[i]]
                                                   ELSE d.profiles[i]]
           Q == [i \in DOMAIN d.profiles |->
                   IF d.profiles[i].id = id
                   THEN [d.profiles[i] EXCEPT !.rules = Edited(d.profiles[i].rules)]
                   ELSE d.profiles[i]]
<1>1. ASSUME NEW rules \in Seq(Rule) PROVE Edited(rules) \in Seq(Rule)
  <2> DEFINE same == Answering(rules, rule)
  <2>1. Len(rules) \in Nat /\ DOMAIN rules = 1..Len(rules) /\ same \subseteq 1..Len(rules)
    BY LenProperties DEF Answering
  <2>2. CASE same = {}
    BY <2>2, AppendProperties
  <2>3. CASE same # {}
    <3>1. same \in SUBSET (0..Len(rules)) /\ same \in SUBSET Int
      BY <2>1
    <3> HIDE DEF same
    <3>2. Min(same) \in 1..Len(rules)
      BY <2>1, <2>3, <3>1, PlacesFinite, MinOf
    <3>3. [rules EXCEPT ![Min(same)] = rule] \in Seq(Rule)
      BY <3>2, ExceptSeq
    <3> QED BY <2>3, <3>3 DEF same
  <2> QED BY <2>2, <2>3
<1>2. d \in Document /\ \A i \in DOMAIN d.profiles : d.profiles[i].rules \in Seq(Rule)
  BY RulesOfItem DEF Sensible
<1>5. with_rule(d, id, rule) = [d EXCEPT !.profiles = Q]
  BY DEF with_rule, WithRules
<1> HIDE DEF Edited
<1>3. new \in [DOMAIN d.profiles -> Seq(Rule)]
  BY <1>1, <1>2
<1>4. Q = profiles
  OBVIOUS
<1> HIDE DEF new
<1>6. [d EXCEPT !.profiles = profiles] \in Sensible
  BY <1>2, <1>3, NewRules
<1> HIDE DEF Q, profiles
<1>7. [d EXCEPT !.profiles = profiles].zone = d.zone
  BY <1>2 DEF Document
<1> QED BY <1>4, <1>5, <1>6, <1>7 DEF upsert_rule, Unless

LEMMA RemoveRuleType ==
  ASSUME NEW d \in Sensible, NEW id, NEW target
  PROVE  remove_rule(d, id, target) \in Sensible /\ remove_rule(d, id, target).zone = d.zone
<1> DEFINE Edited(rules) == Only(rules, {r \in Range(rules) : key(r.target) # key(target)})
           new == [i \in DOMAIN d.profiles |-> Edited(d.profiles[i].rules)]
           profiles == [i \in DOMAIN d.profiles |->
                          IF d.profiles[i].id = id THEN [d.profiles[i] EXCEPT !.rules = new[i]]
                                                   ELSE d.profiles[i]]
           Q == [i \in DOMAIN d.profiles |->
                   IF d.profiles[i].id = id
                   THEN [d.profiles[i] EXCEPT !.rules = Edited(d.profiles[i].rules)]
                   ELSE d.profiles[i]]
<1>1. \A rules \in Seq(Rule) : Edited(rules) \in Seq(Rule)
  BY OnlyKept
<1>2. d \in Document /\ \A i \in DOMAIN d.profiles : d.profiles[i].rules \in Seq(Rule)
  BY RulesOfItem DEF Sensible
<1>3. remove_rule(d, id, target) = [d EXCEPT !.profiles = Q]
  BY DEF remove_rule, WithRules
<1> HIDE DEF Edited
<1>4. new \in [DOMAIN d.profiles -> Seq(Rule)]
  BY <1>1, <1>2
<1>5. Q = profiles
  OBVIOUS
<1> HIDE DEF new
<1>6. [d EXCEPT !.profiles = profiles] \in Sensible
  BY <1>2, <1>4, NewRules
<1> HIDE DEF Q, profiles
<1>7. [d EXCEPT !.profiles = profiles].zone = d.zone
  BY <1>2 DEF Document
<1> QED BY <1>3, <1>5, <1>6, <1>7

LEMMA SetBlockedAppsType ==
  ASSUME NEW d \in Document, NEW id, NEW packages \in SUBSET STRING, IsFiniteSet(packages),
         \A p \in packages : [kind |-> "app_package", name |-> p] \in Targets
  PROVE  set_blocked_apps(d, id, packages) \in Document
<1> DEFINE Kept(rules, p) == {i \in DOMAIN rules : Picked(rules[i]) /\ rules[i].target.name = p
                                                    /\ rules[i].action.kind = "budget"}
           Chosen(rules, p) ==
             [target |-> [kind |-> "app_package", name |-> p],
              action |-> IF Kept(rules, p) = {} THEN [kind |-> "block"]
                         ELSE rules[Min(Kept(rules, p))].action,
              platforms |-> {}]
           Edited(rules) == Only(rules, {r \in Range(rules) : ~Picked(r)})
                              \o SetToSeq({Chosen(rules, p) : p \in packages})
           new == [i \in DOMAIN d.profiles |-> Edited(d.profiles[i].rules)]
           profiles == [i \in DOMAIN d.profiles |->
                          IF d.profiles[i].id = id THEN [d.profiles[i] EXCEPT !.rules = new[i]]
                                                   ELSE d.profiles[i]]
           Q == [i \in DOMAIN d.profiles |->
                   IF d.profiles[i].id = id
                   THEN [d.profiles[i] EXCEPT !.rules = Edited(d.profiles[i].rules)]
                   ELSE d.profiles[i]]
<1>3. set_blocked_apps(d, id, packages) = [d EXCEPT !.profiles = Q]
  BY DEF set_blocked_apps, WithRules
<1>1. ASSUME NEW rules \in Seq(Rule) PROVE Edited(rules) \in Seq(Rule)
  <2> DEFINE picked == {Chosen(rules, p) : p \in packages}
             f == [p \in packages |-> Chosen(rules, p)]
  <2>0. Len(rules) \in Nat /\ DOMAIN rules = 1..Len(rules)
    BY LenProperties
  <2>1. ASSUME NEW p \in packages PROVE Chosen(rules, p) \in Rule
    <3>1. [kind |-> "block"] \in Action
      BY DEF Action
    <3>2. ASSUME Kept(rules, p) # {} PROVE rules[Min(Kept(rules, p))].action \in Action
      <4>1. Kept(rules, p) \in SUBSET (0..Len(rules)) /\ Kept(rules, p) \in SUBSET Int
            /\ Kept(rules, p) \subseteq 1..Len(rules)
        BY <2>0
      <4> HIDE DEF Kept
      <4>2. Min(Kept(rules, p)) \in 1..Len(rules)
        BY <2>0, <3>2, <4>1, PlacesFinite, MinOf
      <4>3. rules[Min(Kept(rules, p))] \in Rule
        BY <4>2, ElementOfSeq
      <4> QED BY <4>3 DEF Rule
    <3> HIDE DEF Kept
    <3> QED BY <3>1, <3>2 DEF Rule
  <2> HIDE DEF Chosen
  <2>2. picked \in SUBSET Rule
    BY <2>1
  <2>3. {f[p] : p \in packages} = picked /\ DOMAIN f = packages
    OBVIOUS
  <2> HIDE DEF f, picked
  <2>4. IsFiniteSet(picked)
    <3>1. IsFiniteSet({f[p] : p \in packages})
      BY <2>3, ImageFinite
    <3> QED BY <2>3, <3>1
  <2>5. SetToSeq(picked) \in Seq(Rule)
    BY <2>2, <2>4, SetToSeqType
  <2>6. Only(rules, {r \in Range(rules) : ~Picked(r)}) \in Seq(Rule)
    BY OnlyKept
  <2> QED BY <2>5, <2>6, ConcatProperties DEF picked
<1>2. \A i \in DOMAIN d.profiles : d.profiles[i].rules \in Seq(Rule)
  BY RulesOfItem
<1> HIDE DEF Edited
<1>4. new \in [DOMAIN d.profiles -> Seq(Rule)]
  BY <1>1, <1>2
<1>5. Q = profiles
  OBVIOUS
<1> HIDE DEF new
<1>6. [d EXCEPT !.profiles = profiles] \in Document
  BY <1>4, NewRules
<1> QED BY <1>3, <1>5, <1>6

\* The other edits.
LEMMA UpsertProfileType ==
  ASSUME NEW d \in Sensible, NEW id \in Profiles, NEW name \in STRING
  PROVE  LET e == upsert_profile(d, id, name) IN e \in Sensible /\ e.zone = d.zone
<1> DEFINE item == [id |-> id, name |-> name, rules |-> RuleList(d, id)]
<1>1. d \in Document /\ d.profiles \in Seq(Profile)
  BY DocumentParts DEF Sensible
<1>2. item \in Profile
  BY <1>1, RulesTyped DEF Profile
<1> HIDE DEF item
<1>3. Put(d.profiles, item) \in Seq(Profile)
  BY <1>1, <1>2, PutType
<1>4. with_profile(d, id, name) = [d EXCEPT !.profiles = Put(d.profiles, item)]
  BY DEF with_profile, item
<1>5. with_profile(d, id, name) \in Document /\ with_profile(d, id, name).zone = d.zone
  BY <1>1, <1>3, <1>4, NewParts
<1>6. ASSUME NEW e, validate(e) PROVE NoTwice(e.profiles)
  BY <1>6 DEF validate
<1> QED BY <1>5, <1>6 DEF upsert_profile, Unless, Sensible

LEMMA RemoveProfileType ==
  ASSUME NEW d \in Sensible, NEW id
  PROVE  LET e == remove_profile(d, id) IN e \in Sensible /\ e.zone = d.zone
<1>1. d \in Document /\ d.profiles \in Seq(Profile) /\ NoTwice(d.profiles)
  BY DocumentParts DEF Sensible
<1>2. Drop(d.profiles, id) \in Seq(Profile) /\ NoTwice(Drop(d.profiles, id))
  BY <1>1, DropKept
<1>3. LET e == [d EXCEPT !.profiles = Drop(d.profiles, id)] IN e \in Sensible /\ e.zone = d.zone
  BY <1>1, <1>2, NewParts DEF Sensible
<1> QED BY <1>3 DEF remove_profile

LEMMA ScheduleEditTypes ==
  ASSUME NEW d \in Sensible
  PROVE  /\ \A w \in Weekly : upsert_weekly(d, w) \in Sensible /\ upsert_weekly(d, w).profiles = d.profiles
         /\ \A c \in CalendarRule :
              upsert_calendar(d, c) \in Sensible /\ upsert_calendar(d, c).profiles = d.profiles
         /\ \A id : remove_weekly(d, id) \in Sensible /\ remove_weekly(d, id).profiles = d.profiles
         /\ \A id : remove_calendar(d, id) \in Sensible /\ remove_calendar(d, id).profiles = d.profiles
<1>1. d \in Document /\ NoTwice(d.profiles) /\ d.weekly \in Seq(Weekly) /\ d.calendars \in Seq(CalendarRule)
  BY DocumentParts DEF Sensible
<1>2. ASSUME NEW w \in Weekly
      PROVE  upsert_weekly(d, w) \in Sensible /\ upsert_weekly(d, w).profiles = d.profiles
  <2>1. Put(d.weekly, w) \in Seq(Weekly)
    BY <1>1, PutType
  <2>2. with_weekly(d, w) = d \/ with_weekly(d, w) = [d EXCEPT !.weekly = Put(d.weekly, w)]
    BY DEF with_weekly
  <2> DEFINE e == [d EXCEPT !.weekly = Put(d.weekly, w)]
  <2>4. e \in Document /\ e.profiles = d.profiles
    BY <1>1, <2>1, NewParts
  <2> HIDE DEF e
  <2>3. with_weekly(d, w) \in Document /\ with_weekly(d, w).profiles = d.profiles
    BY <1>1, <2>2, <2>4 DEF e
  <2> QED BY <1>1, <2>3 DEF upsert_weekly, Unless, Sensible
<1>3. ASSUME NEW c \in CalendarRule
      PROVE  upsert_calendar(d, c) \in Sensible /\ upsert_calendar(d, c).profiles = d.profiles
  <2>1. Put(d.calendars, c) \in Seq(CalendarRule)
    BY <1>1, PutType
  <2>2. with_calendar(d, c) = [d EXCEPT !.calendars = Put(d.calendars, c)]
    BY DEF with_calendar
  <2>3. with_calendar(d, c) \in Document /\ with_calendar(d, c).profiles = d.profiles
    BY <1>1, <2>1, <2>2, NewParts
  <2> QED BY <1>1, <2>3 DEF upsert_calendar, Unless, Sensible
<1>4. ASSUME NEW id
      PROVE  remove_weekly(d, id) \in Sensible /\ remove_weekly(d, id).profiles = d.profiles
  <2>1. Drop(d.weekly, id) \in Seq(Weekly)
    BY <1>1, DropKept
  <2>2. remove_weekly(d, id) = [d EXCEPT !.weekly = Drop(d.weekly, id)]
    BY DEF remove_weekly
  <2> DEFINE e == [d EXCEPT !.weekly = Drop(d.weekly, id)]
  <2>3. e \in Document /\ e.profiles = d.profiles
    BY <1>1, <2>1, NewParts
  <2> HIDE DEF e
  <2> QED BY <1>1, <2>2, <2>3 DEF Sensible, e
<1>5. ASSUME NEW id
      PROVE  remove_calendar(d, id) \in Sensible /\ remove_calendar(d, id).profiles = d.profiles
  <2>1. Drop(d.calendars, id) \in Seq(CalendarRule)
    BY <1>1, DropKept
  <2>2. remove_calendar(d, id) = [d EXCEPT !.calendars = Drop(d.calendars, id)]
    BY DEF remove_calendar
  <2> DEFINE e == [d EXCEPT !.calendars = Drop(d.calendars, id)]
  <2>3. e \in Document /\ e.profiles = d.profiles
    BY <1>1, <2>1, NewParts
  <2> HIDE DEF e
  <2> QED BY <1>1, <2>2, <2>3 DEF Sensible, e
<1> QED BY <1>2, <1>3, <1>4, <1>5

-----------------------------------------------------------------------------
(***************************************************************************)
(* A document that still answers every rule of a profile decides nothing   *)
(* more easily for it.                                                     *)
(***************************************************************************)
Answers(c, d, p) ==
  \A r \in RulesOf(c, p) : \E q \in RulesOf(d, p) :
    key(q.target) = key(r.target) /\ q.platforms = r.platforms /\ q.action = r.action

LEMMA UnweakenedAnswers ==
  ASSUME NEW c, NEW d \in Document, NEW p, rules_weakened_by(c, d, p) = {}
  PROVE  Answers(c, d, p)
<1> SUFFICES ASSUME NEW r \in RulesOf(c, p)
             PROVE  \E q \in RulesOf(d, p) : /\ key(q.target) = key(r.target)
                                             /\ q.platforms = r.platforms /\ q.action = r.action
  BY DEF Answers
<1> DEFINE after == RuleList(d, p)
<1>1. PICK i \in Answering(after, r) : after[i].action = r.action
  BY DEF rules_weakened_by
<1>2. i \in DOMAIN after /\ key(after[i].target) = key(r.target) /\ after[i].platforms = r.platforms
  BY DEF Answering
<1>3. after[i] \in RulesOf(d, p)
  BY <1>2, RulesTyped DEF Range
<1> QED BY <1>1, <1>2, <1>3

LEMMA SameAnswers == ASSUME NEW c, NEW d, NEW p, d.profiles = c.profiles PROVE Answers(c, d, p)
BY DEF Answers, RulesOf

\* A profile that is renamed keeps its rules, and so do the others.
LEMMA RenamedAnswers ==
  ASSUME NEW c \in Sensible, NEW id \in Profiles, NEW name \in STRING, NEW p
  PROVE  Answers(c, upsert_profile(c, id, name), p)
<1> DEFINE item == [id |-> id, name |-> name, rules |-> RuleList(c, id)]
           list == c.profiles
           at == Places(list, item.id)
           next == Put(list, item)
           d == [c EXCEPT !.profiles = next]
<1>1. c \in Document /\ list \in Seq(Profile) /\ NoTwice(list) /\ Len(list) \in Nat
      /\ DOMAIN list = 1..Len(list)
  BY DocumentParts, LenProperties DEF Sensible
<1>2. item \in Profile /\ item.id = id
  BY <1>1, RulesTyped DEF Profile
<1>3. next \in Seq(Profile) /\ (at # {} => Min(at) \in at /\ next = [list EXCEPT ![Min(at)] = item])
  <2>1. next \in Seq(Profile)
    BY <1>1, <1>2, PutType
  <2>2. at # {} => Min(at) \in at
    BY <1>1, FirstPlace
  <2>3. at # {} => next = [list EXCEPT ![Min(at)] = item]
    BY DEF Put, Places
  <2> QED BY <2>1, <2>2, <2>3
<1>4. ASSUME NEW r \in RulesOf(c, p) PROVE r \in RulesOf(d, p)
  <2>1. PICK i \in DOMAIN list : list[i].id = p /\ r \in Range(list[i].rules)
    BY DEF RulesOf, ById
  <2>2. d.profiles = next
    BY <1>1, <1>3, NewParts
  <2>3. \A q \in Range(next) : q.id = p => Range(q.rules) \subseteq RulesOf(d, p)
    <3>1. \A j \in DOMAIN next : next[j].id = p => next[j] \in ById(next, p)
      BY DEF ById
    <3> QED BY <2>2, <3>1 DEF RulesOf, Range
  <2> HIDE DEF next, d, at
  <2>4. CASE p = id
    <3>1. item \in Range(next)
      <4>1. at # {}
        BY <2>1, <2>4 DEF at, Places
      <4>2. Min(at) \in DOMAIN list /\ next = [list EXCEPT ![Min(at)] = item]
        BY <1>3, <4>1 DEF at, Places
      <4>3. next[Min(at)] = item /\ Min(at) \in DOMAIN next
        BY <4>2
      <4> QED BY <4>3 DEF Range
    <3>2. r \in Range(RuleList(c, id))
      BY <2>4, RulesAreListed
    <3> QED BY <1>2, <2>3, <2>4, <3>1, <3>2
  <2>5. CASE p # id
    <3>1. list[i] \in Range(next)
      <4>1. CASE at = {}
        <5>1. next = Append(list, item)
          BY <4>1 DEF next, Put, at, Places
        <5>2. next[i] = list[i] /\ i \in DOMAIN next
          <6>1. Len(next) = Len(list) + 1 /\ next[i] = list[i]
            BY <1>1, <1>2, <5>1, AppendProperties
          <6>2. DOMAIN next = 1..Len(next)
            BY <1>3, LenProperties
          <6> QED BY <1>1, <6>1, <6>2
        <5> QED BY <5>2 DEF Range
      <4>2. CASE at # {}
        <5>1. Min(at) \in at /\ next = [list EXCEPT ![Min(at)] = item]
          BY <1>3, <4>2
        <5>4. Min(at) \in DOMAIN list
          BY <5>1 DEF at, Places
        <5>2. i # Min(at)
          BY <1>2, <2>1, <2>5, <5>1 DEF at, Places
        <5>3. next[i] = list[i] /\ i \in DOMAIN next
          BY <5>1, <5>2
        <5> QED BY <5>3 DEF Range
      <4> QED BY <4>1, <4>2
    <3> QED BY <2>1, <2>3, <3>1
  <2> QED BY <2>4, <2>5
<1>5. Answers(c, d, p)
  BY <1>4 DEF Answers
<1>6. with_profile(c, id, name) = d
  BY DEF with_profile
<1> HIDE DEF d
<1>7. upsert_profile(c, id, name) = d \/ upsert_profile(c, id, name) = c
  BY <1>6 DEF upsert_profile, Unless
<1> QED BY <1>5, <1>7, SameAnswers

LEMMA DelaysOf ==
  ASSUME NEW rules \in SUBSET Rule, IsFiniteSet(rules), NEW obs
  PROVE  LET delays == {r.action.seconds : r \in Hits(rules, obs, "delay")}
         IN  IsFiniteSet(delays) /\ delays \in SUBSET Int
<1> DEFINE hits == Hits(rules, obs, "delay")
           f == [r \in hits |-> r.action.seconds]
           delays == {r.action.seconds : r \in hits}
<1>1. hits \in SUBSET rules /\ \A r \in hits : r.action \in Action /\ r.action.kind = "delay"
  BY DEF Hits, Rule
<1>2. \A r \in hits : r.action.seconds \in Int
  BY <1>1 DEF Action
<1> HIDE DEF hits
<1>3. IsFiniteSet(hits)
  BY <1>1, FS_Subset
<1>4. {f[r] : r \in hits} = delays /\ DOMAIN f = hits
  OBVIOUS
<1>5. delays \in SUBSET Int
  BY <1>2
<1> HIDE DEF f, delays
<1>6. IsFiniteSet({f[r] : r \in hits})
  BY <1>3, <1>4, ImageFinite
<1> QED BY <1>4, <1>5, <1>6 DEF delays, hits

LEMMA LongestWaitIs ==
  ASSUME NEW delays \in SUBSET Int, IsFiniteSet(delays)
  PROVE  \/ delays = {} /\ LongestWait(delays) = Allow
         \/ /\ LongestWait(delays).kind = "delay"
            /\ LongestWait(delays).seconds \in delays
            /\ \A n \in delays : LongestWait(delays).seconds >= n
BY MaxOf DEF LongestWait, Allow, Delay

\* More rules, none of them an allowance that is new, are no easier.
LEMMA MoreIsStricter ==
  ASSUME NEW old \in SUBSET Rule, NEW new \in SUBSET Rule, IsFiniteSet(old), IsFiniteSet(new),
         \A r \in old : \E q \in new : key(q.target) = key(r.target) /\ q.action = r.action,
         \A q \in new : q.action.kind = "allow_only" =>
           \E r \in old : r.action.kind = "allow_only" /\ r.target = q.target,
         NEW at, NEW state, NEW obs, NEW zone
  PROVE  AsStrict(Judged(at, state, obs, zone, new), Judged(at, state, obs, zone, old))
<1>1. ASSUME NEW t, NEW u, key(t) = key(u) PROVE matches(t, obs) <=> matches(u, obs)
  BY <1>1 DEF matches, key
<1>2. ASSUME NEW k, NEW r \in Hits(old, obs, k)
      PROVE  \E q \in Hits(new, obs, k) : q.action = r.action
  BY <1>1, <1>2 DEF Hits
<1>3. ASSUME NEW r \in old, matches(r.target, obs), Exhausted(at, state, r, zone)
      PROVE  \E q \in new : matches(q.target, obs) /\ Exhausted(at, state, q, zone)
  <2>1. PICK q \in new : key(q.target) = key(r.target) /\ q.action = r.action
    OBVIOUS
  <2>2. Exhausted(at, state, q, zone)
    BY <1>3, <2>1 DEF Exhausted
  <2> QED BY <1>1, <1>3, <2>1, <2>2
<1>4. ASSUME \E r \in old : r.action.kind = "allow_only", Hits(old, obs, "allow_only") = {}
      PROVE  (\E q \in new : q.action.kind = "allow_only") /\ Hits(new, obs, "allow_only") = {}
  BY <1>4 DEF Hits
<1> DEFINE Was == {r.action.seconds : r \in Hits(old, obs, "delay")}
           Is == {r.action.seconds : r \in Hits(new, obs, "delay")}
<1>5. /\ IsFiniteSet(Was) /\ Was \in SUBSET Int /\ IsFiniteSet(Is) /\ Is \in SUBSET Int
      /\ Was \subseteq Is
  <2>1. IsFiniteSet(Was) /\ Was \in SUBSET Int
    <3> HIDE DEF Was
    <3> QED BY DelaysOf DEF Was
  <2>2. IsFiniteSet(Is) /\ Is \in SUBSET Int
    <3> HIDE DEF Is
    <3> QED BY DelaysOf DEF Is
  <2>3. Was \subseteq Is
    BY <1>2
  <2> QED BY <2>1, <2>2, <2>3
<1> HIDE DEF Was, Is
<1>6. AsStrict(LongestWait(Is), LongestWait(Was))
  <2>1. Allow.kind = "allow"
    BY DEF Allow
  <2>2. CASE Was = {}
    BY <1>5, <2>1, <2>2, LongestWaitIs DEF AsStrict
  <2>3. CASE Was # {}
    <3>1. Is # {}
      BY <1>5, <2>3
    <3>2. LongestWait(Was).kind = "delay" /\ LongestWait(Was).seconds \in Is
      BY <1>5, <2>3, LongestWaitIs
    <3>3. LongestWait(Is).kind = "delay" /\ \A n \in Is : LongestWait(Is).seconds >= n
      BY <1>5, <3>1, LongestWaitIs
    <3>4. LongestWait(Is).seconds \in Int /\ LongestWait(Was).seconds \in Int
      BY <1>5, <3>1, <3>2, LongestWaitIs
    <3>5. LongestWait(Was).seconds <= LongestWait(Is).seconds
      BY <3>2, <3>3, <3>4
    <3> QED BY <3>2, <3>3, <3>5 DEF AsStrict
  <2> QED BY <2>2, <2>3
<1>7. AsStrict(Block, LongestWait(Was)) /\ AsStrict(Block, Block) /\ AsStrict(Allow, Allow)
      /\ AsStrict(Mute, Mute) /\ AsStrict(Mute, Allow)
  BY DEF AsStrict, Allow, Block, Mute
<1>8. CASE obs.kind = "idle"
  BY <1>7, <1>8 DEF Judged
<1>9. CASE obs.kind = "notification"
  <2>1. Hits(old, obs, "block") \cup Hits(old, obs, "mute_notifications") # {}
          => Hits(new, obs, "block") \cup Hits(new, obs, "mute_notifications") # {}
    BY <1>2
  <2> QED BY <1>7, <1>9, <2>1 DEF Judged
<1>10. CASE obs.kind # "idle" /\ obs.kind # "notification"
  <2> DEFINE Hard(rules) ==
               \/ Hits(rules, obs, "block") # {}
               \/ \E r \in rules : matches(r.target, obs) /\ Exhausted(at, state, r, zone)
               \/ (\E r \in rules : r.action.kind = "allow_only") /\ Hits(rules, obs, "allow_only") = {}
  <2>1. Hard(old) => Hard(new)
    BY <1>2, <1>3, <1>4
  <2>2. /\ Judged(at, state, obs, zone, new) = IF Hard(new) THEN Block ELSE LongestWait(Is)
        /\ Judged(at, state, obs, zone, old) = IF Hard(old) THEN Block ELSE LongestWait(Was)
    BY <1>10 DEF Judged, Is, Was
  <2> HIDE DEF Hard
  <2> QED BY <1>6, <1>7, <2>1, <2>2
<1> QED BY <1>8, <1>9, <1>10

LEMMA AnswersStrict ==
  ASSUME NEW c \in Document, NEW d \in Document, NEW p, Answers(c, d, p), d.zone = c.zone,
         AllowsOnly(d, p) \subseteq AllowsOnly(c, p), NEW used, NEW obs
  PROVE  AsStrict(AnswerOf(d, p, used, obs), AnswerOf(c, p, used, obs))
<1> DEFINE Here(doc) == {r \in RulesOf(doc, p) : applies_to(r, "android")}
           state == World({p}, used)
<1>1. ASSUME NEW doc PROVE {pr[2] : pr \in InForce(state, doc)} = Here(doc)
  <2>1. InForce(state, doc) = {pr \in {p} \X RulesOf(doc, p) : applies_to(pr[2], "android")}
    BY DEF InForce, World
  <2>2. \A r \in RulesOf(doc, p) : <<p, r>> \in {p} \X RulesOf(doc, p) /\ <<p, r>>[2] = r
    OBVIOUS
  <2>3. \A pr \in {p} \X RulesOf(doc, p) : pr[2] \in RulesOf(doc, p)
    OBVIOUS
  <2>4. Here(doc) \subseteq {pr[2] : pr \in InForce(state, doc)}
    <3> HIDE DEF state
    <3> SUFFICES ASSUME NEW r \in Here(doc) PROVE \E pr \in InForce(state, doc) : pr[2] = r
      OBVIOUS
    <3>1. <<p, r>> \in InForce(state, doc) /\ <<p, r>>[2] = r
      BY <2>1, <2>2
    <3> QED BY <3>1
  <2>5. {pr[2] : pr \in InForce(state, doc)} \subseteq Here(doc)
    BY <2>1, <2>3
  <2> QED BY <2>4, <2>5
<1>2. Here(c) \in SUBSET Rule /\ IsFiniteSet(Here(c)) /\ Here(d) \in SUBSET Rule /\ IsFiniteSet(Here(d))
  BY RulesTyped, FS_Subset
<1>3. ASSUME NEW r \in Here(c)
      PROVE  \E q \in Here(d) : key(q.target) = key(r.target) /\ q.action = r.action
  BY DEF Answers, applies_to
<1>4. ASSUME NEW q \in Here(d), q.action.kind = "allow_only"
      PROVE  \E r \in Here(c) : r.action.kind = "allow_only" /\ r.target = q.target
  BY <1>4 DEF AllowsOnly
<1> HIDE DEF Here, state
<1>5. AsStrict(Judged(now, state, obs, d.zone, Here(d)), Judged(now, state, obs, c.zone, Here(c)))
  BY <1>2, <1>3, <1>4, MoreIsStricter
<1> QED BY <1>1, <1>5 DEF AnswerOf, decide, state

-----------------------------------------------------------------------------
(***************************************************************************)
(* The documents the phone has: the one it goes by, the one that is        *)
(* written, and those that screens have made.                              *)
(***************************************************************************)
Rows == {"config", "sessions", "passes", "boots", "releases", "reconcile"}

DocumentInv ==
  /\ story \in Stories
  /\ config \in Sensible /\ draft \subseteq Document
  /\ DOMAIN disk = {"config", "sessions", "passes", "boots", "releases", "log"}
  /\ disk.config \in Sensible
  /\ pending \in Seq(Rows)
  /\ DOMAIN history = {"checked", "born", "boot", "spent", "taken", "deaths"}
  /\ history.deaths \in Nat

LEMMA StoryParts ==
  ASSUME NEW s \in Stories
  PROVE  /\ s.config \in Sensible
         /\ s.edits \subseteq Edits
         /\ \A e \in s.edits : e.op = "apps" =>
              /\ IsFiniteSet(e.packages)
              /\ \A p \in e.packages : [kind |-> "app_package", name |-> p] \in Targets
BY AndroidAssumption DEF Story, Sensible, validate

LEMMA EditParts ==
  ASSUME NEW e \in Edits
  PROVE  /\ e.op = "rule" => e.rule \in Rule
         /\ e.op = "profile" => e.id \in Profiles /\ e.name \in STRING
         /\ e.op = "weekly" => e.window \in Weekly
         /\ e.op = "calendar" => e.rule \in CalendarRule
         /\ e.op = "apps" => e.packages \in SUBSET STRING
         /\ e.op = "document" => e.config \in Document
BY DEF Edits

\* What a step may make of the document.
Edited ==
  /\ config' \in Sensible /\ draft' \subseteq Document
  /\ config' # config =>
       \/ history'.deaths # history.deaths
       \/ \A s \in sessions.running : Answers(config, config', s.profile)

LEMMA RunningAnswers ==
  ASSUME NEW d \in Document, Unweakened(d)
  PROVE  \A s \in sessions.running : Answers(config, d, s.profile)
<1> SUFFICES ASSUME NEW s \in sessions.running PROVE Answers(config, d, s.profile)
  OBVIOUS
<1>1. rules_weakened_by(config, d, s.profile) = {}
  BY DEF Unweakened, weakening_a_running_session, RunningProfiles
<1> QED BY <1>1, UnweakenedAnswers

LEMMA EditKeeps ==
  ASSUME DocumentInv, Edit PROVE Edited /\ UNCHANGED <<story, disk, history>> /\ pending' \in Seq(Rows)
<1>0. config \in Sensible /\ draft \subseteq Document /\ story \in Stories /\ pending \in Seq(Rows)
  BY DEF DocumentInv
<1>1. PICK e \in story.edits :
        \/ UpsertRule(e) \/ RemoveRule(e) \/ UpsertProfile(e) \/ RemoveProfile(e)
        \/ UpsertWeekly(e) \/ RemoveWeekly(e) \/ UpsertCalendar(e) \/ RemoveCalendar(e) \/ Draft(e)
  BY DEF Edit
<1>2. e \in Edits
  BY <1>0, StoryParts
<1>3. Committed \in Seq(Rows)
  BY DEF Committed, Persisted, Rows
<1>4. ASSUME NEW d \in Sensible, Adopt(d, Committed),
             \A s \in sessions.running : Answers(config, d, s.profile)
      PROVE  Edited /\ UNCHANGED <<story, disk, history>> /\ pending' \in Seq(Rows)
  BY <1>0, <1>3, <1>4 DEF Adopt, Edited, Enter, outside
<1>5. CASE UpsertRule(e)
  <2> DEFINE d == upsert_rule(config, e.profile, e.rule)
  <2>1. d \in Sensible /\ Unweakened(d) /\ Adopt(d, Committed)
    BY <1>0, <1>2, <1>5, EditParts, UpsertRuleType DEF UpsertRule
  <2> HIDE DEF d
  <2> QED BY <1>4, <2>1, RunningAnswers DEF Sensible
<1>6. CASE RemoveRule(e)
  <2> DEFINE d == remove_rule(config, e.profile, e.target)
  <2>1. d \in Sensible /\ Unweakened(d) /\ Adopt(d, Committed)
    BY <1>0, <1>6, RemoveRuleType DEF RemoveRule
  <2> HIDE DEF d
  <2> QED BY <1>4, <2>1, RunningAnswers DEF Sensible
<1>7. CASE RemoveProfile(e)
  <2> DEFINE d == remove_profile(config, e.id)
  <2>1. d \in Sensible /\ Unweakened(d) /\ Adopt(d, Committed)
    BY <1>0, <1>7, RemoveProfileType DEF RemoveProfile
  <2> HIDE DEF d
  <2> QED BY <1>4, <2>1, RunningAnswers DEF Sensible
<1>8. CASE UpsertProfile(e)
  <2> DEFINE d == upsert_profile(config, e.id, e.name)
  <2>1. d \in Sensible /\ Adopt(d, Committed)
    BY <1>0, <1>2, <1>8, EditParts, UpsertProfileType DEF UpsertProfile
  <2>2. \A s \in sessions.running : Answers(config, d, s.profile)
    BY <1>0, <1>2, <1>8, EditParts, RenamedAnswers DEF UpsertProfile
  <2> HIDE DEF d
  <2> QED BY <1>4, <2>1, <2>2
<1>9. CASE UpsertWeekly(e) \/ RemoveWeekly(e) \/ UpsertCalendar(e) \/ RemoveCalendar(e)
  <2>1. PICK d \in Sensible : d.profiles = config.profiles /\ Adopt(d, Committed)
    BY <1>0, <1>2, <1>9, EditParts, ScheduleEditTypes
       DEF UpsertWeekly, RemoveWeekly, UpsertCalendar, RemoveCalendar
  <2> QED BY <1>4, <2>1, SameAnswers
<1>10. CASE Draft(e)
  <2>1. CASE e.op = "apps"
    <3>1. set_blocked_apps(config, e.profile, e.packages) \in Document
      BY <1>0, <1>2, <2>1, StoryParts, EditParts, SetBlockedAppsType DEF Sensible
    <3>2. draft' = {set_blocked_apps(config, e.profile, e.packages)}
      BY <1>10, <2>1 DEF Draft
    <3> QED BY <1>0, <1>10, <3>1, <3>2 DEF Draft, Edited, memory, outside
  <2>2. CASE e.op = "document"
    <3>1. draft' = {e.config}
      BY <1>10, <2>2 DEF Draft
    <3> QED BY <1>0, <1>2, <1>10, <2>2, <3>1, EditParts DEF Draft, Edited, memory, outside
  <2> QED BY <1>10, <2>1, <2>2 DEF Draft
<1> QED BY <1>1, <1>5, <1>6, <1>7, <1>8, <1>9, <1>10

LEMMA SetConfigKeeps ==
  ASSUME DocumentInv, SetConfig
  PROVE  Edited /\ UNCHANGED <<story, disk, history>> /\ pending' \in Seq(Rows)
<1>0. config \in Sensible /\ draft \subseteq Document /\ pending \in Seq(Rows)
  BY DEF DocumentInv
<1>1. draft' = {} /\ UNCHANGED <<story, disk, history>>
  BY DEF SetConfig, outside
<1>2. CASE UNCHANGED <<config, pending, acts>>
  BY <1>0, <1>1, <1>2 DEF Edited
<1>3. CASE (\A d \in draft : validate(d) /\ Unweakened(d)) /\ config' \in draft /\ pending' = <<"config">>
  <2>1. config' \in Document /\ validate(config') /\ Unweakened(config')
    BY <1>0, <1>3
  <2>2. NoTwice(config'.profiles)
    BY <2>1 DEF validate
  <2>3. \A s \in sessions.running : Answers(config, config', s.profile)
    BY <2>1, RunningAnswers
  <2> QED BY <1>1, <1>3, <2>1, <2>2, <2>3 DEF Edited, Sensible, Rows
<1> QED BY <1>2, <1>3 DEF SetConfig

\* The calls that leave the document alone: what they may do to the rest.
Beside ==
  /\ UNCHANGED <<story, config, draft>>
  /\ DOMAIN disk' = DOMAIN disk /\ disk'.config \in {disk.config, config}
  /\ pending' \in Seq(Rows)
  /\ DOMAIN history' = DOMAIN history /\ history'.deaths = history.deaths

Calls ==
  \/ Clock \/ Observe \/ WriteBoots \/ Tick \/ Put_ \/ RefuseConfig
  \/ \E ask \in story.asks : StartSession(ask)
  \/ \E id \in Known :
       \/ \E claimed \in {{}, Claimable, Conditions} : EndSession(id, claimed)
       \/ RecordCredential(id) \/ ReleasePeer(id) \/ RequestTheRelease(id) \/ SpendPass(id)
       \/ \E payload \in {t.id : t \in Range(config.tokens)} \cup {"unknown"} : ScanToken(id, payload)
       \/ \E device \in Range(ReleasedBy) \ {Me} : PeerReleases(id, device)
  \/ SyncPublish \/ SyncAdopt \/ SyncTell \/ SyncKnow \/ SyncRation \/ SyncSave \/ SyncPersist

\* A row that is written, and nothing beside it.
LEMMA PutParts ==
  ASSUME DocumentInv, Put_
  PROVE  /\ Head(pending) \in Rows /\ pending' \in Seq(Rows)
         /\ UNCHANGED <<story, uptime, now, acts, config, draft, proofs, releases, released, boots,
                        counter, sync, log>>
         /\ IF Head(pending) = "reconcile" THEN Reconciled({}) ELSE UNCHANGED <<sessions, source, history>>
         /\ DOMAIN disk' = DOMAIN disk
         /\ disk'.config \in {disk.config, config}
         /\ disk'.sessions = IF Head(pending) = "sessions" THEN [running |-> sessions, source |-> source]
                             ELSE disk.sessions
         /\ disk'.boots \in {disk.boots, [seen |-> boots, counter |-> counter]}
         /\ disk'.log = disk.log
<1>1. /\ pending # <<>> /\ pending' = Tail(pending)
      /\ UNCHANGED <<story, uptime, now, acts, config, draft, proofs, releases, released, boots, counter,
                     sync, log>>
      /\ IF Head(pending) = "reconcile" THEN Reconciled({}) ELSE UNCHANGED <<sessions, source, history>>
      /\ disk' = CASE Head(pending) = "config" -> [disk EXCEPT !.config = config]
                [] Head(pending) = "sessions" ->
                     [disk EXCEPT !.sessions = [running |-> sessions, source |-> source]]
                [] Head(pending) = "passes" -> [disk EXCEPT !.passes = passes]
                [] Head(pending) = "boots" -> [disk EXCEPT !.boots = [seen |-> boots, counter |-> counter]]
                [] Head(pending) = "releases" -> [disk EXCEPT !.releases = releases]
                [] Head(pending) = "reconcile" -> disk
  BY DEF Put_, outside
<1>2. Head(pending) \in Rows /\ Tail(pending) \in Seq(Rows)
  BY <1>1 DEF DocumentInv
<1>3. DOMAIN disk = {"config", "sessions", "passes", "boots", "releases", "log"}
  BY DEF DocumentInv
<1>4. /\ DOMAIN disk' = DOMAIN disk
      /\ disk'.config \in {disk.config, config}
      /\ disk'.sessions = IF Head(pending) = "sessions" THEN [running |-> sessions, source |-> source]
                          ELSE disk.sessions
      /\ disk'.boots \in {disk.boots, [seen |-> boots, counter |-> counter]}
      /\ disk'.log = disk.log
  BY <1>1, <1>2, <1>3 DEF Rows
<1> QED BY <1>1, <1>2, <1>4

LEMMA CallsBeside == ASSUME DocumentInv, Calls PROVE Beside
<1>0. pending \in Seq(Rows) /\ Persisted \in Seq(Rows) /\ <<"releases">> \o Persisted \in Seq(Rows)
      /\ <<>> \in Seq(Rows)
      /\ DOMAIN disk = {"config", "sessions", "passes", "boots", "releases", "log"}
      /\ DOMAIN history = {"checked", "born", "boot", "spent", "taken", "deaths"}
  BY DEF DocumentInv, Persisted, Rows
<1>1. CASE Clock \/ RefuseConfig
  BY <1>0, <1>1 DEF Clock, RefuseConfig, Beside, memory, outside
<1>2. CASE Observe \/ WriteBoots
  BY <1>0, <1>2 DEF Observe, WriteBoots, Beside, outside
<1>3. CASE Tick
  BY <1>0, <1>3 DEF Tick, Reconciled, Enter, Beside, outside
<1>4. CASE Put_
  <2>1. DOMAIN history' = DOMAIN history /\ history'.deaths = history.deaths
    BY <1>0, <1>4, PutParts DEF Reconciled
  <2> QED BY <1>4, <2>1, PutParts DEF Beside
<1>5. ASSUME NEW ask \in story.asks, StartSession(ask) PROVE Beside
  BY <1>0, <1>5 DEF StartSession, Enter, Undisturbed, Beside, outside
<1>6. ASSUME NEW id, NEW claimed, EndSession(id, claimed) PROVE Beside
  BY <1>0, <1>6 DEF EndSession, Enter, Undisturbed, Beside, outside
<1>7. ASSUME NEW id, RecordCredential(id) PROVE Beside
  BY <1>0, <1>7 DEF RecordCredential, Checked, Enter, Undisturbed, Beside, outside
<1>8. ASSUME NEW id, ReleasePeer(id) \/ RequestTheRelease(id) \/ SpendPass(id) PROVE Beside
  BY <1>0, <1>8 DEF ReleasePeer, RequestTheRelease, SpendPass, Enter, Undisturbed, Beside, outside
<1>9. ASSUME NEW id, NEW payload, ScanToken(id, payload) PROVE Beside
  <2>1. /\ pending' \in {Persisted, <<>>} /\ UNCHANGED <<config, story, draft, disk>>
        /\ history' = history \/ history' = Checked(id, payload)
    BY <1>9 DEF ScanToken, Enter, Undisturbed, outside
  <2> QED BY <1>0, <2>1 DEF Checked, Beside
<1>10. ASSUME NEW id, NEW device, PeerReleases(id, device) PROVE Beside
  BY <1>0, <1>10 DEF PeerReleases, Beside, outside, memory
<1>11. CASE SyncPublish \/ SyncTell \/ SyncKnow \/ SyncRation \/ SyncSave \/ SyncPersist
  BY <1>0, <1>11 DEF SyncPublish, SyncTell, SyncKnow, SyncRation, SyncSave, SyncPersist, Enter, Beside,
                     outside, memory
<1>12. CASE SyncAdopt
  <2>1. UNCHANGED <<story, config, draft, disk, pending>>
    BY <1>12 DEF SyncAdopt, outside
  <2>2. DOMAIN history' = DOMAIN history /\ history'.deaths = history.deaths
    BY <1>0, <1>12 DEF SyncAdopt
  <2> QED BY <1>0, <2>1, <2>2 DEF Beside
<1> QED BY <1>1, <1>2, <1>3, <1>4, <1>5, <1>6, <1>7, <1>8, <1>9, <1>10, <1>11, <1>12 DEF Calls

LEMMA SeededType ==
  ASSUME NEW d \in Sensible
  PROVE  /\ Seeded(d) \in Sensible /\ Seeding(d) \in Seq(Rows)
         /\ Seeded(d) # d => d.profiles = <<>>
<1> DEFINE e == [d EXCEPT !.profiles = <<Starter>>]
<1>1. e \in Document /\ NoTwice(e.profiles)
  <2>1. <<Starter>> \in Seq(Profile)
    BY AndroidAssumption
  <2>2. e \in Document /\ e.profiles = <<Starter>>
    BY <2>1 DEF Sensible, Document
  <2> HIDE DEF e
  <2> QED BY <2>2 DEF NoTwice
<1>2. Committed \in Seq(Rows) /\ <<>> \in Seq(Rows)
  BY DEF Committed, Persisted, Rows
<1>3. Seeded(d) = d \/ (Seeded(d) = e /\ d.profiles = <<>>)
  BY DEF Seeded, Unless
<1> QED BY <1>1, <1>2, <1>3 DEF Sensible, Seeding

\* A document without a profile has no answers to lose.
LEMMA BareAnswers ==
  ASSUME NEW c, NEW d, NEW p, c.profiles = <<>> PROVE Answers(c, d, p)
BY DEF Answers, RulesOf, ById, Range

LEMMA KillKeeps ==
  ASSUME DocumentInv, NEW reboot \in BOOLEAN, Kill(reboot) PROVE DocumentInv' /\ Edited
<1>1. PICK d \in Readable : config' = Seeded(d) /\ pending' = Seeding(d)
  BY DEF Kill
<1>2. /\ UNCHANGED <<story, disk>> /\ draft' = {}
      /\ history' = [history EXCEPT !.deaths = @ + 1, !.boot = IF reboot THEN @ + 1 ELSE @]
  BY DEF Kill
<1>3. history'.deaths = history.deaths + 1 /\ DOMAIN history' = DOMAIN history
  BY <1>2 DEF DocumentInv
<1>4. d \in Sensible
  <2>1. Blank \in Sensible
    BY AndroidAssumption DEF Sensible, NoTwice
  <2> QED BY <1>1, <2>1 DEF Readable, DocumentInv
<1>5. config' \in Sensible /\ pending' \in Seq(Rows)
  BY <1>1, <1>4, SeededType
<1> QED BY <1>2, <1>3, <1>5 DEF DocumentInv, Edited

LEMMA RestoreKeeps ==
  ASSUME DocumentInv, RestoreAgain
  PROVE  Edited /\ UNCHANGED <<story, disk, history>> /\ pending' \in Seq(Rows)
<1>1. /\ config' = Seeded(config) /\ pending' = Seeding(config)
      /\ UNCHANGED <<story, draft, disk, history>>
  BY DEF RestoreAgain, Enter, outside
<1>2. config \in Sensible /\ draft \subseteq Document
  BY DEF DocumentInv
<1>3. \A s \in sessions.running : config' # config => Answers(config, config', s.profile)
  BY <1>1, <1>2, SeededType, BareAnswers
<1> QED BY <1>1, <1>2, <1>3, SeededType DEF Edited

LEMMA DocumentStep == ASSUME DocumentInv, Next PROVE DocumentInv' /\ Edited
<1>1. CASE Calls
  <2>1. Beside
    BY <1>1, CallsBeside
  <2> QED BY <2>1 DEF DocumentInv, Edited, Beside
<1>2. CASE Edit \/ SetConfig \/ RestoreAgain
  <2>1. Edited /\ UNCHANGED <<story, disk, history>> /\ pending' \in Seq(Rows)
    BY <1>2, EditKeeps, SetConfigKeeps, RestoreKeeps
  <2> QED BY <2>1 DEF DocumentInv, Edited
<1>3. CASE Kill(TRUE) \/ Kill(FALSE)
  BY <1>3, KillKeeps
<1> QED BY <1>1, <1>2, <1>3 DEF Next, Calls

THEOREM DocumentSafe == Spec => []DocumentInv
<1>1. ASSUME Init PROVE DocumentInv
  BY <1>1, StoryParts DEF Init, DocumentInv, Rows
<1>2. DocumentInv /\ UNCHANGED vars => DocumentInv'
  BY DEF vars, outside, memory, DocumentInv
<1> QED BY <1>1, <1>2, DocumentStep, PTL DEF Spec

(***************************************************************************)
(* refuse_weakening, lib.rs 164-186: whatever is edited and in whatever    *)
(* order, nothing that a running session's profile decides becomes easier. *)
(***************************************************************************)
THEOREM RulesAlwaysHold == Spec => RulesHold
<1> DEFINE Held ==
      \A s \in sessions.running :
        /\ config' # config
        /\ s.id \in RunningIds(sessions')
        /\ config'.zone = config.zone
        /\ AllowsOnly(config', s.profile) \subseteq AllowsOnly(config, s.profile)
        /\ history'.deaths = history.deaths
        => \A obs \in Observed, used \in Ledgers :
             AsStrict(AnswerOf(config', s.profile, used, obs), AnswerOf(config, s.profile, used, obs))
<1>1. ASSUME DocumentInv, Next PROVE Held
  <2> SUFFICES ASSUME NEW s \in sessions.running, config' # config, config'.zone = config.zone,
                      AllowsOnly(config', s.profile) \subseteq AllowsOnly(config, s.profile),
                      history'.deaths = history.deaths, NEW obs \in Observed, NEW used \in Ledgers
               PROVE  AsStrict(AnswerOf(config', s.profile, used, obs),
                               AnswerOf(config, s.profile, used, obs))
    OBVIOUS
  <2>1. Edited /\ config \in Document
    BY <1>1, DocumentStep DEF DocumentInv, Sensible
  <2>2. config' \in Document /\ Answers(config, config', s.profile)
    BY <2>1 DEF Edited, Sensible
  <2> QED BY <2>1, <2>2, AnswersStrict
<1>2. DocumentInv /\ [Next]_vars => [Held]_vars
  BY <1>1
<1> QED BY <1>2, DocumentSafe, PTL DEF Spec, RulesHold

-----------------------------------------------------------------------------
(***************************************************************************)
(* The windows of a plan: they end at some instant, and one of them last.  *)
(***************************************************************************)
LEMMA PairFinite == ASSUME NEW a, NEW b PROVE IsFiniteSet({a, b})
<1>1. IsFiniteSet({} \cup {a})
  BY FS_EmptySet, FS_AddElement
<1>2. IsFiniteSet({a} \cup {b})
  BY <1>1, FS_AddElement
<1>3. {a} \cup {b} = {a, b}
  OBVIOUS
<1> QED BY <1>2, <1>3

LEMMA OffsetType == ASSUME NEW zone \in Zones, NEW t \in Int PROVE OffsetAt(zone, t) \in Int
<1> DEFINE moved == {m \in DOMAIN zone : m <= t}
<1>1. IsFiniteSet(DOMAIN zone) /\ DOMAIN zone # {} /\ DOMAIN zone \in SUBSET Int
      /\ \A m \in DOMAIN zone : zone[m] \in Int
  BY AndroidAssumption
<1>2. IsFiniteSet(moved) /\ moved \in SUBSET Int
  BY <1>1, FS_Subset
<1>3. moved \subseteq DOMAIN zone
  OBVIOUS
<1>4. OffsetAt(zone, t) = zone[IF moved = {} THEN Min(DOMAIN zone) ELSE Max(moved)]
  BY DEF OffsetAt
<1> HIDE DEF moved
<1>5. Min(DOMAIN zone) \in DOMAIN zone
  BY <1>1, MinOf
<1>6. moved # {} => Max(moved) \in moved
  BY <1>2, MaxOf
<1> QED BY <1>1, <1>3, <1>4, <1>5, <1>6

LEMMA InstantsType ==
  ASSUME NEW zone \in Zones, NEW local \in Int
  PROVE  Instants(local, zone) \in SUBSET Int /\ IsFiniteSet(Instants(local, zone))
<1> DEFINE f == [m \in DOMAIN zone |-> local - zone[m]]
           all == {f[m] : m \in DOMAIN zone}
<1>1. IsFiniteSet(DOMAIN zone) /\ \A m \in DOMAIN zone : zone[m] \in Int
  BY AndroidAssumption
<1>2. \A m \in DOMAIN zone : f[m] \in Int /\ f[m] = local - zone[m]
  BY <1>1
<1>3. IsFiniteSet(all)
  BY <1>1, ImageFinite
<1>4. Instants(local, zone) = {t \in {local - zone[m] : m \in DOMAIN zone} : t + OffsetAt(zone, t) = local}
  BY DEF Instants
<1>5. {local - zone[m] : m \in DOMAIN zone} = all
  OBVIOUS
<1> HIDE DEF f
<1>6. all \in SUBSET Int
  BY <1>2
<1> HIDE DEF all
<1>7. Instants(local, zone) \in SUBSET all
  BY <1>4, <1>5
<1> QED BY <1>3, <1>6, <1>7, FS_Subset

LEMMA LocalInstantType ==
  ASSUME NEW date \in Int, NEW minute \in Int, NEW zone \in Zones
  PROVE  local_instant(date, minute, zone) \in Int
<1> DEFINE local == date * DAY + Min({minute, DAY})
           shown == {k \in 0..LONGEST_GAP : Instants(local + k, zone) # {}}
<1>1. DAY \in Int /\ LONGEST_GAP \in Nat
  BY CalendarAssumption
<1>2. Min({minute, DAY}) \in Int
  <2>1. {minute, DAY} \in SUBSET Int /\ {minute, DAY} # {}
    BY <1>1
  <2>2. Min({minute, DAY}) \in {minute, DAY}
    BY <2>1, PairFinite, MinOf
  <2> QED BY <1>1, <2>2
<1>3. local \in Int
  <2>1. date * DAY \in Int
    BY <1>1
  <2> QED BY <1>2, <2>1
<1>4. local_instant(date, minute, zone)
        = IF shown = {} THEN local ELSE Min(Instants(local + Min(shown), zone))
  BY DEF local_instant
<1> HIDE DEF local
<1>5. shown \in SUBSET (0..LONGEST_GAP) /\ shown \in SUBSET Int
      /\ \A k \in shown : k \in Int /\ Instants(local + k, zone) # {}
  BY <1>1
<1> HIDE DEF shown
<1>6. ASSUME shown # {} PROVE Min(Instants(local + Min(shown), zone)) \in Int
  <2>1. Min(shown) \in shown
    BY <1>1, <1>5, <1>6, PlacesFinite, MinOf
  <2> DEFINE k == Min(shown)
  <2> HIDE DEF k
  <2>2. k \in Int /\ Instants(local + k, zone) # {}
    BY <1>5, <2>1 DEF k
  <2>3. local + k \in Int
    BY <1>3, <2>2
  <2>4. Min(Instants(local + k, zone)) \in Int
    BY <2>2, <2>3, InstantsType, MinOf
  <2> QED BY <2>4 DEF k
<1> QED BY <1>3, <1>4, <1>6

\* The windows one list of schedules has open: found[i] is what the schedule at i has.
Openings(list, found, before, at) ==
  UNION {{[profile |-> a.profile, start |-> a.span[1], end |-> a.span[2],
           locks |-> list[i].locks, schedule |-> list[i].id, place |-> before + i] :
             a \in {a \in found[i] : Inside(a.span, at)}} : i \in DOMAIN list}

LEMMA WeeklyAtType ==
  ASSUME NEW w \in Weekly, NEW at \in Int, NEW zone \in Zones
  PROVE  /\ IsFiniteSet(WeeklyAt(w, at, zone))
         /\ \A a \in WeeklyAt(w, at, zone) : a.profile \in Profiles /\ a.span[2] \in Int
<1> DEFINE today == local_date(at, zone)
           open == {d \in {today - 1, today} : runs_on(w, d) /\ Inside(span_on(w, d, zone), at)}
<1>1. today \in Int
  <2>1. at + OffsetAt(zone, at) \in Int /\ DAY \in Nat \ {0}
    BY OffsetType, CalendarAssumption
  <2> QED BY <2>1 DEF local_date
<1>2. IsFiniteSet(open) /\ open \in SUBSET Int
  <2> HIDE DEF today
  <2>1. IsFiniteSet({today - 1, today})
    BY PairFinite
  <2>2. open \in SUBSET {today - 1, today} /\ open \in SUBSET Int
    BY <1>1
  <2> HIDE DEF open
  <2> QED BY <2>1, <2>2, FS_Subset
<1>3. WeeklyAt(w, at, zone) = IF open = {} THEN {}
        ELSE {[profile |-> w.profile, span |-> span_on(w, Min(open), zone)]}
  BY DEF WeeklyAt
<1> HIDE DEF open
<1>4. ASSUME NEW date \in Int PROVE span_on(w, date, zone)[2] \in Int
  <2>1. w.end \in Int
    BY DEF Weekly
  <2>2. \A d \in Int : local_instant(d, w.end, zone) \in Int
    BY <2>1, LocalInstantType
  <2> QED BY <2>2 DEF span_on
<1>5. open # {} => span_on(w, Min(open), zone)[2] \in Int
  BY <1>2, <1>4, MinOf
<1>6. IsFiniteSet({}) /\ \A x : IsFiniteSet({x})
  BY FS_EmptySet, FS_Singleton
<1>7. w.profile \in Profiles
  BY DEF Weekly
<1>8. CASE open = {}
  BY <1>3, <1>6, <1>8
<1>9. CASE open # {}
  <2> DEFINE a == [profile |-> w.profile, span |-> span_on(w, Min(open), zone)]
  <2>1. WeeklyAt(w, at, zone) = {a} /\ a.profile \in Profiles /\ a.span[2] \in Int
    BY <1>3, <1>5, <1>7, <1>9
  <2> HIDE DEF a
  <2> QED BY <1>6, <2>1
<1> QED BY <1>8, <1>9

LEMMA ActivationsType ==
  ASSUME NEW c \in CalendarRule, NEW events \in SUBSET Event, IsFiniteSet(events)
  PROVE  /\ IsFiniteSet(Activations(c, events))
         /\ \A a \in Activations(c, events) : a.profile \in Profiles /\ a.span[2] \in Int
<1> DEFINE Of(e) == [profile |-> c.profile,
                     span |-> <<e.start - c.pad_before, Max({e.end, e.start}) + c.pad_after + 1>>]
           found == {e \in events : Matches(c.matcher, e)}
           f == [e \in found |-> Of(e)]
<1>1. Activations(c, events) = IF c.enabled THEN {Of(e) : e \in found} ELSE {}
  BY DEF Activations
<1>2. IsFiniteSet(found)
  BY FS_Subset
<1>3. ASSUME NEW e \in events PROVE Of(e).profile \in Profiles /\ Of(e).span[2] \in Int
  <2>1. {e.end, e.start} \in SUBSET Int /\ {e.end, e.start} # {}
    BY DEF Event
  <2>2. Max({e.end, e.start}) \in Int
    BY <2>1, PairFinite, MaxOf
  <2> QED BY <2>2 DEF CalendarRule
<1> HIDE DEF Of
<1>4. {f[e] : e \in found} = {Of(e) : e \in found} /\ DOMAIN f = found
  OBVIOUS
<1>5. IsFiniteSet({f[e] : e \in found})
  <2> HIDE DEF f, found
  <2> QED BY <1>2, <1>4, ImageFinite
<1>6. IsFiniteSet({Of(e) : e \in found})
  BY <1>4, <1>5
<1> QED BY <1>1, <1>3, <1>6, FS_EmptySet

\* One list of schedules with what each finds gives a finite set of windows.
LEMMA OpeningsOf ==
  ASSUME NEW list, IsFiniteSet(DOMAIN list), NEW found, DOMAIN found = DOMAIN list, NEW at, NEW before,
         \A i \in DOMAIN list :
           /\ list[i].locks \subseteq Conditions /\ IsFiniteSet(found[i])
           /\ \A a \in found[i] : a.profile \in Profiles /\ a.span[2] \in Int
  PROVE  /\ IsFiniteSet(Openings(list, found, before, at))
         /\ \A w \in Openings(list, found, before, at) : Opening(w)
<1> DEFINE Open(i, a) == [profile |-> a.profile, start |-> a.span[1], end |-> a.span[2],
                          locks |-> list[i].locks, schedule |-> list[i].id, place |-> before + i]
           within(i) == {a \in found[i] : Inside(a.span, at)}
           Of(i) == {Open(i, a) : a \in within(i)}
           parts == {Of(i) : i \in DOMAIN list}
<1>1. ASSUME NEW i \in DOMAIN list, NEW a \in within(i) PROVE Opening(Open(i, a))
  BY DEF Opening
<1>2. ASSUME NEW i \in DOMAIN list PROVE IsFiniteSet(Of(i))
  <2> DEFINE f == [a \in within(i) |-> Open(i, a)]
  <2>1. IsFiniteSet(within(i))
    BY FS_Subset
  <2>2. {f[a] : a \in within(i)} = Of(i) /\ DOMAIN f = within(i)
    OBVIOUS
  <2> HIDE DEF f, within, Of
  <2>3. IsFiniteSet({f[a] : a \in within(i)})
    BY <2>1, <2>2, ImageFinite
  <2> QED BY <2>2, <2>3
<1> HIDE DEF Open, within
<1>3. \A i \in DOMAIN list : \A w \in Of(i) : Opening(w)
  BY <1>1
<1> HIDE DEF Of
<1>4. IsFiniteSet(parts)
  <2> DEFINE f == [i \in DOMAIN list |-> Of(i)]
  <2>1. {f[i] : i \in DOMAIN list} = parts /\ DOMAIN f = DOMAIN list
    OBVIOUS
  <2> HIDE DEF f, parts
  <2>2. IsFiniteSet({f[i] : i \in DOMAIN list})
    BY <2>1, ImageFinite
  <2> QED BY <2>1, <2>2
<1>5. \A W \in parts : IsFiniteSet(W) /\ \A w \in W : Opening(w)
  BY <1>2, <1>3
<1> HIDE DEF parts
<1>6. IsFiniteSet(UNION parts) /\ \A w \in UNION parts : Opening(w)
  BY <1>4, <1>5, FS_UNION
<1>7. Openings(list, found, before, at) = UNION parts
  BY DEF Openings, parts, Of, Open, within
<1> QED BY <1>6, <1>7

LEMMA HasLastOf ==
  ASSUME NEW W, IsFiniteSet(W), \A w \in W : w.end \in Int PROVE HasLast(W)
<1> SUFFICES ASSUME NEW V \in SUBSET W, V # {} PROVE \E w \in V : \A v \in V : v.end <= w.end
  BY DEF HasLast
<1> DEFINE f == [w \in V |-> w.end]
           ends == {f[w] : w \in V}
<1>1. IsFiniteSet(V)
  BY FS_Subset
<1>2. ends \in SUBSET Int /\ ends # {} /\ DOMAIN f = V /\ \A w \in V : w.end \in ends
  OBVIOUS
<1>3. \A e \in ends : \E w \in V : e = w.end
  OBVIOUS
<1>4. IsFiniteSet(ends)
  <2> HIDE DEF f
  <2> QED BY <1>1, <1>2, ImageFinite
<1> HIDE DEF ends
<1>5. Max(ends) \in ends /\ \A e \in ends : Max(ends) >= e
  BY <1>2, <1>4, MaxOf
<1>6. PICK w \in V : Max(ends) = w.end
  BY <1>3, <1>5
<1>7. ASSUME NEW v \in V PROVE v.end <= w.end
  <2>1. v.end \in Int /\ w.end \in Int /\ w.end >= v.end
    BY <1>2, <1>5, <1>6
  <2> QED BY <2>1
<1> QED BY <1>7

LEMMA WindowsType ==
  ASSUME config \in Document, NEW at \in Int, NEW events \in SUBSET Event, IsFiniteSet(events)
  PROVE  /\ \A w \in Windows(at, events) : Opening(w)
         /\ HasLast(Windows(at, events))
<1> DEFINE weekly == config.weekly
           calendars == config.calendars
           A == UNION {{[profile |-> a.profile, start |-> a.span[1], end |-> a.span[2],
                         locks |-> weekly[i].locks, schedule |-> weekly[i].id, place |-> 0 + i] :
                           a \in {a \in WeeklyAt(weekly[i], at, config.zone) : Inside(a.span, at)}} :
                         i \in DOMAIN weekly}
           B == UNION {{[profile |-> a.profile, start |-> a.span[1], end |-> a.span[2],
                         locks |-> calendars[i].locks, schedule |-> calendars[i].id,
                         place |-> Len(weekly) + i] :
                           a \in {a \in Activations(calendars[i], events) : Inside(a.span, at)}} :
                         i \in DOMAIN calendars}
<1>1. Windows(at, events) = A \cup B
  BY DEF Windows
<1>2. /\ weekly \in Seq(Weekly) /\ calendars \in Seq(CalendarRule) /\ config.zone \in Zones
      /\ Len(weekly) \in Nat /\ DOMAIN weekly = 1..Len(weekly)
      /\ Len(calendars) \in Nat /\ DOMAIN calendars = 1..Len(calendars)
  BY DocumentParts, LenProperties
<1>3. IsFiniteSet(DOMAIN weekly) /\ IsFiniteSet(DOMAIN calendars)
  <2>1. DOMAIN weekly \in SUBSET (0..Len(weekly)) /\ DOMAIN calendars \in SUBSET (0..Len(calendars))
    BY <1>2
  <2> HIDE DEF weekly, calendars
  <2> QED BY <1>2, <2>1, PlacesFinite
<1>4. \A i \in DOMAIN weekly : weekly[i] \in Weekly
  BY <1>2, ElementOfSeq
<1>5. \A i \in DOMAIN calendars : calendars[i] \in CalendarRule
  BY <1>2, ElementOfSeq
<1> HIDE DEF weekly, calendars
<1>6. IsFiniteSet(A) /\ \A w \in A : Opening(w)
  <2> DEFINE found == [i \in DOMAIN weekly |-> WeeklyAt(weekly[i], at, config.zone)]
             C == Openings(weekly, found, 0, at)
  <2>1. A = C
    BY DEF Openings
  <2>2. ASSUME NEW i \in DOMAIN weekly
        PROVE  /\ weekly[i].locks \subseteq Conditions /\ IsFiniteSet(found[i])
               /\ \A a \in found[i] : a.profile \in Profiles /\ a.span[2] \in Int
    <3>1. found[i] = WeeklyAt(weekly[i], at, config.zone) /\ weekly[i].locks \subseteq Conditions
      BY <1>4 DEF Weekly
    <3> HIDE DEF found
    <3> QED BY <1>2, <1>4, <3>1, WeeklyAtType
  <2>3. DOMAIN found = DOMAIN weekly
    OBVIOUS
  <2> HIDE DEF found, A
  <2>4. IsFiniteSet(C) /\ \A w \in C : Opening(w)
    BY <1>3, <2>2, <2>3, OpeningsOf
  <2> QED BY <2>1, <2>4
<1>7. IsFiniteSet(B) /\ \A w \in B : Opening(w)
  <2> DEFINE found == [i \in DOMAIN calendars |-> Activations(calendars[i], events)]
             C == Openings(calendars, found, Len(weekly), at)
  <2>1. B = C
    BY DEF Openings
  <2>2. ASSUME NEW i \in DOMAIN calendars
        PROVE  /\ calendars[i].locks \subseteq Conditions /\ IsFiniteSet(found[i])
               /\ \A a \in found[i] : a.profile \in Profiles /\ a.span[2] \in Int
    <3>1. found[i] = Activations(calendars[i], events) /\ calendars[i].locks \subseteq Conditions
      BY <1>5 DEF CalendarRule
    <3> HIDE DEF found
    <3> QED BY <1>5, <3>1, ActivationsType
  <2>3. DOMAIN found = DOMAIN calendars
    OBVIOUS
  <2> HIDE DEF found, B
  <2>4. IsFiniteSet(C) /\ \A w \in C : Opening(w)
    BY <1>3, <2>2, <2>3, OpeningsOf
  <2> QED BY <2>1, <2>4
<1> HIDE DEF A, B
<1>8. IsFiniteSet(Windows(at, events)) /\ \A w \in Windows(at, events) : Opening(w)
  BY <1>1, <1>6, <1>7, FS_Union
<1> QED BY <1>8, HasLastOf DEF Opening

-----------------------------------------------------------------------------
(***************************************************************************)
(* What the phone's sessions are, and what has been noted of when they     *)
(* came in.                                                                *)
(***************************************************************************)
RunningInv ==
  /\ now \in Nat /\ acts \in Nat
  /\ Well(sessions) /\ Well(disk.sessions.running)
  /\ RunningIds(sessions) \cup RunningIds(disk.sessions.running) \subseteq DOMAIN history.born
  /\ history.boot \in Nat /\ history.taken \in Nat
  /\ \A id \in DOMAIN history.born : history.born[id] \in 0..history.boot

\* Nothing that has been noted is forgotten or noted again.
BornGrows ==
  /\ DOMAIN history.born \subseteq DOMAIN history'.born
  /\ \A id \in DOMAIN history.born : history'.born[id] = history.born[id]

\* The condition OnlyByRight puts on a step.
ByRight(s) ==
  \/ IsExpired(s.lock, now)
  \/ s.lock.conditions \subseteq Met(s, history'.checked, releases')
  \/ history'.taken # history.taken
  \/ history'.deaths # history.deaths
       /\ s.id \notin RunningIds(disk.sessions.running)

Leaving == {s \in sessions.running : s.id \notin RunningIds(sessions')}

LEMMA RememberGrows ==
  ASSUME DocumentInv, RunningInv, NEW S, history' = [history EXCEPT !.born = Remember(S)]
  PROVE  /\ BornGrows /\ RunningIds(S) \subseteq DOMAIN history'.born
         /\ history'.boot = history.boot /\ history'.taken = history.taken
         /\ \A id \in DOMAIN history'.born : history'.born[id] \in 0..history.boot
<1>1. /\ history'.born = Remember(S)
      /\ history'.boot = history.boot /\ history'.taken = history.taken
  BY DEF DocumentInv
<1>2. /\ DOMAIN Remember(S) = DOMAIN history.born \cup RunningIds(S)
      /\ \A id \in DOMAIN Remember(S) :
           Remember(S)[id] = IF id \in RunningIds(S) \ DOMAIN history.born
                             THEN history.boot ELSE history.born[id]
  BY DEF Remember, SetAt
<1> QED BY <1>1, <1>2 DEF RunningInv, BornGrows

LEMMA StoryTyped ==
  ASSUME story \in Stories
  PROVE  /\ \A a \in story.asks \cup story.comes :
              a.profile \in Profiles /\ a.seconds \in Nat /\ a.locks \subseteq Conditions
         /\ story.events \in SUBSET Event /\ IsFiniteSet(story.events)
<1>1. story.asks \subseteq Asked /\ story.comes \subseteq Asked /\ story.events \subseteq Event
      /\ IsFiniteSet(story.events)
  BY AndroidAssumption DEF Story
<1> QED BY <1>1 DEF Asked

\* Steps that leave the sessions and what is noted of them alone.
Quiet ==
  /\ sessions' = sessions /\ disk'.sessions = disk.sessions
  /\ now' \in Nat /\ acts' \in Nat
  /\ history'.born = history.born /\ history'.boot = history.boot /\ history'.taken = history.taken

LEMMA QuietKeeps ==
  ASSUME RunningInv, Quiet PROVE RunningInv' /\ BornGrows /\ Leaving = {}
<1>1. Well(sessions') /\ RunningIds(sessions') = RunningIds(sessions)
  BY DEF Quiet, RunningInv
<1>2. Leaving = {}
  BY DEF Quiet, Leaving, RunningIds
<1>3. \A id \in DOMAIN history'.born : history'.born[id] \in 0..history'.boot
  BY DEF Quiet, RunningInv
<1> QED BY <1>1, <1>2, <1>3 DEF Quiet, RunningInv, BornGrows

LEMMA QuietSteps ==
  ASSUME DocumentInv, RunningInv,
         \/ Clock \/ Observe \/ WriteBoots \/ Edit \/ SetConfig \/ RefuseConfig
         \/ SyncPublish \/ SyncTell \/ SyncKnow \/ SyncRation \/ SyncSave \/ SyncPersist
         \/ \E id : RecordCredential(id) \/ \E device : PeerReleases(id, device)
  PROVE  Quiet
<1>0. now \in Nat /\ acts \in Nat /\ now + 1 \in Nat /\ acts + 1 \in Nat
      /\ DOMAIN disk = {"config", "sessions", "passes", "boots", "releases", "log"}
      /\ DOMAIN history = {"checked", "born", "boot", "spent", "taken", "deaths"}
  BY DEF RunningInv, DocumentInv
<1>1. CASE Clock \/ RefuseConfig
  BY <1>0, <1>1 DEF Clock, RefuseConfig, Quiet, memory
<1>2. CASE Observe \/ WriteBoots
  BY <1>0, <1>2 DEF Observe, WriteBoots, Quiet
<1>3. CASE Edit
  <2>1. PICK e \in story.edits :
        \/ UpsertRule(e) \/ RemoveRule(e) \/ UpsertProfile(e) \/ RemoveProfile(e)
        \/ UpsertWeekly(e) \/ RemoveWeekly(e) \/ UpsertCalendar(e) \/ RemoveCalendar(e) \/ Draft(e)
    BY <1>3 DEF Edit
  <2>2. (\E d : Adopt(d, Committed)) \/ Draft(e)
    BY <2>1 DEF UpsertRule, RemoveRule, UpsertProfile, RemoveProfile, UpsertWeekly, RemoveWeekly,
                UpsertCalendar, RemoveCalendar
  <2> QED BY <1>0, <2>2 DEF Adopt, Does, Draft, Quiet, memory
<1>4. CASE SetConfig
  BY <1>0, <1>4 DEF SetConfig, Quiet
<1>5. CASE SyncPublish \/ SyncTell \/ SyncKnow \/ SyncRation \/ SyncSave \/ SyncPersist
  BY <1>0, <1>5 DEF SyncPublish, SyncTell, SyncKnow, SyncRation, SyncSave, SyncPersist, Quiet, memory
<1>6. ASSUME NEW id, RecordCredential(id) PROVE Quiet
  BY <1>0, <1>6 DEF RecordCredential, Does, Checked, Undisturbed, Quiet
<1>7. ASSUME NEW id, NEW device, PeerReleases(id, device) PROVE Quiet
  BY <1>0, <1>7 DEF PeerReleases, Does, Quiet, memory
<1> QED BY <1>1, <1>2, <1>3, <1>4, <1>5, <1>6, <1>7

\* Sessions that are started, and noted; none leaves.
LEMMA StartKeeps ==
  ASSUME DocumentInv, RunningInv, NEW s \in Session, s.id[1] = s.profile,
         sessions' = Start(sessions, s), history' = [history EXCEPT !.born = Remember(sessions')],
         disk' = disk, now' = now, acts' \in Nat
  PROVE  RunningInv' /\ BornGrows /\ Leaving = {}
<1>1. Well(sessions') /\ RunningIds(sessions) \subseteq RunningIds(sessions')
  BY StartWell DEF RunningInv
<1>2. Leaving = {}
  BY <1>1 DEF Leaving, RunningIds
<1> QED BY <1>1, <1>2, RememberGrows DEF RunningInv, BornGrows

\* An end at the gate.
LEMMA FinishKeeps ==
  ASSUME RunningInv, NEW id, NEW satisfied, sessions' = End(sessions, id, now, satisfied),
         disk' = disk, now' = now, acts' \in Nat, history'.taken \in Nat,
         history'.born = history.born, history'.boot = history.boot
  PROVE  /\ RunningInv' /\ BornGrows
         /\ \A s \in Leaving : s.id = id /\ CanRelease(s.lock, now, satisfied)
<1>1. /\ Well(sessions') /\ RunningIds(sessions') \subseteq RunningIds(sessions)
      /\ \A s \in Leaving : s.id = id /\ CanRelease(s.lock, now, satisfied)
  BY EndWell DEF RunningInv, Leaving
<1> QED BY <1>1 DEF RunningInv, BornGrows

\* The sessions as the schedules have them: what goes is over.
LEMMA ReconciledKeeps ==
  ASSUME DocumentInv, RunningInv, NEW events \in SUBSET Event, IsFiniteSet(events),
         Reconciled(events), disk'.sessions = disk.sessions, now' = now, acts' = acts
  PROVE  /\ RunningInv' /\ BornGrows
         /\ \A s \in Leaving : IsExpired(s.lock, now)
<1> DEFINE windows == Windows(now, events)
           mint == [p \in Profiles |-> <<p, now>>]
           S == Reconcile(sessions, now, windows, mint)
<1>1. sessions' = Reap(S, now) /\ history' = [history EXCEPT !.born = Remember(S)]
  BY DEF Reconciled
<1>2. now \in Nat /\ now \in Int /\ Well(sessions) /\ config \in Document
  BY DEF RunningInv, DocumentInv, Sensible
<1>3. (\A w \in windows : Opening(w)) /\ HasLast(windows)
  BY <1>2, WindowsType
<1>4. mint \in [Profiles -> Ids] /\ \A p \in Profiles : mint[p][1] = p
  BY <1>2 DEF Ids
<1> HIDE DEF windows, mint
<1>5. /\ Well(S) /\ RunningIds(sessions) \subseteq RunningIds(S)
      /\ \A s \in sessions.running, t \in S.running :
           s.id = t.id /\ IsExpired(t.lock, now) => IsExpired(s.lock, now)
  BY <1>2, <1>3, <1>4, ReconcileWell
<1> HIDE DEF S
<1>6. /\ Well(sessions') /\ RunningIds(sessions') \subseteq RunningIds(S)
      /\ \A t \in S.running : t.id \notin RunningIds(sessions') => IsExpired(t.lock, now)
  BY <1>1, <1>5, ReapWell
<1>7. ASSUME NEW s \in Leaving PROVE IsExpired(s.lock, now)
  <2>1. PICK t \in S.running : t.id = s.id
    BY <1>5 DEF Leaving, RunningIds
  <2> QED BY <1>5, <1>6, <2>1 DEF Leaving
<1>8. RunningInv' /\ BornGrows
  BY <1>1, <1>6, RememberGrows DEF RunningInv, BornGrows
<1> QED BY <1>7, <1>8

-----------------------------------------------------------------------------
(***************************************************************************)
(* What the phone has been shown of the conditions, and by whom.           *)
(***************************************************************************)
EvidenceInv ==
  /\ proofs \subseteq history.checked
  /\ released \subseteq log.released \cup (releases \X {Me})
  /\ sync.released \subseteq log.released
  /\ DOMAIN sync = {"at", "passes", "released"}
  /\ DOMAIN log = {"passes", "released"} /\ DOMAIN disk.log = {"passes", "released"}

\* Fresh evidence that another has replaced is as fresh.
LEMMA RecordedIsChecked ==
  ASSUME DocumentInv, EvidenceInv, NEW id, NEW lock, history' = Checked(id, lock)
  PROVE  /\ Recorded_(id, lock) \subseteq history'.checked
         /\ history'.checked = {q \in history.checked : ~(q.id = id /\ q.lock = lock)}
                                 \cup {[id |-> id, lock |-> lock, at |-> now]}
<1>1. history'.checked = {q \in history.checked : ~(q.id = id /\ q.lock = lock)}
                           \cup {[id |-> id, lock |-> lock, at |-> now]}
  BY DEF DocumentInv, Checked
<1> QED BY <1>1 DEF Recorded_, EvidenceInv

LEMMA EvidenceStep == ASSUME DocumentInv, EvidenceInv, Next PROVE EvidenceInv'
<1>0. /\ DOMAIN history = {"checked", "born", "boot", "spent", "taken", "deaths"}
      /\ DOMAIN disk = {"config", "sessions", "passes", "boots", "releases", "log"}
  BY DEF DocumentInv
<1>1. CASE \/ Clock \/ Observe \/ WriteBoots \/ SetConfig \/ RefuseConfig
           \/ SyncRation \/ SyncSave \/ SyncPersist
  <2>1. UNCHANGED <<proofs, released, releases, log, history>>
    BY <1>1 DEF Clock, Observe, WriteBoots, SetConfig, RefuseConfig, SyncRation, SyncSave, SyncPersist,
                memory
  <2>2. \/ sync' = sync
        \/ sync' \in {AtRest, [AtRest EXCEPT !.at = "unsaved"], [AtRest EXCEPT !.at = "saved"]}
    BY <1>1 DEF Clock, Observe, WriteBoots, SetConfig, RefuseConfig, SyncRation, SyncSave, SyncPersist
  <2>3. sync'.released \subseteq log.released /\ DOMAIN sync' = {"at", "passes", "released"}
    BY <2>2 DEF AtRest, EvidenceInv
  <2>4. DOMAIN disk'.log = DOMAIN log
    BY <1>0, <1>1 DEF Clock, Observe, WriteBoots, SetConfig, RefuseConfig, SyncRation, SyncSave,
                      SyncPersist, EvidenceInv
  <2> QED BY <2>1, <2>3, <2>4 DEF EvidenceInv
<1>2. CASE Edit
  <2>1. UNCHANGED <<proofs, released, releases, sync, log, disk, history>>
    <3>1. PICK e \in story.edits :
        \/ UpsertRule(e) \/ RemoveRule(e) \/ UpsertProfile(e) \/ RemoveProfile(e)
        \/ UpsertWeekly(e) \/ RemoveWeekly(e) \/ UpsertCalendar(e) \/ RemoveCalendar(e) \/ Draft(e)
      BY <1>2 DEF Edit
    <3>2. (\E d : Adopt(d, Committed)) \/ Draft(e)
      BY <3>1 DEF UpsertRule, RemoveRule, UpsertProfile, RemoveProfile, UpsertWeekly, RemoveWeekly,
                  UpsertCalendar, RemoveCalendar
    <3> QED BY <3>2 DEF Adopt, Draft, memory
  <2> QED BY <2>1 DEF EvidenceInv
<1>3. CASE Tick \/ Put_
  <2>1. UNCHANGED <<proofs, released, releases, sync, log>> /\ disk'.log = disk.log
    BY <1>3, PutParts DEF Tick
  <2>2. history'.checked = history.checked
    BY <1>0, <1>3 DEF Tick, Put_, Reconciled
  <2> QED BY <2>1, <2>2 DEF EvidenceInv
<1>4. ASSUME NEW ask, StartSession(ask) PROVE EvidenceInv'
  <2>1. UNCHANGED <<proofs, released, releases, sync, log, disk>> /\ history'.checked = history.checked
    BY <1>0, <1>4 DEF StartSession, Undisturbed
  <2> QED BY <2>1 DEF EvidenceInv
<1>5. ASSUME NEW id, NEW claimed, EndSession(id, claimed) PROVE EvidenceInv'
  <2>1. UNCHANGED <<released, releases, sync, log, disk, history>> /\ proofs' \subseteq proofs
    BY <1>5 DEF EndSession, Finish, Undisturbed
  <2> QED BY <2>1 DEF EvidenceInv
<1>6. ASSUME NEW id, RecordCredential(id) PROVE EvidenceInv'
  <2>1. /\ UNCHANGED <<released, releases, sync, log, disk>>
        /\ proofs' = Recorded_(id, "credential") /\ history' = Checked(id, "credential")
    BY <1>6 DEF RecordCredential, Undisturbed
  <2> QED BY <2>1, RecordedIsChecked DEF EvidenceInv
<1>7. ASSUME NEW id, NEW payload, ScanToken(id, payload) PROVE EvidenceInv'
  <2> DEFINE shown == IF identify(config.tokens, payload) = {} THEN proofs ELSE Recorded_(id, payload)
  <2>1. UNCHANGED <<released, releases, sync, log, disk>> /\ proofs' \subseteq shown
    BY <1>7 DEF ScanToken, Finish, Undisturbed
  <2>2. CASE identify(config.tokens, payload) = {}
    <3>1. history' = history
      BY <1>7, <2>2 DEF ScanToken
    <3> QED BY <2>1, <2>2, <3>1 DEF EvidenceInv
  <2>3. CASE identify(config.tokens, payload) # {}
    <3>1. history' = Checked(id, payload)
      BY <1>7, <2>3 DEF ScanToken
    <3> QED BY <2>1, <2>3, <3>1, RecordedIsChecked DEF EvidenceInv
  <2> QED BY <2>2, <2>3
<1>8. ASSUME NEW id, ReleasePeer(id) PROVE EvidenceInv'
  <2>1. /\ UNCHANGED <<sync, log, disk, history>> /\ proofs' \subseteq proofs
        /\ releases' = releases \cup {id} /\ released' \subseteq released \cup {<<id, Me>>}
    BY <1>8 DEF ReleasePeer, Finish, Undisturbed
  <2> QED BY <2>1 DEF EvidenceInv
<1>9. ASSUME NEW id, RequestTheRelease(id) \/ SpendPass(id) PROVE EvidenceInv'
  <2>1. UNCHANGED <<proofs, released, releases, sync, log, disk>> /\ history'.checked = history.checked
    BY <1>0, <1>9 DEF RequestTheRelease, SpendPass, Undisturbed
  <2> QED BY <2>1 DEF EvidenceInv
<1>10. ASSUME NEW id, NEW device, PeerReleases(id, device) PROVE EvidenceInv'
  <2>1. /\ UNCHANGED <<proofs, released, releases, sync, history>>
        /\ log' = [log EXCEPT !.released = @ \cup {<<id, device>>}]
        /\ disk' \in {disk, [disk EXCEPT !.log = log']}
    BY <1>10 DEF PeerReleases, memory
  <2>2. log.released \subseteq log'.released /\ DOMAIN log' = DOMAIN log /\ disk'.log \in {disk.log, log'}
    BY <1>0, <2>1 DEF EvidenceInv
  <2> QED BY <2>1, <2>2 DEF EvidenceInv
<1>11. CASE SyncAdopt
  <2>1. /\ UNCHANGED <<proofs, released, releases, log, disk>>
        /\ sync' = [at |-> "adopted", passes |-> log.passes, released |-> log.released]
    BY <1>11 DEF SyncAdopt
  <2>2. history'.checked = history.checked
    BY <1>0, <1>11 DEF SyncAdopt
  <2> QED BY <2>1, <2>2 DEF EvidenceInv
<1>12. CASE SyncPublish \/ SyncTell
  <2>1. /\ UNCHANGED <<proofs, released, releases, history, disk>>
        /\ sync'.released = sync.released /\ DOMAIN sync' = DOMAIN sync
    BY <1>12 DEF SyncPublish, SyncTell, memory, EvidenceInv
  <2>2. log.released \subseteq log'.released /\ DOMAIN log' = DOMAIN log
    BY <1>12 DEF SyncPublish, SyncTell, EvidenceInv
  <2> QED BY <2>1, <2>2 DEF EvidenceInv
<1>13. CASE SyncKnow
  <2>1. /\ UNCHANGED <<proofs, releases, log, history, disk>> /\ released' = sync.released
        /\ sync'.released = sync.released /\ DOMAIN sync' = DOMAIN sync
    BY <1>13 DEF SyncKnow, EvidenceInv
  <2> QED BY <2>1 DEF EvidenceInv
<1>14. ASSUME NEW reboot, Kill(reboot) PROVE EvidenceInv'
  <2>1. proofs' = {} /\ released' = {} /\ sync' = AtRest /\ log' = disk.log /\ disk' = disk
    BY <1>14 DEF Kill
  <2> QED BY <2>1 DEF EvidenceInv, AtRest
<1>15. CASE RestoreAgain
  <2>1. UNCHANGED <<proofs, released, sync, log, disk, history>> /\ releases \subseteq releases'
    BY <1>15 DEF RestoreAgain, Restored
  <2> QED BY <2>1 DEF EvidenceInv
<1> QED BY <1>1, <1>2, <1>3, <1>4, <1>5, <1>6, <1>7, <1>8, <1>9, <1>10, <1>11, <1>12, <1>13, <1>14, <1>15
        DEF Next

-----------------------------------------------------------------------------
(***************************************************************************)
(* What the phone makes of the boots it has been through: it may have      *)
(* missed some, and counts on a clock that starts again with each.  Every  *)
(* session it says came in with another boot than this one did.            *)
(***************************************************************************)
\* seen: [session -> boot]; c: the count; the same of what is in memory and of what is written.
Tells(seen, c) ==
  /\ c \in [last_uptime : Nat, boot_id : Nat]
  /\ c.boot_id = 0 => DOMAIN seen = {}
  /\ \E b \in 0..history.boot :
       /\ b = history.boot => c.last_uptime <= uptime
       /\ \A id \in DOMAIN seen :
            /\ id \in DOMAIN history.born /\ history.born[id] <= b
            /\ seen[id] # c.boot_id => history.born[id] < b

BootInv ==
  /\ uptime \in Nat
  /\ Tells(boots, counter)
  /\ Tells(disk.boots.seen, disk.boots.counter)

\* What is told stays true.
LEMMA Moving ==
  ASSUME RunningInv, BootInv, BornGrows,
         \/ history'.boot = history.boot /\ uptime' \in {uptime, uptime + 1}
         \/ history'.boot = history.boot + 1 /\ uptime' \in Nat,
         NEW seen, NEW c, Tells(seen, c)
  PROVE  /\ uptime' \in Nat
         /\ \E b \in 0..history'.boot :
              /\ b = history'.boot => c.last_uptime <= uptime'
              /\ \A id \in DOMAIN seen :
                   /\ id \in DOMAIN history'.born /\ history'.born[id] <= b
                   /\ seen[id] # c.boot_id => history'.born[id] < b
<1>0. history.boot \in Nat /\ uptime \in Nat /\ c.last_uptime \in Nat
  BY DEF RunningInv, BootInv, Tells
<1>1. PICK b \in 0..history.boot :
        /\ b = history.boot => c.last_uptime <= uptime
        /\ \A id \in DOMAIN seen :
             /\ id \in DOMAIN history.born /\ history.born[id] <= b
             /\ seen[id] # c.boot_id => history.born[id] < b
  BY DEF Tells
<1>2. b \in 0..history'.boot /\ (b = history'.boot => c.last_uptime <= uptime') /\ uptime' \in Nat
  BY <1>0, <1>1
<1>3. \A id \in DOMAIN seen :
        /\ id \in DOMAIN history'.born /\ history'.born[id] <= b
        /\ seen[id] # c.boot_id => history'.born[id] < b
  BY <1>1 DEF BornGrows
<1> QED BY <1>2, <1>3

\* What does not disturb it: what is written may be read back, what is in memory may be written.
LEMMA BootUndisturbed ==
  ASSUME RunningInv, BootInv, BornGrows,
         \/ boots' = boots /\ counter' = counter
         \/ boots' = disk.boots.seen /\ counter' = disk.boots.counter,
         disk'.boots \in {disk.boots, [seen |-> boots, counter |-> counter]},
         \/ history'.boot = history.boot /\ uptime' \in {uptime, uptime + 1}
         \/ history'.boot = history.boot + 1 /\ uptime' \in Nat
  PROVE  BootInv'
<1> DEFINE Still(seen, c) ==
      /\ c \in [last_uptime : Nat, boot_id : Nat]
      /\ c.boot_id = 0 => DOMAIN seen = {}
      /\ \E b \in 0..history'.boot :
           /\ b = history'.boot => c.last_uptime <= uptime'
           /\ \A id \in DOMAIN seen :
                /\ id \in DOMAIN history'.born /\ history'.born[id] <= b
                /\ seen[id] # c.boot_id => history'.born[id] < b
<1>1. Tells(boots, counter) /\ Tells(disk.boots.seen, disk.boots.counter)
  BY DEF BootInv
<1>2. uptime' \in Nat /\ Still(boots, counter)
  BY <1>1, Moving DEF Tells
<1>3. Still(disk.boots.seen, disk.boots.counter)
  <2> DEFINE seen == disk.boots.seen
             c == disk.boots.counter
  <2>1. Tells(seen, c)
    BY <1>1
  <2> HIDE DEF seen, c
  <2>2. Still(seen, c)
    BY <2>1, Moving DEF Tells
  <2> QED BY <2>2 DEF seen, c
<1>4. \/ disk'.boots.seen = disk.boots.seen /\ disk'.boots.counter = disk.boots.counter
      \/ disk'.boots.seen = boots /\ disk'.boots.counter = counter
  OBVIOUS
<1> HIDE DEF Still
<1>5. Still(boots', counter') /\ Still(disk'.boots.seen, disk'.boots.counter)
  BY <1>2, <1>3, <1>4
<1> USE DEF Still
<1> QED BY <1>2, <1>5 DEF BootInv, Tells

LEMMA ObserveBoots == ASSUME DocumentInv, RunningInv, BootInv, Observe PROVE BootInv'
<1> DEFINE n == IF counter.boot_id = 0 \/ uptime < counter.last_uptime
                THEN counter.boot_id + 1 ELSE counter.boot_id
<1>1. /\ counter' = [last_uptime |-> uptime, boot_id |-> n]
      /\ boots' = [id \in RunningIds(sessions) |-> IF id \in DOMAIN boots THEN boots[id] ELSE n]
      /\ disk' = disk /\ history' = history /\ uptime' = uptime
  BY DEF Observe, outside
<1>2. /\ uptime \in Nat /\ counter.last_uptime \in Nat /\ counter.boot_id \in Nat
      /\ history.boot \in Nat /\ RunningIds(sessions) \subseteq DOMAIN history.born
      /\ \A id \in DOMAIN history.born : history.born[id] \in 0..history.boot
  BY DEF RunningInv, BootInv, Tells
<1>3. n \in Nat /\ n # 0
  BY <1>2
<1>4. PICK b \in 0..history.boot :
        /\ b = history.boot => counter.last_uptime <= uptime
        /\ \A id \in DOMAIN boots :
             /\ id \in DOMAIN history.born /\ history.born[id] <= b
             /\ boots[id] # counter.boot_id => history.born[id] < b
  BY DEF BootInv, Tells
<1>5. ASSUME NEW id \in DOMAIN boots', boots'[id] # n PROVE history.born[id] < history.boot
  <2>1. id \in DOMAIN boots /\ boots'[id] = boots[id] /\ id \in DOMAIN history.born
    BY <1>1, <1>2, <1>5
  <2>2. counter.boot_id # 0
    BY <2>1 DEF BootInv, Tells
  <2>3. CASE uptime < counter.last_uptime
    <3>1. b # history.boot
      BY <1>2, <1>4, <2>3
    <3> QED BY <1>2, <1>4, <2>1, <3>1
  <2>4. CASE ~(uptime < counter.last_uptime)
    <3>1. boots[id] # counter.boot_id
      BY <1>5, <2>1, <2>2, <2>4
    <3> QED BY <1>2, <1>4, <2>1, <3>1
  <2> QED BY <2>3, <2>4
<1>6. DOMAIN boots' = RunningIds(sessions) /\ counter'.boot_id = n /\ counter'.last_uptime = uptime
  BY <1>1
<1>7. counter' \in [last_uptime : Nat, boot_id : Nat]
  BY <1>1, <1>2, <1>3
<1> HIDE DEF n
<1>8. Tells(boots, counter)'
  <2>1. history.boot \in 0..history'.boot /\ counter'.last_uptime <= uptime'
    BY <1>1, <1>2, <1>6
  <2>2. \A id \in DOMAIN boots' :
          /\ id \in DOMAIN history'.born /\ history'.born[id] <= history.boot
          /\ boots'[id] # counter'.boot_id => history'.born[id] < history.boot
    BY <1>1, <1>2, <1>5, <1>6
  <2> QED BY <1>3, <1>6, <1>7, <2>1, <2>2 DEF Tells
<1>9. Tells(disk.boots.seen, disk.boots.counter)'
  BY <1>1 DEF BootInv, Tells
<1> QED BY <1>1, <1>2, <1>8, <1>9 DEF BootInv

\* The steps that are none of the boots' business.
LEMMA BootStep == ASSUME DocumentInv, RunningInv, BootInv, BornGrows, Next PROVE BootInv'
<1>0. /\ DOMAIN disk = {"config", "sessions", "passes", "boots", "releases", "log"}
      /\ DOMAIN history = {"checked", "born", "boot", "spent", "taken", "deaths"}
      /\ uptime \in Nat /\ history.boot \in Nat
  BY DEF DocumentInv, BootInv, RunningInv
<1> DEFINE Same == /\ boots' = boots /\ counter' = counter
                   /\ disk'.boots \in {disk.boots, [seen |-> boots, counter |-> counter]}
                   /\ history'.boot = history.boot /\ uptime' \in {uptime, uptime + 1}
<1>1. ASSUME Same PROVE BootInv'
  BY <1>0, <1>1, BootUndisturbed
<1>2. CASE \/ Clock \/ WriteBoots \/ SetConfig \/ RefuseConfig
           \/ SyncPublish \/ SyncTell \/ SyncKnow \/ SyncRation \/ SyncSave \/ SyncPersist
  <2>1. Same
    BY <1>0, <1>2 DEF Clock, WriteBoots, SetConfig, RefuseConfig, SyncPublish, SyncTell, SyncKnow,
                      SyncRation, SyncSave, SyncPersist, memory, outside
  <2> QED BY <1>1, <2>1
<1>3. CASE Observe
  BY <1>3, ObserveBoots
<1>4. CASE Edit
  <2>1. PICK e \in story.edits :
        \/ UpsertRule(e) \/ RemoveRule(e) \/ UpsertProfile(e) \/ RemoveProfile(e)
        \/ UpsertWeekly(e) \/ RemoveWeekly(e) \/ UpsertCalendar(e) \/ RemoveCalendar(e) \/ Draft(e)
    BY <1>4 DEF Edit
  <2>2. (\E d : Adopt(d, Committed)) \/ Draft(e)
    BY <2>1 DEF UpsertRule, RemoveRule, UpsertProfile, RemoveProfile, UpsertWeekly, RemoveWeekly,
                UpsertCalendar, RemoveCalendar
  <2>3. Same
    BY <2>2 DEF Adopt, Draft, memory, outside
  <2> QED BY <1>1, <2>3
<1>5. CASE Tick \/ SyncAdopt
  <2>1. history'.boot = history.boot
    BY <1>0, <1>5 DEF Tick, SyncAdopt, Reconciled
  <2>2. Same
    BY <1>5, <2>1 DEF Tick, SyncAdopt, outside
  <2> QED BY <1>1, <2>2
<1>6. CASE Put_
  <2>1. history'.boot = history.boot
    BY <1>0, <1>6, PutParts DEF Reconciled
  <2> QED BY <1>1, <1>6, <2>1, PutParts
<1>7. ASSUME NEW ask, StartSession(ask) PROVE BootInv'
  <2>1. Same
    BY <1>0, <1>7 DEF StartSession, Undisturbed, outside
  <2> QED BY <1>1, <2>1
<1>8. ASSUME NEW id, NEW claimed, EndSession(id, claimed) PROVE BootInv'
  <2>1. Same
    BY <1>8 DEF EndSession, Undisturbed, outside
  <2> QED BY <1>1, <2>1
<1>9. ASSUME NEW id, RecordCredential(id) \/ ReleasePeer(id) \/ RequestTheRelease(id) \/ SpendPass(id)
      PROVE  BootInv'
  <2>1. Same
    BY <1>0, <1>9 DEF RecordCredential, Checked, ReleasePeer, RequestTheRelease, SpendPass,
                      Undisturbed, outside
  <2> QED BY <1>1, <2>1
<1>10. ASSUME NEW id, NEW payload, ScanToken(id, payload) PROVE BootInv'
  <2>1. history' = history \/ history' = Checked(id, payload)
    BY <1>10 DEF ScanToken
  <2>2. history'.boot = history.boot
    BY <1>0, <2>1 DEF Checked
  <2>3. Same
    BY <1>10, <2>2 DEF ScanToken, Undisturbed, outside
  <2> QED BY <1>1, <2>3
<1>11. ASSUME NEW id, NEW device, PeerReleases(id, device) PROVE BootInv'
  <2>1. Same
    BY <1>0, <1>11 DEF PeerReleases, memory, outside
  <2> QED BY <1>1, <2>1
<1>12. ASSUME NEW reboot \in BOOLEAN, Kill(reboot) PROVE BootInv'
  <2>1. /\ boots' = disk.boots.seen /\ counter' = disk.boots.counter /\ disk' = disk
        /\ uptime' = IF reboot THEN 0 ELSE uptime
        /\ history'.boot = IF reboot THEN history.boot + 1 ELSE history.boot
    BY <1>0, <1>12 DEF Kill, Restored
  <2> QED BY <1>0, <2>1, BootUndisturbed
<1>13. CASE RestoreAgain
  <2>1. /\ boots' = disk.boots.seen /\ counter' = disk.boots.counter
        /\ UNCHANGED <<disk, history, uptime>>
    BY <1>13 DEF RestoreAgain, Restored, outside
  <2> QED BY <1>0, <2>1, BootUndisturbed
<1> QED BY <1>2, <1>3, <1>4, <1>5, <1>6, <1>7, <1>8, <1>9, <1>10, <1>11, <1>12, <1>13 DEF Next

-----------------------------------------------------------------------------
(***************************************************************************)
(* Nothing leaves but by right.                                            *)
(***************************************************************************)
\* What the phone goes by has really been met.
LEMMA ProvenIsMet ==
  ASSUME RunningInv, EvidenceInv, BootInv, NEW s \in sessions.running, releases \subseteq releases',
         NEW shown,
         \A q \in history.checked : Fresh(q, now) =>
           \E r \in shown : r.id = q.id /\ r.lock = q.lock /\ Fresh(r, now)
  PROVE  Claimable \cup Proven(s.id, now) \subseteq Met(s, shown, releases')
<1>1. {q.lock : q \in {q \in proofs : q.id = s.id /\ Fresh(q, now)}}
        \subseteq {q.lock : q \in {q \in shown : q.id = s.id /\ Fresh(q, now)}}
  BY DEF EvidenceInv
<1>2. s.id \in DOMAIN boots /\ boots[s.id] # counter.boot_id => history.born[s.id] # history.boot
  <2>1. PICK b \in 0..history.boot :
        \A id \in DOMAIN boots :
           /\ id \in DOMAIN history.born /\ history.born[id] <= b
           /\ boots[id] # counter.boot_id => history.born[id] < b
    BY DEF BootInv, Tells
  <2>2. history.boot \in Nat /\ \A id \in DOMAIN history.born : history.born[id] \in 0..history.boot
    BY DEF RunningInv
  <2> QED BY <2>1, <2>2
<1>3. \A c \in DOMAIN ReleasedBy : <<s.id, ReleasedBy[c]>> \in released =>
        \/ ReleasedBy[c] = Me /\ s.id \in releases'
        \/ <<s.id, ReleasedBy[c]>> \in log.released
  BY DEF EvidenceInv
<1> QED BY <1>1, <1>2, <1>3 DEF Proven, Met

LEMMA EndRight ==
  ASSUME RunningInv, EvidenceInv, BootInv, NEW id, NEW claimed, EndSession(id, claimed)
  PROVE  RunningInv' /\ BornGrows /\ \A s \in Leaving : ByRight(s)
<1> DEFINE satisfied == Witnessed(claimed) \cup Proven(id, now)
<1>1. /\ sessions' = End(sessions, id, now, satisfied)
      /\ UNCHANGED <<disk, now, history, releases>> /\ acts' = acts + 1
  BY DEF EndSession, Finish, Undisturbed, Does
<1>2. now \in Int /\ acts + 1 \in Nat /\ history.taken \in Nat
  BY DEF RunningInv
<1> HIDE DEF satisfied
<1>3. /\ RunningInv' /\ BornGrows
      /\ \A s \in Leaving : s.id = id /\ CanRelease(s.lock, now, satisfied)
  BY <1>1, <1>2, FinishKeeps
<1>4. ASSUME NEW s \in Leaving PROVE ByRight(s)
  <2>1. s \in sessions.running /\ s.id = id /\ CanRelease(s.lock, now, satisfied)
    BY <1>3 DEF Leaving
  <2>2. Claimable \cup Proven(s.id, now) \subseteq Met(s, history'.checked, releases')
    BY <1>1, <2>1, ProvenIsMet
  <2>3. satisfied \subseteq Claimable \cup Proven(s.id, now)
    BY <2>1 DEF satisfied, Witnessed
  <2> QED BY <2>1, <2>2, <2>3 DEF ByRight, CanRelease
<1> QED BY <1>3, <1>4

LEMMA ReleaseRight ==
  ASSUME RunningInv, EvidenceInv, BootInv, NEW id, ReleasePeer(id)
  PROVE  RunningInv' /\ BornGrows /\ \A s \in Leaving : ByRight(s)
<1> DEFINE opens == IF knows_me THEN {c \in DOMAIN ReleasedBy : ReleasedBy[c] = Me} ELSE {}
           satisfied == Proven(id, now) \cup opens
<1>1. /\ UNCHANGED <<disk, now, history>> /\ acts' = acts + 1
      /\ releases' = releases \cup {id}
      /\ sessions' = End(sessions, id, now, satisfied) \/ sessions' = sessions
  BY DEF ReleasePeer, Finish, Undisturbed, Does
<1>2. now \in Int /\ now \in Nat /\ acts + 1 \in Nat /\ history.taken \in Nat
  BY DEF RunningInv
<1> HIDE DEF satisfied
<1>3. CASE sessions' = sessions
  <2>1. Quiet
    BY <1>1, <1>2, <1>3 DEF Quiet
  <2> QED BY <2>1, QuietKeeps
<1>4. CASE sessions' = End(sessions, id, now, satisfied)
  <2>1. /\ RunningInv' /\ BornGrows
        /\ \A s \in Leaving : s.id = id /\ CanRelease(s.lock, now, satisfied)
    BY <1>1, <1>2, <1>4, FinishKeeps
  <2>2. ASSUME NEW s \in Leaving PROVE ByRight(s)
    <3>1. s \in sessions.running /\ s.id = id /\ CanRelease(s.lock, now, satisfied)
      BY <2>1, <2>2 DEF Leaving
    <3>2. Claimable \cup Proven(s.id, now) \subseteq Met(s, history'.checked, releases')
      BY <1>1, <3>1, ProvenIsMet
    <3>3. opens \subseteq Met(s, history'.checked, releases')
      BY <1>1, <3>1 DEF Met
    <3>4. satisfied \subseteq Met(s, history'.checked, releases')
      BY <3>1, <3>2, <3>3 DEF satisfied
    <3> QED BY <3>1, <3>4 DEF ByRight, CanRelease
  <2> QED BY <2>1, <2>2
<1> QED BY <1>1, <1>3, <1>4

\* The tag that is scanned is fresh evidence of itself.
LEMMA ScanRight ==
  ASSUME DocumentInv, RunningInv, EvidenceInv, BootInv, NEW id, NEW payload, ScanToken(id, payload)
  PROVE  RunningInv' /\ BornGrows /\ \A s \in Leaving : ByRight(s)
<1> DEFINE tags == identify(config.tokens, payload)
           satisfied == Proven(id, now) \cup tags
<1>1. /\ sessions' = End(sessions, id, now, satisfied)
      /\ UNCHANGED <<disk, now, releases>> /\ acts' = acts + 1
      /\ history' = IF tags = {} THEN history ELSE Checked(id, payload)
  BY DEF ScanToken, Finish, Undisturbed, Does
<1>2. now \in Int /\ now \in Nat /\ acts + 1 \in Nat /\ history.taken \in Nat
  BY DEF RunningInv
<1>3. tags \subseteq {payload}
  BY DEF identify
<1>4. \A q : q.at = now => Fresh(q, now)
  BY <1>2, AndroidAssumption DEF Fresh
<1> HIDE DEF satisfied, tags
<1>5. /\ history'.born = history.born /\ history'.boot = history.boot /\ history'.taken = history.taken
      /\ \A q \in history.checked : Fresh(q, now) =>
           \E r \in history'.checked : r.id = q.id /\ r.lock = q.lock /\ Fresh(r, now)
      /\ tags # {} => [id |-> id, lock |-> payload, at |-> now] \in history'.checked
  <2>1. CASE tags = {}
    BY <1>1, <2>1
  <2>2. CASE tags # {}
    <3>1. history' = Checked(id, payload)
      BY <1>1, <2>2
    <3>2. history'.checked = {q \in history.checked : ~(q.id = id /\ q.lock = payload)}
                               \cup {[id |-> id, lock |-> payload, at |-> now]}
      BY <3>1, RecordedIsChecked
    <3>3. history'.born = history.born /\ history'.boot = history.boot /\ history'.taken = history.taken
      BY <3>1 DEF Checked, DocumentInv
    <3>4. ASSUME NEW q \in history.checked, Fresh(q, now)
          PROVE  \E r \in history'.checked : r.id = q.id /\ r.lock = q.lock /\ Fresh(r, now)
      <4>1. CASE q.id = id /\ q.lock = payload
        <5> DEFINE r == [id |-> id, lock |-> payload, at |-> now]
        <5>1. r.id = q.id /\ r.lock = q.lock /\ Fresh(r, now) /\ r \in history'.checked
          BY <1>4, <3>2, <4>1
        <5> QED BY <5>1
      <4>2. CASE ~(q.id = id /\ q.lock = payload)
        BY <3>2, <3>4, <4>2
      <4> QED BY <4>1, <4>2
    <3> QED BY <3>2, <3>3, <3>4
  <2> QED BY <2>1, <2>2
<1>6. /\ RunningInv' /\ BornGrows
      /\ \A s \in Leaving : s.id = id /\ CanRelease(s.lock, now, satisfied)
  BY <1>1, <1>2, <1>5, FinishKeeps
<1>7. ASSUME NEW s \in Leaving PROVE ByRight(s)
  <2>1. s \in sessions.running /\ s.id = id /\ CanRelease(s.lock, now, satisfied)
    BY <1>6, <1>7 DEF Leaving
  <2>2. Claimable \cup Proven(s.id, now) \subseteq Met(s, history'.checked, releases')
    BY <1>1, <1>5, <2>1, ProvenIsMet
  <2>3. tags \subseteq Met(s, history'.checked, releases')
    <3>1. SUFFICES ASSUME tags # {} PROVE payload \in Met(s, history'.checked, releases')
      BY <1>3
    <3> DEFINE r == [id |-> id, lock |-> payload, at |-> now]
    <3>2. r \in history'.checked /\ r.id = s.id /\ Fresh(r, now) /\ r.lock = payload
      BY <1>4, <1>5, <2>1, <3>1
    <3> HIDE DEF r
    <3> QED BY <3>2 DEF Met
  <2>4. satisfied \subseteq Met(s, history'.checked, releases')
    BY <2>1, <2>2, <2>3 DEF satisfied
  <2> QED BY <2>1, <2>4 DEF ByRight, CanRelease
<1> QED BY <1>6, <1>7

LEMMA PutRight ==
  ASSUME DocumentInv, RunningInv, Put_
  PROVE  RunningInv' /\ BornGrows /\ \A s \in Leaving : ByRight(s)
<1>0. /\ DOMAIN disk = {"config", "sessions", "passes", "boots", "releases", "log"}
      /\ now \in Nat /\ acts \in Nat /\ history.taken \in Nat
  BY DEF DocumentInv, RunningInv
<1>1. /\ Head(pending) \in Rows /\ UNCHANGED <<now, acts>>
      /\ IF Head(pending) = "reconcile" THEN Reconciled({}) ELSE UNCHANGED <<sessions, source, history>>
      /\ disk'.sessions = IF Head(pending) = "sessions" THEN [running |-> sessions, source |-> source]
                          ELSE disk.sessions
  BY PutParts
<1>3. CASE Head(pending) = "reconcile"
  <2>1. Reconciled({}) /\ disk'.sessions = disk.sessions
    BY <1>1, <1>3
  <2>2. {} \in SUBSET Event /\ IsFiniteSet({})
    BY FS_EmptySet
  <2> QED BY <1>1, <2>1, <2>2, ReconciledKeeps DEF ByRight
<1>4. CASE Head(pending) = "sessions"
  <2>1. disk'.sessions.running = sessions /\ UNCHANGED <<sessions, history, now, acts>>
    BY <1>0, <1>1, <1>4
  <2>2. RunningInv'
    BY <2>1 DEF RunningInv
  <2> QED BY <2>1, <2>2 DEF BornGrows, Leaving, RunningIds
<1>5. CASE Head(pending) \notin {"reconcile", "sessions"}
  <2>1. disk'.sessions = disk.sessions
    BY <1>1, <1>5
  <2>2. Quiet
    BY <1>0, <1>1, <1>5, <2>1 DEF Quiet
  <2> QED BY <2>2, QuietKeeps
<1> QED BY <1>3, <1>4, <1>5

\* Only a session that no row has is not there after a death.
LEMMA KillRight ==
  ASSUME DocumentInv, RunningInv, NEW reboot \in BOOLEAN, Kill(reboot)
  PROVE  RunningInv' /\ BornGrows /\ \A s \in Leaving : ByRight(s)
<1>1. /\ sessions' = Restore(Default, disk.sessions.running)
      /\ history' = [history EXCEPT !.deaths = @ + 1, !.boot = IF reboot THEN @ + 1 ELSE @]
      /\ disk' = disk /\ now' = now /\ acts' = acts + 1
  BY DEF Kill, Restored, Does
<1>2. /\ history'.born = history.born /\ history'.taken = history.taken
      /\ history'.deaths = history.deaths + 1
      /\ history'.boot = IF reboot THEN history.boot + 1 ELSE history.boot
  BY <1>1 DEF DocumentInv
<1>3. /\ Well(sessions') /\ RunningIds(sessions') \subseteq RunningIds(disk.sessions.running)
      /\ RunningIds(disk.sessions.running) \subseteq RunningIds(sessions')
  BY <1>1, RestoreWell, DefaultWell DEF RunningInv
<1>4. history'.boot \in Nat /\ \A id \in DOMAIN history.born : history.born[id] \in 0..history'.boot
  BY <1>2 DEF RunningInv
<1>5. RunningInv' /\ BornGrows
  BY <1>1, <1>2, <1>3, <1>4 DEF RunningInv, BornGrows
<1>6. \A s \in Leaving : ByRight(s)
  BY <1>2, <1>3 DEF Leaving, ByRight, DocumentInv
<1> QED BY <1>5, <1>6

LEMMA RightStep ==
  ASSUME DocumentInv, RunningInv, EvidenceInv, BootInv, Next
  PROVE  RunningInv' /\ BornGrows /\ \A s \in Leaving : ByRight(s)
<1>0. now \in Nat /\ acts \in Nat /\ acts + 1 \in Nat /\ history.taken \in Nat /\ story \in Stories
      /\ DOMAIN history = {"checked", "born", "boot", "spent", "taken", "deaths"}
  BY DEF RunningInv, DocumentInv
<1>1. CASE \/ Clock \/ Observe \/ WriteBoots \/ Edit \/ SetConfig \/ RefuseConfig
           \/ SyncPublish \/ SyncTell \/ SyncKnow \/ SyncRation \/ SyncSave \/ SyncPersist
           \/ \E id : RecordCredential(id) \/ \E device : PeerReleases(id, device)
  BY <1>1, QuietSteps, QuietKeeps
<1>2. CASE Tick
  <2>1. Reconciled(story.events) /\ UNCHANGED <<disk, now, acts>>
    BY <1>2 DEF Tick
  <2>2. story.events \in SUBSET Event /\ IsFiniteSet(story.events)
    BY <1>0, StoryTyped
  <2> QED BY <2>1, <2>2, ReconciledKeeps DEF ByRight
<1>3. CASE Put_
  BY <1>3, PutRight
<1>4. ASSUME NEW ask \in story.asks, StartSession(ask)
      PROVE  RunningInv' /\ BornGrows /\ Leaving = {}
  <2> DEFINE s == [id |-> <<ask.profile, 100 + acts>>, profile |-> ask.profile, started_at |-> now,
                   lock |-> LockOf(ask.locks, now + ask.seconds)]
  <2>1. ask.profile \in Profiles /\ ask.seconds \in Nat /\ ask.locks \subseteq Conditions
    BY <1>0, StoryTyped
  <2>2. LockOf(ask.locks, now + ask.seconds) \in LockSet
    BY <1>0, <2>1, LockOfType DEF Optional
  <2>3. s \in Session /\ s.id[1] = s.profile
    BY <1>0, <2>1, <2>2 DEF Session, Ids
  <2>4. /\ sessions' = Start(sessions, s) /\ history' = [history EXCEPT !.born = Remember(sessions')]
        /\ UNCHANGED <<disk, now>> /\ acts' = acts + 1
    BY <1>4 DEF StartSession, Undisturbed, Does
  <2> HIDE DEF s
  <2> QED BY <1>0, <2>3, <2>4, StartKeeps
<1>5. CASE SyncAdopt
  <2>1. UNCHANGED <<disk, now, acts>>
    BY <1>5 DEF SyncAdopt
  <2>2. CASE UNCHANGED <<sessions, source, history>>
    <3>1. Quiet
      BY <1>0, <2>1, <2>2 DEF Quiet
    <3> QED BY <3>1, QuietKeeps
  <2>3. ASSUME NEW a \in story.comes,
               LET s == [id |-> <<a.profile, 50>>, profile |-> a.profile, started_at |-> now,
                         lock |-> LockOf(a.locks, a.seconds)]
               IN  /\ sessions' = Start(sessions, s)
                   /\ history' = [history EXCEPT !.born = Remember(sessions')]
        PROVE  RunningInv' /\ BornGrows /\ Leaving = {}
    <3> DEFINE s == [id |-> <<a.profile, 50>>, profile |-> a.profile, started_at |-> now,
                     lock |-> LockOf(a.locks, a.seconds)]
    <3>1. a.profile \in Profiles /\ a.seconds \in Nat /\ a.locks \subseteq Conditions
      BY <1>0, StoryTyped
    <3>2. LockOf(a.locks, a.seconds) \in LockSet
      BY <3>1, LockOfType DEF Optional
    <3>3. s \in Session /\ s.id[1] = s.profile
      BY <1>0, <3>1, <3>2 DEF Session, Ids
    <3>4. /\ sessions' = Start(sessions, s) /\ history' = [history EXCEPT !.born = Remember(sessions')]
      BY <2>3
    <3> HIDE DEF s
    <3> QED BY <1>0, <2>1, <3>3, <3>4, StartKeeps
  <2> QED BY <1>5, <2>2, <2>3 DEF SyncAdopt
<1>6. ASSUME NEW id, NEW claimed, EndSession(id, claimed)
      PROVE  RunningInv' /\ BornGrows /\ \A s \in Leaving : ByRight(s)
  BY <1>6, EndRight
<1>7. ASSUME NEW id, ReleasePeer(id)
      PROVE  RunningInv' /\ BornGrows /\ \A s \in Leaving : ByRight(s)
  BY <1>7, ReleaseRight
<1>8. ASSUME NEW id, NEW payload, ScanToken(id, payload)
      PROVE  RunningInv' /\ BornGrows /\ \A s \in Leaving : ByRight(s)
  BY <1>8, ScanRight
<1>9. ASSUME NEW id, RequestTheRelease(id) PROVE RunningInv' /\ BornGrows /\ Leaving = {}
  <2>1. sessions' = AskRelease(sessions, id, now) /\ UNCHANGED <<disk, now, history>> /\ acts' = acts + 1
    BY <1>9 DEF RequestTheRelease, Undisturbed, Does
  <2>2. Well(sessions') /\ RunningIds(sessions') = RunningIds(sessions)
    BY <1>0, <2>1, AskReleaseWell DEF RunningInv
  <2>3. RunningInv'
    BY <1>0, <2>1, <2>2 DEF RunningInv
  <2> QED BY <2>1, <2>2, <2>3 DEF BornGrows, Leaving, RunningIds
<1>10. ASSUME NEW id, SpendPass(id)
       PROVE  RunningInv' /\ BornGrows /\ \A s \in Leaving : ByRight(s)
  <2> DEFINE satisfied == UNION {s.lock.conditions : s \in Running(sessions, id)}
  <2>1. /\ sessions' = End(sessions, id, now, satisfied) /\ UNCHANGED <<disk, now>> /\ acts' = acts + 1
        /\ history'.born = history.born /\ history'.boot = history.boot
        /\ history'.taken = history.taken + 1
    BY <1>0, <1>10 DEF SpendPass, Undisturbed, Does
  <2>2. history'.taken \in Nat /\ history'.taken # history.taken
    BY <1>0, <2>1
  <2> HIDE DEF satisfied
  <2> QED BY <1>0, <2>1, <2>2, FinishKeeps DEF ByRight
<1>11. ASSUME NEW reboot \in BOOLEAN, Kill(reboot)
       PROVE  RunningInv' /\ BornGrows /\ \A s \in Leaving : ByRight(s)
  BY <1>11, KillRight
<1>12. CASE RestoreAgain
  <2>1. sessions' = Restore(sessions, disk.sessions.running) /\ UNCHANGED <<disk, now, acts, history>>
    BY <1>12 DEF RestoreAgain, Restored
  <2>2. /\ Well(sessions') /\ RunningIds(sessions) \subseteq RunningIds(sessions')
        /\ RunningIds(sessions') \subseteq RunningIds(sessions) \cup RunningIds(disk.sessions.running)
    BY <2>1, RestoreWell DEF RunningInv
  <2>3. RunningInv'
    BY <1>0, <2>1, <2>2 DEF RunningInv
  <2> QED BY <2>1, <2>2, <2>3 DEF BornGrows, Leaving, RunningIds
<1> QED BY <1>1, <1>2, <1>3, <1>4, <1>5, <1>6, <1>7, <1>8, <1>9, <1>10, <1>11, <1>12 DEF Next

RightInv == DocumentInv /\ RunningInv /\ EvidenceInv /\ BootInv

\* What the phone goes by, for as long as it runs, dies and starts again.
THEOREM RightSafe == Spec => []RightInv
<1>1. ASSUME Init PROVE RightInv
  <2>1. DocumentInv
    BY <1>1, StoryParts DEF Init, DocumentInv, Rows
  <2>2. /\ sessions = Default /\ disk.sessions.running = Default /\ now = 0 /\ acts = 0
        /\ history = [checked |-> {}, born |-> Nothing, boot |-> 0, spent |-> {}, taken |-> 0, deaths |-> 0]
    BY <1>1 DEF Init
  <2>3. DOMAIN history.born = {}
    BY <2>2 DEF Nothing
  <2>4. RunningInv
    BY <2>2, <2>3, DefaultWell DEF RunningInv
  <2>5. EvidenceInv
    BY <1>1 DEF Init, EvidenceInv, AtRest
  <2>6. BootInv
    <3>1. /\ uptime = 0 /\ counter = [last_uptime |-> 0, boot_id |-> 0] /\ DOMAIN boots = {}
          /\ disk.boots.seen = boots /\ disk.boots.counter = counter
      BY <1>1 DEF Init, Nothing
    <3>2. 0 \in 0..history.boot /\ counter.last_uptime <= uptime
      BY <2>2, <3>1
    <3>3. Tells(boots, counter)
      BY <3>1, <3>2 DEF Tells
    <3> QED BY <3>1, <3>3 DEF BootInv
  <2> QED BY <2>1, <2>4, <2>5, <2>6 DEF RightInv
<1>2. ASSUME RightInv, Next PROVE RightInv'
  <2>1. DocumentInv' /\ RunningInv' /\ BornGrows /\ EvidenceInv'
    BY <1>2, DocumentStep, RightStep, EvidenceStep DEF RightInv
  <2>2. BootInv'
    BY <1>2, <2>1, BootStep DEF RightInv
  <2> QED BY <2>1, <2>2 DEF RightInv
<1>3. ASSUME RightInv, UNCHANGED vars PROVE RightInv'
  BY <1>3 DEF vars, outside, memory, RightInv, DocumentInv, RunningInv, EvidenceInv, BootInv, Tells
<1> QED BY <1>1, <1>2, <1>3, PTL DEF Spec

(***************************************************************************)
(* end_session, lib.rs 480-485: whoever acts on the phone, in whatever     *)
(* order and however often it dies, a session leaves when it is over, when *)
(* all of its conditions have really been met, or with a pass; and with    *)
(* the process only when no row has it yet.                                *)
(***************************************************************************)
THEOREM OnlyEverByRight == Spec => OnlyByRight
<1> DEFINE Held == \A s \in sessions.running : s.id \notin RunningIds(sessions') => ByRight(s)
<1>1. ASSUME RightInv, Next PROVE Held
  BY <1>1, RightStep DEF RightInv, Leaving
<1>2. RightInv /\ [Next]_vars => [Held]_vars
  BY <1>1
<1> QED BY <1>2, RightSafe, PTL DEF Spec, OnlyByRight, ByRight
=============================================================================
