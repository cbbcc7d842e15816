--------------------------- MODULE BlockingProofs ----------------------------
(***************************************************************************)
(* What the Windows service keeps to while it goes by a document, for any  *)
(* documents, programs, browsers, waits, crashes and edits of the file.    *)
(***************************************************************************)
EXTENDS Blocking, FiniteSetTheorems, WellFoundedInduction, TLAPS

-----------------------------------------------------------------------------
(***************************************************************************)
(* Finite sets of numbers have a least and a greatest.                     *)
(***************************************************************************)
LEMMA PairFinite == ASSUME NEW a, NEW b PROVE IsFiniteSet({a, b})
<1>1. IsFiniteSet({} \cup {a})
  BY FS_EmptySet, FS_AddElement
<1>2. IsFiniteSet({a} \cup {b})
  BY <1>1, FS_AddElement
<1>3. {a} \cup {b} = {a, b}
  OBVIOUS
<1> QED BY <1>2, <1>3

LEMMA ImageFinite ==
  ASSUME NEW S, IsFiniteSet(S), NEW f, S \subseteq DOMAIN f
  PROVE  IsFiniteSet({f[x] : x \in S})
<1> DEFINE T == {f[x] : x \in S}
           g == [x \in S |-> f[x]]
<1>1. g \in Surjection(S, T)
  BY DEF Surjection
<1> QED BY <1>1, FS_Surjection

\* Of some subsets of a finite set one has none of the others in it.
Least(V, B) == \A U \in B : U \subseteq V => U = V

LEMMA LeastSet ==
  ASSUME NEW S, IsFiniteSet(S), NEW B, B \subseteq SUBSET S, B # {}
  PROVE  \E V \in B : Least(V, B)
<1> DEFINE R == StrictSubsetOrdering(S)
<1>1. IsWellFoundedOn(R, FiniteSubsetsOf(S))
  BY FS_StrictSubsetOrderingWellFounded
<1>2. B \subseteq FiniteSubsetsOf(S)
  BY FS_FiniteSubsetsOfFinite
<1>3. \A U, V \in SUBSET S : U \subseteq V /\ U # V => <<U, V>> \in R
  BY DEF StrictSubsetOrdering
<1> HIDE DEF R
<1>4. PICK V \in B : \A U \in B : ~(<<U, V>> \in R)
  BY <1>1, <1>2, WFMin
<1>5. \A U \in B : U \in SUBSET S
  OBVIOUS
<1> QED BY <1>3, <1>4, <1>5 DEF Least

LEMMA MaxOf ==
  ASSUME NEW S \in SUBSET Int, IsFiniteSet(S), S # {}
  PROVE  Max(S) \in S /\ \A y \in S : Max(S) >= y
<1> DEFINE Above(x) == {y \in S : y > x}
           T == {Above(x) : x \in S}
<1>1. T \subseteq SUBSET S /\ T # {}
  OBVIOUS
<1>2. \A x \in S : Above(x) \in T
  OBVIOUS
<1> HIDE DEF T
<1>3. PICK V \in T : Least(V, T)
  BY <1>1, LeastSet
<1>4. PICK x \in S : V = Above(x)
  BY <1>3 DEF T
<1>5. ASSUME NEW y \in S, y > x PROVE FALSE
  <2>1. Above(y) \subseteq Above(x)
    <3> SUFFICES ASSUME NEW z \in S, z > y PROVE z > x
      OBVIOUS
    <3>1. x \in Int /\ y \in Int /\ z \in Int
      OBVIOUS
    <3> QED BY <1>5, <3>1
  <2>2. y \in Above(x) /\ y \notin Above(y)
    BY <1>5
  <2> QED BY <1>2, <1>3, <1>4, <2>1, <2>2 DEF Least
<1>6. \A y \in S : x >= y
  BY <1>5
<1> QED BY <1>6 DEF Max

LEMMA MinOf ==
  ASSUME NEW S \in SUBSET Int, IsFiniteSet(S), S # {}
  PROVE  Min(S) \in S /\ \A y \in S : Min(S) <= y
<1> DEFINE minus == [x \in S |-> 0 - x]
           T == {minus[x] : x \in S}
<1>1. IsFiniteSet(T)
  BY ImageFinite
<1>2. T \in SUBSET Int /\ T # {} /\ \A x \in S : 0 - x \in T
  <2>1. \A x \in S : minus[x] \in Int /\ minus[x] = 0 - x
    OBVIOUS
  <2> HIDE DEF minus
  <2> QED BY <2>1
<1> HIDE DEF T
<1>3. Max(T) \in T /\ \A t \in T : Max(T) >= t
  BY <1>1, <1>2, MaxOf
<1>4. PICK m \in S : Max(T) = 0 - m
  BY <1>3 DEF T
<1>5. ASSUME NEW y \in S PROVE m <= y
  <2>1. 0 - m >= 0 - y /\ m \in Int /\ y \in Int
    BY <1>2, <1>3, <1>4
  <2> QED BY <2>1
<1> QED BY <1>5 DEF Min

-----------------------------------------------------------------------------
(***************************************************************************)
(* A sum does not depend on the order in which it is taken.  That it       *)
(* exists, and what it is of every set, are shown of the least set of      *)
(* which that would not hold.                                              *)
(***************************************************************************)
First(V) == CHOOSE s \in V : TRUE

LEMMA FirstIsIn == ASSUME NEW V, V # {} PROVE First(V) \in V
BY DEF First

SumOf(h, V, f) == IF V = {} THEN 0 ELSE f[First(V)] + h[V \ {First(V)}]

Sums(h, S, f) == h = [V \in SUBSET S |-> SumOf(h, V, f)]

LEMMA SumsAgree ==
  ASSUME NEW f, NEW V, NEW W, NEW U, IsFiniteSet(U), U \subseteq V, U \subseteq W,
         NEW g, Sums(g, V, f), NEW h, Sums(h, W, f)
  PROVE  g[U] = h[U]
<1> DEFINE bad == {X \in SUBSET U : g[X] # h[X]}
<1> SUFFICES ASSUME bad # {} PROVE FALSE
  OBVIOUS
<1>1. PICK X \in bad : Least(X, bad)
  BY LeastSet
<1>2. g[X] = SumOf(g, X, f) /\ h[X] = SumOf(h, X, f) /\ X \in SUBSET U
  BY DEF Sums
<1>3. CASE X = {}
  BY <1>1, <1>2, <1>3 DEF SumOf
<1>4. CASE X # {}
  <2>1. X \ {First(X)} # X /\ X \ {First(X)} \subseteq X
    BY <1>4, FirstIsIn
  <2>2. g[X \ {First(X)}] = h[X \ {First(X)}]
    BY <1>1, <1>2, <2>1 DEF Least
  <2> QED BY <1>1, <1>2, <1>4, <2>2 DEF SumOf
<1> QED BY <1>3, <1>4

LEMMA SumsExist == ASSUME NEW f, NEW S, IsFiniteSet(S) PROVE \E h : Sums(h, S, f)
<1> DEFINE Has(V) == \E h : Sums(h, V, f)
           bad == {V \in SUBSET S : ~Has(V)}
<1> SUFFICES ASSUME bad # {} PROVE FALSE
  <2>1. S \in SUBSET S
    OBVIOUS
  <2> QED BY <2>1
<1>1. PICK V \in bad : Least(V, bad)
  BY LeastSet
<1>2. V \in SUBSET S /\ ~Has(V) /\ \A U \in SUBSET V : U # V => Has(U)
  <2>1. \A U \in SUBSET V : U \in SUBSET S /\ (U \in bad => U = V)
    BY <1>1 DEF Least
  <2> QED BY <1>1, <2>1
<1>3. IsFiniteSet(V) /\ \A U \in SUBSET V : IsFiniteSet(U)
  BY <1>2, FS_Subset
<1> HIDE DEF bad
<1> DEFINE H == [U \in SUBSET V |-> CHOOSE h : Sums(h, U, f)]
           of == [U \in SUBSET V |-> H[U][U]]
           h == [U \in SUBSET V |-> IF U = V THEN SumOf(of, V, f) ELSE of[U]]
<1>4. \A U \in SUBSET V : U # V => Sums(H[U], U, f)
  BY <1>2
<1> HIDE DEF H, Has
<1>5. ASSUME NEW U \in SUBSET V, U # V PROVE of[U] = SumOf(of, U, f)
  <2>1. of[U] = SumOf(H[U], U, f)
    <3>1. U \in SUBSET U
      OBVIOUS
    <3> QED BY <1>4, <1>5, <3>1 DEF Sums
  <2>2. CASE U = {}
    BY <2>1, <2>2 DEF SumOf
  <2>3. CASE U # {}
    <3> DEFINE X == U \ {First(U)}
    <3>1. X \in SUBSET V /\ X \subseteq U /\ X # V /\ IsFiniteSet(X)
      BY <1>3, <2>3, FirstIsIn
    <3>2. Sums(H[U], U, f) /\ Sums(H[X], X, f)
      BY <1>4, <1>5, <3>1
    <3> HIDE DEF X
    <3>3. H[U][X] = H[X][X]
      BY <3>1, <3>2, SumsAgree
    <3>4. of[X] = H[U][X]
      BY <3>1, <3>3
    <3> QED BY <2>1, <2>3, <3>4 DEF SumOf, X
  <2> QED BY <2>2, <2>3
<1>6. ASSUME NEW U \in SUBSET V PROVE SumOf(of, U, f) = SumOf(h, U, f)
  <2>1. CASE U = {}
    BY <2>1 DEF SumOf
  <2>2. CASE U # {}
    <3> DEFINE X == U \ {First(U)}
    <3>1. X \in SUBSET V /\ X # V
      BY <2>2, FirstIsIn
    <3>2. h[X] = of[X]
      BY <3>1
    <3> QED BY <2>2, <3>2 DEF SumOf
  <2> QED BY <2>1, <2>2
<1>7. \A U \in SUBSET V : h[U] = SumOf(of, U, f)
  BY <1>5
<1>8. h = [U \in SUBSET V |-> SumOf(h, U, f)]
  <2>1. h = [U \in SUBSET V |-> h[U]]
    OBVIOUS
  <2> HIDE DEF h
  <2> QED BY <1>6, <1>7, <2>1
<1> QED BY <1>2, <1>8 DEF Sums, Has

LEMMA SumIs ==
  ASSUME NEW f, NEW S, IsFiniteSet(S)
  PROVE  \E h : Sums(h, S, f) /\ SumFunctionOnSet(f, S) = h[S]
<1> DEFINE iter[V \in SUBSET S] == IF V = {} THEN 0
                                   ELSE LET x == CHOOSE x \in V : TRUE IN f[x] + iter[V \ {x}]
<1>1. SumFunctionOnSet(f, S) = iter[S]
  BY DEF SumFunctionOnSet, FoldFunctionOnSet, MapThenFoldSet
<1> DEFINE Is(h) == h = [V \in SUBSET S |-> IF V = {} THEN 0
                          ELSE LET x == CHOOSE x \in V : TRUE IN f[x] + h[V \ {x}]]
<1>2. \A h : Sums(h, S, f) <=> Is(h)
  BY DEF Sums, SumOf, First
<1>3. Is(iter)
  <2>1. \E h : Is(h)
    <3> HIDE DEF Is
    <3> QED BY <1>2, SumsExist
  <2> QED BY <2>1
<1> HIDE DEF iter, Is
<1> QED BY <1>1, <1>2, <1>3

LEMMA SumStep ==
  ASSUME NEW f, NEW V, IsFiniteSet(V)
  PROVE  SumFunctionOnSet(f, V) = IF V = {} THEN 0
                                  ELSE f[First(V)] + SumFunctionOnSet(f, V \ {First(V)})
<1>1. PICK h : Sums(h, V, f) /\ SumFunctionOnSet(f, V) = h[V]
  BY SumIs
<1>2. h[V] = SumOf(h, V, f)
  <2>1. V \in SUBSET V
    OBVIOUS
  <2> QED BY <1>1, <2>1 DEF Sums
<1>3. CASE V = {}
  BY <1>1, <1>2, <1>3 DEF SumOf
<1>4. CASE V # {}
  <2> DEFINE X == V \ {First(V)}
  <2>1. X \subseteq V /\ X \subseteq X /\ IsFiniteSet(X)
    BY FS_Subset
  <2> HIDE DEF X
  <2>2. PICK g : Sums(g, X, f) /\ SumFunctionOnSet(f, X) = g[X]
    BY <2>1, SumIs
  <2>3. h[X] = g[X]
    BY <1>1, <2>1, <2>2, SumsAgree
  <2> QED BY <1>1, <1>2, <1>4, <2>2, <2>3 DEF SumOf, X
<1> QED BY <1>3, <1>4

Numeric(f, S) == \A x \in S : f[x] \in Int

LEMMA SumInt ==
  ASSUME NEW f, NEW S, IsFiniteSet(S), Numeric(f, S) PROVE SumFunctionOnSet(f, S) \in Int
<1> DEFINE bad == {V \in SUBSET S : SumFunctionOnSet(f, V) \notin Int}
<1> SUFFICES ASSUME bad # {} PROVE FALSE
  OBVIOUS
<1>1. PICK V \in bad : Least(V, bad)
  BY LeastSet
<1>2. V \subseteq S /\ IsFiniteSet(V) /\ SumFunctionOnSet(f, V) \notin Int
  BY <1>1, FS_Subset
<1>3. V # {}
  <2>1. V = {} => SumFunctionOnSet(f, V) = 0
    BY <1>2, SumStep
  <2> QED BY <1>2, <2>1
<1> DEFINE X == V \ {First(V)}
<1>4. First(V) \in S /\ X \subseteq S /\ X \subseteq V /\ X # V
  BY <1>2, <1>3, FirstIsIn
<1>5. SumFunctionOnSet(f, X) \in Int
  BY <1>1, <1>4 DEF Least
<1>6. SumFunctionOnSet(f, V) = f[First(V)] + SumFunctionOnSet(f, X)
  BY <1>2, <1>3, SumStep
<1> QED BY <1>2, <1>4, <1>5, <1>6 DEF Numeric

LEMMA SumTake ==
  ASSUME NEW f, NEW S, IsFiniteSet(S), Numeric(f, S), NEW x \in S
  PROVE  SumFunctionOnSet(f, S) = f[x] + SumFunctionOnSet(f, S \ {x})
<1> DEFINE Sum(V) == SumFunctionOnSet(f, V)
           Takes(V) == \A y \in V : Sum(V) = f[y] + Sum(V \ {y})
           bad == {V \in SUBSET S : ~Takes(V)}
<1>0. ASSUME NEW V \in SUBSET S
      PROVE  /\ IsFiniteSet(V) /\ Sum(V) \in Int
             /\ V # {} => First(V) \in V /\ f[First(V)] \in Int /\ Sum(V) = f[First(V)] + Sum(V \ {First(V)})
  <2>1. IsFiniteSet(V) /\ Numeric(f, V)
    BY FS_Subset DEF Numeric
  <2> QED BY <2>1, SumInt, SumStep, FirstIsIn DEF Numeric
<1> HIDE DEF Sum
<1>1. ASSUME bad # {} PROVE FALSE
  <2>1. PICK V \in bad : Least(V, bad)
    BY <1>1, LeastSet
  <2>2. V \in SUBSET S /\ \A U \in SUBSET V : U # V => Takes(U)
    <3>1. \A U \in SUBSET V : U \in SUBSET S /\ (U \in bad => U = V)
      BY <2>1 DEF Least
    <3> QED BY <2>1, <3>1
  <2>3. PICK y \in V : Sum(V) # f[y] + Sum(V \ {y})
    BY <2>1
  <2> HIDE DEF bad
  <2> DEFINE c == First(V)
  <2>4. c \in V /\ Sum(V) = f[c] + Sum(V \ {c}) /\ f[c] \in Int /\ f[y] \in Int
    BY <1>0, <2>2, <2>3 DEF Numeric
  <2> HIDE DEF c
  <2>5. y # c
    BY <2>3, <2>4
  <2>6. V \ {c} \in SUBSET V /\ V \ {c} # V /\ V \ {y} \in SUBSET V /\ V \ {y} # V
        /\ y \in V \ {c} /\ c \in V \ {y} /\ (V \ {c}) \ {y} = (V \ {y}) \ {c}
    BY <2>3, <2>4, <2>5
  <2>7. Sum(V \ {c}) = f[y] + Sum((V \ {c}) \ {y})
    BY <2>2, <2>6
  <2>8. Sum(V \ {y}) = f[c] + Sum((V \ {c}) \ {y})
    BY <2>2, <2>6
  <2>9. Sum((V \ {c}) \ {y}) \in Int
    BY <1>0, <2>2
  <2> QED BY <2>3, <2>4, <2>7, <2>8, <2>9
<1>2. S \in SUBSET S
  OBVIOUS
<1> QED BY <1>1, <1>2 DEF Sum

LEMMA SumSame ==
  ASSUME NEW f, NEW g, NEW S, IsFiniteSet(S), \A x \in S : f[x] = g[x]
  PROVE  SumFunctionOnSet(f, S) = SumFunctionOnSet(g, S)
<1> DEFINE bad == {V \in SUBSET S : SumFunctionOnSet(f, V) # SumFunctionOnSet(g, V)}
<1> SUFFICES ASSUME bad # {} PROVE FALSE
  OBVIOUS
<1>1. PICK V \in bad : Least(V, bad)
  BY LeastSet
<1>2. V \subseteq S /\ IsFiniteSet(V) /\ SumFunctionOnSet(f, V) # SumFunctionOnSet(g, V)
  BY <1>1, FS_Subset
<1>3. V # {}
  BY <1>2, SumStep
<1> DEFINE X == V \ {First(V)}
<1>4. First(V) \in S /\ X \subseteq S /\ X \subseteq V /\ X # V
  BY <1>2, <1>3, FirstIsIn
<1>5. SumFunctionOnSet(f, X) = SumFunctionOnSet(g, X)
  BY <1>1, <1>4 DEF Least
<1>6. /\ SumFunctionOnSet(f, V) = f[First(V)] + SumFunctionOnSet(f, X)
      /\ SumFunctionOnSet(g, V) = g[First(V)] + SumFunctionOnSet(g, X)
  BY <1>2, <1>3, SumStep
<1> QED BY <1>2, <1>4, <1>5, <1>6

LEMMA SumAtMost ==
  ASSUME NEW f, NEW S, IsFiniteSet(S), NEW most \in Int, \A x \in S : f[x] \in Int /\ f[x] <= most
  PROVE  SumFunctionOnSet(f, S) <= Cardinality(S) * most
<1> DEFINE Few(V) == SumFunctionOnSet(f, V) <= Cardinality(V) * most
           bad == {V \in SUBSET S : ~Few(V)}
<1>1. ASSUME bad # {} PROVE FALSE
  <2>1. PICK V \in bad : Least(V, bad)
    BY <1>1, LeastSet
  <2>2. V \subseteq S /\ IsFiniteSet(V) /\ ~Few(V)
    BY <2>1, FS_Subset
  <2>3. V # {}
    <3>1. V = {} => SumFunctionOnSet(f, V) = 0 /\ Cardinality(V) = 0
      BY <2>2, SumStep, FS_EmptySet
    <3>2. 0 * most = 0
      OBVIOUS
    <3> QED BY <2>2, <3>1, <3>2
  <2> DEFINE c == First(V)
             X == V \ {c}
  <2>4. c \in V /\ c \in S /\ X \subseteq S /\ X \subseteq V /\ X # V /\ c \notin X /\ V = X \cup {c}
    BY <2>2, <2>3, FirstIsIn
  <2>5. Few(X)
    BY <2>1, <2>4 DEF Least
  <2>6. SumFunctionOnSet(f, V) = f[c] + SumFunctionOnSet(f, X)
    BY <2>2, <2>3, SumStep
  <2> HIDE DEF c, X
  <2>7. IsFiniteSet(X) /\ Numeric(f, X)
    BY <2>4, FS_Subset DEF Numeric
  <2>8. SumFunctionOnSet(f, X) \in Int /\ Cardinality(X) \in Nat /\ Cardinality(V) = Cardinality(X) + 1
    BY <2>4, <2>7, SumInt, FS_CardinalityType, FS_AddElement
  <2>9. f[c] \in Int /\ f[c] <= most
    BY <2>4
  <2>10. (Cardinality(X) + 1) * most = Cardinality(X) * most + most
    BY <2>8
  <2>11. Cardinality(X) * most \in Int
    BY <2>8
  <2> QED BY <2>2, <2>5, <2>6, <2>8, <2>9, <2>10, <2>11
<1>2. S \in SUBSET S
  OBVIOUS
<1> HIDE DEF Few
<1>3. Few(S)
  BY <1>1, <1>2
<1> QED BY <1>3 DEF Few

LEMMA SumOfNoughts ==
  ASSUME NEW f, NEW S, IsFiniteSet(S), \A x \in S : f[x] = 0
  PROVE  SumFunctionOnSet(f, S) = 0
<1> DEFINE bad == {V \in SUBSET S : SumFunctionOnSet(f, V) # 0}
<1> SUFFICES ASSUME bad # {} PROVE FALSE
  OBVIOUS
<1>1. PICK V \in bad : Least(V, bad)
  BY LeastSet
<1>2. V \subseteq S /\ IsFiniteSet(V) /\ SumFunctionOnSet(f, V) # 0
  BY <1>1, FS_Subset
<1>3. V # {}
  BY <1>2, SumStep
<1> DEFINE X == V \ {First(V)}
<1>4. First(V) \in S /\ X \subseteq S /\ X \subseteq V /\ X # V
  BY <1>2, <1>3, FirstIsIn
<1>5. SumFunctionOnSet(f, X) = 0
  BY <1>1, <1>4 DEF Least
<1>6. SumFunctionOnSet(f, V) = f[First(V)] + SumFunctionOnSet(f, X)
  BY <1>2, <1>3, SumStep
<1> QED BY <1>2, <1>4, <1>5, <1>6

LEMMA SumChanged ==
  ASSUME NEW S, IsFiniteSet(S), NEW f \in [S -> Int], NEW g \in [S -> Int], NEW x \in S,
         \A y \in S \ {x} : g[y] = f[y]
  PROVE  SumFunctionOnSet(g, S) = SumFunctionOnSet(f, S) - f[x] + g[x]
<1>1. IsFiniteSet(S \ {x}) /\ Numeric(f, S) /\ Numeric(g, S) /\ Numeric(f, S \ {x})
  BY FS_Subset DEF Numeric
<1>2. SumFunctionOnSet(g, S \ {x}) = SumFunctionOnSet(f, S \ {x})
  BY <1>1, SumSame
<1>3. SumFunctionOnSet(f, S) = f[x] + SumFunctionOnSet(f, S \ {x})
      /\ SumFunctionOnSet(g, S) = g[x] + SumFunctionOnSet(g, S \ {x})
  BY <1>1, SumTake
<1>4. SumFunctionOnSet(f, S \ {x}) \in Int /\ f[x] \in Int /\ g[x] \in Int
  BY <1>1, SumInt DEF Numeric
<1> QED BY <1>2, <1>3, <1>4

-----------------------------------------------------------------------------
(***************************************************************************)
(* The rules of a session.  What a session was promised stands in the      *)
(* document the service goes by, and in the kept copy for as long as the   *)
(* session runs or is saved: the copy is what a restart is judged by.      *)
(***************************************************************************)
PromisesKept(doc, profiles) ==
  \A p \in profiles \cap DOMAIN history.promised : \A r \in history.promised[p] : Stands(r, doc, p)

DocumentInv ==
  /\ story \in DOMAIN Stories
  /\ \A c, d \in file : c = d
  /\ \A c, d \in copy : c = d
  /\ copy = {} => ~up /\ saved.running = Nothing
  /\ ~up => running = Nothing
  /\ history = [promised |-> history.promised, lives |-> history.lives,
                waits |-> history.waits, taught |-> history.taught]
  /\ up => PromisesKept(config, DOMAIN running)
  /\ \A c \in copy : PromisesKept(c, DOMAIN running \cup DOMAIN saved.running)

LEMMA NobodyRuns == DOMAIN Nothing = {}
BY DEF Nothing

\* A document that weakens nothing has every answer of the one before.
LEMMA StillStands ==
  ASSUME NEW c, NEW d, NEW p, NEW rule, rules_weakened_by(c, d, p) = {}, Stands(rule, c, p)
  PROVE  Stands(rule, d, p)
<1>1. PICK r \in RulesOf(c, p) :
        key(r.target) = key(rule.target) /\ r.platforms = rule.platforms /\ r.action = rule.action
  BY DEF Stands
<1> DEFINE after == RuleList(d, p)
<1>2. PICK i \in Answering(after, r) : after[i].action = r.action
  BY <1>1 DEF rules_weakened_by
<1>3. i \in DOMAIN after /\ key(after[i].target) = key(r.target) /\ after[i].platforms = r.platforms
  BY <1>2 DEF Answering
<1>4. ById(d.profiles, p) # {}
  BY <1>3 DEF RuleList
<1>5. PICK q \in ById(d.profiles, p) : after = q.rules
  BY <1>4 DEF RuleList
<1>6. after[i] \in RulesOf(d, p)
  BY <1>3, <1>5 DEF RulesOf, Range
<1> QED BY <1>1, <1>2, <1>3, <1>6 DEF Stands

LEMMA NothingIsLost ==
  ASSUME NEW c, NEW d, NEW profiles, weakening_a_running_session(c, d, profiles) = {},
         PromisesKept(c, profiles)
  PROVE  PromisesKept(d, profiles)
BY StillStands DEF weakening_a_running_session, PromisesKept

LEMMA InitDocumentInv == Init => DocumentInv
BY DEF Init, DocumentInv, PromisesKept, Nothing, Unsaved, Tale

\* What is promised anew stands in the document and in the copy.
LEMMA NewPromises ==
  ASSUME DocumentInv, up, NEW sessions, history'.promised = Promised(sessions),
         UNCHANGED <<story, file, copy, saved, up, config>>, running' = sessions,
         history' = [promised |-> history'.promised, lives |-> history'.lives,
                     waits |-> history'.waits, taught |-> history'.taught]
  PROVE  DocumentInv'
<1>1. \A p \in DOMAIN sessions :
        \/ p \in DOMAIN running \cap DOMAIN history.promised /\ history'.promised[p] = history.promised[p]
        \/ history'.promised[p] = RulesOf(config, p) \cap UNION {RulesOf(c, p) : c \in copy}
  BY DEF Promised
<1>2. DOMAIN history'.promised = DOMAIN sessions
  BY DEF Promised
<1>3. \A p \in DOMAIN sessions : \A r \in history'.promised[p] :
        Stands(r, config, p) /\ \A c \in copy : Stands(r, c, p)
  BY <1>1 DEF DocumentInv, PromisesKept, Stands
<1> QED BY <1>2, <1>3 DEF DocumentInv, PromisesKept

\* What leaves the sessions and the documents alone.
LEMMA OtherSteps ==
  ASSUME DocumentInv, UNCHANGED <<story, copy, saved, up, config, running>>,
         \A c, d \in file' : c = d,
         history'.promised = history.promised,
         history' = [promised |-> history'.promised, lives |-> history'.lives,
                     waits |-> history'.waits, taught |-> history'.taught]
  PROVE  DocumentInv'
BY DEF DocumentInv, PromisesKept

LEMMA TickPromises == ASSUME DocumentInv, Tick PROVE DocumentInv'
<1>1. PICK reply : Called(Fetched(reply), reply)
  BY DEF Tick
<1>2. PICK sessions : /\ running' = sessions
                      /\ history' = [promised |-> Promised(sessions), lives |-> history'.lives,
                                     waits |-> history'.waits, taught |-> history'.taught]
  BY <1>1 DEF Called, Charging, Judge, Applied
<1>3. up /\ UNCHANGED <<story, file, copy, saved, up, config>>
  BY DEF Tick, world
<1> QED BY <1>2, <1>3, NewPromises

LEMMA BeginPromises == ASSUME DocumentInv, Begin PROVE DocumentInv'
<1> DEFINE sessions == DOMAIN saved.running
           chosen == Chosen(sessions)
           next == IF chosen.config = {} THEN Empty ELSE CHOOSE c \in chosen.config : TRUE
<1>1. /\ copy' = chosen.copy /\ config' = next /\ up' /\ running' = saved.running
      /\ history' = [history EXCEPT
           !.promised = Restrict(@, DOMAIN @ \cap sessions),
           !.taught = Restrict(@, DOMAIN @ \cap {s.id : s \in Range(next.sources)})]
      /\ UNCHANGED <<story, file, saved>> /\ ~up
      /\ file # {} \/ saved.running # Nothing
  BY DEF Begin, world
<1>2. /\ DOMAIN history'.promised = DOMAIN history.promised \cap sessions
      /\ \A p \in DOMAIN history'.promised : history'.promised[p] = history.promised[p]
      /\ history' = [promised |-> history'.promised, lives |-> history'.lives,
                     waits |-> history'.waits, taught |-> history'.taught]
  BY <1>1 DEF DocumentInv, Restrict
<1>3. \A c : PromisesKept(c, sessions) => PromisesKept(c, sessions)'
  BY <1>1, <1>2 DEF PromisesKept
<1>4. chosen.config = chosen.copy /\ chosen.copy \in {file, copy}
  BY DEF Chosen
<1>5. chosen.copy # {}
  <2>1. CASE copy = {}
    <3>1. file # {}
      BY <1>1, <2>1 DEF DocumentInv
    <3> QED BY <2>1, <3>1 DEF Chosen
  <2>2. CASE copy # {}
    BY <2>2 DEF Chosen
  <2> QED BY <2>1, <2>2
<1>6. \A c \in chosen.copy : PromisesKept(c, sessions)
  <2>1. \A c \in copy : PromisesKept(c, sessions)
    BY DEF DocumentInv, PromisesKept
  <2>2. CASE chosen.copy = copy
    BY <2>1, <2>2
  <2>3. CASE sessions = {}
    BY <2>3 DEF PromisesKept
  <2>4. CASE sessions # {} /\ chosen.copy = file /\ file # copy
    <3>1. PICK c \in copy : TRUE
      BY <2>4, NobodyRuns DEF DocumentInv
    <3>2. \A f \in file : weakening_a_running_session(c, f, sessions) = {}
      BY <2>4, <3>1 DEF Chosen
    <3> QED BY <2>1, <2>4, <3>1, <3>2, NothingIsLost
  <2> QED BY <1>4, <2>2, <2>3, <2>4
<1> HIDE DEF chosen
<1>7. next \in chosen.copy
  BY <1>4, <1>5
<1>8. \A c, d \in chosen.copy : c = d
  BY <1>4 DEF DocumentInv
<1>9. /\ UNCHANGED <<story, file>> /\ running' = saved.running /\ saved' = saved
      /\ copy' = chosen.copy /\ config' = next /\ up'
  BY <1>1
<1> HIDE DEF next
<1> QED BY <1>2, <1>3, <1>5, <1>6, <1>7, <1>8, <1>9 DEF DocumentInv

LEMMA ReloadPromises == ASSUME DocumentInv, Reload PROVE DocumentInv'
<1>1. up /\ UNCHANGED <<story, file, copy, saved, up, running>>
  BY DEF Reload, Serving, world
<1>2. PICK next \in file :
        IF Adopted(next)
        THEN config' = next /\ history' = [history EXCEPT !.lives = Nothing, !.waits = Nothing]
        ELSE UNCHANGED <<config, history>>
  BY DEF Reload
<1>3. /\ history'.promised = history.promised
      /\ history' = [promised |-> history'.promised, lives |-> history'.lives,
                     waits |-> history'.waits, taught |-> history'.taught]
  BY <1>2 DEF DocumentInv
<1>4. PromisesKept(config, DOMAIN running)
  BY <1>1 DEF DocumentInv
<1>5. PromisesKept(config', DOMAIN running)
  BY <1>2, <1>4, NothingIsLost DEF Adopted
<1> QED BY <1>1, <1>3, <1>5 DEF DocumentInv, PromisesKept

LEMMA EndPromises == ASSUME DocumentInv, Crash \/ Stop PROVE DocumentInv'
<1>1. /\ UNCHANGED <<story, file, copy, saved>> /\ ~up' /\ running' = Nothing
      /\ history' = [history EXCEPT !.lives = Nothing, !.waits = Nothing]
  BY DEF Crash, Stop, Forgotten, world
<1>2. /\ history'.promised = history.promised
      /\ history' = [promised |-> history'.promised, lives |-> history'.lives,
                     waits |-> history'.waits, taught |-> history'.taught]
  BY <1>1 DEF DocumentInv
<1> QED BY <1>1, <1>2, NobodyRuns DEF DocumentInv, PromisesKept

LEMMA NextDocumentInv == DocumentInv /\ [Next]_vars => DocumentInv'
<1> SUFFICES ASSUME DocumentInv, [Next]_vars PROVE DocumentInv'
  OBVIOUS
<1> USE DEF world, desktop, memory
<1>1. CASE Second \/ Sleep
  BY <1>1, OtherSteps DEF Second, Sleep, DocumentInv
<1>2. CASE Persist
  <2>1. saved'.running = running \/ (running = Nothing /\ saved' = saved)
    BY <1>2 DEF Persist
  <2>2. UNCHANGED <<story, file, copy, up, config, running, history>>
    BY <1>2 DEF Persist
  <2> QED BY <2>1, <2>2, NobodyRuns DEF DocumentInv, PromisesKept
<1>3. ASSUME NEW ask, StartSession(ask) PROVE DocumentInv'
  <2>1. /\ up /\ history' = [history EXCEPT !.promised = Promised(running')]
        /\ UNCHANGED <<story, file, copy, saved, up, config>>
    BY <1>3 DEF StartSession, Serving
  <2>2. /\ history'.promised = Promised(running')
        /\ history' = [promised |-> history'.promised, lives |-> history'.lives,
                       waits |-> history'.waits, taught |-> history'.taught]
    BY <2>1 DEF DocumentInv
  <2> QED BY <2>1, <2>2, NewPromises
<1>4. ASSUME NEW exe, Quit(exe) \/ Seen(exe) PROVE DocumentInv'
  BY <1>4, OtherSteps DEF Quit, Seen, DocumentInv
<1>5. ASSUME NEW exe, Heard(exe), UNCHANGED <<story, file, copy, saved, up, config, running>>
      PROVE  DocumentInv'
  <2>1. /\ history'.promised = history.promised
        /\ history' = [promised |-> history'.promised, lives |-> history'.lives,
                       waits |-> history'.waits, taught |-> history'.taught]
    BY <1>5 DEF Heard, DocumentInv
  <2> QED BY <1>5, <2>1, OtherSteps DEF DocumentInv
<1>6. ASSUME NEW exe, NEW page, Beat(exe) \/ Check(exe, page) PROVE DocumentInv'
  BY <1>5, <1>6 DEF Beat, Check
<1>7. ASSUME NEW page, Launch(page) PROVE DocumentInv'
  BY <1>7, OtherSteps DEF Launch, DocumentInv
<1>8. ASSUME NEW text \in Tale.files, EditFile(text) PROVE DocumentInv'
  <2>1. \A c, d \in text : c = d
    BY <1>8, BlockingAssumption DEF Tale, DocumentInv, Range
  <2> QED BY <1>8, <2>1, OtherSteps DEF EditFile, DocumentInv
<1>9. CASE UNCHANGED vars
  BY <1>9, OtherSteps DEF vars, DocumentInv
<1> QED BY <1>1, <1>2, <1>3, <1>4, <1>6, <1>7, <1>8, <1>9, TickPromises, BeginPromises,
           ReloadPromises, EndPromises DEF Next

\* A session keeps the rules it began with and that were in the kept copy by then, through every edit,
\* reload, crash, stop and restart: rules_weakened_by of config.rs, Reload of tick.rs and build of runner.rs.
THEOREM RulesAreKept == Spec => []KeptRulesStand
<1>1. DocumentInv => KeptRulesStand
  BY DEF DocumentInv, PromisesKept, KeptRulesStand
<1> QED BY <1>1, InitDocumentInv, NextDocumentInv, PTL DEF Spec

-----------------------------------------------------------------------------
(***************************************************************************)
(* A pass, by its parts.                                                   *)
(***************************************************************************)
PassState   == State(running', usage', now)
PassVerdict == Verdicts(now, PassState)
PassLook    == saw(watch, DOMAIN procs, now)
PassSilent  == Unheard(PassLook, PassVerdict, now, needs_extension(PassState, config))
PassWaiting == Delayed(PassVerdict, PassSilent)
PassGates   == Gated(forget_absent(gates, DOMAIN procs), PassVerdict, PassWaiting, now)
PassSpared  == Tale.stubborn \cap DOMAIN procs

LEMMA PassIs ==
  ASSUME Tick
  PROVE  /\ watch' = PassLook /\ gates' = PassGates
         /\ outcome'.closed = Blocked(PassVerdict) \ PassSpared
         /\ outcome'.unwatched = PassSilent \ PassSpared
         /\ procs' = Restrict(procs, (DOMAIN procs \ (Blocked(PassVerdict) \cup PassSilent
                                                       \cup Held(PassWaiting, PassGates))) \cup PassSpared)
         /\ history'.lives = Lives(DOMAIN procs, now)
         /\ history'.waits = Waits(DOMAIN procs, [e \in PassWaiting |-> PassVerdict[e].seconds], now)
         /\ history' = [promised |-> history'.promised, lives |-> history'.lives,
                        waits |-> history'.waits, taught |-> history'.taught]
         /\ UNCHANGED <<now, file, copy, config, story>>
<1>1. PICK reply, sessions, used :
        /\ usage' = used /\ running' = sessions
        /\ Applied(enforce(now, State(sessions, used, now)),
                   blocked_domains(now, State(sessions, used, now), config), sessions, reply)
  BY DEF Tick, Called, Charging, Judge
<1>2. Applied(enforce(now, PassState), blocked_domains(now, PassState, config), sessions, reply)
  BY <1>1 DEF PassState
<1>3. enforce(now, PassState) =
        Closing(PassLook, PassGates, Blocked(PassVerdict), PassSilent, Held(PassWaiting, PassGates),
                PassSpared, [e \in PassWaiting |-> PassVerdict[e].seconds], now)
  BY DEF enforce, Looked, Judgement, Enforced, PassLook, PassGates, PassVerdict, PassSilent, PassWaiting,
         PassSpared
<1> DEFINE did == enforce(now, PassState)
<1>4. /\ did.watch = PassLook /\ did.gates = PassGates
      /\ did.asked = [e \in PassWaiting |-> PassVerdict[e].seconds]
      /\ did.left = (DOMAIN procs \ (Blocked(PassVerdict) \cup PassSilent
                                      \cup Held(PassWaiting, PassGates))) \cup PassSpared
      /\ did.outcome.closed = Blocked(PassVerdict) \ PassSpared
      /\ did.outcome.unwatched = PassSilent \ PassSpared
  BY <1>3 DEF Closing
<1> HIDE DEF did
<1>5. /\ watch' = did.watch /\ gates' = did.gates /\ outcome' = did.outcome
      /\ procs' = Restrict(procs, did.left)
      /\ history' = [promised |-> Promised(sessions), lives |-> Lives(DOMAIN procs, now),
                     waits |-> Waits(DOMAIN procs, did.asked, now),
                     taught |-> Taught(Range(config.sources), reply)]
  BY <1>2 DEF Applied, did
<1>6. UNCHANGED <<now, file, copy, config, story>>
  BY DEF Tick, world
<1> QED BY <1>4, <1>5, <1>6

-----------------------------------------------------------------------------
(***************************************************************************)
(* The watch over the browsers.  It holds for each browser that is there   *)
(* when it came and when it was last heard, and for no other.              *)
(***************************************************************************)
WatchInv ==
  /\ now \in Int
  /\ watch = [beats |-> watch.beats, first_seen |-> watch.first_seen]
  /\ \A e \in DOMAIN watch.beats : watch.beats[e] \in Int
  /\ \A e \in DOMAIN watch.first_seen : watch.first_seen[e] \in Int
  /\ DOMAIN history.lives = DOMAIN watch.beats \cup DOMAIN watch.first_seen
  /\ \A e \in DOMAIN history.lives :
       history.lives[e] = [since |-> IF e \in DOMAIN watch.first_seen THEN {watch.first_seen[e]} ELSE {},
                           heard |-> IF e \in DOMAIN watch.beats THEN {watch.beats[e]} ELSE {}]

LEMMA InitWatchInv == Init => WatchInv
BY BlockingAssumption, NobodyRuns DEF Init, WatchInv, NoWatch

LEMMA PassKeepsWatch ==
  ASSUME WatchInv, Tick
  PROVE  WatchInv'
<1>1. /\ watch' = saw(watch, DOMAIN procs, now) /\ now' = now
      /\ history'.lives = Lives(DOMAIN procs, now)
  BY PassIs DEF PassLook
<1>2. /\ DOMAIN watch'.beats = DOMAIN watch.beats \cap DOMAIN procs
      /\ \A e \in DOMAIN watch'.beats : watch'.beats[e] = watch.beats[e]
      /\ DOMAIN watch'.first_seen = DOMAIN procs
      /\ \A e \in DOMAIN procs : watch'.first_seen[e] =
           IF e \in DOMAIN watch.first_seen THEN watch.first_seen[e] ELSE now
      /\ watch' = [beats |-> watch'.beats, first_seen |-> watch'.first_seen]
  BY <1>1 DEF saw, Restrict
<1>3. DOMAIN history'.lives = DOMAIN procs
  BY <1>1 DEF Lives
<1>4. ASSUME NEW e \in DOMAIN procs
      PROVE  history'.lives[e] = [since |-> {watch'.first_seen[e]},
                                  heard |-> IF e \in DOMAIN watch'.beats THEN {watch'.beats[e]} ELSE {}]
  <2>1. CASE e \notin DOMAIN history.lives
    BY <1>1, <1>2, <2>1 DEF Lives, WatchInv
  <2>2. CASE e \in DOMAIN history.lives
    <3> DEFINE life == history.lives[e]
    <3>1. history'.lives[e] = [life EXCEPT !.since = IF @ = {} THEN {now} ELSE @]
      BY <1>1, <2>2 DEF Lives
    <3>2. life = [since |-> IF e \in DOMAIN watch.first_seen THEN {watch.first_seen[e]} ELSE {},
                  heard |-> IF e \in DOMAIN watch.beats THEN {watch.beats[e]} ELSE {}]
      BY <2>2 DEF WatchInv
    <3>3. /\ history'.lives[e].since = IF life.since = {} THEN {now} ELSE life.since
          /\ history'.lives[e] = [since |-> history'.lives[e].since, heard |-> life.heard]
      BY <3>1, <3>2
    <3>4. history'.lives[e].since = {watch'.first_seen[e]}
      BY <1>2, <3>2, <3>3
    <3>5. life.heard = IF e \in DOMAIN watch'.beats THEN {watch'.beats[e]} ELSE {}
      BY <1>2, <3>2
    <3> QED BY <3>3, <3>4, <3>5
  <2> QED BY <2>1, <2>2
<1> QED BY <1>1, <1>2, <1>3, <1>4 DEF WatchInv

LEMMA HeardIsKept ==
  ASSUME WatchInv, DocumentInv, NEW exe, now' = now, Heard(exe), watch' = beat(watch, exe, now).watch
  PROVE  WatchInv'
<1>1. watch' = [watch EXCEPT !.beats = SetAt(@, exe, now)]
  BY DEF beat
<1>2. /\ watch' = [beats |-> watch'.beats, first_seen |-> watch'.first_seen]
      /\ watch'.first_seen = watch.first_seen
      /\ DOMAIN watch'.beats = DOMAIN watch.beats \cup {exe}
      /\ \A e \in DOMAIN watch'.beats : watch'.beats[e] = IF e = exe THEN now ELSE watch.beats[e]
  BY <1>1 DEF WatchInv, SetAt
<1>3. history'.lives = IF exe \in DOMAIN history.lives
                       THEN [history.lives EXCEPT ![exe].heard = {now}]
                       ELSE SetAt(history.lives, exe, [since |-> {}, heard |-> {now}])
  BY DEF Heard, DocumentInv
<1>4. DOMAIN history'.lives = DOMAIN history.lives \cup {exe}
  BY <1>3 DEF SetAt
<1>5. ASSUME NEW e \in DOMAIN history'.lives, e # exe
      PROVE  e \in DOMAIN history.lives /\ history'.lives[e] = history.lives[e]
  BY <1>3, <1>4, <1>5 DEF SetAt
<1>6. history'.lives[exe] =
        [since |-> IF exe \in DOMAIN watch.first_seen THEN {watch.first_seen[exe]} ELSE {}, heard |-> {now}]
  <2>1. CASE exe \in DOMAIN history.lives
    <3>1. history'.lives[exe] = [history.lives[exe] EXCEPT !.heard = {now}]
      BY <1>3, <2>1
    <3>2. history.lives[exe] =
            [since |-> IF exe \in DOMAIN watch.first_seen THEN {watch.first_seen[exe]} ELSE {},
             heard |-> IF exe \in DOMAIN watch.beats THEN {watch.beats[exe]} ELSE {}]
      BY <2>1 DEF WatchInv
    <3> QED BY <3>1, <3>2
  <2>2. CASE exe \notin DOMAIN history.lives
    BY <1>3, <2>2 DEF SetAt, WatchInv
  <2> QED BY <2>1, <2>2
<1>7. \A e \in DOMAIN history'.lives :
        history'.lives[e] =
          [since |-> IF e \in DOMAIN watch'.first_seen THEN {watch'.first_seen[e]} ELSE {},
           heard |-> IF e \in DOMAIN watch'.beats THEN {watch'.beats[e]} ELSE {}]
  <2> SUFFICES ASSUME NEW e \in DOMAIN history'.lives
               PROVE  history'.lives[e] =
                        [since |-> IF e \in DOMAIN watch'.first_seen THEN {watch'.first_seen[e]} ELSE {},
                         heard |-> IF e \in DOMAIN watch'.beats THEN {watch'.beats[e]} ELSE {}]
    OBVIOUS
  <2>1. CASE e = exe
    BY <1>2, <1>6, <2>1
  <2>2. CASE e # exe
    BY <1>2, <1>5, <2>2 DEF WatchInv
  <2> QED BY <2>1, <2>2
<1>8. DOMAIN history'.lives = DOMAIN watch'.beats \cup DOMAIN watch'.first_seen
  BY <1>2, <1>4 DEF WatchInv
<1> QED BY <1>2, <1>7, <1>8 DEF WatchInv

LEMMA NextWatchInv == DocumentInv /\ WatchInv /\ [Next]_vars => WatchInv'
<1> SUFFICES ASSUME DocumentInv, WatchInv, [Next]_vars PROVE WatchInv'
  OBVIOUS
<1>1. ASSUME UNCHANGED <<watch, history.lives>>, now' \in Int PROVE WatchInv'
  BY <1>1 DEF WatchInv
<1>2. CASE Second \/ Sleep
  BY <1>1, <1>2, BlockingAssumption DEF Second, Sleep, memory, WatchInv
<1>3. CASE Persist
  BY <1>1, <1>3 DEF Persist, WatchInv
<1>4. CASE Begin
  BY <1>1, <1>4 DEF Begin, DocumentInv, WatchInv
<1>5. ASSUME NEW ask, StartSession(ask) PROVE WatchInv'
  BY <1>1, <1>5 DEF StartSession, DocumentInv, WatchInv
<1>6. ASSUME NEW exe, NEW page, Quit(exe) \/ Seen(exe) \/ Launch(page) \/ EditFile(page) PROVE WatchInv'
  BY <1>1, <1>6 DEF Quit, Seen, Launch, EditFile, memory, WatchInv
<1>7. ASSUME NEW exe, NEW page, Beat(exe) \/ Check(exe, page) PROVE WatchInv'
  BY <1>7, HeardIsKept DEF Beat, Check
<1>8. ASSUME watch' = NoWatch, history'.lives = Nothing, now' = now PROVE WatchInv'
  BY <1>8, NobodyRuns DEF WatchInv, NoWatch
<1>9. CASE Crash \/ Stop
  BY <1>8, <1>9 DEF Crash, Stop, Forgotten, DocumentInv
<1>10. CASE Reload
  BY <1>1, <1>8, <1>10 DEF Reload, DocumentInv, WatchInv
<1>11. CASE UNCHANGED vars
  BY <1>1, <1>11 DEF vars, memory, WatchInv
<1> QED BY <1>2, <1>3, <1>4, <1>5, <1>6, <1>7, <1>9, <1>10, <1>11, PassKeepsWatch DEF Next

\* A pass finds exactly those browsers silent that have been so for a grace.
LEMMA SilentStep ==
  ASSUME DocumentInv, WatchInv, Tick, needs_extension(PassState, config),
         NEW e \in DOMAIN history'.lives, is_browser(e), e \notin outcome'.closed \cup Tale.stubborn
  PROVE  e \in outcome'.unwatched <=> Silent(history'.lives[e])
<1>1. WatchInv' /\ watch' = PassLook /\ now' = now
  BY PassIs, PassKeepsWatch
<1>2. DOMAIN history'.lives = DOMAIN procs
  BY PassIs DEF Lives
<1>3. e \notin Blocked(PassVerdict)
  BY PassIs DEF PassSpared, Blocked
<1>4. e \in outcome'.unwatched <=> e \in PassSilent
  BY PassIs DEF PassSpared
<1>5. e \in PassSilent <=> ~trusted(watch', e, now)
  BY <1>1, <1>2, <1>3 DEF PassSilent, Unheard, unwatched
<1>6. e \in DOMAIN watch'.first_seen
  BY <1>1, <1>2 DEF PassLook, saw
<1>7. /\ history'.lives[e].since = {watch'.first_seen[e]} /\ watch'.first_seen[e] \in Int
      /\ history'.lives[e].heard = IF e \in DOMAIN watch'.beats THEN {watch'.beats[e]} ELSE {}
      /\ e \in DOMAIN watch'.beats => watch'.beats[e] \in Int
  <2>1. history'.lives[e] = [since |-> IF e \in DOMAIN watch'.first_seen THEN {watch'.first_seen[e]} ELSE {},
                             heard |-> IF e \in DOMAIN watch'.beats THEN {watch'.beats[e]} ELSE {}]
    BY <1>1 DEF WatchInv
  <2>2. /\ e \in DOMAIN watch'.beats => watch'.beats[e] \in Int
        /\ watch'.first_seen[e] \in Int
    BY <1>1, <1>6 DEF WatchInv
  <2> QED BY <1>6, <2>1, <2>2
<1>8. now \in Int /\ STARTUP_SECONDS \in Int /\ GRACE_SECONDS \in Int
  BY BlockingAssumption DEF WatchInv
<1> QED BY <1>4, <1>5, <1>6, <1>7, <1>8 DEF trusted, Silent

-----------------------------------------------------------------------------
(***************************************************************************)
(* The waits.  What is waiting waits for the instant that was said, and    *)
(* what has been served waits for nothing and was due.  The waits of every *)
(* document there is fit their fields.                                     *)
(***************************************************************************)
WaitInv ==
  /\ now \in Int
  /\ \A c \in file \cup copy \cup {config} : Fits(c)
  /\ DOMAIN gates = DOMAIN history.waits
  /\ \A e \in DOMAIN gates :
       /\ history.waits[e] \in Int
       /\ gates[e] = {history.waits[e]} \/ (gates[e] = {} /\ history.waits[e] <= now)

LEMMA DelayFits ==
  ASSUME NEW t, NEW state, NEW obs, NEW doc, Fits(doc), decide(t, state, obs, doc).kind = "delay"
  PROVE  decide(t, state, obs, doc).seconds \in 0..LONGEST_DELAY
<1> DEFINE rules  == {pr[2] : pr \in InForce(state, doc)}
           delays == {r.action.seconds : r \in Hits(rules, obs, "delay")}
<1>1. \A r \in rules : \E p \in Range(doc.profiles) : r \in Range(p.rules)
  <2> SUFFICES ASSUME NEW pr \in InForce(state, doc)
               PROVE  \E p \in Range(doc.profiles) : pr[2] \in Range(p.rules)
    OBVIOUS
  <2>1. PICK id : pr[2] \in RulesOf(doc, id)
    BY DEF InForce
  <2> QED BY <2>1 DEF RulesOf, ById, Range
<1>2. delays \subseteq 0..LONGEST_DELAY
  BY <1>1 DEF Hits, Fits
<1>3. decide(t, state, obs, doc) = Judged(t, state, obs, doc.zone, rules)
  BY DEF decide
<1> HIDE DEF rules
<1>4. decide(t, state, obs, doc) = LongestWait(delays)
  BY <1>3 DEF Judged, Allow, Block, Mute
<1> HIDE DEF delays
<1>5. delays # {}
  BY <1>4 DEF LongestWait, Allow
<1>6. decide(t, state, obs, doc).seconds = Max(delays)
  BY <1>4, <1>5 DEF LongestWait, Delay
<1>7. LONGEST_DELAY \in Nat
  BY BlockingAssumption
<1>8. Max(delays) \in delays
  <2>1. IsFiniteSet(0..LONGEST_DELAY) /\ 0..LONGEST_DELAY \subseteq Int
    BY <1>7, 0 \in Int, FS_Interval
  <2> QED BY <1>2, <1>5, <2>1, FS_Subset, MaxOf
<1> QED BY <1>2, <1>6, <1>8

LEMMA EmptyFits == ASSUME story \in DOMAIN Stories PROVE Fits(Empty)
<1>1. Fits(Tale.config)
  BY BlockingAssumption DEF Tale, Range
<1>2. /\ Empty.profiles = <<>> /\ Empty.weekly = <<>> /\ Empty.calendars = <<>> /\ Empty.sources = <<>>
      /\ Empty.zone = Tale.config.zone
  BY DEF Empty
<1>3. Range(<<>>) = {} /\ <<>> \in Seq({})
  BY DEF Range
<1> QED BY <1>1, <1>2, <1>3 DEF Fits

LEMMA InitWaitInv == Init => WaitInv
<1> SUFFICES ASSUME Init PROVE WaitInv
  OBVIOUS
<1>1. Fits(Empty) /\ Fits(Tale.config)
  <2>1. Tale \in Range(Stories) /\ story \in DOMAIN Stories
    BY DEF Init, Tale, Range
  <2> QED BY <2>1, EmptyFits, BlockingAssumption
<1> QED BY <1>1, BlockingAssumption, NobodyRuns DEF Init, WaitInv

LEMMA PassKeepsWaits ==
  ASSUME WaitInv, Tick
  PROVE  WaitInv'
<1> DEFINE known == DOMAIN gates \cap DOMAIN procs
           asked == [e \in PassWaiting |-> PassVerdict[e].seconds]
<1>1. /\ gates' = PassGates /\ history'.waits = Waits(DOMAIN procs, asked, now)
      /\ UNCHANGED <<now, file, copy, config>>
  BY PassIs
<1>2. /\ DOMAIN gates' = known \cup PassWaiting
      /\ \A e \in known \ PassWaiting : gates'[e] = gates[e]
      /\ \A e \in PassWaiting :
           gates'[e] = consider(Restrict(gates, known), e, now, PassVerdict[e].seconds)
  BY <1>1 DEF PassGates, Gated, forget_absent, Restrict
<1>3. /\ DOMAIN history'.waits = known \cup PassWaiting
      /\ \A e \in known \ PassWaiting : history'.waits[e] = history.waits[e]
      /\ \A e \in known \cap PassWaiting :
           history'.waits[e] = Min({history.waits[e], now + PassVerdict[e].seconds})
      /\ \A e \in PassWaiting \ known : history'.waits[e] = now + PassVerdict[e].seconds
  BY <1>1 DEF Waits, WaitInv
<1>4. ASSUME NEW e \in PassWaiting PROVE PassVerdict[e].seconds \in Int
  <2>1. e \in DOMAIN procs /\ PassVerdict[e].kind = "delay"
    BY DEF PassWaiting, Delayed
  <2>2. PassVerdict[e] = decide(now, PassState, Title(procs[e]), config)
    BY <2>1 DEF PassVerdict, Verdicts
  <2> QED BY <2>1, <2>2, DelayFits, BlockingAssumption DEF WaitInv
<1>5. ASSUME NEW e \in DOMAIN gates'
      PROVE  /\ history'.waits[e] \in Int
             /\ gates'[e] = {history'.waits[e]} \/ (gates'[e] = {} /\ history'.waits[e] <= now)
  <2>1. CASE e \in known \ PassWaiting
    BY <1>2, <1>3, <2>1 DEF WaitInv
  <2>2. CASE e \in PassWaiting \ known
    <3>1. gates'[e] = {u \in {now + PassVerdict[e].seconds} : now < u}
      BY <1>2, <2>2 DEF consider, Restrict
    <3> QED BY <1>3, <1>4, <2>2, <3>1 DEF WaitInv
  <2>3. CASE e \in PassWaiting \cap known
    <3> DEFINE w == history.waits[e]
               x == Min({w, now + PassVerdict[e].seconds})
    <3>1. gates'[e] = {u \in {Min({u, now + PassVerdict[e].seconds}) : u \in gates[e]} : now < u}
      BY <1>2, <2>3 DEF consider, Restrict
    <3>2. w \in Int /\ (gates[e] = {w} \/ (gates[e] = {} /\ w <= now))
      BY <2>3 DEF WaitInv
    <3>3. x \in Int /\ x <= w /\ history'.waits[e] = x
      <4>1. now + PassVerdict[e].seconds \in Int
        BY <1>4, <2>3 DEF WaitInv
      <4>2. x \in {w, now + PassVerdict[e].seconds} /\ x <= w
        BY <3>2, <4>1, PairFinite, MinOf
      <4> QED BY <1>3, <2>3, <3>2, <4>1, <4>2
    <3> HIDE DEF x
    <3>4. CASE gates[e] = {w}
      <4>1. gates'[e] = {u \in {x} : now < u}
        BY <3>1, <3>4 DEF x
      <4> QED BY <3>3, <4>1 DEF WaitInv
    <3>5. CASE gates[e] = {} /\ w <= now
      BY <3>1, <3>2, <3>3, <3>5 DEF WaitInv
    <3> QED BY <3>2, <3>4, <3>5
  <2> QED BY <1>2, <2>1, <2>2, <2>3
<1> QED BY <1>1, <1>2, <1>3, <1>5 DEF WaitInv

LEMMA NextWaitInv == DocumentInv /\ WaitInv /\ [Next]_vars => WaitInv'
<1> SUFFICES ASSUME DocumentInv, WaitInv, [Next]_vars PROVE WaitInv'
  OBVIOUS
<1>1. ASSUME UNCHANGED <<gates, history.waits>>, now' \in Int, now <= now',
             \A c \in file' \cup copy' \cup {config'} : Fits(c)
      PROVE  WaitInv'
  BY <1>1 DEF WaitInv
<1>2. CASE Second \/ Sleep
  BY <1>1, <1>2, BlockingAssumption DEF Second, Sleep, memory, WaitInv
<1>3. CASE Persist
  BY <1>1, <1>3 DEF Persist, WaitInv
<1>4. CASE Begin
  <2> DEFINE chosen == Chosen(DOMAIN saved.running)
  <2>1. /\ chosen.config \in {file, copy} /\ chosen.copy \in {file, copy}
        /\ copy' = chosen.copy
        /\ config' = IF chosen.config = {} THEN Empty ELSE CHOOSE c \in chosen.config : TRUE
    BY <1>4 DEF Begin, Chosen
  <2> HIDE DEF chosen
  <2>2. Fits(Empty)
    BY EmptyFits DEF DocumentInv
  <2>3. config' = Empty \/ config' \in file \cup copy
    BY <2>1
  <2>4. UNCHANGED <<gates, now, file>> /\ history'.waits = history.waits
    BY <1>4 DEF Begin, DocumentInv
  <2> QED BY <1>1, <2>1, <2>2, <2>3, <2>4 DEF WaitInv
<1>5. ASSUME NEW ask, StartSession(ask) PROVE WaitInv'
  BY <1>1, <1>5 DEF StartSession, DocumentInv, WaitInv
<1>6. ASSUME NEW exe, NEW page, Quit(exe) \/ Seen(exe) \/ Launch(page) PROVE WaitInv'
  BY <1>1, <1>6 DEF Quit, Seen, Launch, memory, WaitInv
<1>7. ASSUME NEW exe, NEW page, Beat(exe) \/ Check(exe, page) PROVE WaitInv'
  BY <1>1, <1>7 DEF Beat, Check, Heard, DocumentInv, WaitInv
<1>8. ASSUME gates' = Nothing, history'.waits = Nothing, UNCHANGED <<now, file, copy>>,
             Fits(config')
      PROVE  WaitInv'
  BY <1>8, NobodyRuns DEF WaitInv
<1>9. CASE Crash \/ Stop
  BY <1>8, <1>9 DEF Crash, Stop, Forgotten, DocumentInv, WaitInv
<1>10. CASE Reload
  BY <1>1, <1>8, <1>10 DEF Reload, DocumentInv, WaitInv
<1>11. ASSUME NEW text \in Tale.files, EditFile(text) PROVE WaitInv'
  <2>1. Tale \in Range(Stories)
    BY DEF DocumentInv, Tale, Range
  <2>2. \A c \in text : Fits(c)
    BY <2>1, BlockingAssumption
  <2> QED BY <1>1, <1>11, <2>2 DEF EditFile, memory, WaitInv
<1>12. CASE UNCHANGED vars
  BY <1>1, <1>12 DEF vars, memory, WaitInv
<1> QED BY <1>2, <1>3, <1>4, <1>5, <1>6, <1>7, <1>9, <1>10, <1>11, <1>12, PassKeepsWaits DEF Next

\* What a pass leaves open behind a wait has been let in.
LEMMA OpenedStep ==
  ASSUME WaitInv, Tick, NEW e \in DOMAIN procs' \ Tale.stubborn,
         decide(now, PassState, Title(procs[e]), config).kind = "delay"
  PROVE  e \in DOMAIN history'.waits /\ history'.waits[e] <= now
<1>1. WaitInv' /\ gates' = PassGates /\ now' = now
  BY PassIs, PassKeepsWaits
<1>2. e \in DOMAIN procs \ (Blocked(PassVerdict) \cup PassSilent \cup Held(PassWaiting, PassGates))
  BY PassIs DEF Restrict, PassSpared
<1>3. PassVerdict[e].kind = "delay"
  BY <1>2 DEF PassVerdict, Verdicts
<1>4. e \in PassWaiting
  BY <1>2, <1>3 DEF PassWaiting, Delayed
<1>5. PassGates[e] = {} /\ e \in DOMAIN PassGates
  BY <1>2, <1>4 DEF Held, PassGates, Gated
<1> QED BY <1>1, <1>5 DEF WaitInv

-----------------------------------------------------------------------------
\* A pass closes a browser exactly when it has been silent for a grace, and leaves an app behind a wait open
\* only when its wait is over, whatever reloads, restarts, sleeps and processes come and go between the
\* passes: Watch of extension.rs, Gates of delay.rs and enforce_processes of tick.rs.
THEOREM ClosesAsItShould == Spec => ClosesRightly
<1>1. Spec => [](DocumentInv /\ WatchInv /\ WaitInv)
  BY InitDocumentInv, NextDocumentInv, InitWatchInv, NextWatchInv, InitWaitInv, NextWaitInv, PTL DEF Spec
<1>2. Next /\ Passed => Tick
  BY DEF Next, Passed, Second, Sleep, Persist, Crash, Stop, Begin, Reload, StartSession, Quit, Beat, Seen,
         Launch, Check, EditFile, Forgotten
<1>3. DocumentInv /\ WatchInv /\ WaitInv /\ [Next]_vars => [Passed => SilentGo]_vars
  BY <1>2, SilentStep DEF PassState, SilentGo
<1>4. DocumentInv /\ WatchInv /\ WaitInv /\ [Next]_vars => [Passed => WaitedOpen]_vars
  BY <1>2, OpenedStep DEF PassState, WaitedOpen
<1>5. Spec => SilentIsClosed
  BY <1>1, <1>3, PTL DEF Spec, SilentIsClosed
<1>6. Spec => OpensAfterItsWait
  BY <1>1, <1>4, PTL DEF Spec, OpensAfterItsWait
<1> QED BY <1>5, <1>6 DEF ClosesRightly

-----------------------------------------------------------------------------
(***************************************************************************)
(* The windows of a document: they are finitely many, and each ends.       *)
(***************************************************************************)
Clocked(zone) ==
  /\ zone \in [DOMAIN zone -> Int]
  /\ DOMAIN zone \subseteq Int /\ IsFiniteSet(DOMAIN zone) /\ DOMAIN zone # {}

Ending(found) == IsFiniteSet(found) /\ \A a \in found : a.span[2] \in Int

LEMMA OffsetType == ASSUME NEW zone, Clocked(zone), NEW t \in Int PROVE OffsetAt(zone, t) \in Int
<1> DEFINE moved == {m \in DOMAIN zone : m <= t}
<1>1. IsFiniteSet(DOMAIN zone) /\ DOMAIN zone # {} /\ DOMAIN zone \in SUBSET Int
      /\ \A m \in DOMAIN zone : zone[m] \in Int
  BY DEF Clocked
<1>2. IsFiniteSet(moved) /\ moved \in SUBSET Int
  BY <1>1, FS_Subset
<1>3. moved \subseteq DOMAIN zone
  OBVIOUS
<1>4. OffsetAt(zone, t) = zone[IF moved = {} THEN Min(DOMAIN zone) ELSE Max(moved)]
  BY DEF OffsetAt
<1> HIDE DEF moved
<1> QED BY <1>1, <1>2, <1>3, <1>4, MinOf, MaxOf

LEMMA InstantsType ==
  ASSUME NEW zone, Clocked(zone), NEW local \in Int
  PROVE  Instants(local, zone) \in SUBSET Int /\ IsFiniteSet(Instants(local, zone))
<1> DEFINE f == [m \in DOMAIN zone |-> local - zone[m]]
           all == {f[m] : m \in DOMAIN zone}
<1>1. IsFiniteSet(DOMAIN zone) /\ \A m \in DOMAIN zone : zone[m] \in Int
  BY DEF Clocked
<1>2. \A m \in DOMAIN zone : f[m] \in Int
  BY <1>1
<1>3. IsFiniteSet(all)
  BY <1>1, ImageFinite
<1>4. Instants(local, zone) \in SUBSET all
  BY DEF Instants
<1> HIDE DEF f
<1>5. all \in SUBSET Int
  BY <1>2
<1> HIDE DEF all
<1> QED BY <1>3, <1>4, <1>5, FS_Subset

LEMMA LocalInstantType ==
  ASSUME NEW zone, Clocked(zone), NEW date \in Int, NEW minute \in Int
  PROVE  local_instant(date, minute, zone) \in Int
<1> DEFINE local == date * DAY + Min({minute, DAY})
           shown == {k \in 0..LONGEST_GAP : Instants(local + k, zone) # {}}
<1>1. DAY \in Int /\ LONGEST_GAP \in Int
  BY CalendarAssumption
<1>2. local \in Int
  <2>1. Min({minute, DAY}) \in {minute, DAY}
    BY <1>1, PairFinite, MinOf
  <2>2. date * DAY \in Int
    BY <1>1
  <2> QED BY <1>1, <2>1, <2>2
<1>3. local_instant(date, minute, zone)
        = IF shown = {} THEN local ELSE Min(Instants(local + Min(shown), zone))
  BY DEF local_instant
<1> HIDE DEF local
<1>4. /\ shown \in SUBSET (0..LONGEST_GAP) /\ shown \in SUBSET Int
      /\ \A k \in shown : local + k \in Int /\ Instants(local + k, zone) # {}
  BY <1>2
<1>5. IsFiniteSet(shown)
  BY <1>1, <1>4, 0 \in Int, FS_Interval, FS_Subset
<1> HIDE DEF shown
<1>6. shown # {} => Min(shown) \in shown
  BY <1>4, <1>5, MinOf
<1>7. shown # {} => Min(Instants(local + Min(shown), zone)) \in Int
  BY <1>4, <1>6, InstantsType, MinOf
<1> QED BY <1>2, <1>3, <1>7

LEMMA WeeklyEnding ==
  ASSUME NEW zone, Clocked(zone), NEW w, w.start \in Nat, w.end \in Nat, NEW at \in Int
  PROVE  Ending(WeeklyAt(w, at, zone))
<1> DEFINE today == local_date(at, zone)
           open == {d \in {today - 1, today} : runs_on(w, d) /\ Inside(span_on(w, d, zone), at)}
           a == [profile |-> w.profile, span |-> span_on(w, Min(open), zone)]
<1>1. today \in Int
  <2>1. at + OffsetAt(zone, at) \in Int /\ DAY \in Nat \ {0}
    BY OffsetType, CalendarAssumption
  <2> QED BY <2>1 DEF local_date
<1>2. WeeklyAt(w, at, zone) = IF open = {} THEN {} ELSE {a}
  BY DEF WeeklyAt
<1> HIDE DEF today
<1>3. IsFiniteSet({today - 1, today}) /\ open \in SUBSET {today - 1, today} /\ open \in SUBSET Int
  <2>1. IsFiniteSet({today - 1, today})
    BY PairFinite
  <2>2. open \subseteq {today - 1, today}
    OBVIOUS
  <2>3. {today - 1, today} \subseteq Int
    BY <1>1
  <2> HIDE DEF open
  <2> QED BY <2>1, <2>2, <2>3
<1> HIDE DEF open
<1>4. ASSUME NEW date \in Int PROVE span_on(w, date, zone)[2] \in Int
  <2>1. \A d \in Int : local_instant(d, w.end, zone) \in Int
    BY LocalInstantType
  <2> QED BY <2>1 DEF span_on
<1>5. open # {} => a.span[2] \in Int
  <2>1. IsFiniteSet(open)
    BY <1>3, FS_Subset
  <2> QED BY <1>3, <1>4, <2>1, MinOf
<1> HIDE DEF a
<1> QED BY <1>2, <1>5, FS_EmptySet, FS_Singleton DEF Ending

LEMMA ActivationsEnding ==
  ASSUME NEW c, c.pad_after \in Nat, NEW events, Dated(events)
  PROVE  Ending(Activations(c, events))
<1> DEFINE Of(e) == [profile |-> c.profile,
                     span |-> <<e.start - c.pad_before, Max({e.end, e.start}) + c.pad_after + 1>>]
           found == {e \in events : Matches(c.matcher, e)}
           f == [e \in found |-> Of(e)]
<1>1. Activations(c, events) = IF c.enabled THEN {Of(e) : e \in found} ELSE {}
  BY DEF Activations
<1>2. IsFiniteSet(found)
  BY FS_Subset DEF Dated
<1>3. ASSUME NEW e \in events PROVE Of(e).span[2] \in Int
  <2>1. {e.end, e.start} \in SUBSET Int /\ {e.end, e.start} # {}
    BY DEF Dated
  <2>2. Max({e.end, e.start}) \in Int
    BY <2>1, PairFinite, MaxOf
  <2> QED BY <2>2
<1> HIDE DEF Of
<1>4. {f[e] : e \in found} = {Of(e) : e \in found} /\ DOMAIN f = found
  OBVIOUS
<1>5. IsFiniteSet({Of(e) : e \in found})
  <2> HIDE DEF f, found
  <2> QED BY <1>2, <1>4, ImageFinite
<1> QED BY <1>1, <1>3, <1>5, FS_EmptySet DEF Ending

\* What some schedules bring together.
LEMMA AllEnding ==
  ASSUME NEW S, IsFiniteSet(S), NEW of, DOMAIN of = S, \A x \in S : Ending(of[x])
  PROVE  Ending(UNION {of[x] : x \in S})
<1> DEFINE all == {of[x] : x \in S}
<1>1. IsFiniteSet(all)
  BY ImageFinite
<1>2. \A found \in all : Ending(found)
  OBVIOUS
<1> HIDE DEF all
<1>3. IsFiniteSet(UNION all)
  BY <1>1, <1>2, FS_UNION DEF Ending
<1> QED BY <1>2, <1>3 DEF Ending, all

LEMMA ListFinite == ASSUME NEW list, list \in Seq(Range(list)) PROVE IsFiniteSet(Range(list))
<1>1. DOMAIN list = 1..Len(list) /\ Len(list) \in Nat
  OBVIOUS
<1>2. IsFiniteSet(DOMAIN list)
  BY <1>1, 1 \in Int, FS_Interval
<1> QED BY <1>2, ImageFinite DEF Range

LEMMA CalledEnding ==
  ASSUME NEW doc, Fits(doc), NEW events, Dated(events), NEW at \in Int
  PROVE  Ending(active_at(at, doc.zone, Range(doc.weekly), Range(doc.calendars), events))
<1> DEFINE weekly == Range(doc.weekly)
           calendars == Range(doc.calendars)
           fixed == [w \in weekly |-> WeeklyAt(w, at, doc.zone)]
           booked == [c \in calendars |-> Activations(c, events)]
           now_booked == {a \in UNION {booked[c] : c \in calendars} : Inside(a.span, at)}
<1>1. Clocked(doc.zone) /\ IsFiniteSet(weekly) /\ IsFiniteSet(calendars)
  BY ListFinite DEF Fits, Clocked
<1>2. \A w \in weekly : Ending(fixed[w])
  BY <1>1, WeeklyEnding DEF Fits
<1>3. \A c \in calendars : Ending(booked[c])
  BY ActivationsEnding DEF Fits
<1>4. active_at(at, doc.zone, weekly, calendars, events)
        = (UNION {fixed[w] : w \in weekly}) \cup now_booked
  BY DEF active_at
<1> HIDE DEF fixed, booked, weekly, calendars
<1>5. DOMAIN fixed = weekly /\ DOMAIN booked = calendars
  BY DEF fixed, booked
<1>6. Ending(UNION {fixed[w] : w \in weekly}) /\ Ending(UNION {booked[c] : c \in calendars})
  BY <1>1, <1>2, <1>3, <1>5, AllEnding
<1>7. Ending(now_booked)
  BY <1>6, FS_Subset DEF Ending
<1> DEFINE first == UNION {fixed[w] : w \in weekly}
<1> HIDE DEF now_booked, first
<1>8. Ending(first)
  BY <1>6 DEF first
<1>9. Ending(first \cup now_booked)
  BY <1>7, <1>8, FS_Union DEF Ending
<1>10. active_at(at, doc.zone, weekly, calendars, events) = first \cup now_booked
  BY <1>4 DEF first
<1> QED BY <1>9, <1>10 DEF weekly, calendars

\* A session a schedule calls for runs after a pass.
LEMMA CalledRun ==
  ASSUME NEW t \in Int, NEW events, Dated(events), Fits(config),
         \A p \in DOMAIN running : running[p] \in Int
  PROVE  /\ \A p \in DOMAIN reconciled(t, events) : reconciled(t, events)[p] \in Int
         /\ \A a \in active_at(t, config.zone, Range(config.weekly), Range(config.calendars), events) :
              a.span[2] > t => a.profile \in DOMAIN reconciled(t, events)
<1> DEFINE called == active_at(t, config.zone, Range(config.weekly), Range(config.calendars), events)
           end == [a \in called |-> a.span[2]]
           Of(p) == {a \in called : a.profile = p}
           At(p) == {p} \cap DOMAIN running
           Ends(p) == {a.span[2] : a \in Of(p)} \cup {running[q] : q \in At(p)}
           all == [p \in DOMAIN running \cup {a.profile : a \in called} |-> Max(Ends(p))]
<1>1. Ending(called)
  BY CalledEnding
<1>2. reconciled(t, events) = Restrict(all, Active(all, t))
  BY DEF reconciled
<1> HIDE DEF called
<1>3. ASSUME NEW p \in DOMAIN all PROVE Ends(p) \in SUBSET Int /\ IsFiniteSet(Ends(p)) /\ Ends(p) # {}
  <2>1. {a.span[2] : a \in Of(p)} = {end[a] : a \in Of(p)} /\ Of(p) \subseteq DOMAIN end
    OBVIOUS
  <2>2. IsFiniteSet(Of(p))
    BY <1>1, FS_Subset DEF Ending
  <2>3. IsFiniteSet({end[a] : a \in Of(p)})
    <3> HIDE DEF Of, end
    <3> QED BY <2>1, <2>2, ImageFinite
  <2>4. IsFiniteSet(At(p)) /\ At(p) \subseteq DOMAIN running
    BY FS_Singleton, FS_Subset
  <2>5. IsFiniteSet({running[q] : q \in At(p)})
    <3> HIDE DEF At
    <3> QED BY <2>4, ImageFinite
  <2>6. IsFiniteSet(Ends(p))
    BY <2>1, <2>3, <2>5, FS_Union
  <2>7. Ends(p) \in SUBSET Int /\ Ends(p) # {}
    BY <1>1 DEF Ending
  <2> QED BY <2>6, <2>7
<1>4. \A p \in DOMAIN all : all[p] \in Int /\ \A u \in Ends(p) : all[p] >= u
  <2> HIDE DEF Ends
  <2> QED BY <1>3, MaxOf
<1>5. ASSUME NEW a \in called, a.span[2] > t PROVE a.profile \in Active(all, t)
  <2>1. a.profile \in DOMAIN all /\ a.span[2] \in Ends(a.profile)
    OBVIOUS
  <2>2. a.span[2] \in Int /\ all[a.profile] \in Int /\ all[a.profile] >= a.span[2]
    BY <1>1, <1>4, <2>1 DEF Ending
  <2> HIDE DEF all
  <2> QED BY <1>5, <2>1, <2>2 DEF Active
<1> HIDE DEF all
<1>6. DOMAIN reconciled(t, events) = Active(all, t)
      /\ \A p \in Active(all, t) : reconciled(t, events)[p] = all[p]
  BY <1>2 DEF Restrict
<1>7. Active(all, t) \subseteq DOMAIN all
  BY DEF Active
<1> QED BY <1>4, <1>5, <1>6, <1>7 DEF called

-----------------------------------------------------------------------------
(***************************************************************************)
(* The subscriptions.  Asking for one changes what is known of it alone,   *)
(* and takes nothing away unless the server says something else.           *)
(***************************************************************************)
GoodFeeds(f) ==
  /\ f = [cache |-> f.cache, disk |-> f.disk, retry |-> f.retry]
  /\ \A id \in DOMAIN f.cache : Dated(f.cache[id].document.events)
  /\ \A id \in DOMAIN f.disk : Dated(f.disk[id].events)

Tells(reply) == reply.answers /\ reply.document.parses /\ reply.document.events # {}

Usable(reply) == reply.answers => Dated(reply.document.events)

\* The same is known of a source.
Alike(f, g, id) ==
  /\ id \in DOMAIN f.cache <=> id \in DOMAIN g.cache
  /\ id \in DOMAIN f.disk <=> id \in DOMAIN g.disk
  /\ id \in DOMAIN f.retry <=> id \in DOMAIN g.retry
  /\ id \in DOMAIN f.cache => f.cache[id] = g.cache[id]
  /\ id \in DOMAIN f.disk => f.disk[id] = g.disk[id]
  /\ id \in DOMAIN f.retry => f.retry[id] = g.retry[id]

\* A document is served and kept of a source.
Learnt(f, id, document) ==
  /\ id \in DOMAIN f.cache /\ f.cache[id].document = document
  /\ id \in DOMAIN f.disk /\ f.disk[id] = document

LEMMA RefreshedIs ==
  ASSUME NEW f, GoodFeeds(f), NEW s, NEW reply, NEW t
  PROVE  \/ Refreshed(f, s, reply, t) = f
         \/ /\ Believed(f, s, reply)
            /\ Refreshed(f, s, reply, t)
                 = [cache |-> SetAt(f.cache, s.id, [document |-> reply.document, at |-> t]),
                    disk  |-> SetAt(f.disk, s.id, reply.document), retry |-> Without(f.retry, s.id)]
         \/ \E wait : Refreshed(f, s, reply, t)
                        = [cache |-> f.cache, disk |-> f.disk, retry |-> SetAt(f.retry, s.id, wait)]
<1>1. CASE ~due(f, s, t)
  BY <1>1 DEF Refreshed
<1>2. CASE due(f, s, t) /\ Believed(f, s, reply)
  BY <1>2 DEF Refreshed
<1>3. CASE due(f, s, t) /\ ~Believed(f, s, reply)
  <2>1. PICK wait : note_failure(f, s, t) = [f EXCEPT !.retry = SetAt(@, s.id, wait)]
    BY DEF note_failure
  <2>2. note_failure(f, s, t) = [cache |-> f.cache, disk |-> f.disk, retry |-> SetAt(f.retry, s.id, wait)]
    BY <2>1 DEF GoodFeeds
  <2> QED BY <1>3, <2>2 DEF Refreshed
<1> QED BY <1>1, <1>2, <1>3

LEMMA RefreshedGood ==
  ASSUME NEW f, GoodFeeds(f), NEW s, NEW reply, Usable(reply), NEW t
  PROVE  GoodFeeds(Refreshed(f, s, reply, t))
<1>1. CASE Refreshed(f, s, reply, t) = f
  BY <1>1
<1>2. CASE /\ Believed(f, s, reply)
           /\ Refreshed(f, s, reply, t)
                = [cache |-> SetAt(f.cache, s.id, [document |-> reply.document, at |-> t]),
                   disk  |-> SetAt(f.disk, s.id, reply.document), retry |-> Without(f.retry, s.id)]
  BY <1>2 DEF GoodFeeds, SetAt, Believed, Usable
<1>3. CASE \E wait : Refreshed(f, s, reply, t)
                       = [cache |-> f.cache, disk |-> f.disk, retry |-> SetAt(f.retry, s.id, wait)]
  BY <1>3 DEF GoodFeeds
<1> QED BY <1>1, <1>2, <1>3, RefreshedIs

LEMMA RefreshedElsewhere ==
  ASSUME NEW f, GoodFeeds(f), NEW s, NEW reply, NEW t, NEW id, id # s.id
  PROVE  Alike(f, Refreshed(f, s, reply, t), id)
<1>1. CASE Refreshed(f, s, reply, t) = f
  BY <1>1 DEF Alike
<1>2. CASE /\ Believed(f, s, reply)
           /\ Refreshed(f, s, reply, t)
                = [cache |-> SetAt(f.cache, s.id, [document |-> reply.document, at |-> t]),
                   disk  |-> SetAt(f.disk, s.id, reply.document), retry |-> Without(f.retry, s.id)]
  BY <1>2 DEF Alike, SetAt, Without, Restrict
<1>3. CASE \E wait : Refreshed(f, s, reply, t)
                       = [cache |-> f.cache, disk |-> f.disk, retry |-> SetAt(f.retry, s.id, wait)]
  BY <1>3 DEF Alike, SetAt
<1> QED BY <1>1, <1>2, <1>3, RefreshedIs

LEMMA RefreshedUntold ==
  ASSUME NEW f, GoodFeeds(f), NEW s, NEW reply, ~Tells(reply), NEW t, NEW id, NEW document,
         Learnt(f, id, document)
  PROVE  Learnt(Refreshed(f, s, reply, t), id, document)
<1>1. CASE Refreshed(f, s, reply, t) = f
  BY <1>1
<1>2. CASE /\ Believed(f, s, reply)
           /\ Refreshed(f, s, reply, t)
                = [cache |-> SetAt(f.cache, s.id, [document |-> reply.document, at |-> t]),
                   disk  |-> SetAt(f.disk, s.id, reply.document), retry |-> Without(f.retry, s.id)]
  BY <1>2 DEF Learnt, SetAt, Believed, Tells
<1>3. CASE \E wait : Refreshed(f, s, reply, t)
                       = [cache |-> f.cache, disk |-> f.disk, retry |-> SetAt(f.retry, s.id, wait)]
  BY <1>3 DEF Learnt
<1> QED BY <1>1, <1>2, <1>3, RefreshedIs

LEMMA RefreshedTold ==
  ASSUME NEW f, NEW s, NEW reply, Tells(reply), NEW t, due(f, s, t)
  PROVE  Learnt(Refreshed(f, s, reply, t), s.id, reply.document)
BY DEF Refreshed, Believed, Tells, Learnt, SetAt

LEMMA DueAlike ==
  ASSUME NEW f, NEW g, NEW s, Alike(f, g, s.id), NEW t
  PROVE  due(f, s, t) <=> due(g, s, t)
BY DEF Alike, due

LEMMA LearntAlike ==
  ASSUME NEW f, NEW g, NEW id, Alike(f, g, id), NEW document, Learnt(f, id, document)
  PROVE  Learnt(g, id, document)
BY DEF Alike, Learnt

(***************************************************************************)
(* Asking for all of them.  What is asked of a set of sources is a fold;   *)
(* that the fold exists, and what it has for every set, are shown of the   *)
(* least set of sources of which they would not hold.                      *)
(***************************************************************************)
AskedOf(h, V, f, replies, t) ==
  IF V = {} THEN f ELSE Refreshed(h[V \ {First(V)}], First(V), replies[First(V).id], t)

AsksAll(h, S, f, replies, t) == h = [V \in SUBSET S |-> AskedOf(h, V, f, replies, t)]

LEMMA FoldsAgree ==
  ASSUME NEW f, NEW replies, NEW t, NEW V, NEW W, NEW U, IsFiniteSet(U), U \subseteq V, U \subseteq W,
         NEW g, AsksAll(g, V, f, replies, t), NEW h, AsksAll(h, W, f, replies, t)
  PROVE  g[U] = h[U]
<1> DEFINE bad == {X \in SUBSET U : g[X] # h[X]}
<1> SUFFICES ASSUME bad # {} PROVE FALSE
  OBVIOUS
<1>1. PICK X \in bad : Least(X, bad)
  BY LeastSet
<1>2. g[X] = AskedOf(g, X, f, replies, t) /\ h[X] = AskedOf(h, X, f, replies, t) /\ X \in SUBSET U
  BY DEF AsksAll
<1>3. CASE X = {}
  BY <1>1, <1>2, <1>3 DEF AskedOf
<1>4. CASE X # {}
  <2>1. X \ {First(X)} # X /\ X \ {First(X)} \subseteq X
    BY <1>4, FirstIsIn
  <2>2. g[X \ {First(X)}] = h[X \ {First(X)}]
    BY <1>1, <1>2, <2>1 DEF Least
  <2> QED BY <1>1, <1>2, <1>4, <2>2 DEF AskedOf
<1> QED BY <1>3, <1>4

LEMMA FoldExists ==
  ASSUME NEW f, NEW replies, NEW t, NEW S, IsFiniteSet(S)
  PROVE  \E h : AsksAll(h, S, f, replies, t)
<1> DEFINE Has(V) == \E h : AsksAll(h, V, f, replies, t)
           bad == {V \in SUBSET S : ~Has(V)}
<1> SUFFICES ASSUME bad # {} PROVE FALSE
  <2>1. S \in SUBSET S
    OBVIOUS
  <2> QED BY <2>1
<1>1. PICK V \in bad : Least(V, bad)
  BY LeastSet
<1>2. V \in SUBSET S /\ ~Has(V) /\ \A U \in SUBSET V : U # V => Has(U)
  <2>1. \A U \in SUBSET V : U \in SUBSET S /\ (U \in bad => U = V)
    BY <1>1 DEF Least
  <2> QED BY <1>1, <2>1
<1>3. IsFiniteSet(V) /\ \A U \in SUBSET V : IsFiniteSet(U)
  BY <1>2, FS_Subset
<1> HIDE DEF bad
<1> DEFINE H == [U \in SUBSET V |-> CHOOSE h : AsksAll(h, U, f, replies, t)]
           of == [U \in SUBSET V |-> H[U][U]]
           h == [U \in SUBSET V |-> IF U = V THEN AskedOf(of, V, f, replies, t) ELSE of[U]]
<1>4. \A U \in SUBSET V : U # V => AsksAll(H[U], U, f, replies, t)
  BY <1>2
<1> HIDE DEF H, Has
<1>5. ASSUME NEW U \in SUBSET V, U # V PROVE of[U] = AskedOf(of, U, f, replies, t)
  <2>1. of[U] = AskedOf(H[U], U, f, replies, t)
    <3>1. U \in SUBSET U
      OBVIOUS
    <3> QED BY <1>4, <1>5, <3>1 DEF AsksAll
  <2>2. CASE U = {}
    BY <2>1, <2>2 DEF AskedOf
  <2>3. CASE U # {}
    <3> DEFINE X == U \ {First(U)}
    <3>1. X \in SUBSET V /\ X \subseteq U /\ X # V /\ IsFiniteSet(X)
      BY <1>3, <2>3, FirstIsIn
    <3>2. AsksAll(H[U], U, f, replies, t) /\ AsksAll(H[X], X, f, replies, t)
      BY <1>4, <1>5, <3>1
    <3> HIDE DEF X
    <3>3. H[U][X] = H[X][X]
      BY <3>1, <3>2, FoldsAgree
    <3>4. of[X] = H[U][X]
      BY <3>1, <3>3
    <3> QED BY <2>1, <2>3, <3>4 DEF AskedOf, X
  <2> QED BY <2>2, <2>3
<1>6. ASSUME NEW U \in SUBSET V PROVE AskedOf(of, U, f, replies, t) = AskedOf(h, U, f, replies, t)
  <2>1. CASE U = {}
    BY <2>1 DEF AskedOf
  <2>2. CASE U # {}
    <3> DEFINE X == U \ {First(U)}
    <3>1. X \in SUBSET V /\ X # V
      BY <2>2, FirstIsIn
    <3>2. h[X] = of[X]
      BY <3>1
    <3> QED BY <2>2, <3>2 DEF AskedOf
  <2> QED BY <2>1, <2>2
<1>7. \A U \in SUBSET V : h[U] = AskedOf(of, U, f, replies, t)
  BY <1>5
<1>8. h = [U \in SUBSET V |-> AskedOf(h, U, f, replies, t)]
  <2>1. h = [U \in SUBSET V |-> h[U]]
    OBVIOUS
  <2> HIDE DEF h
  <2> QED BY <1>6, <1>7, <2>1
<1> QED BY <1>2, <1>8 DEF AsksAll, Has

LEMMA AskedIs ==
  ASSUME NEW f, NEW S, IsFiniteSet(S), NEW replies, NEW t
  PROVE  \E h : AsksAll(h, S, f, replies, t) /\ Asked(f, S, replies, t) = h[S]
<1> DEFINE iter[V \in SUBSET S] ==
             IF V = {} THEN f
             ELSE LET s == CHOOSE s \in V : TRUE IN Refreshed(iter[V \ {s}], s, replies[s.id], t)
<1>1. Asked(f, S, replies, t) = iter[S]
  BY DEF Asked, FoldSet, MapThenFoldSet
<1> DEFINE Asks(h) == h = [V \in SUBSET S |-> IF V = {} THEN f
                            ELSE LET s == CHOOSE s \in V : TRUE
                                 IN  Refreshed(h[V \ {s}], s, replies[s.id], t)]
<1>2. \A h : AsksAll(h, S, f, replies, t) <=> Asks(h)
  BY DEF AsksAll, AskedOf, First
<1>3. Asks(iter)
  <2>1. \E h : Asks(h)
    <3> HIDE DEF Asks
    <3> QED BY <1>2, FoldExists
  <2> QED BY <2>1
<1> HIDE DEF iter, Asks
<1> QED BY <1>1, <1>2, <1>3

\* What is known after all were asked the same.
LEMMA AskedKeeps ==
  ASSUME NEW f, GoodFeeds(f), NEW S, IsFiniteSet(S), NEW reply, Usable(reply), NEW t
  PROVE  LET g == Asked(f, S, [id \in {s.id : s \in S} |-> reply], t) IN
         /\ GoodFeeds(g)
         /\ ~Tells(reply) => \A id, document : Learnt(f, id, document) => Learnt(g, id, document)
         /\ Tells(reply) => \A id :
              IF id \in {s.id : s \in {s \in S : due(f, s, t)}} THEN Learnt(g, id, reply.document)
              ELSE Alike(f, g, id)
<1> DEFINE replies == [id \in {s.id : s \in S} |-> reply]
           g == Asked(f, S, replies, t)
           Due(V) == {s.id : s \in {s \in V : due(f, s, t)}}
<1>1. PICK h : AsksAll(h, S, f, replies, t) /\ g = h[S]
  BY AskedIs
<1> DEFINE Kept(V) == /\ GoodFeeds(h[V])
                      /\ ~Tells(reply) => \A id, document : Learnt(f, id, document) => Learnt(h[V], id, document)
                      /\ Tells(reply) => \A id : IF id \in Due(V) THEN Learnt(h[V], id, reply.document)
                                                 ELSE Alike(f, h[V], id)
           bad == {V \in SUBSET S : ~Kept(V)}
<1>2. ASSUME bad # {} PROVE FALSE
  <2>1. PICK V \in bad : Least(V, bad)
    BY <1>2, LeastSet
  <2>2. V \in SUBSET S /\ ~Kept(V) /\ \A U \in SUBSET V : U # V => Kept(U)
    <3>1. \A U \in SUBSET V : U \in SUBSET S /\ (U \in bad => U = V)
      BY <2>1 DEF Least
    <3> QED BY <2>1, <3>1
  <2> HIDE DEF bad, Kept, g
  <2>3. h[V] = AskedOf(h, V, f, replies, t)
    BY <1>1, <2>2 DEF AsksAll
  <2>4. CASE V = {}
    <3>1. h[V] = f /\ Due(V) = {}
      BY <2>3, <2>4 DEF AskedOf
    <3> QED BY <2>2, <3>1 DEF Kept, Alike
  <2>5. CASE V # {}
    <3> DEFINE s == First(V)
               U == V \ {s}
               k == h[U]
    <3>1. s \in V /\ U \in SUBSET V /\ U # V /\ V = U \cup {s}
      BY <2>5, FirstIsIn
    <3>2. replies[s.id] = reply
      BY <2>2, <3>1
    <3>3. h[V] = Refreshed(k, s, reply, t)
      BY <2>3, <2>5, <3>2 DEF AskedOf
    <3>4. Kept(U)
      BY <2>2, <3>1
    <3>5. Due(V) = IF due(f, s, t) THEN Due(U) \cup {s.id} ELSE Due(U)
      BY <3>1
    <3> HIDE DEF s, U, k, replies, Due
    <3>6. GoodFeeds(k) /\ GoodFeeds(h[V])
      BY <3>3, <3>4, RefreshedGood DEF Kept, k
    <3>7. ASSUME ~Tells(reply), NEW id, NEW document, Learnt(f, id, document)
          PROVE  Learnt(h[V], id, document)
      <4>1. Learnt(k, id, document)
        BY <3>4, <3>7 DEF Kept, k
      <4> QED BY <3>3, <3>6, <3>7, <4>1, RefreshedUntold
    <3>8. ASSUME Tells(reply), NEW id
          PROVE  IF id \in Due(V) THEN Learnt(h[V], id, reply.document) ELSE Alike(f, h[V], id)
      <4>1. IF id \in Due(U) THEN Learnt(k, id, reply.document) ELSE Alike(f, k, id)
        BY <3>4, <3>8 DEF Kept, k
      <4>2. CASE id # s.id
        <5>1. Alike(k, h[V], id)
          BY <3>3, <3>6, <4>2, RefreshedElsewhere
        <5>2. Alike(f, k, id) => Alike(f, h[V], id)
          BY <5>1 DEF Alike
        <5>3. Learnt(k, id, reply.document) => Learnt(h[V], id, reply.document)
          BY <5>1, LearntAlike
        <5>4. id \in Due(V) <=> id \in Due(U)
          BY <3>5, <4>2
        <5> QED BY <4>1, <5>2, <5>3, <5>4
      <4>3. CASE id = s.id /\ due(k, s, t)
        <5>1. Learnt(h[V], id, reply.document)
          BY <3>3, <3>8, <4>3, RefreshedTold
        <5>2. id \in Due(V)
          <6>1. CASE id \in Due(U)
            BY <3>5, <6>1
          <6>2. CASE id \notin Due(U)
            <7>1. due(f, s, t)
              BY <4>1, <4>3, <6>2, DueAlike
            <7> QED BY <3>5, <4>3, <7>1
          <6> QED BY <6>1, <6>2
        <5> QED BY <5>1, <5>2
      <4>4. CASE id = s.id /\ ~due(k, s, t)
        <5>1. h[V] = k
          BY <3>3, <4>4 DEF Refreshed
        <5>2. id \notin Due(U) => id \notin Due(V)
          <6> SUFFICES ASSUME id \notin Due(U) PROVE ~due(f, s, t)
            BY <3>5
          <6> QED BY <4>1, <4>4, DueAlike
        <5>3. id \in Due(U) => id \in Due(V)
          BY <3>5
        <5> QED BY <4>1, <5>1, <5>2, <5>3
      <4> QED BY <4>2, <4>3, <4>4
    <3>9. Kept(V)
      BY <3>6, <3>7, <3>8 DEF Kept
    <3> QED BY <2>2, <3>9
  <2> QED BY <2>4, <2>5
<1>3. Kept(S)
  <2>1. S \in SUBSET S
    OBVIOUS
  <2> HIDE DEF Kept
  <2> QED BY <1>2, <2>1
<1> HIDE DEF g
<1> QED BY <1>1, <1>3 DEF g

\* The events that are served.
LEMMA EventsDated ==
  ASSUME NEW f, GoodFeeds(f), NEW S, IsFiniteSet(S), NEW t PROVE Dated(Events(f, S, t))
<1> DEFINE of == [s \in S |-> Served(f, s, t)]
           all == {of[s] : s \in S}
<1>1. ASSUME NEW s \in S PROVE Dated(of[s])
  <2>1. CASE s.id \notin DOMAIN f.cache
    BY <2>1, FS_EmptySet DEF Served, Dated
  <2>2. CASE s.id \in DOMAIN f.cache
    <3> DEFINE events == f.cache[s.id].document.events
    <3>1. Dated(events) /\ of[s] \subseteq events
      BY <2>2 DEF GoodFeeds, Served
    <3> HIDE DEF events, of
    <3> QED BY <3>1, FS_Subset DEF Dated
  <2> QED BY <2>1, <2>2
<1>2. Events(f, S, t) = UNION all
  BY DEF Events
<1>3. DOMAIN of = S
  OBVIOUS
<1> HIDE DEF of
<1>4. IsFiniteSet(all)
  BY <1>3, ImageFinite
<1>5. \A events \in all : Dated(events)
  BY <1>1
<1> HIDE DEF all
<1>6. IsFiniteSet(UNION all)
  BY <1>4, <1>5, FS_UNION DEF Dated
<1> QED BY <1>2, <1>5, <1>6 DEF Dated

\* An event that is known calls for its session, when the schedule reaches no further than what is read.
LEMMA KnownCalls ==
  ASSUME NEW f, GoodFeeds(f), NEW s \in Range(config.sources), NEW document, Learnt(f, s.id, document),
         Fits(config), NEW c \in Range(config.calendars), Reaches(c), NEW t \in Int,
         NEW a \in Activations(c, {e \in document.events : e.start <= e.end}), Inside(a.span, t)
  PROVE  /\ a.span[2] > t
         /\ a \in active_at(t, config.zone, Range(config.weekly), Range(config.calendars),
                            Events(f, Range(config.sources), t))
<1> DEFINE Of(e) == [profile |-> c.profile,
                     span |-> <<e.start - c.pad_before, Max({e.end, e.start}) + c.pad_after + 1>>]
           events == Events(f, Range(config.sources), t)
<1>1. c.enabled /\ \E e \in document.events : e.start <= e.end /\ Matches(c.matcher, e) /\ a = Of(e)
  BY DEF Activations
<1>2. PICK e \in document.events : e.start <= e.end /\ Matches(c.matcher, e) /\ a = Of(e)
  BY <1>1
<1>3. Dated(document.events) /\ s.id \in DOMAIN f.cache /\ f.cache[s.id].document = document
  BY DEF GoodFeeds, Learnt
<1>4. e.start \in Int /\ e.end \in Int
  BY <1>3 DEF Dated
<1>5. Max({e.end, e.start}) = e.end
  <2>1. {e.end, e.start} \in SUBSET Int /\ {e.end, e.start} # {}
    BY <1>4
  <2>2. Max({e.end, e.start}) \in {e.end, e.start} /\ Max({e.end, e.start}) >= e.end
    BY <2>1, PairFinite, MaxOf
  <2> QED BY <1>2, <1>4, <2>2
<1>6. a.span = <<e.start - c.pad_before, e.end + c.pad_after + 1>> /\ a.profile = c.profile
  BY <1>2, <1>5
<1>7. e.start - c.pad_before <= t /\ t < e.end + c.pad_after + 1
  BY <1>6 DEF Inside
<1>8. /\ c.pad_before \in Nat /\ c.pad_after \in Nat /\ WINDOW_SECONDS \in Nat
      /\ c.pad_before < WINDOW_SECONDS /\ c.pad_after < WINDOW_SECONDS
  BY BlockingAssumption DEF Fits, Reaches
<1>9. e.start < t + WINDOW_SECONDS /\ e.end > t - WINDOW_SECONDS
  BY <1>4, <1>7, <1>8
<1>10. e \in events
  BY <1>3, <1>9 DEF Events, Served
<1> HIDE DEF events
<1>11. a \in Activations(c, events)
  BY <1>1, <1>2, <1>10 DEF Activations
<1>12. a.span[2] > t
  BY <1>4, <1>6, <1>7, <1>8
<1> QED BY <1>11, <1>12 DEF active_at, events

-----------------------------------------------------------------------------
(***************************************************************************)
(* What was once taught is what is served and what the disk has: the disk  *)
(* is what a restart has to go by.                                         *)
(***************************************************************************)
Numbered(sessions) == \A p \in DOMAIN sessions : sessions[p] \in Int

FeedInv ==
  /\ GoodFeeds(feeds)
  /\ Numbered(running) /\ Numbered(saved.running)
  /\ \A id \in DOMAIN history.taught : Learnt(feeds, id, history.taught[id])
  /\ ~up => ~ticked
  /\ OutageKeepsBlock

LEMMA InitFeedInv == Init => FeedInv
BY NobodyRuns DEF Init, FeedInv, GoodFeeds, NoFeeds, Unsaved, Nothing, Numbered, OutageKeepsBlock

\* What leaves the subscriptions, the sessions and what a pass did alone.
LEMMA NothingAsked ==
  ASSUME FeedInv,
         UNCHANGED <<feeds, running, saved, history.taught, up, ticked, config, previous>>
  PROVE  FeedInv'
BY DEF FeedInv, OutageKeepsBlock, Numbered

\* What runs outside a pass.
LEMMA BetweenPasses ==
  ASSUME FeedInv, ~ticked', GoodFeeds(feeds'), Numbered(running'), Numbered(saved'.running),
         \A id \in DOMAIN history'.taught : Learnt(feeds', id, history'.taught[id])
  PROVE  FeedInv'
BY DEF FeedInv, OutageKeepsBlock

LEMMA PassKeepsFeeds ==
  ASSUME DocumentInv, WaitInv, FeedInv, Tick
  PROVE  FeedInv'
<1> DEFINE sources == Range(config.sources)
           replies(reply) == [id \in {s.id : s \in sources} |-> reply]
<1>1. PICK reply \in IF config.sources = <<>> THEN {Down} ELSE Tale.replies : Called(Fetched(reply), reply)
  BY DEF Tick
<1> DEFINE g == Fetched(reply)
           events == Events(g, sources, now)
           called == active_at(now, config.zone, Range(config.weekly), Range(config.calendars), events)
<1>2. /\ feeds' = g /\ running' = reconciled(now, events)
      /\ history'.taught = Taught(sources, reply)
      /\ up /\ ticked' /\ previous' = {now} /\ UNCHANGED <<up, saved, config>>
  BY <1>1 DEF Tick, Called, Charging, Judge, Applied
<1>3. Usable(reply)
  <2>1. Tale \in Range(Stories)
    BY DEF DocumentInv, Tale, Range
  <2> QED BY <1>1, <2>1, BlockingAssumption DEF Usable, Down
<1>4. Fits(config) /\ now \in Int /\ IsFiniteSet(sources)
  BY ListFinite DEF WaitInv, Fits
<1>5. g = Asked(feeds, sources, replies(reply), now)
  BY DEF Fetched
<1> DEFINE asked == {s.id : s \in {s \in sources : due(feeds, s, now)}}
<1> HIDE DEF g, sources
<1>6. /\ GoodFeeds(g)
      /\ ~Tells(reply) => \A id, document : Learnt(feeds, id, document) => Learnt(g, id, document)
      /\ Tells(reply) => \A id : IF id \in asked THEN Learnt(g, id, reply.document) ELSE Alike(feeds, g, id)
  BY <1>3, <1>4, <1>5, AskedKeeps DEF FeedInv
<1>7. ASSUME NEW id \in DOMAIN history'.taught PROVE Learnt(g, id, history'.taught[id])
  <2>1. CASE ~Tells(reply)
    <3>1. history'.taught = history.taught
      BY <1>2, <2>1 DEF Taught, Tells
    <3> QED BY <1>6, <1>7, <2>1, <3>1 DEF FeedInv
  <2>2. CASE Tells(reply)
    <3>1. history'.taught = [i \in DOMAIN history.taught \cup asked |->
                               IF i \in asked THEN reply.document ELSE history.taught[i]]
      BY <1>2, <2>2 DEF Taught, Tells
    <3>2. CASE id \in asked
      BY <1>6, <1>7, <2>2, <3>1, <3>2
    <3>3. CASE id \notin asked
      <4>1. id \in DOMAIN history.taught /\ history'.taught[id] = history.taught[id]
        BY <1>7, <3>1, <3>3
      <4>2. Alike(feeds, g, id) /\ Learnt(feeds, id, history.taught[id])
        BY <1>6, <2>2, <3>3, <4>1 DEF FeedInv
      <4> QED BY <4>1, <4>2, LearntAlike
    <3> QED BY <3>2, <3>3
  <2> QED BY <2>1, <2>2
<1>8. Dated(events)
  BY <1>4, <1>6, EventsDated
<1>9. /\ Numbered(running')
      /\ \A a \in called : a.span[2] > now => a.profile \in DOMAIN running'
  <2>1. \A p \in DOMAIN running : running[p] \in Int
    BY DEF FeedInv, Numbered
  <2> HIDE DEF events
  <2> QED BY <1>2, <1>4, <1>8, <2>1, CalledRun DEF Numbered
<1>10. ASSUME NEW s \in sources, s.id \in DOMAIN history'.taught,
              NEW c \in Range(config.calendars), Reaches(c),
              NEW a \in Activations(c, {e \in history'.taught[s.id].events : e.start <= e.end}),
              Inside(a.span, now)
       PROVE  a.profile \in DOMAIN running'
  <2>1. Learnt(g, s.id, history'.taught[s.id])
    BY <1>7, <1>10
  <2>2. a.span[2] > now /\ a \in called
    BY <1>4, <1>6, <1>10, <2>1, KnownCalls DEF sources
  <2> QED BY <1>9, <2>2
<1>11. OutageKeepsBlock'
  <2> SUFFICES ASSUME NEW s \in Range(config'.sources), s.id \in DOMAIN history'.taught,
                      NEW c \in Range(config'.calendars), Reaches(c),
                      NEW a \in Activations(c, {e \in history'.taught[s.id].events : e.start <= e.end}),
                      NEW u \in previous', Inside(a.span, u)
               PROVE  a.profile \in DOMAIN running'
    BY DEF OutageKeepsBlock
  <2>1. config' = config /\ u = now
    BY <1>2
  <2> QED BY <1>10, <2>1 DEF sources
<1> QED BY <1>2, <1>6, <1>7, <1>9, <1>11 DEF FeedInv, Numbered

LEMMA BeginKeepsFeeds ==
  ASSUME DocumentInv, FeedInv, Begin
  PROVE  FeedInv'
<1>1. PICK next : /\ feeds' = restore(feeds, Range(next.sources))
                  /\ history' = [history EXCEPT
                       !.promised = Restrict(@, DOMAIN @ \cap DOMAIN saved.running),
                       !.taught = Restrict(@, DOMAIN @ \cap {s.id : s \in Range(next.sources)})]
  BY DEF Begin
<1>2. running' = saved.running /\ saved' = saved /\ ~ticked'
  BY DEF Begin, FeedInv
<1> DEFINE ids == {s.id : s \in Range(next.sources)}
<1>3. history'.taught = Restrict(history.taught, DOMAIN history.taught \cap ids)
  BY <1>1 DEF DocumentInv
<1> HIDE DEF ids
<1>4. feeds' = [cache |-> [id \in ids \cap DOMAIN feeds.disk |-> [document |-> feeds.disk[id], at |-> 0]],
                disk |-> feeds.disk, retry |-> <<>>]
  BY <1>1 DEF restore, NoFeeds, ids
<1>5. GoodFeeds(feeds')
  BY <1>4 DEF FeedInv, GoodFeeds
<1>6. \A id \in DOMAIN history'.taught : Learnt(feeds', id, history'.taught[id])
  BY <1>3, <1>4 DEF FeedInv, Learnt, Restrict
<1> QED BY <1>2, <1>5, <1>6, BetweenPasses DEF FeedInv, Numbered

LEMMA StartingEnds ==
  ASSUME DocumentInv, WaitInv, FeedInv, NEW ask \in Tale.asks, StartSession(ask)
  PROVE  Numbered(running')
<1> DEFINE p == ask.profile
           At == {p} \cap DOMAIN running
           ends == {now + ask.seconds} \cup {running[q] : q \in At}
<1>1. ask.seconds \in Nat
  <2>1. Tale \in Story
    BY BlockingAssumption DEF DocumentInv, Tale, Range
  <2> QED BY <2>1 DEF Story
<1>2. now + ask.seconds \in Int
  BY <1>1 DEF WaitInv
<1> HIDE DEF p
<1>3. IsFiniteSet(At) /\ At \subseteq DOMAIN running
  <2>1. IsFiniteSet({p}) /\ At \subseteq {p}
    BY FS_Singleton
  <2> QED BY <2>1, FS_Subset
<1>4. IsFiniteSet({running[q] : q \in At})
  <2> HIDE DEF At
  <2> QED BY <1>3, ImageFinite
<1>5. IsFiniteSet(ends) /\ ends \in SUBSET Int /\ ends # {}
  <2>1. IsFiniteSet({now + ask.seconds})
    BY FS_Singleton
  <2>2. IsFiniteSet(ends)
    BY <1>4, <2>1, FS_Union
  <2>3. ends \in SUBSET Int /\ ends # {}
    BY <1>2 DEF FeedInv, Numbered
  <2> QED BY <2>2, <2>3
<1>6. running' = SetAt(running, p, Max(ends))
  BY DEF StartSession, p
<1> HIDE DEF ends
<1>7. Max(ends) \in Int
  BY <1>5, MaxOf
<1> QED BY <1>6, <1>7 DEF SetAt, FeedInv, Numbered

LEMMA NextFeedInv == DocumentInv /\ WaitInv /\ FeedInv /\ [Next]_vars => FeedInv'
<1> SUFFICES ASSUME DocumentInv, WaitInv, FeedInv, [Next]_vars PROVE FeedInv'
  OBVIOUS
<1>1. CASE Second \/ Sleep
  BY <1>1, NothingAsked DEF Second, Sleep, memory
<1>2. ASSUME NEW page, Launch(page) PROVE FeedInv'
  BY <1>2, NothingAsked DEF Launch, memory
<1>3. ASSUME NEW exe, Quit(exe) \/ Seen(exe) PROVE FeedInv'
  BY <1>3, NothingAsked DEF Quit, Seen, memory
<1>4. ASSUME NEW exe, NEW page, Beat(exe) \/ Check(exe, page) PROVE FeedInv'
  BY <1>4, NothingAsked DEF Beat, Check, Heard, DocumentInv
<1>5. ASSUME NEW text, EditFile(text) PROVE FeedInv'
  BY <1>5, NothingAsked DEF EditFile, memory
<1>6. CASE UNCHANGED vars
  BY <1>6, NothingAsked DEF vars, memory
<1>7. CASE Persist
  BY <1>7, BetweenPasses, NobodyRuns DEF Persist, FeedInv, Numbered
<1>8. CASE Crash \/ Stop
  BY <1>8, BetweenPasses, NobodyRuns DEF Crash, Stop, Forgotten, DocumentInv, FeedInv, Numbered
<1>9. CASE Reload
  BY <1>9, BetweenPasses DEF Reload, Serving, DocumentInv, FeedInv
<1>10. ASSUME NEW ask \in Tale.asks, StartSession(ask) PROVE FeedInv'
  BY <1>10, StartingEnds, BetweenPasses DEF StartSession, Serving, DocumentInv, FeedInv
<1> QED BY <1>1, <1>2, <1>3, <1>4, <1>5, <1>6, <1>7, <1>8, <1>9, <1>10, PassKeepsFeeds, BeginKeepsFeeds
        DEF Next

-----------------------------------------------------------------------------
\* A session a subscription calls for runs through everything the server then fails to say, or says badly or
\* emptily, and through crashes, restarts, edits and reloads, until the server says something else:
\* Calendars::events and restore of calendar.rs, the stored copies of feeds.rs, reconcile of tick.rs.
THEOREM OutagesAreNoWayOut == Spec => []OutageKeepsBlock
<1>1. Init => DocumentInv /\ WaitInv /\ FeedInv
  BY InitDocumentInv, InitWaitInv, InitFeedInv
<1>2. DocumentInv /\ WaitInv /\ FeedInv /\ [Next]_vars => (DocumentInv /\ WaitInv /\ FeedInv)'
  BY NextDocumentInv, NextWaitInv, NextFeedInv
<1>3. FeedInv => OutageKeepsBlock
  BY DEF FeedInv
<1> QED BY <1>1, <1>2, <1>3, PTL DEF Spec

-----------------------------------------------------------------------------
(***************************************************************************)
(* What a meter holds altogether.                                          *)
(***************************************************************************)
Rollup  == [at : Int, seconds : Nat]
Rollups == Seq(Rollup)

Metered(use) == \A k \in DOMAIN use : use[k] \in Rollups

Total(use, k) == IF k \in DOMAIN use THEN used_since(use[k], {}) ELSE 0

LEMMA TotalOfList ==
  ASSUME NEW list \in Rollups
  PROVE  /\ IsFiniteSet(DOMAIN list) /\ DOMAIN list = 1..Len(list) /\ Len(list) \in Nat
         /\ Numeric([i \in DOMAIN list |-> list[i].seconds], DOMAIN list)
         /\ used_since(list, {}) = SumFunctionOnSet([i \in DOMAIN list |-> list[i].seconds], DOMAIN list)
         /\ used_since(list, {}) \in Int
<1> DEFINE f == [i \in DOMAIN list |-> list[i].seconds]
<1>1. DOMAIN list = 1..Len(list) /\ Len(list) \in Nat
  BY DEF Rollups
<1>2. IsFiniteSet(DOMAIN list)
  BY <1>1, 1 \in Int, FS_Interval
<1>3. \A i \in DOMAIN list : list[i] \in Rollup
  BY DEF Rollups
<1>4. Numeric(f, DOMAIN list)
  BY <1>3 DEF Numeric, Rollup
<1>5. {i \in DOMAIN list : \A x \in {} : list[i].at >= x} = DOMAIN list
  OBVIOUS
<1>6. used_since(list, {}) = SumFunctionOnSet(f, DOMAIN list)
  BY <1>5 DEF used_since
<1> HIDE DEF f
<1>7. used_since(list, {}) \in Int
  BY <1>2, <1>4, <1>6, SumInt
<1> QED BY <1>1, <1>2, <1>4, <1>6, <1>7 DEF f

LEMMA TotalOfNone == <<>> \in Rollups /\ used_since(<<>>, {}) = 0
<1>1. <<>> \in Rollups
  BY DEF Rollups
<1>2. DOMAIN <<>> = {}
  OBVIOUS
<1>3. used_since(<<>>, {}) = SumFunctionOnSet([i \in {} |-> <<>>[i].seconds], {})
  BY <1>2 DEF used_since
<1> QED BY <1>1, <1>3, SumStep, FS_EmptySet

LEMMA TotalOfMore ==
  ASSUME NEW list \in Rollups, NEW r \in Rollup
  PROVE  /\ Append(list, r) \in Rollups
         /\ used_since(Append(list, r), {}) = used_since(list, {}) + r.seconds
<1> DEFINE more == Append(list, r)
           f == [i \in DOMAIN list |-> list[i].seconds]
           g == [i \in DOMAIN more |-> more[i].seconds]
           n == Len(list) + 1
<1>1. /\ more \in Rollups /\ n \in DOMAIN more /\ DOMAIN more \ {n} = DOMAIN list
      /\ more[n] = r /\ \A i \in DOMAIN list : more[i] = list[i]
  <2>1. list \in Seq(Rollup) /\ DOMAIN list = 1..Len(list) /\ Len(list) \in Nat
    BY DEF Rollups
  <2>2. more \in Seq(Rollup) /\ Len(more) = n /\ DOMAIN more = 1..n
    BY <2>1
  <2>3. more[n] = r /\ \A i \in 1..Len(list) : more[i] = list[i]
    BY <2>1
  <2> HIDE DEF more
  <2>4. n \in DOMAIN more /\ DOMAIN more \ {n} = DOMAIN list
    BY <2>1, <2>2
  <2> QED BY <2>1, <2>2, <2>3, <2>4 DEF Rollups
<1> HIDE DEF more, n
<1>2. g[n] = r.seconds /\ \A i \in DOMAIN list : g[i] = f[i]
  BY <1>1
<1>3. /\ used_since(list, {}) = SumFunctionOnSet(f, DOMAIN list) /\ used_since(list, {}) \in Int
      /\ used_since(more, {}) = SumFunctionOnSet(g, DOMAIN more)
      /\ IsFiniteSet(DOMAIN more) /\ Numeric(g, DOMAIN more) /\ IsFiniteSet(DOMAIN list)
  BY <1>1, TotalOfList
<1> HIDE DEF f, g
<1>4. SumFunctionOnSet(g, DOMAIN more) = g[n] + SumFunctionOnSet(g, DOMAIN list)
  BY <1>1, <1>3, SumTake
<1>5. SumFunctionOnSet(g, DOMAIN list) = SumFunctionOnSet(f, DOMAIN list)
  BY <1>2, <1>3, SumSame
<1>6. r.seconds \in Int
  BY DEF Rollup
<1> QED BY <1>1, <1>2, <1>3, <1>4, <1>5, <1>6 DEF more

LEMMA ChargedTotal ==
  ASSUME NEW use, Metered(use), NEW obs, NEW t \in Int, NEW n \in Nat
  PROVE  /\ Metered(Charged(use, obs, t, n))
         /\ \A k : Total(use, k) \in Int
         /\ \A k \in DOMAIN Charged(use, obs, t, n) : Total(Charged(use, obs, t, n), k) <= Total(use, k) + n
<1> DEFINE keys == charged_keys(State(running, use, t), obs, config)
           next == [k \in DOMAIN use \cup keys |->
                      IF k \in keys THEN Append(Recorded(use, k), [at |-> t, seconds |-> n]) ELSE use[k]]
<1>1. Charged(use, obs, t, n) = IF n = 0 THEN use ELSE next
  BY DEF Charged
<1> HIDE DEF keys
<1>2. ASSUME NEW k PROVE /\ Recorded(use, k) \in Rollups
                         /\ Total(use, k) = used_since(Recorded(use, k), {}) /\ Total(use, k) \in Int
  <2>1. CASE k \in DOMAIN use
    <3>1. Recorded(use, k) = use[k] /\ use[k] \in Rollups
      BY <2>1 DEF Recorded, Metered
    <3> QED BY <2>1, <3>1, TotalOfList DEF Total
  <2>2. CASE k \notin DOMAIN use
    <3>1. Recorded(use, k) = <<>> /\ Total(use, k) = 0
      BY <2>2 DEF Recorded, Total
    <3> QED BY <3>1, TotalOfNone
  <2> QED BY <2>1, <2>2
<1>3. ASSUME NEW k \in DOMAIN next PROVE next[k] \in Rollups /\ Total(next, k) <= Total(use, k) + n
  <2>1. CASE k \in keys
    <3>1. next[k] = Append(Recorded(use, k), [at |-> t, seconds |-> n])
      BY <2>1
    <3>2. next[k] \in Rollups /\ used_since(next[k], {}) = used_since(Recorded(use, k), {}) + n
      BY <1>2, <3>1, TotalOfMore DEF Rollup
    <3> HIDE DEF next
    <3> QED BY <1>2, <1>3, <3>2 DEF Total
  <2>2. CASE k \notin keys
    <3>1. next[k] = use[k] /\ k \in DOMAIN use
      BY <2>2
    <3> HIDE DEF next
    <3>2. Total(next, k) = Total(use, k) /\ next[k] \in Rollups
      BY <1>3, <3>1 DEF Total, Metered
    <3> QED BY <1>2, <3>2
  <2> QED BY <2>1, <2>2
<1> HIDE DEF next
<1>4. CASE n = 0
  BY <1>1, <1>2, <1>4
<1>5. CASE n # 0
  BY <1>1, <1>2, <1>3, <1>5 DEF Metered
<1> QED BY <1>4, <1>5

\* At most one thing is in front, and that is what is charged.
LEMMA AccruedIs ==
  ASSUME \A s \in seen : seen = {s}, NEW t
  PROVE  \/ accrue(t) = usage
         \/ seen # {} /\ \E w : accrue(t) = Charged(usage, w, t, elapsed(t))
<1> DEFINE F == foreground_now(t)
           n == elapsed(t)
           iter[V \in SUBSET F] == IF V = {} THEN usage
                                   ELSE LET x == CHOOSE x \in V : TRUE IN Charged(iter[V \ {x}], x, t, n)
           Is(h) == h = [V \in SUBSET F |-> IF V = {} THEN usage
                          ELSE LET x == CHOOSE x \in V : TRUE IN Charged(h[V \ {x}], x, t, n)]
<1>1. accrue(t) = iter[F]
  BY DEF accrue, FoldSet, MapThenFoldSet
<1>2. F = {} \/ (seen # {} /\ \E w : F = {w})
  <2>1. CASE seen = {}
    BY <2>1 DEF foreground_now
  <2>2. CASE seen # {}
    <3>1. PICK s : seen = {s}
      BY <2>2
    <3>2. F \subseteq {s.window}
      BY <3>1 DEF foreground_now
    <3> QED BY <2>2, <3>2
  <2> QED BY <2>1, <2>2
<1> HIDE DEF F, n
<1>3. \E h : Is(h)
  <2>1. CASE F = {}
    <3> DEFINE h == [V \in SUBSET F |-> usage]
    <3>1. Is(h)
      BY <2>1
    <3> QED BY <3>1
  <2>2. CASE \E w : F = {w}
    <3>1. PICK w : F = {w}
      BY <2>2
    <3> DEFINE h == [V \in SUBSET F |-> IF V = {} THEN usage ELSE Charged(usage, w, t, n)]
    <3>2. ASSUME NEW V \in SUBSET F, V # {}
          PROVE  h[V] = LET x == CHOOSE x \in V : TRUE IN Charged(h[V \ {x}], x, t, n)
      <4>1. V = {w} /\ (CHOOSE x \in V : TRUE) = w /\ V \ {w} = {} /\ {} \in SUBSET F
        BY <3>1, <3>2
      <4>2. h[{}] = usage /\ h[V] = Charged(usage, w, t, n)
        BY <3>2, <4>1
      <4> HIDE DEF h
      <4> QED BY <4>1, <4>2
    <3>3. \A V \in SUBSET F : V = {} => h[V] = usage
      OBVIOUS
    <3>4. h = [V \in SUBSET F |-> h[V]]
      OBVIOUS
    <3> HIDE DEF h
    <3>5. Is(h)
      BY <3>2, <3>3, <3>4
    <3> QED BY <3>5
  <2> QED BY <1>2, <2>1, <2>2
<1>4. Is(iter)
  BY <1>3
<1> HIDE DEF iter
<1>5. CASE F = {}
  <2>1. iter[F] = usage
    BY <1>4, <1>5
  <2> QED BY <1>1, <2>1
<1>6. CASE seen # {} /\ \E w : F = {w}
  <2>1. PICK w : F = {w}
    BY <1>6
  <2>2. (CHOOSE x \in {w} : TRUE) = w /\ {w} \ {w} = {} /\ {} \in SUBSET F /\ {w} \in SUBSET F
    BY <2>1
  <2>3. iter[{}] = usage /\ iter[{w}] = Charged(iter[{w} \ {w}], w, t, n)
    BY <1>4, <2>2
  <2>4. iter[F] = Charged(usage, w, t, n)
    BY <2>1, <2>2, <2>3
  <2> QED BY <1>1, <1>6, <2>4 DEF n
<1> QED BY <1>2, <1>5, <1>6

-----------------------------------------------------------------------------
(***************************************************************************)
(* Who said what.  The meters are never above what the tray and each of    *)
(* the browsers may have said so far; and what each may still say of the   *)
(* time since it last did is in what the machine was awake.                *)
(***************************************************************************)
Beating(tale) == {e \in tale.extended : "beat" \in tale.does}

\* What was said until some instant, and what may be said of the time since.
Ahead(said, from, most, t, awake) == said + (t - from) <= awake \/ said + most <= awake

Billed(use, at, beats, t, awake, tale) ==
  \E tray \in Int, says \in [Beating(tale) -> Int] :
    LET all == tray + SumFunctionOnSet(says, Beating(tale)) IN
    /\ 0 <= all /\ \A k \in DOMAIN use : Total(use, k) <= all
    /\ tray <= awake /\ ("tray" \in tale.does \/ tray = 0)
    /\ \A x \in at : Ahead(tray, x, TICK, t, awake)
    /\ \A e \in Beating(tale) :
         says[e] <= awake /\ (e \in DOMAIN beats => Ahead(says[e], beats[e], GRACE_SECONDS, t, awake))

Past(x, t) == x \in Int /\ x <= t

LEMMA Bounds ==
  /\ TICK \in Nat /\ GRACE_SECONDS \in Nat /\ NAP \in Nat /\ Start \in Nat /\ TICK <= GRACE_SECONDS
BY BlockingAssumption

\* Time goes on: by a second that the machine is awake for, or by a nap that a grace is allowed for.
LEMMA BilledLater ==
  ASSUME NEW use, NEW at, NEW beats, NEW t \in Int, NEW awake \in Int, NEW tale,
         Billed(use, at, beats, t, awake, tale),
         \A x \in at : Past(x, t), \A e \in DOMAIN beats : Past(beats[e], t),
         NEW later \in Int, NEW more \in Int,
         \/ later = t + 1 /\ more = awake + 1
         \/ later >= t /\ more = awake + GRACE_SECONDS
  PROVE  Billed(use, at, beats, later, more, tale)
<1> DEFINE B == Beating(tale)
           all(tray, says) == tray + SumFunctionOnSet(says, B)
<1>1. PICK tray \in Int, says \in [B -> Int] :
        /\ 0 <= all(tray, says) /\ \A k \in DOMAIN use : Total(use, k) <= all(tray, says)
        /\ tray <= awake /\ ("tray" \in tale.does \/ tray = 0)
        /\ \A x \in at : Ahead(tray, x, TICK, t, awake)
        /\ \A e \in B : says[e] <= awake
                        /\ (e \in DOMAIN beats => Ahead(says[e], beats[e], GRACE_SECONDS, t, awake))
  BY DEF Billed
<1>2. ASSUME NEW said \in Int, said <= awake, NEW x, Past(x, t), NEW most \in Nat, most <= GRACE_SECONDS,
             Ahead(said, x, most, t, awake)
      PROVE  Ahead(said, x, most, later, more)
  BY <1>2, Bounds DEF Ahead, Past
<1>3. more >= awake
  BY Bounds
<1>4. tray <= more /\ \A x \in at : Ahead(tray, x, TICK, later, more)
  BY <1>1, <1>2, <1>3, Bounds
<1>5. \A e \in B : says[e] <= more
                   /\ (e \in DOMAIN beats => Ahead(says[e], beats[e], GRACE_SECONDS, later, more))
  <2> SUFFICES ASSUME NEW e \in B
               PROVE  says[e] <= more
                      /\ (e \in DOMAIN beats => Ahead(says[e], beats[e], GRACE_SECONDS, later, more))
    OBVIOUS
  <2>1. says[e] \in Int /\ says[e] <= awake
    BY <1>1
  <2> QED BY <1>1, <1>2, <1>3, <2>1, Bounds
<1> HIDE DEF B
<1> QED BY <1>1, <1>4, <1>5 DEF Billed, B

\* A pass charges the time since the last one.
LEMMA BilledByTray ==
  ASSUME NEW use, NEW at, NEW beats, NEW t \in Int, NEW awake \in Int, NEW tale,
         Billed(use, at, beats, t, awake, tale), IsFiniteSet(Beating(tale)),
         NEW n \in Nat,
         n = 0 \/ ("tray" \in tale.does /\ n <= TICK /\ \E x \in at : Past(x, t) /\ n <= t - x),
         NEW next, \A k : Total(use, k) \in Int, \A k \in DOMAIN use : k \in DOMAIN next,
         \A k \in DOMAIN next : Total(next, k) \in Int /\ Total(next, k) <= Total(use, k) + n,
         NEW later, DOMAIN later \subseteq DOMAIN beats, \A e \in DOMAIN later : later[e] = beats[e]
  PROVE  Billed(next, {t}, later, t, awake, tale)
<1> DEFINE B == Beating(tale)
           all(tray, says) == tray + SumFunctionOnSet(says, B)
<1>1. PICK tray \in Int, says \in [B -> Int] :
        /\ 0 <= all(tray, says) /\ \A k \in DOMAIN use : Total(use, k) <= all(tray, says)
        /\ tray <= awake /\ ("tray" \in tale.does \/ tray = 0)
        /\ \A x \in at : Ahead(tray, x, TICK, t, awake)
        /\ \A e \in B : says[e] <= awake
                        /\ (e \in DOMAIN beats => Ahead(says[e], beats[e], GRACE_SECONDS, t, awake))
  BY DEF Billed
<1> HIDE DEF B
<1>2. Numeric(says, B) /\ SumFunctionOnSet(says, B) \in Int
  BY SumInt DEF Numeric, B
<1>3. tray + n <= awake /\ ("tray" \in tale.does \/ tray + n = 0)
  <2>1. CASE n = 0
    BY <1>1, <2>1
  <2>2. CASE "tray" \in tale.does /\ n <= TICK /\ \E x \in at : Past(x, t) /\ n <= t - x
    <3>1. PICK x \in at : Past(x, t) /\ n <= t - x
      BY <2>2
    <3>2. Ahead(tray, x, TICK, t, awake)
      BY <1>1
    <3> QED BY <2>2, <3>1, <3>2, Bounds DEF Ahead, Past
  <2> QED BY <2>1, <2>2
<1>4. \A k \in DOMAIN next : Total(next, k) <= all(tray + n, says)
  <2> SUFFICES ASSUME NEW k \in DOMAIN next PROVE Total(next, k) <= all(tray + n, says)
    OBVIOUS
  <2>1. Total(use, k) <= all(tray, says)
    <3>1. k \notin DOMAIN use => Total(use, k) = 0
      BY DEF Total
    <3> QED BY <1>1, <3>1
  <2>2. Total(use, k) \in Int /\ Total(next, k) \in Int /\ Total(next, k) <= Total(use, k) + n
    OBVIOUS
  <2> QED BY <1>2, <2>1, <2>2
<1>5. 0 <= all(tray + n, says)
  BY <1>1, <1>2
<1>6. \A x \in {t} : Ahead(tray + n, x, TICK, t, awake)
  BY <1>3 DEF Ahead
<1>7. tray + n \in Int
  OBVIOUS
<1>8. \A e \in B : says[e] <= awake
                   /\ (e \in DOMAIN later => Ahead(says[e], later[e], GRACE_SECONDS, t, awake))
  BY <1>1
<1> QED BY <1>3, <1>4, <1>5, <1>6, <1>7, <1>8 DEF Billed, B

\* A beat charges the time since the last one.
LEMMA BilledByBeat ==
  ASSUME NEW use, NEW at, NEW beats, NEW t \in Int, NEW awake \in Int, NEW tale,
         Billed(use, at, beats, t, awake, tale), IsFiniteSet(Beating(tale)),
         NEW exe, NEW n \in Nat,
         n = 0 \/ (exe \in Beating(tale) \cap DOMAIN beats /\ n <= GRACE_SECONDS
                   /\ Past(beats[exe], t) /\ n <= t - beats[exe]),
         NEW next, \A k : Total(use, k) \in Int,
         \A k \in DOMAIN next : Total(next, k) \in Int /\ Total(next, k) <= Total(use, k) + n
  PROVE  Billed(next, at, SetAt(beats, exe, t), t, awake, tale)
<1> DEFINE B == Beating(tale)
           all(tray, says) == tray + SumFunctionOnSet(says, B)
<1>1. PICK tray \in Int, says \in [B -> Int] :
        /\ 0 <= all(tray, says) /\ \A k \in DOMAIN use : Total(use, k) <= all(tray, says)
        /\ tray <= awake /\ ("tray" \in tale.does \/ tray = 0)
        /\ \A x \in at : Ahead(tray, x, TICK, t, awake)
        /\ \A e \in B : says[e] <= awake
                        /\ (e \in DOMAIN beats => Ahead(says[e], beats[e], GRACE_SECONDS, t, awake))
  BY DEF Billed
<1> HIDE DEF B
<1>2. Numeric(says, B) /\ SumFunctionOnSet(says, B) \in Int /\ IsFiniteSet(B)
  BY SumInt DEF Numeric, B
<1> DEFINE told == IF exe \in B THEN [says EXCEPT ![exe] = says[exe] + n] ELSE says
           after == SetAt(beats, exe, t)
<1>3. told \in [B -> Int] /\ SumFunctionOnSet(told, B) = SumFunctionOnSet(says, B) + n
  <2>1. CASE exe \in B
    <3>1. told \in [B -> Int] /\ told[exe] = says[exe] + n /\ says[exe] \in Int
          /\ \A e \in B \ {exe} : told[e] = says[e]
      BY <2>1
    <3> HIDE DEF told
    <3>2. SumFunctionOnSet(told, B) = SumFunctionOnSet(says, B) - says[exe] + told[exe]
      BY <1>2, <2>1, <3>1, SumChanged
    <3> QED BY <1>2, <3>1, <3>2
  <2>2. CASE exe \notin B
    <3>1. n = 0 /\ told = says
      BY <2>2 DEF B
    <3> HIDE DEF told
    <3>2. SumFunctionOnSet(told, B) = SumFunctionOnSet(says, B) + n
      BY <1>2, <3>1
    <3> QED BY <3>1, <3>2
  <2> QED BY <2>1, <2>2
<1>4. \A k \in DOMAIN next : Total(next, k) <= all(tray, told)
  <2> HIDE DEF told
  <2> SUFFICES ASSUME NEW k \in DOMAIN next PROVE Total(next, k) <= all(tray, told)
    OBVIOUS
  <2>1. Total(use, k) <= all(tray, says)
    <3>1. k \notin DOMAIN use => Total(use, k) = 0
      BY DEF Total
    <3> QED BY <1>1, <3>1
  <2>2. Total(use, k) \in Int /\ Total(next, k) \in Int /\ Total(next, k) <= Total(use, k) + n
    OBVIOUS
  <2> QED BY <1>2, <1>3, <2>1, <2>2
<1>5. 0 <= all(tray, told)
  <2> HIDE DEF told
  <2> QED BY <1>1, <1>2, <1>3
<1>6. ASSUME NEW e \in B
      PROVE  told[e] <= awake /\ (e \in DOMAIN after => Ahead(told[e], after[e], GRACE_SECONDS, t, awake))
  <2>1. CASE e # exe
    <3>1. told[e] = says[e] /\ (e \in DOMAIN after <=> e \in DOMAIN beats)
          /\ (e \in DOMAIN beats => after[e] = beats[e])
      BY <2>1 DEF SetAt
    <3> HIDE DEF told, after
    <3> QED BY <1>1, <3>1
  <2>2. CASE e = exe
    <3>1. told[e] = says[e] + n /\ after[e] = t /\ says[e] \in Int
      BY <2>2 DEF SetAt
    <3> HIDE DEF told, after
    <3>2. says[e] + n <= awake
      <4>1. CASE n = 0
        BY <1>1, <3>1, <4>1
      <4>2. CASE exe \in DOMAIN beats /\ n <= GRACE_SECONDS /\ Past(beats[exe], t) /\ n <= t - beats[exe]
        <5>1. Ahead(says[e], beats[e], GRACE_SECONDS, t, awake)
          BY <1>1, <2>2, <4>2
        <5> QED BY <2>2, <3>1, <4>2, <5>1, Bounds DEF Ahead, Past
      <4> QED BY <4>1, <4>2
    <3> QED BY <3>1, <3>2 DEF Ahead
  <2> QED BY <2>1, <2>2
<1> HIDE DEF told, after
<1> QED BY <1>1, <1>3, <1>4, <1>5, <1>6 DEF Billed, B, after

\* What is forgotten of the last pass and the last beats only lessens what may still be said.
LEMMA BilledAnew ==
  ASSUME NEW use, NEW at, NEW beats, NEW t, NEW awake, NEW tale, Billed(use, at, beats, t, awake, tale)
  PROVE  Billed(use, at, <<>>, t, awake, tale)
BY DEF Billed

LEMMA BilledNothing ==
  ASSUME NEW t, NEW awake \in Nat, NEW tale, IsFiniteSet(Beating(tale))
  PROVE  Billed(Nothing, {}, <<>>, t, awake, tale)
<1> DEFINE B == Beating(tale)
           says == [e \in B |-> 0]
<1>1. SumFunctionOnSet(says, B) = 0 /\ says \in [B -> Int] /\ \A e \in B : says[e] = 0
  BY SumOfNoughts
<1> HIDE DEF says, B
<1> QED BY <1>1 DEF Billed, Nothing, B

\* Who says what is in use.
LEMMA BilledBound ==
  ASSUME NEW use, NEW at, NEW beats, NEW t, NEW awake \in Nat, NEW tale,
         Billed(use, at, beats, t, awake, tale), IsFiniteSet(Beating(tale)),
         NEW k \in DOMAIN use, Total(use, k) \in Int
  PROVE  Total(use, k) <= (Cardinality({"tray"} \cap tale.does) + Cardinality(Beating(tale))) * awake
<1> DEFINE B == Beating(tale)
           one == Cardinality({"tray"} \cap tale.does)
<1>1. PICK tray \in Int, says \in [B -> Int] :
        /\ Total(use, k) <= tray + SumFunctionOnSet(says, B)
        /\ tray <= awake /\ ("tray" \in tale.does \/ tray = 0)
        /\ \A e \in B : says[e] <= awake
  BY DEF Billed
<1> HIDE DEF B
<1>2. SumFunctionOnSet(says, B) <= Cardinality(B) * awake
  BY <1>1, SumAtMost DEF B
<1>3. tray <= one * awake /\ one \in Nat
  <2>1. CASE "tray" \in tale.does
    <3>1. {"tray"} \cap tale.does = {"tray"}
      BY <2>1
    <3>2. one = 1
      BY <3>1, FS_Singleton
    <3> QED BY <1>1, <3>2
  <2>2. CASE "tray" \notin tale.does
    <3>1. {"tray"} \cap tale.does = {}
      BY <2>2
    <3>2. one = 0
      BY <3>1, FS_EmptySet
    <3> QED BY <1>1, <2>2, <3>2
  <2> QED BY <2>1, <2>2
<1> HIDE DEF one
<1>4. SumFunctionOnSet(says, B) \in Int /\ Cardinality(B) \in Nat
  BY SumInt, FS_CardinalityType DEF Numeric, B
<1>5. (one + Cardinality(B)) * awake = one * awake + Cardinality(B) * awake
      /\ one * awake \in Int /\ Cardinality(B) * awake \in Int
  BY <1>3, <1>4
<1> QED BY <1>1, <1>2, <1>3, <1>4, <1>5 DEF B, one

-----------------------------------------------------------------------------
(***************************************************************************)
(* The meters through the passes, the beats, the sleeps and the crashes.   *)
(***************************************************************************)
UseInv ==
  /\ now \in Int /\ sleeps \in Int /\ AwakeAtMost \in Nat
  /\ Metered(usage) /\ Metered(saved.usage)
  /\ \A t \in previous : Past(t, now) /\ previous = {t}
  /\ \A t \in saved.at : Past(t, now) /\ saved.at = {t}
  /\ watch = [beats |-> watch.beats, first_seen |-> watch.first_seen]
  /\ \A e \in DOMAIN watch.beats : Past(watch.beats[e], now)
  /\ \A s \in seen : seen = {s}
  /\ "tray" \in Tale.does \/ seen = {}
  /\ ~up => watch.beats = <<>>
  /\ Billed(usage, previous, watch.beats, now, AwakeAtMost, Tale)
  /\ Billed(saved.usage, saved.at, <<>>, now, AwakeAtMost, Tale)

LEMMA FewBeat == ASSUME DocumentInv PROVE IsFiniteSet(Beating(Tale))
<1>1. Tale \in Story
  BY BlockingAssumption DEF DocumentInv, Tale, Range
<1>2. Tale.extended \subseteq BROWSERS
  BY <1>1 DEF Story
<1>3. Beating(Tale) \subseteq BROWSERS
  BY <1>2 DEF Beating
<1> QED BY <1>3, BlockingAssumption, FS_Subset

LEMMA TotalsAreNumbers == ASSUME NEW use, Metered(use) PROVE \A k : Total(use, k) \in Int
<1> SUFFICES ASSUME NEW k PROVE Total(use, k) \in Int
  OBVIOUS
<1>1. CASE k \in DOMAIN use
  <2>1. use[k] \in Rollups
    BY <1>1 DEF Metered
  <2>2. used_since(use[k], {}) \in Int
    BY <2>1, TotalOfList
  <2> QED BY <1>1, <2>2 DEF Total
<1>2. CASE k \notin DOMAIN use
  BY <1>2 DEF Total
<1> QED BY <1>1, <1>2

LEMMA InitUseInv == ASSUME Init PROVE UseInv
<1>1. story \in DOMAIN Stories /\ now = Start /\ sleeps = 0 /\ usage = Nothing /\ previous = {} /\ seen = {}
      /\ watch = NoWatch /\ saved = Unsaved
  BY DEF Init
<1>2. AwakeAtMost = 0
  BY <1>1, Bounds, BlockingAssumption DEF AwakeAtMost
<1>3. IsFiniteSet(Beating(Tale))
  BY FewBeat, InitDocumentInv
<1>4. Billed(Nothing, {}, <<>>, now, AwakeAtMost, Tale)
  BY <1>2, <1>3, BilledNothing
<1> QED BY <1>1, <1>2, <1>4, Bounds DEF UseInv, Metered, NoWatch, Nothing, Unsaved

\* What says nothing of what is in use.
LEMMA NothingSaid ==
  ASSUME UseInv, UNCHANGED <<story, now, sleeps, saved, usage, previous, watch, up>>,
         \A s \in seen' : seen' = {s}, "tray" \in Tale.does \/ seen' = {}
  PROVE  UseInv'
<1>1. Tale' = Tale /\ AwakeAtMost' = AwakeAtMost
  BY DEF Tale, AwakeAtMost
<1> QED BY <1>1 DEF UseInv

LEMMA TimePasses ==
  ASSUME UseInv, Second \/ Sleep
  PROVE  UseInv'
<1>1. /\ UNCHANGED <<story, saved, usage, previous, watch, seen, up>>
      /\ \/ now' = now + 1 /\ sleeps' = sleeps
         \/ now' = now + NAP /\ sleeps' = sleeps + 1
  BY DEF Second, Sleep, memory, world
<1>2. now \in Int /\ sleeps \in Int /\ AwakeAtMost \in Nat /\ Tale' = Tale
  BY <1>1 DEF UseInv, Tale
<1>3. /\ now' \in Int /\ sleeps' \in Int /\ AwakeAtMost' \in Nat
      /\ \/ now' = now + 1 /\ AwakeAtMost' = AwakeAtMost + 1
         \/ now' >= now /\ AwakeAtMost' = AwakeAtMost + GRACE_SECONDS
  <2>1. CASE now' = now + 1 /\ sleeps' = sleeps
    <3> DEFINE slept == sleeps * (NAP - GRACE_SECONDS)
    <3>1. slept \in Int
      BY <1>2, Bounds
    <3>2. AwakeAtMost = now - Start - slept /\ AwakeAtMost' = now' - Start - slept
      BY <2>1 DEF AwakeAtMost
    <3> HIDE DEF slept
    <3> QED BY <1>2, <2>1, <3>1, <3>2, Bounds
  <2>2. CASE now' = now + NAP /\ sleeps' = sleeps + 1
    <3> DEFINE slept == sleeps * (NAP - GRACE_SECONDS)
    <3>1. slept \in Int /\ (sleeps + 1) * (NAP - GRACE_SECONDS) = slept + (NAP - GRACE_SECONDS)
      BY <1>2, Bounds
    <3>2. AwakeAtMost = now - Start - slept /\ AwakeAtMost' = now' - Start - (slept + (NAP - GRACE_SECONDS))
      BY <2>2, <3>1 DEF AwakeAtMost
    <3> HIDE DEF slept
    <3> QED BY <1>2, <2>2, <3>1, <3>2, Bounds
  <2> QED BY <1>1, <2>1, <2>2
<1>4. /\ Billed(usage, previous, watch.beats, now', AwakeAtMost', Tale)
      /\ Billed(saved.usage, saved.at, <<>>, now', AwakeAtMost', Tale)
  <2>1. \A e \in DOMAIN <<>> : Past(<<>>[e], now)
    OBVIOUS
  <2> QED BY <1>2, <1>3, <2>1, BilledLater DEF UseInv
<1>5. \A x : Past(x, now) => Past(x, now')
  BY <1>2, <1>3, Bounds DEF Past
<1> QED BY <1>1, <1>2, <1>3, <1>4, <1>5 DEF UseInv

LEMMA ElapsedIs ==
  ASSUME UseInv
  PROVE  /\ elapsed(now) \in Nat
         /\ elapsed(now) = 0 \/ (elapsed(now) <= TICK /\ \E x \in previous : Past(x, now) /\ elapsed(now) <= now - x)
<1>1. CASE previous = {}
  BY <1>1 DEF elapsed
<1>2. CASE previous # {}
  <2>1. PICK x : previous = {x} /\ Past(x, now)
    BY <1>2 DEF UseInv
  <2>2. Max(previous) = x /\ x \in Int
    <3>1. {x} \in SUBSET Int /\ IsFiniteSet({x}) /\ {x} # {}
      BY <2>1, FS_Singleton DEF Past
    <3>2. Max({x}) \in {x}
      BY <3>1, MaxOf
    <3> QED BY <2>1, <3>2 DEF Past
  <2>3. elapsed(now) = IF now > x THEN Min({now - x, TICK}) ELSE 0
    BY <1>2, <2>2 DEF elapsed
  <2>4. Min({now - x, TICK}) \in {now - x, TICK} /\ Min({now - x, TICK}) <= now - x
        /\ Min({now - x, TICK}) <= TICK
    <3>1. now - x \in Int /\ TICK \in Int
      BY <2>2, Bounds DEF UseInv
    <3>2. {now - x, TICK} \in SUBSET Int /\ IsFiniteSet({now - x, TICK}) /\ {now - x, TICK} # {}
      BY <3>1, PairFinite
    <3> QED BY <3>2, MinOf
  <2> QED BY <2>1, <2>2, <2>3, <2>4, Bounds DEF UseInv
<1> QED BY <1>1, <1>2

LEMMA PassBills ==
  ASSUME DocumentInv, UseInv, Tick
  PROVE  UseInv'
<1>1. /\ UNCHANGED <<story, now, sleeps, saved, seen, up>> /\ up /\ previous' = {now}
      /\ usage' = accrue(now) /\ watch' = saw(watch, DOMAIN procs, now)
  BY PassIs DEF Tick, Called, Charging, world, PassLook
<1>2. Tale' = Tale /\ AwakeAtMost' = AwakeAtMost /\ now \in Int /\ AwakeAtMost \in Nat
  BY <1>1 DEF Tale, AwakeAtMost, UseInv
<1> DEFINE n == IF usage' = usage THEN 0 ELSE elapsed(now)
<1>3. /\ Metered(usage') /\ n \in Nat /\ \A k : Total(usage, k) \in Int
      /\ \A k \in DOMAIN usage : k \in DOMAIN usage'
      /\ \A k \in DOMAIN usage' : Total(usage', k) \in Int /\ Total(usage', k) <= Total(usage, k) + n
      /\ n = 0 \/ ("tray" \in Tale.does /\ n = elapsed(now))
  <2>1. Metered(usage) /\ \A k : Total(usage, k) \in Int
    BY TotalsAreNumbers DEF UseInv
  <2>2. CASE usage' = usage
    BY <2>1, <2>2
  <2>3. CASE usage' # usage
    <3>1. PICK w : accrue(now) = Charged(usage, w, now, elapsed(now)) /\ seen # {}
      BY <1>1, <2>3, AccruedIs DEF UseInv
    <3>2. Metered(usage') /\ \A k \in DOMAIN usage' : Total(usage', k) <= Total(usage, k) + elapsed(now)
      BY <1>1, <1>2, <2>1, <3>1, ChargedTotal, ElapsedIs
    <3>3. \A k \in DOMAIN usage : k \in DOMAIN usage'
      BY <1>1, <3>1 DEF Charged
    <3> QED BY <2>1, <2>3, <3>1, <3>2, <3>3, TotalsAreNumbers, ElapsedIs DEF UseInv
  <2> QED BY <2>2, <2>3
<1>4. /\ DOMAIN watch'.beats \subseteq DOMAIN watch.beats
      /\ \A e \in DOMAIN watch'.beats : watch'.beats[e] = watch.beats[e]
      /\ watch' = [beats |-> watch'.beats, first_seen |-> watch'.first_seen]
  BY <1>1 DEF saw, Restrict
<1> HIDE DEF n
<1>5. n = 0 \/ ("tray" \in Tale.does /\ n <= TICK /\ \E x \in previous : Past(x, now) /\ n <= now - x)
  BY <1>3, ElapsedIs
<1>6. Billed(usage', {now}, watch'.beats, now, AwakeAtMost, Tale)
  <2> DEFINE awake == AwakeAtMost
             tale  == Tale
             beats == watch.beats
             next  == usage'
             later == watch'.beats
  <2>1. Billed(usage, previous, beats, now, awake, tale) /\ IsFiniteSet(Beating(tale))
    BY FewBeat DEF UseInv
  <2>2. now \in Int /\ awake \in Int /\ n \in Nat
    BY <1>2, <1>3
  <2>3. n = 0 \/ ("tray" \in tale.does /\ n <= TICK /\ \E x \in previous : Past(x, now) /\ n <= now - x)
    BY <1>5
  <2>4. /\ \A k : Total(usage, k) \in Int
        /\ \A k \in DOMAIN usage : k \in DOMAIN next
        /\ \A k \in DOMAIN next : Total(next, k) \in Int /\ Total(next, k) <= Total(usage, k) + n
    BY <1>3
  <2>5. DOMAIN later \subseteq DOMAIN beats /\ \A e \in DOMAIN later : later[e] = beats[e]
    BY <1>4
  <2> HIDE DEF awake, tale, beats, next, later
  <2>6. Billed(next, {now}, later, now, awake, tale)
    BY <2>1, <2>2, <2>3, <2>4, <2>5, BilledByTray
  <2> QED BY <2>6 DEF awake, tale, next, later
<1>7. Past(now, now)
  BY <1>2 DEF Past
<1> QED BY <1>1, <1>2, <1>3, <1>4, <1>6, <1>7 DEF UseInv

LEMMA BeatIs ==
  ASSUME UseInv, NEW exe
  PROVE  /\ beat(watch, exe, now).watch = [beats |-> SetAt(watch.beats, exe, now),
                                           first_seen |-> watch.first_seen]
         /\ beat(watch, exe, now).seconds \in Nat
         /\ \/ beat(watch, exe, now).seconds = 0
            \/ /\ exe \in DOMAIN watch.beats /\ Past(watch.beats[exe], now)
               /\ beat(watch, exe, now).seconds <= GRACE_SECONDS
               /\ beat(watch, exe, now).seconds <= now - watch.beats[exe]
<1>1. beat(watch, exe, now).watch = [beats |-> SetAt(watch.beats, exe, now), first_seen |-> watch.first_seen]
  BY DEF beat, UseInv
<1>2. CASE exe \notin DOMAIN watch.beats
  BY <1>1, <1>2 DEF beat
<1>3. CASE exe \in DOMAIN watch.beats
  <2> DEFINE x == watch.beats[exe]
  <2>1. Past(x, now) /\ x \in Int /\ now \in Int
    BY <1>3 DEF UseInv, Past
  <2>2. beat(watch, exe, now).seconds = Min({now - x, GRACE_SECONDS})
    BY <1>3 DEF beat
  <2> HIDE DEF x
  <2>3. Min({now - x, GRACE_SECONDS}) \in {now - x, GRACE_SECONDS} /\ Min({now - x, GRACE_SECONDS}) <= now - x
        /\ Min({now - x, GRACE_SECONDS}) <= GRACE_SECONDS
    <3>1. now - x \in Int /\ GRACE_SECONDS \in Int
      BY <2>1, Bounds
    <3>2. {now - x, GRACE_SECONDS} \in SUBSET Int /\ IsFiniteSet({now - x, GRACE_SECONDS})
          /\ {now - x, GRACE_SECONDS} # {}
      BY <3>1, PairFinite
    <3> QED BY <3>2, MinOf
  <2>4. Min({now - x, GRACE_SECONDS}) \in Nat
    BY <2>1, <2>3, Bounds DEF Past
  <2> QED BY <1>1, <1>3, <2>1, <2>2, <2>3, <2>4 DEF x
<1> QED BY <1>2, <1>3

LEMMA BeatBills ==
  ASSUME DocumentInv, UseInv, NEW exe, NEW page, Beat(exe) \/ Check(exe, page)
  PROVE  UseInv'
<1> DEFINE b == beat(watch, exe, now)
           n == IF usage' = usage THEN 0 ELSE b.seconds
<1>1. /\ UNCHANGED <<story, now, sleeps, saved, seen, up, previous>> /\ up
      /\ watch' = b.watch
      /\ \/ usage' = usage
         \/ exe \in Beating(Tale) /\ \E w : usage' = Charged(usage, w, now, b.seconds)
  BY DEF Beat, Check, Serving, May, world, Beating
<1>2. /\ b.watch = [beats |-> SetAt(watch.beats, exe, now), first_seen |-> watch.first_seen]
      /\ b.seconds \in Nat
      /\ \/ b.seconds = 0
         \/ /\ exe \in DOMAIN watch.beats /\ Past(watch.beats[exe], now)
            /\ b.seconds <= GRACE_SECONDS /\ b.seconds <= now - watch.beats[exe]
  BY BeatIs
<1> HIDE DEF b
<1>3. Tale' = Tale /\ AwakeAtMost' = AwakeAtMost /\ now \in Int /\ AwakeAtMost \in Nat
  BY <1>1 DEF Tale, AwakeAtMost, UseInv
<1>4. /\ Metered(usage') /\ n \in Nat /\ \A k : Total(usage, k) \in Int
      /\ \A k \in DOMAIN usage' : Total(usage', k) \in Int /\ Total(usage', k) <= Total(usage, k) + n
      /\ n = 0 \/ (exe \in Beating(Tale) /\ n = b.seconds)
  <2>1. Metered(usage) /\ \A k : Total(usage, k) \in Int
    BY TotalsAreNumbers DEF UseInv
  <2>2. CASE usage' = usage
    BY <2>1, <2>2
  <2>3. CASE usage' # usage
    <3>1. PICK w : usage' = Charged(usage, w, now, b.seconds) /\ exe \in Beating(Tale)
      BY <1>1, <2>3
    <3>2. Metered(usage') /\ \A k \in DOMAIN usage' : Total(usage', k) <= Total(usage, k) + b.seconds
      BY <1>2, <1>3, <2>1, <3>1, ChargedTotal
    <3> QED BY <1>2, <2>1, <2>3, <3>1, <3>2, TotalsAreNumbers
  <2> QED BY <2>2, <2>3
<1> HIDE DEF n
<1>5. n = 0 \/ (exe \in Beating(Tale) \cap DOMAIN watch.beats /\ n <= GRACE_SECONDS
                /\ Past(watch.beats[exe], now) /\ n <= now - watch.beats[exe])
  BY <1>2, <1>4
<1>6. Billed(usage', previous, SetAt(watch.beats, exe, now), now, AwakeAtMost, Tale)
  <2> DEFINE awake == AwakeAtMost
             tale  == Tale
             beats == watch.beats
             next  == usage'
  <2>1. Billed(usage, previous, beats, now, awake, tale) /\ IsFiniteSet(Beating(tale))
    BY FewBeat DEF UseInv
  <2>2. now \in Int /\ awake \in Int /\ n \in Nat
    BY <1>3, <1>4
  <2>3. n = 0 \/ (exe \in Beating(tale) \cap DOMAIN beats /\ n <= GRACE_SECONDS
                  /\ Past(beats[exe], now) /\ n <= now - beats[exe])
    BY <1>5
  <2>4. /\ \A k : Total(usage, k) \in Int
        /\ \A k \in DOMAIN next : Total(next, k) \in Int /\ Total(next, k) <= Total(usage, k) + n
    BY <1>4
  <2> HIDE DEF awake, tale, beats, next
  <2>5. Billed(next, previous, SetAt(beats, exe, now), now, awake, tale)
    BY <2>1, <2>2, <2>3, <2>4, BilledByBeat
  <2> QED BY <2>5 DEF awake, tale, beats, next
<1>7. \A e \in DOMAIN SetAt(watch.beats, exe, now) : Past(SetAt(watch.beats, exe, now)[e], now)
  BY <1>3 DEF UseInv, SetAt, Past
<1>8. watch'.beats = SetAt(watch.beats, exe, now) /\ watch' = [beats |-> watch'.beats, first_seen |-> watch'.first_seen]
  BY <1>1, <1>2
<1> QED BY <1>1, <1>3, <1>4, <1>6, <1>7, <1>8 DEF UseInv

LEMMA ForgettingBills ==
  ASSUME DocumentInv, UseInv, Crash \/ Stop
  PROVE  UseInv'
<1>1. /\ UNCHANGED <<story, now, sleeps, saved>> /\ usage' = Nothing /\ previous' = {} /\ seen' = {}
      /\ watch' = NoWatch
  BY DEF Crash, Stop, Forgotten, world
<1>2. Tale' = Tale /\ AwakeAtMost' = AwakeAtMost /\ AwakeAtMost \in Nat
  BY <1>1 DEF Tale, AwakeAtMost, UseInv
<1>3. Billed(Nothing, {}, <<>>, now, AwakeAtMost, Tale)
  BY <1>2, FewBeat, BilledNothing
<1> QED BY <1>1, <1>2, <1>3 DEF UseInv, Metered, NoWatch, Nothing

LEMMA NextUseInv == DocumentInv /\ UseInv /\ [Next]_vars => UseInv'
<1> SUFFICES ASSUME DocumentInv, UseInv, [Next]_vars PROVE UseInv'
  OBVIOUS
<1>1. ASSUME NEW page, Launch(page) PROVE UseInv'
  BY <1>1, NothingSaid DEF Launch, memory, world, UseInv
<1>2. ASSUME NEW exe, Quit(exe) PROVE UseInv'
  BY <1>2, NothingSaid DEF Quit, memory, world, UseInv
<1>3. ASSUME NEW exe, Seen(exe) PROVE UseInv'
  BY <1>3, NothingSaid DEF Seen, May, world
<1>4. ASSUME NEW text, EditFile(text) PROVE UseInv'
  BY <1>4, NothingSaid DEF EditFile, memory, world, UseInv
<1>5. ASSUME NEW ask, StartSession(ask) PROVE UseInv'
  BY <1>5, NothingSaid DEF StartSession, world, UseInv
<1>6. CASE UNCHANGED vars
  BY <1>6, NothingSaid DEF vars, memory, world, UseInv
<1>7. CASE Persist
  <2>1. /\ UNCHANGED <<story, now, sleeps, usage, previous, watch, seen, up>>
        /\ saved' = saved \/ (saved'.usage = usage /\ saved'.at = previous)
    BY <1>7 DEF Persist, world
  <2>2. Tale' = Tale /\ AwakeAtMost' = AwakeAtMost
    BY <2>1 DEF Tale, AwakeAtMost
  <2>3. Billed(usage, previous, <<>>, now, AwakeAtMost, Tale)
    BY BilledAnew DEF UseInv
  <2> QED BY <2>1, <2>2, <2>3 DEF UseInv
<1>8. CASE Begin
  <2>1. /\ UNCHANGED <<story, now, sleeps, watch, seen, saved>> /\ ~up /\ up'
        /\ usage' = saved.usage /\ previous' = saved.at
    BY <1>8 DEF Begin, world
  <2>2. Tale' = Tale /\ AwakeAtMost' = AwakeAtMost
    BY <2>1 DEF Tale, AwakeAtMost
  <2>3. watch.beats = <<>>
    BY <2>1 DEF UseInv
  <2> QED BY <2>1, <2>2, <2>3 DEF UseInv
<1>9. CASE Reload
  <2>1. /\ UNCHANGED <<story, now, sleeps, usage, previous, seen, saved, up>>
        /\ watch' = watch \/ watch' = NoWatch
    BY <1>9 DEF Reload, world
  <2>2. Tale' = Tale /\ AwakeAtMost' = AwakeAtMost
    BY <2>1 DEF Tale, AwakeAtMost
  <2>3. Billed(usage, previous, <<>>, now, AwakeAtMost, Tale)
    BY BilledAnew DEF UseInv
  <2> QED BY <2>1, <2>2, <2>3 DEF UseInv, NoWatch, Nothing
<1> QED BY <1>1, <1>2, <1>3, <1>4, <1>5, <1>6, <1>7, <1>8, <1>9, TimePasses, PassBills, BeatBills,
        ForgettingBills DEF Next

-----------------------------------------------------------------------------
\* No meter holds more than its witnesses can have seen: the tray and each browser with the extension the time
\* the machine was awake, and a grace for every time it slept, whatever the order of passes, beats, reloads,
\* kills and restarts: accrue and elapsed of runner.rs and tick.rs, Watch::beat of extension.rs.
THEOREM NothingIsUsedAsleep == Spec => []UsedWhileAwake
<1>1. Init => DocumentInv /\ UseInv
  BY InitDocumentInv, InitUseInv
<1>2. DocumentInv /\ UseInv /\ [Next]_vars => (DocumentInv /\ UseInv)'
  BY NextDocumentInv, NextUseInv
<1>3. DocumentInv /\ UseInv => UsedWhileAwake
  <2> SUFFICES ASSUME DocumentInv, UseInv, NEW k \in DOMAIN usage
               PROVE  used_since(usage[k], {}) <= Witnesses * AwakeAtMost
    BY DEF UsedWhileAwake
  <2>1. Total(usage, k) \in Int /\ Total(usage, k) = used_since(usage[k], {})
    BY TotalsAreNumbers DEF UseInv, Total
  <2>2. Witnesses = Cardinality({"tray"} \cap Tale.does) + Cardinality(Beating(Tale))
    BY DEF Witnesses, Beating
  <2> QED BY <2>1, <2>2, FewBeat, BilledBound DEF UseInv
<1> QED BY <1>1, <1>2, <1>3, PTL DEF Spec

=============================================================================
