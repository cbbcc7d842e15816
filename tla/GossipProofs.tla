---------------------------- MODULE GossipProofs -----------------------------
(***************************************************************************)
(* What every device's log keeps to, however it is spread, cut, killed,    *)
(* compacted and copied: for any devices, networks, folders and entries.   *)
(***************************************************************************)
EXTENDS Gossip, SequenceTheorems, FiniteSetTheorems, WellFoundedInduction, TLAPS

-----------------------------------------------------------------------------
(***************************************************************************)
(* Histories and their beginnings.                                         *)
(***************************************************************************)
LEMMA Upto ==
  ASSUME NEW h \in History, NEW n \in 0 .. Len(h)
  PROVE  SubSeq(h, 1, n) \in History /\ Len(SubSeq(h, 1, n)) = n
<1>1. Len(h) \in Nat /\ \A i \in 1 .. n : h[i] \in Ops
  BY ElementOfSeq, LenProperties DEF History
<1>2. SubSeq(h, 1, n) \in Seq(Ops) /\ Len(SubSeq(h, 1, n)) = IF 1 <= n THEN n - 1 + 1 ELSE 0
  BY <1>1, SubSeqProperties
<1> QED BY <1>1, <1>2 DEF History

LEMMA UptoUpto ==
  ASSUME NEW h \in History, NEW m \in 0 .. Len(h), NEW n \in 0 .. m
  PROVE  SubSeq(SubSeq(h, 1, m), 1, n) = SubSeq(h, 1, n)
<1>1. Len(h) \in Nat /\ n \in 0 .. Len(h)
  BY LenProperties DEF History
<1> DEFINE g == SubSeq(h, 1, m)
<1>2. g \in Seq(Ops) /\ Len(g) = m
  BY Upto DEF History
<1>3. SubSeq(g, 1, n) \in Seq(Ops) /\ Len(SubSeq(g, 1, n)) = n
  BY <1>2, Upto DEF History
<1>4. SubSeq(h, 1, n) \in Seq(Ops) /\ Len(SubSeq(h, 1, n)) = n
  BY <1>1, Upto DEF History
<1>5. ASSUME NEW i \in 1 .. n PROVE SubSeq(g, 1, n)[i] = SubSeq(h, 1, n)[i]
  <2>1. /\ \A j \in 1 .. m : h[j] \in Ops
        /\ \A j \in 1 .. n : h[j] \in Ops
        /\ \A j \in 1 .. n : g[j] \in Ops
    BY <1>1, <1>2, ElementOfSeq DEF History
  <2>2. g[i] = h[1 + i - 1]
    BY <1>1, <2>1, SubSeqProperties
  <2>3. SubSeq(h, 1, n)[i] = h[1 + i - 1]
    BY <1>1, <2>1, SubSeqProperties
  <2>4. SubSeq(g, 1, n)[i] = g[1 + i - 1]
    BY <1>1, <2>1, SubSeqProperties
  <2> QED BY <2>2, <2>3, <2>4
<1> QED BY <1>3, <1>4, <1>5, SeqEqual

LEMMA PrefixIs ==
  ASSUME NEW s \in History, NEW t \in History
  PROVE  IsPrefix(s, t) <=> Len(s) <= Len(t) /\ SubSeq(t, 1, Len(s)) = s
BY SubSeqFull DEF IsPrefix, History

LEMMA PrefixOf ==
  ASSUME NEW h \in History, NEW n \in 0 .. Len(h)
  PROVE  IsPrefix(SubSeq(h, 1, n), h)
<1>1. n <= Len(h) /\ Len(h) \in Nat
  BY LenProperties DEF History
<1> QED BY <1>1, Upto, PrefixIs

LEMMA PrefixTrans ==
  ASSUME NEW r \in History, NEW s \in History, NEW t \in History, IsPrefix(r, s), IsPrefix(s, t)
  PROVE  IsPrefix(r, t)
<1>1. /\ Len(r) \in Nat /\ Len(s) \in Nat /\ Len(t) \in Nat
      /\ Len(r) <= Len(s) /\ Len(s) <= Len(t)
      /\ SubSeq(s, 1, Len(r)) = r /\ SubSeq(t, 1, Len(s)) = s
  BY PrefixIs, LenProperties DEF History
<1>2. SubSeq(SubSeq(t, 1, Len(s)), 1, Len(r)) = SubSeq(t, 1, Len(r))
  BY <1>1, UptoUpto
<1> QED BY <1>1, <1>2, PrefixIs

\* Two beginnings of one history begin alike.
LEMMA PrefixesMeet ==
  ASSUME NEW r \in History, NEW s \in History, NEW t \in History, IsPrefix(r, t), IsPrefix(s, t),
         Len(r) <= Len(s)
  PROVE  IsPrefix(r, s)
<1>1. /\ Len(r) \in Nat /\ Len(s) \in Nat /\ Len(t) \in Nat /\ Len(s) <= Len(t)
      /\ SubSeq(t, 1, Len(r)) = r /\ SubSeq(t, 1, Len(s)) = s
  BY PrefixIs, LenProperties DEF History
<1>2. SubSeq(SubSeq(t, 1, Len(s)), 1, Len(r)) = SubSeq(t, 1, Len(r))
  BY <1>1, UptoUpto
<1> QED BY <1>1, <1>2, PrefixIs

LEMMA PrefixSelf == ASSUME NEW h \in History PROVE IsPrefix(h, h)
BY LenProperties DEF IsPrefix, History

-----------------------------------------------------------------------------
(***************************************************************************)
(* Logs.  A log is whole if what it holds of an author is a stretch of one *)
(* history that begins where its checkpoint ends; a batch is unbroken if   *)
(* what it brings of an author is such a stretch.                          *)
(***************************************************************************)
Stretch(a, h, k) == {EntryOf(a, SubSeq(h, 1, n)) : n \in k + 1 .. Len(h)}

Whole(l) ==
  \A a \in Devices : /\ HeadOf(l, a) \in History
                     /\ IsPrefix(l.base[a], HeadOf(l, a))
                     /\ By(l, a) = Stretch(a, HeadOf(l, a), Len(l.base[a]))

Unbroken(batch) ==
  /\ batch \subseteq Entry
  /\ \A a \in Devices : \E h \in History, k \in Nat : {e \in batch : e.author = a} = Stretch(a, h, k)

LEMMA InStretch ==
  ASSUME NEW a, NEW h \in History, NEW k \in Nat, NEW e \in Stretch(a, h, k)
  PROVE  /\ e.author = a /\ Number(e) \in k + 1 .. Len(h)
         /\ e.history = SubSeq(h, 1, Number(e)) /\ e.history \in History
         /\ IsPrefix(e.history, h)
<1>1. Len(h) \in Nat
  BY LenProperties DEF History
<1>2. PICK n \in k + 1 .. Len(h) : e = EntryOf(a, SubSeq(h, 1, n))
  BY DEF Stretch
<1>3. n \in 0 .. Len(h)
  BY <1>1, <1>2
<1>4. e.author = a /\ e.history = SubSeq(h, 1, n)
  BY <1>2 DEF EntryOf
<1>5. Number(e) = n
  BY <1>3, <1>4, Upto DEF Number
<1> QED BY <1>2, <1>3, <1>4, <1>5, Upto, PrefixOf

LEMMA NumberInStretch ==
  ASSUME NEW a, NEW h \in History, NEW k \in Nat, NEW e \in Stretch(a, h, k)
  PROVE  /\ e = EntryOf(a, SubSeq(h, 1, Number(e)))
         /\ Number(e) \in Nat /\ k < Number(e) /\ Number(e) <= Len(h)
<1>1. Len(h) \in Nat
  BY LenProperties DEF History
<1>2. PICK n \in k + 1 .. Len(h) : e = EntryOf(a, SubSeq(h, 1, n))
  BY DEF Stretch
<1>3. Number(e) = n
  <2>1. n \in 0 .. Len(h)
    BY <1>1, <1>2
  <2> QED BY <1>2, <2>1, Upto DEF Number, EntryOf
<1> QED BY <1>1, <1>2, <1>3

LEMMA InStretchIf ==
  ASSUME NEW a, NEW h \in History, NEW k \in Nat, NEW n \in Nat, k < n, n <= Len(h)
  PROVE  EntryOf(a, SubSeq(h, 1, n)) \in Stretch(a, h, k)
<1>1. Len(h) \in Nat
  BY LenProperties DEF History
<1>2. n \in k + 1 .. Len(h)
  BY <1>1
<1> QED BY <1>2 DEF Stretch

\* The last of a stretch is its history.
LEMMA LastOfStretch ==
  ASSUME NEW a, NEW h \in History, NEW k \in Nat, k < Len(h)
  PROVE  EntryOf(a, h) \in Stretch(a, h, k)
<1>1. Len(h) \in Nat /\ SubSeq(h, 1, Len(h)) = h
  BY LenProperties, SubSeqFull DEF History
<1>2. EntryOf(a, SubSeq(h, 1, Len(h))) \in Stretch(a, h, k)
  BY <1>1, InStretchIf
<1> QED BY <1>1, <1>2

\* The history that gives a log its entries of an author is the head it has of that author.
LEMMA HeadIs ==
  ASSUME NEW l, NEW a, NEW h \in History, l.base[a] \in History, IsPrefix(l.base[a], h),
         By(l, a) = Stretch(a, h, Len(l.base[a]))
  PROVE  HeadOf(l, a) = h
<1> DEFINE k == Len(l.base[a])
<1>1. k \in Nat /\ Len(h) \in Nat /\ k <= Len(h) /\ SubSeq(h, 1, k) = l.base[a]
  BY PrefixIs, LenProperties DEF History
<1>2. SubSeq(h, 1, Len(h)) = h
  BY SubSeqFull DEF History
<1>3. CASE k = Len(h)
  <2>1. By(l, a) = {}
    BY <1>1, <1>3 DEF Stretch
  <2> QED BY <1>1, <1>2, <1>3, <2>1 DEF HeadOf
<1>4. CASE k < Len(h)
  <2> DEFINE top == EntryOf(a, h)
  <2>1. top \in By(l, a)
    BY <1>1, <1>4, LastOfStretch
  <2>2. Number(top) = Len(h)
    BY DEF Number, EntryOf
  <2> HIDE DEF k
  <2>3. \A f \in By(l, a) : /\ Number(f) \in Nat /\ Number(f) <= Len(h)
                             /\ f.history = SubSeq(h, 1, Number(f))
    <3> SUFFICES ASSUME NEW f \in Stretch(a, h, k)
                 PROVE  /\ Number(f) \in Nat /\ Number(f) <= Len(h)
                        /\ f.history = SubSeq(h, 1, Number(f))
      BY DEF k
    <3>1. Number(f) \in k + 1 .. Len(h) /\ f.history = SubSeq(h, 1, Number(f))
      BY <1>1, InStretch
    <3> QED BY <1>1, <3>1
  <2>4. \E e \in By(l, a) : \A f \in By(l, a) : Number(f) <= Number(e)
    BY <2>1, <2>2, <2>3
  <2> DEFINE last == CHOOSE e \in By(l, a) : \A f \in By(l, a) : Number(f) <= Number(e)
  <2>5. last \in By(l, a) /\ Number(top) <= Number(last)
    BY <2>1, <2>4
  <2>6. Number(last) = Len(h)
    BY <1>1, <2>2, <2>3, <2>5
  <2>7. last.history = h
    BY <1>2, <2>3, <2>5, <2>6
  <2>8. HeadOf(l, a) = last.history
    BY <2>1 DEF HeadOf
  <2> QED BY <2>7, <2>8
<1> QED BY <1>1, <1>3, <1>4

LEMMA WholeIf ==
  ASSUME NEW l \in Log,
         \A a \in Devices : \E h \in History :
           IsPrefix(l.base[a], h) /\ By(l, a) = Stretch(a, h, Len(l.base[a]))
  PROVE  Whole(l)
BY HeadIs DEF Whole, Log

LEMMA WholeParts ==
  ASSUME NEW l \in Log, Whole(l), NEW a \in Devices
  PROVE  /\ l.base[a] \in History /\ HeadOf(l, a) \in History
         /\ Len(l.base[a]) \in Nat /\ Len(HeadOf(l, a)) \in Nat
         /\ Len(l.base[a]) <= Len(HeadOf(l, a))
         /\ SubSeq(HeadOf(l, a), 1, Len(l.base[a])) = l.base[a]
         /\ By(l, a) = Stretch(a, HeadOf(l, a), Len(l.base[a]))
<1>1. l.base[a] \in History /\ HeadOf(l, a) \in History /\ IsPrefix(l.base[a], HeadOf(l, a))
  BY DEF Whole, Log
<1> QED BY <1>1, PrefixIs, LenProperties DEF Whole, History

\* A whole log that holds all another holds, from the same checkpoint, has the longer heads.
LEMMA HoldsMore ==
  ASSUME NEW l \in Log, NEW m \in Log, Whole(l), Whole(m), l.base = m.base,
         l.entries \subseteq m.entries, NEW a \in Devices
  PROVE  /\ IsPrefix(HeadOf(l, a), HeadOf(m, a))
         /\ HeadOf(m, a) # HeadOf(l, a) => EntryOf(a, HeadOf(m, a)) \in m.entries \ l.entries
<1> DEFINE g == HeadOf(l, a)  h == HeadOf(m, a)  k == Len(l.base[a])
<1>1. /\ g \in History /\ h \in History /\ l.base[a] \in History
      /\ k \in Nat /\ Len(g) \in Nat /\ Len(h) \in Nat /\ k <= Len(g) /\ k <= Len(h)
      /\ By(l, a) = Stretch(a, g, k) /\ By(m, a) = Stretch(a, h, k)
      /\ SubSeq(g, 1, k) = l.base[a] /\ SubSeq(h, 1, k) = l.base[a]
  BY WholeParts
<1>2. SubSeq(g, 1, Len(g)) = g /\ SubSeq(h, 1, Len(h)) = h
  BY <1>1, SubSeqFull DEF History
<1> HIDE DEF g, h, k
<1>3. IsPrefix(g, h)
  <2>1. CASE k = Len(g)
    <3>1. g = SubSeq(h, 1, k)
      BY <1>1, <1>2, <2>1
    <3>2. k \in 0 .. Len(h)
      BY <1>1
    <3> QED BY <1>1, <3>1, <3>2, PrefixOf
  <2>2. CASE k < Len(g)
    <3>1. EntryOf(a, g) \in Stretch(a, g, k)
      BY <1>1, <2>2, LastOfStretch
    <3>2. EntryOf(a, g) \in Stretch(a, h, k)
      BY <1>1, <3>1 DEF By, EntryOf
    <3>3. EntryOf(a, g).history = g
      BY DEF EntryOf
    <3> QED BY <1>1, <3>2, <3>3, InStretch
  <2> QED BY <1>1, <2>1, <2>2
<1>4. ASSUME h # g PROVE EntryOf(a, h) \in m.entries \ l.entries
  <2>1. Len(g) < Len(h)
    BY <1>1, <1>2, <1>3, <1>4, PrefixIs
  <2>2. EntryOf(a, h) \in Stretch(a, h, k)
    BY <1>1, <2>1, LastOfStretch
  <2>3. EntryOf(a, h) \notin Stretch(a, g, k)
    <3>1. Number(EntryOf(a, h)) = Len(h)
      BY DEF Number, EntryOf
    <3>2. ASSUME NEW e \in Stretch(a, g, k) PROVE e # EntryOf(a, h)
      <4>1. Number(e) \in k + 1 .. Len(g)
        BY <1>1, InStretch
      <4> QED BY <1>1, <2>1, <3>1, <4>1
    <3> QED BY <3>2
  <2>4. EntryOf(a, h).author = a
    BY DEF EntryOf
  <2> QED BY <1>1, <2>2, <2>3, <2>4 DEF By
<1> QED BY <1>3, <1>4 DEF g, h

-----------------------------------------------------------------------------
(***************************************************************************)
(* What the operations of the log do to it.                                *)
(***************************************************************************)
LEMMA EmptyIsWhole == EmptyLog \in Log /\ Whole(EmptyLog) /\ EmptyLog.entries = {}
<1>1. <<>> \in History /\ Len(<<>>) = 0
  BY EmptySeq DEF History
<1>2. EmptyLog \in Log /\ EmptyLog.entries = {}
  BY <1>1 DEF EmptyLog, Log
<1>3. ASSUME NEW a \in Devices PROVE EmptyLog.base[a] = <<>> /\ By(EmptyLog, a) = Stretch(a, <<>>, 0)
  BY <1>1 DEF EmptyLog, By, Stretch
<1> QED BY <1>1, <1>2, <1>3, PrefixSelf, WholeIf

\* An entry is what its author and its history say.
LEMMA EntryIs ==
  ASSUME NEW e \in Entry
  PROVE  /\ e.author \in Devices /\ e.history \in History /\ e = EntryOf(e.author, e.history)
         /\ Number(e) \in Nat
BY LenProperties DEF Entry, EntryOf, Number, History

LEMMA AppendedIsWhole ==
  ASSUME NEW l \in Log, Whole(l), NEW me \in Devices, NEW op \in Ops
  PROVE  LET m == Appended(l, me, op)
             e == EntryOf(me, Append(HeadOf(l, me), op))
         IN  m \in Log /\ Whole(m) /\ m.base = l.base /\ m.entries = l.entries \cup {e} /\ e \in Entry
<1> DEFINE m == Appended(l, me, op)  h == HeadOf(l, me)  g == Append(h, op)
           k == Len(l.base[me])  e == EntryOf(me, g)
<1>1. /\ h \in Seq(Ops) /\ k \in Nat /\ Len(h) \in Nat /\ k <= Len(h)
      /\ l.base[me] \in History /\ By(l, me) = Stretch(me, h, k) /\ SubSeq(h, 1, k) = l.base[me]
  BY WholeParts DEF History
<1>2. g \in Seq(Ops) /\ Len(g) = Len(h) + 1 /\ SubSeq(g, 1, Len(g)) = g
  BY <1>1, AppendProperties, SubSeqFull
<1>3. m.entries = l.entries \cup {e} /\ m.base = l.base /\ m = [entries |-> m.entries, base |-> m.base]
  BY DEF Appended, Log
<1>4. e \in Entry
  BY <1>2 DEF EntryOf, Entry, History
<1>5. m \in Log
  BY <1>3, <1>4 DEF Log
<1> HIDE DEF g, m, k, h
<1>6. ASSUME NEW n \in 0 .. Len(h) PROVE SubSeq(g, 1, n) = SubSeq(h, 1, n)
  <2>1. n \in 0 .. Len(g)
    BY <1>1, <1>2
  <2>2. /\ SubSeq(g, 1, n) \in Seq(Ops) /\ Len(SubSeq(g, 1, n)) = n
        /\ SubSeq(h, 1, n) \in Seq(Ops) /\ Len(SubSeq(h, 1, n)) = n
    BY <1>1, <1>2, <2>1, Upto DEF History
  <2>3. ASSUME NEW i \in 1 .. n PROVE SubSeq(g, 1, n)[i] = SubSeq(h, 1, n)[i]
    <3>1. (\A j \in 1 .. n : h[j] \in Ops) /\ (\A j \in 1 .. n : g[j] \in Ops)
      BY <1>1, <1>2, <2>1, ElementOfSeq
    <3>2. SubSeq(g, 1, n)[i] = g[1 + i - 1] /\ SubSeq(h, 1, n)[i] = h[1 + i - 1]
      BY <1>1, <2>3, <3>1, SubSeqProperties
    <3>3. g[i] = h[i]
      BY <1>1, AppendProperties DEF g
    <3> QED BY <3>2, <3>3
  <2> QED BY <2>2, <2>3, SeqEqual
<1>7. IsPrefix(l.base[me], g)
  <2>1. k \in 0 .. Len(h) /\ k <= Len(g)
    BY <1>1, <1>2
  <2> QED BY <1>1, <1>2, <1>6, <2>1, PrefixIs DEF History, k
<1>8. By(m, me) = Stretch(me, g, k)
  <2>1. By(m, me) = Stretch(me, h, k) \cup {e}
    BY <1>1, <1>3 DEF By, EntryOf
  <2>2. Stretch(me, g, k) = Stretch(me, h, k) \cup {e}
    <3>1. k + 1 .. Len(g) = (k + 1 .. Len(h)) \cup {Len(g)}
      BY <1>1, <1>2
    <3>2. \A n \in k + 1 .. Len(h) : SubSeq(g, 1, n) = SubSeq(h, 1, n)
      BY <1>1, <1>6
    <3>3. Stretch(me, g, k) = {EntryOf(me, SubSeq(g, 1, n)) : n \in k + 1 .. Len(h)} \cup {e}
      BY <1>2, <3>1 DEF Stretch
    <3> QED BY <3>2, <3>3 DEF Stretch
  <2> QED BY <2>1, <2>2
<1>9. ASSUME NEW a \in Devices, a # me PROVE By(m, a) = By(l, a)
  BY <1>3, <1>9 DEF By, EntryOf
<1>10. Whole(m)
  <2>1. ASSUME NEW a \in Devices
        PROVE  \E f \in History : IsPrefix(m.base[a], f) /\ By(m, a) = Stretch(a, f, Len(m.base[a]))
    <3>1. CASE a = me
      BY <1>2, <1>3, <1>7, <1>8, <3>1 DEF History, k
    <3>2. CASE a # me
      BY <1>3, <1>9, <3>2 DEF Whole
    <3> QED BY <3>1, <3>2
  <2> QED BY <1>5, <2>1, WholeIf
<1> QED BY <1>3, <1>4, <1>5, <1>10 DEF m, g, h

\* What is cut from a whole log is unbroken.
LEMMA SinceIsUnbroken ==
  ASSUME NEW l \in Log, Whole(l), NEW heads \in [Devices -> Nat]
  PROVE  Unbroken(Since(l, heads)) /\ Since(l, heads) \subseteq l.entries
<1>1. Since(l, heads) \subseteq l.entries /\ l.entries \subseteq Entry
  BY DEF Since, Log
<1>2. ASSUME NEW a \in Devices
      PROVE  \E h \in History, k \in Nat : {e \in Since(l, heads) : e.author = a} = Stretch(a, h, k)
  <2> DEFINE h == HeadOf(l, a)  b == Len(l.base[a])  k == IF heads[a] > b THEN heads[a] ELSE b
  <2>1. h \in History /\ b \in Nat /\ Len(h) \in Nat /\ By(l, a) = Stretch(a, h, b)
    BY WholeParts
  <2>2. k \in Nat /\ heads[a] \in Nat
    BY <2>1
  <2>3. {e \in Since(l, heads) : e.author = a} = {e \in Stretch(a, h, b) : Number(e) > heads[a]}
    BY <2>1 DEF Since, By
  <2> HIDE DEF h, b
  <2>4. ASSUME NEW e \in Stretch(a, h, b), Number(e) > heads[a] PROVE e \in Stretch(a, h, k)
    <3>1. e = EntryOf(a, SubSeq(h, 1, Number(e))) /\ Number(e) \in Nat
      BY <2>1, <2>4, NumberInStretch
    <3>2. b < Number(e) /\ Number(e) <= Len(h)
      BY <2>1, <2>4, NumberInStretch
    <3> QED BY <2>1, <2>2, <2>4, <3>1, <3>2, InStretchIf
  <2>5. ASSUME NEW e \in Stretch(a, h, k) PROVE e \in Stretch(a, h, b) /\ Number(e) > heads[a]
    <3>1. e = EntryOf(a, SubSeq(h, 1, Number(e))) /\ Number(e) \in Nat
      BY <2>1, <2>2, <2>5, NumberInStretch
    <3>2. k < Number(e) /\ Number(e) <= Len(h)
      BY <2>1, <2>2, <2>5, NumberInStretch
    <3>3. b < Number(e) /\ heads[a] < Number(e)
      BY <2>1, <2>2, <3>1, <3>2
    <3> QED BY <2>1, <3>1, <3>2, <3>3, InStretchIf
  <2>6. {e \in Since(l, heads) : e.author = a} = Stretch(a, h, k)
    BY <2>3, <2>4, <2>5
  <2> QED BY <2>1, <2>2, <2>6
<1> QED BY <1>1, <1>2 DEF Unbroken

LEMMA StretchesJoin ==
  ASSUME NEW a, NEW h \in History, NEW g \in History, IsPrefix(h, g), NEW k \in Nat, k <= Len(h)
  PROVE  Stretch(a, h, k) \cup Stretch(a, g, Len(h)) = Stretch(a, g, k)
<1>1. /\ Len(h) \in Nat /\ Len(g) \in Nat /\ Len(h) <= Len(g)
      /\ SubSeq(g, 1, Len(h)) = h
  BY PrefixIs, LenProperties DEF History
<1>2. \A n \in k + 1 .. Len(h) : SubSeq(h, 1, n) = SubSeq(g, 1, n)
  <2> SUFFICES ASSUME NEW n \in k + 1 .. Len(h) PROVE SubSeq(h, 1, n) = SubSeq(g, 1, n)
    OBVIOUS
  <2>1. Len(h) \in 0 .. Len(g) /\ n \in 0 .. Len(h)
    BY <1>1
  <2> QED BY <1>1, <2>1, UptoUpto
<1>3. k + 1 .. Len(g) = (k + 1 .. Len(h)) \cup (Len(h) + 1 .. Len(g))
  BY <1>1
<1>4. Stretch(a, g, k) = {EntryOf(a, SubSeq(g, 1, n)) : n \in k + 1 .. Len(h)} \cup Stretch(a, g, Len(h))
  BY <1>3 DEF Stretch
<1> QED BY <1>2, <1>4 DEF Stretch

\* What a log becomes by entries of those listened to.
Grown(l, m, listened, sent) ==
  /\ m \in Log /\ Whole(m) /\ m.base = l.base
  /\ l.entries \subseteq m.entries
  /\ \A e \in m.entries \ l.entries : e \in sent /\ e.author \in listened

LEMMA ReceiveGrows ==
  ASSUME NEW l \in Log, Whole(l), NEW listened, NEW batch, Unbroken(batch)
  PROVE  Grown(l, Receive(l, listened, batch), listened, batch)
<1> DEFINE m == Receive(l, listened, batch)
           New(a) == {e \in batch : e.author = a /\ a \in listened /\ Follows(e, l, batch)}
<1> DEFINE fresh == {e \in batch : e.author \in listened /\ Follows(e, l, batch)}
<1>1. /\ m = [entries |-> m.entries, base |-> l.base] /\ m.base = l.base
      /\ m.entries = l.entries \cup fresh
  <2>1. l = [entries |-> l.entries, base |-> l.base]
    BY DEF Log
  <2>2. m = [l EXCEPT !.entries = @ \cup fresh]
    BY DEF Receive
  <2> HIDE DEF m, fresh
  <2>3. m = [entries |-> l.entries \cup fresh, base |-> l.base]
    BY <2>1, <2>2
  <2> QED BY <2>3
<1>2. m \in Log
  <2>1. fresh \subseteq Entry /\ l.entries \subseteq Entry /\ l.base \in [Devices -> History]
    BY DEF Log, Unbroken
  <2> QED BY <1>1, <2>1 DEF Log
<1>3. ASSUME NEW a \in Devices
      PROVE  \E f \in History : IsPrefix(m.base[a], f) /\ By(m, a) = Stretch(a, f, Len(m.base[a]))
  <2> DEFINE h == HeadOf(l, a)  k == Len(l.base[a])
  <2>1. PICK g \in History, j \in Nat : {e \in batch : e.author = a} = Stretch(a, g, j)
    BY DEF Unbroken
  <2>2. /\ h \in History /\ l.base[a] \in History
        /\ k \in Nat /\ Len(h) \in Nat /\ Len(g) \in Nat /\ k <= Len(h)
        /\ By(l, a) = Stretch(a, h, k) /\ IsPrefix(l.base[a], h)
    BY <2>1, WholeParts, LenProperties DEF History, Whole
  <2>3. By(m, a) = By(l, a) \cup New(a)
    BY <1>1 DEF By
  <2>4. ASSUME NEW e, e.author = a
        PROVE  Follows(e, l, batch) <=>
                 /\ Number(e) > Len(h) /\ SubSeq(e.history, 1, Len(h)) = h
                 /\ \A n \in Len(h) + 1 .. Number(e) : EntryOf(a, SubSeq(e.history, 1, n)) \in batch
    BY <2>4 DEF Follows
  <2> HIDE DEF h, k
  <2>5. ASSUME NEW e \in New(a)
        PROVE  /\ Len(h) < Len(g) /\ j <= Len(h) /\ SubSeq(g, 1, Len(h)) = h
               /\ e \in Stretch(a, g, Len(h))
    <3> DEFINE n == Number(e)
    <3>1. e \in Stretch(a, g, j) /\ e.author = a /\ Follows(e, l, batch)
      BY <2>1, <2>5
    <3>2. e = EntryOf(a, SubSeq(g, 1, n)) /\ n \in Nat /\ n <= Len(g)
      BY <2>1, <3>1, NumberInStretch
    <3>3. e.history = SubSeq(g, 1, n)
      BY <3>2 DEF EntryOf
    <3>4. n > Len(h) /\ SubSeq(e.history, 1, Len(h)) = h
      BY <2>4, <3>1
    <3> HIDE DEF n
    <3>5. n \in 0 .. Len(g) /\ Len(h) \in 0 .. n /\ Len(h) + 1 \in 0 .. n
      BY <2>2, <3>2, <3>4
    <3>6. SubSeq(g, 1, Len(h)) = h
      BY <3>3, <3>4, <3>5, UptoUpto
    <3> DEFINE x == EntryOf(a, SubSeq(g, 1, Len(h) + 1))
    <3>7. x \in batch
      <4>1. Len(h) + 1 \in Len(h) + 1 .. n
        BY <2>2, <3>5
      <4>2. EntryOf(a, SubSeq(e.history, 1, Len(h) + 1)) \in batch
        BY <2>4, <3>1, <4>1 DEF n
      <4>3. SubSeq(SubSeq(g, 1, n), 1, Len(h) + 1) = SubSeq(g, 1, Len(h) + 1)
        BY <3>5, UptoUpto
      <4> QED BY <3>3, <4>2, <4>3
    <3>8. x \in Stretch(a, g, j)
      <4>1. x.author = a
        BY DEF EntryOf
      <4> QED BY <2>1, <3>7, <4>1
    <3>9. Number(x) = Len(h) + 1
      <4>1. Len(h) + 1 \in 0 .. Len(g)
        BY <2>2, <3>5
      <4> QED BY <4>1, Upto DEF Number, EntryOf
    <3>10. j < Len(h) + 1
      BY <2>1, <3>8, <3>9, NumberInStretch
    <3>11. e \in Stretch(a, g, Len(h))
      BY <2>2, <3>2, <3>4, InStretchIf
    <3> QED BY <2>1, <2>2, <3>2, <3>4, <3>6, <3>10, <3>11
  <2>6. CASE New(a) = {}
    BY <1>1, <2>2, <2>3, <2>6 DEF k
  <2>7. CASE New(a) # {}
    <3>1. Len(h) < Len(g) /\ j <= Len(h) /\ SubSeq(g, 1, Len(h)) = h /\ a \in listened
      BY <2>5, <2>7
    <3>2. IsPrefix(h, g)
      BY <2>2, <3>1, PrefixIs
    <3>3. ASSUME NEW e \in Stretch(a, g, Len(h)) PROVE e \in New(a)
      <4> DEFINE n == Number(e)
      <4>1. e = EntryOf(a, SubSeq(g, 1, n)) /\ n \in Nat /\ Len(h) < n /\ n <= Len(g)
        BY <2>2, <3>3, NumberInStretch
      <4>2. e.author = a /\ e.history = SubSeq(g, 1, n)
        BY <4>1 DEF EntryOf
      <4> HIDE DEF n
      <4>3. ASSUME NEW p \in 0 .. n PROVE SubSeq(e.history, 1, p) = SubSeq(g, 1, p)
        <5>1. n \in 0 .. Len(g)
          BY <4>1
        <5> QED BY <4>2, <4>3, <5>1, UptoUpto
      <4>4. ASSUME NEW p \in Len(h) + 1 .. n PROVE EntryOf(a, SubSeq(e.history, 1, p)) \in batch
        <5>1. p \in 0 .. n /\ p \in Nat /\ j < p /\ p <= Len(g)
          BY <2>2, <3>1, <4>1
        <5>2. EntryOf(a, SubSeq(g, 1, p)) \in Stretch(a, g, j)
          BY <5>1, InStretchIf
        <5> QED BY <2>1, <4>3, <5>1, <5>2
      <4>5. SubSeq(e.history, 1, Len(h)) = h
        <5>1. Len(h) \in 0 .. n
          BY <2>2, <4>1
        <5> QED BY <3>1, <4>3, <5>1
      <4>6. e \in batch
        <5>1. n \in Len(h) + 1 .. n /\ n \in 0 .. n
          BY <2>2, <4>1
        <5> QED BY <4>1, <4>3, <4>4, <5>1
      <4> QED BY <2>4, <3>1, <4>1, <4>2, <4>4, <4>5, <4>6 DEF n
    <3>4. New(a) = Stretch(a, g, Len(h))
      BY <2>5, <3>3
    <3>5. By(m, a) = Stretch(a, g, k)
      <4>1. By(m, a) = Stretch(a, h, k) \cup Stretch(a, g, Len(h))
        BY <2>2, <2>3, <3>4
      <4>2. Stretch(a, h, k) \cup Stretch(a, g, Len(h)) = Stretch(a, g, k)
        BY <2>2, <3>2, StretchesJoin
      <4> QED BY <4>1, <4>2
    <3>6. IsPrefix(l.base[a], g)
      BY <2>2, <3>2, PrefixTrans
    <3> QED BY <1>1, <3>5, <3>6 DEF k
  <2> QED BY <2>6, <2>7
<1>4. Whole(m)
  BY <1>2, <1>3, WholeIf
<1> QED BY <1>1, <1>2, <1>4 DEF Grown

-----------------------------------------------------------------------------
(***************************************************************************)
(* Counting: the least and the greatest of a set, and what is reached by   *)
(* one step after another.                                                 *)
(***************************************************************************)
LEMMA LeastOf ==
  ASSUME NEW T \in SUBSET Nat, T # {}
  PROVE  \E m \in T : \A y \in T : m <= y
<1> DEFINE R == OpToRel(<, Nat)
<1>1. IsWellFoundedOn(R, Nat)
  BY NatLessThanWellFounded
<1>2. \A y, m \in Nat : y < m => <<y, m>> \in R
  BY DEF OpToRel
<1> HIDE DEF R
<1>3. PICK m \in T : \A y \in T : ~(<<y, m>> \in R)
  BY <1>1, WFMin
<1>4. ASSUME NEW y \in T PROVE m <= y
  <2>1. y \in Nat /\ m \in Nat /\ ~(y < m)
    BY <1>2, <1>3
  <2> QED BY <2>1
<1> QED BY <1>4

LEMMA MaxOf ==
  ASSUME NEW S \in SUBSET Nat, IsFiniteSet(S), S # {}
  PROVE  Max(S) \in S /\ \A y \in S : Max(S) >= y
<1> DEFINE Above(x) == {y \in S : y > x}
           T == {Above(x) : x \in S}
           R == StrictSubsetOrdering(S)
<1>1. IsWellFoundedOn(R, FiniteSubsetsOf(S))
  BY FS_StrictSubsetOrderingWellFounded
<1>2. T \subseteq FiniteSubsetsOf(S)
  BY FS_FiniteSubsetsOfFinite
<1>3. T # {}
  BY Zenon
<1>4. \A U, V \in SUBSET S : U \subseteq V /\ U # V => <<U, V>> \in R
  BY DEF StrictSubsetOrdering
<1> HIDE DEF R, T
<1>5. PICK V \in T : \A U \in T : ~(<<U, V>> \in R)
  BY <1>1, <1>2, <1>3, WFMin
<1>6. PICK x \in S : V = Above(x)
  BY <1>5 DEF T
<1>7. ASSUME NEW y \in S, y > x PROVE FALSE
  <2>1. Above(y) \subseteq Above(x)
    <3> SUFFICES ASSUME NEW z \in S, z > y PROVE z > x
      OBVIOUS
    <3>1. x \in Nat /\ y \in Nat /\ z \in Nat
      OBVIOUS
    <3> QED BY <1>7, <3>1
  <2>2. y \in Above(x) /\ y \notin Above(y)
    BY <1>7
  <2>3. Above(y) \in T /\ Above(y) \in SUBSET S /\ Above(x) \in SUBSET S
    BY DEF T
  <2>4. <<Above(y), Above(x)>> \in R
    BY <1>4, <2>1, <2>2, <2>3
  <2> QED BY <1>5, <1>6, <2>3, <2>4
<1>8. \A y \in S : x >= y
  BY <1>7
<1> QED BY <1>8 DEF Max

Iterates(F, s, step) == F = [n \in Nat |-> IF n = 0 THEN s ELSE step[n][F[n - 1]]]

LEMMA Iterated ==
  ASSUME NEW S, NEW s \in S, NEW step \in [Nat -> [S -> S]]
  PROVE  \E F \in [Nat -> S] : Iterates(F, s, step)
<1> DEFINE Runs(n) == {f \in [0 .. n -> S] : f[0] = s /\ \A i \in 1 .. n : f[i] = step[i][f[i - 1]]}
<1>1. ASSUME NEW n \in Nat, NEW m \in Nat, NEW f \in Runs(n), NEW g \in Runs(m),
             NEW i \in Nat, i <= n, i <= m
      PROVE  f[i] = g[i]
  <2> DEFINE T == {j \in Nat : j <= n /\ j <= m /\ f[j] # g[j]}
  <2> SUFFICES ASSUME T # {} PROVE FALSE
    BY <1>1
  <2>1. PICK j \in T : \A k \in T : j <= k
    BY LeastOf
  <2>2. j # 0
    BY <2>1
  <2>3. j - 1 \in Nat /\ j - 1 <= n /\ j - 1 <= m /\ ~(j <= j - 1) /\ j \in 1 .. n /\ j \in 1 .. m
    BY <2>1, <2>2
  <2>4. f[j - 1] = g[j - 1]
    BY <2>1, <2>3
  <2>5. f[j] = step[j][f[j - 1]] /\ g[j] = step[j][g[j - 1]]
    BY <2>3
  <2> QED BY <2>1, <2>4, <2>5
<1>2. ASSUME NEW n \in Nat PROVE Runs(n) # {}
  <2> DEFINE T == {j \in Nat : Runs(j) = {}}
  <2> SUFFICES ASSUME T # {} PROVE FALSE
    BY <1>2
  <2> HIDE DEF Runs
  <2>1. PICK m \in T : \A k \in T : m <= k
    <3>1. T \in SUBSET Nat
      OBVIOUS
    <3> QED BY <3>1, LeastOf
  <2>2. m # 0
    <3>1. [i \in 0 .. 0 |-> s] \in Runs(0)
      BY DEF Runs
    <3> QED BY <2>1, <3>1
  <2>3. m - 1 \in Nat /\ ~(m <= m - 1)
    BY <2>1, <2>2
  <2>4. PICK f \in Runs(m - 1) : TRUE
    BY <2>1, <2>3
  <2> DEFINE g == [i \in 0 .. m |-> IF i = m THEN step[m][f[m - 1]] ELSE f[i]]
  <2>5. f \in [0 .. m - 1 -> S] /\ f[0] = s /\ \A i \in 1 .. m - 1 : f[i] = step[i][f[i - 1]]
    BY <2>4 DEF Runs
  <2>6. m - 1 \in 0 .. m - 1 /\ m \in Nat
    BY <2>1, <2>3
  <2>7. step[m][f[m - 1]] \in S
    BY <2>5, <2>6
  <2>8. g \in [0 .. m -> S]
    <3> SUFFICES ASSUME NEW i \in 0 .. m, i # m PROVE f[i] \in S
      BY <2>7
    <3>1. i \in 0 .. m - 1
      BY <2>6
    <3> QED BY <2>5, <3>1
  <2>9. g[0] = s
    BY <2>2, <2>5, <2>6
  <2>10. ASSUME NEW i \in 1 .. m PROVE g[i] = step[i][g[i - 1]]
    <3>1. i \in 0 .. m /\ i - 1 \in 0 .. m /\ i - 1 # m
      BY <2>6
    <3>2. g[i - 1] = f[i - 1]
      BY <3>1
    <3>3. CASE i = m
      BY <3>1, <3>2, <3>3
    <3>4. CASE i # m
      <4>1. i \in 1 .. m - 1
        BY <2>6, <3>4
      <4> QED BY <2>5, <3>1, <3>2, <3>4, <4>1
    <3> QED BY <3>3, <3>4
  <2>11. g \in Runs(m)
    BY <2>8, <2>9, <2>10 DEF Runs
  <2> QED BY <2>1, <2>11
<1> DEFINE run == [n \in Nat |-> CHOOSE f \in Runs(n) : TRUE]
           F == [n \in Nat |-> run[n][n]]
<1>3. \A n \in Nat : run[n] \in Runs(n)
  BY <1>2
<1> HIDE DEF run
<1>4. ASSUME NEW n \in Nat PROVE F[n] \in S
  BY <1>3
<1>5. F[0] = s
  BY <1>3
<1>6. ASSUME NEW n \in Nat, n # 0 PROVE F[n] = step[n][F[n - 1]]
  <2>1. n - 1 \in Nat /\ n - 1 <= n /\ n - 1 <= n - 1 /\ n \in 1 .. n
    BY <1>6
  <2>2. run[n][n] = step[n][run[n][n - 1]]
    BY <1>3, <2>1
  <2>3. run[n][n - 1] = run[n - 1][n - 1]
    <3>1. run[n] \in Runs(n) /\ run[n - 1] \in Runs(n - 1)
      BY <1>3, <2>1
    <3> HIDE DEF Runs
    <3> QED BY <1>1, <2>1, <3>1
  <2> QED BY <2>1, <2>2, <2>3
<1>7. F \in [Nat -> S]
  BY <1>4
<1>8. F = [n \in Nat |-> IF n = 0 THEN s ELSE step[n][F[n - 1]]]
  <2> DEFINE G == [n \in Nat |-> IF n = 0 THEN s ELSE step[n][F[n - 1]]]
  <2>1. ASSUME NEW n \in Nat PROVE F[n] = G[n]
    BY <1>5, <1>6
  <2> HIDE DEF F
  <2>2. DOMAIN F = Nat /\ F = [n \in Nat |-> F[n]]
    BY <1>7
  <2> QED BY <2>1, <2>2
<1> HIDE DEF F
<1> QED BY <1>7, <1>8 DEF Iterates

-----------------------------------------------------------------------------
(***************************************************************************)
(* What a pass over the folder takes in.                                   *)
(***************************************************************************)
LEMMA ReceiveIsLog ==
  ASSUME NEW l \in Log, NEW listened, NEW batch \in SUBSET Entry
  PROVE  Receive(l, listened, batch) \in Log
<1> DEFINE fresh == {e \in batch : e.author \in listened /\ Follows(e, l, batch)}
<1>1. l = [entries |-> l.entries, base |-> l.base] /\ l.entries \subseteq Entry
      /\ l.base \in [Devices -> History] /\ fresh \subseteq Entry
  BY DEF Log
<1> HIDE DEF fresh
<1>2. [l EXCEPT !.entries = @ \cup fresh] = [entries |-> l.entries \cup fresh, base |-> l.base]
  BY <1>1
<1>3. [entries |-> l.entries \cup fresh, base |-> l.base] \in Log
  BY <1>1 DEF Log
<1> QED BY <1>2, <1>3 DEF Receive, fresh

LEMMA GrownSelf == ASSUME NEW l \in Log, Whole(l), NEW listened, NEW sent PROVE Grown(l, l, listened, sent)
BY DEF Grown

LEMMA GrownOn ==
  ASSUME NEW l, NEW m, NEW n, NEW listened, NEW sent, NEW more,
         Grown(l, m, listened, sent), Grown(m, n, listened, more), more \subseteq sent
  PROVE  Grown(l, n, listened, sent)
BY DEF Grown

LEMMA NothingIsUnbroken == Unbroken({})
<1>1. <<>> \in History /\ Len(<<>>) = 0 /\ 0 \in Nat
  BY EmptySeq DEF History
<1>2. ASSUME NEW a \in Devices PROVE {e \in {} : e.author = a} = Stretch(a, <<>>, 0)
  BY <1>1 DEF Stretch
<1> QED BY <1>1, <1>2 DEF Unbroken

\* The segments a reader finds: as many as a disk has room for, numbered apart, each cut from one log.
InOrder(segments) ==
  /\ segments \subseteq Segment /\ IsFiniteSet(segments)
  /\ \A s, t \in segments : s.no = t.no => s = t
  /\ \A s \in segments : Unbroken(s.entries)

Within(segments) == UNION {s.entries : s \in segments}

LEMMA ReadAllGrows ==
  ASSUME NEW d, NEW segments, InOrder(segments), NEW held \in Log, Whole(held)
  PROVE  Grown(held, ReadAll(d, segments, held), peers[d], Within(segments))
<1> DEFINE Batch(n) == UNION {s.entries : s \in {t \in segments : t.no = n}}
<1>1. ASSUME NEW n \in Nat
      PROVE  Unbroken(Batch(n)) /\ Batch(n) \in SUBSET Entry /\ Batch(n) \subseteq Within(segments)
  <2>1. CASE \E s \in segments : s.no = n
    <3>1. PICK s \in segments : s.no = n
      BY <2>1
    <3>2. {t \in segments : t.no = n} = {s}
      BY <3>1 DEF InOrder
    <3>3. Batch(n) = s.entries
      BY <3>2
    <3> QED BY <3>1, <3>3 DEF InOrder, Within, Unbroken
  <2>2. CASE ~ \E s \in segments : s.no = n
    <3>1. Batch(n) = {}
      BY <2>2
    <3> QED BY <3>1, NothingIsUnbroken
  <2> QED BY <2>1, <2>2
<1> DEFINE got[n \in Nat] == IF n = 0 THEN held ELSE Receive(got[n - 1], peers[d], Batch(n))
           last == Max({0} \cup {s.no : s \in segments})
<1>2. ReadAll(d, segments, held) = got[last]
  BY DEF ReadAll
<1> HIDE DEF Batch
<1>3. got = [n \in Nat |-> IF n = 0 THEN held ELSE Receive(got[n - 1], peers[d], Batch(n))]
  <2> DEFINE step == [n \in Nat |-> [x \in Log |-> Receive(x, peers[d], Batch(n))]]
  <2>1. step \in [Nat -> [Log -> Log]]
    BY <1>1, ReceiveIsLog
  <2>2. PICK F \in [Nat -> Log] : F = [n \in Nat |-> IF n = 0 THEN held ELSE step[n][F[n - 1]]]
    <3> HIDE DEF step, got
    <3> QED BY <2>1, Iterated DEF Iterates
  <2>3. ASSUME NEW n \in Nat, n # 0 PROVE step[n][F[n - 1]] = Receive(F[n - 1], peers[d], Batch(n))
    <3>1. n - 1 \in Nat
      BY <2>3
    <3> QED BY <2>2, <3>1
  <2>4. F = [n \in Nat |-> IF n = 0 THEN held ELSE Receive(F[n - 1], peers[d], Batch(n))]
    <3> HIDE DEF step
    <3> QED BY <2>2, <2>3
  <2> QED BY <2>4
<1> HIDE DEF got
<1>4. got[0] = held
  BY <1>3
<1>5. ASSUME NEW n \in Nat, n # 0 PROVE got[n] = Receive(got[n - 1], peers[d], Batch(n))
  BY <1>3, <1>5
<1>6. ASSUME NEW n \in Nat PROVE Grown(held, got[n], peers[d], Within(segments))
  <2> DEFINE T == {j \in Nat : ~Grown(held, got[j], peers[d], Within(segments))}
  <2> SUFFICES ASSUME T # {} PROVE FALSE
    BY <1>6
  <2>1. PICK m \in T : \A k \in T : m <= k
    <3>1. T \in SUBSET Nat
      OBVIOUS
    <3> HIDE DEF T
    <3> QED BY <3>1, LeastOf
  <2>2. m # 0
    BY <1>4, <2>1, GrownSelf
  <2>3. m \in Nat /\ m - 1 \in Nat /\ ~(m <= m - 1)
    BY <2>1, <2>2
  <2>4. Grown(held, got[m - 1], peers[d], Within(segments))
    BY <2>1, <2>3
  <2>5. got[m - 1] \in Log /\ Whole(got[m - 1])
    BY <2>4 DEF Grown
  <2>6. Grown(got[m - 1], got[m], peers[d], Batch(m))
    BY <1>1, <1>5, <2>2, <2>3, <2>5, ReceiveGrows
  <2>7. Grown(held, got[m], peers[d], Within(segments))
    BY <1>1, <2>3, <2>4, <2>6, GrownOn
  <2> QED BY <2>1, <2>7
<1>7. last \in Nat
  <2> DEFINE nos == {s.no : s \in segments}
  <2>1. nos \subseteq Nat
    BY DEF InOrder, Segment
  <2>2. IsFiniteSet(nos)
    <3>1. [s \in segments |-> s.no] \in Surjection(segments, nos)
      BY DEF Surjection
    <3> QED BY <3>1, FS_Surjection DEF InOrder
  <2> HIDE DEF nos
  <2>3. IsFiniteSet({0} \cup nos) /\ {0} \cup nos \in SUBSET Nat
    <3>1. IsFiniteSet({0})
      BY FS_Singleton
    <3>2. IsFiniteSet({0} \cup nos)
      BY <2>2, <3>1, FS_Union
    <3> QED BY <2>1, <3>2
  <2>4. Max({0} \cup nos) \in {0} \cup nos
    BY <2>3, MaxOf
  <2> QED BY <2>3, <2>4 DEF nos
<1> QED BY <1>2, <1>6, <1>7

LEMMA SharesAre ==
  ASSUME reach \in Reaches
  PROVE  /\ Shares \subseteq Pairs /\ Links \subseteq Pairs /\ IsFiniteSet(Shares)
         /\ \A l \in Pairs : l \in Devices \X Devices /\ l[1] # l[2] /\ l = <<l[1], l[2]>>
<1>1. Shares \subseteq Pairs /\ Links \subseteq Pairs
  BY GossipAssumption DEF Shares, Links
<1>2. \A l \in Pairs : l \in Devices \X Devices /\ l[1] # l[2] /\ l = <<l[1], l[2]>>
  BY DEF Pairs
<1>3. IsFiniteSet(Devices \X Devices)
  BY GossipAssumption, FS_Product
<1>4. Shares \in SUBSET (Devices \X Devices)
  BY <1>1, <1>2
<1>5. IsFiniteSet(Shares)
  BY <1>3, <1>4, FS_Subset
<1> QED BY <1>1, <1>2, <1>5

Left == UNION {Within(inbox[l].segments) : l \in Shares}

LEMMA CollectedGrows ==
  ASSUME reach \in Reaches, NEW d \in Devices, log[d] \in Log, Whole(log[d]),
         \A l \in Shares : InOrder(inbox[l].segments)
  PROVE  Grown(log[d], Collected(d), peers[d], Left)
<1> DEFINE senders == {l \in To(d) : l[1] \in peers[d]}
           Batch(n) == UNION {inbox[l].segments : l \in {m \in senders : m[1] = n - 1}}
           W == {x \in Log : Whole(x)}
           held == log[d]
<1>0. /\ senders \subseteq Shares
      /\ \A l \in senders : l[2] = d /\ l = <<l[1], l[2]>> /\ l[1] \in Nat
  BY SharesAre, GossipAssumption DEF To
<1>1. ASSUME NEW n \in Nat
      PROVE  InOrder(Batch(n)) /\ Within(Batch(n)) \subseteq Left
  <2>1. CASE \E l \in senders : l[1] = n - 1
    <3>1. PICK l \in senders : l[1] = n - 1
      BY <2>1
    <3>2. {m \in senders : m[1] = n - 1} = {l}
      BY <1>0, <3>1
    <3>3. Batch(n) = inbox[l].segments /\ l \in Shares
      BY <1>0, <3>2
    <3> HIDE DEF Batch
    <3> QED BY <3>3 DEF Left
  <2>2. CASE ~ \E l \in senders : l[1] = n - 1
    <3>1. Batch(n) = {}
      BY <2>2
    <3> HIDE DEF Batch
    <3> QED BY <3>1, FS_EmptySet DEF InOrder, Within
  <2> QED BY <2>1, <2>2
<1> DEFINE got[n \in Nat] == IF n = 0 THEN log[d] ELSE ReadAll(d, Batch(n), got[n - 1])
           last == Max({0} \cup {l[1] + 1 : l \in senders})
<1>2. Collected(d) = got[last]
  BY DEF Collected
<1> HIDE DEF Batch
<1>3. got = [n \in Nat |-> IF n = 0 THEN held ELSE ReadAll(d, Batch(n), got[n - 1])]
  <2> DEFINE step == [n \in Nat |-> [x \in W |-> ReadAll(d, Batch(n), x)]]
  <2>1. step \in [Nat -> [W -> W]]
    <3> SUFFICES ASSUME NEW n \in Nat, NEW x \in W PROVE ReadAll(d, Batch(n), x) \in W
      OBVIOUS
    <3>1. Grown(x, ReadAll(d, Batch(n), x), peers[d], Within(Batch(n)))
      BY <1>1, ReadAllGrows
    <3> QED BY <3>1 DEF Grown
  <2>2. PICK F \in [Nat -> W] : F = [n \in Nat |-> IF n = 0 THEN held ELSE step[n][F[n - 1]]]
    <3>1. held \in W
      OBVIOUS
    <3> HIDE DEF step, got, last, senders, W, held
    <3>2. \E F \in [Nat -> W] : Iterates(F, held, step)
      BY <2>1, <3>1, Iterated
    <3> QED BY <3>2 DEF Iterates
  <2>3. ASSUME NEW n \in Nat, n # 0 PROVE step[n][F[n - 1]] = ReadAll(d, Batch(n), F[n - 1])
    <3>1. n - 1 \in Nat
      BY <2>3
    <3> QED BY <2>2, <3>1
  <2>4. F = [n \in Nat |-> IF n = 0 THEN held ELSE ReadAll(d, Batch(n), F[n - 1])]
    <3> HIDE DEF step
    <3> QED BY <2>2, <2>3
  <2> QED BY <2>4
<1> HIDE DEF got
<1>4. got[0] = held
  BY <1>3
<1>5. ASSUME NEW n \in Nat, n # 0 PROVE got[n] = ReadAll(d, Batch(n), got[n - 1])
  BY <1>3, <1>5
<1> HIDE DEF held
<1>h. held \in Log /\ Whole(held)
  BY DEF held
<1>6. ASSUME NEW n \in Nat PROVE Grown(held, got[n], peers[d], Left)
  <2> DEFINE T == {j \in Nat : ~Grown(held, got[j], peers[d], Left)}
  <2> SUFFICES ASSUME T # {} PROVE FALSE
    BY <1>6
  <2>1. PICK m \in T : \A k \in T : m <= k
    <3>1. T \in SUBSET Nat
      OBVIOUS
    <3> HIDE DEF T
    <3> QED BY <3>1, LeastOf
  <2>2. m # 0
    BY <1>4, <1>h, <2>1, GrownSelf
  <2>3. m \in Nat /\ m - 1 \in Nat /\ ~(m <= m - 1)
    BY <2>1, <2>2
  <2>4. Grown(held, got[m - 1], peers[d], Left)
    BY <2>1, <2>3
  <2>5. got[m - 1] \in Log /\ Whole(got[m - 1])
    BY <2>4 DEF Grown
  <2>6. Grown(got[m - 1], ReadAll(d, Batch(m), got[m - 1]), peers[d], Within(Batch(m)))
    BY <1>1, <2>3, <2>5, ReadAllGrows
  <2>7. Grown(held, got[m], peers[d], Left)
    BY <1>1, <1>5, <2>2, <2>3, <2>4, <2>6, GrownOn
  <2> QED BY <2>1, <2>7
<1>7. last \in Nat
  <2> DEFINE nos == {l[1] + 1 : l \in senders}
  <2>1. nos \subseteq Nat
    BY <1>0
  <2>2. IsFiniteSet(nos)
    <3>1. [l \in senders |-> l[1] + 1] \in Surjection(senders, nos)
      BY DEF Surjection
    <3>2. IsFiniteSet(senders)
      BY <1>0, SharesAre, FS_Subset
    <3> QED BY <3>1, <3>2, FS_Surjection
  <2> HIDE DEF nos
  <2>3. IsFiniteSet({0} \cup nos) /\ {0} \cup nos \in SUBSET Nat
    <3>1. IsFiniteSet({0})
      BY FS_Singleton
    <3>2. IsFiniteSet({0} \cup nos)
      BY <2>2, <3>1, FS_Union
    <3> QED BY <2>1, <3>2
  <2>4. Max({0} \cup nos) \in {0} \cup nos
    BY <2>3, MaxOf
  <2> QED BY <2>3, <2>4 DEF nos
<1> QED BY <1>2, <1>6, <1>7 DEF held

-----------------------------------------------------------------------------
\* Only what comes first may be folded away.
ComesFirst(old, l) ==
  /\ old \subseteq l.entries
  /\ \A e \in old, f \in l.entries : f.author = e.author /\ Number(f) < Number(e) => f \in old

\* Folding does not change a head.
LEMMA CompactKeeps ==
  ASSUME NEW l \in Log, Whole(l), NEW old, ComesFirst(old, l)
  PROVE  LET m == Compact(l, old)
         IN  /\ m \in Log /\ Whole(m) /\ m.entries \subseteq l.entries
             /\ \A a \in Devices : HeadOf(m, a) = HeadOf(l, a)
<1> DEFINE m == Compact(l, old)
           Gone(a) == {e \in old : e.author = a}
<1>1. /\ m.entries = l.entries \ old /\ m = [entries |-> m.entries, base |-> m.base]
      /\ m.base = [a \in Devices |-> IF Gone(a) = {} THEN l.base[a]
                                     ELSE HeadOf([l EXCEPT !.entries = Gone(a)], a)]
  BY DEF Compact
<1> HIDE DEF m
<1>2. ASSUME NEW a \in Devices
      PROVE  /\ m.base[a] \in History /\ IsPrefix(m.base[a], HeadOf(l, a))
             /\ By(m, a) = Stretch(a, HeadOf(l, a), Len(m.base[a]))
  <2> DEFINE h == HeadOf(l, a)  k == Len(l.base[a])  gone == Gone(a)
  <2>1. /\ h \in History /\ l.base[a] \in History /\ k \in Nat /\ Len(h) \in Nat /\ k <= Len(h)
        /\ By(l, a) = Stretch(a, h, k) /\ IsPrefix(l.base[a], h)
    BY WholeParts DEF Whole
  <2>2. gone \subseteq Stretch(a, h, k)
    BY <2>1 DEF By, ComesFirst
  <2>3. By(m, a) = Stretch(a, h, k) \ gone
    BY <1>1, <2>1 DEF By
  <2> HIDE DEF h, k
  <2>4. CASE gone = {}
    <3>1. m.base[a] = l.base[a]
      BY <1>1, <2>4
    <3> QED BY <2>1, <2>3, <2>4, <3>1 DEF h, k
  <2>5. CASE gone # {}
    <3> DEFINE nos == {Number(e) : e \in gone}
    <3>1. \A e \in gone : Number(e) \in Nat /\ k < Number(e) /\ Number(e) <= Len(h)
                          /\ e = EntryOf(a, SubSeq(h, 1, Number(e)))
      <4> SUFFICES ASSUME NEW e \in Stretch(a, h, k)
                   PROVE  Number(e) \in Nat /\ k < Number(e) /\ Number(e) <= Len(h)
                          /\ e = EntryOf(a, SubSeq(h, 1, Number(e)))
        BY <2>2
      <4> QED BY <2>1, NumberInStretch
    <3>2. nos \in SUBSET Nat /\ nos # {} /\ \A n \in nos : n <= Len(h)
      BY <2>5, <3>1
    <3>3. IsFiniteSet(nos)
      <4> HIDE DEF nos
      <4> QED BY <2>1, <3>2, FS_BoundedSetOfNaturals
    <3>4. Max(nos) \in nos /\ \A n \in nos : Max(nos) >= n
      <4> HIDE DEF nos
      <4> QED BY <3>2, <3>3, MaxOf
    <3>5. PICK t \in gone : Number(t) = Max(nos)
      BY <3>4
    <3> DEFINE p == Number(t)
    <3>6. \A e \in gone : Number(e) <= p
      BY <3>1, <3>4, <3>5
    <3>7. /\ p \in Nat /\ k < p /\ p <= Len(h) /\ p \in 0 .. Len(h)
          /\ t.history = SubSeq(h, 1, p) /\ t = EntryOf(a, SubSeq(h, 1, p))
      BY <3>1 DEF EntryOf
    <3>8. HeadOf([l EXCEPT !.entries = gone], a) = SubSeq(h, 1, p)
      <4> DEFINE x == [l EXCEPT !.entries = gone]
                 last == CHOOSE e \in gone : \A f \in gone : Number(f) <= Number(e)
      <4>1. By(x, a) = gone
        <5>1. x.entries = gone
          BY DEF Log
        <5> QED BY <5>1 DEF By
      <4>2. last \in gone /\ Number(t) <= Number(last)
        BY <3>6
      <4>3. Number(last) = p
        BY <3>1, <3>6, <4>2
      <4>4. last.history = SubSeq(h, 1, p)
        <5>1. last = EntryOf(a, SubSeq(h, 1, p))
          BY <3>1, <4>2, <4>3
        <5> HIDE DEF last
        <5> QED BY <5>1 DEF EntryOf
      <4> HIDE DEF x, gone
      <4>5. HeadOf(x, a) = last.history
        BY <2>5, <4>1 DEF HeadOf
      <4> QED BY <4>4, <4>5 DEF x
    <3> HIDE DEF p
    <3>9. m.base[a] = SubSeq(h, 1, p)
      BY <1>1, <2>5, <3>8
    <3>10. m.base[a] \in History /\ Len(m.base[a]) = p /\ IsPrefix(m.base[a], h)
      BY <2>1, <3>7, <3>9, Upto, PrefixOf
    <3>11. ASSUME NEW e \in Stretch(a, h, k) PROVE e \in gone <=> Number(e) <= p
      <4>1. Number(e) \in Nat /\ e = EntryOf(a, SubSeq(h, 1, Number(e)))
        BY <2>1, <3>11, NumberInStretch
      <4>2. ASSUME Number(e) <= p PROVE e \in gone
        <5>1. CASE Number(e) = p
          BY <3>7, <4>1, <5>1
        <5>2. CASE Number(e) < p
          <6>1. e \in l.entries /\ e.author = a
            BY <2>1, <3>11 DEF By
          <6>2. t \in old /\ t.author = a
            OBVIOUS
          <6>3. e \in old
            BY <5>2, <6>1, <6>2 DEF ComesFirst, p
          <6> QED BY <6>1, <6>3
        <5> QED BY <3>7, <4>1, <4>2, <5>1, <5>2
      <4> QED BY <3>6, <4>2
    <3>12. By(m, a) = Stretch(a, h, p)
      <4>1. ASSUME NEW e \in Stretch(a, h, k), ~(Number(e) <= p) PROVE e \in Stretch(a, h, p)
        <5>1. e = EntryOf(a, SubSeq(h, 1, Number(e))) /\ Number(e) \in Nat /\ Number(e) <= Len(h)
          BY <2>1, <4>1, NumberInStretch
        <5>2. p < Number(e)
          BY <3>7, <4>1, <5>1
        <5> QED BY <2>1, <3>7, <5>1, <5>2, InStretchIf
      <4>2. ASSUME NEW e \in Stretch(a, h, p) PROVE e \in Stretch(a, h, k) /\ ~(Number(e) <= p)
        <5>1. e = EntryOf(a, SubSeq(h, 1, Number(e))) /\ Number(e) \in Nat /\ p < Number(e)
              /\ Number(e) <= Len(h)
          BY <2>1, <3>7, <4>2, NumberInStretch
        <5>2. k < Number(e) /\ ~(Number(e) <= p)
          BY <2>1, <3>7, <5>1
        <5> QED BY <2>1, <5>1, <5>2, InStretchIf
      <4> QED BY <2>3, <3>11, <4>1, <4>2
    <3> QED BY <3>10, <3>12 DEF h
  <2> QED BY <2>4, <2>5
<1>3. m \in Log /\ m.entries \subseteq l.entries
  <2>1. m.base \in [Devices -> History]
    BY <1>1, <1>2
  <2>2. l.entries \subseteq Entry
    BY DEF Log
  <2> QED BY <1>1, <2>1, <2>2 DEF Log
<1>4. ASSUME NEW a \in Devices PROVE HeadOf(m, a) = HeadOf(l, a) /\ HeadOf(l, a) \in History
  <2>1. HeadOf(l, a) \in History
    BY WholeParts
  <2> QED BY <1>2, <2>1, HeadIs
<1>5. Whole(m)
  BY <1>2, <1>3, <1>4, WholeIf
<1> QED BY <1>3, <1>4, <1>5 DEF m

-----------------------------------------------------------------------------
(***************************************************************************)
(* The inductive invariant.  Every log is whole, and what is on disk is an *)
(* earlier state of it; every batch on its way is unbroken, so that none   *)
(* can tear a log; and as long as no entry was lost with its author, each  *)
(* log and each batch holds beginnings of what the authors themselves have.*)
(***************************************************************************)
Spoken == (UNION {{talk[l].answer, talk[l].reply} : l \in Links}) \ {None}
Filed == {s.entries : s \in UNION {outbox[l].segments \cup inbox[l].segments : l \in Shares}}
Batches == Spoken \cup Filed

Typed ==
  /\ reach \in Reaches /\ events \in Nat
  /\ log \in [Devices -> Log] /\ disk \in [Devices -> Log]
  /\ peers \in [Devices -> SUBSET Devices]
  /\ talk \in [Links -> Talk]
  /\ outbox \in [Shares -> Box] /\ inbox \in [Shares -> Box]

FilesInOrder ==
  \A l \in Shares : /\ IsFiniteSet(outbox[l].segments) /\ IsFiniteSet(inbox[l].segments)
                    /\ \A s, t \in inbox[l].segments : s.no = t.no => s = t

OnDisk(d) == Whole(disk[d]) /\ disk[d].base = log[d].base /\ disk[d].entries \subseteq log[d].entries

Truth ==
  /\ \A d, a \in Devices : IsPrefix(HeadOf(log[d], a), HeadOf(log[a], a))
  /\ \A b \in Batches : \A e \in b : IsPrefix(e.history, HeadOf(log[e.author], e.author))

SpreadInv ==
  /\ Typed
  /\ FilesInOrder
  /\ \A d \in Devices : Whole(log[d]) /\ OnDisk(d) /\ d \notin peers[d]
  /\ \A b \in Batches : Unbroken(b)
  /\ lost = {} => Truth

\* What a step may do to the log of one device, to its disk, and to what is on its way.
LogStep(d) ==
  \/ log'[d] = log[d]
  \/ \E op \in Ops : log'[d] = Appended(log[d], d, op)
  \/ Grown(log[d], log'[d], peers[d], UNION Batches) /\ peers'[d] = peers[d]
  \/ log'[d] = disk[d] /\ (lost' = {} => By(disk[d], d) = By(log[d], d))
  \/ \E old : ComesFirst(old, log[d]) /\ log'[d] = Compact(log[d], old)

DiskStep(d) ==
  \/ disk'[d] = log'[d]
  \/ disk'[d] = disk[d] /\ log'[d].base = log[d].base /\ log[d].entries \subseteq log'[d].entries

Tended ==
  /\ Typed' /\ FilesInOrder'
  /\ \A d \in Devices : LogStep(d) /\ DiskStep(d) /\ d \notin peers'[d]
  /\ \A b \in Batches' : b \in Batches \/ \E d \in Devices, h \in Numbers : b = Since(log'[d], h)
  /\ lost \subseteq lost'

LEMMA HeadsAreNumbers == ASSUME NEW l \in Log, Whole(l) PROVE Heads(l) \in Numbers
BY WholeParts DEF Heads, Numbers

LEMMA WholeIsChained == ASSUME NEW l \in Log, Whole(l) PROVE Chained(l)
<1> SUFFICES ASSUME NEW a \in Devices
             PROVE  /\ \A e \in By(l, a) :
                         /\ Number(e) > Len(l.base[a])
                         /\ SubSeq(e.history, 1, Len(l.base[a])) = l.base[a]
                         /\ \A n \in Len(l.base[a]) + 1 .. Number(e) :
                              EntryOf(a, SubSeq(e.history, 1, n)) \in l.entries
                    /\ \A e, f \in By(l, a) : Number(e) = Number(f) => e = f
  BY DEF Chained
<1> DEFINE h == HeadOf(l, a)  k == Len(l.base[a])
<1>1. /\ h \in History /\ l.base[a] \in History /\ k \in Nat /\ Len(h) \in Nat /\ k <= Len(h)
      /\ SubSeq(h, 1, k) = l.base[a] /\ By(l, a) = Stretch(a, h, k)
  BY WholeParts
<1> HIDE DEF h, k
<1>2. ASSUME NEW e \in Stretch(a, h, k)
      PROVE  /\ Number(e) \in Nat /\ Number(e) <= Len(h) /\ k < Number(e)
             /\ e = EntryOf(a, SubSeq(h, 1, Number(e))) /\ e.history = SubSeq(h, 1, Number(e))
  <2>1. e = EntryOf(a, SubSeq(h, 1, Number(e)))
    BY <1>1, NumberInStretch
  <2>2. e.history = SubSeq(h, 1, Number(e))
    BY <2>1 DEF EntryOf
  <2> QED BY <1>1, <2>1, <2>2, NumberInStretch
<1>3. ASSUME NEW e \in Stretch(a, h, k), NEW n \in Nat, k <= n, n <= Number(e)
      PROVE  SubSeq(e.history, 1, n) = SubSeq(h, 1, n) /\ n <= Len(h)
  <2>1. /\ Number(e) \in Nat /\ Number(e) <= Len(h) /\ e.history = SubSeq(h, 1, Number(e))
    BY <1>2
  <2>2. n \in 0 .. Number(e) /\ Number(e) \in 0 .. Len(h) /\ n <= Len(h)
    BY <1>1, <1>3, <2>1
  <2> QED BY <1>1, <2>1, <2>2, UptoUpto
<1>4. ASSUME NEW e \in Stretch(a, h, k)
      PROVE  /\ Number(e) > k /\ SubSeq(e.history, 1, k) = l.base[a]
             /\ \A n \in k + 1 .. Number(e) : EntryOf(a, SubSeq(e.history, 1, n)) \in l.entries
  <2>1. Number(e) \in Nat /\ k < Number(e)
    BY <1>2
  <2>2. SubSeq(e.history, 1, k) = l.base[a]
    BY <1>1, <1>3, <2>1
  <2>3. ASSUME NEW n \in k + 1 .. Number(e) PROVE EntryOf(a, SubSeq(e.history, 1, n)) \in l.entries
    <3>1. n \in Nat /\ k < n /\ k <= n /\ n <= Number(e)
      BY <1>1, <2>1
    <3>2. SubSeq(e.history, 1, n) = SubSeq(h, 1, n) /\ n <= Len(h)
      BY <1>3, <3>1
    <3>3. EntryOf(a, SubSeq(h, 1, n)) \in Stretch(a, h, k)
      BY <1>1, <3>1, <3>2, InStretchIf
    <3> QED BY <1>1, <3>2, <3>3 DEF By
  <2> QED BY <1>1, <2>1, <2>2, <2>3
<1>5. ASSUME NEW e \in Stretch(a, h, k), NEW f \in Stretch(a, h, k), Number(e) = Number(f)
      PROVE  e = f
  <2>1. e = EntryOf(a, SubSeq(h, 1, Number(e))) /\ f = EntryOf(a, SubSeq(h, 1, Number(f)))
    BY <1>2
  <2> QED BY <1>5, <2>1
<1> QED BY <1>1, <1>4, <1>5 DEF k

LEMMA SpreadIsOneHistory == SpreadInv => OneHistory
<1> SUFFICES ASSUME SpreadInv PROVE OneHistory
  OBVIOUS
<1>1. \A d \in Devices : log[d] \in Log /\ Whole(log[d])
  BY DEF SpreadInv, Typed
<1>2. \A d \in Devices : Chained(log[d])
  BY <1>1, WholeIsChained
<1>3. ASSUME lost = {}, NEW a \in Devices, NEW d \in Devices, NEW e \in Devices,
             Len(HeadOf(log[d], a)) <= Len(HeadOf(log[e], a))
      PROVE  SubSeq(HeadOf(log[e], a), 1, Len(HeadOf(log[d], a))) = HeadOf(log[d], a)
  <2>1. /\ HeadOf(log[d], a) \in History /\ HeadOf(log[e], a) \in History
        /\ HeadOf(log[a], a) \in History
    BY <1>1 DEF Whole
  <2>2. IsPrefix(HeadOf(log[d], a), HeadOf(log[a], a)) /\ IsPrefix(HeadOf(log[e], a), HeadOf(log[a], a))
    BY <1>3 DEF SpreadInv, Truth
  <2>3. IsPrefix(HeadOf(log[d], a), HeadOf(log[e], a))
    BY <1>3, <2>1, <2>2, PrefixesMeet
  <2> QED BY <2>1, <2>3, PrefixIs
<1> QED BY <1>2, <1>3 DEF OneHistory

-----------------------------------------------------------------------------
(***************************************************************************)
(* What follows from a step that does no more than that.                   *)
(***************************************************************************)
LEMMA LogsAre ==
  ASSUME SpreadInv, NEW d \in Devices
  PROVE  /\ log[d] \in Log /\ Whole(log[d]) /\ disk[d] \in Log /\ Whole(disk[d])
         /\ disk[d].base = log[d].base /\ disk[d].entries \subseteq log[d].entries
         /\ d \notin peers[d]
BY DEF SpreadInv, Typed, OnDisk

LEMMA LogStaysWhole ==
  ASSUME SpreadInv, NEW d \in Devices, LogStep(d)
  PROVE  log'[d] \in Log /\ Whole(log'[d])
<1>1. log[d] \in Log /\ Whole(log[d]) /\ disk[d] \in Log /\ Whole(disk[d])
  BY LogsAre
<1>2. CASE \E op \in Ops : log'[d] = Appended(log[d], d, op)
  BY <1>1, <1>2, AppendedIsWhole
<1>3. CASE Grown(log[d], log'[d], peers[d], UNION Batches)
  BY <1>3 DEF Grown
<1>4. CASE \E old : ComesFirst(old, log[d]) /\ log'[d] = Compact(log[d], old)
  BY <1>1, <1>4, CompactKeeps
<1> QED BY <1>1, <1>2, <1>3, <1>4 DEF LogStep

\* What an author has written it still has, and may have gone on from.
LEMMA OwnHead ==
  ASSUME SpreadInv, NEW d \in Devices, LogStep(d), lost' = {}
  PROVE  IsPrefix(HeadOf(log[d], d), HeadOf(log'[d], d))
<1>1. /\ log[d] \in Log /\ Whole(log[d]) /\ disk[d] \in Log /\ Whole(disk[d])
      /\ disk[d].base = log[d].base /\ HeadOf(log[d], d) \in History
  BY LogsAre DEF Whole
<1>2. CASE log'[d] = log[d]
  BY <1>1, <1>2, PrefixSelf
<1>3. CASE \E op \in Ops : log'[d] = Appended(log[d], d, op)
  <2>1. log'[d] \in Log /\ Whole(log'[d]) /\ log'[d].base = log[d].base
        /\ log[d].entries \subseteq log'[d].entries
    BY <1>1, <1>3, AppendedIsWhole
  <2> QED BY <1>1, <2>1, HoldsMore
<1>4. CASE Grown(log[d], log'[d], peers[d], UNION Batches)
  <2>1. log'[d] \in Log /\ Whole(log'[d]) /\ log'[d].base = log[d].base
        /\ log[d].entries \subseteq log'[d].entries
    BY <1>4 DEF Grown
  <2> QED BY <1>1, <2>1, HoldsMore
<1>5. CASE log'[d] = disk[d] /\ (lost' = {} => By(disk[d], d) = By(log[d], d))
  <2>1. HeadOf(disk[d], d) = HeadOf(log[d], d)
    <3>1. By(disk[d], d) = By(log[d], d) /\ disk[d].base = log[d].base
      BY <1>1, <1>5
    <3>2. By(log[d], d) = Stretch(d, HeadOf(log[d], d), Len(log[d].base[d]))
          /\ IsPrefix(log[d].base[d], HeadOf(log[d], d)) /\ log[d].base[d] \in History
      BY <1>1, WholeParts DEF Whole
    <3> QED BY <1>1, <3>1, <3>2, HeadIs
  <2> QED BY <1>1, <1>5, <2>1, PrefixSelf
<1>6. CASE \E old : ComesFirst(old, log[d]) /\ log'[d] = Compact(log[d], old)
  <2>1. HeadOf(log'[d], d) = HeadOf(log[d], d)
    BY <1>1, <1>6, CompactKeeps
  <2> QED BY <1>1, <2>1, PrefixSelf
<1> QED BY <1>2, <1>3, <1>4, <1>5, <1>6 DEF LogStep

\* What is held of another is what was held, or less, or was brought by a batch.
LEMMA OtherHead ==
  ASSUME SpreadInv, NEW d \in Devices, LogStep(d), NEW a \in Devices, a # d
  PROVE  \/ IsPrefix(HeadOf(log'[d], a), HeadOf(log[d], a))
         \/ EntryOf(a, HeadOf(log'[d], a)) \in UNION Batches
<1>1. /\ log[d] \in Log /\ Whole(log[d]) /\ disk[d] \in Log /\ Whole(disk[d])
      /\ disk[d].base = log[d].base /\ disk[d].entries \subseteq log[d].entries
      /\ HeadOf(log[d], a) \in History
  BY LogsAre DEF Whole
<1>2. CASE log'[d] = log[d]
  BY <1>1, <1>2, PrefixSelf
<1>3. CASE \E op \in Ops : log'[d] = Appended(log[d], d, op)
  <2>1. PICK op \in Ops : log'[d] = Appended(log[d], d, op)
    BY <1>3
  <2> DEFINE e == EntryOf(d, Append(HeadOf(log[d], d), op))
  <2>2. log'[d] \in Log /\ Whole(log'[d]) /\ log'[d].base = log[d].base
        /\ log'[d].entries = log[d].entries \cup {e}
    BY <1>1, <2>1, AppendedIsWhole
  <2>3. e.author = d
    BY DEF EntryOf
  <2>4. By(log'[d], a) = By(log[d], a)
    BY <2>2, <2>3 DEF By
  <2>5. HeadOf(log'[d], a) = HeadOf(log[d], a)
    BY <2>2, <2>4 DEF HeadOf
  <2> QED BY <1>1, <2>5, PrefixSelf
<1>4. CASE Grown(log[d], log'[d], peers[d], UNION Batches)
  <2>1. log'[d] \in Log /\ Whole(log'[d]) /\ log'[d].base = log[d].base
        /\ log[d].entries \subseteq log'[d].entries
        /\ \A e \in log'[d].entries \ log[d].entries : e \in UNION Batches
    BY <1>4 DEF Grown
  <2>2. CASE HeadOf(log'[d], a) = HeadOf(log[d], a)
    BY <1>1, <2>2, PrefixSelf
  <2>3. CASE HeadOf(log'[d], a) # HeadOf(log[d], a)
    <3>1. EntryOf(a, HeadOf(log'[d], a)) \in log'[d].entries \ log[d].entries
      BY <1>1, <2>1, <2>3, HoldsMore
    <3> QED BY <2>1, <3>1
  <2> QED BY <2>2, <2>3
<1>5. CASE log'[d] = disk[d]
  BY <1>1, <1>5, HoldsMore
<1>6. CASE \E old : ComesFirst(old, log[d]) /\ log'[d] = Compact(log[d], old)
  <2>1. HeadOf(log'[d], a) = HeadOf(log[d], a)
    BY <1>1, <1>6, CompactKeeps
  <2> QED BY <1>1, <2>1, PrefixSelf
<1> QED BY <1>2, <1>3, <1>4, <1>5, <1>6 DEF LogStep

LEMMA TendedKeepsTruth ==
  ASSUME SpreadInv, Tended, lost' = {}
  PROVE  Truth'
<1>1. Truth
  BY DEF SpreadInv, Tended
<1>2. \A d \in Devices : LogStep(d) /\ log'[d] \in Log /\ Whole(log'[d])
  BY LogStaysWhole DEF Tended
<1>3. ASSUME NEW d \in Devices, NEW a \in Devices
      PROVE  HeadOf(log[d], a) \in History /\ HeadOf(log'[d], a) \in History
  BY <1>2, LogsAre DEF Whole
<1>4. ASSUME NEW a \in Devices PROVE IsPrefix(HeadOf(log[a], a), HeadOf(log'[a], a))
  BY <1>2, OwnHead
<1>5. ASSUME NEW b \in Batches, NEW e \in b
      PROVE  /\ e \in Entry /\ e.author \in Devices /\ e.history \in History
             /\ IsPrefix(e.history, HeadOf(log'[e.author], e.author))
  <2>1. e \in Entry
    BY DEF SpreadInv, Unbroken
  <2>2. e.author \in Devices /\ e.history \in History
    BY <2>1, EntryIs
  <2>3. IsPrefix(e.history, HeadOf(log[e.author], e.author))
    BY <1>1 DEF Truth
  <2> QED BY <1>3, <1>4, <2>1, <2>2, <2>3, PrefixTrans
<1>6. ASSUME NEW d \in Devices, NEW a \in Devices
      PROVE  IsPrefix(HeadOf(log'[d], a), HeadOf(log'[a], a))
  <2>1. CASE d = a
    BY <1>3, <2>1, PrefixSelf
  <2>2. CASE d # a /\ IsPrefix(HeadOf(log'[d], a), HeadOf(log[d], a))
    <3>1. IsPrefix(HeadOf(log[d], a), HeadOf(log[a], a))
      BY <1>1 DEF Truth
    <3>2. IsPrefix(HeadOf(log'[d], a), HeadOf(log[a], a))
      BY <1>3, <2>2, <3>1, PrefixTrans
    <3> QED BY <1>3, <1>4, <3>2, PrefixTrans
  <2>3. CASE d # a /\ EntryOf(a, HeadOf(log'[d], a)) \in UNION Batches
    <3>1. PICK b \in Batches : EntryOf(a, HeadOf(log'[d], a)) \in b
      BY <2>3
    <3> DEFINE e == EntryOf(a, HeadOf(log'[d], a))
    <3>2. e.author = a /\ e.history = HeadOf(log'[d], a)
      BY DEF EntryOf
    <3>3. IsPrefix(e.history, HeadOf(log'[e.author], e.author))
      BY <1>5, <3>1
    <3> QED BY <3>2, <3>3
  <2> QED BY <1>2, <2>1, <2>2, <2>3, OtherHead
<1>7. ASSUME NEW d \in Devices, NEW h \in Numbers, NEW e \in Since(log'[d], h)
      PROVE  IsPrefix(e.history, HeadOf(log'[e.author], e.author))
  <2>1. e \in log'[d].entries
    BY DEF Since
  <2>2. e \in Entry
    BY <1>2, <2>1 DEF Log
  <2>3. e.author \in Devices /\ e.history \in History
    BY <2>2, EntryIs
  <2> DEFINE a == e.author  g == HeadOf(log'[d], a)  k == Len(log'[d].base[a])
  <2>4. e \in Stretch(a, g, k) /\ g \in History /\ k \in Nat
    <3>1. By(log'[d], a) = Stretch(a, g, k) /\ g \in History /\ k \in Nat
      BY <1>2, <2>3, WholeParts
    <3>2. e \in By(log'[d], a)
      BY <2>1 DEF By
    <3> QED BY <3>1, <3>2
  <2>5. IsPrefix(e.history, g)
    <3> HIDE DEF g, k
    <3> QED BY <2>4, InStretch
  <2>6. IsPrefix(g, HeadOf(log'[a], a))
    BY <1>6, <2>3
  <2> QED BY <1>3, <2>3, <2>5, <2>6, PrefixTrans
<1>8. ASSUME NEW b \in Batches', NEW e \in b
      PROVE  IsPrefix(e.history, HeadOf(log'[e.author], e.author))
  <2>1. b \in Batches \/ \E d \in Devices, h \in Numbers : b = Since(log'[d], h)
    BY DEF Tended
  <2> QED BY <1>5, <1>7, <2>1
<1> QED BY <1>6, <1>8 DEF Truth

LEMMA TendedKeeps == SpreadInv /\ Tended => SpreadInv'
<1> SUFFICES ASSUME SpreadInv, Tended PROVE SpreadInv'
  OBVIOUS
<1>1. Typed' /\ FilesInOrder'
  BY DEF Tended
<1>2. \A d \in Devices : log'[d] \in Log /\ Whole(log'[d])
  BY LogStaysWhole DEF Tended
<1>3. ASSUME NEW d \in Devices PROVE OnDisk(d)'
  <2>1. CASE disk'[d] = log'[d]
    BY <1>2, <2>1 DEF OnDisk
  <2>2. CASE disk'[d] = disk[d] /\ log'[d].base = log[d].base /\ log[d].entries \subseteq log'[d].entries
    BY <2>2, LogsAre DEF OnDisk
  <2>3. DiskStep(d)
    BY DEF Tended
  <2> QED BY <2>1, <2>2, <2>3 DEF DiskStep
<1>4. ASSUME NEW b \in Batches' PROVE Unbroken(b)
  <2>1. b \in Batches \/ \E d \in Devices, h \in Numbers : b = Since(log'[d], h)
    BY DEF Tended
  <2>2. CASE b \in Batches
    BY <2>2 DEF SpreadInv
  <2>3. CASE \E d \in Devices, h \in Numbers : b = Since(log'[d], h)
    BY <1>2, <2>3, SinceIsUnbroken DEF Numbers
  <2> QED BY <2>1, <2>2, <2>3
<1>5. lost' = {} => Truth'
  BY TendedKeepsTruth
<1>6. \A d \in Devices : Whole(log[d])' /\ OnDisk(d)' /\ d \notin peers'[d]
  BY <1>2, <1>3 DEF Tended
<1> QED BY <1>1, <1>4, <1>5, <1>6 DEF SpreadInv

-----------------------------------------------------------------------------
(***************************************************************************)
(* Every step of the program does no more than that.                       *)
(***************************************************************************)
LEMMA SilenceIs == Silence \in Talk /\ Silence.answer = None /\ Silence.reply = None
BY DEF Silence, Talk, Optional

LEMMA InitSpread == Init => SpreadInv
<1> SUFFICES ASSUME Init PROVE SpreadInv
  OBVIOUS
<1>1. \A d \in Devices : log[d] = EmptyLog /\ disk[d] = EmptyLog
  BY DEF Init
<1>2. NoFiles \in Box /\ NoFiles.segments = {}
  BY DEF NoFiles, Box, Optional
<1>3. /\ \A l \in Links : talk[l] = Silence
      /\ \A l \in Shares : outbox[l] = NoFiles /\ inbox[l] = NoFiles
  BY DEF Init
<1>4. Typed
  BY <1>2, EmptyIsWhole, SilenceIs DEF Init, Typed
<1>5. Batches = {}
  BY <1>2, <1>3, SilenceIs DEF Batches, Spoken, Filed
<1>6. FilesInOrder
  BY <1>2, <1>3, FS_EmptySet DEF FilesInOrder
<1>7. \A d \in Devices : Whole(log[d]) /\ OnDisk(d) /\ d \notin peers[d]
  BY <1>1, EmptyIsWhole DEF OnDisk, Init
<1>8. Truth
  BY <1>1, <1>5, EmptyIsWhole, PrefixSelf DEF Truth, Whole
<1> QED BY <1>4, <1>5, <1>6, <1>7, <1>8 DEF SpreadInv

\* One conversation goes on, or stops.
LEMMA OneTalks ==
  ASSUME SpreadInv, NEW l \in Links, NEW t \in Talk, talk' = [talk EXCEPT ![l] = t],
         UNCHANGED <<reach, outbox, inbox>>,
         \A b \in {t.answer, t.reply} \ {None} :
           b \in {talk[l].answer, talk[l].reply} \/ \E d \in Devices, h \in Numbers : b = Since(log'[d], h)
  PROVE  /\ talk' \in [Links' -> Talk] /\ outbox' \in [Shares' -> Box] /\ inbox' \in [Shares' -> Box]
         /\ FilesInOrder'
         /\ \A b \in Batches' : b \in Batches \/ \E d \in Devices, h \in Numbers : b = Since(log'[d], h)
<1>1. Links' = Links /\ Shares' = Shares
  BY DEF Links, Shares
<1>2. talk \in [Links -> Talk] /\ outbox \in [Shares -> Box] /\ inbox \in [Shares -> Box] /\ FilesInOrder
  BY DEF SpreadInv, Typed
<1>3. FilesInOrder'
  BY <1>1, <1>2 DEF FilesInOrder
<1>4. Filed' = Filed
  BY <1>1 DEF Filed
<1>5. ASSUME NEW b \in Spoken'
      PROVE  b \in Spoken \/ \E d \in Devices, h \in Numbers : b = Since(log'[d], h)
  <2>1. PICK k \in Links : b \in {talk'[k].answer, talk'[k].reply} /\ b # None
    BY <1>1 DEF Spoken
  <2>2. CASE k = l
    <3>1. talk'[k] = t
      BY <1>2, <2>2
    <3> QED BY <2>1, <3>1 DEF Spoken
  <2>3. CASE k # l
    <3>1. talk'[k] = talk[k]
      BY <1>2, <2>3
    <3> QED BY <2>1, <3>1 DEF Spoken
  <2> QED BY <2>2, <2>3
<1> QED BY <1>1, <1>2, <1>3, <1>4, <1>5 DEF Batches

\* Nothing is said or filed.
LEMMA NobodyTalks ==
  ASSUME SpreadInv, UNCHANGED <<reach, talk, outbox, inbox>>
  PROVE  /\ talk' \in [Links' -> Talk] /\ outbox' \in [Shares' -> Box] /\ inbox' \in [Shares' -> Box]
         /\ FilesInOrder' /\ Batches' = Batches
<1>1. Links' = Links /\ Shares' = Shares
  BY DEF Links, Shares
<1> QED BY <1>1 DEF SpreadInv, Typed, FilesInOrder, Batches, Spoken, Filed

LEMMA NobodyWrites ==
  ASSUME SpreadInv, UNCHANGED <<log, disk, peers>>
  PROVE  /\ log' \in [Devices -> Log] /\ disk' \in [Devices -> Log]
         /\ peers' \in [Devices -> SUBSET Devices]
         /\ \A d \in Devices : LogStep(d) /\ DiskStep(d) /\ d \notin peers'[d]
BY DEF SpreadInv, Typed, LogStep, DiskStep

LEMMA QuietTalkIsTended ==
  ASSUME SpreadInv, NEW l \in Links,
         Dial(l) \/ ServeAnswer(l) \/ ServeAsk(l) \/ DialReply(l) \/ Refused(l) \/ Cut(l)
  PROVE  Tended
<1>1. UNCHANGED <<reach, log, peers, disk, outbox, inbox, lost>> /\ events' \in Nat
  BY DEF Dial, ServeAnswer, ServeAsk, DialReply, Refused, Cut, Event, files, SpreadInv, Typed
<1>2. /\ reach' \in Reaches
      /\ log' \in [Devices -> Log] /\ disk' \in [Devices -> Log]
      /\ peers' \in [Devices -> SUBSET Devices]
      /\ \A d \in Devices : LogStep(d) /\ DiskStep(d) /\ d \notin peers'[d]
  BY <1>1, NobodyWrites DEF SpreadInv, Typed
<1>3. l[1] \in Devices /\ l[2] \in Devices
  BY SharesAre DEF SpreadInv, Typed
<1>4. Heads(log[l[1]]) \in Numbers /\ Heads(log[l[2]]) \in Numbers
  BY <1>3, LogsAre, HeadsAreNumbers
<1>5. talk[l] \in Talk /\ talk \in [Links -> Talk]
  BY DEF SpreadInv, Typed
<1>6. /\ \A d \in Devices : \A h : Since(log[d], h) \in SUBSET Entry
      /\ \A d \in Devices : log'[d] = log[d]
  BY <1>1, LogsAre DEF Since, Log
<1> SUFFICES \E t \in Talk :
               /\ talk' = [talk EXCEPT ![l] = t]
               /\ \A b \in {t.answer, t.reply} \ {None} :
                    b \in {talk[l].answer, talk[l].reply}
                      \/ \E d \in Devices, h \in Numbers : b = Since(log'[d], h)
  BY <1>1, <1>2, OneTalks DEF Tended, Typed
<1>7. CASE Dial(l)
  <2> DEFINE t == [talk[l] EXCEPT !.dialler = "greeted", !.hello = Heads(log[l[1]])]
  <2>1. talk' = [talk EXCEPT ![l] = t]
    BY <1>5, <1>7 DEF Dial
  <2>2. t \in Talk /\ t.answer = talk[l].answer /\ t.reply = talk[l].reply
    BY <1>4, <1>5 DEF Talk, Optional
  <2> QED BY <2>1, <2>2
<1>8. CASE ServeAnswer(l)
  <2> DEFINE t == [talk[l] EXCEPT !.server = "answered", !.hello = None,
                                  !.answer = Since(log[l[2]], talk[l].hello)]
  <2>1. talk' = [talk EXCEPT ![l] = t]
    BY <1>5, <1>8 DEF ServeAnswer
  <2>2. talk[l].hello \in Numbers
    BY <1>5, <1>8 DEF ServeAnswer, Talk, Optional
  <2>3. t \in Talk /\ t.answer = Since(log[l[2]], talk[l].hello) /\ t.reply = talk[l].reply
    BY <1>3, <1>5, <1>6 DEF Talk, Optional
  <2>4. \E d \in Devices, h \in Numbers : t.answer = Since(log'[d], h)
    BY <1>3, <1>6, <2>2, <2>3
  <2> HIDE DEF t
  <2> QED BY <2>1, <2>3, <2>4
<1>9. CASE ServeAsk(l)
  <2> DEFINE t == [talk[l] EXCEPT !.server = "asked", !.ask = Heads(log[l[2]])]
  <2>1. talk' = [talk EXCEPT ![l] = t]
    BY <1>5, <1>9 DEF ServeAsk
  <2>2. t \in Talk /\ t.answer = talk[l].answer /\ t.reply = talk[l].reply
    BY <1>4, <1>5 DEF Talk, Optional
  <2> QED BY <2>1, <2>2
<1>10. CASE DialReply(l)
  <2> DEFINE t == [talk[l] EXCEPT !.dialler = "done", !.ask = None,
                                  !.reply = Since(log[l[1]], talk[l].ask)]
  <2>1. talk' = [talk EXCEPT ![l] = t]
    BY <1>5, <1>10 DEF DialReply
  <2>2. talk[l].ask \in Numbers
    BY <1>5, <1>10 DEF DialReply, Talk, Optional
  <2>3. t \in Talk /\ t.answer = talk[l].answer /\ t.reply = Since(log[l[1]], talk[l].ask)
    BY <1>3, <1>5, <1>6 DEF Talk, Optional
  <2>4. \E d \in Devices, h \in Numbers : t.reply = Since(log'[d], h)
    BY <1>3, <1>6, <2>2, <2>3
  <2> HIDE DEF t
  <2> QED BY <2>1, <2>3, <2>4
<1>11. CASE Refused(l) \/ Cut(l)
  <2>1. talk' = [talk EXCEPT ![l] = Silence]
    BY <1>11 DEF Refused, Cut
  <2> QED BY <2>1, SilenceIs
<1> QED BY <1>7, <1>8, <1>9, <1>10, <1>11

\* One device's log becomes another, the disk aside.
LEMMA OneTakesIn ==
  ASSUME SpreadInv, NEW d \in Devices, NEW m, Grown(log[d], m, peers[d], UNION Batches),
         log' = [log EXCEPT ![d] = m], UNCHANGED <<disk, peers>>
  PROVE  /\ log' \in [Devices -> Log] /\ disk' \in [Devices -> Log]
         /\ peers' \in [Devices -> SUBSET Devices]
         /\ \A x \in Devices : LogStep(x) /\ DiskStep(x) /\ x \notin peers'[x]
<1>1. log \in [Devices -> Log] /\ m \in Log /\ m.base = log[d].base /\ log[d].entries \subseteq m.entries
  BY DEF SpreadInv, Typed, Grown
<1>2. log' \in [Devices -> Log] /\ log'[d] = m /\ \A x \in Devices : x # d => log'[x] = log[x]
  BY <1>1
<1>3. LogStep(d) /\ DiskStep(d)
  BY <1>1, <1>2 DEF LogStep, DiskStep
<1>4. ASSUME NEW x \in Devices, x # d PROVE LogStep(x) /\ DiskStep(x)
  BY <1>2, <1>4 DEF LogStep, DiskStep
<1> QED BY <1>2, <1>3, <1>4 DEF SpreadInv, Typed

\* What a device takes in are entries of the batch, by those it listens to.
LEMMA TakesGrows ==
  ASSUME SpreadInv, NEW d \in Devices, NEW b \in Batches
  PROVE  Grown(log[d], Takes(d, b), peers[d], UNION Batches)
<1>1. Grown(log[d], Takes(d, b), peers[d], b)
  BY LogsAre, ReceiveGrows DEF Takes, SpreadInv
<1> QED BY <1>1 DEF Grown

LEMMA ReceivingIsTended ==
  ASSUME SpreadInv, NEW l \in Links, DialReceive(l) \/ ServeReceive(l)
  PROVE  Tended
<1>1. UNCHANGED <<reach, peers, disk, outbox, inbox, events, lost>>
  BY DEF DialReceive, ServeReceive, files
<1>2. l[1] \in Devices /\ l[2] \in Devices
  BY SharesAre DEF SpreadInv, Typed
<1>3. talk[l] \in Talk /\ talk \in [Links -> Talk] /\ reach' \in Reaches /\ events' \in Nat
  BY <1>1 DEF SpreadInv, Typed
<1> SUFFICES /\ \E d \in Devices, m \in Log : /\ Grown(log[d], m, peers[d], UNION Batches)
                                             /\ log' = [log EXCEPT ![d] = m]
             /\ \E t \in Talk : /\ talk' = [talk EXCEPT ![l] = t]
                                /\ {t.answer, t.reply} \ {None} \subseteq {talk[l].answer, talk[l].reply}
  <2>1. PICK d \in Devices, m \in Log : /\ Grown(log[d], m, peers[d], UNION Batches)
                                       /\ log' = [log EXCEPT ![d] = m]
    OBVIOUS
  <2>2. PICK t \in Talk : /\ talk' = [talk EXCEPT ![l] = t]
                          /\ {t.answer, t.reply} \ {None} \subseteq {talk[l].answer, talk[l].reply}
    OBVIOUS
  <2>3. /\ log' \in [Devices -> Log] /\ disk' \in [Devices -> Log]
        /\ peers' \in [Devices -> SUBSET Devices]
        /\ \A x \in Devices : LogStep(x) /\ DiskStep(x) /\ x \notin peers'[x]
    BY <1>1, <2>1, OneTakesIn
  <2>4. /\ talk' \in [Links' -> Talk] /\ outbox' \in [Shares' -> Box] /\ inbox' \in [Shares' -> Box]
        /\ FilesInOrder'
        /\ \A b \in Batches' : b \in Batches \/ \E x \in Devices, h \in Numbers : b = Since(log'[x], h)
    BY <1>1, <2>2, OneTalks
  <2> QED BY <1>1, <1>3, <2>3, <2>4 DEF Tended, Typed
<1>4. CASE DialReceive(l)
  <2> DEFINE t == [talk[l] EXCEPT !.dialler = "received", !.answer = None]
  <2>1. talk' = [talk EXCEPT ![l] = t]
    BY <1>3, <1>4 DEF DialReceive
  <2>2. t \in Talk /\ t.answer = None /\ t.reply = talk[l].reply
    BY <1>3 DEF Talk, Optional
  <2>3. talk[l].answer \in Batches
    BY <1>4 DEF DialReceive, Batches, Spoken
  <2>4. log' = [log EXCEPT ![l[1]] = Takes(l[1], talk[l].answer)]
    BY <1>4 DEF DialReceive
  <2>5. Grown(log[l[1]], Takes(l[1], talk[l].answer), peers[l[1]], UNION Batches)
        /\ Takes(l[1], talk[l].answer) \in Log
    BY <1>2, <2>3, TakesGrows DEF Grown
  <2> HIDE DEF t
  <2> QED BY <1>2, <2>1, <2>2, <2>4, <2>5
<1>5. CASE ServeReceive(l)
  <2>1. talk' = [talk EXCEPT ![l] = Silence]
    BY <1>5 DEF ServeReceive
  <2>2. talk[l].reply \in Batches
    BY <1>5 DEF ServeReceive, Batches, Spoken
  <2>3. log' = [log EXCEPT ![l[2]] = Takes(l[2], talk[l].reply)]
    BY <1>5 DEF ServeReceive
  <2>4. Grown(log[l[2]], Takes(l[2], talk[l].reply), peers[l[2]], UNION Batches)
        /\ Takes(l[2], talk[l].reply) \in Log
    BY <1>2, <2>2, TakesGrows DEF Grown
  <2> QED BY <1>2, <2>1, <2>3, <2>4, SilenceIs
<1> QED BY <1>4, <1>5

LEMMA RecordIsTended ==
  ASSUME SpreadInv, NEW d \in Devices, Record(d)
  PROVE  Tended
<1>1. /\ UNCHANGED <<reach, peers, disk, talk, outbox, inbox, lost>>
      /\ log' = [log EXCEPT ![d] = Appended(log[d], d, events)]
      /\ events' = events + 1 /\ events < reach.events
  BY DEF Record, Event, MaxEvents, files
<1>2. /\ reach \in Reaches /\ events \in Nat /\ log \in [Devices -> Log] /\ disk \in [Devices -> Log]
      /\ peers \in [Devices -> SUBSET Devices]
  BY DEF SpreadInv, Typed
<1>3. events \in Ops
  <2>1. reach.events \in Nat /\ 0 .. reach.events \subseteq Ops
    BY <1>2, GossipAssumption
  <2>2. events \in 0 .. reach.events
    BY <1>1, <1>2, <2>1
  <2> QED BY <2>1, <2>2
<1> DEFINE m == Appended(log[d], d, events)
<1>4. m \in Log /\ m.base = log[d].base /\ log[d].entries \subseteq m.entries
  BY <1>3, LogsAre, AppendedIsWhole
<1>5. log' \in [Devices -> Log] /\ log'[d] = m /\ \A x \in Devices : x # d => log'[x] = log[x]
  <2> HIDE DEF m
  <2> QED BY <1>1, <1>2, <1>4 DEF m
<1>6. LogStep(d) /\ DiskStep(d)
  BY <1>1, <1>3, <1>4, <1>5 DEF LogStep, DiskStep
<1>7. ASSUME NEW x \in Devices, x # d PROVE LogStep(x) /\ DiskStep(x)
  BY <1>1, <1>5, <1>7 DEF LogStep, DiskStep
<1>8. \A x \in Devices : LogStep(x) /\ DiskStep(x) /\ x \notin peers'[x]
  BY <1>1, <1>6, <1>7, LogsAre
<1>9. /\ talk' \in [Links' -> Talk] /\ outbox' \in [Shares' -> Box] /\ inbox' \in [Shares' -> Box]
      /\ FilesInOrder' /\ Batches' = Batches
  BY <1>1, NobodyTalks
<1>10. Typed'
  <2>1. reach' \in Reaches /\ events' \in Nat
    BY <1>1, <1>2
  <2> QED BY <1>1, <1>2, <1>5, <1>9, <2>1 DEF Typed
<1> QED BY <1>1, <1>8, <1>9, <1>10 DEF Tended

LEMMA SavingIsTended ==
  ASSUME SpreadInv, NEW d \in Devices, Save(d) \/ \E p \in Devices : Revoke(d, p) \/ Accept(d, p)
  PROVE  Tended
<1>1. /\ UNCHANGED <<reach, log, talk, outbox, inbox, lost>> /\ events' \in Nat
      /\ disk' = [disk EXCEPT ![d] = log[d]]
  BY DEF Save, Revoke, Accept, Event, files, SpreadInv, Typed
<1>2. /\ reach' \in Reaches /\ log \in [Devices -> Log] /\ disk \in [Devices -> Log]
      /\ peers \in [Devices -> SUBSET Devices] /\ \A x \in Devices : x \notin peers[x]
  BY <1>1 DEF SpreadInv, Typed
<1>3. peers' \in [Devices -> SUBSET Devices] /\ \A x \in Devices : x \notin peers'[x]
  <2>1. CASE Save(d)
    BY <1>2, <2>1 DEF Save
  <2>2. CASE \E p \in Devices : Revoke(d, p)
    <3>1. PICK p \in Devices : peers' = [peers EXCEPT ![d] = @ \ {p}]
      BY <2>2 DEF Revoke
    <3> QED BY <1>2, <3>1
  <2>3. CASE \E p \in Devices : Accept(d, p)
    <3>1. PICK p \in Devices : peers' = [peers EXCEPT ![d] = @ \cup {p}] /\ p # d
      BY <2>3 DEF Accept
    <3> QED BY <1>2, <3>1
  <2> QED BY <2>1, <2>2, <2>3
<1>4. disk' \in [Devices -> Log] /\ \A x \in Devices : LogStep(x) /\ DiskStep(x)
  BY <1>1, <1>2 DEF LogStep, DiskStep
<1>5. /\ talk' \in [Links' -> Talk] /\ outbox' \in [Shares' -> Box] /\ inbox' \in [Shares' -> Box]
      /\ FilesInOrder' /\ Batches' = Batches
  BY <1>1, NobodyTalks
<1>6. Typed'
  BY <1>1, <1>2, <1>3, <1>4, <1>5 DEF Typed
<1> QED BY <1>1, <1>3, <1>4, <1>5, <1>6 DEF Tended

LEMMA CrashIsTended ==
  ASSUME SpreadInv, NEW d \in Devices, Crash(d)
  PROVE  Tended
<1>1. /\ UNCHANGED <<reach, peers, disk, outbox, inbox>>
      /\ log' = [log EXCEPT ![d] = disk[d]]
      /\ lost' = lost \cup {e \in log[d].entries \ disk[d].entries :
                              e.author = d \/ \E p \in Devices : Number(e) <= Len(log[p].base[e.author])}
      /\ talk' = [l \in Links |-> IF d \in {l[1], l[2]} THEN Silence ELSE talk[l]]
      /\ events' = events + 1
  BY DEF Crash, Event, files
<1>2. /\ reach' \in Reaches /\ events' \in Nat /\ log \in [Devices -> Log] /\ disk \in [Devices -> Log]
      /\ peers \in [Devices -> SUBSET Devices] /\ talk \in [Links -> Talk]
      /\ outbox \in [Shares -> Box] /\ inbox \in [Shares -> Box] /\ FilesInOrder
      /\ Links' = Links /\ Shares' = Shares
  BY <1>1 DEF SpreadInv, Typed, Links, Shares
<1>3. log' \in [Devices -> Log] /\ log'[d] = disk[d] /\ \A x \in Devices : x # d => log'[x] = log[x]
  BY <1>1, <1>2
<1>4. lost' = {} => By(disk[d], d) = By(log[d], d)
  <2>1. disk[d].entries \subseteq log[d].entries
    BY LogsAre
  <2> QED BY <1>1, <2>1 DEF By
<1>5. LogStep(d) /\ DiskStep(d)
  BY <1>1, <1>3, <1>4 DEF LogStep, DiskStep
<1>6. ASSUME NEW x \in Devices, x # d PROVE LogStep(x) /\ DiskStep(x)
  BY <1>1, <1>3, <1>6 DEF LogStep, DiskStep
<1>7. talk' \in [Links -> Talk]
  BY <1>1, <1>2, SilenceIs
<1>8. Batches' \subseteq Batches
  <2>1. Filed' = Filed
    BY <1>1, <1>2 DEF Filed
  <2>2. ASSUME NEW b \in Spoken' PROVE b \in Spoken
    <3>1. PICK l \in Links : b \in {talk'[l].answer, talk'[l].reply} /\ b # None
      BY <1>2 DEF Spoken
    <3>2. talk'[l] = Silence \/ talk'[l] = talk[l]
      BY <1>1
    <3> QED BY <3>1, <3>2, SilenceIs DEF Spoken
  <2> QED BY <2>1, <2>2 DEF Batches
<1>9. FilesInOrder'
  BY <1>1, <1>2 DEF FilesInOrder
<1>10. Typed'
  BY <1>1, <1>2, <1>3, <1>7 DEF Typed
<1>11. \A x \in Devices : LogStep(x) /\ DiskStep(x) /\ x \notin peers'[x]
  BY <1>1, <1>5, <1>6, LogsAre
<1> QED BY <1>1, <1>8, <1>9, <1>10, <1>11 DEF Tended

LEMMA CompactingIsTended ==
  ASSUME SpreadInv, NEW d \in Devices, CompactLog(d)
  PROVE  Tended
<1>1. PICK old \in SUBSET log[d].entries :
        /\ \A e \in old, f \in log[d].entries : f.author = e.author /\ Number(f) < Number(e) => f \in old
        /\ log' = [log EXCEPT ![d] = Compact(log[d], old)]
        /\ disk' = [disk EXCEPT ![d] = log'[d]]
        /\ lost \subseteq lost' /\ events' = events + 1
        /\ UNCHANGED <<reach, peers, talk, outbox, inbox>>
  BY DEF CompactLog, Event, files
<1>2. ComesFirst(old, log[d])
  BY <1>1 DEF ComesFirst
<1>3. /\ reach' \in Reaches /\ events' \in Nat /\ log \in [Devices -> Log] /\ disk \in [Devices -> Log]
      /\ peers' \in [Devices -> SUBSET Devices]
  BY <1>1 DEF SpreadInv, Typed
<1> DEFINE m == Compact(log[d], old)
<1>4. m \in Log
  BY <1>2, LogsAre, CompactKeeps
<1>5. /\ log' \in [Devices -> Log] /\ log'[d] = m /\ \A x \in Devices : x # d => log'[x] = log[x]
      /\ disk' \in [Devices -> Log] /\ disk'[d] = m /\ \A x \in Devices : x # d => disk'[x] = disk[x]
  <2> HIDE DEF m
  <2> QED BY <1>1, <1>3, <1>4 DEF m
<1>6. LogStep(d) /\ DiskStep(d)
  BY <1>2, <1>5 DEF LogStep, DiskStep
<1>7. ASSUME NEW x \in Devices, x # d PROVE LogStep(x) /\ DiskStep(x)
  BY <1>5, <1>7 DEF LogStep, DiskStep
<1>8. /\ talk' \in [Links' -> Talk] /\ outbox' \in [Shares' -> Box] /\ inbox' \in [Shares' -> Box]
      /\ FilesInOrder' /\ Batches' = Batches
  BY <1>1, NobodyTalks
<1>9. Typed'
  BY <1>3, <1>5, <1>8 DEF Typed
<1>10. \A x \in Devices : LogStep(x) /\ DiskStep(x) /\ x \notin peers'[x]
  BY <1>1, <1>6, <1>7, LogsAre
<1> QED BY <1>1, <1>8, <1>9, <1>10 DEF Tended

LEMMA CarryingIsTended ==
  ASSUME SpreadInv, NEW l \in Shares, Carry(l)
  PROVE  Tended
<1>1. UNCHANGED <<reach, log, peers, disk, talk, outbox, events, lost>>
  BY DEF Carry, CarryHeads, CarrySegment, CarryDeletion
<1>2. /\ reach' \in Reaches /\ events' \in Nat /\ Links' = Links /\ Shares' = Shares
      /\ talk' \in [Links' -> Talk] /\ outbox \in [Shares -> Box] /\ inbox \in [Shares -> Box]
      /\ FilesInOrder
  BY <1>1 DEF SpreadInv, Typed, Links, Shares
<1>3. inbox[l] \in Box /\ outbox[l] \in Box /\ IsFiniteSet(inbox[l].segments)
      /\ \A s, t \in inbox[l].segments : s.no = t.no => s = t
  BY <1>2 DEF FilesInOrder
<1>4. \E b \in Box : /\ inbox' = [inbox EXCEPT ![l] = b]
                     /\ b.segments \subseteq outbox[l].segments \cup inbox[l].segments
                     /\ IsFiniteSet(b.segments) /\ \A s, t \in b.segments : s.no = t.no => s = t
  <2>1. CASE CarryHeads(l)
    <3> DEFINE b == [inbox[l] EXCEPT !.heads = outbox[l].heads]
    <3>1. inbox' = [inbox EXCEPT ![l] = b]
      BY <2>1 DEF CarryHeads
    <3>2. b \in Box /\ b.segments = inbox[l].segments
      BY <1>3 DEF Box
    <3> HIDE DEF b
    <3> QED BY <1>3, <3>1, <3>2
  <2>2. CASE CarrySegment(l)
    <3>1. PICK s \in outbox[l].segments :
            inbox' = [inbox EXCEPT ![l].segments = {t \in @ : t.no # s.no} \cup {s}]
      BY <2>2 DEF CarrySegment
    <3> DEFINE kept == {t \in inbox[l].segments : t.no # s.no}
               b == [inbox[l] EXCEPT !.segments = kept \cup {s}]
    <3>2. inbox' = [inbox EXCEPT ![l] = b]
      BY <3>1
    <3>3. b \in Box /\ b.segments = kept \cup {s}
      BY <1>3 DEF Box
    <3>4. IsFiniteSet(kept \cup {s})
      <4>1. IsFiniteSet(kept)
        BY <1>3, FS_Subset
      <4> QED BY <4>1, FS_AddElement
    <3>5. \A u, t \in kept \cup {s} : u.no = t.no => u = t
      BY <1>3
    <3> HIDE DEF b
    <3> QED BY <3>2, <3>3, <3>4, <3>5
  <2>3. CASE CarryDeletion(l)
    <3>1. PICK s \in inbox[l].segments : inbox' = [inbox EXCEPT ![l].segments = @ \ {s}]
      BY <2>3 DEF CarryDeletion
    <3> DEFINE b == [inbox[l] EXCEPT !.segments = inbox[l].segments \ {s}]
    <3>2. inbox' = [inbox EXCEPT ![l] = b]
      BY <3>1
    <3>3. b \in Box /\ b.segments = inbox[l].segments \ {s}
      BY <1>3 DEF Box
    <3>4. IsFiniteSet(inbox[l].segments \ {s})
      BY <1>3, FS_RemoveElement
    <3> HIDE DEF b
    <3> QED BY <1>3, <3>2, <3>3, <3>4
  <2> QED BY <2>1, <2>2, <2>3 DEF Carry
<1>5. PICK b \in Box : /\ inbox' = [inbox EXCEPT ![l] = b]
                       /\ b.segments \subseteq outbox[l].segments \cup inbox[l].segments
                       /\ IsFiniteSet(b.segments) /\ \A s, t \in b.segments : s.no = t.no => s = t
  BY <1>4
<1>6. inbox' \in [Shares -> Box] /\ inbox'[l] = b /\ \A k \in Shares : k # l => inbox'[k] = inbox[k]
  BY <1>2, <1>5
<1>7. FilesInOrder'
  BY <1>1, <1>2, <1>5, <1>6 DEF FilesInOrder
<1>8. Batches' \subseteq Batches
  <2>1. Spoken' = Spoken
    BY <1>1, <1>2 DEF Spoken
  <2>2. ASSUME NEW x \in Filed' PROVE x \in Filed
    <3>1. PICK k \in Shares : \E s \in outbox'[k].segments \cup inbox'[k].segments : x = s.entries
      BY <1>2 DEF Filed
    <3>2. \E s \in outbox[k].segments \cup inbox[k].segments : x = s.entries
      BY <1>1, <1>5, <1>6, <3>1
    <3> QED BY <3>2 DEF Filed
  <2> QED BY <2>1, <2>2 DEF Batches
<1>9. /\ log' \in [Devices -> Log] /\ disk' \in [Devices -> Log]
      /\ peers' \in [Devices -> SUBSET Devices]
      /\ \A d \in Devices : LogStep(d) /\ DiskStep(d) /\ d \notin peers'[d]
  BY <1>1, NobodyWrites
<1>10. Typed'
  BY <1>1, <1>2, <1>6, <1>9 DEF Typed
<1> QED BY <1>1, <1>7, <1>8, <1>9, <1>10 DEF Tended

LEMMA AnnouncedIs == ASSUME SpreadInv, NEW l PROVE Announced(l) \in Numbers
<1> DEFINE heads == {inbox[b].heads : b \in {b \in Shares : b = <<l[2], l[1]>>}} \ {None}
<1>1. heads \subseteq Numbers
  <2> SUFFICES ASSUME NEW b \in Shares, inbox[b].heads # None PROVE inbox[b].heads \in Numbers
    OBVIOUS
  <2> QED BY DEF SpreadInv, Typed, Box, Optional
<1>2. NoHeads \in Numbers
  BY DEF NoHeads, Numbers
<1>3. Announced(l) = IF heads = {} THEN NoHeads ELSE CHOOSE h \in heads : TRUE
  BY DEF Announced
<1> HIDE DEF heads
<1> QED BY <1>1, <1>2, <1>3

\* What a writer leaves are segments it left already and one cut from what it holds.
LEMMA PublishedIs ==
  ASSUME SpreadInv, NEW l \in Shares, NEW held \in Log, Whole(held)
  PROVE  /\ Published(l, held) \in Box /\ IsFiniteSet(Published(l, held).segments)
         /\ \A s \in Published(l, held).segments :
              s \in outbox[l].segments \/ \E h \in Numbers : s.entries = Since(held, h)
<1> DEFINE theirs == Announced(l)
           kept == {s \in outbox[l].segments : ~Covered(s.covers, theirs)}
           missing == Since(held, theirs)
           new == [no |-> NextNumber(kept), covers |-> Heads(held), entries |-> missing]
           segments == IF missing = {} \/ Cardinality(kept) >= KEEP_SEGMENTS THEN kept
                       ELSE kept \cup {new}
<1>1. Published(l, held) = [segments |-> segments, heads |-> Heads(held)]
  BY DEF Published
<1>2. theirs \in Numbers /\ Heads(held) \in Numbers
  BY AnnouncedIs, HeadsAreNumbers
<1>3. missing \in SUBSET Entry
  BY DEF Since, Log
<1>4. kept \subseteq outbox[l].segments /\ kept \subseteq Segment /\ IsFiniteSet(kept)
  <2>1. outbox[l] \in Box /\ IsFiniteSet(outbox[l].segments)
    BY DEF SpreadInv, Typed, FilesInOrder
  <2>2. kept \in SUBSET outbox[l].segments
    OBVIOUS
  <2>3. IsFiniteSet(kept)
    BY <2>1, <2>2, FS_Subset
  <2> QED BY <2>1, <2>3 DEF Box
<1> HIDE DEF theirs, missing, kept
<1>5. NextNumber(kept) \in Nat \ {0}
  <2> DEFINE nos == {s.no : s \in kept}
  <2>1. nos \subseteq Nat
    BY <1>4 DEF Segment
  <2>2. IsFiniteSet(nos)
    <3>1. [s \in kept |-> s.no] \in Surjection(kept, nos)
      BY DEF Surjection
    <3> QED BY <1>4, <3>1, FS_Surjection
  <2> HIDE DEF nos
  <2>3. IsFiniteSet(nos \cup {0}) /\ nos \cup {0} \in SUBSET Nat
    BY <2>1, <2>2, FS_AddElement
  <2>4. Max(nos \cup {0}) \in Nat
    BY <2>3, MaxOf
  <2> QED BY <2>4 DEF NextNumber, nos
<1>6. new \in Segment /\ new.entries = missing
  BY <1>2, <1>3, <1>5 DEF Segment
<1> HIDE DEF new
<1>7. segments \subseteq kept \cup {new} /\ IsFiniteSet(segments)
  BY <1>4, FS_AddElement
<1>8. segments \subseteq Segment
  BY <1>4, <1>6, <1>7
<1> HIDE DEF segments
<1>9. Published(l, held) \in Box /\ Published(l, held).segments = segments
  BY <1>1, <1>2, <1>8 DEF Box, Optional
<1>10. ASSUME NEW s \in segments
       PROVE  s \in outbox[l].segments \/ \E h \in Numbers : s.entries = Since(held, h)
  BY <1>2, <1>4, <1>6, <1>7 DEF missing
<1> QED BY <1>7, <1>9, <1>10

LEMMA FolderPassIsTended ==
  ASSUME SpreadInv, NEW d \in Devices, FolderPass(d)
  PROVE  Tended
<1> DEFINE held == Collected(d)
<1>1. /\ UNCHANGED <<reach, peers, talk, inbox, events, lost>>
      /\ log' = [log EXCEPT ![d] = held] /\ disk' = [disk EXCEPT ![d] = held]
      /\ outbox' = Boxes(d, held)
  BY DEF FolderPass
<1>2. /\ reach \in Reaches /\ events \in Nat /\ log \in [Devices -> Log] /\ disk \in [Devices -> Log]
      /\ peers \in [Devices -> SUBSET Devices] /\ talk \in [Links -> Talk]
      /\ outbox \in [Shares -> Box] /\ inbox \in [Shares -> Box] /\ FilesInOrder
      /\ \A b \in Batches : Unbroken(b)
  BY DEF SpreadInv, Typed
<1>3. Links' = Links /\ Shares' = Shares
  BY <1>1 DEF Links, Shares
<1>4. \A l \in Shares : \A s \in inbox[l].segments : s.entries \in Batches
  BY DEF Batches, Filed
<1>5. ASSUME NEW l \in Shares PROVE InOrder(inbox[l].segments)
  <2>1. inbox[l].segments \subseteq Segment
    BY <1>2 DEF Box
  <2> QED BY <1>2, <1>4, <2>1 DEF InOrder, FilesInOrder
<1>6. Grown(log[d], held, peers[d], UNION Batches)
  <2>1. Grown(log[d], held, peers[d], Left)
    BY <1>2, <1>5, LogsAre, CollectedGrows
  <2>2. Left \subseteq UNION Batches
    BY <1>4 DEF Left, Within
  <2> QED BY <2>1, <2>2 DEF Grown
<1> HIDE DEF held
<1>7. held \in Log /\ Whole(held)
  BY <1>6 DEF Grown
<1>8. /\ log' \in [Devices -> Log] /\ log'[d] = held /\ \A x \in Devices : x # d => log'[x] = log[x]
      /\ disk' \in [Devices -> Log] /\ disk'[d] = held /\ \A x \in Devices : x # d => disk'[x] = disk[x]
  BY <1>1, <1>2, <1>7
<1>9. LogStep(d) /\ DiskStep(d)
  BY <1>1, <1>6, <1>8 DEF LogStep, DiskStep
<1>10. ASSUME NEW x \in Devices, x # d PROVE LogStep(x) /\ DiskStep(x)
  BY <1>8, <1>10 DEF LogStep, DiskStep
<1>11. \A x \in Devices : LogStep(x) /\ DiskStep(x) /\ x \notin peers'[x]
  BY <1>1, <1>9, <1>10, LogsAre
<1>12. ASSUME NEW l \in Shares
       PROVE  /\ outbox'[l] \in Box /\ IsFiniteSet(outbox'[l].segments)
              /\ \A s \in outbox'[l].segments :
                   s \in outbox[l].segments \/ \E h \in Numbers : s.entries = Since(held, h)
  <2>1. outbox'[l] = IF l[1] = d /\ l[2] \in peers[d] THEN Published(l, held) ELSE outbox[l]
    BY <1>1 DEF Boxes
  <2>2. outbox[l] \in Box /\ IsFiniteSet(outbox[l].segments)
    BY <1>2 DEF FilesInOrder
  <2> QED BY <1>7, <2>1, <2>2, PublishedIs
<1>13. outbox' \in [Shares -> Box]
  <2>1. outbox' = [l \in Shares |-> outbox'[l]]
    BY <1>1 DEF Boxes
  <2> QED BY <1>12, <2>1
<1>14. FilesInOrder'
  BY <1>1, <1>2, <1>3, <1>12 DEF FilesInOrder
<1>15. ASSUME NEW b \in Batches'
       PROVE  b \in Batches \/ \E x \in Devices, h \in Numbers : b = Since(log'[x], h)
  <2>1. Spoken' = Spoken
    BY <1>1, <1>3 DEF Spoken
  <2>2. CASE b \in Spoken
    BY <2>2 DEF Batches
  <2>3. CASE b \in Filed'
    <3>1. PICK l \in Shares : \E s \in outbox'[l].segments \cup inbox'[l].segments : b = s.entries
      BY <1>3, <2>3 DEF Filed
    <3>2. PICK s \in outbox'[l].segments \cup inbox'[l].segments : b = s.entries
      BY <3>1
    <3>3. CASE s \in outbox[l].segments \cup inbox[l].segments
      BY <3>2, <3>3 DEF Batches, Filed
    <3>4. CASE \E h \in Numbers : s.entries = Since(held, h)
      BY <1>8, <3>2, <3>4
    <3> QED BY <1>1, <1>12, <3>2, <3>3, <3>4
  <2> QED BY <2>1, <2>2, <2>3 DEF Batches
<1>16. Typed'
  BY <1>1, <1>2, <1>3, <1>8, <1>13 DEF Typed
<1> QED BY <1>1, <1>11, <1>14, <1>15, <1>16 DEF Tended

LEMMA StandingStillIsTended == ASSUME SpreadInv, UNCHANGED vars PROVE Tended
<1>1. UNCHANGED <<reach, log, peers, disk, talk, outbox, inbox, events, lost>>
  BY DEF vars
<1>2. /\ talk' \in [Links' -> Talk] /\ outbox' \in [Shares' -> Box] /\ inbox' \in [Shares' -> Box]
      /\ FilesInOrder' /\ Batches' = Batches
  BY <1>1, NobodyTalks
<1>3. /\ log' \in [Devices -> Log] /\ disk' \in [Devices -> Log]
      /\ peers' \in [Devices -> SUBSET Devices]
      /\ \A d \in Devices : LogStep(d) /\ DiskStep(d) /\ d \notin peers'[d]
  BY <1>1, NobodyWrites
<1>4. Typed'
  BY <1>1, <1>2, <1>3 DEF Typed, SpreadInv
<1> QED BY <1>1, <1>2, <1>3, <1>4 DEF Tended

LEMMA EveryStepIsTended == SpreadInv /\ [Next]_vars => Tended
<1> SUFFICES ASSUME SpreadInv, [Next]_vars PROVE Tended
  OBVIOUS
<1>1. CASE UNCHANGED vars
  BY <1>1, StandingStillIsTended
<1>2. CASE \E d \in Devices : Record(d) \/ Save(d) \/ FolderPass(d) \/ Crash(d) \/ CompactLog(d)
  BY <1>2, RecordIsTended, SavingIsTended, FolderPassIsTended, CrashIsTended, CompactingIsTended
<1>3. CASE \E l \in Links : Converse(l) \/ Cut(l)
  BY <1>3, QuietTalkIsTended, ReceivingIsTended DEF Converse
<1>4. CASE \E l \in Shares : Carry(l)
  BY <1>4, CarryingIsTended
<1>5. CASE \E d, p \in Devices : Revoke(d, p) \/ Accept(d, p)
  BY <1>5, SavingIsTended
<1> QED BY <1>1, <1>2, <1>3, <1>4, <1>5 DEF Next

-----------------------------------------------------------------------------
\* The invariant itself: logs whole, disks behind them, batches unbroken, and truth while nothing is lost.
THEOREM SpreadHolds == Spec => []SpreadInv
<1>1. SpreadInv /\ [Next]_vars => SpreadInv'
  BY EveryStepIsTended, TendedKeeps
<1> QED BY InitSpread, <1>1, PTL DEF Spec

\* No log ever has a gap, and what any two devices hold of an author is one history: oplog.rs and lan.rs.
THEOREM HistoryIsOne == Spec => []OneHistory
BY SpreadHolds, SpreadIsOneHistory, PTL

LEMMA OnlyThoseHeard ==
  ASSUME SpreadInv, [Next]_vars, NEW d \in Devices, NEW e \in log'[d].entries \ log[d].entries
  PROVE  e.author = d \/ e.author \in peers[d] \cap peers'[d]
<1>1. log[d] \in Log /\ Whole(log[d]) /\ disk[d].entries \subseteq log[d].entries
  BY LogsAre
<1>2. CASE \E op \in Ops : log'[d] = Appended(log[d], d, op)
  <2>1. PICK op \in Ops : log'[d] = Appended(log[d], d, op)
    BY <1>2
  <2>2. e = EntryOf(d, Append(HeadOf(log[d], d), op))
    BY <1>1, <2>1, AppendedIsWhole
  <2> QED BY <2>2 DEF EntryOf
<1>3. CASE Grown(log[d], log'[d], peers[d], UNION Batches) /\ peers'[d] = peers[d]
  BY <1>3 DEF Grown
<1>4. CASE log'[d] = disk[d]
  BY <1>1, <1>4
<1>5. CASE \E old : ComesFirst(old, log[d]) /\ log'[d] = Compact(log[d], old)
  <2>1. log'[d].entries \subseteq log[d].entries
    BY <1>1, <1>5, CompactKeeps
  <2> QED BY <2>1
<1>6. CASE log'[d] = log[d]
  BY <1>6
<1>7. LogStep(d)
  BY EveryStepIsTended DEF Tended
<1> QED BY <1>2, <1>3, <1>4, <1>5, <1>6, <1>7 DEF LogStep

LEMMA ForgottenByKillsOnly ==
  ASSUME SpreadInv, [Next]_vars, NEW d \in Devices, NEW a \in Devices,
         Len(HeadOf(log'[d], a)) < Len(HeadOf(log[d], a))
  PROVE  log'[d] = disk[d]
<1>1. /\ log[d] \in Log /\ Whole(log[d]) /\ HeadOf(log[d], a) \in History /\ LogStep(d)
  BY LogsAre, EveryStepIsTended DEF Whole, Tended
<1>2. log'[d] \in Log /\ Whole(log'[d]) /\ HeadOf(log'[d], a) \in History
  BY <1>1, LogStaysWhole DEF Whole
<1>3. Len(HeadOf(log[d], a)) \in Nat /\ Len(HeadOf(log'[d], a)) \in Nat
  BY <1>1, <1>2, LenProperties DEF History
<1>4. ~ IsPrefix(HeadOf(log[d], a), HeadOf(log'[d], a))
  BY <1>1, <1>2, <1>3, PrefixIs
<1>5. CASE log'[d].base = log[d].base /\ log[d].entries \subseteq log'[d].entries
  BY <1>1, <1>2, <1>4, <1>5, HoldsMore
<1>6. CASE log'[d] = log[d]
  BY <1>3, <1>6
<1>7. CASE \E op \in Ops : log'[d] = Appended(log[d], d, op)
  <2>1. log'[d].base = log[d].base /\ log[d].entries \subseteq log'[d].entries
    BY <1>1, <1>7, AppendedIsWhole
  <2> QED BY <1>5, <2>1
<1>8. CASE Grown(log[d], log'[d], peers[d], UNION Batches)
  BY <1>5, <1>8 DEF Grown
<1>9. CASE \E old : ComesFirst(old, log[d]) /\ log'[d] = Compact(log[d], old)
  <2>1. HeadOf(log'[d], a) = HeadOf(log[d], a)
    BY <1>1, <1>9, CompactKeeps
  <2> QED BY <1>3, <2>1
<1> QED BY <1>1, <1>6, <1>7, <1>8, <1>9 DEF LogStep

\* Only what is written here or by a device listened to gets into a log: the look-up of node.rs.
THEOREM OnlyPeersAreHeard == Spec => RevokedUnheard
<1>1. SpreadInv /\ [Next]_vars =>
        [\A d \in Devices : \A e \in log'[d].entries \ log[d].entries :
           e.author = d \/ e.author \in peers[d] \cap peers'[d]]_vars
  BY OnlyThoseHeard
<1> QED BY <1>1, SpreadHolds, PTL DEF Spec, RevokedUnheard

\* What a device held of an author it still holds, unless it was killed before it was saved: store.rs.
THEOREM LittleIsForgotten == Spec => NothingUnlearned
<1>1. SpreadInv /\ [Next]_vars =>
        [\A d, a \in Devices :
           Len(HeadOf(log'[d], a)) < Len(HeadOf(log[d], a)) => log'[d] = disk[d]]_vars
  BY ForgottenByKillsOnly
<1> QED BY <1>1, SpreadHolds, PTL DEF Spec, NothingUnlearned
=============================================================================
