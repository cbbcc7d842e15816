-------------------------------- MODULE OpLog --------------------------------
(***************************************************************************)
(* The operation log of curfew-sync/src/oplog.rs and the two rules of      *)
(* wire.rs for exchanging it: each author's entries form a hash chain, a   *)
(* device says which numbers it holds, and the other sends what is above.  *)
(*                                                                         *)
(* A hash stands for what it was computed from.  So an entry carries, in   *)
(* place of the hash of the one before it, everything its author had       *)
(* written up to and with this entry: its number is the length of that,    *)
(* and its prev is what is left without the last.  A signature is what     *)
(* makes the author of an entry certain, and is not written down.          *)
(*                                                                         *)
(* A checkpoint is kept for the heads it carries, which is what chains are *)
(* checked against; the state folded into it belongs to Mirror.            *)
(***************************************************************************)
EXTENDS Integers, Sequences, SequencesExt, FiniteSets

CONSTANTS
  Devices,   \* DeviceId
  Ops        \* what an entry may say, its time included

History == Seq(Ops)

Entry == [author : Devices, history : History]

Number(e) == Len(e.history)

Log == [entries : SUBSET Entry, base : [Devices -> History]]

EmptyLog == [entries |-> {}, base |-> [d \in Devices |-> <<>>]]

By(log, author) == {e \in log.entries : e.author = author}

\* A mutant: only the entries are looked at.
HeadOf_NoCheckpoint(log, author) ==
  IF By(log, author) = {} THEN <<>>
  ELSE (CHOOSE e \in By(log, author) : \A f \in By(log, author) : Number(f) <= Number(e)).history

\* What the author had written by the last entry held, or by the checkpoint.
HeadOf(log, author) ==
  IF By(log, author) = {} THEN log.base[author]
  ELSE (CHOOSE e \in By(log, author) : \A f \in By(log, author) : Number(f) <= Number(e)).history

\* The number last held of each author: what a device greets another with.
Heads(log) == [a \in Devices |-> Len(HeadOf(log, a))]

NoHeads == [a \in Devices |-> 0]

EntryOf(author, history) == [author |-> author, history |-> history]

Appended(log, me, op) ==
  [log EXCEPT !.entries = @ \cup {EntryOf(me, Append(HeadOf(log, me), op))}]

\* A mutant: the first entry not yet acknowledged is left out.
Since_OffByOne(log, heads) == {e \in log.entries : Number(e) > heads[e.author] + 1}

\* Everything held that is above the heads another device announced.
Since(log, heads) == {e \in log.entries : Number(e) > heads[e.author]}

(***************************************************************************)
(* Taking in a batch: the code checks every signature against the devices  *)
(* listened to and then applies each author's entries once, by number.     *)
(* An entry gets in if the head held and the batch between them hold       *)
(* everything before it.  A batch is cut from one log, so it never has two *)
(* entries with one number.                                                *)
(***************************************************************************)
Follows(e, log, batch) ==
  LET head == HeadOf(log, e.author) IN
  /\ Number(e) > Len(head)
  /\ SubSeq(e.history, 1, Len(head)) = head
  /\ \A n \in Len(head) + 1 .. Number(e) : EntryOf(e.author, SubSeq(e.history, 1, n)) \in batch

\* A mutant: the author is not looked up.
Receive_AnyAuthor(log, listened, batch) ==
  [log EXCEPT !.entries = @ \cup {e \in batch : Follows(e, log, batch)}]

Receive(log, listened, batch) ==
  [log EXCEPT !.entries = @ \cup {e \in batch : e.author \in listened /\ Follows(e, log, batch)}]

\* Replace what was written up to there by its heads.
Compact(log, old) ==
  [entries |-> log.entries \ old,
   base |-> [a \in Devices |->
               LET gone == {e \in old : e.author = a} IN
               IF gone = {} THEN log.base[a]
               ELSE HeadOf([log EXCEPT !.entries = gone], a)]]

-----------------------------------------------------------------------------
\* The entries held of an author go on from the checkpoint without a gap and by one history.
Chained(log) ==
  \A a \in Devices :
    /\ \A e \in By(log, a) :
         /\ Number(e) > Len(log.base[a])
         /\ SubSeq(e.history, 1, Len(log.base[a])) = log.base[a]
         /\ \A n \in Len(log.base[a]) + 1 .. Number(e) :
              EntryOf(a, SubSeq(e.history, 1, n)) \in log.entries
    /\ \A e, f \in By(log, a) : Number(e) = Number(f) => e = f
=============================================================================
