------------------------------- MODULE Gossip -------------------------------
(***************************************************************************)
(* How the log spreads between devices: the conversation of lan.rs driven  *)
(* by node.rs, the shared folder of folder.rs, the peer list of pair.rs    *)
(* and the files of store.rs that a killed process comes back from.        *)
(*                                                                         *)
(* A conversation is four frames, and neither side holds a lock while it   *)
(* waits for one: logs and peer lists change between any two steps, and a  *)
(* device may be in several conversations at once.  The folder belongs to  *)
(* a third party, whose client carries one file at a time from the device  *)
(* that wrote it to the one it is meant for, whenever it likes.            *)
(***************************************************************************)
EXTENDS OpLog, FiniteSetsExt

CONSTANTS
  None,
  Reaches,             \* how devices may be in reach of each other, and the bounds
  MAX_CONVERSATIONS,   \* inbound conversations a device holds at once
  KEEP_SEGMENTS        \* segments one writer keeps for one reader

Pairs == {p \in Devices \X Devices : p[1] # p[2]}

ASSUME GossipAssumption ==
  /\ Devices \subseteq Nat /\ IsFiniteSet(Devices)
  /\ \A r \in Reaches :
       /\ r.links \cup r.shares \subseteq Pairs
       /\ r.writes \in [Devices -> Nat] /\ r.events \in Nat /\ 0 .. r.events \subseteq Ops

VARIABLES
  reach,     \* [links, shares, writes, events], as it is throughout
  log,       \* log[d]: what d holds
  peers,     \* peers[d]: whom d listens to
  disk,      \* disk[d]: log.json as it was last written; peers.json is written at once
  talk,      \* talk[l]: the conversation on a link
  outbox,    \* outbox[l]: the files the writer has for the reader
  inbox,     \* inbox[l]: those the folder's client has carried over
  events,    \* how many of those there have been
  lost       \* history: entries their own author no longer has, or nobody can be sent

vars == <<reach, log, peers, disk, talk, outbox, inbox, events, lost>>
files == <<outbox, inbox>>

Links == reach.links    \* <<from, to>>: from hears the beacons of to and dials it
Shares == reach.shares  \* <<from, to>>: from leaves files for to in the shared folder
Writes == reach.writes  \* bound: how many entries each device writes
MaxEvents == reach.events \* bound: entries written, cuts, kills, compactions, changes of a peer list

Optional(S) == {None} \cup S
Numbers == [Devices -> Nat]

\* dialler: how far the side that called has come; server: the side that answered.
Talk == [dialler : {"idle", "greeted", "received", "done"},
         server : {"idle", "answered", "asked"},
         hello : Optional(Numbers), answer : Optional(SUBSET Entry),
         ask : Optional(Numbers), reply : Optional(SUBSET Entry)]

Silence == [dialler |-> "idle", server |-> "idle",
            hello |-> None, answer |-> None, ask |-> None, reply |-> None]

Segment == [no : Nat \ {0}, covers : Numbers, entries : SUBSET Entry]
Box == [segments : SUBSET Segment, heads : Optional(Numbers)]
NoFiles == [segments |-> {}, heads |-> None]

Init ==
  /\ reach \in Reaches
  /\ log = [d \in Devices |-> EmptyLog] /\ disk = log
  /\ peers = [d \in Devices |-> Devices \ {d}]
  /\ talk = [l \in Links |-> Silence]
  /\ outbox = [l \in Shares |-> NoFiles] /\ inbox = outbox
  /\ events = 0 /\ lost = {}

\* Signatures are checked against the peers; a device's own entries are not news to it.
Takes(d, batch) == Receive(log[d], peers[d], batch)

-----------------------------------------------------------------------------
Event == events < MaxEvents /\ events' = events + 1

\* Something happened on a device and is written down: Shared::record.  No two events are alike.
Record(d) ==
  /\ Len(HeadOf(log[d], d)) < Writes[d]
  /\ Event
  /\ log' = [log EXCEPT ![d] = Appended(@, d, events)]
  /\ UNCHANGED <<reach, peers, disk, talk, files, lost>>

\* The loop saves the log once it has pushed what it published; what it heard waits for that.
Save(d) ==
  /\ By(disk[d], d) # By(log[d], d)
  /\ disk' = [disk EXCEPT ![d] = log[d]]
  /\ UNCHANGED <<reach, log, peers, talk, files, events, lost>>

-----------------------------------------------------------------------------
(***************************************************************************)
(* A conversation.  Each step is what one side does between two waits.     *)
(* One that is begun with nothing to carry is left out.                    *)
(***************************************************************************)
Dial(l) ==
  /\ talk[l] = Silence
  /\ l[2] \in peers[l[1]]
  /\ Heads(log[l[1]]) # Heads(log[l[2]])
  /\ talk' = [talk EXCEPT ![l].dialler = "greeted", ![l].hello = Heads(log[l[1]])]
  /\ UNCHANGED <<reach, log, peers, disk, files, events, lost>>

Inbound(d) == {l \in Links : l[2] = d /\ talk[l].server # "idle"}

ServeAnswer(l) ==
  /\ talk[l].hello # None
  /\ l[1] \in peers[l[2]]
  /\ Cardinality(Inbound(l[2])) < MAX_CONVERSATIONS
  /\ talk' = [talk EXCEPT ![l].server = "answered", ![l].hello = None,
                          ![l].answer = Since(log[l[2]], talk[l].hello)]
  /\ UNCHANGED <<reach, log, peers, disk, files, events, lost>>

ServeAsk(l) ==
  /\ talk[l].server = "answered"
  /\ talk' = [talk EXCEPT ![l].server = "asked", ![l].ask = Heads(log[l[2]])]
  /\ UNCHANGED <<reach, log, peers, disk, files, events, lost>>

DialReceive(l) ==
  /\ talk[l].answer # None
  /\ l[2] \in peers[l[1]]
  /\ log' = [log EXCEPT ![l[1]] = Takes(l[1], talk[l].answer)]
  /\ talk' = [talk EXCEPT ![l].dialler = "received", ![l].answer = None]
  /\ UNCHANGED <<reach, peers, disk, files, events, lost>>

DialReply(l) ==
  /\ talk[l].dialler = "received" /\ talk[l].ask # None
  /\ l[2] \in peers[l[1]]
  /\ talk' = [talk EXCEPT ![l].dialler = "done", ![l].ask = None,
                          ![l].reply = Since(log[l[1]], talk[l].ask)]
  /\ UNCHANGED <<reach, log, peers, disk, files, events, lost>>

ServeReceive(l) ==
  /\ talk[l].reply # None
  /\ l[1] \in peers[l[2]]
  /\ log' = [log EXCEPT ![l[2]] = Takes(l[2], talk[l].reply)]
  /\ talk' = [talk EXCEPT ![l] = Silence]
  /\ UNCHANGED <<reach, peers, disk, files, events, lost>>

\* Whoever is no longer listened to, or finds every place taken, is not answered.
Refused(l) ==
  /\ talk[l] # Silence
  /\ \/ l[1] \notin peers[l[2]]
     \/ l[2] \notin peers[l[1]]
     \/ talk[l].hello # None /\ Cardinality(Inbound(l[2])) >= MAX_CONVERSATIONS
  /\ talk' = [talk EXCEPT ![l] = Silence]
  /\ UNCHANGED <<reach, log, peers, disk, files, events, lost>>

Converse(l) ==
  Dial(l) \/ ServeAnswer(l) \/ ServeAsk(l) \/ DialReceive(l) \/ DialReply(l) \/ ServeReceive(l)
    \/ Refused(l)

-----------------------------------------------------------------------------
(***************************************************************************)
(* The shared folder.  A pass holds both locks throughout: it takes in     *)
(* what every peer has left, then leaves each peer what it is missing by   *)
(* the heads that peer announced last, then saves.                         *)
(***************************************************************************)
From(d) == {l \in Shares : l[1] = d}
To(d) == {l \in Shares : l[2] = d}

\* Segments are read in the order of their numbers, each into what the one before left.
ReadAll(d, segments, held) ==
  LET got[n \in Nat] ==
        IF n = 0 THEN held
        ELSE Receive(got[n - 1], peers[d], UNION {s.entries : s \in {t \in segments : t.no = n}})
  IN  got[Max({0} \cup {s.no : s \in segments})]

\* What is held once the peers numbered below n have been read, one after the other.
Collected(d) ==
  LET senders == {l \in To(d) : l[1] \in peers[d]}
      got[n \in Nat] ==
        IF n = 0 THEN log[d]
        ELSE ReadAll(d, UNION {inbox[l].segments : l \in {m \in senders : m[1] = n - 1}}, got[n - 1])
  IN  got[Max({0} \cup {l[1] + 1 : l \in senders})]

Announced(l) ==
  LET heads == {inbox[b].heads : b \in {b \in Shares : b = <<l[2], l[1]>>}} \ {None}
  IN  IF heads = {} THEN NoHeads ELSE CHOOSE h \in heads : TRUE

Covered(covers, heads) == \A a \in Devices : covers[a] <= heads[a]

NextNumber(segments) == Max({s.no : s \in segments} \cup {0}) + 1

\* What a writer leaves for one reader, holding that log.
Published(l, held) ==
  LET theirs == Announced(l)
      kept == {s \in outbox[l].segments : ~Covered(s.covers, theirs)}
      missing == Since(held, theirs)
  IN  [segments |-> IF missing = {} \/ Cardinality(kept) >= KEEP_SEGMENTS THEN kept
                    ELSE kept \cup {[no |-> NextNumber(kept), covers |-> Heads(held), entries |-> missing]},
       heads |-> Heads(held)]

Boxes(d, held) ==
  [l \in Shares |-> IF l[1] = d /\ l[2] \in peers[d] THEN Published(l, held) ELSE outbox[l]]

FolderPass(d) ==
  /\ UNCHANGED <<reach, peers, talk, inbox, events, lost>>
  /\ From(d) \cup To(d) # {}
  /\ \E held \in {Collected(d)} :
       /\ log' = [log EXCEPT ![d] = held]
       /\ disk' = [disk EXCEPT ![d] = held]
       /\ outbox' = Boxes(d, held)

\* The client of the folder carries one file over, or a deletion, in any order.
CarryHeads(l) ==
  /\ UNCHANGED <<reach, log, peers, disk, talk, outbox, events, lost>>
  /\ inbox[l].heads # outbox[l].heads
  /\ inbox' = [inbox EXCEPT ![l].heads = outbox[l].heads]

CarrySegment(l) ==
  /\ UNCHANGED <<reach, log, peers, disk, talk, outbox, events, lost>>
  /\ \E s \in outbox[l].segments \ inbox[l].segments :
       inbox' = [inbox EXCEPT ![l].segments = {t \in @ : t.no # s.no} \cup {s}]

CarryDeletion(l) ==
  /\ UNCHANGED <<reach, log, peers, disk, talk, outbox, events, lost>>
  /\ \E s \in inbox[l].segments :
       /\ s.no \notin {t.no : t \in outbox[l].segments}
       /\ inbox' = [inbox EXCEPT ![l].segments = @ \ {s}]

Carry(l) == CarryHeads(l) \/ CarrySegment(l) \/ CarryDeletion(l)

-----------------------------------------------------------------------------
\* A timeout or a dropped connection: both sides give up, keeping what they took in.
Cut(l) ==
  /\ talk[l] # Silence
  /\ Event
  /\ talk' = [talk EXCEPT ![l] = Silence]
  /\ UNCHANGED <<reach, log, peers, disk, files, lost>>

\* The process is killed and opens its files again: what it wrote since the save is gone.
Crash(d) ==
  /\ Event
  /\ log' = [log EXCEPT ![d] = disk[d]]
  /\ lost' = lost \cup {e \in log[d].entries \ disk[d].entries :
                        e.author = d \/ \E p \in Devices : Number(e) <= Len(log[p].base[e.author])}
  /\ talk' = [l \in Links |-> IF d \in {l[1], l[2]} THEN Silence ELSE talk[l]]
  /\ UNCHANGED <<reach, peers, disk, files>>

\* Entries written before some instant are folded into the checkpoint, and the log is saved.
CompactLog(d) ==
  \E old \in SUBSET log[d].entries :
    /\ old # {}
    /\ \A e \in old, f \in log[d].entries : f.author = e.author /\ Number(f) < Number(e) => f \in old
    /\ Event
    /\ log' = [log EXCEPT ![d] = Compact(@, old)]
    /\ disk' = [disk EXCEPT ![d] = log'[d]]
    /\ lost' = lost \cup {e \in old : \E p \in Devices : Len(HeadOf(log[p], e.author)) < Number(e)}
    /\ UNCHANGED <<reach, peers, talk, files>>

\* A device is removed here, which is a decision of this device alone; peers and log are saved.
Revoke(d, p) ==
  /\ p \in peers[d]
  /\ Event
  /\ peers' = [peers EXCEPT ![d] = @ \ {p}]
  /\ disk' = [disk EXCEPT ![d] = log[d]]
  /\ UNCHANGED <<reach, log, talk, files, lost>>

\* It is paired again, by a new invite.
Accept(d, p) ==
  /\ p \notin peers[d] /\ p # d
  /\ Event
  /\ peers' = [peers EXCEPT ![d] = @ \cup {p}]
  /\ disk' = [disk EXCEPT ![d] = log[d]]
  /\ UNCHANGED <<reach, log, talk, files, lost>>

Next ==
  \/ \E d \in Devices : Record(d) \/ Save(d) \/ FolderPass(d) \/ Crash(d) \/ CompactLog(d)
  \/ \E l \in Links : Converse(l) \/ Cut(l)
  \/ \E l \in Shares : Carry(l)
  \/ \E d, p \in Devices : Revoke(d, p) \/ Accept(d, p)

Spec == Init /\ [][Next]_vars

(***************************************************************************)
(* Beacons and the loop come round for ever, every connection makes its    *)
(* next step or runs into its timeout, passes over the folder are repeated *)
(* and its client goes on carrying files.                                  *)
(***************************************************************************)
Fairness ==
  /\ \A l \in Pairs : WF_vars(l \in Links /\ Converse(l)) /\ WF_vars(l \in Shares /\ Carry(l))
  /\ \A d \in Devices : WF_vars(FolderPass(d))

FairSpec == Spec /\ Fairness

-----------------------------------------------------------------------------
(***************************************************************************)
(* Whatever is cut, killed, compacted or copied twice, no log ever has a   *)
(* gap; and as long as no entry was lost with its author, what any two     *)
(* devices hold of it is one history.                                      *)
(***************************************************************************)
OneHistory ==
  /\ \A d \in Devices : Chained(log[d])
  /\ lost = {} =>
       \A a, d, e \in Devices :
         LET mine == HeadOf(log[d], a)  theirs == HeadOf(log[e], a)
         IN  Len(mine) <= Len(theirs) => SubSeq(theirs, 1, Len(mine)) = mine

\* Nothing a device does not listen to gets in, through whomever it comes and whenever it was sent.
RevokedUnheard ==
  [][\A d \in Devices : \A e \in log'[d].entries \ log[d].entries :
       e.author = d \/ e.author \in peers[d] \cap peers'[d]]_vars

\* A log forgets nothing but by a kill.
NothingUnlearned ==
  [][\A d, a \in Devices :
       Len(HeadOf(log'[d], a)) < Len(HeadOf(log[d], a)) => log'[d] = disk[d]]_vars

AllListen == \A d \in Devices : peers[d] = Devices \ {d}
BothWays == Links \cup {l \in Shares : <<l[2], l[1]>> \in Shares}
Agreed == \A l \in BothWays : Heads(log[l[1]]) = Heads(log[l[2]])

\* Devices that listen to each other come to hold the same, over the network and the folder.
Together == <>[](lost = {} /\ AllListen => Agreed)

=============================================================================
