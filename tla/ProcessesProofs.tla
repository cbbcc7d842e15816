--------------------------- MODULE ProcessesProofs ---------------------------
(***************************************************************************)
(* What the parts around the enforcer keep, for any number of programs,    *)
(* devices, failures and changes.                                          *)
(***************************************************************************)
EXTENDS Processes, FiniteSetTheorems, TLAPS

-----------------------------------------------------------------------------
(***************************************************************************)
(* The files.  Until somebody else touches one, the main file holds what   *)
(* was last saved, and where there is none there is no backup either.  A   *)
(* running session that has been saved since the start is in the main file *)
(* and has its witness; once the next save is past its copy it is in the   *)
(* backup too, or the backup is torn.                                      *)
(***************************************************************************)
FileTypes ==
  /\ files \in [{"main", "bak", "tmp"} -> Content]
  /\ witness \in BOOLEAN /\ up \in BOOLEAN /\ touched \in BOOLEAN
  /\ memory \in State /\ snapshot \in State
  /\ step \in {"idle", "backup", "copying", "write", "writing", "rename"}
  /\ saved \in State \cup {Absent}
  /\ streak \in 0..2

Holds(f) == Whole(f) => files[f].running

FileInv ==
  /\ FileTypes
  /\ step # "idle" => up /\ witness = snapshot.running
  /\ step = "rename" => files["tmp"] = snapshot
  /\ ~touched => files["main"] = saved /\ (saved = Absent => files["bak"] = Absent)
  /\ streak > 0 => /\ witness
                   /\ Holds("main") /\ (up => Whole("main"))
                   /\ step # "idle" => snapshot.running
                   /\ step \in {"write", "writing", "rename"} => Holds("bak")
  /\ streak = 2 => Holds("bak")

-----------------------------------------------------------------------------
(***************************************************************************)
(* The channel.  The service counts the connections it serves and the      *)
(* window its calls under way; whoever is served is waiting.               *)
(***************************************************************************)
Clients == Askers \cup Idlers
Served == Channel!Served
UnderWay == Channel!UnderWay

CallStates == {"idle", "refused", "asking", "waiting", "answered", "closed"}
TalkStates == {"none", "reading", "locking", "handling", "writing"}

ChannelInv ==
  /\ call \in [Clients -> CallStates] /\ talk \in [Clients -> TalkStates]
  /\ live = Cardinality(Served) /\ in_flight = Cardinality(UnderWay)
  /\ \A c \in Clients : talk[c] # "none" => call[c] = "waiting"

-----------------------------------------------------------------------------
(***************************************************************************)
(* The devices.  Whoever holds keys is the device they are of; a phrase    *)
(* covers the keys it was shown under and those of the invite; a beacon in *)
(* the air is its sender's, and no newer than its sender's clock; and      *)
(* whoever is listed was heard soon after a beacon that was sent.          *)
(***************************************************************************)
Here == scene.devices

Is(d, id) == id \in {d} \X Nat

Holder(d, h) == h # None => Is(d, h.id) /\ h = [id |-> h.id, peers |-> h.peers]

KeysInv ==
  /\ scene \in Meetings /\ time \in Nat
  /\ DOMAIN handle = Here /\ DOMAIN opened = Here /\ DOMAIN shown = Here
  /\ DOMAIN made = Here /\ DOMAIN file = Here /\ DOMAIN air = Here /\ DOMAIN nearby = Here
  /\ made \in [Here -> Nat]
  /\ \A d \in Here : file[d] = [key |-> file[d].key, peers |-> file[d].peers]
  /\ \A d \in Here : Holder(d, handle[d]) /\ Holder(d, opened[d])

\* Whoever listens has keys, and is not about to be given others.
NodeInv ==
  /\ node \in [Here -> BOOLEAN]
  /\ \A d \in Here :
       /\ node[d] => Is(d, handle[d].id) /\ opened[d] = None
       /\ d \in scene.phones => opened[d] = None

PhraseInv ==
  \A d \in Here : shown[d] # None =>
    /\ Is(d, shown[d].by)
    /\ shown[d].phrase = Devices!Phrase(shown[d].by, shown[d].invite.from, shown[d].invite.nonce)

AirInv ==
  \A d \in Here : air[d] # None => /\ Is(d, air[d].from) /\ air[d].at \in Int
                                   /\ air[d].at <= time + scene.skew[d]

NearInv ==
  \A d \in Here : \A id \in DOMAIN nearby[d] :
    \E e \in Here : /\ Is(e, id) /\ air[e].at \in Int /\ air[e].at <= time + scene.skew[e]
                  /\ nearby[d][id] \in Int /\ nearby[d][id] - air[e].at <= BEACON_GRACE_SECONDS

DevicesInv == KeysInv /\ NodeInv /\ PhraseInv /\ AirInv /\ NearInv /\ ComparedIsHeld

-----------------------------------------------------------------------------
(***************************************************************************)
(* The icon.  What was explained is remembered as closed, the watch knows  *)
(* when a notice about a block was last shown, and where notices are       *)
(* watched for nothing is clicked.  A session is its name and its lock.    *)
(***************************************************************************)
IconInv ==
  /\ seen = [closed |-> seen.closed, announced |-> seen.announced, waiting |-> seen.waiting,
             started |-> seen.started, last |-> seen.last]
  /\ said = [explained |-> said.explained, over |-> said.over, last |-> said.last]
  /\ said.explained \subseteq seen.closed /\ said.last = seen.last
  /\ view.about = "notices" => menu = {}
  /\ \A s \in sessions : s = [id |-> s.id, lock |-> s.lock]

-----------------------------------------------------------------------------
LEMMA Contents ==
  /\ Absent \notin State /\ Torn \notin State /\ Absent # Torn /\ Default \in State
  /\ Default.running = FALSE /\ Damageable \subseteq {"main", "bak"}
BY StateFileAssumption DEF State, Default

LEMMA InitFileInv == Init => FileInv
<1> SUFFICES ASSUME Init PROVE FileInv
  OBVIOUS
<1>1. files \in [{"main", "bak", "tmp"} -> Content] /\ ~Whole("main")
  BY Contents DEF Init, Content, Whole
<1>2. /\ witness = FALSE /\ up = FALSE /\ touched = FALSE /\ memory = Default /\ snapshot = Default
      /\ step = "idle" /\ saved = Absent /\ streak = 0
      /\ files["main"] = Absent /\ files["bak"] = Absent
  BY DEF Init
<1>3. witness \in BOOLEAN /\ up \in BOOLEAN /\ touched \in BOOLEAN
  BY Zenon DEF Init
<1>4. FileTypes
  BY <1>1, <1>2, <1>3, Contents DEF FileTypes
<1> QED BY <1>2, <1>4 DEF FileInv

\* What a load gives.
LEMMA LoadGives ==
  ASSUME FileInv
  PROVE  /\ Whole("main") => Load = Loaded("Ok", files["main"])
         /\ ~Whole("main") =>
              \/ Load = Loaded("Fresh", Default) /\ ~witness /\ files["bak"] = Absent
              \/ Load = Loaded("Recovered", files["bak"]) /\ Whole("bak")
              \/ Load = Loaded("Lost", Default) /\ ~Whole("bak")
BY Contents DEF Load, Recover, Whole

LEMMA NextFileInv == FileInv /\ [Next]_vars => FileInv'
<1> SUFFICES ASSUME FileInv, [Next]_vars PROVE FileInv'
  OBVIOUS
<1>0. FileTypes
  BY DEF FileInv
<1>1. CASE Begin
  <2>1. Load.state \in State /\ Load.kind \in {"Ok", "Recovered", "Fresh", "Lost"}
    BY LoadGives, Contents DEF Loaded, Whole
  <2>2. ~touched => (IF Load.kind \in {"Ok", "Recovered"} THEN Load.state ELSE Absent) = files["main"]
    BY <1>0, LoadGives, Contents DEF Loaded, Whole, FileInv, FileTypes
  <2>3. /\ UNCHANGED <<files, witness, step, snapshot, touched>> /\ streak' = 0 /\ up' = TRUE
        /\ memory' \in State /\ saved' \in State \cup {Absent} /\ step = "idle"
    BY <1>1, <2>1, Contents DEF Begin, FileInv
  <2>4. ~touched => files["main"] = saved'
    BY <1>1, <2>2 DEF Begin
  <2>5. FileTypes'
    BY <1>0, <2>3 DEF FileTypes
  <2> QED BY <2>3, <2>4, <2>5 DEF FileInv
<1>2. ASSUME NEW r \in BOOLEAN, Change(r) PROVE FileInv'
  <2>1. memory' \in State
    BY <1>0, <1>2 DEF Change, State, FileTypes
  <2>2. UNCHANGED <<files, witness, up, step, snapshot, saved, streak, touched>>
    BY <1>2 DEF Change
  <2> QED BY <2>1, <2>2 DEF FileInv, FileTypes, Holds, Whole
<1>3. CASE SaveWitness
  <2>1. memory.running \in BOOLEAN
    BY <1>0 DEF FileTypes, State
  <2>2. FileTypes'
    BY <1>0, <1>3, <2>1 DEF SaveWitness, FileTypes
  <2> QED BY <1>0, <1>3, <2>1, <2>2 DEF SaveWitness, FileInv, Holds, Whole, FileTypes
<1>4. CASE SaveBackup
  <2>1. /\ UNCHANGED <<witness, up, memory, snapshot, saved, streak, touched>> /\ up
        /\ step \in {"backup", "copying"} /\ step' \in {"copying", "write"}
    BY <1>4 DEF SaveBackup
  <2>2. files' \in [{"main", "bak", "tmp"} -> Content]
    BY <1>0, <1>4 DEF SaveBackup, FileTypes, Content
  <2>3. files'["main"] = files["main"]
    BY <1>0, <1>4 DEF SaveBackup, FileTypes
  <2>4. files'["bak"] = files["bak"] \/ files'["bak"] = files["main"] \/ ~Whole("bak")'
    BY <1>0, <1>4, Contents DEF SaveBackup, FileTypes, Whole
  <2>5. files["main"] = Absent => files'["bak"] = files["bak"] \/ files'["bak"] = Absent
    BY <1>0, <1>4 DEF SaveBackup, FileTypes
  <2>6. step' = "write" => files'["bak"] = files["main"] \/ files["main"] = Absent
    BY <1>0, <1>4 DEF SaveBackup, FileTypes
  <2>7. FileTypes'
    BY <1>0, <2>1, <2>2 DEF FileTypes
  <2>8. ~touched => files'["main"] = saved /\ (saved = Absent => files'["bak"] = Absent)
    BY <2>3, <2>5 DEF FileInv
  <2>9. ASSUME streak > 0
        PROVE  Whole("main")' /\ Holds("main")' /\ (step' = "write" => Holds("bak")')
    BY <2>1, <2>3, <2>6, <2>9, Contents DEF FileInv, Holds, Whole
  <2>10. streak = 2 => Holds("bak")'
    BY <2>3, <2>4 DEF FileInv, Holds, Whole
  <2> QED BY <2>1, <2>7, <2>8, <2>9, <2>10 DEF FileInv
<1>5. CASE SaveWrite
  <2>1. /\ UNCHANGED <<witness, up, memory, snapshot, saved, streak, touched>> /\ up
        /\ step \in {"write", "writing"} /\ step' \in {"writing", "rename"}
    BY <1>5 DEF SaveWrite
  <2>2. /\ files' \in [{"main", "bak", "tmp"} -> Content]
        /\ files'["main"] = files["main"] /\ files'["bak"] = files["bak"]
        /\ step' = "rename" => files'["tmp"] = snapshot
    BY <1>0, <1>5 DEF SaveWrite, FileTypes, Content
  <2>3. FileTypes'
    BY <1>0, <2>1, <2>2 DEF FileTypes
  <2> QED BY <2>1, <2>2, <2>3 DEF FileInv, Holds, Whole
<1>6. CASE SaveRename
  <2>1. /\ UNCHANGED <<witness, up, memory, snapshot, touched>> /\ up /\ step = "rename"
        /\ step' = "idle" /\ saved' = snapshot /\ snapshot \in State /\ files["tmp"] = snapshot
    BY <1>0, <1>6 DEF SaveRename, FileInv, FileTypes
  <2>2. /\ files' \in [{"main", "bak", "tmp"} -> Content]
        /\ files'["main"] = snapshot /\ files'["bak"] = files["bak"]
    BY <1>0, <1>6, <2>1 DEF SaveRename, FileTypes, Content
  <2>3. streak' = (IF snapshot.running /\ streak < 2 THEN streak + 1 ELSE streak) /\ streak \in 0..2
    BY <1>0, <1>6 DEF SaveRename, FileTypes
  <2>4. streak' \in 0..2 /\ (streak' > 0 => snapshot.running) /\ (streak' = 2 => streak > 0)
    BY <2>1, <2>3 DEF FileInv
  <2>5. FileTypes'
    BY <1>0, <2>1, <2>2, <2>4 DEF FileTypes
  <2>6. streak' > 0 => witness
    BY <2>1, <2>4 DEF FileInv
  <2>7. streak' = 2 => Holds("bak")'
    BY <2>1, <2>2, <2>4 DEF FileInv, Holds, Whole
  <2>8. Whole("main")' /\ (streak' > 0 => Holds("main")') /\ snapshot # Absent
    BY <2>1, <2>2, <2>4, Contents DEF Holds, Whole
  <2> QED BY <2>1, <2>2, <2>5, <2>6, <2>7, <2>8 DEF FileInv
<1>7. CASE SaveFails
  <2>1. UNCHANGED <<files, witness, up, memory, snapshot, saved, streak, touched>> /\ step' = "idle"
    BY <1>7 DEF SaveFails
  <2>2. FileTypes'
    BY <1>0, <2>1 DEF FileTypes
  <2> QED BY <2>1, <2>2 DEF FileInv, Holds, Whole
<1>8. CASE Crash
  <2>1. /\ UNCHANGED <<files, witness, saved, streak, touched>> /\ step' = "idle" /\ up' = FALSE
        /\ memory' = Default /\ snapshot' = Default
    BY <1>8 DEF Crash
  <2>2. FileTypes'
    BY <1>0, <2>1, Contents DEF FileTypes
  <2> QED BY <2>1, <2>2 DEF FileInv, Holds, Whole
<1>9. ASSUME /\ ~up /\ touched' = TRUE /\ UNCHANGED <<witness, up, memory, step, snapshot, saved, streak>>
             /\ files' \in [{"main", "bak", "tmp"} -> Content]
             /\ \A f \in {"main", "bak", "tmp"} : files'[f] = files[f] \/ files'[f] \notin State
      PROVE  FileInv'
  <2>1. step = "idle"
    BY <1>9 DEF FileInv
  <2>2. FileTypes'
    BY <1>0, <1>9 DEF FileTypes
  <2>3. (Holds("main") => Holds("main")') /\ (Holds("bak") => Holds("bak")')
    BY <1>9 DEF Holds, Whole
  <2> QED BY <1>9, <2>1, <2>2, <2>3 DEF FileInv
<1>10. ASSUME NEW f \in Damageable, Damage(f) PROVE FileInv'
  BY <1>0, <1>9, <1>10, Contents DEF Damage, FileTypes, Content
<1>11. ASSUME NEW gone \in Deletable, Delete(gone) PROVE FileInv'
  BY <1>0, <1>9, <1>11, Contents DEF Delete, FileTypes, Content
<1>12. CASE UNCHANGED vars
  BY <1>12 DEF vars, FileInv, FileTypes, Holds, Whole
<1> QED BY <1>1, <1>2, <1>3, <1>4, <1>5, <1>6, <1>7, <1>8, <1>10, <1>11, <1>12 DEF Next

LEMMA FileInvSurvives == FileInv => StateSurvives
<1> SUFFICES ASSUME FileInv PROVE LoadIsLastSaved /\ WatchdogStays
  BY DEF StateSurvives
<1>1. LoadIsLastSaved
  BY LoadGives, Contents DEF LoadIsLastSaved, FileInv, FileTypes, Loaded, Whole
<1>2. WatchdogStays
  <2> SUFFICES ASSUME streak = 2, Load.kind # "Lost" PROVE Load.state.running
    BY DEF WatchdogStays, LocksRunning
  <2>1. witness /\ Holds("main") /\ Holds("bak")
    BY DEF FileInv
  <2>2. \/ Whole("main") /\ Load = Loaded("Ok", files["main"])
        \/ Whole("bak") /\ Load = Loaded("Recovered", files["bak"])
    BY <2>1, LoadGives DEF Loaded
  <2>3. \/ Whole("main") /\ Load.state = files["main"]
        \/ Whole("bak") /\ Load.state = files["bak"]
    BY <2>2 DEF Loaded
  <2> QED BY <2>1, <2>3 DEF Holds
<1> QED BY <1>1, <1>2

-----------------------------------------------------------------------------
\* A finite set with one more and with one less.
LEMMA OneMoreOneLess ==
  ASSUME NEW C, IsFiniteSet(C), NEW S \in SUBSET C, NEW c
  PROVE  /\ Cardinality(S) \in Nat
         /\ c \notin S => Cardinality(S \cup {c}) = Cardinality(S) + 1
         /\ c \in S => Cardinality(S \ {c}) = Cardinality(S) - 1
BY FS_Subset, FS_CardinalityType, FS_AddElement, FS_RemoveElement

LEMMA SetsOfClients ==
  /\ IsFiniteSet(Clients) /\ Channel!Clients = Clients
  /\ Served = {c \in Clients : talk[c] # "none"}
  /\ UnderWay = {c \in Pages : call[c] \notin {"idle", "refused"}}
  /\ Served \in SUBSET Clients /\ UnderWay \in SUBSET Clients /\ Pages \subseteq Clients
BY ProcessesAssumption
   DEF Clients, Served, UnderWay, Channel!Served, Channel!UnderWay, Channel!Clients

LEMMA InitChannelInv == Channel!Init => ChannelInv
<1> SUFFICES ASSUME Channel!Init PROVE ChannelInv
  OBVIOUS
<1>1. /\ call = [c \in Clients |-> "idle"] /\ talk = [c \in Clients |-> "none"]
      /\ live = 0 /\ in_flight = 0
  BY SetsOfClients DEF Channel!Init
<1>2. Served = {} /\ UnderWay = {}
  BY <1>1, SetsOfClients
<1>3. Cardinality({}) = 0
  BY FS_EmptySet
<1> QED BY <1>1, <1>2, <1>3 DEF ChannelInv, CallStates, TalkStates

(***************************************************************************)
(* One program and its thread go on, and both counts follow.               *)
(***************************************************************************)
Open(y) == y \notin {"idle", "refused"}

Moves(c, x, y) ==
  /\ talk' = [talk EXCEPT ![c] = x] /\ call' = [call EXCEPT ![c] = y]
  /\ x # "none" => y = "waiting"
  /\ x # "none" /\ talk[c] = "none" => live' = live + 1
  /\ x = "none" /\ talk[c] # "none" => live' = live - 1
  /\ (x = "none" <=> talk[c] = "none") => live' = live
  /\ c \in Pages /\ Open(y) /\ ~Open(call[c]) => in_flight' = in_flight + 1
  /\ c \in Pages /\ ~Open(y) /\ Open(call[c]) => in_flight' = in_flight - 1
  /\ c \notin Pages \/ (Open(y) <=> Open(call[c])) => in_flight' = in_flight

LEMMA MovesKeepCount ==
  ASSUME ChannelInv, NEW c \in Clients, NEW x \in TalkStates, NEW y \in CallStates, Moves(c, x, y)
  PROVE  ChannelInv'
<1>1. /\ call' \in [Clients -> CallStates] /\ talk' \in [Clients -> TalkStates]
      /\ talk'[c] = x /\ call'[c] = y
      /\ \A d \in Clients \ {c} : talk'[d] = talk[d] /\ call'[d] = call[d]
  BY DEF ChannelInv, Moves
<1>2. Served' = {d \in Clients : talk'[d] # "none"}
      /\ UnderWay' = {d \in Pages : call'[d] \notin {"idle", "refused"}}
  BY SetsOfClients DEF Served, UnderWay, Channel!Served, Channel!UnderWay
<1>3. live' = Cardinality(Served')
  <2>1. /\ c \notin Served => Cardinality(Served \cup {c}) = live + 1
        /\ c \in Served => Cardinality(Served \ {c}) = live - 1
    BY SetsOfClients, OneMoreOneLess DEF ChannelInv
  <2>2. c \in Served <=> talk[c] # "none"
    BY SetsOfClients
  <2>3. x # "none" => Served' = Served \cup {c}
    BY <1>1, <1>2, SetsOfClients
  <2>4. x = "none" => Served' = Served \ {c}
    BY <1>1, <1>2, SetsOfClients
  <2>5. (x = "none" <=> talk[c] = "none") => Served' = Served
    BY <2>2, <2>3, <2>4
  <2>6. live = Cardinality(Served)
    BY DEF ChannelInv
  <2> QED BY <2>1, <2>2, <2>3, <2>4, <2>5, <2>6 DEF Moves
<1>4. in_flight' = Cardinality(UnderWay')
  <2>1. /\ c \notin UnderWay => Cardinality(UnderWay \cup {c}) = in_flight + 1
        /\ c \in UnderWay => Cardinality(UnderWay \ {c}) = in_flight - 1
    BY SetsOfClients, OneMoreOneLess DEF ChannelInv
  <2>2. c \in UnderWay <=> c \in Pages /\ Open(call[c])
    BY SetsOfClients DEF Open
  <2>3. c \in Pages /\ Open(y) => UnderWay' = UnderWay \cup {c}
    BY <1>1, <1>2, SetsOfClients DEF Open
  <2>4. c \notin Pages \/ ~Open(y) => UnderWay' = UnderWay \ {c}
    BY <1>1, <1>2, SetsOfClients DEF Open
  <2>5. c \notin Pages \/ (Open(y) <=> Open(call[c])) => UnderWay' = UnderWay
    BY <2>2, <2>3, <2>4
  <2>6. in_flight = Cardinality(UnderWay)
    BY DEF ChannelInv
  <2> QED BY <2>1, <2>2, <2>3, <2>4, <2>5, <2>6 DEF Moves
<1>5. \A d \in Clients : talk'[d] # "none" => call'[d] = "waiting"
  BY <1>1 DEF ChannelInv, Moves
<1> QED BY <1>1, <1>3, <1>4, <1>5 DEF ChannelInv

LEMMA NextChannelInv == ChannelInv /\ [Channel!Next]_channel => ChannelInv'
<1> SUFFICES ASSUME ChannelInv, [Channel!Next]_channel PROVE ChannelInv'
  OBVIOUS
<1>0. ASSUME NEW c \in Clients
      PROVE  /\ talk[c] \in TalkStates /\ call[c] \in CallStates
             /\ [talk EXCEPT ![c] = talk[c]] = talk /\ [call EXCEPT ![c] = call[c]] = call
             /\ talk[c] # "none" => call[c] = "waiting"
  BY DEF ChannelInv
<1>1. ASSUME NEW c \in Clients, Channel!Call(c) PROVE ChannelInv'
  <2>1. Moves(c, talk[c], call'[c]) /\ call'[c] \in CallStates
    BY <1>0, <1>1 DEF Channel!Call, Moves, Open, CallStates, ChannelInv
  <2> QED BY <1>0, <2>1, MovesKeepCount
<1>2. ASSUME NEW c \in Clients, Channel!Connect(c) PROVE ChannelInv'
  <2>1. Moves(c, talk[c], call'[c]) /\ call'[c] \in CallStates
    BY <1>0, <1>2 DEF Channel!Connect, Moves, Open, CallStates, ChannelInv
  <2> QED BY <1>0, <2>1, MovesKeepCount
<1>3. ASSUME NEW c \in Clients, Channel!Settle(c) PROVE ChannelInv'
  <2>1. Moves(c, talk[c], "idle")
    BY <1>0, <1>3 DEF Channel!Settle, Moves, Open
  <2> QED BY <1>0, <2>1, MovesKeepCount DEF CallStates
<1>4. ASSUME NEW c \in Clients, Channel!Accept(c) PROVE ChannelInv'
  <2>1. Moves(c, talk'[c], call'[c]) /\ call'[c] \in CallStates /\ talk'[c] \in TalkStates
    BY <1>0, <1>4 DEF Channel!Accept, Moves, Open, CallStates, TalkStates, ChannelInv
  <2> QED BY <2>1, MovesKeepCount
<1>5. ASSUME NEW c \in Clients, Channel!read_request(c) PROVE ChannelInv'
  <2>1. Moves(c, talk'[c], call[c]) /\ talk'[c] \in TalkStates
    BY <1>0, <1>5 DEF Channel!read_request, Moves, Open, TalkStates, ChannelInv
  <2> QED BY <1>0, <2>1, MovesKeepCount
<1>6. ASSUME NEW c \in Clients, talk[c] # "none", Channel!Unwound(c), in_flight' = in_flight
      PROVE  ChannelInv'
  <2>1. Moves(c, "none", "closed")
    BY <1>0, <1>6 DEF Channel!Unwound, Moves, Open
  <2> QED BY <2>1, MovesKeepCount DEF TalkStates, CallStates
<1>7. ASSUME NEW c \in Clients, NEW x \in TalkStates \ {"none"}, talk[c] # "none",
             talk' = [talk EXCEPT ![c] = x], UNCHANGED <<call, live, in_flight>>
      PROVE  ChannelInv'
  <2>1. Moves(c, x, call[c])
    BY <1>0, <1>7 DEF Moves
  <2> QED BY <1>0, <2>1, MovesKeepCount
<1>8. ASSUME NEW c \in Clients, Channel!Lock(c) \/ Channel!Handled(c) PROVE ChannelInv'
  BY <1>6, <1>7, <1>8 DEF Channel!Lock, Channel!Handled, TalkStates
<1>9. ASSUME NEW c \in Clients, Channel!Reply(c) PROVE ChannelInv'
  <2>1. Moves(c, "none", "answered")
    BY <1>0, <1>9 DEF Channel!Reply, Moves, Open
  <2> QED BY <2>1, MovesKeepCount DEF TalkStates, CallStates
<1>10. CASE Channel!Ended
  <2>1. /\ call' = [c \in Clients |-> IF call[c] = "waiting" THEN "closed" ELSE call[c]]
        /\ talk' = [c \in Clients |-> "none"] /\ live' = 0 /\ in_flight' = in_flight
    BY <1>10, SetsOfClients DEF Channel!Ended
  <2>2. Served' = {} /\ UnderWay' = UnderWay
    BY <2>1, SetsOfClients DEF Served, UnderWay, Channel!Served, Channel!UnderWay
  <2>3. call' \in [Clients -> CallStates] /\ talk' \in [Clients -> TalkStates]
    BY <1>0, <2>1 DEF CallStates, TalkStates
  <2> QED BY <2>1, <2>2, <2>3, FS_EmptySet DEF ChannelInv
<1>11. ASSUME UNCHANGED <<call, talk, live, in_flight>> PROVE ChannelInv'
  BY <1>11 DEF ChannelInv, Served, UnderWay, Channel!Served, Channel!UnderWay
<1>12. CASE Channel!Clock \/ Channel!Fetched \/ Channel!Passed \/ Channel!Started \/ UNCHANGED channel
  BY <1>11, <1>12 DEF Channel!Clock, Channel!Fetched, Channel!Passed, Channel!Started, channel
<1>13. ASSUME NEW c \in Clients, Channel!Linger(c) PROVE ChannelInv'
  BY <1>11, <1>13 DEF Channel!Linger
<1> QED BY <1>1, <1>2, <1>3, <1>4, <1>5, <1>8, <1>9, <1>10, <1>12, <1>13, SetsOfClients DEF Channel!Next

\* The channel counts as everybody does.
LEMMA SameCardinality == \A S : Channel!Cardinality(S) = Cardinality(S)
BY DEF Cardinality, Channel!Cardinality

\* Nobody is turned away by a step that finds a place.
LEMMA NotTurnedAway ==
  ASSUME ChannelInv, [Channel!Next]_channel, NEW c \in Clients
  PROVE  ~Channel!TurnedAway(c)
<1>1. live = Channel!Cardinality(Channel!Served) /\ in_flight = Channel!Cardinality(Channel!UnderWay)
  BY SameCardinality DEF ChannelInv, Served, UnderWay
<1>2. MAX_CONNECTIONS \in Nat /\ MAX_IN_FLIGHT \in Nat
      /\ live \in Nat /\ in_flight \in Nat
  BY <1>1, SameCardinality, ProcessesAssumption, SetsOfClients, OneMoreOneLess DEF Served, UnderWay
<1>3. call \in [Clients -> CallStates] /\ Channel!Clients = Clients
      /\ \A d \in Clients : talk[d] # "none" => call[d] = "waiting"
  BY SetsOfClients DEF ChannelInv
<1>4. ASSUME call'[c] = call[c] PROVE ~Channel!TurnedAway(c)
  BY <1>4 DEF Channel!TurnedAway
<1>5. ASSUME NEW d \in Clients, NEW y, call' = [call EXCEPT ![d] = y], d # c PROVE call'[c] = call[c]
  BY <1>3, <1>5
<1>6. ASSUME NEW d \in Clients, Channel!Call(d) PROVE ~Channel!TurnedAway(c)
  BY <1>1, <1>2, <1>3, <1>6 DEF Channel!Call, Channel!TurnedAway
<1>7. ASSUME NEW d \in Clients, Channel!Accept(d) PROVE ~Channel!TurnedAway(c)
  BY <1>1, <1>2, <1>3, <1>7 DEF Channel!Accept, Channel!TurnedAway
<1>8. ASSUME NEW d \in Clients, Channel!Connect(d) \/ Channel!Settle(d) PROVE ~Channel!TurnedAway(c)
  BY <1>3, <1>8 DEF Channel!Connect, Channel!Settle, Channel!TurnedAway
<1>9. ASSUME NEW d \in Clients, Channel!Lock(d) \/ Channel!Handled(d) \/ Channel!Reply(d)
      PROVE  ~Channel!TurnedAway(c)
  BY <1>3, <1>9 DEF Channel!Lock, Channel!Handled, Channel!Reply, Channel!Unwound, Channel!TurnedAway
<1>10. ASSUME NEW d \in Clients, Channel!Linger(d) \/ Channel!read_request(d) PROVE ~Channel!TurnedAway(c)
  BY <1>4, <1>10 DEF Channel!Linger, Channel!read_request
<1>11. CASE Channel!Ended
  BY <1>3, <1>11 DEF Channel!Ended, Channel!TurnedAway
<1>12. CASE Channel!Clock \/ Channel!Fetched \/ Channel!Passed \/ Channel!Started \/ UNCHANGED channel
  BY <1>4, <1>12 DEF Channel!Clock, Channel!Fetched, Channel!Passed, Channel!Started, channel
<1> QED BY <1>3, <1>6, <1>7, <1>8, <1>9, <1>10, <1>11, <1>12 DEF Channel!Next

-----------------------------------------------------------------------------
LEMMA MeetingTypes ==
  ASSUME KeysInv
  PROVE  /\ BEACON_GRACE_SECONDS \in Nat /\ \A d \in Here : scene.skew[d] \in Int
         /\ Devices!Devices = Here
BY ProcessesAssumption DEF KeysInv, Here, Devices!Devices

LEMMA InitDevicesInv == Devices!Init => DevicesInv
<1> SUFFICES ASSUME Devices!Init PROVE DevicesInv
  OBVIOUS
<1>1. /\ scene \in Meetings /\ time = 0 /\ agreed = {}
      /\ file = [d \in Here |-> [key |-> None, peers |-> Devices!Nobody]]
      /\ made = [d \in Here |-> 0] /\ opened = [d \in Here |-> None] /\ handle = opened
      /\ shown = [d \in Here |-> None] /\ air = shown /\ nearby = [d \in Here |-> Devices!Nobody]
  BY DEF Devices!Init, Here, Devices!Devices
<1>2. DOMAIN Devices!Nobody = {}
  BY DEF Devices!Nobody
<1>3. KeysInv
  BY <1>1 DEF KeysInv, Holder
<1>4. PhraseInv /\ AirInv /\ NearInv
  BY <1>1, <1>2 DEF PhraseInv, AirInv, NearInv
<1>5. ComparedIsHeld
  BY <1>1 DEF ComparedIsHeld, Devices!ComparedIsHeld
<1>6. node = [d \in Here |-> FALSE]
  BY DEF Devices!Init, Here, Devices!Devices
<1>7. NodeInv
  BY <1>1, <1>6 DEF NodeInv
<1> QED BY <1>3, <1>4, <1>5, <1>7 DEF DevicesInv

-----------------------------------------------------------------------------
(***************************************************************************)
(* Keys.                                                                   *)
(***************************************************************************)
\* What a device opens is its own.
LEMMA OpenedIsOwn ==
  ASSUME KeysInv, NEW d \in Here PROVE Holder(d, Devices!Opened(d)) /\ Devices!Opened(d).id[2] \in Nat
<1>1. made[d] + 1 \in Nat
  BY DEF KeysInv
<1> QED BY <1>1 DEF Holder, Is, Devices!Opened, Devices!Shared, Devices!Identity

LEMMA OpenStoreKeeps ==
  ASSUME KeysInv, NEW d \in Here, Devices!OpenStore(d)
  PROVE  /\ DOMAIN file' = Here /\ DOMAIN made' = Here /\ made' \in [Here -> Nat]
         /\ \A e \in Here : file'[e] = [key |-> file'[e].key, peers |-> file'[e].peers]
BY OpenedIsOwn DEF KeysInv, Devices!OpenStore

\* A device changes whom it knows, and with what it wrote before, or does not.
KnowsOthers(d) ==
  /\ handle[d] # None
  /\ \E p : handle' = [handle EXCEPT ![d].peers = p]
  /\ file' = file \/ \E p : file' = [file EXCEPT ![d].peers = p]
  /\ UNCHANGED <<scene, time, made, opened, air, nearby>>

LEMMA KnowingKeepsKeys ==
  ASSUME KeysInv, NEW d \in Here, KnowsOthers(d), DOMAIN shown' = Here
  PROVE  KeysInv'
<1>1. Here' = Here
  BY DEF KnowsOthers, Here
<1>2. PICK p : handle' = [handle EXCEPT ![d].peers = p]
  BY DEF KnowsOthers
<1>3. Holder(d, handle[d]) /\ handle[d] # None /\ DOMAIN handle = Here
  BY DEF KeysInv, KnowsOthers
<1>4. DOMAIN handle' = Here /\ \A e \in Here : Holder(e, handle'[e])
  BY <1>2, <1>3 DEF KeysInv, Holder
<1>5. /\ DOMAIN file' = Here
      /\ \A e \in Here : file'[e] = [key |-> file'[e].key, peers |-> file'[e].peers]
  BY DEF KeysInv, KnowsOthers
<1> QED BY <1>1, <1>4, <1>5 DEF KeysInv, KnowsOthers

LEMMA SavedKnows ==
  ASSUME NEW d, Devices!Saved(d)
  PROVE  file' = file \/ \E p : file' = [file EXCEPT ![d].peers = p]
BY DEF Devices!Saved

LEMMA RevokeKnows ==
  ASSUME NEW d, NEW id, Devices!revoke(d, id) PROVE KnowsOthers(d) /\ UNCHANGED <<shown, agreed>>
<1>1. \E p : handle' = [handle EXCEPT ![d].peers = p]
  BY DEF Devices!revoke
<1> QED BY <1>1, SavedKnows DEF Devices!revoke, KnowsOthers

LEMMA PostedKnows ==
  ASSUME NEW d, NEW i, Devices!posted(d, i) PROVE KnowsOthers(d) /\ UNCHANGED <<shown, agreed>>
<1>1. \E p : handle' = [handle EXCEPT ![d].peers = p]
  BY DEF Devices!posted
<1> QED BY <1>1, SavedKnows DEF Devices!posted, KnowsOthers

LEMMA AcceptKnows ==
  ASSUME NEW d, NEW e, Devices!accept_invite(d, e) PROVE KnowsOthers(d)
<1>1. \E p : handle' = [handle EXCEPT ![d].peers = p]
  BY DEF Devices!accept_invite
<1> QED BY <1>1, SavedKnows DEF Devices!accept_invite, KnowsOthers

Quiet == UNCHANGED <<scene, time, file, made, opened, handle>>

LEMMA NextKeysInv == DevicesInv /\ [Devices!Next]_devices => KeysInv'
<1> SUFFICES ASSUME DevicesInv, [Devices!Next]_devices PROVE KeysInv'
  OBVIOUS
<1>0. KeysInv /\ Devices!Devices = Here
  BY MeetingTypes DEF DevicesInv
<1>1. ASSUME NEW d \in Here, Devices!start_sync(d) \/ Devices!Open(d) PROVE KeysInv'
  <2>1. /\ DOMAIN file' = Here /\ DOMAIN made' = Here /\ made' \in [Here -> Nat]
        /\ \A e \in Here : file'[e] = [key |-> file'[e].key, peers |-> file'[e].peers]
    BY <1>0, <1>1, OpenStoreKeeps DEF Devices!start_sync, Devices!Open
  <2>2. /\ DOMAIN handle' = Here /\ DOMAIN opened' = Here
        /\ \A e \in Here : Holder(e, handle'[e]) /\ Holder(e, opened'[e])
    BY <1>0, <1>1, OpenedIsOwn DEF Devices!start_sync, Devices!Open, KeysInv
  <2>3. UNCHANGED <<scene, time, shown, air, nearby>>
    BY <1>1 DEF Devices!start_sync, Devices!Open
  <2> QED BY <1>0, <2>1, <2>2, <2>3 DEF KeysInv, Here
<1>2. ASSUME NEW d \in Here, Devices!install_pairing(d) PROVE KeysInv'
  <2>1. /\ DOMAIN handle' = Here /\ DOMAIN opened' = Here
        /\ \A e \in Here : Holder(e, handle'[e]) /\ Holder(e, opened'[e])
    BY <1>0, <1>2 DEF Devices!install_pairing, KeysInv, Holder
  <2>2. UNCHANGED <<scene, time, file, made, shown, air, nearby>>
    BY <1>2 DEF Devices!install_pairing
  <2> QED BY <1>0, <2>1, <2>2 DEF KeysInv, Here
<1>3. ASSUME NEW d \in Here, Devices!Killed(d) PROVE KeysInv'
  <2>1. /\ DOMAIN handle' = Here /\ DOMAIN opened' = Here
        /\ \A e \in Here : Holder(e, handle'[e]) /\ Holder(e, opened'[e])
        /\ DOMAIN shown' = Here /\ DOMAIN nearby' = Here
    BY <1>0, <1>3 DEF Devices!Killed, KeysInv, Holder
  <2>2. UNCHANGED <<scene, time, file, made, air>>
    BY <1>3 DEF Devices!Killed
  <2> QED BY <1>0, <2>1, <2>2 DEF KeysInv, Here
<1>4. ASSUME NEW d \in Here, Devices!Spoiled(d) PROVE KeysInv'
  <2>1. /\ DOMAIN file' = Here
        /\ \A e \in Here : file'[e] = [key |-> file'[e].key, peers |-> file'[e].peers]
    BY <1>0, <1>4 DEF Devices!Spoiled, KeysInv
  <2>2. UNCHANGED <<scene, time, made, opened, handle, shown, air, nearby>>
    BY <1>4 DEF Devices!Spoiled
  <2> QED BY <1>0, <2>1, <2>2 DEF KeysInv, Here
<1>5. ASSUME NEW d \in Here, NEW id, Devices!revoke(d, id) PROVE KeysInv'
  BY <1>0, <1>5, RevokeKnows, KnowingKeepsKeys DEF KeysInv
<1>6. ASSUME NEW d \in Here, NEW i, Devices!posted(d, i) PROVE KeysInv'
  BY <1>0, <1>6, PostedKnows, KnowingKeepsKeys DEF KeysInv
<1>7. ASSUME NEW d \in Here, NEW e \in Here, Devices!accept_invite(d, e) PROVE KeysInv'
  <2>1. DOMAIN shown' = Here
    BY <1>0, <1>7 DEF Devices!accept_invite, KeysInv
  <2> QED BY <1>0, <1>7, <2>1, AcceptKnows, KnowingKeepsKeys
<1>8. ASSUME Quiet, DOMAIN shown' = DOMAIN shown, DOMAIN air' = DOMAIN air, DOMAIN nearby' = DOMAIN nearby
      PROVE  KeysInv'
  BY <1>0, <1>8 DEF KeysInv, Quiet, Here
<1>9. ASSUME NEW d \in Here,
             \/ Devices!start_node(d) \/ Devices!stop_node(d) \/ Devices!invite(d) \/ Devices!announce(d)
             \/ Devices!list_nearby(d) \/ \E i \in invites : Devices!phrase_for(d, i) \/ Devices!reply_to(d, i)
             \/ \E e \in Here : Devices!overhear(d, e)
      PROVE  KeysInv'
  BY <1>8, <1>9 DEF Quiet, Devices!start_node, Devices!stop_node, Devices!invite, Devices!announce,
       Devices!list_nearby, Devices!phrase_for, Devices!reply_to, Devices!overhear
<1>10. CASE Devices!Pass
  BY <1>0, <1>10 DEF Devices!Pass, KeysInv, Here
<1>11. CASE UNCHANGED devices
  BY <1>8, <1>11 DEF devices, Quiet
<1> QED BY <1>0, <1>1, <1>2, <1>3, <1>4, <1>5, <1>6, <1>7, <1>9, <1>10, <1>11 DEF Devices!Next

-----------------------------------------------------------------------------
LEMMA NextNodeInv == DevicesInv /\ [Devices!Next]_devices => NodeInv'
<1> SUFFICES ASSUME DevicesInv, [Devices!Next]_devices PROVE NodeInv'
  OBVIOUS
<1>0. /\ NodeInv /\ Devices!Devices = Here /\ Devices!Phones = scene.phones
      /\ DOMAIN handle = Here /\ DOMAIN opened = Here
      /\ \A d \in Here : Holder(d, handle[d]) /\ Holder(d, opened[d])
  BY MeetingTypes DEF DevicesInv, KeysInv, Devices!Phones
<1>1. ASSUME NEW d \in Here, Devices!start_sync(d) PROVE NodeInv'
  BY <1>0, <1>1 DEF Devices!start_sync, NodeInv, Here
<1>2. ASSUME NEW d \in Here, Devices!install_pairing(d) PROVE NodeInv'
  <2>1. /\ opened[d] # None /\ scene' = scene /\ opened' = [opened EXCEPT ![d] = None]
        /\ \/ \E b \in BOOLEAN : handle' = [handle EXCEPT ![d] = opened[d]] /\ node' = [node EXCEPT ![d] = b]
           \/ handle' = [handle EXCEPT ![d] = None] /\ node' = node
    BY <1>2 DEF Devices!install_pairing
  <2>2. CASE node' = node /\ handle' = [handle EXCEPT ![d] = None]
    BY <1>0, <2>1, <2>2 DEF NodeInv, Here
  <2>3. ASSUME NEW b \in BOOLEAN, handle' = [handle EXCEPT ![d] = opened[d]], node' = [node EXCEPT ![d] = b]
        PROVE  NodeInv'
    BY <1>0, <2>1, <2>3 DEF NodeInv, Here, Holder
  <2> QED BY <2>1, <2>2, <2>3
<1>3. ASSUME NEW d \in Here, Devices!Open(d) PROVE NodeInv'
  <2>1. Is(d, Devices!Opened(d).id)
    BY OpenedIsOwn DEF DevicesInv, Holder, Is, Devices!Opened, Devices!Shared, Devices!Identity, KeysInv
  <2> QED BY <1>0, <1>3, <2>1 DEF Devices!Open, NodeInv, Here
<1>4. ASSUME NEW d \in Here, Devices!start_node(d) \/ Devices!stop_node(d) \/ Devices!Killed(d) PROVE NodeInv'
  <2>1. CASE Devices!start_node(d)
    BY <1>0, <2>1 DEF Devices!start_node, NodeInv, Here, Holder
  <2>2. CASE Devices!stop_node(d)
    <3>1. /\ node' = [node EXCEPT ![d] = FALSE] /\ UNCHANGED <<scene, opened, handle>>
      BY <2>2 DEF Devices!stop_node
    <3>2. node'[d] = FALSE /\ \A e \in Here \ {d} : node'[e] = node[e]
      BY <1>0, <3>1 DEF NodeInv
    <3>3. node' \in [Here -> BOOLEAN]
      BY <1>0, <3>1 DEF NodeInv
    <3>4. \A e \in Here : node'[e] = TRUE => node[e] = TRUE
      BY <3>2
    <3>5. \A e \in Here : node'[e] = TRUE => Is(e, handle[e].id) /\ opened[e] = None
      BY <1>0, <3>4 DEF NodeInv, Is
    <3> QED BY <1>0, <3>1, <3>3, <3>5 DEF NodeInv, Is, Here
  <2>3. CASE Devices!Killed(d)
    <3>1. /\ node' = [node EXCEPT ![d] = FALSE] /\ opened' = [opened EXCEPT ![d] = None]
          /\ handle' = [handle EXCEPT ![d] = None] /\ scene' = scene
      BY <2>3 DEF Devices!Killed
    <3>2. /\ node'[d] = FALSE /\ opened'[d] = None
          /\ \A e \in Here \ {d} : handle'[e] = handle[e] /\ opened'[e] = opened[e] /\ node'[e] = node[e]
      BY <1>0, <3>1 DEF NodeInv
    <3>3. node' \in [Here -> BOOLEAN]
      BY <1>0, <3>1 DEF NodeInv
    <3> QED BY <1>0, <3>1, <3>2, <3>3 DEF NodeInv, Here
  <2> QED BY <1>4, <2>1, <2>2, <2>3
<1>5. ASSUME NEW d \in Here, KnowsOthers(d), node' = node PROVE NodeInv'
  BY <1>0, <1>5 DEF KnowsOthers, NodeInv, Here, Holder
<1>6. ASSUME NEW d \in Here, NEW id, Devices!revoke(d, id) PROVE NodeInv'
  BY <1>5, <1>6, RevokeKnows DEF Devices!revoke
<1>7. ASSUME NEW d \in Here, NEW i, Devices!posted(d, i) PROVE NodeInv'
  BY <1>5, <1>7, PostedKnows DEF Devices!posted
<1>8. ASSUME NEW d \in Here, NEW e, Devices!accept_invite(d, e) PROVE NodeInv'
  BY <1>5, <1>8, AcceptKnows DEF Devices!accept_invite
<1>9. ASSUME UNCHANGED <<scene, opened, handle, node>> PROVE NodeInv'
  BY <1>0, <1>9 DEF NodeInv, Here
<1>10. ASSUME NEW d \in Here,
              \/ Devices!Spoiled(d) \/ Devices!invite(d) \/ Devices!announce(d) \/ Devices!list_nearby(d)
              \/ \E i \in invites : Devices!phrase_for(d, i) \/ Devices!reply_to(d, i)
              \/ \E e \in Here : Devices!overhear(d, e)
       PROVE  NodeInv'
  BY <1>9, <1>10 DEF Devices!Spoiled, Devices!invite, Devices!announce, Devices!list_nearby,
       Devices!phrase_for, Devices!reply_to, Devices!overhear
<1>11. CASE Devices!Pass \/ UNCHANGED devices
  BY <1>9, <1>11 DEF Devices!Pass, devices
<1> QED BY <1>0, <1>1, <1>2, <1>3, <1>4, <1>6, <1>7, <1>8, <1>10, <1>11 DEF Devices!Next

-----------------------------------------------------------------------------
(***************************************************************************)
(* Phrases.                                                                *)
(***************************************************************************)
LEMMA NextPhraseInv == DevicesInv /\ [Devices!Next]_devices => PhraseInv'
<1> SUFFICES ASSUME DevicesInv, [Devices!Next]_devices PROVE PhraseInv'
  OBVIOUS
<1>0. KeysInv /\ PhraseInv /\ Devices!Devices = Here /\ DOMAIN shown = Here
  BY MeetingTypes DEF DevicesInv, KeysInv
<1>1. ASSUME scene' = scene, \A e \in Here : shown'[e] \in {shown[e], None} PROVE PhraseInv'
  BY <1>0, <1>1 DEF PhraseInv, Here
<1>2. ASSUME NEW d \in Here, NEW i \in invites, Devices!phrase_for(d, i) PROVE PhraseInv'
  <2> DEFINE x == [invite |-> i, by |-> Devices!Me(d),
                   phrase |-> Devices!Phrase(Devices!Me(d), i.from, i.nonce)]
  <2>1. scene' = scene /\ shown' = [shown EXCEPT ![d] = x] /\ handle[d] # None
    BY <1>2 DEF Devices!phrase_for
  <2>2. Is(d, Devices!Me(d))
    BY <1>0, <2>1 DEF KeysInv, Holder, Devices!Me
  <2>3. x.by = Devices!Me(d) /\ x.invite = i /\ x.phrase = Devices!Phrase(x.by, x.invite.from, x.invite.nonce)
    OBVIOUS
  <2> HIDE DEF x
  <2>4. \A e \in Here : shown'[e] = IF e = d THEN x ELSE shown[e]
    BY <1>0, <2>1
  <2> QED BY <1>0, <2>1, <2>2, <2>3, <2>4 DEF PhraseInv, Here
<1>3. ASSUME NEW d \in Here,
             Devices!Killed(d) \/ \E e \in Here : Devices!accept_invite(d, e)
      PROVE  PhraseInv'
  BY <1>0, <1>1, <1>3 DEF Devices!Killed, Devices!accept_invite
<1>4. ASSUME UNCHANGED <<scene, shown>> PROVE PhraseInv'
  BY <1>1, <1>4
<1>5. ASSUME NEW d \in Here,
             \/ Devices!start_sync(d) \/ Devices!install_pairing(d) \/ Devices!Open(d) \/ Devices!Spoiled(d)
             \/ Devices!start_node(d) \/ Devices!stop_node(d) \/ Devices!invite(d) \/ Devices!announce(d)
             \/ Devices!list_nearby(d) \/ \E i \in invites : Devices!reply_to(d, i) \/ Devices!posted(d, i)
             \/ \E e \in Here : Devices!overhear(d, e)
             \/ \E id : Devices!revoke(d, id)
      PROVE  PhraseInv'
  BY <1>4, <1>5 DEF Devices!start_sync, Devices!install_pairing, Devices!Open, Devices!Spoiled,
       Devices!start_node, Devices!stop_node, Devices!invite, Devices!announce, Devices!list_nearby,
       Devices!reply_to, Devices!posted, Devices!overhear, Devices!revoke
<1>6. CASE Devices!Pass \/ UNCHANGED devices
  BY <1>4, <1>6 DEF Devices!Pass, devices
<1> QED BY <1>0, <1>2, <1>3, <1>5, <1>6 DEF Devices!Next

\* Two devices that show the same phrase read each other's keys.
LEMMA SamePhrase ==
  ASSUME DevicesInv, NEW d \in Here, NEW e \in Here, d # e, shown[d] # None, shown[e] # None,
         shown[e].phrase = shown[d].phrase
  PROVE  shown[d].invite.from = shown[e].by
<1>1. {shown[d].by, shown[d].invite.from} = {shown[e].by, shown[e].invite.from}
  BY DEF DevicesInv, PhraseInv, Devices!Phrase
<1>2. shown[d].by # shown[e].by
  BY DEF DevicesInv, PhraseInv, Is
<1> QED BY <1>1, <1>2

LEMMA NextCompared == DevicesInv /\ [Devices!Next]_devices => ComparedIsHeld'
<1> SUFFICES ASSUME DevicesInv, [Devices!Next]_devices PROVE ComparedIsHeld'
  OBVIOUS
<1>0. Devices!Devices = Here /\ \A a \in agreed : a.id = a.with
  BY MeetingTypes DEF DevicesInv, ComparedIsHeld, Devices!ComparedIsHeld
<1>1. ASSUME agreed' = agreed PROVE ComparedIsHeld'
  BY <1>0, <1>1 DEF ComparedIsHeld, Devices!ComparedIsHeld
<1>2. ASSUME NEW d \in Here, NEW e \in Here, Devices!accept_invite(d, e) PROVE ComparedIsHeld'
  <2>1. /\ agreed' = agreed \cup {[on |-> d, id |-> shown[d].invite.from, with |-> shown[e].by]}
        /\ e # d /\ shown[d] # None /\ shown[e] # None /\ shown[e].phrase = shown[d].phrase
    BY <1>2 DEF Devices!accept_invite
  <2>2. shown[d].invite.from = shown[e].by
    BY <2>1, SamePhrase
  <2> QED BY <1>0, <2>1, <2>2 DEF ComparedIsHeld, Devices!ComparedIsHeld
<1>3. ASSUME NEW d \in Here,
             \/ Devices!start_sync(d) \/ Devices!install_pairing(d) \/ Devices!Open(d) \/ Devices!Spoiled(d)
             \/ Devices!start_node(d) \/ Devices!stop_node(d) \/ Devices!invite(d) \/ Devices!announce(d)
             \/ Devices!list_nearby(d) \/ Devices!Killed(d)
             \/ \E i \in invites : Devices!phrase_for(d, i) \/ Devices!reply_to(d, i) \/ Devices!posted(d, i)
             \/ \E e \in Here : Devices!overhear(d, e)
             \/ \E id : Devices!revoke(d, id)
      PROVE  ComparedIsHeld'
  BY <1>1, <1>3 DEF Devices!start_sync, Devices!install_pairing, Devices!Open, Devices!Spoiled,
       Devices!start_node, Devices!stop_node, Devices!invite, Devices!announce, Devices!list_nearby,
       Devices!Killed, Devices!phrase_for, Devices!reply_to, Devices!posted, Devices!overhear, Devices!revoke
<1>4. CASE Devices!Pass \/ UNCHANGED devices
  BY <1>1, <1>4 DEF Devices!Pass, devices
<1> QED BY <1>0, <1>2, <1>3, <1>4 DEF Devices!Next

-----------------------------------------------------------------------------
(***************************************************************************)
(* Beacons.  The clocks of two devices may differ, so what is bounded is   *)
(* the receiver's clock when it listed a device against the sender's when  *)
(* it sent: a later beacon of the same sender only brings them closer.     *)
(***************************************************************************)
\* The steps that no beacon and no listing has a part in.
NoBeacon(d) ==
  \/ Devices!start_sync(d) \/ Devices!install_pairing(d) \/ Devices!Open(d) \/ Devices!start_node(d)
  \/ Devices!Spoiled(d) \/ Devices!invite(d)
  \/ \E i \in invites : Devices!phrase_for(d, i) \/ Devices!reply_to(d, i) \/ Devices!posted(d, i)
  \/ \E e \in Here : Devices!accept_invite(d, e)
  \/ \E id : Devices!revoke(d, id)

LEMMA NoBeaconKeeps ==
  ASSUME NEW d, NoBeacon(d) PROVE UNCHANGED <<scene, time, air, nearby>>
BY DEF NoBeacon, Devices!start_sync, Devices!install_pairing, Devices!Open, Devices!start_node,
       Devices!Spoiled, Devices!invite, Devices!phrase_for, Devices!reply_to, Devices!posted,
       Devices!accept_invite, Devices!revoke

LEMMA ListingSteps ==
  ASSUME DevicesInv, [Devices!Next]_devices
  PROVE  \/ Devices!Pass \/ UNCHANGED devices
         \/ \E d \in Here : \/ NoBeacon(d) \/ Devices!announce(d) \/ Devices!stop_node(d) \/ Devices!Killed(d)
                            \/ Devices!list_nearby(d) \/ \E e \in Here : Devices!overhear(d, e)
BY MeetingTypes DEF DevicesInv, Devices!Next, NoBeacon

LEMMA ClockTypes ==
  ASSUME DevicesInv, NEW d \in Here
  PROVE  /\ Devices!Clock(d) = time + scene.skew[d] /\ Devices!Clock(d) \in Int
         /\ scene.skew[d] \in Int /\ time \in Nat /\ BEACON_GRACE_SECONDS \in Nat
BY MeetingTypes DEF DevicesInv, KeysInv, Devices!Clock

\* What a device sends is its own, and no older than what it sent before.
LEMMA AnnouncedIsNewer ==
  ASSUME DevicesInv, NEW d \in Here, Devices!announce(d)
  PROVE  /\ air' = [air EXCEPT ![d] = air'[d]] /\ UNCHANGED <<scene, time, nearby>>
         /\ Is(d, air'[d].from) /\ air'[d].at = time + scene.skew[d]
<1>1. /\ air' = [air EXCEPT ![d] = [from |-> Devices!Me(d), at |-> Devices!Clock(d)]]
      /\ UNCHANGED <<scene, time, nearby>> /\ node[d] /\ DOMAIN air = Here
  BY DEF Devices!announce, DevicesInv, KeysInv
<1>2. air'[d] = [from |-> Devices!Me(d), at |-> Devices!Clock(d)]
  BY <1>1
<1>3. Is(d, Devices!Me(d))
  <2>1. node[d] = TRUE
    BY DEF Devices!announce
  <2>2. NodeInv
    BY DEF DevicesInv
  <2>3. Is(d, handle[d].id)
    BY <2>1, <2>2 DEF NodeInv, Is
  <2> QED BY <2>3 DEF Devices!Me
<1>4. air' = [air EXCEPT ![d] = air'[d]]
  BY <1>1, <1>2
<1> QED BY <1>1, <1>2, <1>3, <1>4, ClockTypes

LEMMA NextAirInv == DevicesInv /\ [Devices!Next]_devices => AirInv'
<1> SUFFICES ASSUME DevicesInv, [Devices!Next]_devices PROVE AirInv'
  OBVIOUS
<1>0. AirInv /\ DOMAIN air = Here /\ time \in Nat /\ \A e \in Here : scene.skew[e] \in Int
  BY MeetingTypes DEF DevicesInv, KeysInv
<1>1. ASSUME NEW d \in Here, Devices!announce(d) PROVE AirInv'
  <2>1. \A e \in Here : air'[e] = IF e = d THEN air'[d] ELSE air[e]
    BY <1>0, <1>1, AnnouncedIsNewer
  <2> QED BY <1>0, <1>1, <2>1, AnnouncedIsNewer DEF AirInv, Here
<1>2. ASSUME UNCHANGED <<scene, time, air>> PROVE AirInv'
  BY <1>0, <1>2 DEF AirInv, Here
<1>3. ASSUME NEW d \in Here, \/ Devices!stop_node(d) \/ Devices!Killed(d) \/ Devices!list_nearby(d)
                            \/ \E e \in Here : Devices!overhear(d, e)
      PROVE  AirInv'
  BY <1>2, <1>3 DEF Devices!stop_node, Devices!Killed, Devices!list_nearby, Devices!overhear
<1>4. CASE Devices!Pass
  BY <1>0, <1>4 DEF Devices!Pass, AirInv, Here
<1>5. CASE UNCHANGED devices
  BY <1>2, <1>5 DEF devices
<1> QED BY <1>1, <1>2, <1>3, <1>4, <1>5, ListingSteps, NoBeaconKeeps

LEMMA NextNearInv == DevicesInv /\ [Devices!Next]_devices => NearInv'
<1> SUFFICES ASSUME DevicesInv, [Devices!Next]_devices PROVE NearInv'
  OBVIOUS
<1>0. /\ AirInv /\ NearInv /\ DOMAIN air = Here /\ DOMAIN nearby = Here
      /\ time \in Nat /\ \A e \in Here : scene.skew[e] \in Int
  BY MeetingTypes DEF DevicesInv, KeysInv
<1>1. ASSUME NEW d \in Here, Devices!announce(d) PROVE NearInv'
  <2>1. \A e \in Here : air'[e] = IF e = d THEN air'[d] ELSE air[e]
    BY <1>0, <1>1, AnnouncedIsNewer
  <2>2. air'[d].at = time + scene.skew[d] /\ UNCHANGED <<scene, time, nearby>>
    BY <1>1, AnnouncedIsNewer
  <2>3. BEACON_GRACE_SECONDS \in Nat
    BY ProcessesAssumption
  <2> QED BY <1>0, <2>1, <2>2, <2>3 DEF NearInv, Here
\* Listings that were there before, and the beacons they are of.
<1>2. ASSUME UNCHANGED <<scene, time, air>>, DOMAIN nearby' = Here,
             \A d \in Here : \A id \in DOMAIN nearby'[d] :
               id \in DOMAIN nearby[d] /\ nearby'[d][id] = nearby[d][id]
      PROVE  NearInv'
  BY <1>0, <1>2 DEF NearInv, Here
<1>3. ASSUME NEW d \in Here, nearby' = [nearby EXCEPT ![d] = Devices!Nobody], UNCHANGED <<scene, time, air>>
      PROVE  NearInv'
  <2>1. DOMAIN Devices!Nobody = {}
    BY DEF Devices!Nobody
  <2> QED BY <1>0, <1>2, <1>3, <2>1
<1>4. ASSUME NEW d \in Here, Devices!stop_node(d) \/ Devices!Killed(d) PROVE NearInv'
  BY <1>3, <1>4 DEF Devices!stop_node, Devices!Killed
<1>5. ASSUME NEW d \in Here, Devices!list_nearby(d) PROVE NearInv'
  <2>1. nearby' = [nearby EXCEPT ![d] = [id \in Devices!Fresh(d) |-> nearby[d][id]]]
        /\ UNCHANGED <<scene, time, air>>
    BY <1>0, <1>5 DEF Devices!list_nearby, Devices!Restrict
  <2>2. Devices!Fresh(d) \subseteq DOMAIN nearby[d]
    BY DEF Devices!Fresh
  <2> QED BY <1>0, <1>2, <2>1, <2>2
<1>6. ASSUME NEW d \in Here, NEW e \in Here, Devices!overhear(d, e) PROVE NearInv'
  <2> DEFINE id == air[e].from
             heard == [i \in {id} \cup DOMAIN nearby[d] |->
                         IF i = id THEN Devices!Clock(d) ELSE nearby[d][i]]
  <2>1. nearby' = [nearby EXCEPT ![d] = heard] /\ UNCHANGED <<scene, time, air>>
    BY <1>0, <1>6 DEF Devices!overhear, Devices!Put
  <2>2. Is(e, id) /\ air[e].at \in Int /\ air[e].at <= time + scene.skew[e]
        /\ Devices!Clock(d) - air[e].at <= BEACON_GRACE_SECONDS /\ Devices!Clock(d) \in Int
    BY <1>0, <1>6, ClockTypes DEF Devices!overhear, Devices!Checked, AirInv
  <2>3. \A i \in DOMAIN heard : heard[i] = IF i = id THEN Devices!Clock(d) ELSE nearby[d][i]
    OBVIOUS
  <2>4. DOMAIN heard = {id} \cup DOMAIN nearby[d]
    OBVIOUS
  <2> HIDE DEF heard
  <2>5. \A c \in Here : nearby'[c] = IF c = d THEN heard ELSE nearby[c]
    BY <1>0, <2>1
  <2> QED BY <1>0, <2>1, <2>2, <2>3, <2>4, <2>5 DEF NearInv, Here
<1>7. CASE Devices!Pass
  BY <1>0, <1>7 DEF Devices!Pass, NearInv, Here
<1>8. CASE UNCHANGED devices
  BY <1>0, <1>2, <1>8 DEF devices
<1>9. ASSUME NEW d \in Here, NoBeacon(d) PROVE NearInv'
  BY <1>0, <1>2, <1>9, NoBeaconKeeps
<1> QED BY <1>1, <1>4, <1>5, <1>6, <1>7, <1>8, <1>9, ListingSteps

LEMMA NextDevicesInv == DevicesInv /\ [Devices!Next]_devices => DevicesInv'
BY NextKeysInv, NextNodeInv, NextPhraseInv, NextAirInv, NextNearInv, NextCompared DEF DevicesInv

LEMMA NoGhosts == DevicesInv => GhostsFade
<1> SUFFICES ASSUME DevicesInv, NEW d \in Here, NEW id \in Devices!Fresh(d)
             PROVE  Devices!Clock(d) - air[id[1]].at <= 2 * BEACON_GRACE_SECONDS
  BY MeetingTypes DEF DevicesInv, GhostsFade, Devices!GhostsFade
<1>1. id \in DOMAIN nearby[d] /\ Devices!Clock(d) - nearby[d][id] <= BEACON_GRACE_SECONDS
  BY DEF Devices!Fresh
<1>2. PICK e \in Here : /\ Is(e, id) /\ air[e].at \in Int /\ nearby[d][id] \in Int
                       /\ nearby[d][id] - air[e].at <= BEACON_GRACE_SECONDS
  BY <1>1 DEF DevicesInv, NearInv
<1>3. id[1] = e
  BY <1>2 DEF Is
<1> QED BY <1>1, <1>2, <1>3, ClockTypes

-----------------------------------------------------------------------------
(***************************************************************************)
(* The watch of the icon.  A poll tells of one of three things, and        *)
(* announces the countdown besides.                                        *)
(***************************************************************************)
LEMMA InitIconInv == Icon!Init => IconInv
BY DEF Icon!Init, IconInv

\* What a poll may tell of, and what is remembered of it.
LEMMA ToldIsNews ==
  ASSUME NEW report, NEW told \in Icon!Told(report)
  PROVE  \A n \in told :
           /\ n.kind \in {"waiting", "started", "closed"}
           /\ n.kind = "waiting" <=> Icon!newly_delayed(report) # {}
           /\ n.kind = "closed" => n.what = report.closed \ seen.closed
           /\ n.kind # "waiting" => seen.last = None \/ hour - seen.last >= NOTICE_SECONDS
BY DEF Icon!Told, Icon!Notice, Icon!should_show, Icon!newly_closed

LEMMA PollIsNews ==
  ASSUME IconInv, Icon!Poll
  PROVE  IconInv' /\ Icon!News
<1>1. PICK report \in Icon!Reports : Icon!watch_closures(report)
  BY DEF Icon!Poll
<1>2. UNCHANGED <<view, menu, sessions>>
  BY DEF Icon!Poll
<1>3. CASE report = None
  <2>1. seen' = [seen EXCEPT !.closed = {}] /\ notices' = {} /\ said' = [said EXCEPT !.explained = {}]
    BY <1>1, <1>3 DEF Icon!watch_closures
  <2> QED BY <1>2, <2>1 DEF IconInv, Icon!News
<1>4. CASE report # None
  <2>1. PICK told \in Icon!Told(report) :
          /\ seen' = Icon!Remembered(report, told)
          /\ notices' = Icon!Countdown(report) \cup told
          /\ said' = [explained |-> (said.explained \cap report.closed) \cup Icon!Explained(told),
                      over |-> said.over \cup ({seen.announced} \ {report.freeze}),
                      last |-> IF \E n \in told : n.kind # "waiting" THEN hour ELSE said.last]
    BY <1>1, <1>4 DEF Icon!watch_closures
  <2>2. report.freeze \notin said.over \/ report.freeze = None
    BY <1>4 DEF Icon!Reports
  <2>3. Icon!Explained(told) \subseteq report.closed \ seen.closed
    BY ToldIsNews DEF Icon!Explained
  <2>4. Icon!News
    <3>1. ASSUME NEW n \in Icon!Countdown(report)
          PROVE  n.kind = "freeze" /\ n.what \cap said.over = {}
      BY <2>2, <3>1 DEF Icon!Countdown, Icon!Notice
    <3> QED BY <2>1, <3>1, ToldIsNews DEF Icon!News, IconInv
  <2>5. CASE Icon!newly_delayed(report) # {}
    <3>1. seen' = [seen EXCEPT !.announced = report.freeze, !.waiting = report.delayed]
      BY <2>1, <2>5 DEF Icon!Remembered
    <3>2. Icon!Explained(told) = {} /\ ~\E n \in told : n.kind # "waiting"
      BY <2>5, ToldIsNews DEF Icon!Explained
    <3> QED BY <1>2, <2>1, <2>4, <3>1, <3>2 DEF IconInv
  <2>6. CASE Icon!newly_delayed(report) = {}
    <3>1. seen' = [closed |-> report.closed, announced |-> report.freeze, waiting |-> report.delayed,
                   started |-> report.profiles, last |-> IF told = {} THEN seen.last ELSE hour]
      BY <2>1, <2>6 DEF Icon!Remembered
    <3>2. (\E n \in told : n.kind # "waiting") <=> told # {}
      BY <2>6, ToldIsNews
    <3> QED BY <1>2, <2>1, <2>3, <2>4, <3>1, <3>2 DEF IconInv
  <2> QED BY <2>5, <2>6
<1> QED BY <1>3, <1>4

LEMMA MenuShowsAWay ==
  ASSUME Icon!show_menu PROVE Icon!WaysOut
<1> SUFFICES ASSUME NEW s \in sessions, s.lock.conditions # {}
             PROVE  \E i \in menu' : i.id = s.id /\ i.do \in {"wait", "release_note"}
  BY DEF Icon!WaysOut
<1>1. Icon!Items(s) \subseteq menu'
  BY DEF Icon!show_menu, Icon!Menu
<1>2. CASE s.lock.delayed_release_at = None
  <2>1. Icon!OffersOf(s).delayed_release
    BY <1>2 DEF Icon!OffersOf, Icon!Offers
  <2>2. Icon!Item("wait", s.id) \in Icon!Items(s)
    BY <2>1 DEF Icon!Items
  <2> QED BY <1>1, <2>2 DEF Icon!Item
<1>3. CASE s.lock.delayed_release_at # None
  <2>1. Icon!Item("release_note", s.id) \in Icon!Items(s)
    BY <1>3 DEF Icon!Items
  <2> QED BY <1>1, <2>1 DEF Icon!Item
<1> QED BY <1>2, <1>3

\* An item that ends a session s here and now is offered only where that can be done.
TrueOf(item, s) ==
  /\ item.id = s.id
  /\ item.do \in {"end", "confirmed_end", "unlock"} =>
       s.lock.conditions \subseteq {"credential", "confirm", "timer", "peer"}
  /\ item.do = "end" => s.lock.conditions \subseteq {"timer", "peer"}
  /\ item.do = "confirmed_end" => s.lock.conditions \subseteq {"confirm", "timer", "peer"}

LEMMA ItemsAreTrue ==
  ASSUME NEW item \in Icon!Menu PROVE \E s \in sessions : TrueOf(item, s)
<1>1. PICK s \in sessions : item \in Icon!Items(s)
  BY DEF Icon!Menu
<1> SUFFICES TrueOf(item, s)
  OBVIOUS
<1> DEFINE o == Icon!OffersOf(s)
<1>2. /\ "peer" \in s.lock.conditions /\ o.elsewhere = {} =>
           s.lock.conditions \subseteq {"credential", "confirm", "timer", "peer"}
      /\ o.elsewhere = {} => s.lock.conditions \subseteq {"credential", "confirm", "timer", "peer"}
  BY DEF Icon!OffersOf, Icon!Offers
<1>3. o.credential = ("credential" \in s.lock.conditions) /\ o.confirm = ("confirm" \in s.lock.conditions)
  BY DEF Icon!OffersOf, Icon!Offers
<1>4. \/ item \in Icon!Ending(s, o)
      \/ item \in {Icon!Item(d, s.id) : d \in {"release", "emergency", "wait", "release_note"}}
  BY <1>1 DEF Icon!Items
<1>5. CASE item \in Icon!Ending(s, o)
  <2>1. CASE o.elsewhere = {} /\ o.credential
    <3>1. Icon!Ending(s, o) = {Icon!Item("unlock", s.id)}
      BY <2>1 DEF Icon!Ending
    <3>2. item.do = "unlock" /\ item.id = s.id
      BY <1>5, <3>1 DEF Icon!Item
    <3> QED BY <1>2, <2>1, <3>2 DEF TrueOf
  <2>2. CASE o.elsewhere = {} /\ ~o.credential /\ o.confirm
    <3>1. Icon!Ending(s, o) = {Icon!Item("confirmed_end", s.id)}
      BY <2>2 DEF Icon!Ending
    <3>2. item.do = "confirmed_end" /\ item.id = s.id
      BY <1>5, <3>1 DEF Icon!Item
    <3> QED BY <1>2, <1>3, <2>2, <3>2 DEF TrueOf
  <2>3. CASE o.elsewhere = {} /\ ~o.credential /\ ~o.confirm
    <3>1. Icon!Ending(s, o) \subseteq {Icon!Item("end", s.id)}
      BY <2>3 DEF Icon!Ending
    <3>2. item.do = "end" /\ item.id = s.id
      BY <1>5, <3>1 DEF Icon!Item
    <3> QED BY <1>2, <1>3, <2>3, <3>2 DEF TrueOf
  <2>4. CASE o.elsewhere # {}
    BY <1>5, <2>4 DEF Icon!Ending
  <2> QED BY <2>1, <2>2, <2>3, <2>4
<1>6. CASE item \in {Icon!Item(d, s.id) : d \in {"release", "emergency", "wait", "release_note"}}
  <2>1. item.do \in {"release", "emergency", "wait", "release_note"} /\ item.id = s.id
    BY <1>6 DEF Icon!Item
  <2> QED BY <2>1 DEF TrueOf
<1> QED BY <1>4, <1>5, <1>6

\* What a fresh click may be refused for.
StillOpen(do, s) ==
  \/ "timer" \in s.lock.conditions
  \/ do = "unlock" /\ "confirm" \in s.lock.conditions
  \/ "peer" \in s.lock.conditions /\ s.id \notin releases

\* A click ends or marks the session it names and no other, and a fresh one is refused for the timer, for
\* the release, or for the confirmation where a password is asked for too.
LEMMA ClicksAreAnswered ==
  ASSUME IconInv, NEW item, Icon!chosen(item)
  PROVE  IconInv' /\ Icon!Answered
<1> DEFINE mine == Icon!Named(item.id)
           refused == item \in Icon!Menu /\ outcome'.answer = "refused"
<1>1. /\ outcome'.do = item.do /\ outcome'.id = item.id
      /\ outcome'.fresh = (item \in Icon!Menu)
      /\ menu' = {} /\ UNCHANGED <<view, hour, seen, notices, said>>
  BY DEF Icon!chosen
<1>2. mine = {s \in sessions : s.id = item.id}
  BY DEF Icon!Named
<1>3. \A satisfied : Icon!Ended(item.id, satisfied) = {s \in mine : Icon!Lock!CanRelease(s.lock, hour, satisfied)}
  BY DEF Icon!Ended
<1>4. ASSUME item \in Icon!Menu PROVE \E s \in mine : TrueOf(item, s)
  BY <1>2, <1>4, ItemsAreTrue DEF TrueOf
\* What is left unproved of a session that is not ended.
<1>5. ASSUME NEW s \in mine, NEW satisfied, s \notin Icon!Ended(item.id, satisfied)
      PROVE  \E c \in s.lock.conditions : c \notin satisfied
  BY <1>3, <1>5 DEF Icon!Lock!CanRelease
<1>6. ASSUME NEW s \in mine, NEW given, NEW c, c \notin Icon!Proven(item.id, given, releases)
      PROVE  <<item.id, c>> \notin given /\ (c = "peer" => s.id \notin releases)
  BY <1>2, <1>6 DEF Icon!Proven
<1> HIDE DEF mine, refused
<1>7. ASSUME sessions \ mine \subseteq sessions',
             \A s \in sessions' : s = [id |-> s.id, lock |-> s.lock],
             refused => \E s \in mine : StillOpen(item.do, s)
      PROVE  IconInv' /\ Icon!Answered
  <2>1. IconInv'
    BY <1>1, <1>7 DEF IconInv
  <2>2. Icon!Answered
    BY <1>1, <1>7 DEF Icon!Answered, mine, refused, StillOpen
  <2> QED BY <2>1, <2>2
<1>8. CASE Icon!handle_end(item)
  <2> DEFINE over == Icon!Ended(item.id, Icon!Claimed(item.do) \cup Icon!Proven(item.id, proofs, releases))
  <2>1. /\ sessions' = sessions \ over /\ item.do \in {"end", "confirmed_end"}
        /\ outcome'.answer = IF over = {} THEN "refused" ELSE "ok"
    BY <1>8 DEF Icon!handle_end, Icon!Done
  <2>2. ASSUME refused PROVE \E s \in mine : StillOpen(item.do, s)
    <3>1. PICK s \in mine : TrueOf(item, s)
      BY <1>4, <2>2 DEF refused
    <3>2. s \notin over
      BY <2>1, <2>2 DEF refused
    <3>3. PICK c \in s.lock.conditions : c \notin Icon!Claimed(item.do) \cup Icon!Proven(item.id, proofs, releases)
      BY <1>5, <3>2
    <3>4. c = "peer" => s.id \notin releases
      BY <1>6, <3>3
    <3>5. c \in {"timer", "peer"}
      BY <2>1, <3>1, <3>3 DEF TrueOf, Icon!Claimed
    <3> QED BY <3>4, <3>5 DEF StillOpen
  <2>3. over \subseteq mine
    BY <1>3
  <2> QED BY <1>7, <2>1, <2>2, <2>3 DEF IconInv
<1>9. CASE Icon!handle_unlock(item)
  <2> DEFINE given == proofs \cup {<<item.id, "credential">>}
             over == Icon!Ended(item.id, Icon!Proven(item.id, given, releases))
  <2>1. /\ sessions' = sessions \ over /\ item.do = "unlock"
        /\ outcome'.answer = IF over = {} THEN "refused" ELSE "ok"
    BY <1>9 DEF Icon!handle_unlock, Icon!Done
  <2>2. ASSUME refused PROVE \E s \in mine : StillOpen(item.do, s)
    <3>1. PICK s \in mine : TrueOf(item, s)
      BY <1>4, <2>2 DEF refused
    <3>2. s \notin over
      BY <2>1, <2>2 DEF refused
    <3>3. PICK c \in s.lock.conditions : c \notin Icon!Proven(item.id, given, releases)
      BY <1>5, <3>2
    <3>4. <<item.id, c>> \notin given /\ (c = "peer" => s.id \notin releases)
      BY <1>6, <3>3
    <3>5. c \in {"confirm", "timer", "peer"}
      BY <2>1, <3>1, <3>4 DEF TrueOf
    <3> QED BY <2>1, <3>4, <3>5 DEF StillOpen
  <2>3. over \subseteq mine
    BY <1>3
  <2> QED BY <1>7, <2>1, <2>2, <2>3 DEF IconInv
<1>10. CASE Icon!handle_release(item)
  <2>1. PICK over : over \subseteq mine /\ sessions' = sessions \ over /\ outcome'.answer = "ok"
    BY <1>3, <1>10 DEF Icon!handle_release
  <2> QED BY <1>7, <2>1 DEF IconInv, refused
<1>11. CASE Icon!handle_emergency(item)
  <2>1. /\ sessions' = sessions \/ sessions' = sessions \ mine
        /\ outcome'.answer = "refused" => mine = {}
    BY <1>11 DEF Icon!handle_emergency, mine
  <2>2. ~refused
    BY <1>4, <2>1 DEF refused
  <2> QED BY <1>7, <2>1, <2>2 DEF IconInv
<1>12. CASE Icon!handle_request_release(item)
  <2>1. /\ sessions' = {IF s.id = item.id THEN [s EXCEPT !.lock = Icon!Lock!RequestRelease(s.lock, hour)] ELSE s :
                          s \in sessions}
        /\ outcome'.answer = IF mine = {} THEN "refused" ELSE "ok"
    BY <1>12 DEF Icon!handle_request_release, mine
  <2>2. sessions \ mine \subseteq sessions'
    BY <1>2, <2>1
  <2>3. \A s \in sessions' : s = [id |-> s.id, lock |-> s.lock]
    BY <2>1 DEF IconInv
  <2>4. ~refused
    BY <1>4, <2>1 DEF refused
  <2> QED BY <1>7, <2>2, <2>3, <2>4
<1> QED BY <1>8, <1>9, <1>10, <1>11, <1>12 DEF Icon!chosen

LEMMA NextIconInv == IconInv /\ [Icon!Next]_icon => IconInv'
<1> SUFFICES ASSUME IconInv, [Icon!Next]_icon PROVE IconInv'
  OBVIOUS
<1>1. CASE Icon!Poll
  BY <1>1, PollIsNews
<1>2. CASE Icon!show_menu
  BY <1>2 DEF Icon!show_menu, IconInv
<1>3. CASE Icon!Later
  BY <1>3 DEF Icon!Later, IconInv
<1>4. ASSUME NEW item \in menu, Icon!chosen(item) PROVE IconInv'
  BY <1>4, ClicksAreAnswered
<1>5. CASE UNCHANGED icon
  BY <1>5 DEF icon, IconInv
<1> QED BY <1>1, <1>2, <1>3, <1>4, <1>5 DEF Icon!Next

\* What a step of the icon says is so.
IconStep ==
  /\ view.about = "notices" => Icon!News
  /\ menu' # {} /\ menu = {} => Icon!WaysOut
  /\ menu' = {} /\ menu # {} => Icon!Answered

LEMMA NextIconStep == IconInv /\ Icon!Next => IconStep
<1> SUFFICES ASSUME IconInv, Icon!Next PROVE IconStep
  OBVIOUS
<1>1. CASE Icon!Poll
  BY <1>1, PollIsNews DEF Icon!Poll, IconStep
<1>2. CASE Icon!show_menu
  BY <1>2, MenuShowsAWay DEF Icon!show_menu, IconStep
<1>3. CASE Icon!Later
  BY <1>3 DEF Icon!Later, IconStep
<1>4. ASSUME NEW item \in menu, Icon!chosen(item) PROVE IconStep
  BY <1>4, ClicksAreAnswered DEF Icon!chosen, IconInv, IconStep
<1> QED BY <1>1, <1>2, <1>3, <1>4 DEF Icon!Next

-----------------------------------------------------------------------------
(***************************************************************************)
(* Together.  A step is one part's, and leaves the others' state alone.    *)
(***************************************************************************)
LEMMA Starts == Start => FileInv /\ ChannelInv /\ DevicesInv /\ IconInv
BY InitFileInv, InitChannelInv, InitDevicesInv, InitIconInv DEF Start

LEMMA StepOfParts ==
  ASSUME [Step]_<<part, vars, channel, watchdogs, devices, icon>>
  PROVE  [Next]_vars /\ [Channel!Next]_channel /\ [Devices!Next]_devices /\ [Icon!Next]_icon
BY DEF Step, vars, channel, devices, icon

LEMMA StepKeeps ==
  FileInv /\ ChannelInv /\ DevicesInv /\ IconInv /\ [Step]_<<part, vars, channel, watchdogs, devices, icon>>
    => FileInv' /\ ChannelInv' /\ DevicesInv' /\ IconInv'
BY StepOfParts, NextFileInv, NextChannelInv, NextDevicesInv, NextIconInv

LEMMA AllHold == System => [](FileInv /\ ChannelInv /\ DevicesInv /\ IconInv)
BY Starts, StepKeeps, PTL DEF System

\* What was saved is loaded again, with a copy of it or a witness left whatever one failure takes: the
\* files of state.rs, written to the side, copied and renamed.
THEOREM SavedIsKept == System => []StateSurvives
BY AllHold, FileInvSurvives, PTL

\* The service refuses a connection, and the window of the app a call, only when every place is taken:
\* the counters of ipc.rs and server.rs that a panic, a hang-up and a restart all give back.
THEOREM PlacesAreGiven == System => OnlyWhenFull
<1>1. ASSUME ChannelInv, [Step]_<<part, vars, channel, watchdogs, devices, icon>>
      PROVE  [\A c \in Channel!Clients : ~Channel!TurnedAway(c)]_(Channel!vars)
  BY <1>1, StepOfParts, NotTurnedAway, SetsOfClients
<1>2. System => [](ChannelInv)
  BY AllHold, PTL
<1> QED BY <1>1, <1>2, PTL DEF System, OnlyWhenFull, Channel!OnlyWhenFull

\* Whoever a device has accepted is the device its phrase was compared with, in any number of devices that
\* read the same invite: phrase_for and accept_invite of pair.rs.
THEOREM AcceptedWasCompared == System => []ComparedIsHeld
<1>1. DevicesInv => ComparedIsHeld
  BY DEF DevicesInv
<1> QED BY <1>1, AllHold, PTL

\* Nobody silent for twice the grace of a beacon is listed, however the clocks of devices differ and
\* whatever the network delivers late or again: announce, overhear and nearby of lan.rs and node.rs.
THEOREM SilenceIsNoticed == System => []GhostsFade
BY AllHold, NoGhosts, PTL

\* The icon explains nothing twice, announces no countdown that is over, crowds no notices, shows a way out
\* of every lock, and what it offers is not refused for a reason it could have shown: watch_closures of
\* shell.rs, and the menu and its clicks in menu.rs, for any sessions, locks, reports and passing of time.
THEOREM TheIconIsTrue == System => TraySpeaksTrue
<1>1. ASSUME IconInv, [Step]_<<part, vars, channel, watchdogs, devices, icon>>
      PROVE  [IconStep]_(Icon!vars)
  BY <1>1, StepOfParts, NextIconStep DEF icon, Icon!vars
<1>2. System => []IconInv
  BY AllHold, PTL
<1>3. System => [][IconStep]_(Icon!vars)
  BY <1>1, <1>2, PTL DEF System
<1> QED BY <1>3 DEF TraySpeaksTrue, Icon!TraySpeaksTrue, IconStep
=============================================================================
