------------------------------- MODULE Pairing -------------------------------
(***************************************************************************)
(* How two devices come to listen to each other, and how they find each    *)
(* other afterwards: the invites, phrases and peer list of pair.rs, the    *)
(* keys of device.rs, the files of store.rs, the beacons of lan.rs and     *)
(* node.rs, and the two processes that drive them: the Windows loop of     *)
(* runner.rs with its requests in svc/pairing.rs, and the phone's Sync of  *)
(* ffi/sync.rs.                                                            *)
(*                                                                         *)
(* A device is its keys: an identity is the device and how often its keys  *)
(* were made anew.  A hash stands for what it was computed from, so a      *)
(* phrase is the two identities and the nonce it covers.                   *)
(***************************************************************************)
EXTENDS Integers, FiniteSets, Functions

CONSTANTS
  None,
  Scenes,                \* who there is, how their clocks differ, and the bounds
  INVITE_SECONDS,        \* how long an invite is good for
  BEACON_GRACE_SECONDS   \* how long a beacon is believed, and a device listed

VARIABLES
  scene,    \* [devices, phones, hosts, links, skew, until, compared, events, frail], as it is throughout
  time,
  file,     \* file[d]: identity.bin and peers.json
  made,     \* made[d]: how often keys were made on d
  opened,   \* opened[d]: the store as start_sync has read it and the loop not yet installed
  handle,   \* handle[d]: the state requests are answered from, while there is one
  node,     \* node[d]: whether d announces itself and listens
  invites,  \* every invite and reply that some screen has shown
  shown,    \* shown[d]: the invite d has read and the phrase it shows for it, being whom
  air,      \* air[d]: the last beacon d sent
  nearby,   \* nearby[d]: when d last heard whom
  agreed,   \* history: what was accepted where, after a comparison with whom
  events    \* how many failures and losses there have been

vars == <<scene, time, file, made, opened, handle, node, invites, shown, air, nearby, agreed, events>>

Devices == scene.devices
Phones == scene.phones
Clock(d) == time + scene.skew[d]

Identity(d, n) == <<d, n>>
Nobody == [i \in {} |-> 0]
Put(f, id, x) == [i \in DOMAIN f \cup {id} |-> IF i = id THEN x ELSE f[i]]

\* What a device holds while its process runs.
Shared(id, peers) == [id |-> id, peers |-> peers]
Me(d) == handle[d].id

Active(peers) == {id \in DOMAIN peers : peers[id].revoked = None}

Init ==
  /\ scene \in Scenes
  /\ time = 0 /\ events = 0
  /\ file = [d \in Devices |-> [key |-> None, peers |-> Nobody]]
  /\ made = [d \in Devices |-> 0]
  /\ opened = [d \in Devices |-> None] /\ handle = opened
  /\ node = [d \in Devices |-> FALSE]
  /\ invites = {} /\ agreed = {}
  /\ shown = [d \in Devices |-> None] /\ air = shown
  /\ nearby = [d \in Devices |-> Nobody]

\* Something fails on a device, or its process ends.
Event(d) == d \in scene.frail /\ events < scene.events /\ events' = events + 1

-----------------------------------------------------------------------------
(***************************************************************************)
(* The store.  Keys that are missing or unreadable are made anew, which is *)
(* another device to everybody else; an unreadable peer list is an empty   *)
(* one.                                                                    *)
(***************************************************************************)
Opened(d) ==
  Shared(Identity(d, IF file[d].key \in Nat THEN file[d].key ELSE made[d] + 1),
         IF file[d].peers = None THEN Nobody ELSE file[d].peers)

\* The keys are written as soon as they are made.
OpenStore(d) ==
  LET key == Opened(d).id[2] IN
  /\ file' = [file EXCEPT ![d].key = key]
  /\ made' = [made EXCEPT ![d] = IF key > @ THEN key ELSE @]

(***************************************************************************)
(* The Windows service opens it when it starts, and again every so often   *)
(* as long as nothing is paired or the node did not start.  What it read   *)
(* is handed to the requests only once the node has been tried.            *)
(***************************************************************************)
\* A mutant: the loop does not look again once it holds an identity.
start_sync_Once(d) ==
  /\ d \notin Phones /\ ~node[d] /\ opened[d] = None /\ handle[d] = None
  /\ OpenStore(d)
  /\ opened' = [opened EXCEPT ![d] = Opened(d)]
  /\ UNCHANGED <<scene, time, handle, node, invites, shown, air, nearby, agreed, events>>

start_sync(d) ==
  /\ d \notin Phones /\ ~node[d] /\ opened[d] = None
  /\ OpenStore(d)
  /\ opened' = [opened EXCEPT ![d] = Opened(d)]
  /\ UNCHANGED <<scene, time, handle, node, invites, shown, air, nearby, agreed, events>>

\* Nothing is bound before somebody is paired.  A store that could not be opened, and a node
\* that could not start, leave no handle.
install_pairing(d) ==
  /\ opened[d] # None
  /\ opened' = [opened EXCEPT ![d] = None]
  /\ \/ /\ handle' = [handle EXCEPT ![d] = opened[d]]
        /\ node' = [node EXCEPT ![d] = Active(opened[d].peers) # {}]
        /\ UNCHANGED events
     \/ /\ Event(d)
        /\ handle' = [handle EXCEPT ![d] = None]
        /\ UNCHANGED node
  /\ UNCHANGED <<scene, time, file, made, invites, shown, air, nearby, agreed>>

\* The phone opens it once for the life of the app, and listens while the app asks for it.
Open(d) ==
  /\ d \in Phones /\ handle[d] = None
  /\ OpenStore(d)
  /\ handle' = [handle EXCEPT ![d] = Opened(d)]
  /\ UNCHANGED <<scene, time, opened, node, invites, shown, air, nearby, agreed, events>>

start_node(d) ==
  /\ d \in Phones /\ handle[d] # None /\ ~node[d] /\ scene.links # {}
  /\ node' = [node EXCEPT ![d] = TRUE]
  /\ UNCHANGED <<scene, time, file, made, opened, handle, invites, shown, air, nearby, agreed, events>>

stop_node(d) ==
  /\ d \in Phones /\ node[d]
  /\ node' = [node EXCEPT ![d] = FALSE]
  /\ nearby' = [nearby EXCEPT ![d] = Nobody]
  /\ UNCHANGED <<scene, time, file, made, opened, handle, invites, shown, air, agreed, events>>

Killed(d) ==
  /\ handle[d] # None /\ Event(d)
  /\ opened' = [opened EXCEPT ![d] = None]
  /\ handle' = [handle EXCEPT ![d] = None]
  /\ node' = [node EXCEPT ![d] = FALSE]
  /\ shown' = [shown EXCEPT ![d] = None]
  /\ nearby' = [nearby EXCEPT ![d] = Nobody]
  /\ UNCHANGED <<scene, time, file, made, invites, air, agreed>>

\* One of the files can no longer be read.
Spoiled(d) ==
  /\ file[d].key \in Nat /\ Event(d)
  /\ \/ file' = [file EXCEPT ![d].key = None]
     \/ file' = [file EXCEPT ![d].peers = None]
  /\ UNCHANGED <<scene, time, made, opened, handle, node, invites, shown, air, nearby, agreed>>

-----------------------------------------------------------------------------
(***************************************************************************)
(* Pairing.  A device shows an invite; the other reads it, shows a reply   *)
(* with its own keys and the same nonce, and the first reads that.  Both   *)
(* show a phrase, and it is people who compare the two and press accept.   *)
(***************************************************************************)
invite(d) ==
  /\ handle[d] # None /\ d \in scene.hosts
  /\ \A i \in invites : i.nonce # d
  /\ invites' = invites \cup {[from |-> Me(d), nonce |-> d,
                               issued |-> Clock(d), expires |-> Clock(d) + INVITE_SECONDS]}
  /\ UNCHANGED <<scene, time, file, made, opened, handle, node, shown, air, nearby, agreed, events>>

\* A mutant: the phrase is made of the nonce alone.
Phrase_NonceOnly(me, from, nonce) == nonce

\* The same whoever computes it: the keys are put in order first.
Phrase(me, from, nonce) == <<{me, from}, nonce>>

phrase_for(d, i) ==
  /\ handle[d] # None /\ scene.compared
  /\ shown' = [shown EXCEPT ![d] = [invite |-> i, by |-> Me(d),
                                   phrase |-> Phrase(Me(d), i.from, i.nonce)]]
  /\ shown' # shown
  /\ UNCHANGED <<scene, time, file, made, opened, handle, node, invites, air, nearby, agreed, events>>

reply_to(d, i) ==
  /\ handle[d] # None
  /\ invites' = invites \cup {[i EXCEPT !.from = Me(d)]}
  /\ invites' # invites
  /\ UNCHANGED <<scene, time, file, made, opened, handle, node, shown, air, nearby, agreed, events>>

Good(i, now) == i.issued <= now /\ now < i.expires

\* The peers file is written at once, or the device answers with an error and holds what it holds.
Saved(d) ==
  \/ /\ file' = [file EXCEPT ![d].peers = handle'[d].peers] /\ UNCHANGED events
  \/ Event(d) /\ UNCHANGED file

accept_invite(d, e) ==
  LET i == shown[d].invite IN
  /\ handle[d] # None /\ shown[d] # None
  /\ e # d /\ shown[e] # None /\ shown[e].phrase = shown[d].phrase
  /\ Good(i, Clock(d)) /\ i.from # Me(d)
  /\ handle' = [handle EXCEPT ![d].peers =
                  Put(@, i.from, [paired |-> Clock(d), revoked |-> None])]
  /\ shown' = [shown EXCEPT ![d] = None]
  /\ Saved(d)
  /\ agreed' = agreed \cup {[on |-> d, id |-> i.from, with |-> shown[e].by]}
  /\ UNCHANGED <<scene, time, made, opened, node, invites, air, nearby>>

\* The window of the service takes a reply that is posted to it without a phrase being shown.
posted(d, i) ==
  /\ d \notin Phones /\ handle[d] # None
  /\ Good(i, Clock(d)) /\ i.from # Me(d)
  /\ handle' = [handle EXCEPT ![d].peers =
                  Put(@, i.from, [paired |-> Clock(d), revoked |-> None])]
  /\ handle' # handle
  /\ Saved(d)
  /\ UNCHANGED <<scene, time, made, opened, node, invites, shown, air, nearby, agreed>>

\* The earliest removal is the one that counts.
revoke(d, id) ==
  /\ handle[d] # None /\ id \in DOMAIN handle[d].peers
  /\ handle' = [handle EXCEPT ![d].peers[id].revoked =
                  IF @ = None \/ Clock(d) < @ THEN Clock(d) ELSE @]
  /\ handle' # handle
  /\ Saved(d)
  /\ UNCHANGED <<scene, time, made, opened, node, invites, shown, air, nearby, agreed>>

-----------------------------------------------------------------------------
(***************************************************************************)
(* Finding each other.  Beacons are signed and carry the sender's clock;   *)
(* the network may lose one, or deliver it late or again.  Those that      *)
(* nobody is in reach of are left out.                                     *)
(***************************************************************************)
announce(d) ==
  /\ node[d] /\ \E e \in Devices : <<d, e>> \in scene.links
  /\ air' = [air EXCEPT ![d] = [from |-> Me(d), at |-> Clock(d)]]
  /\ air' # air
  /\ UNCHANGED <<scene, time, file, made, opened, handle, node, invites, shown, nearby, agreed, events>>

\* A mutant: the age of a beacon is not looked at.
Checked_AnyAge(beacon, peers, now) == beacon.from \in Active(peers)

Checked(beacon, peers, now) ==
  /\ now - beacon.at <= BEACON_GRACE_SECONDS /\ beacon.at - now <= BEACON_GRACE_SECONDS
  /\ beacon.from \in Active(peers)

overhear(d, e) ==
  /\ node[d] /\ <<e, d>> \in scene.links /\ air[e] # None
  /\ Checked(air[e], handle[d].peers, Clock(d))
  /\ nearby' = [nearby EXCEPT ![d] = Put(@, air[e].from, Clock(d))]
  /\ nearby' # nearby
  /\ UNCHANGED <<scene, time, file, made, opened, handle, node, invites, shown, air, agreed, events>>

\* Asking who is near forgets whoever was not heard for too long.
Fresh(d) == {id \in DOMAIN nearby[d] : Clock(d) - nearby[d][id] <= BEACON_GRACE_SECONDS}

list_nearby(d) ==
  /\ Fresh(d) # DOMAIN nearby[d]
  /\ nearby' = [nearby EXCEPT ![d] = Restrict(@, Fresh(d))]
  /\ UNCHANGED <<scene, time, file, made, opened, handle, node, invites, shown, air, agreed, events>>

Pass ==
  /\ time < scene.until
  /\ time' = time + 1
  /\ UNCHANGED <<scene, file, made, opened, handle, node, invites, shown, air, nearby, agreed, events>>

Next ==
  \/ Pass
  \/ \E d \in Devices :
       \/ start_sync(d) \/ install_pairing(d) \/ Open(d) \/ start_node(d) \/ stop_node(d)
       \/ Killed(d) \/ Spoiled(d)
       \/ invite(d) \/ announce(d) \/ list_nearby(d)
       \/ \E i \in invites : phrase_for(d, i) \/ reply_to(d, i) \/ posted(d, i)
       \/ \E e \in Devices : accept_invite(d, e) \/ overhear(d, e)
       \/ handle[d] # None /\ \E id \in DOMAIN handle[d].peers : revoke(d, id)

\* The loop of the service comes round for ever.
Services == UNION {s.devices \ s.phones : s \in Scenes}

Fairness == \A d \in Services : WF_vars(d \in Devices /\ (start_sync(d) \/ install_pairing(d)))

Spec == Init /\ [][Next]_vars /\ Fairness

-----------------------------------------------------------------------------
(***************************************************************************)
(* Whoever a device has accepted is the device its phrase was compared     *)
(* with, though an invite may be read by several and replied to by each.   *)
(***************************************************************************)
ComparedIsHeld == \A a \in agreed : a.id = a.with

(***************************************************************************)
(* Nobody is listed as near who has been silent for longer than a beacon   *)
(* is believed and a listing is kept, whatever was delivered late or again.*)
(***************************************************************************)
GhostsFade ==
  \A d \in Devices : \A id \in Fresh(d) :
    LET sent == air[id[1]] IN
    Clock(d) - sent.at <= 2 * BEACON_GRACE_SECONDS

(***************************************************************************)
(* A machine whose files name a device it listens to comes to listen on    *)
(* the network, without being restarted and although a start failed.       *)
(***************************************************************************)
ListensOncePaired ==
  \A d \in Services :
    (d \in Devices \ Phones /\ file[d].peers # None /\ Active(file[d].peers) # {})
      ~> (d \in Devices /\ (node[d] \/ file[d].peers = None \/ Active(file[d].peers) = {}))

=============================================================================
