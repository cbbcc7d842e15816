------------------------------ MODULE Processes ------------------------------
(***************************************************************************)
(* What goes on around the enforcer, in five parts that do not touch each  *)
(* other's state: the files of the service, its control channel, its       *)
(* watchdogs, the devices that are paired, and the icon by the clock.  One *)
(* of them moves in each behaviour and the others stay as they are at      *)
(* first: nothing that one part promises depends on another.               *)
(***************************************************************************)
EXTENDS StateFile, Integers, FiniteSets

CONSTANTS
  None,
  Askers, Idlers, Pages, MAX_CONNECTIONS, MAX_IN_FLIGHT, MaxFaults,          \* Pipe
  Watchdogs, FAILURE_ACTIONS, MaxKills,                                     \* Supervision
  Meetings, INVITE_SECONDS, BEACON_GRACE_SECONDS,                           \* Pairing
  Views, NOTICE_SECONDS, DELAYED_RELEASE_SECONDS, Quota, Cooldown           \* Tray

ASSUME ProcessesAssumption ==
  /\ IsFiniteSet(Askers \cup Idlers) /\ Pages \subseteq Askers \cup Idlers
  /\ MAX_CONNECTIONS \in Nat /\ MAX_IN_FLIGHT \in Nat
  /\ BEACON_GRACE_SECONDS \in Nat
  /\ \A m \in Meetings : \A d \in m.devices : m.skew[d] \in Int

VARIABLES
  part,
  awake, listening, call, sent, talk, live, in_flight, holder, poisoned, loop, faults,
  registered, alive, running, kept, stopping, dogs, child, owed, failures, removing, kills,
  scene, time, file, made, opened, handle, node, invites, shown, air, nearby, agreed, events,
  view, hour, seen, notices, said, sessions, proofs, releases, spent, menu, outcome

channel   == <<awake, listening, call, sent, talk, live, in_flight, holder, poisoned, loop, faults>>
watchdogs == <<registered, alive, running, kept, stopping, dogs, child, owed, failures, removing, kills>>
devices   == <<scene, time, file, made, opened, handle, node, invites, shown, air, nearby, agreed, events>>
icon      == <<view, hour, seen, notices, said, sessions, proofs, releases, spent, menu, outcome>>

Channel == INSTANCE Pipe WITH up <- awake
Guard == INSTANCE Supervision WITH up <- alive, saved <- kept
Devices == INSTANCE Pairing WITH Scenes <- Meetings
Icon == INSTANCE Tray WITH Scenes <- Views,
          scene <- view, now <- hour, memory <- seen, running <- sessions

Start ==
  /\ part \in {"files", "channel", "watchdogs", "devices", "icon"}
  /\ Init /\ Channel!Init
  /\ Guard!Init /\ (part # "watchdogs" => ~registered /\ kills = 0)
  /\ Devices!Init /\ (part # "devices" => scene = CHOOSE m \in Meetings : m.devices = m.phones)
  /\ Icon!Init /\ (part # "icon" => view = CHOOSE v \in Views : TRUE)

Step ==
  \/ part = "files" /\ Next /\ UNCHANGED <<part, channel, watchdogs, devices, icon>>
  \/ part = "channel" /\ Channel!Next /\ UNCHANGED <<part, vars, watchdogs, devices, icon>>
  \/ part = "watchdogs" /\ Guard!Next /\ UNCHANGED <<part, vars, channel, devices, icon>>
  \/ part = "devices" /\ Devices!Next /\ UNCHANGED <<part, vars, channel, watchdogs, icon>>
  \/ part = "icon" /\ Icon!Next /\ UNCHANGED <<part, vars, channel, watchdogs, devices>>

\* What stays as it is at first has nothing to be fair about: in no other part is anything under way.
System ==
  /\ Start /\ [][Step]_<<part, vars, channel, watchdogs, devices, icon>>
  /\ Channel!Fairness /\ Guard!Fairness /\ Devices!Fairness

-----------------------------------------------------------------------------
\* Whoever asks hears something, whoever else holds a connection for ever.  See Pipe.
Heard == Channel!Heard

\* Nobody is turned away while there is a place.  See Pipe.
OnlyWhenFull == Channel!OnlyWhenFull

\* A service with a session to keep is started again.  See Supervision.
ComesBack == Guard!ComesBack

\* Where there is nothing to keep, every watchdog retires.  See Supervision.
LeavesAlone == Guard!LeavesAlone

\* Whoever was accepted is whoever the phrase was compared with.  See Pairing.
ComparedIsHeld == Devices!ComparedIsHeld

\* Nobody is listed as near who has been silent too long.  See Pairing.
GhostsFade == Devices!GhostsFade

\* A machine that has paired comes to listen.  See Pairing.
ListensOncePaired == Devices!ListensOncePaired

\* The icon explains and offers what is so.  See Tray.
TraySpeaksTrue == Icon!TraySpeaksTrue
=============================================================================
