------------------------------- MODULE Service -------------------------------
(***************************************************************************)
(* The enforcer inside the Windows service: the loop of runner.rs with its *)
(* state file.  After every pass the loop writes the file if a session is  *)
(* running, and otherwise only every PERSIST_IDLE seconds.  The process    *)
(* may die between any two steps, and the machine may be restarted while   *)
(* it is down; Begin is build, which reads the file back.                  *)
(*                                                                         *)
(* boot_id is taken to notice every restart and now to go on through one;  *)
(* what becomes of both when they do not is TrustedClock's subject.        *)
(***************************************************************************)
EXTENDS Enforcer

CONSTANTS
  PERSIST_IDLE,
  MaxBoots          \* bound on the boots of the machine

\* A restart is neither checked on this device nor a release of it: they are different conditions.
ASSUME ServiceAssumption ==
  /\ PERSIST_IDLE \in Nat /\ MaxBoots \in Nat
  /\ RestartRequired \notin Provable \cup {OwnRelease}

VARIABLES
  up,               \* the process is alive
  disk,             \* the state file
  last_persist,     \* when the loop last wrote it, or began
  born,             \* history: the boot each session was started in
  paid              \* history: {[id, at]}, the saved sessions ended by an emergency pass

history == <<born, paid>>
service == <<up, disk, last_persist>>
all == <<vars, service, history>>

-----------------------------------------------------------------------------
\* Mutants: the file lacks the boots; the file lacks the passes.
Snapshot_NoBoots == [sessions |-> sessions, passes |-> passes, releases |-> releases,
                     boots |-> NoBoots]
Snapshot_NoPasses == [sessions |-> sessions, passes |-> {}, releases |-> releases, boots |-> boots]

\* What persist writes, of what is modelled.
Snapshot == [sessions |-> sessions, passes |-> passes, releases |-> releases, boots |-> boots]

persist_due(running, since) == running \/ since >= PERSIST_IDLE

ServiceInit ==
  /\ Init
  /\ up = FALSE
  /\ disk = [sessions |-> Default, passes |-> {}, releases |-> {}, boots |-> NoBoots]
  /\ last_persist = 0
  /\ born = NoBoots /\ paid = {}

-----------------------------------------------------------------------------
\* History kept of any step of the enforcer.
Remember ==
  LET new == RunningIds(sessions') \ RunningIds(sessions)
  IN born' = [id \in DOMAIN born \cup new |-> IF id \in new THEN boot_id ELSE born[id]]

EndedByHand == RunningIds(sessions) \ RunningIds(sessions')

Handle ==
  /\ up
  /\ \/ \E r \in Starts : StartSession(r) \/ StartFreeze(r)
     \/ CancelFreeze
     \/ \E id \in Named :
          \/ \E claimed \in SUBSET Conditions : EndSession(id, claimed)
          \/ Unlock(id) \/ Token(id) \/ Release(id) \/ RequestTheRelease(id)
  /\ Remember
  /\ UNCHANGED <<service, paid>>

HandleEmergency ==
  /\ up
  /\ \E id \in Named :
       /\ Emergency(id)
       /\ paid' = paid \cup {[id |-> i, at |-> now] : i \in EndedByHand \cap RunningIds(disk.sessions)}
  /\ Remember
  /\ UNCHANGED <<service>>

LoopObserve ==
  /\ up
  /\ Observe
  /\ UNCHANGED <<service, history>>

LoopPass ==
  /\ up
  /\ Pass
  /\ IF persist_due(sessions'.running # {}, now - last_persist)
     THEN disk' = Snapshot' /\ last_persist' = now
     ELSE UNCHANGED <<disk, last_persist>>
  /\ Remember
  /\ UNCHANGED <<up, paid>>

\* Killed, or stopped cleanly: the loop ends between two iterations and writes nothing more.
\* The histories kept of one life of the process begin anew.
Stop ==
  /\ up
  /\ up' = FALSE
  /\ sessions' = Default /\ proofs' = {} /\ releases' = {} /\ passes' = {} /\ boots' = NoBoots
  /\ loopNow' = None /\ freeze' = None /\ checked' = {} /\ ended' = {}
  /\ UNCHANGED <<now, boot_id, schedule, minted, disk, last_persist, born, paid>>

Restart ==
  /\ ~up
  /\ boot_id < MaxBoots
  /\ boot_id' = boot_id + 1
  /\ UNCHANGED <<now, loopNow, sessions, proofs, releases, passes, boots, freeze,
                 schedule, minted, checked, ended, service, history>>

\* A session that comes back was not paid for after all.
Begin ==
  /\ ~up
  /\ up' = TRUE
  /\ sessions' = disk.sessions /\ passes' = disk.passes
  /\ releases' = disk.releases /\ boots' = disk.boots
  /\ last_persist' = now
  /\ paid' = {e \in paid : e.id \notin RunningIds(disk.sessions)}
  /\ UNCHANGED <<now, loopNow, proofs, boot_id, freeze, schedule, minted, checked, ended,
                 disk, born>>

Environment ==
  /\ Clock \/ \E w \in Windows : EditSchedule(w)
  /\ UNCHANGED <<service, history>>

ServiceNext ==
  \/ Environment \/ Handle \/ HandleEmergency \/ LoopObserve \/ LoopPass
  \/ Stop \/ Restart \/ Begin

ServiceSpec == ServiceInit /\ [][ServiceNext]_all

-----------------------------------------------------------------------------
(***************************************************************************)
(* state.rs of the passes: a ration a restart could forget would be no     *)
(* ration at all.  A session that was in the file when a pass ended it,    *)
(* and that no crash has brought back, is paid for by a use that the       *)
(* ration still counts.                                                    *)
(***************************************************************************)
PassesArePaid == up => \A e \in paid : e.at \in passes

(***************************************************************************)
(* A crash is no way out of a session, and no trap either.  A restart is   *)
(* evidence for exactly the sessions that were running before it, whatever *)
(* was written when; and a session that a pass has enforced is in the      *)
(* state file for as long as it runs.                                      *)
(***************************************************************************)
CrashIsNoWayOut ==
  up => /\ \A s \in sessions.running :
             born[s.id] # boot_id <=> RestartRequired \in Proven(s.id, now)
        /\ DOMAIN boots \cap RunningIds(sessions) \subseteq RunningIds(disk.sessions)
=============================================================================
