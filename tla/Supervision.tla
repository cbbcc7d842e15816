----------------------------- MODULE Supervision -----------------------------
(***************************************************************************)
(* What keeps the Windows service running, and what may stop it: the       *)
(* control handler and the registration of curfew-svc/src/service.rs, the  *)
(* watchdogs of watchdog.rs, the guarded loop and its clean stop in        *)
(* runner.rs, and the removal in main.rs.                                  *)
(*                                                                         *)
(* Of the state file only what it says of a session is kept here; that a   *)
(* save is all or nothing, and that a file which held a session never      *)
(* passes for a fresh one, is StateFile.  A watchdog is a process of its   *)
(* own that outlives the service that started it, so there may come to be  *)
(* several.                                                                *)
(***************************************************************************)
EXTENDS Naturals

CONSTANTS
  Watchdogs,       \* the watchdog processes there may be
  None,
  FAILURE_ACTIONS, \* how often the service control manager starts a service that died
  MaxKills         \* bound on processes killed, reboots and failures to start one

VARIABLES
  registered,  \* whether the service is installed
  up,
  running,     \* whether the process holds a session
  saved,       \* what the state file says: "none", "session", or "lost"
  stopping,    \* the flag the loop looks at between passes
  dogs,        \* dogs[w]: "none", "watching", or "stopped" once it has seen the service so
  child,       \* the watchdog the running service started, if it did
  owed,        \* whether the manager is to start the service, after a failure or at boot
  failures,    \* the failures it has acted on
  removing,    \* how far an uninstall has got
  kills

vars == <<registered, up, running, saved, stopping, dogs, child, owed, failures, removing, kills>>

Alive == {w \in Watchdogs : dogs[w] # "none"}

Init ==
  /\ registered \in BOOLEAN /\ up = FALSE
  /\ running = FALSE /\ saved = "none"
  /\ stopping = FALSE
  /\ dogs = [w \in Watchdogs |-> "none"] /\ child = None
  /\ owed = registered /\ failures = 0
  /\ removing = "no"
  /\ kills \in 0..MaxKills

Kill == kills < MaxKills /\ kills' = kills + 1

\* A mutant: a state that is lost holds no session.
locks_running_Found == saved = "session"

\* What the handler, the watchdogs and the uninstall ask.
locks_running == saved # "none"

-----------------------------------------------------------------------------
(***************************************************************************)
(* The service starts with the sessions of its state file.  With none, and *)
(* without a config to enforce, it stops again at once.                    *)
(***************************************************************************)
Starts ==
  /\ registered /\ ~up
  /\ \/ up' = TRUE /\ running' = (saved = "session") /\ UNCHANGED kills
     \/ saved # "session" /\ Kill /\ UNCHANGED <<up, running>>
  /\ stopping' = FALSE /\ child' = None /\ owed' = FALSE

ManagerStarts ==
  /\ owed /\ Starts
  /\ UNCHANGED <<registered, saved, dogs, failures, removing>>

install ==
  /\ removing = "no"
  /\ registered' = TRUE
  /\ owed' = (owed \/ ~up)
  /\ UNCHANGED <<up, running, saved, stopping, dogs, child, failures, removing, kills>>

\* A pass starts a watchdog when the one this process started is gone; it knows of no other.
spawn(w) ==
  /\ up /\ ~stopping
  /\ child \notin Alive /\ dogs[w] = "none"
  /\ dogs' = [dogs EXCEPT ![w] = "watching"]
  /\ child' = w
  /\ UNCHANGED <<registered, up, running, saved, stopping, owed, failures, removing, kills>>

\* Sessions begin and end, at a request or in a pass.
Session ==
  /\ up /\ running' = ~running
  /\ UNCHANGED <<registered, up, saved, stopping, dogs, child, owed, failures, removing, kills>>

\* The state is written at the end of a pass, at every pass while a session runs.
Persist ==
  /\ up
  /\ saved' = IF running THEN "session" ELSE "none"
  /\ UNCHANGED <<registered, up, running, stopping, dogs, child, owed, failures, removing, kills>>

\* The state file and its backup are deleted or made unreadable.
Lost ==
  /\ ~up /\ saved = "session"
  /\ saved' = "lost"
  /\ UNCHANGED <<registered, up, running, stopping, dogs, child, owed, failures, removing, kills>>

-----------------------------------------------------------------------------
(***************************************************************************)
(* A stop is refused when the file says that a session runs.  One that is  *)
(* accepted ends the loop after the pass it is in, with nothing saved.     *)
(***************************************************************************)
Stop ==
  /\ up /\ ~stopping /\ ~locks_running
  /\ stopping' = TRUE
  /\ UNCHANGED <<registered, up, running, saved, dogs, child, owed, failures, removing, kills>>

Gone == up' = FALSE /\ running' = FALSE /\ stopping' = FALSE /\ child' = None

LoopEnds ==
  /\ up /\ stopping /\ Gone
  /\ UNCHANGED <<registered, saved, dogs, owed, failures, removing, kills>>

\* A process that dies is started by the manager as often as its failure actions say.
Killed ==
  /\ up /\ Kill /\ Gone
  /\ owed' = (failures < FAILURE_ACTIONS)
  /\ failures' = IF failures < FAILURE_ACTIONS THEN failures + 1 ELSE failures
  /\ UNCHANGED <<registered, saved, dogs, removing>>

WatchdogKilled(w) ==
  /\ w \in Alive /\ Kill
  /\ dogs' = [dogs EXCEPT ![w] = "none"]
  /\ UNCHANGED <<registered, up, running, saved, stopping, child, owed, failures, removing>>

\* A shutdown is always obeyed.  The service is of those that start by themselves.
Reboot ==
  /\ Kill /\ Gone
  /\ dogs' = [w \in Watchdogs |-> "none"]
  /\ removing' = "no"
  /\ owed' = registered /\ failures' = 0
  /\ UNCHANGED <<registered, saved>>

-----------------------------------------------------------------------------
(***************************************************************************)
(* A watchdog looks at the service and then at the file: it starts one     *)
(* that is stopped and has a session to keep, and retires when there is    *)
(* nothing to keep or no service.                                          *)
(***************************************************************************)
\* A mutant: a service that is gone is one that is stopped.
look_NeverGone(w) ==
  /\ dogs[w] = "watching" /\ ~up
  /\ dogs' = [dogs EXCEPT ![w] = "stopped"]
  /\ UNCHANGED <<registered, up, running, saved, stopping, child, owed, failures, removing, kills>>

look(w) ==
  /\ dogs[w] = "watching" /\ ~up
  /\ dogs' = [dogs EXCEPT ![w] = IF registered THEN "stopped" ELSE "none"]
  /\ UNCHANGED <<registered, up, running, saved, stopping, child, owed, failures, removing, kills>>

decide(w) ==
  /\ dogs[w] = "stopped"
  /\ dogs' = [dogs EXCEPT ![w] = IF locks_running THEN "watching" ELSE "none"]
  /\ IF locks_running /\ registered /\ ~up
     THEN Starts
     ELSE UNCHANGED <<up, running, stopping, child, owed, kills>>
  /\ UNCHANGED <<registered, saved, failures, removing>>

-----------------------------------------------------------------------------
(***************************************************************************)
(* An uninstall wants to hear from the service and to read in the file     *)
(* that nothing runs; then it stops the service, which may refuse, and     *)
(* deletes it.                                                             *)
(***************************************************************************)
uninstall ==
  \/ /\ removing = "no" /\ registered
     /\ up /\ ~running /\ ~locks_running
     /\ removing' = "checked"
     /\ UNCHANGED <<registered, stopping>>
  \/ /\ removing = "checked"
     /\ IF up /\ locks_running
        THEN removing' = "no" /\ UNCHANGED stopping
        ELSE removing' = "stopped" /\ stopping' = up
     /\ UNCHANGED registered
  \/ /\ removing = "stopped"
     /\ removing' = "no" /\ registered' = FALSE
     /\ UNCHANGED stopping

Uninstall ==
  /\ uninstall
  /\ owed' = (owed /\ registered')
  /\ UNCHANGED <<up, running, saved, dogs, child, failures, kills>>

-----------------------------------------------------------------------------
Next ==
  \/ ManagerStarts \/ install \/ Session \/ Persist \/ Lost
  \/ Stop \/ LoopEnds \/ Killed \/ Reboot \/ Uninstall
  \/ \E w \in Watchdogs : spawn(w) \/ WatchdogKilled(w) \/ look(w) \/ decide(w)

\* The manager keeps its word, and a watchdog looks every three seconds.
Fairness ==
  /\ WF_vars(ManagerStarts)
  /\ \A w \in Watchdogs : WF_vars(look(w) \/ decide(w))

Spec == Init /\ [][Next]_vars /\ Fairness

-----------------------------------------------------------------------------
(***************************************************************************)
(* A service that is down, with a session in its file, is started again if *)
(* the manager owes it or a watchdog is left and nothing is killed any     *)
(* more, though the file be lost meanwhile.                                *)
(***************************************************************************)
Down == registered /\ ~up /\ saved # "none" /\ kills = MaxKills /\ (owed \/ Alive # {})

ComesBack == Down ~> (up \/ ~registered)

(***************************************************************************)
(* Curfew leaves a machine alone that it has nothing to do on: once the    *)
(* service is gone, or down with no session in its file, every watchdog    *)
(* retires, unless it is started again.                                    *)
(***************************************************************************)
NothingToKeep == ~up /\ ~owed /\ (~registered \/ saved = "none")

LeavesAlone == NothingToKeep ~> (Alive = {} \/ ~NothingToKeep)

=============================================================================
