----------------------------- MODULE SharedLock -----------------------------
(***************************************************************************)
(* One profile's lock on several devices.  Any device may start the        *)
(* profile under one of the Offered locks, hear another device's lock,     *)
(* begin the delayed release, write the lock to its store, and read the    *)
(* store back into the running session: Android restores both when the     *)
(* enforcement service is created and when the screen is opened, so the    *)
(* store may be behind what is running.  Everything that arrives from      *)
(* outside goes through Merge, everything from the store through Harden.   *)
(* A device runs the profile from the beginning, under no lock.            *)
(***************************************************************************)
EXTENDS Locks

CONSTANTS
  Devices,
  Offered,     \* the locks a start may ask for
  MaxNow       \* bound on the clock

ASSUME SharedLockAssumption ==
  /\ Offered \subseteq LockSet
  /\ MaxNow \in Nat

VARIABLES
  now,         \* one trusted instant, the same on every device
  held,        \* held[d]: the lock of the session running on d
  stored,      \* stored[d]: what d last wrote to its store
  heard        \* history: the locks that have reached d, by whatever path

vars == <<now, held, stored, heard>>

Init ==
  /\ now = 0
  /\ held = [d \in Devices |-> Unlocked]
  /\ stored = [d \in Devices |-> Unlocked]
  /\ heard = [d \in Devices |-> {}]

Clock ==
  /\ now < MaxNow
  /\ now' = now + 1
  /\ UNCHANGED <<held, stored, heard>>

\* Sessions::start for a profile that is already running, and for one that is not.
StartOn(d, l) ==
  /\ held' = [held EXCEPT ![d] = Merge(@, l)]
  /\ heard' = [heard EXCEPT ![d] = @ \cup {l}]
  /\ UNCHANGED <<now, stored>>

\* The other device's Start entry is replayed here.
Hear(d, e) ==
  /\ held' = [held EXCEPT ![d] = Merge(@, held[e])]
  /\ heard' = [heard EXCEPT ![d] = @ \cup heard[e]]
  /\ UNCHANGED <<now, stored>>

\* Sessions::request_release, which asks no more of a session than that it runs.
AskOn(d) ==
  /\ LET asked == RequestRelease(held[d], now)
     IN /\ held' = [held EXCEPT ![d] = asked]
        /\ heard' = [heard EXCEPT ![d] = @ \cup ({asked} \ {held[d]})]
  /\ UNCHANGED <<now, stored>>

Save(d) ==
  /\ stored' = [stored EXCEPT ![d] = held[d]]
  /\ UNCHANGED <<now, held, heard>>

\* Sessions::restore_without_weakening, for a profile that is still running.
RestoreOn_Replaces(d) ==
  /\ held' = [held EXCEPT ![d] = stored[d]]
  /\ UNCHANGED <<now, stored, heard>>

RestoreOn(d) ==
  /\ held' = [held EXCEPT ![d] = Harden(@, stored[d])]
  /\ UNCHANGED <<now, stored, heard>>

Next ==
  \/ Clock
  \/ \E d \in Devices :
       \/ \E l \in Offered : StartOn(d, l)
       \/ \E e \in Devices : Hear(d, e)
       \/ AskOn(d)
       \/ Save(d)
       \/ RestoreOn(d)

Spec == Init /\ [][Next]_vars

-----------------------------------------------------------------------------
TypeOK ==
  /\ now \in Int
  /\ held \in [Devices -> LockSet]
  /\ stored \in [Devices -> LockSet]

(***************************************************************************)
(* Two devices that have been told of the same locks, in whatever order    *)
(* and however often, hold their user to the same thing: the conditions    *)
(* and the end do not depend on delivery.  A stale store read back in the  *)
(* middle does not change that.                                            *)
(***************************************************************************)
SameNewsSameHold ==
  \A d, e \in Devices :
    heard[d] = heard[e] =>
      /\ held[d].conditions = held[e].conditions
      /\ held[d].ends_at = held[e].ends_at

(***************************************************************************)
(* Nothing that reaches a device, and nothing read from its store, drops a *)
(* condition or brings an end forward.  This is what makes a restart, a    *)
(* second start or a peer no way out of a lock.                            *)
(***************************************************************************)
NeverLighter ==
  [][\A d \in Devices :
       /\ held[d].conditions \subseteq held'[d].conditions
       /\ EndsNoEarlier(held'[d].ends_at, held[d].ends_at)]_vars
=============================================================================
