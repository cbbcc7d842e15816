---------------------------- MODULE TrustedClock ----------------------------
(***************************************************************************)
(* Trusted time and the boot number on Windows: curfew-core/src/clock.rs   *)
(* and boot.rs as curfew-win/src/tick.rs and curfew-svc/src/runner.rs use  *)
(* them.  A machine runs, is switched off and on, and has a wall clock its *)
(* user can set; the service on it reads the two clocks, writes what it    *)
(* knows to the state file now and then, and may be killed at any moment.  *)
(***************************************************************************)
EXTENDS Integers

CONSTANTS
  None,
  TOLERANCE_SECONDS,
  WallMoves,      \* by how much the user may move the wall clock
  OffTimes,       \* for how long the machine may be off
  MaxDrift,       \* bound on how far the wall clock may be moved from the truth
  MaxReal,        \* bound on the seconds that pass
  MaxBoots        \* bound on the boots of the machine

Witness == [last_wall : Int, last_uptime : Nat, last_boot_id : Nat, trusted : Int,
            at : Nat, boot : Nat]
Counter == [last_uptime : Nat, boot_id : Nat]
Sighting == [boot_id : Nat, boot : Nat]

ASSUME TrustedClockAssumption ==
  /\ None \notin Witness \cup Sighting
  /\ TOLERANCE_SECONDS \in Nat
  /\ WallMoves \subseteq Int /\ OffTimes \subseteq Nat
  /\ MaxDrift \in Nat /\ MaxReal \in Nat /\ MaxBoots \in Nat

VARIABLES
  real, wall, uptime, boot,    \* the machine: true time, its wall clock, and the boot it is in
  up,                          \* the service is running
  witness,                     \* ClockWitness, or None before the first reading
  counter,                     \* BootCounter
  seen,                        \* the boot a running session was first seen in, or None
  started,                     \* the loop has read the clocks
  disk,                        \* the state file: what of the above is persisted
  honest                       \* history: the wall clock has never been set

machine == <<real, wall, uptime, boot, honest>>
memory == <<witness, counter, seen, started>>
vars == <<machine, up, memory, disk>>

Later(a, b) == IF a >= b THEN a ELSE b

-----------------------------------------------------------------------------
(***************************************************************************)
(* BootCounter::observe: uptime going backwards is the whole signal.       *)
(***************************************************************************)
\* A mutant: any reading but the next second's is taken for a restart.
Counted_AnyGap(c, at) ==
  [last_uptime |-> at,
   boot_id |-> IF c.boot_id = 0 \/ at > c.last_uptime + 1 \/ at < c.last_uptime
               THEN c.boot_id + 1 ELSE c.boot_id]

Counted(c, at) ==
  [last_uptime |-> at,
   boot_id |-> IF c.boot_id = 0 \/ at < c.last_uptime THEN c.boot_id + 1 ELSE c.boot_id]

(***************************************************************************)
(* ClockWitness.  A reading is a wall clock, an uptime and a boot id; the  *)
(* fields at and boot are history: when it was really taken.               *)
(***************************************************************************)
Reading(id) == [wall |-> wall, uptime |-> uptime, boot_id |-> id]

Witnessed(r, trusted) ==
  [last_wall |-> r.wall, last_uptime |-> r.uptime, last_boot_id |-> r.boot_id,
   trusted |-> trusted, at |-> real, boot |-> boot]

\* Mutants: the wall clock is believed at all times; time the machine was off is never credited.
Judged_ByWall(w, r) == Later(w.trusted, w.trusted + (r.wall - w.last_wall))

Judged_NoCredit(w, r) == Later(w.trusted, w.trusted + (r.uptime - w.last_uptime))

Judged(w, r) ==
  LET rebooted == r.boot_id # w.last_boot_id \/ r.uptime < w.last_uptime
      wall_delta == r.wall - w.last_wall
      credit == IF ~rebooted THEN r.uptime - w.last_uptime
                ELSE IF wall_delta > TOLERANCE_SECONDS THEN wall_delta ELSE 0
  IN Later(w.trusted, w.trusted + credit)

Observed(w, r) == Witnessed(r, IF w = None THEN r.wall ELSE Judged(w, r))

-----------------------------------------------------------------------------
NoCounter == [last_uptime |-> 0, boot_id |-> 0]

Nothing == [witness |-> None, counter |-> NoCounter, seen |-> None]

Init ==
  /\ real = 0 /\ wall = 0 /\ uptime = 0 /\ boot = 1 /\ honest = TRUE
  /\ up = FALSE
  /\ witness = None /\ counter = NoCounter /\ seen = None
  /\ started = FALSE
  /\ disk = Nothing

(***************************************************************************)
(* The machine.                                                            *)
(***************************************************************************)
Tick ==
  /\ real < MaxReal
  /\ real' = real + 1 /\ wall' = wall + 1 /\ uptime' = uptime + 1
  /\ UNCHANGED <<boot, honest, up, memory, disk>>

SetWall(by) ==
  /\ wall + by - real \in -MaxDrift .. MaxDrift
  /\ wall' = wall + by
  /\ honest' = FALSE
  /\ UNCHANGED <<real, uptime, boot, up, memory, disk>>

\* The service's memory is gone.
Stopped ==
  /\ up' = FALSE
  /\ witness' = None /\ counter' = NoCounter /\ seen' = None
  /\ started' = FALSE

Reboot(off) ==
  /\ boot < MaxBoots /\ real + off <= MaxReal
  /\ real' = real + off /\ wall' = wall + off /\ uptime' = 0 /\ boot' = boot + 1
  /\ Stopped
  /\ UNCHANGED <<honest, disk>>

(***************************************************************************)
(* The service.  Begin is build; Iterate is the locked start of a loop     *)
(* iteration; Answer is a handler on the pipe, which reads the clocks too; *)
(* See is Boots::observe in a pass.                                        *)
(***************************************************************************)
Begin ==
  /\ ~up
  /\ up' = TRUE
  /\ witness' = disk.witness /\ counter' = disk.counter /\ seen' = disk.seen
  /\ started' = FALSE
  /\ UNCHANGED <<machine, disk>>

Kill ==
  /\ up
  /\ Stopped
  /\ UNCHANGED <<machine, disk>>

observe_clock ==
  LET c == Counted(counter, uptime)
      w == Observed(witness, Reading(c.boot_id))
  IN /\ counter' = c
     /\ witness' = w

Iterate ==
  /\ up
  /\ observe_clock
  /\ started' = TRUE
  /\ UNCHANGED <<machine, up, seen, disk>>

Answer ==
  /\ up
  /\ observe_clock
  /\ UNCHANGED <<machine, up, seen, started, disk>>

See ==
  /\ up /\ started
  /\ seen = None
  /\ seen' = [boot_id |-> counter.boot_id, boot |-> boot]
  /\ UNCHANGED <<machine, up, witness, counter, started, disk>>

Save ==
  /\ up /\ started
  /\ disk' = [witness |-> witness, counter |-> counter, seen |-> seen]
  /\ UNCHANGED <<machine, up, memory>>

Next ==
  \/ Tick
  \/ \E by \in WallMoves : SetWall(by)
  \/ \E off \in OffTimes : Reboot(off)
  \/ Begin \/ Kill \/ Iterate \/ Answer \/ See \/ Save

Spec == Init /\ [][Next]_vars

-----------------------------------------------------------------------------
TypeOK ==
  /\ real \in Nat /\ wall \in Int /\ uptime \in Nat /\ boot \in Nat
  /\ witness = None \/ witness \in Witness
  /\ counter \in Counter
  /\ seen = None \/ seen \in Sighting
  /\ disk.witness = None \/ disk.witness \in Witness
  /\ disk.counter \in Counter
  /\ disk.seen = None \/ disk.seen \in Sighting

(***************************************************************************)
(* While the machine stays up, no reading gives out more time than has     *)
(* really passed since the reading it is measured from, however the wall   *)
(* clock is set and however often the service is killed and brought back   *)
(* from an old state file in between.                                      *)
(***************************************************************************)
NoFreeTime ==
  [][/\ up /\ up' /\ witness # None /\ witness # witness'
     /\ witness.boot = witness'.boot
     => witness'.trusted - witness.trusted <= witness'.at - witness.at]_vars

(***************************************************************************)
(* A restart is believed only if there was one: the boot id differs from   *)
(* the one a session was first seen in only when the boot does.            *)
(***************************************************************************)
EvidenceMeansRestart ==
  up /\ seen # None /\ counter.boot_id # seen.boot_id => boot # seen.boot

(***************************************************************************)
(* On a machine whose wall clock is left alone, trusted time falls behind  *)
(* it by no more than the tolerance for every restart, provided every      *)
(* restart was noticed: locks end when they said they would.               *)
(***************************************************************************)
Noticed == counter.boot_id = boot

LagBounded ==
  honest /\ up /\ witness # None /\ witness.at = real /\ Noticed =>
    witness.last_wall - witness.trusted <= TOLERANCE_SECONDS * (boot - 1)

=============================================================================
