------------------------- MODULE TrustedClockProofs -------------------------
(***************************************************************************)
(* That trusted time cannot be won and a restart cannot be feigned, for    *)
(* any tolerance, any moves of the wall clock and any number of boots.     *)
(***************************************************************************)
EXTENDS TrustedClock, TLAPS

(***************************************************************************)
(* What is remembered, in memory or on disk, hangs together: the counter   *)
(* and the witness were last fed by one reading; if that reading was taken *)
(* in this boot, the uptime has grown since by the time that really        *)
(* passed; and the boot a session was seen in is no later than the one of  *)
(* the reading, and earlier if the counter has moved since.                *)
(***************************************************************************)
Paired(w, c) ==
  /\ w = None => c.boot_id = 0
  /\ w # None => /\ c.boot_id >= 1
                 /\ c.boot_id = w.last_boot_id /\ c.last_uptime = w.last_uptime

Elapsed(w) ==
  w # None => /\ w.boot <= boot
              /\ w.boot = boot => /\ w.at <= real
                                  /\ uptime - w.last_uptime = real - w.at

Sighted(w, c, s) ==
  s # None => /\ w # None
              /\ s.boot <= w.boot
              /\ c.boot_id # s.boot_id => s.boot < w.boot

Remembers(w, c, s) == Paired(w, c) /\ Elapsed(w) /\ Sighted(w, c, s)

Inv ==
  /\ TypeOK
  /\ Remembers(witness, counter, seen)
  /\ Remembers(disk.witness, disk.counter, disk.seen)
  /\ started => witness # None /\ witness.boot = boot

-----------------------------------------------------------------------------
\* What one reading does to the counter and the witness.
LEMMA ReadingType ==
  ASSUME TypeOK, observe_clock
  PROVE  /\ counter' \in Counter
         /\ witness' \in Witness
<1>1. counter' \in Counter
  BY DEF TypeOK, observe_clock, Counted, Counter
<1>2. counter'.boot_id \in Nat
  BY <1>1 DEF Counter
<1>3. ASSUME witness # None
      PROVE  Judged(witness, Reading(counter'.boot_id)) \in Int
  BY <1>2, <1>3, TrustedClockAssumption DEF TypeOK, Witness, Judged, Reading, Later
<1>4. Observed(witness, Reading(counter'.boot_id)) \in Witness
  BY <1>2, <1>3 DEF TypeOK, Witness, Observed, Witnessed, Reading
<1> QED BY <1>1, <1>4 DEF observe_clock

LEMMA ReadingRemembers ==
  ASSUME TypeOK, Remembers(witness, counter, seen), observe_clock,
         UNCHANGED machine, UNCHANGED seen
  PROVE  /\ Remembers(witness, counter, seen)'
         /\ witness' # None /\ witness'.boot = boot
<1>1. /\ counter' \in Counter /\ witness' \in Witness /\ witness' # None
  BY ReadingType, TrustedClockAssumption
<1>2. /\ counter'.last_uptime = uptime
      /\ counter'.boot_id = IF counter.boot_id = 0 \/ uptime < counter.last_uptime
                            THEN counter.boot_id + 1 ELSE counter.boot_id
  BY DEF observe_clock, Counted
<1>3. /\ witness'.last_uptime = uptime /\ witness'.last_boot_id = counter'.boot_id
      /\ witness'.at = real /\ witness'.boot = boot
  BY DEF observe_clock, Observed, Witnessed, Reading
<1>4. Paired(witness, counter)'
  BY <1>1, <1>2, <1>3 DEF Paired, TypeOK, Counter
<1>5. Elapsed(witness)'
  BY <1>3 DEF Elapsed, machine, TypeOK
<1>6. ASSUME seen # None
      PROVE  /\ seen.boot <= boot
             /\ counter'.boot_id # seen.boot_id => seen.boot < boot
  <2>1. /\ witness # None /\ witness \in Witness /\ seen \in Sighting
        /\ seen.boot <= witness.boot /\ witness.boot <= boot
        /\ counter.boot_id # seen.boot_id => seen.boot < witness.boot
        /\ counter.boot_id >= 1
        /\ counter.last_uptime = witness.last_uptime
    BY <1>6 DEF Remembers, Paired, Elapsed, Sighted, TypeOK
  <2>2. /\ seen.boot \in Nat /\ witness.boot \in Nat /\ boot \in Nat
        /\ witness.last_uptime \in Nat /\ uptime \in Nat /\ real \in Nat /\ witness.at \in Nat
    BY <2>1 DEF TypeOK, Witness, Sighting
  <2>3. counter'.boot_id # counter.boot_id => witness.boot # boot
    BY <1>2, <2>1, <2>2 DEF Remembers, Elapsed
  <2> QED BY <2>1, <2>2, <2>3
<1>7. Sighted(witness, counter, seen)'
  BY <1>1, <1>3, <1>6 DEF Sighted
<1> QED BY <1>1, <1>3, <1>4, <1>5, <1>7 DEF Remembers

-----------------------------------------------------------------------------
(***************************************************************************)
(* The invariant, one step per action.                                     *)
(***************************************************************************)
LEMMA InitInv == Init => Inv
BY TrustedClockAssumption
   DEF Init, Inv, TypeOK, Remembers, Paired, Elapsed, Sighted, Nothing, NoCounter, Counter

\* Nothing that is remembered is disturbed by a second passing or by the wall clock.
LEMMA PassingTime ==
  ASSUME TypeOK, NEW w, w = None \/ w \in Witness, NEW c, NEW s, Remembers(w, c, s),
         NEW by \in Nat, real' = real + by, uptime' = uptime + by, boot' = boot
  PROVE  /\ w # None => w.boot <= boot'
         /\ w # None /\ w.boot = boot' => /\ w.at <= real'
                                          /\ uptime' - w.last_uptime = real' - w.at
BY DEF Remembers, Elapsed, TypeOK, Witness

LEMMA TickInv == Inv /\ Tick => Inv'
<1> SUFFICES ASSUME Inv, Tick PROVE Inv'
  OBVIOUS
<1>1. TypeOK'
  BY DEF Inv, TypeOK, Tick, memory
<1>2. Remembers(witness, counter, seen)'
  <2>1. Elapsed(witness)'
    BY PassingTime DEF Inv, TypeOK, Tick, memory, Elapsed
  <2> QED BY <2>1 DEF Inv, Tick, memory, Remembers, Paired, Sighted
<1>3. Remembers(disk.witness, disk.counter, disk.seen)'
  <2>1. Elapsed(disk.witness)'
    BY PassingTime DEF Inv, TypeOK, Tick, memory, Elapsed
  <2> QED BY <2>1 DEF Inv, Tick, memory, Remembers, Paired, Sighted
<1> QED BY <1>1, <1>2, <1>3 DEF Inv, Tick, memory

LEMMA SetWallInv == ASSUME Inv, NEW by \in WallMoves, SetWall(by) PROVE Inv'
<1>1. TypeOK'
  BY TrustedClockAssumption DEF Inv, TypeOK, SetWall, memory
<1> QED BY <1>1 DEF Inv, SetWall, memory, Remembers, Paired, Elapsed, Sighted

\* Memory that was lost remembers nothing.
LEMMA StoppedRemembers ==
  Stopped => /\ Remembers(witness, counter, seen)' /\ ~started'
             /\ witness' = None /\ seen' = None /\ counter' \in Counter
BY DEF Stopped, NoCounter, Counter, Remembers, Paired, Elapsed, Sighted

LEMMA RebootInv == ASSUME Inv, NEW off \in OffTimes, Reboot(off) PROVE Inv'
<1>1. TypeOK'
  BY StoppedRemembers, TrustedClockAssumption DEF Inv, TypeOK, Reboot
<1>2. Remembers(disk.witness, disk.counter, disk.seen)'
  BY DEF Inv, TypeOK, Witness, Reboot, Remembers, Paired, Elapsed, Sighted
<1> QED BY <1>1, <1>2, StoppedRemembers DEF Inv, Reboot

LEMMA BeginInv == Inv /\ Begin => Inv'
BY DEF Inv, TypeOK, Begin, machine, Remembers, Paired, Elapsed, Sighted

LEMMA KillInv == Inv /\ Kill => Inv'
<1> SUFFICES ASSUME Inv, Kill PROVE Inv'
  OBVIOUS
<1>1. TypeOK'
  BY StoppedRemembers DEF Inv, TypeOK, Kill, machine
<1>2. Remembers(disk.witness, disk.counter, disk.seen)'
  BY DEF Inv, Kill, machine, Remembers, Paired, Elapsed, Sighted
<1> QED BY <1>1, <1>2, StoppedRemembers DEF Inv, Kill

\* A reading of the clocks, by the loop or by a handler.
LEMMA ReadingInv ==
  ASSUME Inv, observe_clock, UNCHANGED <<machine, up, seen, disk>>
  PROVE  Inv'
<1>1. TypeOK'
  BY ReadingType DEF Inv, TypeOK, machine
<1>2. Remembers(disk.witness, disk.counter, disk.seen)'
  BY DEF Inv, machine, Remembers, Paired, Elapsed, Sighted
<1>3. /\ Remembers(witness, counter, seen)'
      /\ witness' # None /\ witness'.boot = boot
  BY ReadingRemembers DEF Inv
<1> QED BY <1>1, <1>2, <1>3 DEF Inv, machine

LEMMA SeeInv == Inv /\ See => Inv'
<1> SUFFICES ASSUME Inv, See PROVE Inv'
  OBVIOUS
<1>1. TypeOK'
  BY DEF Inv, TypeOK, See, machine, Counter, Sighting
<1>2. Sighted(witness, counter, seen)'
  BY DEF Inv, TypeOK, See, machine, Sighted
<1> QED BY <1>1, <1>2 DEF Inv, See, machine, Remembers, Paired, Elapsed, Sighted

LEMMA SaveInv == Inv /\ Save => Inv'
BY DEF Inv, TypeOK, Save, machine, memory, Remembers, Paired, Elapsed, Sighted

LEMMA NextInv == Inv /\ [Next]_vars => Inv'
<1> SUFFICES ASSUME Inv, [Next]_vars PROVE Inv'
  OBVIOUS
<1>1. CASE Tick BY <1>1, TickInv
<1>2. ASSUME NEW by \in WallMoves, SetWall(by) PROVE Inv' BY <1>2, SetWallInv
<1>3. ASSUME NEW off \in OffTimes, Reboot(off) PROVE Inv' BY <1>3, RebootInv
<1>4. CASE Begin BY <1>4, BeginInv
<1>5. CASE Kill BY <1>5, KillInv
<1>6. CASE Iterate BY <1>6, ReadingInv DEF Iterate
<1>7. CASE Answer BY <1>7, ReadingInv DEF Answer
<1>8. CASE See BY <1>8, SeeInv
<1>9. CASE Save BY <1>9, SaveInv
<1>10. CASE UNCHANGED vars
  BY <1>10 DEF Inv, TypeOK, vars, machine, memory, Remembers, Paired, Elapsed, Sighted
<1> QED BY <1>1, <1>2, <1>3, <1>4, <1>5, <1>6, <1>7, <1>8, <1>9, <1>10 DEF Next

LEMMA InvHolds == Spec => []Inv
BY InitInv, NextInv, PTL DEF Spec

\* The state keeps its type.
THEOREM TypeCorrect == Spec => []TypeOK
<1>1. Inv => TypeOK BY DEF Inv
<1> QED BY <1>1, InvHolds, PTL

(***************************************************************************)
(* A restart is believed only if there was one: killing the service,       *)
(* setting the clock and a state file that is behind make no evidence.     *)
(***************************************************************************)
THEOREM RestartNotFeigned == Spec => []EvidenceMeansRestart
<1>1. Inv => EvidenceMeansRestart
  BY DEF Inv, TypeOK, Witness, Sighting, Remembers, Elapsed, Sighted, EvidenceMeansRestart
<1> QED BY <1>1, InvHolds, PTL

\* What one reading credits within a boot is the time since the last one.
LEMMA CreditIsElapsed ==
  ASSUME Inv, observe_clock, witness # None, witness.boot = boot
  PROVE  witness'.trusted - witness.trusted <= witness'.at - witness.at
<1>1. /\ witness \in Witness /\ counter \in Counter
      /\ real \in Nat /\ uptime \in Nat
      /\ counter.boot_id >= 1 /\ counter.boot_id = witness.last_boot_id
      /\ counter.last_uptime = witness.last_uptime
      /\ witness.at <= real /\ uptime - witness.last_uptime = real - witness.at
  BY DEF Inv, TypeOK, Remembers, Paired, Elapsed
<1>2. /\ witness.last_uptime \in Nat /\ witness.at \in Nat /\ witness.trusted \in Int
      /\ counter.boot_id \in Nat /\ uptime >= witness.last_uptime
  BY <1>1 DEF Witness, Counter
<1>3. counter'.boot_id = witness.last_boot_id
  BY <1>1, <1>2 DEF observe_clock, Counted
<1>4. Judged(witness, Reading(counter'.boot_id)) = witness.trusted + (uptime - witness.last_uptime)
  BY <1>1, <1>2, <1>3 DEF Judged, Reading, Later
<1>5. witness'.trusted = witness.trusted + (real - witness.at) /\ witness'.at = real
  BY <1>1, <1>4 DEF observe_clock, Observed, Witnessed
<1> QED BY <1>1, <1>2, <1>5

\* Within one boot trusted time never runs ahead of real time, whatever the wall clock says.
THEOREM NoTimeIsWon == Spec => NoFreeTime
<1> DEFINE Fair == /\ up /\ up' /\ witness # None /\ witness # witness'
                   /\ witness.boot = witness'.boot
                   => witness'.trusted - witness.trusted <= witness'.at - witness.at
<1>1. Inv /\ [Next]_vars => [Fair]_vars
  <2> SUFFICES ASSUME Inv, Next, up, up', witness # None, witness # witness',
                      witness.boot = witness'.boot
               PROVE  witness'.trusted - witness.trusted <= witness'.at - witness.at
    BY DEF Fair
  <2>1. observe_clock /\ UNCHANGED machine
    BY DEF Next, Tick, SetWall, Reboot, Stopped, Begin, Kill, Iterate, Answer, See, Save, memory
  <2>2. witness'.boot = boot
    BY <2>1, ReadingType, TrustedClockAssumption
       DEF Inv, observe_clock, Observed, Witnessed
  <2> QED BY <2>1, <2>2, CreditIsElapsed
<1> QED BY <1>1, InvHolds, PTL DEF Spec, NoFreeTime

-----------------------------------------------------------------------------
(***************************************************************************)
(* What the clock loses.  As long as nobody sets the wall clock it tells   *)
(* the real time.  The counter has counted no more boots than there were   *)
(* by the reading that fed it, and a counter that has counted them all was *)
(* fed by readings each of which gave up the tolerance at most once for    *)
(* every restart before it.                                                *)
(***************************************************************************)
Kept(w, c) ==
  w # None => /\ w.boot >= 1 /\ w.boot <= boot /\ c.boot_id <= w.boot /\ w.at <= real
              /\ honest => w.last_wall = w.at
              /\ honest /\ c.boot_id = w.boot =>
                   w.last_wall - w.trusted <= TOLERANCE_SECONDS * (w.boot - 1)

Lag ==
  /\ boot >= 1
  /\ honest => wall = real
  /\ Kept(witness, counter) /\ Kept(disk.witness, disk.counter)

LEMMA InitLag == Init => Lag
BY DEF Init, Lag, Kept, Nothing

\* A reading on a machine whose clock was left alone.
LEMMA ReadingKeeps ==
  ASSUME Inv, Lag, observe_clock, UNCHANGED machine
  PROVE  Kept(witness, counter)'
<1>1. /\ witness' \in Witness /\ witness' # None /\ counter' \in Counter
      /\ witness'.boot = boot /\ witness'.at = real /\ witness'.last_wall = wall
      /\ counter'.boot_id = IF counter.boot_id = 0 \/ uptime < counter.last_uptime
                            THEN counter.boot_id + 1 ELSE counter.boot_id
  BY ReadingType, TrustedClockAssumption
     DEF Inv, observe_clock, Counted, Observed, Witnessed, Reading
<1>2. /\ boot \in Nat /\ boot >= 1 /\ real \in Nat /\ wall \in Int /\ uptime \in Nat
      /\ boot' = boot /\ real' = real /\ honest' = honest
      /\ counter.boot_id \in Nat /\ counter.last_uptime \in Nat /\ TOLERANCE_SECONDS \in Nat
      /\ honest => wall = real
  BY TrustedClockAssumption DEF Inv, TypeOK, Lag, machine, Counter
<1>3. CASE witness = None
  <2>1. counter.boot_id = 0
    BY <1>3 DEF Inv, Remembers, Paired
  <2>2. witness'.trusted = wall
    BY <1>3 DEF observe_clock, Observed, Witnessed, Reading
  <2>3. TOLERANCE_SECONDS * (boot - 1) >= 0
    BY <1>2
  <2> QED BY <1>1, <1>2, <2>1, <2>2, <2>3 DEF Kept
<1>4. CASE witness # None
  <2>1. /\ witness \in Witness
        /\ counter.boot_id >= 1 /\ counter.boot_id = witness.last_boot_id
        /\ counter.last_uptime = witness.last_uptime
        /\ witness.boot >= 1 /\ witness.boot <= boot /\ counter.boot_id <= witness.boot
        /\ witness.at <= real
        /\ honest => witness.last_wall = witness.at
        /\ honest /\ counter.boot_id = witness.boot =>
             witness.last_wall - witness.trusted <= TOLERANCE_SECONDS * (witness.boot - 1)
        /\ witness.boot = boot => uptime - witness.last_uptime = real - witness.at
    BY <1>4 DEF Inv, Lag, Kept, TypeOK, Remembers, Paired, Elapsed
  <2>2. /\ witness.last_wall \in Int /\ witness.trusted \in Int /\ witness.at \in Nat
        /\ witness.boot \in Nat /\ witness.last_uptime \in Nat
    BY <2>1 DEF Witness
  <2>3. witness'.trusted = Judged(witness, Reading(counter'.boot_id))
    BY <1>4 DEF observe_clock, Observed, Witnessed
  <2>4. CASE uptime < counter.last_uptime
    <3>1. witness.boot < boot /\ counter'.boot_id = counter.boot_id + 1
      BY <1>1, <1>2, <2>1, <2>2, <2>4
    <3>2. witness'.trusted >= witness.trusted
                              + IF wall - witness.last_wall > TOLERANCE_SECONDS
                                THEN wall - witness.last_wall ELSE 0
      BY <1>2, <2>1, <2>2, <2>3, <2>4, <3>1 DEF Judged, Reading, Later
    <3>3. ASSUME honest, counter'.boot_id = boot
          PROVE  wall - witness'.trusted <= TOLERANCE_SECONDS * (boot - 1)
      <4>1. counter.boot_id = witness.boot /\ witness.boot = boot - 1
        BY <1>2, <2>1, <2>2, <3>1, <3>3
      <4>2. wall - witness'.trusted
              <= (witness.last_wall - witness.trusted) + TOLERANCE_SECONDS
        <5>1. witness'.trusted \in Int
          BY <1>1 DEF Witness
        <5> QED BY <1>2, <2>2, <3>2, <5>1
      <4>3. witness.last_wall - witness.trusted <= TOLERANCE_SECONDS * (boot - 2)
        BY <1>2, <2>1, <3>3, <4>1
      <4>4. TOLERANCE_SECONDS * (boot - 2) + TOLERANCE_SECONDS = TOLERANCE_SECONDS * (boot - 1)
        BY <1>2
      <4>5. /\ witness'.trusted \in Int
            /\ TOLERANCE_SECONDS * (boot - 2) \in Int /\ TOLERANCE_SECONDS * (boot - 1) \in Int
        BY <1>1, <1>2 DEF Witness
      <4> HIDE DEF Witness
      <4> QED BY <1>2, <2>2, <4>2, <4>3, <4>4, <4>5
    <3> QED BY <1>1, <1>2, <2>1, <2>2, <3>1, <3>3 DEF Kept
  <2>5. CASE ~(uptime < counter.last_uptime)
    <3>1. /\ counter'.boot_id = counter.boot_id
          /\ witness'.trusted = witness.trusted + (uptime - witness.last_uptime)
      BY <1>1, <1>2, <2>1, <2>2, <2>3, <2>5 DEF Judged, Reading, Later
    <3>2. ASSUME honest, counter'.boot_id = boot
          PROVE  /\ witness.boot = boot
                 /\ wall - witness'.trusted = witness.last_wall - witness.trusted
      BY <1>2, <2>1, <2>2, <3>1, <3>2
    <3> QED BY <1>1, <1>2, <2>1, <2>2, <3>1, <3>2 DEF Kept
  <2> QED BY <2>4, <2>5
<1> QED BY <1>3, <1>4

LEMMA NextLag == Inv /\ Lag /\ [Next]_vars => Lag'
<1> SUFFICES ASSUME Inv, Lag, [Next]_vars PROVE Lag'
  OBVIOUS
<1>1. /\ witness = None \/ witness \in Witness
      /\ disk.witness = None \/ disk.witness \in Witness
      /\ boot \in Nat /\ real \in Nat /\ wall \in Int /\ TypeOK
  BY DEF Inv, TypeOK
<1>2. CASE Tick
  BY <1>1, <1>2 DEF Lag, Kept, Tick, memory, Witness
<1>3. ASSUME NEW by \in WallMoves, SetWall(by) PROVE Lag'
  BY <1>3 DEF Lag, Kept, SetWall, memory
<1>4. ASSUME NEW off \in OffTimes, Reboot(off) PROVE Lag'
  BY <1>1, <1>4, TrustedClockAssumption DEF Lag, Kept, Reboot, Stopped, Witness
<1>5. CASE Begin
  BY <1>5 DEF Lag, Kept, Begin, machine
<1>6. CASE Kill
  BY <1>6 DEF Lag, Kept, Kill, Stopped, machine
<1>7. ASSUME Iterate \/ Answer PROVE Lag'
  <2>1. observe_clock /\ UNCHANGED machine /\ UNCHANGED disk
    BY <1>7 DEF Iterate, Answer
  <2>2. Kept(witness, counter)'
    BY <2>1, ReadingKeeps
  <2> QED BY <2>1, <2>2 DEF Lag, Kept, machine
<1>8. CASE See
  BY <1>8 DEF Lag, Kept, See, machine
<1>9. CASE Save
  BY <1>9 DEF Lag, Kept, Save, machine, memory
<1>10. CASE UNCHANGED vars
  BY <1>10 DEF Lag, Kept, vars, machine, memory
<1> QED BY <1>2, <1>3, <1>4, <1>5, <1>6, <1>7, <1>8, <1>9, <1>10 DEF Next

(***************************************************************************)
(* A machine whose wall clock is left alone and whose restarts are noticed *)
(* falls behind by no more than the tolerance for each of them, however    *)
(* often the service is killed and whatever file it comes back from.       *)
(***************************************************************************)
THEOREM LittleTimeIsLost == Spec => []LagBounded
<1>1. Inv /\ Lag => LagBounded
  <2> SUFFICES ASSUME Inv, Lag, honest, witness # None, Noticed
               PROVE  witness.last_wall - witness.trusted <= TOLERANCE_SECONDS * (boot - 1)
    BY DEF LagBounded
  <2>1. witness.boot = boot
    BY DEF Inv, TypeOK, Lag, Kept, Noticed, Counter, Witness
  <2> QED BY <2>1 DEF Lag, Kept, Noticed
<1> QED BY <1>1, InvHolds, InitLag, NextLag, PTL DEF Spec
=============================================================================
