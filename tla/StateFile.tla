------------------------------ MODULE StateFile ------------------------------
(***************************************************************************)
(* The state file of the Windows service, curfew-win/src/state.rs: the     *)
(* steps of save against the file system, load, and what the watchdog of   *)
(* curfew-svc/src/watchdog.rs concludes from it.  The process may die, and *)
(* a step may fail, between any two of them; while it is down a file may   *)
(* be damaged or deleted.                                                  *)
(*                                                                         *)
(* A content is a version of the state, of which only whether it holds a   *)
(* running session matters, or Torn: present, but not a whole document.    *)
(***************************************************************************)
EXTENDS Naturals

CONSTANTS
  Absent, Torn,
  Damageable,     \* which files, of "main" and "bak", may be damaged while the process is down
  Deletable,      \* which sets of them may be deleted
  MaxVersion      \* bound on the changes to the state

ASSUME StateFileAssumption ==
  /\ Damageable \subseteq {"main", "bak"}
  /\ Deletable \subseteq SUBSET {"main", "bak"}
  /\ Absent # Torn /\ {Absent, Torn} \cap [version : Nat, running : BOOLEAN] = {}
  /\ MaxVersion \in Nat

VARIABLES
  files,      \* what "main", "bak" and "tmp" hold
  witness,    \* the .locked file exists
  up,
  memory,     \* the state the process holds
  step,       \* where the save has got to
  snapshot,   \* what it is writing
  saved,      \* history: the content of the last save to be completed, or of what was loaded
  streak,     \* history: the completed saves of a running session in a row, up to 2
  touched     \* history: somebody else has damaged or deleted a file

vars == <<files, witness, up, memory, step, snapshot, saved, streak, touched>>

State == [version : Nat, running : BOOLEAN]
Default == [version |-> 0, running |-> FALSE]

Content == State \cup {Absent, Torn}
Whole(f) == files[f] \in State

-----------------------------------------------------------------------------
Loaded(kind, state) == [kind |-> kind, state |-> state]

Recover == IF Whole("bak") THEN Loaded("Recovered", files["bak"]) ELSE Loaded("Lost", Default)

Load ==
  CASE Whole("main") -> Loaded("Ok", files["main"])
    [] files["main"] = Absent /\ files["bak"] = Absent /\ ~witness -> Loaded("Fresh", Default)
    [] OTHER -> Recover

\* What the watchdog asks before it starts a stopped service again, or retires.
LocksRunning == Load.kind = "Lost" \/ Load.state.running

-----------------------------------------------------------------------------
Init ==
  /\ files = [f \in {"main", "bak", "tmp"} |-> Absent]
  /\ witness = FALSE
  /\ up = FALSE
  /\ memory = Default
  /\ step = "idle" /\ snapshot = Default
  /\ saved = Absent /\ streak = 0 /\ touched = FALSE

\* build: a fresh or a lost state is an empty one.
Begin ==
  /\ ~up
  /\ up' = TRUE
  /\ memory' = Load.state
  /\ saved' = (IF Load.kind \in {"Ok", "Recovered"} THEN Load.state ELSE Absent)
  /\ streak' = 0
  /\ UNCHANGED <<files, witness, step, snapshot, touched>>

\* Anything that changes the state: whether a session runs after it is all that is told apart.
Change(running) ==
  /\ up /\ step = "idle"
  /\ memory.version < MaxVersion
  /\ memory' = [version |-> memory.version + 1, running |-> running]
  /\ UNCHANGED <<files, witness, up, step, snapshot, saved, streak, touched>>

(***************************************************************************)
(* save, one step for each thing a crash could leave undone: the witness,  *)
(* the copy to the backup, the temporary file, the rename.                 *)
(***************************************************************************)
SaveWitness ==
  /\ up /\ step = "idle"
  /\ snapshot' = memory
  /\ witness' = memory.running
  /\ streak' = (IF memory.running THEN streak ELSE 0)
  /\ step' = "backup"
  /\ UNCHANGED <<files, up, memory, saved, touched>>

SaveBackup ==
  /\ up
  /\ \/ /\ step = "backup" /\ files["main"] # Absent
        /\ files' = [files EXCEPT !["bak"] = Torn]
        /\ step' = "copying"
     \/ /\ step = "backup" /\ files["main"] = Absent
        /\ step' = "write"
        /\ UNCHANGED files
     \/ /\ step = "copying"
        /\ files' = [files EXCEPT !["bak"] = files["main"]]
        /\ step' = "write"
  /\ UNCHANGED <<witness, up, memory, snapshot, saved, streak, touched>>

\* A mutant: the state is written over the main file itself.
SaveWrite_InPlace ==
  /\ up
  /\ \/ /\ step = "write"
        /\ files' = [files EXCEPT !["main"] = Torn]
        /\ step' = "writing"
     \/ /\ step = "writing"
        /\ files' = [files EXCEPT !["tmp"] = snapshot]
        /\ step' = "rename"
  /\ UNCHANGED <<witness, up, memory, snapshot, saved, streak, touched>>

SaveWrite ==
  /\ up
  /\ \/ /\ step = "write"
        /\ files' = [files EXCEPT !["tmp"] = Torn]
        /\ step' = "writing"
     \/ /\ step = "writing"
        /\ files' = [files EXCEPT !["tmp"] = snapshot]
        /\ step' = "rename"
  /\ UNCHANGED <<witness, up, memory, snapshot, saved, streak, touched>>

SaveRename ==
  /\ up /\ step = "rename"
  /\ files' = [files EXCEPT !["main"] = files["tmp"], !["tmp"] = Absent]
  /\ step' = "idle"
  /\ saved' = snapshot
  /\ streak' = (IF snapshot.running /\ streak < 2 THEN streak + 1 ELSE streak)
  /\ UNCHANGED <<witness, up, memory, snapshot, touched>>

\* A step fails: the save is given up where it is, the loop warns and tries again at its next turn.
SaveFails ==
  /\ up /\ step # "idle"
  /\ step' = "idle"
  /\ UNCHANGED <<files, witness, up, memory, snapshot, saved, streak, touched>>

Crash ==
  /\ up
  /\ up' = FALSE
  /\ step' = "idle" /\ memory' = Default /\ snapshot' = Default
  /\ UNCHANGED <<files, witness, saved, streak, touched>>

\* One file at a time: the other one is whole.
Damage(f) ==
  /\ ~up
  /\ Whole(f) /\ \A g \in {"main", "bak"} \ {f} : Whole(g)
  /\ files' = [files EXCEPT ![f] = Torn]
  /\ touched' = TRUE
  /\ UNCHANGED <<witness, up, memory, step, snapshot, saved, streak>>

Delete(gone) ==
  /\ ~up
  /\ files' = [f \in DOMAIN files |-> IF f \in gone THEN Absent ELSE files[f]]
  /\ touched' = TRUE
  /\ UNCHANGED <<witness, up, memory, step, snapshot, saved, streak>>

Next ==
  \/ Begin
  \/ \E running \in BOOLEAN : Change(running)
  \/ SaveWitness \/ SaveBackup \/ SaveWrite \/ SaveRename \/ SaveFails
  \/ Crash
  \/ \E f \in Damageable : Damage(f)
  \/ \E gone \in Deletable : Delete(gone)

Spec == Init /\ [][Next]_vars

-----------------------------------------------------------------------------
(***************************************************************************)
(* Wherever in a save the process died or the disk refused, the next load  *)
(* gives exactly the last state that was saved whole: not half of the next *)
(* one, and not the one before.  For files nobody else has touched.        *)
(***************************************************************************)
LoadIsLastSaved ==
  ~touched => IF saved = Absent THEN Load.kind \in {"Fresh", "Lost"}
                                ELSE Load = Loaded("Ok", saved)

(***************************************************************************)
(* Once a running session has been saved twice in a row, and until a save  *)
(* without one is begun, the watchdog starts a stopped service again,      *)
(* whatever becomes of the two files: one torn, one deleted, or both.      *)
(***************************************************************************)
WatchdogStays == streak = 2 => LocksRunning

(***************************************************************************)
(* Neither a crash nor somebody's hand on a file costs a running session.  *)
(***************************************************************************)
StateSurvives == LoadIsLastSaved /\ WatchdogStays

=============================================================================
