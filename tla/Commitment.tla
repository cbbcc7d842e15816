----------------------------- MODULE Commitment -----------------------------
(***************************************************************************)
(* What Curfew promises, whatever runs it: a lock that stands is kept, and *)
(* made no lighter, until there is a right to be let go.  It says nothing  *)
(* of windows, requests, proofs, clocks that are read too early or the     *)
(* loop that reads them; a program keeps the promise if it implements this *)
(* specification, under a mapping that says what it holds its user to.     *)
(***************************************************************************)
EXTENDS Locks

VARIABLES
  now,     \* the time a lock runs out by
  held,    \* the lock of each commitment that stands
  met,     \* for each commitment ever made, the conditions the user has met
  passes   \* the emergency passes the user has spent

vars == <<now, held, met, passes>>

Init == DOMAIN held = {} /\ passes = {}

\* A commitment is made once.  One that has been let go does not come back under its name.
Made(id) == id \notin DOMAIN met /\ id \in DOMAIN met'

\* It may be strengthened, and its release brought forward.
Kept(id) == id \in DOMAIN held' /\ AtLeast(held'[id], held[id])

\* It is let go when it has run out, when all it asks for has been met, or with a pass.
LetGo(id) ==
  /\ id \notin DOMAIN held'
  /\ \/ IsExpired(held[id], now)
     \/ held[id].conditions \subseteq met'[id]
     \/ passes' # passes /\ DOMAIN held \ DOMAIN held' = {id}

Next ==
  /\ now' >= now
  /\ passes \subseteq passes'
  /\ DOMAIN met \subseteq DOMAIN met'
  /\ \A id \in DOMAIN held : Kept(id) \/ LetGo(id)
  /\ \A id \in DOMAIN held' \ DOMAIN held : Made(id)

Spec == Init /\ [][Next]_vars
=============================================================================
