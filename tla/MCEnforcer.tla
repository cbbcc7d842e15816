----------------------------- MODULE MCEnforcer -----------------------------
(***************************************************************************)
(* Instances of Enforcer.  The waits of a lock are one to three seconds,   *)
(* so that each of them can begin, run out and begin again within MaxNow.  *)
(* The ration's, which are longer, have a story of their own in MCWaysOut. *)
(***************************************************************************)
EXTENDS Enforcer

CONSTANTS Confirm, Tag, work, desk

Window(p, start, end, locks) == [profile |-> p, start |-> start, end |-> end, locks |-> locks]
Ask(p, seconds, locks) == [profile |-> p, seconds |-> seconds, locks |-> locks]

\* An id that no session has may be named too.
Nobody == {<<work, 0>>}

\* Overlapping windows of one profile and a start by hand that outlives the first of them.
ScheduleWindows == {Window(work, 0, 3, {}), Window(work, 2, 5, {Confirm})}
ScheduleStarts == {Ask(work, 2, {})}

\* A profile under two conditions, beside a whole-device one that is scheduled
\* and can be asked for.
RightStarts == {Ask(work, 3, {Confirm, Tag}), Ask(desk, 2, {})}
RightWindows == {Window(desk, 0, 3, {})}
=============================================================================
