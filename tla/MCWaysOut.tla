------------------------------ MODULE MCWaysOut ------------------------------
(***************************************************************************)
(* The ways out of a lock, told twice, since the waits differ in length.   *)
(* "schedule": overlapping windows that are edited and a start by hand,    *)
(* ended by hand or by a release that was asked for; no passes.  "ration": *)
(* long locks that only a pass ends, for the seconds the ration takes.  It *)
(* is spent twice, is refused within the cooldown, refused again with the  *)
(* cooldown past and the quota spent, and is given back as the window      *)
(* slides past the first pass, and then past the second: passes at 0 and   *)
(* 2, or at 1 and 3, bar instant 4 and leave 5, or 6, open.                *)
(***************************************************************************)
EXTENDS MCEnforcer

VARIABLE story

Hours == INSTANCE Enforcer WITH PassQuota <- 0

\* No windows, a condition that is never met, and a release that comes too late.
Ration ==
  INSTANCE Enforcer
    WITH Windows <- {}, Starts <- {Ask(work, 9, {Confirm})}, Claimable <- {}, Strangers <- {},
         DELAYED_RELEASE_SECONDS <- 9, MaxNow <- 6, MaxMinted <- 3

MCInit == Init /\ story \in {"schedule", "ration"}

MCNext ==
  /\ UNCHANGED story
  /\ \/ story = "schedule" /\ Hours!Next
     \/ story = "ration" /\ Ration!Next

MCSpec == MCInit /\ [][MCNext]_<<vars, story>> /\ Fairness
=============================================================================
