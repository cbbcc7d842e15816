----------------------------- MODULE MCProcesses -----------------------------
(***************************************************************************)
(* Processes with two programs and a page that waits for a password, two   *)
(* watchdogs, up to three devices, and an icon with two apps or two locks. *)
(***************************************************************************)
EXTENDS Processes

Either   == {"main", "bak"}
AnyFiles == {{"main"}, {"bak"}, {"main", "bak"}}

Scene(who, whichPhones, first, inReach, ahead, last, careful, failing, weak) ==
  [devices |-> who, phones |-> whichPhones, hosts |-> first, links |-> inReach, skew |-> ahead,
   until |-> last, compared |-> careful, events |-> failing, frail |-> weak]

\* Three that read each other's invites; two, one with its clock ahead, that find each other once they
\* are paired; and a service that takes what is posted to it while its loop reopens the files, is killed
\* and has its files spoiled.
Strangers == Scene({1, 2, 3}, {1, 2, 3}, {1}, {}, <<0, 0, 0>>, 0, TRUE, 0, {})
Near      == Scene({1, 2}, {1, 2}, {1}, {<<1, 2>>}, <<0, 1>>, 2, TRUE, 0, {})
AtADesk   == Scene({1, 2}, {2}, {1}, {}, <<0, 0>>, 1, FALSE, 1, {1})

MCMeetings == {Strangers, Near, AtADesk}

View(kind, closed, waiting, countdowns, begun, locked, last) ==
  [about |-> kind, apps |-> closed, slow |-> waiting, freezes |-> countdowns,
   profiles |-> begun, locks |-> locked, until |-> last]

LockOf(conditions, end) == [ends_at |-> end, conditions |-> conditions, delayed_release_at |-> None]

\* Two apps and one that is made to wait, two countdowns, two profiles; and pairs of locks to click on.
Watched == View("notices", {"a", "b"}, {"slow"}, {3, 4}, {"p", "q"}, {}, 5)
Clicked ==
  {View("clicks", {}, {}, {}, {}, locks, 4) :
     locks \in {{LockOf({"credential", "peer"}, 3), LockOf({"confirm"}, None)},
               {LockOf({"restart", "far"}, None), LockOf({"timer"}, 2)},
               {LockOf({"credential", "confirm"}, None), LockOf({}, 3)},
               {LockOf({"peer"}, None), LockOf({"tag", "timer"}, 3)}}}

MCViews == {Watched} \cup Clicked
=============================================================================
