------------------------------ MODULE MCMirror ------------------------------
(* Two devices, in the stories that the mirror is about: locks set and met  *)
(* by hand, a window both are configured for, a release one owes the other, *)
(* a meeting only one has, and use and passes across a restart.             *)
EXTENDS Mirror

MCReleasedBy == "phone" :> 2

Ask(p, seconds, locks) == [profile |-> p, seconds |-> seconds, locks |-> locks]
Window(p, start, end, locks) == [profile |-> p, start |-> start, end |-> end, locks |-> locks]
None2 == [d \in Devices |-> {}]

Tale(weekly, asks, events, does, n, until) ==
  [weekly |-> weekly, asks |-> asks, events |-> events, does |-> does, acts |-> n,
   until |-> until]

Both(w) == [d \in Devices |-> {w}]

ByHand == Tale(None2, {Ask("work", 2, {"tag"})}, {}, {"Begin", "Finish"}, 2, 2)
Evening == Tale(Both(Window("work", 0, 3, {"tag"})), {}, {}, {"Finish", "Restart"}, 2, 2)
Phone == Tale(None2, {Ask("work", 4, {"phone"})}, {}, {"Begin", "Release", "RequestTheRelease"}, 2, 1)
Meeting == Tale(None2, {}, {Window("work", 0, 2, {"tag"})}, {"Fetch", "Finish"}, 2, 2)
Rations == Tale(Both(Window("work", 0, 3, {"never"})), {}, {}, {"Use", "Emergency"}, 2, 1)
Recount == Tale(None2, {}, {}, {"Use", "Restart"}, 3, 1)
Respend == Tale(Both(Window("work", 0, 3, {"never"})), {}, {}, {"Emergency", "Restart"}, 2, 1)

MCStories == {ByHand, Evening, Phone, Meeting, Rations, Recount, Respend}
=============================================================================
