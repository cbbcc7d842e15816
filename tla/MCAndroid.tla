------------------------------ MODULE MCAndroid ------------------------------
(* One phone in the stories that Android is about: edits of what runs, a    *)
(* plan with a calendar, every kind of lock, and passes beside the sync.    *)
(* A day is ten units long and time begins in the first one.                *)
EXTENDS Android

Zone == [t \in {0} |-> 0]
MCZones == {Zone}
MCTargets ==
  {[kind |-> "app_package", name |-> n] : n \in {"game", "chat", "video"}}
    \cup {[kind |-> "domain", name |-> <<"news", "com">>], [kind |-> "keyword", name |-> "live"]}
MCMonths == <<31, 28>>
MCReleasedBy == [c \in {"mine", "theirs"} |-> IF c = "mine" THEN "me" ELSE "peer"]

On(kind, name, action) ==
  [target |-> [kind |-> kind, name |-> name], action |-> action, platforms |-> {}]
Daily == [kind |-> "daily", at |-> 0]
Limit(n) == [kind |-> "budget", seconds |-> n, refill |-> Daily]
AllowOnly == [kind |-> "allow_only"]
Game(action) == On("app_package", "game", action)
Chat(action) == On("app_package", "chat", action)
News(action) == On("domain", <<"news", "com">>, action)

Written(rules, weekly, calendars, ration) ==
  [profiles |-> <<[id |-> "work", name |-> "Work", rules |-> rules]>>,
   weekly |-> weekly, calendars |-> calendars, sources |-> <<>>,
   tokens |-> <<[id |-> "fridge", fingerprint |-> TRUE]>>,
   emergency |-> [window |-> 5, passes |-> ration, cooldown |-> 2], zone |-> Zone]

\* What it comes back with when its document cannot be read.
MCBlank == [Written(<<>>, <<>>, <<>>, 0) EXCEPT !.profiles = <<>>, !.tokens = <<>>]
MCStarter == [id |-> "distractions", name |-> "Distractions", rules |-> <<Chat(Block)>>]

Ask(seconds, locks) == [profile |-> "work", seconds |-> seconds, locks |-> locks]
Told(doc, edits, asks, comes, events, does, n, time) ==
  [config |-> doc, edits |-> edits, asks |-> asks, comes |-> comes, events |-> events,
   does |-> does, acts |-> n, until |-> time]

\* Rules that are taken away, changed, added and picked anew while they hold somebody, and a document
\* that is not written or not read.
Ruled == Written(<<Game(Block), Chat(Limit(2)), News(Delay(3))>>, <<>>, <<>>, 0)
Rewritten ==
  {[op |-> "rule", profile |-> "work", rule |-> r] :
      r \in {Game(Limit(1)), Chat(Limit(2)), News(Block), Chat(AllowOnly), On("keyword", "live", Block)}}
    \cup {[op |-> "unrule", profile |-> "work", target |-> Game(Block).target],
          [op |-> "apps", profile |-> "work", packages |-> {"game"}],
          [op |-> "apps", profile |-> "work", packages |-> {"game", "chat", "video"}],
          [op |-> "profile", id |-> "work", name |-> "Busy"],
          [op |-> "unprofile", id |-> "work"],
          [op |-> "document", config |-> Written(<<News(Delay(3)), Game(Block)>>, <<>>, <<>>, 3)]}
Editing == Told(Ruled, Rewritten, {Ask(2, {"confirm"})}, {}, {},
                {"start", "edit", "kill", "end", "again", "refuse", "unread"}, 3, 1)

\* A plan that is edited: a window of its own, one of the calendar, and one that another device runs.
Night(id, from, to) ==
  [id |-> id, profile |-> "work", days |-> {}, start |-> from, end |-> to, enabled |-> TRUE, locks |-> {}]
Meeting == [title |-> {"focus"}, calendar |-> "team", place |-> {}, start |-> 3, end |-> 4,
            all_day |-> FALSE, busy |-> TRUE, categories |-> {}]
Meetings == [id |-> "team", profile |-> "work", enabled |-> TRUE, pad_before |-> 1, pad_after |-> 0,
             locks |-> {"confirm"},
             matcher |-> [busy_only |-> FALSE, all_day |-> {}, title |-> {"focus"}, location |-> {},
                          calendar |-> {}, categories |-> {}, at_least |-> {}, at_most |-> {}]]
Planned == Written(<<Game(Block)>>, <<Night("early", 0, 2)>>, <<Meetings>>, 0)
Replanned ==
  {[op |-> "unweekly", id |-> "early"], [op |-> "uncalendar", id |-> "team"],
   [op |-> "weekly", window |-> Night("late", 1, 4)], [op |-> "weekly", window |-> Night("early", 3, 5)],
   [op |-> "calendar", rule |-> [Meetings EXCEPT !.pad_before = 2]]}
Planning == Told(Planned, Replanned, {Ask(3, {})}, {Ask(2, {})}, {Meeting},
                 {"start", "edit", "end", "again", "ask"}, 2, 4)

\* Locks that are opened here, and locks that another device has a part in.
Locked == Written(<<Game(Block)>>, <<>>, <<>>, 1)
Locking == Told(Locked, {}, {Ask(5, {"credential", "fridge"}), Ask(5, {"restart"})}, {}, {},
                {"start", "end", "credential", "scan", "reboot", "kill", "again", "beat"}, 3, 2)
Releasing == Told(Locked, {}, {Ask(5, {"mine"})}, {}, {},
                  {"start", "end", "release", "sync", "kill"}, 4, 1)
Adopting == Told(Locked, {}, {}, {Ask(4, {"theirs", "confirm"}), Ask(3, {"mine"})}, {},
                 {"end", "release", "peer", "sync", "kill"}, 3, 1)

MCStories == {Editing, Planning, Locking, Releasing, Adopting}

\* A pass that is spent while the log is read.
Spending == Told(Locked, {}, {Ask(2, {"restart"})}, {}, {}, {"start", "pass", "sync"}, 2, 2)
MCSpending == {Spending}

MCObserved == {Idle, App("game", {}), App("chat", {}), App("video", {"live"}), Web(<<"news", "com">>, {})}
MCLedgers == {<<>>, [k \in {<<"app_package", "chat">>, <<"app_package", "game">>} |-> <<[at |-> 0, seconds |-> 2]>>]}
=============================================================================
