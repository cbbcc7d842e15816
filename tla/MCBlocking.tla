----------------------------- MODULE MCBlocking -----------------------------
(* One machine in the stories that Blocking is about: a page only the       *)
(* extension can see, one that the tray and the extension both report, an   *)
(* app behind a wait beside one that cannot be closed, a subscription whose *)
(* server fails and one that is taken up again, and edits of the document   *)
(* while a session runs.                                                    *)
EXTENDS Blocking

\* Names are sequences, of one word when they are not domains.
Zone == 0 :> 0
MCBrowsers == {<<"chrome.exe">>}
MCMonths == <<31, 28>>

Video == <<"video", "com">>
Tab(words) == [name |-> <<"chrome.exe">>, text |-> words, host |-> Video]
Program(exe) == [name |-> exe, text |-> {}, host |-> <<>>]

Rule(kind, name, action) ==
  [target |-> [kind |-> kind, name |-> name], action |-> action, platforms |-> {}]
Never == [kind |-> "never"]

Profile(rules) == [id |-> "work", name |-> "Work", rules |-> rules]
Document(rules, weekly, calendars, sources, resolves) ==
  [profiles |-> <<Profile(rules)>>, weekly |-> weekly, calendars |-> calendars, sources |-> sources,
   tokens |-> <<>>, emergency |-> [window |-> 1, passes |-> 0, cooldown |-> 0], zone |-> Zone,
   resolver |-> resolves]

Ask(seconds) == [profile |-> "work", seconds |-> seconds]
Told(doc, files, asks, windows, extended, stubborn, replies, does, n, seconds) ==
  [config |-> doc, files |-> files, asks |-> asks, windows |-> windows, extended |-> extended,
   stubborn |-> stubborn, replies |-> replies, does |-> does, acts |-> n, until |-> Start + seconds]

\* Every day, all day but for an hour.
Daily == <<[id |-> "daily", profile |-> "work", days |-> {}, start |-> 0, end |-> 900,
            enabled |-> TRUE]>>

\* A page that only the extension tells from the others, and a site that is metered.
Pages == Document(<<Rule("url", <<"shorts">>, Block),
                    Rule("domain", Video, [kind |-> "budget", seconds |-> 3, refill |-> Never])>>,
                  Daily, <<>>, <<>>, FALSE)
Watched == Told(Pages, {}, {}, {Tab({}), Tab({<<"shorts">>})}, {<<"chrome.exe">>}, {}, {Down},
                {"launch", "quit", "beat", "check", "reload", "sleep"}, 4, 7)

\* A word that is metered wherever it is read.
Words == Document(<<Rule("keyword", <<"shorts">>, [kind |-> "budget", seconds |-> 9, refill |-> Never])>>,
                  Daily, <<>>, <<>>, FALSE)
Reported == Told(Words, {}, {}, {Tab({<<"shorts">>})}, {<<"chrome.exe">>}, {}, {Down},
                 {"launch", "beat", "tray", "sleep"}, 5, 4)

\* A wait, beside a program that cannot be closed.
Games == Document(<<Rule("windows_exe", <<"game.exe">>, [kind |-> "delay", seconds |-> 2]),
                    Rule("windows_exe", <<"guard.exe">>, Block)>>, Daily, <<>>, <<>>, FALSE)
Waiting == Told(Games, {}, {}, {Program(<<"game.exe">>), Program(<<"guard.exe">>)},
                {}, {<<"guard.exe">>}, {Down}, {"launch", "quit", "reload"}, 5, 5)

\* A program that is metered.
Chat == Document(<<Rule("windows_exe", <<"chat.exe">>, [kind |-> "budget", seconds |-> 2, refill |-> Never])>>,
                 Daily, <<>>, <<>>, FALSE)
Metered == Told(Chat, {}, {}, {Program(<<"chat.exe">>)}, {}, {}, {Down},
                {"launch", "quit", "tray", "sleep", "crash"}, 4, 5)

\* A subscription that blocks a site.
Meeting == [title |-> {"focus"}, calendar |-> "team", place |-> {}, start |-> Start + 1,
            end |-> Start + 5, all_day |-> FALSE, busy |-> TRUE, categories |-> {}]
Anything == [busy_only |-> FALSE, all_day |-> {}, title |-> {"focus"}, location |-> {}, calendar |-> {},
             categories |-> {}, at_least |-> {}, at_most |-> {}]
Team == Document(<<Rule("domain", Video, Block)>>, <<>>,
                 <<[id |-> "focus", profile |-> "work", matcher |-> Anything, pad_before |-> 0,
                    pad_after |-> 0, enabled |-> TRUE]>>,
                 <<[id |-> "team", location |-> "https", refresh |-> 2]>>, TRUE)
Reply(events) == Answers([parses |-> TRUE, events |-> events])
Garbled == Answers([parses |-> FALSE, events |-> {}])
Outage == Told(Team, {}, {}, {Tab({})}, {}, {}, {Down, Garbled, Reply({}), Reply({Meeting})},
               {"crash", "stop", "sleep"}, 2, 8)

\* The same, given up and taken up again.
Bare == Document(<<Rule("domain", Video, Block)>>, <<>>, <<>>, <<>>, TRUE)
Resumed == Told(Team, {{Bare}, {Team}}, {}, {}, {}, {}, {Reply({}), Reply({Meeting})},
                {"edit", "reload", "crash"}, 4, 3)

\* A document that is made stricter, weaker and unreadable.
One == Document(<<Rule("domain", Video, Block)>>, <<>>, <<>>, <<>>, FALSE)
Two == Document(<<Rule("windows_exe", <<"chat.exe">>, Block), Rule("domain", Video, Block)>>,
                <<>>, <<>>, <<>>, FALSE)
Edits == Told(One, {{}, {Two}, {Chat}}, {Ask(4)}, {}, {}, {}, {Down},
              {"start", "edit", "reload", "crash", "stop"}, 5, 3)

MCStories == [watched |-> Watched, reported |-> Reported, waiting |-> Waiting, metered |-> Metered,
              outage |-> Outage, resumed |-> Resumed, edits |-> Edits]
=============================================================================
