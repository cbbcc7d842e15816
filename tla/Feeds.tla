-------------------------------- MODULE Feeds --------------------------------
(***************************************************************************)
(* The calendar subscriptions of the desktop (curfew-win calendar.rs,      *)
(* curfew-svc feeds.rs): what is fetched when, what is believed, and what  *)
(* goes on being served when nothing can be had.                           *)
(*                                                                         *)
(* A document is [parses, events]; a server answers with one, or is down.  *)
(* The state of the feeds is [cache, retry, disk], functions on the ids of *)
(* the sources they know.                                                  *)
(***************************************************************************)
EXTENDS Integers, Sequences, FiniteSets, FiniteSetsExt, Functions

CONSTANTS
  WINDOW_SECONDS,      \* how far either side of now events are read
  RETRY_BASE_SECONDS,  \* the wait after a first failure
  RETRY_MAX_SECONDS,   \* the longest wait
  Longest              \* the most doublings of the wait: 10 in the code

Down == [answers |-> FALSE]
Answers(document) == [answers |-> TRUE, document |-> document]

NoFeeds == [cache |-> <<>>, retry |-> <<>>, disk |-> <<>>]

SetAt(f, k, v) == [x \in DOMAIN f \cup {k} |-> IF x = k THEN v ELSE f[x]]
Without(f, k)  == Restrict(f, DOMAIN f \ {k})

\* What the last run wrote is read back with an unknown age.
restore(feeds, sources) ==
  LET kept == {s.id : s \in sources} \cap DOMAIN feeds.disk
  IN  [NoFeeds EXCEPT !.disk = feeds.disk,
                      !.cache = [id \in kept |-> [document |-> feeds.disk[id], at |-> 0]]]

due(feeds, source, now) ==
  /\ source.id \in DOMAIN feeds.cache => now - feeds.cache[source.id].at >= source.refresh
  /\ source.id \in DOMAIN feeds.retry => now >= feeds.retry[source.id].at

\* Each failure in a row doubles the wait, up to the longest.
note_failure(feeds, source, now) ==
  LET before == IF source.id \in DOMAIN feeds.retry THEN feeds.retry[source.id].failures ELSE 0
      wait   == Min({RETRY_BASE_SECONDS * 2 ^ Min({before, Longest}), RETRY_MAX_SECONDS})
  IN  [feeds EXCEPT !.retry = SetAt(@, source.id, [at |-> now + wait, failures |-> before + 1])]

\* A document is believed when it parses, unless it is empty and there is
\* one that is not known to be worse.
Believed_Empty(feeds, source, reply) ==
  reply.answers /\ reply.document.parses

Believed(feeds, source, reply) ==
  /\ reply.answers
  /\ reply.document.parses
  /\ reply.document.events = {} => source.id \notin DOMAIN feeds.cache

Refreshed(feeds, source, reply, now) ==
  IF ~due(feeds, source, now) THEN feeds
  ELSE IF Believed(feeds, source, reply)
  THEN [cache |-> SetAt(feeds.cache, source.id, [document |-> reply.document, at |-> now]),
        disk  |-> SetAt(feeds.disk, source.id, reply.document),
        retry |-> Without(feeds.retry, source.id)]
  ELSE note_failure(feeds, source, now)

\* The events of a source around an instant, from the copy that is served.
Served(feeds, source, now) ==
  IF source.id \notin DOMAIN feeds.cache THEN {}
  ELSE {e \in feeds.cache[source.id].document.events :
          e.start < now + WINDOW_SECONDS /\ e.end > now - WINDOW_SECONDS}

\* Every source is refreshed and read; replies says what each would answer.
Asked(feeds, sources, replies, now) ==
  FoldSet(LAMBDA s, f : Refreshed(f, s, replies[s.id], now), feeds, sources)

Events(feeds, sources, now) == UNION {Served(feeds, s, now) : s \in sources}
=============================================================================
