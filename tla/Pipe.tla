-------------------------------- MODULE Pipe ---------------------------------
(***************************************************************************)
(* The control channel of the Windows service: ask of ipc.rs in the        *)
(* programs that talk to it, the window of app.rs that counts its calls,   *)
(* and in the service the listener, a thread for each connection, the one  *)
(* mutex around the enforcer, and the loop that takes it beside them       *)
(* (runner.rs).  Both counts are those of capacity.rs.                     *)
(*                                                                         *)
(* What is asked and answered is the enforcer's affair; here a request is  *)
(* a line that is whole, too long, or never finished.                      *)
(***************************************************************************)
EXTENDS Integers, FiniteSets

CONSTANTS
  Askers,            \* the programs that ask with a whole line
  Idlers,            \* those that may take for ever over it
  Pages,             \* which of all these are calls of the window
  MAX_CONNECTIONS,
  MAX_IN_FLIGHT,
  MaxFaults          \* bound on panics of a handler and failures to listen

VARIABLES
  up, listening,
  call,      \* call[c]: how far the program has got
  sent,      \* sent[c]: what it has written
  talk,      \* talk[c]: how far the thread of its connection has got
  live,      \* the connections the service counts
  in_flight, \* the calls the window counts
  holder,    \* who has the mutex, if anybody
  poisoned,  \* whether somebody panicked while having it
  loop,      \* where the loop is
  faults

vars == <<up, listening, call, sent, talk, live, in_flight, holder, poisoned, loop, faults>>

Clients == Askers \cup Idlers
Nobody == "nobody"

Init ==
  /\ up = TRUE /\ listening = TRUE
  /\ call = [c \in Clients |-> "idle"]
  /\ sent = [c \in Clients |-> "nothing"]
  /\ talk = [c \in Clients |-> "none"]
  /\ live = 0 /\ in_flight = 0
  /\ holder = Nobody /\ poisoned = FALSE
  /\ loop = "clock"
  /\ faults = 0

Fault == faults < MaxFaults /\ faults' = faults + 1

-----------------------------------------------------------------------------
(***************************************************************************)
(* The programs.  A call of the window is refused at once when too many    *)
(* are under way, because the answer has no deadline.                      *)
(***************************************************************************)
Call(c) ==
  /\ call[c] = "idle"
  /\ IF c \in Pages /\ in_flight >= MAX_IN_FLIGHT
     THEN call' = [call EXCEPT ![c] = "refused"] /\ UNCHANGED in_flight
     ELSE /\ call' = [call EXCEPT ![c] = "asking"]
          /\ in_flight' = IF c \in Pages THEN in_flight + 1 ELSE in_flight
  /\ UNCHANGED <<up, listening, sent, talk, live, holder, poisoned, loop, faults>>

\* A program that asks writes its line as soon as it is connected.
Connect(c) ==
  /\ call[c] = "asking"
  /\ call' = [call EXCEPT ![c] = IF up /\ listening THEN "waiting" ELSE "closed"]
  /\ sent' = [sent EXCEPT ![c] = IF c \in Askers THEN "line" ELSE "nothing"]
  /\ UNCHANGED <<up, listening, talk, live, in_flight, holder, poisoned, loop, faults>>

\* Others take their time, finish it or give up.
Linger(c) ==
  /\ c \in Idlers /\ call[c] = "waiting" /\ sent[c] = "nothing"
  /\ \E what \in {"line", "garbage"} : sent' = [sent EXCEPT ![c] = what]
  /\ UNCHANGED <<up, listening, call, talk, live, in_flight, holder, poisoned, loop, faults>>

\* An answer, or an error in its place, is given to whoever asked, and the window counts one less.
Settle(c) ==
  /\ call[c] \in {"answered", "closed", "refused"}
  /\ call' = [call EXCEPT ![c] = "idle"]
  /\ in_flight' = IF c \in Pages /\ call[c] # "refused" THEN in_flight - 1 ELSE in_flight
  /\ UNCHANGED <<up, listening, sent, talk, live, holder, poisoned, loop, faults>>

-----------------------------------------------------------------------------
(***************************************************************************)
(* The service: one connection, one request, one line back.  A slot is     *)
(* held by the thread and given back when the thread is gone, however it   *)
(* went.                                                                   *)
(***************************************************************************)
Accept(c) ==
  /\ up /\ listening /\ call[c] = "waiting" /\ talk[c] = "none"
  /\ IF live >= MAX_CONNECTIONS
     THEN call' = [call EXCEPT ![c] = "closed"] /\ UNCHANGED <<talk, live>>
     ELSE talk' = [talk EXCEPT ![c] = "reading"] /\ live' = live + 1 /\ UNCHANGED call
  /\ UNCHANGED <<up, listening, sent, in_flight, holder, poisoned, loop, faults>>

\* What does not parse is answered without the enforcer being asked.
read_request(c) ==
  /\ talk[c] = "reading" /\ sent[c] # "nothing"
  /\ talk' = [talk EXCEPT ![c] = IF sent[c] = "line" THEN "locking" ELSE "writing"]
  /\ UNCHANGED <<up, listening, call, sent, live, in_flight, holder, poisoned, loop, faults>>

\* A mutant: the slot is given back by a statement after the work.
Unwound_KeepsSlot(c) ==
  /\ talk' = [talk EXCEPT ![c] = "none"]
  /\ call' = [call EXCEPT ![c] = "closed"]
  /\ UNCHANGED live

Unwound(c) ==
  /\ talk' = [talk EXCEPT ![c] = "none"]
  /\ call' = [call EXCEPT ![c] = "closed"]
  /\ live' = live - 1

Lock(c) ==
  /\ talk[c] = "locking" /\ holder = Nobody
  /\ IF poisoned
     THEN Unwound(c) /\ UNCHANGED holder
     ELSE holder' = c /\ talk' = [talk EXCEPT ![c] = "handling"] /\ UNCHANGED <<call, live>>
  /\ UNCHANGED <<up, listening, sent, in_flight, poisoned, loop, faults>>

Handled(c) ==
  /\ talk[c] = "handling"
  /\ holder' = Nobody
  /\ \/ talk' = [talk EXCEPT ![c] = "writing"] /\ UNCHANGED <<call, live, poisoned, faults>>
     \/ Fault /\ Unwound(c) /\ poisoned' = TRUE
  /\ UNCHANGED <<up, listening, sent, in_flight, loop>>

Reply(c) ==
  /\ talk[c] = "writing"
  /\ talk' = [talk EXCEPT ![c] = "none"]
  /\ live' = live - 1
  /\ call' = [call EXCEPT ![c] = "answered"]
  /\ UNCHANGED <<up, listening, sent, in_flight, holder, poisoned, loop, faults>>

-----------------------------------------------------------------------------
(***************************************************************************)
(* The loop has the mutex for the clock and for the pass, and lets it go   *)
(* while it reads subscriptions, which may take any time, and while it     *)
(* sleeps.  It panics, and the process ends, when the mutex is poisoned.   *)
(***************************************************************************)
\* A mutant: the loop keeps the mutex while it reads the subscriptions.
Clock_Keeps ==
  /\ up /\ loop = "clock" /\ holder = Nobody /\ ~poisoned
  /\ loop' = "fetch" /\ holder' = "loop"
  /\ UNCHANGED <<up, listening, call, sent, talk, live, in_flight, poisoned, faults>>

Clock ==
  /\ up /\ loop = "clock" /\ holder = Nobody /\ ~poisoned
  /\ loop' = "fetch"
  /\ UNCHANGED <<up, listening, call, sent, talk, live, in_flight, holder, poisoned, faults>>

Fetched ==
  /\ up /\ loop = "fetch" /\ holder \in {Nobody, "loop"} /\ ~poisoned
  /\ loop' = "pass" /\ holder' = "loop"
  /\ UNCHANGED <<up, listening, call, sent, talk, live, in_flight, poisoned, faults>>

Passed ==
  /\ up /\ loop = "pass"
  /\ loop' = "clock" /\ holder' = Nobody
  /\ UNCHANGED <<up, listening, call, sent, talk, live, in_flight, poisoned, faults>>

Ended ==
  /\ up /\ poisoned /\ holder = Nobody
  /\ up' = FALSE /\ listening' = FALSE
  /\ call' = [c \in Clients |-> IF call[c] = "waiting" THEN "closed" ELSE call[c]]
  /\ talk' = [c \in Clients |-> "none"]
  /\ live' = 0 /\ poisoned' = FALSE
  /\ UNCHANGED <<sent, in_flight, holder, loop, faults>>

\* A service that cannot listen enforces all the same.
Started ==
  /\ ~up
  /\ up' = TRUE /\ loop' = "clock"
  /\ \/ listening' = TRUE /\ UNCHANGED faults
     \/ listening' = FALSE /\ Fault
  /\ UNCHANGED <<call, sent, talk, live, in_flight, holder, poisoned>>

-----------------------------------------------------------------------------
Next ==
  \/ \E c \in Clients :
       \/ Call(c) \/ Connect(c) \/ Linger(c) \/ Settle(c)
       \/ Accept(c) \/ read_request(c) \/ Lock(c) \/ Handled(c) \/ Reply(c)
  \/ Clock \/ Fetched \/ Passed \/ Ended \/ Started

(***************************************************************************)
(* Nothing is asked of the one that idles, nor of a subscription.  The     *)
(* loop sleeps between its passes, and so everybody gets at the mutex.     *)
(***************************************************************************)
Fairness ==
  /\ \A c \in Askers :
       /\ WF_vars(Connect(c) \/ Settle(c))
       /\ WF_vars(Accept(c))
       /\ SF_vars(Lock(c))
  /\ \A c \in Clients : WF_vars(read_request(c) \/ Handled(c) \/ Reply(c))
  /\ WF_vars(Passed)

Spec == Init /\ [][Next]_vars /\ Fairness

-----------------------------------------------------------------------------
(***************************************************************************)
(* Whoever asks hears something: an answer, or that there is none.  Others *)
(* may hold their connection for ever and a subscription may never answer. *)
(***************************************************************************)
Heard == \A c \in Askers : call[c] = "asking" ~> call[c] = "idle"

(***************************************************************************)
(* Nobody is turned away, by the service or by the window, unless as many  *)
(* as there may be are being served; panics cost no place.                 *)
(***************************************************************************)
Served == {c \in Clients : talk[c] # "none"}
UnderWay == {c \in Pages : call[c] \notin {"idle", "refused"}}

TurnedAway(c) ==
  \/ call'[c] = "refused" /\ call[c] # "refused" /\ Cardinality(UnderWay) < MAX_IN_FLIGHT
  \/ /\ up' /\ call[c] = "waiting" /\ talk[c] = "none" /\ call'[c] = "closed"
     /\ Cardinality(Served) < MAX_CONNECTIONS

OnlyWhenFull == [][\A c \in Clients : ~TurnedAway(c)]_vars

=============================================================================
