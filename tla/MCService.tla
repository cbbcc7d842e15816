------------------------------ MODULE MCService ------------------------------
(***************************************************************************)
(* Service with one profile, started under a lock that a restart opens or  *)
(* one that a claim opens, an emergency pass, and two boots.               *)
(***************************************************************************)
EXTENDS Service

CONSTANTS Confirm, work

MCStarts == {[profile |-> work, seconds |-> 3, locks |-> {RestartRequired}]}
MCConditions == {Confirm, RestartRequired}
MCWindows == {[profile |-> work, start |-> 1, end |-> 3, locks |-> {Confirm}]}
=============================================================================
