---------------------------- MODULE MCSharedLock ----------------------------
(***************************************************************************)
(* SharedLock on two interchangeable devices with three different starts:  *)
(* an unlocked session with an end, a lock that ends sooner, and a lock    *)
(* that runs until it is released.                                         *)
(***************************************************************************)
EXTENDS SharedLock, TLC

CONSTANTS Confirm, Token

MCConditions == {Confirm, Token}

MCOffered ==
  { LockOf({}, 2), LockOf({Confirm}, 1), LockOf({Token}, None) }

MCDevices == Permutations(Devices)
=============================================================================
