--------------------------- MODULE MCTrustedClock ---------------------------
(***************************************************************************)
(* Instances of TrustedClock: a tolerance of one second, jumps of the wall *)
(* clock and stretches of power-off on both sides of it.                   *)
(***************************************************************************)
EXTENDS TrustedClock

MCMoves == {-2, 2}
=============================================================================
