------------------------------ MODULE MCGossip ------------------------------
(* What one device writes, passed on through a second to a third that only *)
(* reads; between two devices with nothing but a folder; and from two that *)
(* call a third at once, which answers one at a time.                      *)
EXTENDS Gossip

MCDevices == {1, 2, 3}
Row == [links |-> {<<1, 2>>}, shares |-> {<<2, 3>>}, writes |-> <<2, 0, 0>>, events |-> 3]
Folder == [links |-> {}, shares |-> {<<1, 2>>, <<2, 1>>}, writes |-> <<2, 1, 0>>, events |-> 2]
Star == [links |-> {<<1, 2>>, <<3, 2>>}, shares |-> {}, writes |-> <<1, 0, 1>>, events |-> 3]
MCReaches == {Row, Folder, Star}
=============================================================================
