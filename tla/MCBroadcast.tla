---------------------------- MODULE MCBroadcast -----------------------------
(* Broadcast for TLC: a corner, two process ids.                           *)
EXTENDS Broadcast

CONSTANTS p1, p2
TwoPids == {p1, p2}
OneTarget == {0}
=============================================================================
