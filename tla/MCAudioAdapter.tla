--------------------------- MODULE MCAudioAdapter ---------------------------
(* Three device objects, as when a device comes back before the one before *)
(* it is gone, twice, and a stream on each.                                *)
EXTENDS AudioAdapter, TLC

CONSTANTS d1, d2, d3

MCDevice == {d1, d2, d3}
Devices == Permutations(MCDevice)
=============================================================================
