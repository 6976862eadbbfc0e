--------------------------- MODULE MCCaptureDevice ---------------------------
(* Pins are interchangeable: every property quantifies over all of them.   *)
EXTENDS CaptureDevice, TLC

PinSymmetry == Permutations(Pin)

=============================================================================
