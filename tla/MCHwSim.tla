------------------------------ MODULE MCHwSim ------------------------------
(* HwSim for TLC: the four buffers an allocation returns.                  *)
EXTENDS HwSim

AnyAllocation ==
  {b \in [Role -> Buf] : \A r, s \in Role : r # s => b[r] # b[s]}

(* The pool always returns the same four: an address is reused at once.    *)
OneAllocation == {CHOOSE b \in AnyAllocation : TRUE}
=============================================================================
