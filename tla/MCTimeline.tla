----------------------------- MODULE MCTimeline -----------------------------
(* Five-bit machine integers: every cost and weight a caller can pass.      *)
EXTENDS Timeline

MCCostInput == MachineInt
MCWeightInput == MachineInt
=============================================================================
