------------------------------ MODULE MCLeases ------------------------------
(* Claim ids are only compared for equality, so they are interchangeable.  *)
EXTENDS LeasesRefinement, TLC

ClaimSymmetry == Permutations(ClaimId)
=============================================================================
