---------------------------- MODULE MCFairShare ----------------------------
(* FairShare of two tenants with the homes of MCDispatch.                  *)
EXTENDS FairShare, MCDispatch
=============================================================================
