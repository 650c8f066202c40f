---------------------------- MODULE MCPlacement ----------------------------
(* Placement of two tenants with the homes of MCDispatch.                  *)
EXTENDS Placement, MCDispatch
=============================================================================
