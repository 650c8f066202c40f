----------------------------- MODULE MCDispatch -----------------------------
(* Two tenants, on one node or on two.                                     *)
EXTENDS Dispatch, TLC

CONSTANTS a, b, n1, n2

MCOneHome == a :> n1 @@ b :> n1
MCTwoHomes == a :> n1 @@ b :> n2

(* Tenants of one node are interchangeable; on two, each with its node.    *)
TenantSymmetry == Permutations(Tenant)
HomeSymmetry ==
    {a :> a @@ b :> b @@ n1 :> n1 @@ n2 :> n2, a :> b @@ b :> a @@ n1 :> n2 @@ n2 :> n1}
=============================================================================
