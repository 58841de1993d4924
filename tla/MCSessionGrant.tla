--------------------------- MODULE MCSessionGrant ---------------------------
(* Instances of SessionGrant: two jobs of the first grant and one without  *)
(* a grant.                                                                *)
EXTENDS SessionGrant, TLC

CONSTANTS a1, a2, u1, c1, c2

GrantOfDef == (a1 :> 1) @@ (a2 :> 1) @@ (u1 :> 0)
=============================================================================
