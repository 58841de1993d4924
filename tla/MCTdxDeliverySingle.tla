------------------------ MODULE MCTdxDeliverySingle -------------------------
(* Instances of TdxDelivery with a single remote worker whose              *)
(* shard has one chain of two pages.                                       *)
EXTENDS TdxDelivery, TLC

CONSTANTS w1, p1, p2

OwnerDef == (p1 :> w1) @@ (p2 :> w1)
PrevDef == (p1 :> NoPage) @@ (p2 :> p1)
=============================================================================
