--------------------------- MODULE MCTdxDelivery ----------------------------
(* Instances of TdxDelivery with one machine that uploads over HTTP and    *)
(* one that imports into the canonical root itself.                        *)
EXTENDS TdxDelivery, TLC

CONSTANTS remote, local, p1, p2, q1

(* p2 continues p1 in the remote shard; q1 is the local worker's page. *)
OwnerDef == (p1 :> remote) @@ (p2 :> remote) @@ (q1 :> local)
PrevDef == (p1 :> NoPage) @@ (p2 :> p1) @@ (q1 :> NoPage)

(* The local worker has one page, and tries to export it once. *)
LocalExportsOnce == attempts[local] <= 1
=============================================================================
