---------------------------- MODULE MCTdxStorage ----------------------------
(* An instance of TdxStorage: one worker, which downloads every page. *)
EXTENDS TdxStorage

CONSTANT w1

MCOwner == [p \in Pages |-> w1]
=============================================================================
