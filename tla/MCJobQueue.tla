----------------------------- MODULE MCJobQueue -----------------------------
(* Instances of JobQueue with two jobs. *)
EXTENDS JobQueue

CONSTANTS j1, j2
=============================================================================
