---------------------------- MODULE JobLifecycle ----------------------------
(***************************************************************************)
(* What the research queue promises to those who submit jobs: a job is     *)
(* queued once for every attempt, each attempt ends with one outcome, a    *)
(* restart ends what was under way, and only a person starts it again.     *)
(* JobQueue implements this; TrackingScheduler relies on no more.          *)
(***************************************************************************)
EXTENDS Naturals

CONSTANT Jobs

VARIABLES
    job,   \* job[j]: the status that the queue reports, or would after a restart
    tries  \* tries[j]: the number of the last attempt

vars == <<job, tries>>

(* An attempt that has no result has "stopped": failed, cancelled or        *)
(* interrupted, which its clients treat alike.                              *)
Active == {"queued", "running"}
Statuses == {"none", "completed", "stopped"} \cup Active

Init ==
    /\ job = [j \in Jobs |-> "none"]
    /\ tries = [j \in Jobs |-> 0]

Queued(j) ==
    /\ job' = [job EXCEPT ![j] = "queued"]
    /\ tries' = [tries EXCEPT ![j] = @ + 1]

Submit(j) == job[j] = "none" /\ Queued(j)

Retry(j) == job[j] = "stopped" /\ Queued(j)

Start(j) ==
    /\ job[j] = "queued"
    /\ job' = [job EXCEPT ![j] = "running"]
    /\ UNCHANGED tries

Cancel(j) ==
    /\ job[j] = "queued"
    /\ job' = [job EXCEPT ![j] = "stopped"]
    /\ UNCHANGED tries

End(j) ==
    /\ job[j] = "running"
    /\ \E outcome \in {"completed", "stopped"} : job' = [job EXCEPT ![j] = outcome]
    /\ UNCHANGED tries

(* The process dies and comes back. *)
Restart ==
    /\ job' = [j \in Jobs |-> IF job[j] \in Active THEN "stopped" ELSE job[j]]
    /\ UNCHANGED tries

Next ==
    \/ Restart
    \/ \E j \in Jobs : Submit(j) \/ Retry(j) \/ Start(j) \/ Cancel(j) \/ End(j)

(* What is queued is taken, and what runs ends. *)
Spec ==
    /\ Init
    /\ [][Next]_vars
    /\ \A j \in Jobs : WF_vars(Start(j)) /\ WF_vars(End(j))
=============================================================================
