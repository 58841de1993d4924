---------------------------- MODULE SessionGrant ----------------------------
(***************************************************************************)
(* Research under a session grant (agent/research_session_grant.py) on the *)
(* queue of the workbench (JobQueue).                                      *)
(*                                                                         *)
(* The host authorizes a grant, which allows a number of jobs until it is  *)
(* revoked or expires; a new grant replaces the old one.  Client threads   *)
(* reserve a job of the grant under the file lock of the grant, submit it  *)
(* to the queue under the lock of the queue, and mark it as submitted.     *)
(* Whoever runs or resumes a job looks at the grant again, but nobody      *)
(* holds both locks.                                                       *)
(***************************************************************************)
EXTENDS JobQueue

CONSTANTS
    Clients,     \* threads that submit jobs
    MaxGrants,   \* bound: grants authorized, numbered from 1
    GrantOf,     \* GrantOf[j]: the grant that j's id is derived from, or 0
    MaxJobs      \* max_jobs of a grant

ASSUME GrantAssumption ==
    /\ GrantOf \in [Jobs -> 0..MaxGrants]
    /\ \A j \in Jobs : GrantOf[j] # 0 => j \in Guarded
    /\ MaxGrants \in Nat
    /\ MaxJobs \in Nat \ {0}

VARIABLES
    current,    \* the grant in current.json, or 0
    enabled,    \* is it neither revoked nor expired?
    reserved,   \* jobs with an item in the grants' files, the archived included
    submitted,  \* those whose item says queue_submitted
    client      \* client[c]: the submission c is at, and its step

grantVars == <<current, enabled, reserved, submitted, client>>
allVars == <<vars, grantVars>>

NoClient == [step |-> "idle", job |-> NoJob]
AllIdle == [c \in Clients |-> NoClient]

GrantInit ==
    /\ Init
    /\ current = 0
    /\ enabled = FALSE
    /\ reserved = {}
    /\ submitted = {}
    /\ client = AllIdle

-----------------------------------------------------------------------------
(* The host *)

(* Mutant of StillOpen: jobs of the old grant are not looked at. *)
StillOpenNever == {}

(* Jobs of the grant whose journal file is there and not at an end; the     *)
(* file of a job that is only reserved does not exist yet.                  *)
StillOpen == {j \in reserved : GrantOf[j] = current
                               /\ disk[j].status \in Active}

Authorize ==
    /\ current < MaxGrants
    /\ ~enabled
    /\ StillOpen = {}
    /\ current' = current + 1
    /\ enabled' = TRUE
    /\ UNCHANGED <<vars, reserved, submitted, client>>

(* Revoked by the host, or past expires_at; neither is ever undone. *)
Revoke ==
    /\ enabled
    /\ enabled' = FALSE
    /\ UNCHANGED <<vars, current, reserved, submitted, client>>

(* Mutant of InForce: the grant is known, but not whether it is enabled. *)
InForceKnown(j) == GrantOf[j] = 0 \/ (GrantOf[j] = current /\ j \in reserved)

(* assert_grant_active, for a job that has a grant. *)
InForce(j) == \/ GrantOf[j] = 0
              \/ GrantOf[j] = current /\ enabled /\ j \in reserved

-----------------------------------------------------------------------------
(* Clients: ResearchSessionGrantService.submit *)

Step(c, step, j) == client' = [client EXCEPT ![c] = [step |-> step, job |-> j]]

(* Mutant of GiveUp: the thread keeps its job. *)
GiveUpKeepsJob(c) == client' = [client EXCEPT ![c].step = "idle"]

(* An error for the caller. *)
GiveUp(c) == client' = [client EXCEPT ![c] = NoClient]

ReservedBy(g) == {j \in reserved : GrantOf[j] = g}

(* Mutant of Affordable: only jobs in the queue count against the budget. *)
AffordableQueued(j) == Cardinality({k \in ReservedBy(current) : k \in submitted}) < MaxJobs

(* A request that is known again costs nothing again. *)
Affordable(j) == j \in reserved \/ Cardinality(ReservedBy(current)) < MaxJobs

(* Under the lock of the grant: look the request up or pay for it. *)
Reserve(c, j) ==
    /\ phase # "down"
    /\ client[c] = NoClient
    /\ GrantOf[j] # 0 /\ GrantOf[j] = current /\ enabled
    /\ Affordable(j)
    /\ reserved' = reserved \cup {j}
    /\ Step(c, "reserved", j)
    /\ UNCHANGED <<vars, current, enabled, submitted>>

(* Then, without a lock: the grant once more; a job that the queue has is   *)
(* not submitted again, and one it should have is not made again (LOST_JOB).*)
Admit(c) ==
    /\ client[c].step = "reserved"
    /\ Unlocked
    /\ LET j == client[c].job IN
         \/ InForce(j) /\ memory[j] = NoRecord /\ j \notin submitted
                       /\ Step(c, "admitted", j)
         \/ InForce(j) /\ memory[j] # NoRecord /\ Step(c, "queued", j)
         \/ (InForce(j) => memory[j] = NoRecord /\ j \in submitted) /\ GiveUp(c)
    /\ UNCHANGED <<vars, current, enabled, reserved, submitted>>

(* queue.submit after its own look at the grant: the lock of the queue, a   *)
(* new job or the record of the known one, or a refusal.                    *)
Enqueue(c) ==
    /\ client[c].step = "admitted"
    /\ \/ Submit(client[c].job) /\ Step(c, "queued", client[c].job)
       \/ /\ phase = "open" /\ Unlocked
          /\ memory[client[c].job] # NoRecord
          /\ Step(c, "queued", client[c].job)
          /\ UNCHANGED vars
       \/ GiveUp(c) /\ UNCHANGED vars
    /\ UNCHANGED <<current, enabled, reserved, submitted>>

(* Under the lock of the grant: the item gets its mark, unless another      *)
(* grant is current and has no such item.                                   *)
Mark(c) ==
    /\ client[c].step = "queued"
    /\ submitted' = IF GrantOf[client[c].job] = current
                      THEN submitted \cup {client[c].job} ELSE submitted
    /\ GiveUp(c)
    /\ UNCHANGED <<vars, current, enabled, reserved>>

-----------------------------------------------------------------------------
(* The queue, looking at the grant; clients die with the process *)

WithoutGrant == {j \in Jobs : GrantOf[j] = 0}

ProcessStep ==
    \/ Open /\ UNCHANGED grantVars
    \/ Close /\ UNCHANGED grantVars
    \/ (Closed \/ Crash) /\ client' = AllIdle
       /\ UNCHANGED <<current, enabled, reserved, submitted>>

UserStep ==
    /\ \/ \E j \in WithoutGrant : Submit(j)
       \/ \E j \in Jobs : Cancel(j)
       \/ \E j \in Jobs : InForce(j) /\ ResumeBegin(j)
       \/ ResumeCommit
       \/ ResumeRefuse
    /\ UNCHANGED grantVars

RunStep == WorkerStep(worker.job # NoJob /\ InForce(worker.job))
           /\ UNCHANGED grantVars

ClientStep(c) == (\E j \in Jobs : Reserve(c, j)) \/ Admit(c) \/ Enqueue(c) \/ Mark(c)

GrantNext ==
    \/ Authorize \/ Revoke
    \/ \E c \in Clients : ClientStep(c)
    \/ ProcessStep \/ UserStep \/ RunStep

GrantSpec == GrantInit /\ [][GrantNext]_allVars

-----------------------------------------------------------------------------
(* Properties *)

(* Types, and: a client that is under way has a job that is paid for. *)
GrantTypeOK ==
    /\ TypeOK
    /\ current \in 0..MaxGrants
    /\ enabled \in BOOLEAN
    /\ reserved \in SUBSET Jobs
    /\ submitted \in SUBSET reserved
    /\ client \in [Clients -> {NoClient} \cup
                     [step : {"reserved", "admitted", "queued"}, job : reserved]]

(* Every job of a grant that has a journal file was paid for, and no grant  *)
(* pays for more than it allows, however often requests are repeated by     *)
(* several threads and however often the process dies between reservation   *)
(* and submission (submit and the item check of assert_grant_active).  An   *)
(* item that says it was submitted has its job in the journal, so that no   *)
(* client is ever told that it is lost (LOST_JOB).                          *)
JobsArePaid ==
    /\ \A j \in Jobs : GrantOf[j] # 0 /\ disk[j] # NoRecord => j \in reserved
    /\ \A g \in 1..MaxGrants : Cardinality(ReservedBy(g)) <= MaxJobs
    /\ \A j \in submitted : disk[j] # NoRecord

(* Once a grant is replaced, no study of it is computed any more, even if   *)
(* its job was submitted while the grant was being replaced ("旧 Grant 不能  *)
(* 被新 Grant 覆盖" while jobs run; run start looks at the grant again).    *)
OnlyCurrentGrantRuns ==
    worker.step \in {"executing", "verifying"} => GrantOf[worker.job] \in {0, current}

(* Revoked, expired or replaced, and no result so far. *)
Hopeless(j) ==
    /\ GrantOf[j] # 0
    /\ GrantOf[j] < current \/ (GrantOf[j] = current /\ ~enabled)
    /\ disk[j].status # "completed"
    /\ worker.job = j => worker.outcome # "completed"

(* A job that has no result when its grant ends will never have one: no     *)
(* running study, late submission, resume, restart or new grant can still   *)
(* complete it ("运行任务在下一检查点以 cancelled 结束").                     *)
RevokedYieldsNothing == [][\A j \in Jobs : Hopeless(j) => Hopeless(j)']_allVars
=============================================================================
