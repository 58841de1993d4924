------------------------------ MODULE JobQueue ------------------------------
(***************************************************************************)
(* The research queue of the workbench (JobQueue in workbench/jobs.py).    *)
(*                                                                         *)
(* Client threads submit, cancel and resume jobs, one worker thread runs   *)
(* them in the order in which they were handed to the executor.  Every     *)
(* change of a job is written to its journal file; a restart marks what    *)
(* was unfinished as interrupted and runs nothing again by itself.  The    *)
(* process can be killed, and writing a journal file can fail.             *)
(***************************************************************************)
EXTENDS Naturals, Sequences, FiniteSets

CONSTANTS
    Jobs,         \* job ids, each with the one spec it is submitted with
    Guarded,      \* jobs submitted with an execution guard
    NoJob,
    MaxActive,    \* max_active_jobs of the guards
    MaxAttempts,  \* bound: attempts of one job
    MaxCrashes,   \* bound: kills of the process
    MaxFaults     \* bound: journal writes that fail

ASSUME QueueAssumption ==
    /\ NoJob \notin Jobs
    /\ Guarded \subseteq Jobs
    /\ MaxActive \in Nat \ {0}
    /\ MaxAttempts \in Nat \ {0}
    /\ MaxCrashes \in Nat
    /\ MaxFaults \in Nat

VARIABLES
    phase,     \* "down", "open", or "closing": no new jobs, executor drains
    memory,    \* memory[j]: the record in the jobs dictionary
    disk,      \* disk[j]: the record in the journal file
    token,     \* token[j]: the cancellation event, if there is one
    pool,      \* tasks handed to the executor, not yet taken
    worker,    \* the worker thread: the task it runs and where it stands
    resuming,  \* the job that resume is checking, with the lock held
    crashes,
    faults

vars == <<phase, memory, disk, token, pool, worker, resuming, crashes, faults>>

Active == {"queued", "running"}
Terminal == {"completed", "failed", "cancelled", "interrupted"}
Records == [status : Active \cup Terminal \cup {"none"}, attempt : Nat]
Tasks == [job : Jobs, attempt : Nat]
NoRecord == [status |-> "none", attempt |-> 0]
Resting == [step |-> "idle", job |-> NoJob, attempt |-> 0, outcome |-> "none"]

Init ==
    /\ phase = "down"
    /\ memory = [j \in Jobs |-> NoRecord]
    /\ disk = [j \in Jobs |-> NoRecord]
    /\ token = [j \in Jobs |-> "none"]
    /\ pool = <<>>
    /\ worker = Resting
    /\ resuming = NoJob
    /\ crashes = 0
    /\ faults = 0

(* The lock of the queue: only resume leaves it and comes back within one   *)
(* operation, to look at the grant and the frozen inputs.                   *)
Unlocked == phase # "down" /\ resuming = NoJob

(* _save, which replaces the journal file in one step or not at all. *)
Save(j, record) == disk' = [disk EXCEPT ![j] = record] /\ UNCHANGED faults
SaveFails == faults < MaxFaults /\ faults' = faults + 1 /\ UNCHANGED disk

-----------------------------------------------------------------------------
(* Start and end of the process *)

Unfinished == {j \in Jobs : disk[j].status \in Active}

Interrupted(j) ==
    IF j \in Unfinished THEN [disk[j] EXCEPT !.status = "interrupted"] ELSE disk[j]

(* Every unfinished record is marked and saved; if a save fails, the queue  *)
(* is not opened and the marks made so far stay.                            *)
Open ==
    /\ phase = "down"
    /\ \/ /\ disk' = [j \in Jobs |-> Interrupted(j)]
          /\ memory' = disk'
          /\ phase' = "open"
          /\ UNCHANGED faults
       \/ /\ faults < MaxFaults
          /\ faults' = faults + 1
          /\ \E marked \in SUBSET Unfinished :
               /\ marked # Unfinished
               /\ disk' = [j \in Jobs |-> IF j \in marked THEN Interrupted(j) ELSE disk[j]]
          /\ UNCHANGED <<phase, memory>>
    /\ UNCHANGED <<token, pool, worker, resuming, crashes>>

Close ==
    /\ phase = "open"
    /\ Unlocked
    /\ phase' = "closing"
    /\ UNCHANGED <<memory, disk, token, pool, worker, resuming, crashes, faults>>

Forget ==
    /\ phase' = "down"
    /\ memory' = [j \in Jobs |-> NoRecord]
    /\ token' = [j \in Jobs |-> "none"]
    /\ pool' = <<>>
    /\ worker' = Resting
    /\ resuming' = NoJob
    /\ UNCHANGED <<disk, faults>>

(* shutdown(wait=True): the executor works off what it was given. *)
Closed == phase = "closing" /\ pool = <<>> /\ worker = Resting
          /\ Forget /\ UNCHANGED crashes

Crash == phase # "down" /\ crashes < MaxCrashes /\ crashes' = crashes + 1 /\ Forget

-----------------------------------------------------------------------------
(* Clients *)

ActiveJobs == {j \in Jobs : memory[j].status \in Active}

(* A guarded job is refused when the queue is busy enough already. *)
HasRoom(j) == j \in Guarded => Cardinality(ActiveJobs) < MaxActive

(* Mutant of Schedule: the journal is left for later. *)
ScheduleInMemory(j, attempt) ==
    /\ memory' = [memory EXCEPT ![j] = [status |-> "queued", attempt |-> attempt]]
    /\ token' = [token EXCEPT ![j] = "clear"]
    /\ pool' = Append(pool, [job |-> j, attempt |-> attempt])
    /\ UNCHANGED <<disk, faults>>

(* What submit and resume have in common: journal, dictionary, new event,   *)
(* executor.  If the journal cannot be written, nothing has happened.       *)
Schedule(j, attempt) ==
    LET record == [status |-> "queued", attempt |-> attempt] IN
    /\ Save(j, record)
    /\ memory' = [memory EXCEPT ![j] = record]
    /\ token' = [token EXCEPT ![j] = "clear"]
    /\ pool' = Append(pool, [job |-> j, attempt |-> attempt])

(* A known id returns its record instead. *)
Submit(j) ==
    /\ phase = "open"
    /\ Unlocked
    /\ memory[j] = NoRecord
    /\ HasRoom(j)
    /\ Schedule(j, 1)
    /\ UNCHANGED <<phase, worker, resuming, crashes>>

Resumable(j) == memory[j].status \in {"interrupted", "cancelled", "failed"}

(* resume looks at grant, frozen inputs and qualification under the lock ... *)
ResumeBegin(j) ==
    /\ phase = "open"
    /\ Unlocked
    /\ Resumable(j)
    /\ memory[j].attempt < MaxAttempts
    /\ resuming' = j
    /\ UNCHANGED <<phase, memory, disk, token, pool, worker, crashes, faults>>

(* ... and queues a new attempt ... *)
ResumeCommit ==
    /\ resuming # NoJob
    /\ resuming' = NoJob
    /\ Schedule(resuming, memory[resuming].attempt + 1)
    /\ UNCHANGED <<phase, worker, crashes>>

(* ... or refuses. *)
ResumeRefuse ==
    /\ resuming # NoJob
    /\ resuming' = NoJob
    /\ UNCHANGED <<phase, memory, disk, token, pool, worker, crashes, faults>>

(* A queued job is cancelled at once (its task stays in the executor); a    *)
(* running one is told, and stops when it looks.                            *)
Cancel(j) ==
    /\ Unlocked
    /\ memory[j].status \in Active
    /\ token' = [token EXCEPT ![j] = "set"]
    /\ \/ /\ memory[j].status = "queued"
          /\ memory' = [memory EXCEPT ![j].status = "cancelled"]
          /\ Save(j, memory'[j]) \/ SaveFails
       \/ /\ memory[j].status = "running"
          /\ UNCHANGED <<memory, disk, faults>>
    /\ UNCHANGED <<phase, pool, worker, resuming, crashes>>

-----------------------------------------------------------------------------
(* The worker thread: _run *)

(* Mutant of IsStale: tasks of earlier attempts are not recognised. *)
IsStaleNever(task) == task.attempt = 0

IsStale(task) == memory[task.job].attempt # task.attempt

(* Mutant of IsCancelled: a cancelled task is run all the same. *)
IsCancelledNever(task) == task.attempt = 0

IsCancelled(task) == memory[task.job].status = "cancelled"

TakeNothing(task) ==
    /\ \/ IsStale(task) /\ UNCHANGED token
       \/ /\ ~IsStale(task)
          /\ IsCancelled(task)
          /\ token' = [token EXCEPT ![task.job] = "none"]
    /\ UNCHANGED <<memory, disk, worker, faults>>

(* If the journal cannot be written, the attempt has failed. *)
TakeToRun(task) ==
    LET run(step, outcome) == worker' = [step |-> step, job |-> task.job,
                                         attempt |-> task.attempt, outcome |-> outcome]
    IN  /\ ~IsStale(task)
        /\ ~IsCancelled(task)
        /\ memory' = [memory EXCEPT ![task.job].status = "running"]
        /\ \/ Save(task.job, memory'[task.job]) /\ run("starting", "none")
           \/ SaveFails /\ run("finishing", "failed")
        /\ UNCHANGED token

Take ==
    /\ Unlocked
    /\ worker = Resting
    /\ pool # <<>>
    /\ pool' = Tail(pool)
    /\ TakeNothing(Head(pool)) \/ TakeToRun(Head(pool))
    /\ UNCHANGED <<phase, resuming, crashes>>

workerFrame == <<phase, memory, disk, token, pool, resuming, crashes, faults>>

Proceed(step) == worker' = [worker EXCEPT !.step = step]
Conclude(outcome) == worker' = [worker EXCEPT !.step = "finishing", !.outcome = outcome]

(* Grant, cancellation, inputs and time limit before the study starts;      *)
(* allowed says whether the grant of the job, if it has one, is in force.   *)
Begin(allowed) ==
    /\ worker.step = "starting"
    /\ \/ allowed /\ token[worker.job] = "clear" /\ Proceed("executing")
       \/ (~allowed \/ token[worker.job] = "set") /\ Conclude("cancelled")
       \/ Conclude("failed")
    /\ UNCHANGED workerFrame

(* A checkpoint of the study that finds a reason to stop. *)
Checkpoint(allowed) ==
    /\ worker.step = "executing"
    /\ ~allowed \/ token[worker.job] = "set"
    /\ Conclude("cancelled")
    /\ UNCHANGED workerFrame

(* The study ends with a result or an error. *)
Execute ==
    /\ worker.step = "executing"
    /\ Proceed("verifying") \/ Conclude("failed")
    /\ UNCHANGED workerFrame

(* check_inputs after the study: cancellation does not matter any more. *)
Verify(allowed) ==
    /\ worker.step = "verifying"
    /\ \/ allowed /\ Conclude("completed")
       \/ ~allowed /\ Conclude("cancelled")
       \/ Conclude("failed")
    /\ UNCHANGED workerFrame

(* Mutant of Finish: the worker keeps hold of its job. *)
FinishKeepsJob ==
    /\ Unlocked
    /\ worker.step = "finishing"
    /\ token' = [token EXCEPT ![worker.job] = "none"]
    /\ memory' = [memory EXCEPT ![worker.job].status = worker.outcome]
    /\ Save(worker.job, memory'[worker.job])
    /\ worker' = [worker EXCEPT !.step = "idle"]
    /\ UNCHANGED <<phase, pool, resuming, crashes>>

(* If the outcome cannot be written, the job has failed in memory, and its  *)
(* journal still says what it said before.                                  *)
Finish ==
    /\ Unlocked
    /\ worker.step = "finishing"
    /\ token' = [token EXCEPT ![worker.job] = "none"]
    /\ \/ /\ memory' = [memory EXCEPT ![worker.job].status = worker.outcome]
          /\ Save(worker.job, memory'[worker.job])
       \/ /\ memory' = [memory EXCEPT ![worker.job].status = "failed"]
          /\ SaveFails
    /\ worker' = Resting
    /\ UNCHANGED <<phase, pool, resuming, crashes>>

-----------------------------------------------------------------------------
WorkerStep(allowed) ==
    Take \/ Begin(allowed) \/ Checkpoint(allowed) \/ Execute \/ Verify(allowed) \/ Finish

Next ==
    \/ Open \/ Close \/ Closed \/ Crash
    \/ \E j \in Jobs : Submit(j) \/ ResumeBegin(j) \/ Cancel(j)
    \/ ResumeCommit \/ ResumeRefuse
    \/ \E allowed \in BOOLEAN : WorkerStep(allowed)

Spec == Init /\ [][Next]_vars

(* The worker thread runs, studies end, and resume lets go of the lock; the *)
(* worker gets a lock that is free again and again.                         *)
FairSpec ==
    /\ Spec
    /\ WF_vars(\E allowed \in BOOLEAN : WorkerStep(allowed))
    /\ WF_vars(ResumeCommit \/ ResumeRefuse)
    /\ SF_vars(Take)
    /\ SF_vars(Finish)

-----------------------------------------------------------------------------
(* Properties *)

(* Types, and: the worker has a job exactly when it is busy. *)
TypeOK ==
    /\ phase \in {"down", "open", "closing"}
    /\ memory \in [Jobs -> Records]
    /\ disk \in [Jobs -> Records]
    /\ token \in [Jobs -> {"none", "clear", "set"}]
    /\ pool \in Seq(Tasks)
    /\ worker \in {Resting} \cup
         [step : {"starting", "executing", "verifying", "finishing"}, job : Jobs,
          attempt : Nat, outcome : {"none", "completed", "failed", "cancelled"}]
    /\ resuming \in Jobs \cup {NoJob}
    /\ crashes \in Nat
    /\ faults \in Nat

(* The study of a job runs only while its record says running, with the     *)
(* attempt that was queued last: a cancelled or replaced attempt never      *)
(* computes anything ("It must not execute", _run).                         *)
OnlyCurrentAttemptRuns ==
    worker # Resting =>
        memory[worker.job] = [status |-> "running", attempt |-> worker.attempt]

(* What the journal calls finished is finished for the running process too, *)
(* and both mean the same attempt, whichever writes failed: a restart       *)
(* cannot replay or forget a job that clients were told about.              *)
JournalBacksMemory ==
    phase # "down" => \A j \in Jobs :
        /\ disk[j].attempt = memory[j].attempt
        /\ disk[j].status \in Terminal => memory[j] = disk[j]
        /\ (memory[j].status = "none") = (disk[j].status = "none")

(* An attempt that has ended never changes its outcome; the only way on is  *)
(* an explicit new attempt ("interrupted work is never auto-replayed").     *)
EndedAttemptStays ==
    [][\A j \in Jobs : memory[j].status \in Terminal /\ phase' # "down" =>
          memory'[j] \in {memory[j],
                          [status |-> "queued", attempt |-> memory[j].attempt + 1]}]_vars

(* For those who use the queue: what list() says of a job, or would say     *)
(* after the next start.                                                    *)
Reported(j) ==
    LET status == IF phase = "down" THEN Interrupted(j).status ELSE memory[j].status
    IN  IF status \in Terminal \ {"completed"} THEN "stopped" ELSE status
Attempt(j) == IF phase = "down" THEN disk[j].attempt ELSE memory[j].attempt

Lifecycle == INSTANCE JobLifecycle WITH
    job <- [j \in Jobs |-> Reported(j)],
    tries <- [j \in Jobs |-> Attempt(j)]

(* With all its threads, cancelled tasks, kills and failing journal writes  *)
(* the queue behaves to its clients like the life cycle: one outcome per    *)
(* attempt, and what is queued is run to its end.                           *)
ImplementsLifecycle == Lifecycle!Spec

=============================================================================
