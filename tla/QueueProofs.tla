---------------------------- MODULE QueueProofs ----------------------------
(***************************************************************************)
(* Proofs about JobQueue and SessionGrant, for any jobs, clients, grants   *)
(* and numbers of attempts, kills and failing journal writes.  The queue   *)
(* by itself: what is computed and what the journal says, and that it      *)
(* steps as JobLifecycle allows.  Then the queue under session grants:     *)
(* what is paid for, and what a grant that has ended can no longer do.     *)
(***************************************************************************)
EXTENDS SessionGrant, SequenceTheorems, FiniteSetTheorems, TLAPS

(* Without a process there is nothing in memory. *)
DownForgets ==
    phase = "down" => /\ memory = [j \in Jobs |-> NoRecord]
                      /\ pool = <<>>
                      /\ worker = Resting
                      /\ resuming = NoJob

(* What resume has found out is still so when it goes on. *)
ResumingSound == resuming # NoJob => Resumable(resuming)

(* Tasks in the executor are of past attempts or of the current one, which  *)
(* then has not run; no task is there twice.                                *)
PoolSound ==
    /\ \A i \in 1..Len(pool) :
         LET record == memory[pool[i].job] IN
         /\ pool[i].attempt <= record.attempt
         /\ pool[i].attempt = record.attempt => record.status \in {"queued", "cancelled"}
    /\ \A i, k \in 1..Len(pool) : pool[i] = pool[k] => i = k

QueueInv ==
    /\ TypeOK
    /\ DownForgets
    /\ ResumingSound
    /\ OnlyCurrentAttemptRuns
    /\ PoolSound
    /\ JournalBacksMemory

-----------------------------------------------------------------------------
(* The executor *)

LEMMA PoolTyped ==
    ASSUME TypeOK
    PROVE  /\ Len(pool) \in Nat
           /\ \A i \in 1..Len(pool) : /\ pool[i] \in Tasks
                                     /\ pool[i].job \in Jobs
                                     /\ pool[i].attempt \in Nat
<1>1. pool \in Seq(Tasks)
  BY DEF TypeOK
<1>2. Len(pool) \in Nat /\ \A i \in 1..Len(pool) : pool[i] \in Tasks
  BY <1>1
<1> QED BY <1>2 DEF Tasks

(* Handing over a task of an attempt above all earlier ones of the job.     *)
LEMMA AppendSound ==
    ASSUME TypeOK, PoolSound, QueueAssumption,
           NEW j \in Jobs, NEW attempt \in Nat,
           attempt > memory[j].attempt
                \/ (memory[j] = NoRecord /\ attempt = 1),
           Schedule(j, attempt)
    PROVE  PoolSound'
<1> DEFINE task == [job |-> j, attempt |-> attempt]
<1>1. pool \in Seq(Tasks) /\ task \in Tasks
  BY DEF TypeOK, Tasks
<1>2. pool' = Append(pool, task)
  BY DEF Schedule
<1>3. /\ Len(pool') = Len(pool) + 1 /\ Len(pool) \in Nat
      /\ \A i \in 1..Len(pool) : pool'[i] = pool[i] /\ pool[i] \in Tasks
      /\ pool'[Len(pool) + 1] = task
  BY <1>1, <1>2
<1>4. /\ memory' \in [Jobs -> Records]
      /\ memory'[j] = [status |-> "queued", attempt |-> attempt]
      /\ \A k \in Jobs : k # j => memory'[k] = memory[k]
  BY DEF Schedule, TypeOK, Records, Active
<1>5. attempt > memory[j].attempt
  BY DEF NoRecord
<1>6. \A i \in 1..Len(pool) : pool[i].job = j => pool[i].attempt < attempt
  <2> SUFFICES ASSUME NEW i \in 1..Len(pool), pool[i].job = j
               PROVE  pool[i].attempt < attempt
    OBVIOUS
  <2>1. pool[i].attempt \in Nat /\ memory[j].attempt \in Nat
    BY <1>3 DEF Tasks, TypeOK, Records
  <2>2. pool[i].attempt <= memory[j].attempt
    BY DEF PoolSound
  <2> QED BY <1>5, <2>1, <2>2
<1>7. ASSUME NEW i \in 1..Len(pool')
      PROVE  /\ pool'[i].attempt <= memory'[pool'[i].job].attempt
             /\ pool'[i].attempt = memory'[pool'[i].job].attempt =>
                  memory'[pool'[i].job].status \in {"queued", "cancelled"}
  <2>1. CASE i = Len(pool) + 1
    BY <2>1, <1>3, <1>4
  <2>2. CASE i \in 1..Len(pool) /\ pool[i].job = j
    BY <2>2, <1>3, <1>4, <1>6 DEF Tasks
  <2>3. CASE i \in 1..Len(pool) /\ pool[i].job # j
    <3>1. pool[i].job \in Jobs /\ pool'[i] = pool[i]
      BY <2>3, <1>3 DEF Tasks
    <3>2. memory'[pool[i].job] = memory[pool[i].job]
      BY <2>3, <3>1, <1>4
    <3> QED BY <2>3, <3>1, <3>2 DEF PoolSound
  <2> QED BY <2>1, <2>2, <2>3, <1>3
<1>8. ASSUME NEW i \in 1..Len(pool'), NEW k \in 1..Len(pool'), pool'[i] = pool'[k]
      PROVE  i = k
  <2>1. CASE i \in 1..Len(pool) /\ k \in 1..Len(pool)
    BY <2>1, <1>3, <1>8 DEF PoolSound
  <2>2. \A n \in 1..Len(pool) : pool[n] # task
    BY <1>6
  <2> QED BY <2>1, <2>2, <1>3, <1>8
<1> QED BY <1>7, <1>8 DEF PoolSound

(* The lemma for the steps that leave the executor alone: a job that has    *)
(* tasks of its current attempt keeps them waiting or cancelled.            *)
LEMMA SamePool ==
    ASSUME TypeOK, PoolSound, pool' = pool,
           \A j \in Jobs : /\ memory'[j].attempt = memory[j].attempt
                           /\ memory[j].status \in {"queued", "cancelled"} =>
                                memory'[j].status \in {"queued", "cancelled"}
    PROVE  PoolSound'
<1>1. \A i \in 1..Len(pool) : pool[i].job \in Jobs
  BY PoolTyped
<1> QED BY <1>1 DEF PoolSound

-----------------------------------------------------------------------------
(* One lemma for each kind of step *)

LEMMA SetStatus ==
    ASSUME NEW m \in [Jobs -> Records], NEW j \in Jobs,
           NEW status \in Active \cup Terminal \cup {"none"},
           NEW n, n = [m EXCEPT ![j].status = status]
    PROVE  /\ n \in [Jobs -> Records]
           /\ n[j] = [status |-> status, attempt |-> m[j].attempt]
           /\ \A k \in Jobs : k # j => n[k] = m[k]
<1>1. m[j] \in Records
  OBVIOUS
<1>2. [m[j] EXCEPT !.status = status] = [status |-> status, attempt |-> m[j].attempt]
  BY <1>1 DEF Records
<1>3. [status |-> status, attempt |-> m[j].attempt] \in Records
  BY <1>1 DEF Records
<1>4. n = [m EXCEPT ![j] = [m[j] EXCEPT !.status = status]]
  OBVIOUS
<1> QED BY <1>2, <1>3, <1>4

LEMMA InterruptedTyped ==
    ASSUME TypeOK, NEW j \in Jobs
    PROVE  Interrupted(j) \in Records
<1>1. disk[j] \in Records
  BY DEF TypeOK
<1>2. [disk[j] EXCEPT !.status = "interrupted"] \in Records
  BY <1>1 DEF Records, Terminal
<1> QED BY <1>1, <1>2 DEF Interrupted

LEMMA OpenStep ==
    ASSUME QueueInv, Open
    PROVE  QueueInv'
<1> USE DEF QueueInv
<1>0. pool = <<>> /\ worker = Resting /\ resuming = NoJob
  BY DEF Open, DownForgets
<1>1. pool' = <<>> /\ worker' = Resting /\ resuming' = NoJob /\ Len(pool') = 0
  BY <1>0 DEF Open
<1>2. disk' \in [Jobs -> Records]
  BY InterruptedTyped DEF Open, TypeOK
<1>3. CASE phase' = "open" /\ memory' = disk'
  <2>1. TypeOK'
    BY <1>1, <1>2, <1>3, <1>0 DEF Open, TypeOK
  <2> QED BY <2>1, <1>1, <1>3
          DEF DownForgets, ResumingSound, OnlyCurrentAttemptRuns, PoolSound,
              JournalBacksMemory
<1>4. CASE phase' = "down" /\ memory' = memory
  <2>1. TypeOK'
    BY <1>1, <1>2, <1>4, <1>0 DEF Open, TypeOK
  <2> QED BY <2>1, <1>1, <1>4
          DEF Open, DownForgets, ResumingSound, OnlyCurrentAttemptRuns, PoolSound,
              JournalBacksMemory
<1> QED BY <1>3, <1>4 DEF Open

LEMMA ForgetStep ==
    ASSUME QueueInv, Forget, crashes' \in Nat
    PROVE  QueueInv'
<1>1. TypeOK'
  BY DEF QueueInv, TypeOK, Forget, Records, NoRecord
<1> QED BY <1>1
        DEF Forget, QueueInv, DownForgets, ResumingSound, OnlyCurrentAttemptRuns,
            PoolSound, JournalBacksMemory

(* Submit and the second half of resume. *)
LEMMA ScheduleStep ==
    ASSUME QueueInv, NEW j \in Jobs, NEW attempt \in Nat,
           attempt > memory[j].attempt, Schedule(j, attempt),
           memory[j].status \notin Active,
           phase # "down", phase' = phase,
           resuming' = NoJob, worker' = worker, crashes' = crashes
    PROVE  QueueInv'
<1> USE DEF QueueInv
<1> DEFINE record == [status |-> "queued", attempt |-> attempt]
<1>1. record \in Records /\ [job |-> j, attempt |-> attempt] \in Tasks
  BY DEF Records, Active, Tasks
<1>2. TypeOK'
  BY <1>1 DEF TypeOK, Schedule, Save
<1>3. PoolSound'
  BY AppendSound, QueueAssumption
<1>4. OnlyCurrentAttemptRuns'
  <2> SUFFICES ASSUME worker # Resting
               PROVE  memory'[worker.job] = [status |-> "running",
                                             attempt |-> worker.attempt]
    BY DEF OnlyCurrentAttemptRuns
  <2>1. memory[worker.job] = [status |-> "running", attempt |-> worker.attempt]
    BY DEF OnlyCurrentAttemptRuns
  <2>2. worker.job # j
    BY <2>1 DEF Active
  <2>3. worker.job \in Jobs
    BY DEF TypeOK, Resting
  <2> QED BY <2>1, <2>2, <2>3 DEF Schedule, TypeOK
<1>5. JournalBacksMemory'
  <2> SUFFICES ASSUME NEW k \in Jobs
               PROVE  /\ disk'[k].attempt = memory'[k].attempt
                      /\ disk'[k].status \in Terminal => memory'[k] = disk'[k]
                      /\ (memory'[k].status = "none") = (disk'[k].status = "none")
    BY DEF JournalBacksMemory
  <2>1. CASE k = j
    BY <2>1 DEF Schedule, Save, TypeOK
  <2>2. CASE k # j
    BY <2>2 DEF Schedule, Save, TypeOK, JournalBacksMemory
  <2> QED BY <2>1, <2>2
<1> QED BY <1>2, <1>3, <1>4, <1>5 DEF DownForgets, ResumingSound

LEMMA CancelStep ==
    ASSUME QueueInv, NEW j \in Jobs, Cancel(j)
    PROVE  QueueInv'
<1> USE DEF QueueInv
<1>0. /\ resuming = NoJob /\ resuming' = NoJob
      /\ phase # "down" /\ phase' = phase
      /\ pool' = pool /\ worker' = worker /\ crashes' = crashes
  BY DEF Cancel, Unlocked
<1>1. CASE memory[j].status = "queued" /\ memory' = [memory EXCEPT ![j].status = "cancelled"]
           /\ (Save(j, memory'[j]) \/ SaveFails)
  <2>1. /\ memory' \in [Jobs -> Records]
        /\ memory'[j] = [status |-> "cancelled", attempt |-> memory[j].attempt]
        /\ \A k \in Jobs : k # j => memory'[k] = memory[k]
    BY <1>1, SetStatus DEF TypeOK, Terminal
  <2>2. TypeOK'
    BY <1>0, <1>1, <2>1 DEF TypeOK, Cancel, Save, SaveFails
  <2>3. PoolSound'
    <3>1. \A k \in Jobs : /\ memory'[k].attempt = memory[k].attempt
                          /\ memory[k].status \in {"queued", "cancelled"} =>
                               memory'[k].status \in {"queued", "cancelled"}
      BY <1>1, <2>1
    <3> QED BY <3>1, <1>0, SamePool
  <2>4. OnlyCurrentAttemptRuns'
    BY <1>0, <1>1, <2>1 DEF OnlyCurrentAttemptRuns, TypeOK, Resting
  <2>5. JournalBacksMemory'
    <3> SUFFICES ASSUME NEW k \in Jobs
                 PROVE  /\ disk'[k].attempt = memory'[k].attempt
                        /\ disk'[k].status \in Terminal => memory'[k] = disk'[k]
                        /\ (memory'[k].status = "none") = (disk'[k].status = "none")
      BY DEF JournalBacksMemory
    <3>1. CASE k # j
      BY <3>1, <1>0, <1>1, <2>1 DEF Save, SaveFails, TypeOK, JournalBacksMemory
    <3>2. CASE k = j /\ Save(j, memory'[j])
      BY <3>2, <2>1 DEF Save, TypeOK
    <3>3. CASE k = j /\ SaveFails
      <4>1. disk[j].status \notin Terminal
        BY <1>0, <1>1 DEF JournalBacksMemory, Terminal
      <4>2. disk[j].attempt = memory[j].attempt /\ disk[j].status # "none"
        BY <1>0, <1>1 DEF JournalBacksMemory
      <4>3. disk' = disk /\ memory'[j].status = "cancelled"
                        /\ memory'[j].attempt = memory[j].attempt
        BY <3>3, <2>1 DEF SaveFails
      <4> QED BY <3>3, <4>1, <4>2, <4>3
    <3> QED BY <3>1, <3>2, <3>3, <1>1
  <2> QED BY <2>2, <2>3, <2>4, <2>5, <1>0 DEF DownForgets, ResumingSound
<1>2. CASE UNCHANGED <<memory, disk, faults>>
  <2>1. TypeOK'
    BY <1>0, <1>2 DEF TypeOK, Cancel
  <2> QED BY <2>1, <1>0, <1>2
          DEF DownForgets, ResumingSound, OnlyCurrentAttemptRuns, PoolSound,
              JournalBacksMemory
<1> QED BY <1>1, <1>2 DEF Cancel

(* The task that the executor hands over: no other one is of its attempt.   *)
LEMMA TailSound ==
    ASSUME TypeOK, PoolSound, pool # <<>>, pool' = Tail(pool),
           \A j \in Jobs : memory'[j].attempt = memory[j].attempt,
           \A j \in Jobs : memory'[j] = memory[j]
              \/ (j = Head(pool).job /\ memory[j].attempt = Head(pool).attempt)
    PROVE  PoolSound'
<1>1. pool \in Seq(Tasks) /\ Len(pool) \in Nat /\ Len(pool) > 0
  BY PoolTyped DEF TypeOK
<1>2. /\ Len(pool') = Len(pool) - 1
      /\ \A i \in 1..Len(pool') : pool'[i] = pool[i + 1] /\ i + 1 \in 1..Len(pool)
      /\ Head(pool) = pool[1] /\ 1 \in 1..Len(pool)
  BY <1>1
<1>3. ASSUME NEW i \in 1..Len(pool')
      PROVE  /\ pool'[i].attempt <= memory'[pool'[i].job].attempt
             /\ pool'[i].attempt = memory'[pool'[i].job].attempt =>
                  memory'[pool'[i].job].status \in {"queued", "cancelled"}
  <2> DEFINE task == pool[i + 1]
  <2>1. /\ task = pool'[i] /\ task \in Tasks /\ pool[1] \in Tasks /\ task.job \in Jobs
        /\ task.attempt <= memory[task.job].attempt
        /\ task.attempt = memory[task.job].attempt =>
             memory[task.job].status \in {"queued", "cancelled"}
    BY <1>2, PoolTyped DEF PoolSound
  <2>2. CASE memory'[task.job] = memory[task.job]
    BY <2>1, <2>2
  <2>3. CASE task.job = pool[1].job /\ memory[task.job].attempt = pool[1].attempt
    <3>1. task # pool[1]
      BY <1>2 DEF PoolSound
    <3>2. task.attempt # pool[1].attempt
      BY <2>1, <2>3, <3>1 DEF Tasks
    <3> QED BY <2>1, <2>3, <3>2
  <2> QED BY <2>1, <2>2, <2>3, <1>2
<1>4. ASSUME NEW i \in 1..Len(pool'), NEW k \in 1..Len(pool'), pool'[i] = pool'[k]
      PROVE  i = k
  <2>1. i + 1 = k + 1
    BY <1>2, <1>4 DEF PoolSound
  <2> QED BY <2>1
<1> QED BY <1>3, <1>4 DEF PoolSound

LEMMA TakeStep ==
    ASSUME QueueInv, Take
    PROVE  QueueInv'
<1> USE DEF QueueInv
<1> DEFINE task == Head(pool)
<1>0. /\ resuming = NoJob /\ resuming' = NoJob
      /\ phase # "down" /\ phase' = phase /\ crashes' = crashes
      /\ worker = Resting /\ pool # <<>> /\ pool' = Tail(pool)
  BY DEF Take, Unlocked
<1>1. /\ pool \in Seq(Tasks) /\ pool' \in Seq(Tasks)
      /\ 1 \in 1..Len(pool) /\ task = pool[1]
      /\ task \in Tasks /\ task.job \in Jobs /\ task.attempt \in Nat
  BY <1>0, PoolTyped DEF TypeOK
<1>2. CASE TakeNothing(task)
  <2>1. TypeOK'
    BY <1>0, <1>1, <1>2 DEF TypeOK, TakeNothing
  <2>2. PoolSound'
    BY <1>0, <1>2, TailSound DEF TakeNothing
  <2> QED BY <2>1, <2>2, <1>0, <1>2
          DEF TakeNothing, DownForgets, ResumingSound, OnlyCurrentAttemptRuns,
              JournalBacksMemory
<1>3. CASE TakeToRun(task)
  <2>1. /\ memory' = [memory EXCEPT ![task.job].status = "running"]
        /\ memory[task.job].attempt = task.attempt
        /\ Save(task.job, memory'[task.job]) \/ SaveFails
        /\ UNCHANGED token
        /\ \/ worker' = [step |-> "starting", job |-> task.job,
                         attempt |-> task.attempt, outcome |-> "none"]
           \/ worker' = [step |-> "finishing", job |-> task.job,
                         attempt |-> task.attempt, outcome |-> "failed"]
    BY <1>3 DEF TakeToRun, IsStale
  <2>2. /\ memory' \in [Jobs -> Records]
        /\ memory'[task.job] = [status |-> "running", attempt |-> task.attempt]
        /\ \A k \in Jobs : k # task.job => memory'[k] = memory[k]
    <3>1. memory \in [Jobs -> Records] /\ "running" \in Active \cup Terminal \cup {"none"}
      BY DEF TypeOK, Active
    <3>2. memory' = [memory EXCEPT ![task.job].status = "running"]
      BY <2>1
    <3> HIDE DEF task, QueueInv
    <3>3. /\ memory' \in [Jobs -> Records]
          /\ memory'[task.job] = [status |-> "running", attempt |-> memory[task.job].attempt]
          /\ \A k \in Jobs : k # task.job => memory'[k] = memory[k]
      BY <3>1, <3>2, <1>1, SetStatus
    <3> QED BY <3>3, <2>1
  <2>3. memory[task.job].status = "queued"
    BY <1>1, <1>3, <2>1 DEF PoolSound, TakeToRun, IsCancelled
  <2>4. TypeOK'
    BY <1>0, <1>1, <2>1, <2>2 DEF TypeOK, Save, SaveFails
  <2>5. PoolSound'
    <3>1. \A j \in Jobs : memory'[j].attempt = memory[j].attempt
      BY <2>1, <2>2
    <3>2. \A j \in Jobs : memory'[j] = memory[j]
              \/ (j = task.job /\ memory[j].attempt = task.attempt)
      BY <2>1, <2>2
    <3> QED BY <3>1, <3>2, <1>0, TailSound
  <2>6. OnlyCurrentAttemptRuns'
    BY <2>1, <2>2 DEF OnlyCurrentAttemptRuns
  <2>7. JournalBacksMemory'
    <3> SUFFICES ASSUME NEW k \in Jobs
                 PROVE  /\ disk'[k].attempt = memory'[k].attempt
                        /\ disk'[k].status \in Terminal => memory'[k] = disk'[k]
                        /\ (memory'[k].status = "none") = (disk'[k].status = "none")
      BY DEF JournalBacksMemory
    <3>1. CASE k # task.job
      BY <3>1, <1>0, <1>1, <2>1, <2>2 DEF Save, SaveFails, TypeOK, JournalBacksMemory
    <3>2. CASE k = task.job /\ Save(task.job, memory'[task.job])
      BY <3>2, <2>2 DEF Save, TypeOK
    <3>3. CASE k = task.job /\ SaveFails
      <4>1. disk[k].status \notin Terminal
        BY <3>3, <1>0, <1>1, <2>3 DEF JournalBacksMemory, Terminal
      <4> QED BY <3>3, <4>1, <1>0, <1>1, <2>1, <2>2, <2>3
              DEF SaveFails, JournalBacksMemory
    <3> QED BY <3>1, <3>2, <3>3, <2>1
  <2> QED BY <2>4, <2>5, <2>6, <2>7, <1>0 DEF DownForgets, ResumingSound
<1> QED BY <1>2, <1>3 DEF Take

LEMMA FinishStep ==
    ASSUME QueueInv, Finish
    PROVE  QueueInv'
<1> USE DEF QueueInv
<1> DEFINE j == worker.job
<1>0. /\ resuming = NoJob /\ resuming' = NoJob
      /\ phase # "down" /\ phase' = phase /\ crashes' = crashes
      /\ pool' = pool /\ worker' = Resting
  BY DEF Finish, Unlocked
<1>1. /\ j \in Jobs /\ worker # Resting
      /\ worker.outcome \in {"none", "completed", "failed", "cancelled"}
  BY DEF Finish, TypeOK, Resting
<1>2. memory[j] = [status |-> "running", attempt |-> worker.attempt]
  BY <1>1 DEF OnlyCurrentAttemptRuns
<1>3. PICK outcome \in {"none", "completed", "failed", "cancelled"} :
        /\ memory' = [memory EXCEPT ![j].status = outcome]
        /\ \/ outcome = worker.outcome /\ Save(j, memory'[j])
           \/ outcome = "failed" /\ SaveFails
  BY <1>1 DEF Finish
<1>4. /\ memory' \in [Jobs -> Records]
      /\ memory'[j] = [status |-> outcome, attempt |-> memory[j].attempt]
      /\ \A k \in Jobs : k # j => memory'[k] = memory[k]
  <2>1. memory \in [Jobs -> Records] /\ outcome \in Active \cup Terminal \cup {"none"}
    BY DEF TypeOK, Terminal
  <2>2. memory' = [memory EXCEPT ![j].status = outcome]
    BY <1>3
  <2> HIDE DEF j, QueueInv
  <2> QED BY <2>1, <2>2, <1>1, SetStatus
<1>5. TypeOK'
  <2>1. /\ memory[j] \in Records /\ token' = [token EXCEPT ![j] = "none"]
        /\ memory'[j] \in Records
    BY <1>1, <1>4 DEF TypeOK, Finish
  <2>2. disk' \in [Jobs -> Records] /\ faults' \in Nat
    BY <2>1, <1>1, <1>3 DEF TypeOK, Save, SaveFails
  <2>3. token' \in [Jobs -> {"none", "clear", "set"}]
    BY <2>1 DEF TypeOK
  <2> QED BY <2>2, <2>3, <1>0, <1>4 DEF TypeOK
<1>6. PoolSound'
  <2>1. \A k \in Jobs : /\ memory'[k].attempt = memory[k].attempt
                        /\ memory[k].status \in {"queued", "cancelled"} =>
                             memory'[k].status \in {"queued", "cancelled"}
    BY <1>2, <1>4
  <2> QED BY <2>1, <1>0, SamePool
<1>7. JournalBacksMemory'
  <2> SUFFICES ASSUME NEW k \in Jobs
               PROVE  /\ disk'[k].attempt = memory'[k].attempt
                      /\ disk'[k].status \in Terminal => memory'[k] = disk'[k]
                      /\ (memory'[k].status = "none") = (disk'[k].status = "none")
    BY DEF JournalBacksMemory
  <2>1. CASE k # j
    BY <2>1, <1>0, <1>1, <1>3, <1>4 DEF Save, SaveFails, TypeOK, JournalBacksMemory
  <2>2. CASE k = j /\ Save(j, memory'[j])
    BY <2>2, <1>4 DEF Save, TypeOK
  <2>3. CASE k = j /\ outcome = "failed" /\ SaveFails
    <3>1. disk[k].status \notin Terminal
      BY <2>3, <1>0, <1>1, <1>2 DEF JournalBacksMemory, Terminal
    <3> QED BY <2>3, <3>1, <1>0, <1>1, <1>2, <1>4 DEF SaveFails, JournalBacksMemory
  <2> QED BY <2>1, <2>2, <2>3, <1>3
<1> QED BY <1>5, <1>6, <1>7, <1>0 DEF DownForgets, ResumingSound, OnlyCurrentAttemptRuns

(* Steps that change no record, journal or task. *)
LEMMA QuietStep ==
    ASSUME QueueInv, TypeOK', phase # "down", phase' # "down",
           UNCHANGED <<memory, disk, pool>>,
           \/ worker' = worker
           \/ /\ worker # Resting
              /\ worker'.job = worker.job /\ worker'.attempt = worker.attempt,
           resuming' # NoJob => Resumable(resuming')
    PROVE  QueueInv'
BY DEF QueueInv, DownForgets, ResumingSound, Resumable, OnlyCurrentAttemptRuns,
       PoolSound, JournalBacksMemory

LEMMA WorkerQuiet ==
    ASSUME QueueInv, NEW allowed \in BOOLEAN,
           Begin(allowed) \/ Checkpoint(allowed) \/ Execute \/ Verify(allowed)
    PROVE  QueueInv'
<1>1. worker # Resting /\ UNCHANGED workerFrame
  BY DEF Begin, Checkpoint, Execute, Verify, Resting
<1>2. worker \in [step : {"starting", "executing", "verifying", "finishing"}, job : Jobs,
                  attempt : Nat, outcome : {"none", "completed", "failed", "cancelled"}]
  BY <1>1 DEF QueueInv, TypeOK
<1>3. \/ \E step \in {"executing", "verifying"} : worker' = [worker EXCEPT !.step = step]
      \/ \E outcome \in {"completed", "failed", "cancelled"} :
           worker' = [worker EXCEPT !.step = "finishing", !.outcome = outcome]
  BY DEF Begin, Checkpoint, Execute, Verify, Proceed, Conclude
<1>4. /\ worker' \in [step : {"starting", "executing", "verifying", "finishing"}, job : Jobs,
                      attempt : Nat, outcome : {"none", "completed", "failed", "cancelled"}]
      /\ worker'.job = worker.job /\ worker'.attempt = worker.attempt
  BY <1>2, <1>3
<1>5. TypeOK'
  BY <1>1, <1>4 DEF QueueInv, TypeOK, workerFrame
<1>6. phase # "down" /\ phase' # "down"
  BY <1>1 DEF QueueInv, DownForgets, workerFrame
<1>7. resuming' # NoJob => Resumable(resuming')
  BY <1>1 DEF QueueInv, ResumingSound, Resumable, workerFrame
<1> QED BY <1>1, <1>4, <1>5, <1>6, <1>7, QuietStep DEF workerFrame

LEMMA InitHolds == Init => QueueInv
<1> SUFFICES ASSUME Init PROVE QueueInv
  OBVIOUS
<1>1. TypeOK
  BY QueueAssumption DEF Init, TypeOK, Records, NoRecord
<1> QED BY <1>1
        DEF Init, QueueInv, DownForgets, ResumingSound, OnlyCurrentAttemptRuns,
            PoolSound, JournalBacksMemory

LEMMA NextHolds == QueueInv /\ [Next]_vars => QueueInv'
<1> SUFFICES ASSUME QueueInv, [Next]_vars PROVE QueueInv'
  OBVIOUS
<1>1. CASE Open
  BY <1>1, OpenStep
<1>2. CASE Close
  <2>1. TypeOK' /\ resuming' = NoJob /\ phase # "down" /\ phase' # "down"
    BY <1>2 DEF QueueInv, TypeOK, Close, Unlocked
  <2> QED BY <2>1, <1>2, QuietStep DEF Close
<1>3. CASE Closed \/ Crash
  <2>1. Forget /\ crashes' \in Nat
    BY <1>3 DEF QueueInv, TypeOK, Closed, Crash
  <2> QED BY <2>1, ForgetStep
<1>4. ASSUME NEW j \in Jobs, Submit(j) PROVE QueueInv'
  <2>1. 1 > memory[j].attempt /\ memory[j].status \notin Active
    BY <1>4 DEF Submit, NoRecord, Active
  <2>2. /\ Schedule(j, 1) /\ phase # "down"
        /\ resuming' = NoJob /\ worker' = worker /\ crashes' = crashes /\ phase' = phase
    BY <1>4 DEF Submit, Unlocked
  <2> QED BY <2>1, <2>2, ScheduleStep
<1>5. ASSUME NEW j \in Jobs, ResumeBegin(j) PROVE QueueInv'
  <2>1. TypeOK' /\ phase # "down" /\ phase' # "down" /\ Resumable(resuming')
    BY <1>5 DEF QueueInv, TypeOK, ResumeBegin
  <2> QED BY <2>1, <1>5, QuietStep DEF ResumeBegin
<1>6. CASE ResumeCommit
  <2>1. /\ resuming \in Jobs /\ phase # "down"
        /\ memory[resuming].attempt \in Nat
        /\ memory[resuming].status \notin Active
    BY <1>6 DEF ResumeCommit, QueueInv, TypeOK, Records, DownForgets, ResumingSound,
                Resumable, Active
  <2>2. /\ Schedule(resuming, memory[resuming].attempt + 1)
        /\ resuming' = NoJob /\ worker' = worker /\ crashes' = crashes /\ phase' = phase
    BY <1>6 DEF ResumeCommit
  <2> QED BY <2>1, <2>2, ScheduleStep
<1>7. CASE ResumeRefuse
  <2>1. TypeOK' /\ phase # "down" /\ phase' # "down" /\ resuming' = NoJob
    BY <1>7 DEF QueueInv, TypeOK, DownForgets, ResumeRefuse
  <2> QED BY <2>1, <1>7, QuietStep DEF ResumeRefuse
<1>8. ASSUME NEW j \in Jobs, Cancel(j) PROVE QueueInv'
  BY <1>8, CancelStep
<1>9. ASSUME NEW allowed \in BOOLEAN, WorkerStep(allowed) PROVE QueueInv'
  BY <1>9, TakeStep, WorkerQuiet, FinishStep DEF WorkerStep
<1>10. CASE UNCHANGED vars
  BY <1>10 DEF vars, QueueInv, TypeOK, DownForgets, ResumingSound, Resumable,
               OnlyCurrentAttemptRuns, PoolSound, JournalBacksMemory
<1> QED BY <1>1, <1>2, <1>3, <1>4, <1>5, <1>6, <1>7, <1>8, <1>9, <1>10 DEF Next

LEMMA InvHolds == Spec => []QueueInv
BY InitHolds, NextHolds, PTL DEF Spec

-----------------------------------------------------------------------------

(* All variables of the queue keep their types.                             *)
THEOREM QueueTypeCorrect == Spec => []TypeOK
BY InvHolds, PTL DEF QueueInv

(* A study runs only for the attempt that was queued last and is neither    *)
(* cancelled nor ended, for any number of jobs, attempts, kills and failing *)
(* writes (the attempt check of _run).                                      *)
THEOREM NoStaleRun == Spec => []OnlyCurrentAttemptRuns
BY InvHolds, PTL DEF QueueInv

(* What the journal calls finished is what the running process has, in the  *)
(* same generality (the journal writes of submit, resume, cancel and _run). *)
THEOREM JournalSafe == Spec => []JournalBacksMemory
BY InvHolds, PTL DEF QueueInv

(* An outcome of an attempt never changes, and the next attempt is queued   *)
(* explicitly (resume).                                                     *)
THEOREM OutcomesStay == Spec => EndedAttemptStays
<1> DEFINE Stay(j) == memory[j].status \in Terminal /\ phase' # "down" =>
                        memory'[j] \in {memory[j], [status |-> "queued",
                                                    attempt |-> memory[j].attempt + 1]}
<1>1. ASSUME QueueInv, [Next]_vars PROVE [\A j \in Jobs : Stay(j)]_vars
  <2> SUFFICES ASSUME NEW j \in Jobs, memory[j].status \in Terminal, phase' # "down"
               PROVE  memory'[j] \in {memory[j], [status |-> "queued",
                                                  attempt |-> memory[j].attempt + 1]}
    OBVIOUS
  <2> USE <1>1 DEF QueueInv
  <2>0. memory \in [Jobs -> Records]
    BY DEF TypeOK
  <2>1. CASE Open
    BY <2>1 DEF Open, DownForgets, NoRecord, Terminal
  <2>2. CASE Closed \/ Crash
    BY <2>2 DEF Closed, Crash, Forget
  <2>3. ASSUME NEW k \in Jobs, Submit(k)
        PROVE  memory'[j] = memory[j]
    BY <2>0, <2>3 DEF Submit, Schedule, NoRecord, Terminal
  <2>4. CASE ResumeCommit
    BY <2>0, <2>4 DEF ResumeCommit, Schedule
  <2>5. ASSUME NEW k \in Jobs, Cancel(k)
        PROVE  memory'[j] = memory[j]
    BY <2>0, <2>5 DEF Cancel, Terminal, Active
  <2>6. CASE Take
    <3>1. PICK task \in Tasks : /\ task = pool[1] /\ 1 \in 1..Len(pool)
                                /\ TakeNothing(task) \/ TakeToRun(task)
      <4>1. Head(pool) = pool[1] /\ 1 \in 1..Len(pool)
        BY <2>6, PoolTyped DEF Take, TypeOK
      <4> QED BY <2>6, <4>1, PoolTyped DEF Take
    <3>2. CASE task.job = j /\ TakeToRun(task)
      BY <3>1, <3>2 DEF TakeToRun, IsStale, IsCancelled, PoolSound, Terminal
    <3>3. CASE task.job # j /\ TakeToRun(task)
      BY <2>0, <3>3 DEF TakeToRun
    <3>4. CASE TakeNothing(task)
      BY <3>4 DEF TakeNothing
    <3> QED BY <3>1, <3>2, <3>3, <3>4
  <2>7. CASE Finish
    <3>1. worker.job # j
      BY <2>7 DEF Finish, OnlyCurrentAttemptRuns, Resting, Terminal
    <3> QED BY <2>0, <2>7, <3>1 DEF Finish
  <2>8. CASE UNCHANGED memory
    BY <2>8
  <2> QED BY <2>1, <2>2, <2>3, <2>4, <2>5, <2>6, <2>7, <2>8
          DEF Next, WorkerStep, Close, ResumeBegin, ResumeRefuse, Begin, Checkpoint,
              Execute, Verify, workerFrame, vars
<1> QED BY <1>1, InvHolds, PTL DEF Spec, EndedAttemptStays

-----------------------------------------------------------------------------
(* JobQueue implements the safety part of JobLifecycle, for any jobs and   *)
(* any number of attempts, kills and failing journal writes.               *)

(* A job that clients were told is completed still is after a restart. *)
CompletedIsWritten ==
    \A j \in Jobs : memory[j].status = "completed" => disk[j].status = "completed"

(* The worker knows the outcome that it is about to record. *)
OutcomeKnown ==
    worker.step = "finishing" => worker.outcome \in {"completed", "failed", "cancelled"}

LifecycleInv == QueueInv /\ CompletedIsWritten /\ OutcomeKnown

-----------------------------------------------------------------------------
LEMMA LifecycleInitInv == Init => LifecycleInv
<1>1. Init => CompletedIsWritten /\ OutcomeKnown
  BY DEF Init, CompletedIsWritten, OutcomeKnown, NoRecord, Resting
<1> QED BY <1>1, InitHolds DEF LifecycleInv

LEMMA OutcomeStep == ASSUME LifecycleInv, [Next]_vars PROVE OutcomeKnown'
<1> USE DEF LifecycleInv, OutcomeKnown
<1>1. worker \in {Resting} \cup
        [step : {"starting", "executing", "verifying", "finishing"}, job : Jobs,
         attempt : Nat, outcome : {"none", "completed", "failed", "cancelled"}]
  BY DEF QueueInv, TypeOK
<1>2. CASE worker' \in {worker, Resting}
  BY <1>2 DEF Resting
<1>3. ASSUME NEW allowed \in BOOLEAN, WorkerStep(allowed) PROVE OutcomeKnown'
  <2>1. CASE Take
    BY <1>2, <2>1 DEF Take, TakeNothing, TakeToRun
  <2>2. CASE Begin(allowed)
    BY <1>1, <2>2 DEF Begin, Proceed, Conclude, Resting
  <2>3. CASE Checkpoint(allowed)
    BY <1>1, <2>3 DEF Checkpoint, Conclude, Resting
  <2>4. CASE Execute
    BY <1>1, <2>4 DEF Execute, Proceed, Conclude, Resting
  <2>5. CASE Verify(allowed)
    BY <1>1, <2>5 DEF Verify, Conclude, Resting
  <2>6. CASE Finish
    BY <1>2, <2>6 DEF Finish
  <2> QED BY <1>3, <2>1, <2>2, <2>3, <2>4, <2>5, <2>6 DEF WorkerStep
<1> QED
  BY <1>2, <1>3 DEF Next, vars, Open, Close, Closed, Crash, Forget, Submit, ResumeBegin,
                    Cancel, ResumeCommit, ResumeRefuse

(* Recording an outcome writes the journal as well, or it is "failed". *)
LEMMA WrittenStep == ASSUME LifecycleInv, [Next]_vars PROVE CompletedIsWritten'
<1> USE DEF LifecycleInv, CompletedIsWritten
<1>0. TypeOK
  BY DEF QueueInv
<1>1. CASE memory' = memory /\ disk' = disk
  BY <1>1
<1>2. CASE memory' = [j \in Jobs |-> NoRecord]
  BY <1>2 DEF NoRecord
<1>3. CASE Open
  <2>1. memory' = disk' \/ memory' = [j \in Jobs |-> NoRecord]
    BY <1>3 DEF Open, QueueInv, DownForgets
  <2> QED BY <1>2, <2>1
<1>4. ASSUME NEW j \in Jobs, NEW status \in Active \cup Terminal \cup {"none"},
             memory' = [memory EXCEPT ![j].status = status],
             \/ disk' = [disk EXCEPT ![j] = memory'[j]]
             \/ disk' = disk /\ status # "completed"
             \/ disk' = disk /\ disk[j].status = "completed"
      PROVE  CompletedIsWritten'
  <2>1. /\ memory'[j] = [status |-> status, attempt |-> memory[j].attempt]
        /\ \A k \in Jobs : k # j => memory'[k] = memory[k]
    BY <1>0, <1>4, SetStatus DEF TypeOK
  <2>2. \A k \in Jobs : k # j => disk'[k] = disk[k]
    BY <1>0, <1>4 DEF TypeOK
  <2>3. disk'[j] = memory'[j] \/ status # "completed" \/ disk'[j].status = "completed"
    BY <1>0, <1>4 DEF TypeOK
  <2>4. memory'[j].status = status
    BY <2>1
  <2> QED BY <2>1, <2>2, <2>3, <2>4
<1>5. ASSUME NEW j \in Jobs, NEW attempt \in Nat, Schedule(j, attempt)
      PROVE  CompletedIsWritten'
  BY <1>0, <1>5 DEF Schedule, Save, TypeOK
<1>6. ASSUME NEW j \in Jobs, Cancel(j) PROVE CompletedIsWritten'
  <2>1. CASE memory' = memory /\ disk' = disk
    BY <1>1, <2>1
  <2>2. CASE /\ memory' = [memory EXCEPT ![j].status = "cancelled"]
             /\ Save(j, memory'[j]) \/ SaveFails
    <3>1. "cancelled" \in Active \cup Terminal \cup {"none"}
      BY DEF Terminal
    <3> QED BY <1>4, <2>2, <3>1 DEF Save, SaveFails
  <2> QED BY <1>6, <2>1, <2>2 DEF Cancel
<1>7. CASE Take
  <2>1. Head(pool) \in Tasks /\ Head(pool).job \in Jobs
    <3>1. pool \in Seq(Tasks) /\ pool # <<>>
      BY <1>0, <1>7 DEF Take, TypeOK
    <3>2. Head(pool) \in Tasks
      BY <3>1
    <3> QED BY <3>2 DEF Tasks
  <2>2. CASE TakeNothing(Head(pool))
    BY <1>1, <2>2 DEF TakeNothing
  <2>3. CASE TakeToRun(Head(pool))
    <3>1. "running" \in Active \cup Terminal \cup {"none"}
      BY DEF Active
    <3>2. memory' = [memory EXCEPT ![Head(pool).job].status = "running"]
      BY <2>3 DEF TakeToRun
    <3>3. disk' = [disk EXCEPT ![Head(pool).job] = memory'[Head(pool).job]] \/ disk' = disk
      BY <2>3 DEF TakeToRun, Save, SaveFails
    <3> QED BY <1>4, <2>1, <3>1, <3>2, <3>3
  <2> QED BY <1>7, <2>2, <2>3 DEF Take
<1>8. CASE Finish
  <2>1. worker.job \in Jobs /\ worker.outcome \in Active \cup Terminal \cup {"none"}
    BY <1>0, <1>8 DEF Finish, TypeOK, Resting, Active, Terminal
  <2>2. "failed" \in Active \cup Terminal \cup {"none"}
    BY DEF Terminal
  <2> QED BY <1>4, <1>8, <2>1, <2>2 DEF Finish, Save, SaveFails
<1>9. ASSUME NEW allowed \in BOOLEAN, WorkerStep(allowed) PROVE CompletedIsWritten'
  <2>1. CASE Begin(allowed) \/ Checkpoint(allowed) \/ Execute \/ Verify(allowed)
    BY <1>1, <2>1 DEF Begin, Checkpoint, Execute, Verify, workerFrame
  <2> QED BY <1>7, <1>8, <1>9, <2>1 DEF WorkerStep
<1>10. ASSUME NEW j \in Jobs, Submit(j) PROVE CompletedIsWritten'
  BY <1>5, <1>10 DEF Submit
<1>11. CASE ResumeCommit
  <2>1. resuming \in Jobs /\ memory[resuming].attempt + 1 \in Nat
    BY <1>0, <1>11 DEF ResumeCommit, TypeOK, Records
  <2> QED BY <1>5, <1>11, <2>1 DEF ResumeCommit
<1> QED
  BY <1>1, <1>2, <1>3, <1>6, <1>9, <1>10, <1>11
  DEF Next, vars, Close, Closed, Crash, Forget, ResumeBegin, ResumeRefuse

LEMMA LifecycleInvStep == LifecycleInv /\ [Next]_vars => LifecycleInv'
  BY NextHolds, OutcomeStep, WrittenStep DEF LifecycleInv

LEMMA LifecycleInvHolds == Spec => []LifecycleInv
  BY LifecycleInitInv, LifecycleInvStep, PTL DEF Spec
-----------------------------------------------------------------------------
(* The journal, for modules that build on the queue *)

(* A file that says nothing is a file that is not there. *)
BlankIsMissing == \A j \in Jobs : disk[j].status = "none" => disk[j] = NoRecord

(* A journal file stays; only submit makes one. *)
FileStays(j) == disk[j] # NoRecord => disk'[j] # NoRecord
FileIsSubmitted(j) == disk[j] = NoRecord /\ disk'[j] # NoRecord => Submit(j)

LEMMA JournalStep ==
    ASSUME LifecycleInv, BlankIsMissing, [Next]_vars
    PROVE  BlankIsMissing' /\ \A j \in Jobs : FileStays(j) /\ FileIsSubmitted(j)
<1> DEFINE Grows(j) == \/ disk'[j] = disk[j]
                       \/ /\ disk'[j].status # "none"
                          /\ disk[j].status # "none" \/ Submit(j)
<1> SUFFICES \A j \in Jobs : Grows(j)
  BY DEF BlankIsMissing, FileStays, FileIsSubmitted, NoRecord
<1> USE DEF LifecycleInv, QueueInv
<1>0. disk \in [Jobs -> Records] /\ memory \in [Jobs -> Records]
  BY DEF TypeOK
<1>1. ASSUME NEW k \in Jobs, NEW record \in Records, record.status # "none",
             Save(k, record) \/ SaveFails,
             disk[k].status # "none" \/ Submit(k)
      PROVE  \A j \in Jobs : Grows(j)
  BY <1>0, <1>1 DEF Save, SaveFails
<1>2. ASSUME NEW k \in Jobs, memory[k].status # "none", phase # "down"
      PROVE  disk[k].status # "none"
  BY <1>2 DEF JournalBacksMemory
<1>3. CASE Open
  BY <1>0, <1>3 DEF Open, Interrupted, Unfinished, Active, Records
<1>4. ASSUME NEW k \in Jobs, NEW attempt \in Nat, Schedule(k, attempt),
             disk[k].status # "none" \/ Submit(k)
      PROVE  \A j \in Jobs : Grows(j)
  BY <1>0, <1>4 DEF Schedule, Save
<1>5. ASSUME NEW k \in Jobs, Submit(k) PROVE \A j \in Jobs : Grows(j)
  BY <1>4, <1>5 DEF Submit
<1>6. CASE ResumeCommit
  <2>1. /\ resuming \in Jobs /\ memory[resuming].attempt + 1 \in Nat
        /\ memory[resuming].status # "none" /\ phase # "down"
    BY <1>0, <1>6 DEF ResumeCommit, TypeOK, Records, DownForgets, ResumingSound, Resumable
  <2> QED BY <1>2, <1>4, <1>6, <2>1 DEF ResumeCommit
<1>7. ASSUME NEW k \in Jobs, NEW status \in Active \cup Terminal,
             memory[k].status # "none", phase # "down",
             memory' = [memory EXCEPT ![k].status = status],
             Save(k, memory'[k]) \/ SaveFails
      PROVE  \A j \in Jobs : Grows(j)
  <2>1. memory'[k] \in Records /\ memory'[k].status # "none"
    BY <1>0, <1>7 DEF Records, Active, Terminal
  <2> QED BY <1>1, <1>2, <1>7, <2>1
<1>8. ASSUME NEW k \in Jobs, Cancel(k) PROVE \A j \in Jobs : Grows(j)
  <2>1. CASE /\ memory' = [memory EXCEPT ![k].status = "cancelled"]
             /\ Save(k, memory'[k]) \/ SaveFails
    <3>1. "cancelled" \in Active \cup Terminal /\ memory[k].status # "none" /\ phase # "down"
      BY <1>8 DEF Active, Terminal, Cancel, Unlocked
    <3> QED BY <1>7, <2>1, <3>1
  <2> QED BY <1>8, <2>1 DEF Cancel
<1>9. CASE Take
  <2>1. PICK task \in Tasks : /\ task = pool[1] /\ 1 \in 1..Len(pool)
                              /\ TakeNothing(task) \/ TakeToRun(task)
    <3>1. Head(pool) = pool[1] /\ 1 \in 1..Len(pool)
      BY <1>9, PoolTyped DEF Take, TypeOK
    <3> QED BY <1>9, <3>1, PoolTyped DEF Take
  <2>2. CASE TakeNothing(task)
    BY <2>2 DEF TakeNothing
  <2>3. CASE TakeToRun(task)
    <3>1. /\ "running" \in Active \cup Terminal /\ phase # "down" /\ task.job \in Jobs
          /\ memory[task.job].status # "none"
      BY <1>9, <2>1, <2>3
         DEF Active, Take, Unlocked, Tasks, TakeToRun, IsStale, PoolSound
    <3>2. /\ memory' = [memory EXCEPT ![task.job].status = "running"]
          /\ Save(task.job, memory'[task.job]) \/ SaveFails
      BY <2>3 DEF TakeToRun
    <3> QED BY <1>7, <3>1, <3>2
  <2> QED BY <2>1, <2>2, <2>3
<1>10. CASE Finish
  <2>1. /\ worker.job \in Jobs /\ worker # Resting /\ phase # "down"
        /\ worker.outcome \in Active \cup Terminal
    BY <1>10 DEF Finish, TypeOK, Resting, OutcomeKnown, Terminal, Unlocked
  <2>2. memory[worker.job].status # "none" /\ "failed" \in Active \cup Terminal
    BY <2>1 DEF OnlyCurrentAttemptRuns, Terminal
  <2> QED BY <1>7, <1>10, <2>1, <2>2 DEF Finish
<1>11. ASSUME NEW allowed \in BOOLEAN, WorkerStep(allowed) PROVE \A j \in Jobs : Grows(j)
  BY <1>9, <1>10, <1>11 DEF WorkerStep, Begin, Checkpoint, Execute, Verify, workerFrame
<1> QED
  BY <1>3, <1>5, <1>6, <1>8, <1>11
  DEF Next, vars, Close, Closed, Crash, Forget, ResumeBegin, ResumeRefuse

-----------------------------------------------------------------------------
(* The step of JobLifecycle that a step of JobQueue is *)

LifecycleStep == [Lifecycle!Next]_(Lifecycle!vars)

(* A step that shows in one job only. *)
OneShows(j) ==
    \A k \in Jobs : k # j => Reported(k)' = Reported(k) /\ Attempt(k)' = Attempt(k)

LEMMA OneJob ==
    ASSUME NEW j \in Jobs, OneShows(j)
    PROVE  /\ [k \in Jobs |-> Reported(k)]'
                = [[k \in Jobs |-> Reported(k)] EXCEPT ![j] = Reported(j)']
           /\ [k \in Jobs |-> Attempt(k)]'
                = [[k \in Jobs |-> Attempt(k)] EXCEPT ![j] = Attempt(j)']
BY DEF OneShows

LEMMA NothingShows ==
    ASSUME \A k \in Jobs : Reported(k)' = Reported(k) /\ Attempt(k)' = Attempt(k)
    PROVE  LifecycleStep
BY DEF LifecycleStep, Lifecycle!vars

LEMMA QueuedShows ==
    ASSUME NEW j \in Jobs, OneShows(j), Reported(j) \in {"none", "stopped"},
           Reported(j)' = "queued", Attempt(j)' = Attempt(j) + 1
    PROVE  LifecycleStep
<1>1. Lifecycle!Queued(j)
  BY OneJob DEF Lifecycle!Queued
<1>2. Lifecycle!Submit(j) \/ Lifecycle!Retry(j)
  BY <1>1 DEF Lifecycle!Submit, Lifecycle!Retry
<1> QED BY <1>2 DEF LifecycleStep, Lifecycle!Next

LEMMA StatusShows ==
    ASSUME NEW j \in Jobs, OneShows(j), Attempt(j)' = Attempt(j),
           \/ Reported(j) = "queued" /\ Reported(j)' \in {"running", "stopped"}
           \/ Reported(j) = "running" /\ Reported(j)' \in {"completed", "stopped"}
    PROVE  LifecycleStep
<1>1. [k \in Jobs |-> Attempt(k)]' = [k \in Jobs |-> Attempt(k)]
  BY OneJob
<1>2. Lifecycle!Start(j) \/ Lifecycle!Cancel(j) \/ Lifecycle!End(j)
  BY <1>1, OneJob DEF Lifecycle!Start, Lifecycle!Cancel, Lifecycle!End
<1> QED BY <1>2 DEF LifecycleStep, Lifecycle!Next

(* Without the process, what counts is what the next start makes of the     *)
(* journal.                                                                 *)
LEMMA OpenShows == ASSUME LifecycleInv, Open PROVE LifecycleStep
<1> USE DEF LifecycleInv, QueueInv
<1>1. ASSUME NEW k \in Jobs PROVE Reported(k)' = Reported(k) /\ Attempt(k)' = Attempt(k)
  <2>1. disk[k] \in Records /\ phase = "down"
    BY DEF TypeOK, Open
  <2>2. /\ Interrupted(k).attempt = disk[k].attempt
        /\ Interrupted(k).status = IF disk[k].status \in Active THEN "interrupted"
                                   ELSE disk[k].status
    BY <2>1 DEF Interrupted, Unfinished, Records
  <2>3. CASE memory' = disk' /\ phase' = "open" /\ disk' = [j \in Jobs |-> Interrupted(j)]
    <3>1. memory'[k] = Interrupted(k)
      BY <2>3
    <3> QED BY <2>1, <2>2, <2>3, <3>1 DEF Reported, Attempt
  <2>4. CASE phase' = "down" /\ disk'[k] \in {disk[k], Interrupted(k)}
    <3>1. Interrupted(k)' = IF disk'[k].status \in Active
                           THEN [disk'[k] EXCEPT !.status = "interrupted"] ELSE disk'[k]
      BY DEF Interrupted, Unfinished
    <3>2. Interrupted(k)'.status = Interrupted(k).status
      BY <2>1, <2>2, <2>4, <3>1 DEF Records, Active
    <3>3. disk'[k].attempt = disk[k].attempt
      BY <2>2, <2>4
    <3> QED BY <2>1, <2>4, <3>2, <3>3 DEF Reported, Attempt
  <2> QED BY <2>1, <2>3, <2>4 DEF Open
<1> QED BY <1>1, NothingShows

(* A kill, or the end of a shutdown, is a restart to the clients. *)
LEMMA ForgetShows == ASSUME LifecycleInv, phase # "down", Forget PROVE LifecycleStep
<1> USE DEF LifecycleInv, QueueInv
<1>1. ASSUME NEW k \in Jobs
      PROVE  /\ Attempt(k)' = Attempt(k)
             /\ Reported(k)' = IF Reported(k) \in {"queued", "running"} THEN "stopped"
                               ELSE Reported(k)
  <2>1. disk[k] \in Records /\ memory[k] \in Records
    BY DEF TypeOK
  <2>2. phase' = "down" /\ disk'[k] = disk[k]
    BY DEF Forget
  <2>3. /\ disk[k].attempt = memory[k].attempt
        /\ disk[k].status \in Terminal => memory[k] = disk[k]
        /\ (memory[k].status = "none") = (disk[k].status = "none")
        /\ memory[k].status = "completed" => disk[k].status = "completed"
    BY DEF JournalBacksMemory, CompletedIsWritten
  <2>4. Interrupted(k)'.status = IF disk[k].status \in Active THEN "interrupted"
                                ELSE disk[k].status
    BY <2>1, <2>2 DEF Interrupted, Unfinished, Records
  <2>5. Attempt(k)' = Attempt(k)
    BY <2>2, <2>3 DEF Attempt
  <2> QED BY <2>1, <2>2, <2>3, <2>4, <2>5 DEF Reported, Records, Active, Terminal
<1>2. Lifecycle!Restart
  BY <1>1 DEF Lifecycle!Restart, Lifecycle!Active
<1> QED BY <1>2 DEF LifecycleStep, Lifecycle!Next

(* While the process runs, clients see the records in memory. *)
LEMMA MemoryShows ==
    ASSUME phase # "down", phase' # "down", NEW k \in Jobs, memory'[k] = memory[k]
    PROVE  Reported(k)' = Reported(k) /\ Attempt(k)' = Attempt(k)
BY DEF Reported, Attempt

LEMMA ScheduleShows ==
    ASSUME LifecycleInv, phase # "down", phase' # "down", NEW j \in Jobs,
           memory[j].status \notin Active \cup {"completed"},
           Schedule(j, memory[j].attempt + 1)
    PROVE  LifecycleStep
<1>1. memory \in [Jobs -> Records]
  BY DEF LifecycleInv, QueueInv, TypeOK
<1>2. /\ memory'[j] = [status |-> "queued", attempt |-> memory[j].attempt + 1]
      /\ \A k \in Jobs : k # j => memory'[k] = memory[k]
  BY <1>1 DEF Schedule
<1>3. OneShows(j)
  BY <1>2, MemoryShows DEF OneShows
<1>4. Reported(j) \in {"none", "stopped"}
  BY <1>1 DEF Reported, Records, Terminal, Active
<1>5. Reported(j)' = "queued" /\ Attempt(j)' = Attempt(j) + 1
  BY <1>2 DEF Reported, Attempt, Terminal
<1> QED BY <1>3, <1>4, <1>5, QueuedShows

(* A change of the status of one record. *)
LEMMA StatusStepShows ==
    ASSUME LifecycleInv, phase # "down", phase' # "down", NEW j \in Jobs,
           NEW status \in Active \cup Terminal,
           memory' = [memory EXCEPT ![j].status = status],
           \/ memory[j].status = "queued" /\ status \in {"running", "cancelled"}
           \/ memory[j].status = "running" /\ status \in {"completed", "failed", "cancelled"}
    PROVE  LifecycleStep
<1>1. memory \in [Jobs -> Records]
  BY DEF LifecycleInv, QueueInv, TypeOK
<1>2. /\ memory'[j] = [status |-> status, attempt |-> memory[j].attempt]
      /\ \A k \in Jobs : k # j => memory'[k] = memory[k]
  <2>1. status \in Active \cup Terminal \cup {"none"}
    OBVIOUS
  <2>2. memory' = [memory EXCEPT ![j].status = status]
    OBVIOUS
  <2> QED BY <1>1, <2>1, <2>2, SetStatus
<1>3. OneShows(j)
  BY <1>2, MemoryShows DEF OneShows
<1>4. Attempt(j)' = Attempt(j)
  BY <1>2 DEF Attempt
<1>5. \/ Reported(j) = "queued" /\ Reported(j)' \in {"running", "stopped"}
      \/ Reported(j) = "running" /\ Reported(j)' \in {"completed", "stopped"}
  BY <1>2 DEF Reported, Terminal
<1> QED BY <1>3, <1>4, <1>5, StatusShows

LEMMA TakeShows == ASSUME LifecycleInv, Take PROVE LifecycleStep
<1> DEFINE task == Head(pool)
<1>0. phase # "down" /\ phase' # "down" /\ pool # <<>>
  BY DEF Take, Unlocked
<1>1. CASE TakeNothing(task)
  BY <1>0, <1>1, MemoryShows, NothingShows DEF TakeNothing
<1>2. CASE TakeToRun(task)
  <2>1. pool \in Seq(Tasks)
    BY DEF LifecycleInv, QueueInv, TypeOK
  <2>2. task \in Tasks /\ 1 \in 1..Len(pool) /\ task = pool[1]
    BY <2>1, <1>0
  <2>3. task.job \in Jobs
    BY <2>2 DEF Tasks
  <2>4. memory[task.job].status = "queued"
    BY <1>2, <2>2 DEF LifecycleInv, QueueInv, PoolSound, TakeToRun, IsStale, IsCancelled
  <2>5. memory' = [memory EXCEPT ![task.job].status = "running"]
    BY <1>2 DEF TakeToRun
  <2> QED BY <1>0, <2>3, <2>4, <2>5, StatusStepShows DEF Active
<1> QED BY <1>1, <1>2 DEF Take

LEMMA FinishShows == ASSUME LifecycleInv, Finish PROVE LifecycleStep
<1>0. phase # "down" /\ phase' # "down" /\ worker # Resting
  BY DEF Finish, Unlocked, Resting
<1>1. worker.job \in Jobs /\ memory[worker.job].status = "running"
  BY <1>0 DEF LifecycleInv, QueueInv, TypeOK, OnlyCurrentAttemptRuns
<1>2. worker.outcome \in {"completed", "failed", "cancelled"}
  BY DEF LifecycleInv, OutcomeKnown, Finish
<1>3. \E status \in {"completed", "failed", "cancelled"} :
         memory' = [memory EXCEPT ![worker.job].status = status]
  BY <1>2 DEF Finish
<1> QED BY <1>0, <1>1, <1>3, StatusStepShows DEF Terminal

LEMMA StepShows == LifecycleInv /\ [Next]_vars => LifecycleStep
<1> SUFFICES ASSUME LifecycleInv, [Next]_vars PROVE LifecycleStep
  OBVIOUS
<1>1. CASE Open
  BY <1>1, OpenShows
<1>2. CASE Closed \/ Crash
  BY <1>2, ForgetShows DEF Closed, Crash
<1>3. CASE UNCHANGED <<phase, memory, disk>>
  BY <1>3, NothingShows DEF Reported, Attempt, Interrupted, Unfinished
<1>4. ASSUME NEW j \in Jobs, Submit(j) PROVE LifecycleStep
  <2>1. memory[j].attempt + 1 = 1 /\ memory[j].status = "none"
    BY <1>4 DEF Submit, NoRecord
  <2>2. phase # "down" /\ phase' # "down" /\ Schedule(j, memory[j].attempt + 1)
    BY <1>4, <2>1 DEF Submit
  <2> QED BY <2>1, <2>2, ScheduleShows DEF Active
<1>5. CASE ResumeCommit
  <2>1. phase # "down" /\ phase' # "down" /\ resuming \in Jobs
    BY <1>5 DEF ResumeCommit, LifecycleInv, QueueInv, TypeOK, DownForgets
  <2>2. memory[resuming].status \notin Active \cup {"completed"}
    BY <1>5 DEF ResumeCommit, LifecycleInv, QueueInv, ResumingSound, Resumable, Active
  <2> QED BY <1>5, <2>1, <2>2, ScheduleShows DEF ResumeCommit
<1>6. ASSUME NEW j \in Jobs, Cancel(j) PROVE LifecycleStep
  <2>0. phase # "down" /\ phase' # "down"
    BY <1>6 DEF Cancel, Unlocked
  <2>1. CASE memory' = memory
    BY <2>0, <2>1, MemoryShows, NothingShows
  <2>2. CASE memory[j].status = "queued" /\ memory' = [memory EXCEPT ![j].status = "cancelled"]
    BY <2>0, <2>2, StatusStepShows DEF Terminal
  <2> QED BY <1>6, <2>1, <2>2 DEF Cancel
<1>7. CASE Close
  BY <1>7, MemoryShows, NothingShows DEF Close
<1>8. ASSUME NEW j \in Jobs, ResumeBegin(j) PROVE UNCHANGED <<phase, memory, disk>>
  BY <1>8 DEF ResumeBegin
<1>9. ASSUME NEW allowed \in BOOLEAN, WorkerStep(allowed) PROVE LifecycleStep
  <2>1. CASE Begin(allowed) \/ Checkpoint(allowed) \/ Execute \/ Verify(allowed)
    BY <2>1, <1>3 DEF Begin, Checkpoint, Execute, Verify, workerFrame
  <2> QED BY <1>9, <2>1, TakeShows, FinishShows DEF WorkerStep
<1>10. ResumeRefuse => UNCHANGED <<phase, memory, disk>>
  BY DEF ResumeRefuse
<1> QED
  BY <1>1, <1>2, <1>3, <1>4, <1>5, <1>6, <1>7, <1>8, <1>9, <1>10 DEF Next, vars

LEMMA InitShows == Init => Lifecycle!Init
BY DEF Init, Lifecycle!Init, Reported, Attempt, Interrupted, Unfinished, NoRecord, Active,
       Terminal

(* Whatever threads, kills and failing writes do, clients see jobs go       *)
(* through the life cycle: one outcome for each attempt, nothing completed  *)
(* is lost in a restart, and nothing runs again that nobody has resumed     *)
(* (JobQueue of workbench/jobs.py).                                         *)
THEOREM LifecycleSafety == Spec => Lifecycle!Init /\ [][Lifecycle!Next]_(Lifecycle!vars)
BY InitShows, StepShows, LifecycleInvHolds, PTL DEF Spec, LifecycleStep

-----------------------------------------------------------------------------
(* The queue under session grants *)

(* A client that has its job in the queue finds it in the journal. *)
ClientsSound ==
    \A c \in Clients : client[c].step = "queued" => disk[client[c].job] # NoRecord

GrantInv ==
    /\ LifecycleInv
    /\ BlankIsMissing
    /\ GrantTypeOK
    /\ IsFiniteSet(reserved)
    /\ ClientsSound
    /\ JobsArePaid
    /\ OnlyCurrentGrantRuns

-----------------------------------------------------------------------------
(* Every step is one of the queue, or leaves the queue alone *)

LEMMA StepOfQueue == ASSUME GrantTypeOK, [GrantNext]_allVars PROVE [Next]_vars
<1>1. CASE UNCHANGED vars
  BY <1>1 DEF vars
<1>2. CASE ProcessStep
  BY <1>2 DEF ProcessStep, Next
<1>3. CASE UserStep
  BY <1>3 DEF UserStep, Next, WithoutGrant
<1>4. CASE RunStep
  <2>1. (worker.job # NoJob /\ InForce(worker.job)) \in BOOLEAN
    OBVIOUS
  <2> QED BY <1>4, <2>1 DEF RunStep, Next
<1>5. ASSUME NEW c \in Clients, ClientStep(c) PROVE [Next]_vars
  <2>1. ASSUME Enqueue(c), ~UNCHANGED vars PROVE Next
    <3>1. client[c].job \in Jobs /\ Submit(client[c].job)
      BY <2>1 DEF Enqueue, GrantTypeOK, NoClient, vars
    <3> QED BY <3>1 DEF Next
  <2> QED BY <1>1, <1>5, <2>1 DEF ClientStep, Reserve, Admit, Mark
<1> QED BY <1>1, <1>2, <1>3, <1>4, <1>5 DEF GrantNext, Authorize, Revoke, allVars

LEMMA QueueHolds ==
    ASSUME GrantInv, [GrantNext]_allVars
    PROVE  LifecycleInv' /\ BlankIsMissing' /\ TypeOK'
<1>1. [Next]_vars
  BY StepOfQueue DEF GrantInv
<1>2. LifecycleInv' /\ BlankIsMissing'
  BY <1>1, LifecycleInvStep, JournalStep DEF GrantInv
<1>3. TypeOK'
  BY <1>2 DEF LifecycleInv, QueueInv
<1> QED BY <1>2, <1>3

(* A journal file stays, and a new one is of a job that is paid for or has  *)
(* no grant.                                                                *)
LEMMA FileHolds ==
    ASSUME GrantInv, [GrantNext]_allVars, NEW j \in Jobs
    PROVE  /\ disk[j] # NoRecord => disk'[j] # NoRecord
           /\ GrantOf[j] # 0 /\ disk'[j] # NoRecord => j \in reserved
<1>1. [Next]_vars
  BY StepOfQueue DEF GrantInv
<1>2. FileStays(j) /\ FileIsSubmitted(j)
  BY <1>1, JournalStep DEF GrantInv
<1>3. ASSUME GrantOf[j] # 0, disk[j] = NoRecord, disk'[j] # NoRecord
      PROVE  j \in reserved
  <2>1. Submit(j)
    BY <1>2, <1>3 DEF FileIsSubmitted
  <2>2. disk \in [Jobs -> Records] /\ ~UNCHANGED disk
    BY <1>3 DEF GrantInv, GrantTypeOK, TypeOK
  <2>3. ASSUME NEW k \in Jobs, Submit(k) PROVE k = j
    BY <1>3, <2>2, <2>3 DEF Submit, Schedule, Save
  <2>4. /\ phase = "open" /\ phase' = phase /\ worker' = worker
        /\ resuming = NoJob /\ memory[j].status = "none"
    BY <2>1 DEF Submit, Unlocked, NoRecord
  <2>5. ~ProcessStep
    BY <2>4 DEF ProcessStep, Open, Close, Closed, Crash, Forget
  <2>6. ~RunStep
    <3>1. ~Take
      BY <2>2, <2>4 DEF Take, TakeNothing, TakeToRun, Resting
    <3>2. ~Finish
      BY <2>4 DEF Finish, Resting
    <3> QED BY <2>2, <3>1, <3>2 DEF RunStep, WorkerStep, Begin, Checkpoint,
                                    Execute, Verify, workerFrame
  <2>7. CASE UserStep
    <3>1. ASSUME NEW k \in Jobs, Cancel(k) PROVE FALSE
      <4>1. k # j
        BY <2>4, <3>1 DEF Cancel, Active
      <4> QED BY <1>3, <2>2, <3>1, <4>1 DEF Cancel, Save, SaveFails
    <3>2. \E k \in WithoutGrant : Submit(k)
      BY <2>2, <2>4, <2>7, <3>1
      DEF UserStep, ResumeBegin, ResumeCommit, ResumeRefuse
    <3> QED BY <1>3, <2>3, <3>2 DEF WithoutGrant
  <2>8. ASSUME NEW c \in Clients, ClientStep(c) PROVE j \in reserved
    <3>1. /\ Submit(client[c].job)
          /\ client[c].job \in Jobs /\ client[c].job \in reserved
      BY <2>2, <2>8
      DEF ClientStep, Reserve, Admit, Mark, Enqueue, vars, GrantInv, GrantTypeOK, NoClient
    <3> QED BY <2>3, <3>1
  <2> QED BY <2>2, <2>5, <2>6, <2>7, <2>8 DEF GrantNext, Authorize, Revoke, allVars, vars
<1> QED BY <1>2, <1>3 DEF FileStays, GrantInv, JobsArePaid

-----------------------------------------------------------------------------
(* The grants and the clients *)

LEMMA GrantInitHolds == GrantInit => GrantInv
<1> SUFFICES ASSUME GrantInit PROVE GrantInv
  OBVIOUS
<1>1. Init
  BY DEF GrantInit
<1>2. LifecycleInv /\ TypeOK
  BY <1>1, LifecycleInitInv DEF LifecycleInv, QueueInv
<1>3. disk = [j \in Jobs |-> NoRecord]
  BY DEF GrantInit, Init
<1>4. BlankIsMissing
  BY <1>3 DEF BlankIsMissing
<1>5. GrantTypeOK
  <2>1. TypeOK
    BY <1>2
  <2>2. client \in [Clients -> {NoClient}]
    BY DEF GrantInit, AllIdle
  <2>3. current \in 0..MaxGrants
    BY GrantAssumption DEF GrantInit
  <2> QED BY <2>1, <2>2, <2>3 DEF GrantInit, GrantTypeOK
<1>6. IsFiniteSet(reserved)
  BY FS_EmptySet DEF GrantInit
<1>7. ClientsSound
  BY DEF GrantInit, AllIdle, NoClient, ClientsSound
<1>8. JobsArePaid
  <2>1. \A g \in 1..MaxGrants : ReservedBy(g) = {}
    BY DEF ReservedBy, GrantInit
  <2> QED BY <1>3, <2>1, FS_EmptySet, GrantAssumption DEF JobsArePaid, GrantInit
<1>9. OnlyCurrentGrantRuns
  BY DEF GrantInit, Init, Resting, OnlyCurrentGrantRuns
<1> QED BY <1>2, <1>4, <1>5, <1>6, <1>7, <1>8, <1>9 DEF GrantInv

(* A client moves on with a job that is paid for, or gives up. *)
LEMMA TypeStep ==
    ASSUME GrantInv, [GrantNext]_allVars
    PROVE  GrantTypeOK' /\ IsFiniteSet(reserved')
<1> DEFINE Steps == [step : {"reserved", "admitted", "queued"}, job : reserved]
<1>1. GrantTypeOK /\ IsFiniteSet(reserved) /\ TypeOK'
  BY QueueHolds DEF GrantInv
<1>2. CASE UNCHANGED grantVars
  BY <1>1, <1>2 DEF grantVars, GrantTypeOK
<1>3. CASE Authorize \/ Revoke
  <2>1. current' \in 0..MaxGrants /\ enabled' \in BOOLEAN
    <3>1. current \in 0..MaxGrants /\ MaxGrants \in Nat
      BY <1>1, GrantAssumption DEF GrantTypeOK
    <3>2. /\ current' = current \/ (current < MaxGrants /\ current' = current + 1)
          /\ enabled' \in BOOLEAN
      BY <1>3 DEF Authorize, Revoke
    <3> QED BY <3>1, <3>2
  <2> QED BY <1>1, <1>3, <2>1 DEF Authorize, Revoke, GrantTypeOK
<1>4. CASE client' = AllIdle /\ UNCHANGED <<current, enabled, reserved, submitted>>
  BY <1>1, <1>4 DEF AllIdle, GrantTypeOK
<1>5. ASSUME NEW c \in Clients, ClientStep(c) PROVE GrantTypeOK' /\ IsFiniteSet(reserved')
  <2>1. ASSUME NEW j \in Jobs, Reserve(c, j) PROVE GrantTypeOK' /\ IsFiniteSet(reserved')
    <3>1. IsFiniteSet(reserved')
      BY <1>1, <2>1, FS_AddElement DEF Reserve
    <3>2. reserved' = reserved \cup {j} /\ UNCHANGED <<current, enabled, submitted>>
      BY <2>1 DEF Reserve
    <3>3. client' \in [Clients -> {NoClient} \cup
                [step : {"reserved", "admitted", "queued"}, job : reserved']]
      BY <1>1, <2>1, <3>2 DEF Reserve, Step, GrantTypeOK
    <3> QED BY <1>1, <2>1, <3>1, <3>2, <3>3 DEF GrantTypeOK
  <2>2. CASE /\ UNCHANGED <<current, enabled, reserved>>
             /\ submitted' \in {submitted, submitted \cup {client[c].job}}
             /\ \/ client' = client
                \/ GiveUp(c)
                \/ \E step \in {"admitted", "queued"} : Step(c, step, client[c].job)
             /\ client[c].job \in reserved
    <3>1. client' \in [Clients -> {NoClient} \cup Steps]
      BY <1>1, <2>2 DEF GiveUp, Step, GrantTypeOK
    <3> QED BY <1>1, <2>2, <3>1 DEF GrantTypeOK
  <2>3. Admit(c) \/ Enqueue(c) \/ Mark(c) => client[c].job \in reserved
    BY <1>1 DEF Admit, Enqueue, Mark, GrantTypeOK, NoClient
  <2> QED BY <1>5, <2>1, <2>2, <2>3 DEF ClientStep, Admit, Enqueue, Mark
<1> QED BY <1>2, <1>3, <1>4, <1>5 DEF GrantNext, ProcessStep, UserStep, RunStep, allVars

(* What a client has queued stays in the journal. *)
LEMMA ClientsStep == ASSUME GrantInv, [GrantNext]_allVars PROVE ClientsSound'
<1> SUFFICES ASSUME NEW c \in Clients, client'[c].step = "queued"
             PROVE  disk'[client'[c].job] # NoRecord
  BY DEF ClientsSound
<1>0. client \in [Clients -> {NoClient} \cup
          [step : {"reserved", "admitted", "queued"}, job : reserved]] /\ reserved \subseteq Jobs
  BY DEF GrantInv, GrantTypeOK
<1>1. CASE client'[c] = client[c]
  <2>1. client[c].job \in Jobs /\ disk[client[c].job] # NoRecord
    BY <1>0, <1>1 DEF GrantInv, ClientsSound, NoClient
  <2> QED BY <1>1, <2>1, FileHolds
<1>2. CASE Admit(c) \/ Enqueue(c)
  <2>1. /\ client'[c].job = client[c].job /\ client[c].job \in Jobs
        /\ \/ Submit(client[c].job)
           \/ phase # "down" /\ memory[client[c].job] # NoRecord
    BY <1>0, <1>2 DEF Admit, Enqueue, GiveUp, Step, NoClient, Unlocked
  <2>2. CASE Submit(client[c].job)
    <3>1. disk'[client[c].job] = [status |-> "queued", attempt |-> 1]
      BY <2>1, <2>2 DEF Submit, Schedule, Save, GrantInv, GrantTypeOK, TypeOK
    <3> QED BY <2>1, <3>1 DEF NoRecord
  <2>3. CASE phase # "down" /\ memory[client[c].job] # NoRecord
    <3>1. disk[client[c].job] # NoRecord
      <4> DEFINE j == client[c].job
      <4>1. /\ memory[j] \in Records
            /\ disk[j].attempt = memory[j].attempt
            /\ (memory[j].status = "none") = (disk[j].status = "none")
        BY <2>1, <2>3 DEF GrantInv, GrantTypeOK, TypeOK, LifecycleInv, QueueInv,
                          JournalBacksMemory
      <4> QED BY <2>3, <4>1 DEF Records, NoRecord
    <3> QED BY <2>1, <3>1, FileHolds
  <2> QED BY <2>1, <2>2, <2>3
<1>3. ASSUME NEW d \in Clients, ClientStep(d), client'[c] # client[c]
      PROVE  Admit(c) \/ Enqueue(c)
  <2>1. d = c
    BY <1>0, <1>3 DEF ClientStep, Reserve, Admit, Enqueue, Mark, GiveUp, Step
  <2>2. ~Mark(c) /\ \A j \in Jobs : ~Reserve(c, j)
    BY <1>0 DEF Reserve, Mark, GiveUp, Step, NoClient
  <2> QED BY <1>3, <2>1, <2>2 DEF ClientStep
<1>4. client' # AllIdle
  BY DEF AllIdle, NoClient
<1> QED BY <1>1, <1>2, <1>3, <1>4
        DEF GrantNext, Authorize, Revoke, ProcessStep, UserStep, RunStep, grantVars, allVars

(* Only a reservation adds to what a grant pays for. *)
LEMMA BudgetStep ==
    ASSUME GrantInv, [GrantNext]_allVars, NEW g \in 1..MaxGrants
    PROVE  Cardinality(ReservedBy(g)') <= MaxJobs
<1>1. IsFiniteSet(ReservedBy(g)) /\ Cardinality(ReservedBy(g)) <= MaxJobs
  BY FS_Subset DEF GrantInv, JobsArePaid, ReservedBy
<1>2. CASE reserved' = reserved
  BY <1>1, <1>2 DEF ReservedBy
<1>3. ASSUME NEW c \in Clients, NEW j \in Jobs, Reserve(c, j)
      PROVE  Cardinality(ReservedBy(g)') <= MaxJobs
  <2>1. reserved' = reserved \cup {j} /\ GrantOf[j] = current /\ Affordable(j)
    BY <1>3 DEF Reserve
  <2>2. CASE j \in reserved \/ g # current
    <3>1. ReservedBy(g)' = ReservedBy(g)
      BY <2>1, <2>2 DEF ReservedBy
    <3> QED BY <1>1, <3>1
  <2>3. CASE j \notin reserved /\ g = current
    <3>1. ReservedBy(g)' = ReservedBy(g) \cup {j} /\ j \notin ReservedBy(g)
      BY <2>1, <2>3 DEF ReservedBy
    <3>2. Cardinality(ReservedBy(g)) < MaxJobs
      BY <2>1, <2>3 DEF Affordable
    <3>3. Cardinality(ReservedBy(g)') = Cardinality(ReservedBy(g)) + 1
      BY <1>1, <3>1, FS_AddElement
    <3> QED BY <1>1, <3>2, <3>3, FS_CardinalityType, GrantAssumption
  <2> QED BY <2>2, <2>3
<1> QED
  BY <1>2, <1>3
  DEF GrantNext, allVars, grantVars, Authorize, Revoke, ClientStep, Admit, Enqueue, Mark,
      ProcessStep, UserStep, RunStep

LEMMA PaidStep == ASSUME GrantInv, [GrantNext]_allVars PROVE JobsArePaid'
<1>1. reserved \subseteq reserved'
  BY DEF GrantNext, allVars, grantVars, Authorize, Revoke, ClientStep, Reserve, Admit, Enqueue, Mark,
         ProcessStep, UserStep, RunStep
<1>2. \A j \in Jobs : GrantOf[j] # 0 /\ disk'[j] # NoRecord => j \in reserved'
  BY <1>1, FileHolds
<1>3. ASSUME NEW j \in submitted' PROVE disk'[j] # NoRecord
  <2>1. j \in Jobs /\ j \in submitted => disk'[j] # NoRecord
    BY FileHolds DEF GrantInv, JobsArePaid
  <2>2. submitted \subseteq Jobs
    BY DEF GrantInv, GrantTypeOK
  <2>3. ASSUME j \notin submitted PROVE \E c \in Clients : Mark(c) /\ j = client[c].job
    BY <1>3, <2>3
    DEF GrantNext, allVars, grantVars, Authorize, Revoke, ClientStep, Reserve, Admit, Enqueue, Mark,
        ProcessStep, UserStep, RunStep
  <2>4. ASSUME NEW c \in Clients, Mark(c), j = client[c].job PROVE disk'[j] # NoRecord
    <3>1. client[c].step = "queued" /\ UNCHANGED vars
      BY <2>4 DEF Mark
    <3> QED BY <2>4, <3>1 DEF GrantInv, ClientsSound, vars
  <2> QED BY <2>1, <2>2, <2>3, <2>4
<1> QED BY <1>2, <1>3, BudgetStep DEF JobsArePaid, ReservedBy

-----------------------------------------------------------------------------
(* The worker *)

(* A running study has a journal file that says so, or that it is queued:   *)
(* the host does not authorize a new grant over it.                         *)
LEMMA RunningIsOpen ==
    ASSUME GrantInv, worker.step \in {"executing", "verifying"},
           GrantOf[worker.job] # 0, GrantOf[worker.job] = current
    PROVE  StillOpen # {}
<1> DEFINE j == worker.job
<1>1. worker # Resting /\ j \in Jobs /\ disk[j] \in Records
  BY DEF GrantInv, GrantTypeOK, TypeOK, Resting
<1>2. memory[j].status = "running" /\ phase # "down"
  BY <1>1 DEF GrantInv, LifecycleInv, QueueInv, OnlyCurrentAttemptRuns, DownForgets, Resting
<1>3. disk[j].status \in Active
  BY <1>1, <1>2
  DEF GrantInv, LifecycleInv, QueueInv, JournalBacksMemory, Terminal, Records, Active
<1>4. j \in reserved
  BY <1>1, <1>3 DEF GrantInv, JobsArePaid, NoRecord, Active
<1> QED BY <1>3, <1>4 DEF StillOpen

LEMMA RunsStep == ASSUME GrantInv, [GrantNext]_allVars PROVE OnlyCurrentGrantRuns'
<1> SUFFICES ASSUME worker'.step \in {"executing", "verifying"}
             PROVE  GrantOf[worker'.job] \in {0, current'}
  BY DEF OnlyCurrentGrantRuns
<1>1. CASE worker' = worker /\ current' = current
  BY <1>1 DEF GrantInv, OnlyCurrentGrantRuns
<1>2. CASE Authorize
  <2>1. worker' = worker /\ StillOpen = {}
    BY <1>2 DEF Authorize, vars
  <2> QED BY <2>1, RunningIsOpen DEF GrantInv, OnlyCurrentGrantRuns
<1>3. ASSUME NEW allowed \in BOOLEAN, WorkerStep(allowed), current' = current,
             allowed => InForce(worker.job)
      PROVE  GrantOf[worker'.job] \in {0, current'}
  <2>1. worker \in {Resting} \cup
         [step : {"starting", "executing", "verifying", "finishing"}, job : Jobs,
          attempt : Nat, outcome : {"none", "completed", "failed", "cancelled"}]
    BY DEF GrantInv, GrantTypeOK, TypeOK
  <2>2. CASE Begin(allowed)
    BY <1>3, <2>1, <2>2
    DEF Begin, Proceed, Conclude, Resting, InForce
  <2>3. CASE Execute
    BY <1>3, <2>1, <2>3
    DEF Execute, Proceed, Conclude, Resting, GrantInv,
        OnlyCurrentGrantRuns
  <2>4. CASE Checkpoint(allowed) \/ Verify(allowed)
    BY <2>1, <2>4 DEF Checkpoint, Verify, Conclude, Resting
  <2>5. CASE Take \/ Finish
    BY <1>1, <1>3, <2>5
    DEF Take, TakeNothing, TakeToRun, Finish, Resting
  <2> QED BY <1>3, <2>2, <2>3, <2>4, <2>5 DEF WorkerStep
<1>4. CASE RunStep
  <2>1. (worker.job # NoJob /\ InForce(worker.job)) \in BOOLEAN
    OBVIOUS
  <2> QED BY <1>3, <1>4, <2>1 DEF RunStep, grantVars
<1>5. CASE worker' = Resting
  BY <1>5 DEF Resting
<1> QED
  BY <1>1, <1>2, <1>4, <1>5
  DEF GrantNext, allVars, vars, grantVars, Revoke, ClientStep, Reserve, Admit, Enqueue, Mark,
      ProcessStep, UserStep, Open, Close, Closed, Crash, Forget,
      Submit, Cancel, ResumeBegin, ResumeCommit, ResumeRefuse

LEMMA GrantNextHolds == GrantInv /\ [GrantNext]_allVars => GrantInv'
BY QueueHolds, TypeStep, ClientsStep, PaidStep, RunsStep DEF GrantInv

LEMMA GrantInvHolds == GrantSpec => []GrantInv
BY GrantInitHolds, GrantNextHolds, PTL DEF GrantSpec

-----------------------------------------------------------------------------

(* All variables keep their types, and a client that is under way has a job *)
(* that is paid for (submit).                                               *)
THEOREM GrantTypeCorrect == GrantSpec => []GrantTypeOK
BY GrantInvHolds, PTL DEF GrantInv

(* No grant pays for more than its max_jobs and no job of a grant has a     *)
(* journal file without being paid for, for any number of clients, jobs,    *)
(* grants, kills and failing writes (submit, assert_grant_active).          *)
THEOREM GrantsPay == GrantSpec => []JobsArePaid
BY GrantInvHolds, PTL DEF GrantInv

(* No study of a replaced grant is computed (authorize looks at the journal *)
(* of every reserved job, and the start of a run at the grant).             *)
THEOREM ReplacedNeverRuns == GrantSpec => []OnlyCurrentGrantRuns
BY GrantInvHolds, PTL DEF GrantInv

(* Under grants the queue is still the queue: whatever hosts and clients    *)
(* do, it takes only steps of JobQueue, so that the theorems about JobQueue *)
(* hold of it (the grant service only ever calls the queue).                *)
THEOREM GrantsUseQueue == GrantSpec => Spec
<1>1. GrantInit => Init
  BY DEF GrantInit
<1>2. GrantInv /\ [GrantNext]_allVars => [Next]_vars
  BY StepOfQueue DEF GrantInv
<1> QED BY <1>1, <1>2, GrantInvHolds, PTL DEF GrantSpec, Spec

(* A job without a result at the end of its grant never gets one, however   *)
(* late a client submits it and however often it is resumed (the looks at   *)
(* the grant of resume, run start, checkpoints and check_inputs).           *)
THEOREM NothingAfterTheEnd == GrantSpec => RevokedYieldsNothing
<1>1. ASSUME GrantInv, [GrantNext]_allVars, NEW j \in Jobs, Hopeless(j) PROVE Hopeless(j)'
  <2>1. /\ GrantOf[j] # 0 /\ GrantOf[j] \in 0..MaxGrants
        /\ GrantOf[j] < current \/ (GrantOf[j] = current /\ ~enabled)
        /\ disk[j].status # "completed"
        /\ worker.job = j => worker.outcome # "completed"
    BY <1>1, GrantAssumption DEF Hopeless
  <2>2. GrantTypeOK /\ TypeOK /\ current \in Nat /\ disk \in [Jobs -> Records]
    BY <1>1 DEF GrantInv, GrantTypeOK, TypeOK
  <2>3. ~InForce(j)
    BY <2>1, <2>2 DEF InForce
  <2>4. GrantOf[j] < current' \/ (GrantOf[j] = current' /\ ~enabled')
    BY <1>1, <2>1, <2>2
    DEF GrantNext, allVars, grantVars, Authorize, Revoke, ClientStep, Reserve, Admit, Enqueue, Mark,
        ProcessStep, UserStep, RunStep
  <2>0. ASSUME NEW k, NEW status,
               memory' = [memory EXCEPT ![k].status = status],
               disk' = disk \/ disk' = [disk EXCEPT ![k] = memory'[k]]
        PROVE  disk'[j].status \in {disk[j].status, status}
    <3>1. CASE k = j
      <4>1. memory \in [Jobs -> Records] /\ memory[j] \in Records
        BY <2>2 DEF TypeOK
      <4>2. memory'[j].status = status
        BY <2>0, <3>1, <4>1 DEF Records
      <4> QED BY <2>0, <2>2, <3>1, <4>2
    <3>2. CASE k # j
      BY <2>0, <2>2, <3>2
    <3> QED BY <3>1, <3>2
  <2>5. CASE RunStep
    <3>1. PICK allowed \in BOOLEAN :
            WorkerStep(allowed) /\ (allowed => InForce(worker.job))
      BY <2>5 DEF RunStep
    <3>2. CASE Take
      <4>1. PICK task : TakeNothing(task) \/ TakeToRun(task)
        BY <3>2 DEF Take
      <4>2. CASE TakeNothing(task)
        BY <2>1, <2>4, <4>2 DEF TakeNothing, Hopeless
      <4>3. CASE TakeToRun(task)
        <5>1. /\ worker'.outcome \in {"none", "failed"}
              /\ disk' = disk \/ disk' = [disk EXCEPT ![task.job] = memory'[task.job]]
              /\ memory' = [memory EXCEPT ![task.job].status = "running"]
          BY <4>3 DEF TakeToRun, Save, SaveFails
        <5>2. disk'[j].status \in {disk[j].status, "running"}
          BY <2>0, <5>1
        <5> QED BY <2>1, <2>4, <5>1, <5>2 DEF Hopeless
      <4> QED BY <4>1, <4>2, <4>3
    <3>3. CASE Finish
      <4>1. PICK status \in {worker.outcome, "failed"} :
              /\ memory' = [memory EXCEPT ![worker.job].status = status]
              /\ disk' = disk \/ disk' = [disk EXCEPT ![worker.job] = memory'[worker.job]]
              /\ worker' = Resting
        BY <3>3 DEF Finish, Save, SaveFails
      <4>2. disk'[j].status # "completed"
        <5>1. status # "completed" \/ worker.job # j
          BY <2>1, <4>1
        <5> QED BY <2>0, <2>1, <2>2, <4>1, <5>1
      <4> QED BY <2>1, <2>4, <4>1, <4>2 DEF Hopeless, Resting
    <3>4. CASE \/ Begin(allowed) \/ Checkpoint(allowed)
               \/ Execute \/ Verify(allowed)
      <4>1. disk' = disk /\ worker'.job = worker.job
        BY <2>2, <3>4
        DEF Begin, Checkpoint, Execute, Verify, Proceed,
            Conclude, workerFrame, Resting, TypeOK
      <4>2. worker.job = j => worker'.outcome # "completed"
        BY <2>1, <2>2, <2>3, <3>1, <3>4
        DEF Begin, Checkpoint, Execute, Verify, Proceed,
            Conclude, Resting, TypeOK
      <4> QED BY <2>1, <2>4, <4>1, <4>2 DEF Hopeless
    <3> QED BY <3>1, <3>2, <3>3, <3>4 DEF WorkerStep
  <2>6. CASE worker' \in {worker, Resting} /\ disk'[j].status # "completed"
    BY <2>1, <2>4, <2>6 DEF Hopeless, Resting
  <2>7. CASE Open /\ worker' = worker
    BY <2>1, <2>2, <2>6, <2>7 DEF Open, Interrupted, Records
  <2>8. ASSUME NEW k \in Jobs, NEW attempt, Schedule(k, attempt), worker' = worker
        PROVE  Hopeless(j)'
    BY <2>1, <2>2, <2>6, <2>8 DEF Schedule, Save
  <2>9. ASSUME NEW k \in Jobs, Submit(k) PROVE Hopeless(j)'
    BY <2>8, <2>9 DEF Submit
  <2>10. CASE UserStep
    <3>1. ASSUME NEW k \in Jobs, Cancel(k) PROVE Hopeless(j)'
      <4>1. /\ worker' = worker
            /\ \/ disk' = disk
               \/ /\ memory' = [memory EXCEPT ![k].status = "cancelled"]
                  /\ disk' = [disk EXCEPT ![k] = memory'[k]]
        BY <3>1 DEF Cancel, Save, SaveFails
      <4>2. disk'[j].status # "completed"
        BY <2>0, <2>1, <4>1
      <4> QED BY <2>6, <4>1, <4>2
    <3>2. CASE ResumeCommit
      BY <2>2, <2>8, <3>2 DEF ResumeCommit, TypeOK
    <3> QED BY <2>1, <2>6, <2>9, <2>10, <3>1, <3>2
            DEF UserStep, WithoutGrant, ResumeBegin, ResumeRefuse
  <2>11. ASSUME NEW c \in Clients, ClientStep(c) PROVE Hopeless(j)'
    <3>1. UNCHANGED vars \/ (client[c].job \in Jobs /\ Submit(client[c].job))
      BY <2>2, <2>11 DEF ClientStep, Reserve, Admit, Enqueue, Mark, GrantTypeOK, NoClient, vars
    <3> QED BY <2>1, <2>6, <2>9, <3>1 DEF vars
  <2> QED
    BY <1>1, <2>1, <2>5, <2>6, <2>7, <2>10, <2>11
    DEF GrantNext, allVars, vars, Authorize, Revoke, ProcessStep, Open, Close,
        Closed, Crash, Forget
<1>2. GrantInv /\ [GrantNext]_allVars => [\A j \in Jobs : Hopeless(j) => Hopeless(j)']_allVars
  BY <1>1
<1> QED BY <1>2, GrantInvHolds, PTL DEF GrantSpec, RevokedYieldsNothing
=============================================================================
