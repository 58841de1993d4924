---------------------------- MODULE TdxCollector ----------------------------
(***************************************************************************)
(* The collector of one worker (Runner in agent/tdx_collection_cli.py on   *)
(* the job queue and page store of data/tdx_lake.py), for the trades of    *)
(* one security.                                                           *)
(*                                                                         *)
(* A job asks the provider for one page of one trading day.  A page with   *)
(* rows leads to a job for the next page of the day, an empty one to the   *)
(* first page of the trading day before.  A page that holds the opening    *)
(* auction's match also gives the opening_match page of its position.  A   *)
(* page is stored, its successor is queued, it is committed (publication   *)
(* row and job state) and promoted (renamed to where readers look); the    *)
(* process can be killed, or the storage fail, between any two of these.   *)
(***************************************************************************)
EXTENDS Naturals, Sequences, FiniteSets

CONSTANTS
    NDays,        \* bound: trading days; day 1 is the newest, day d + 1 before d
    MaxPage,      \* max_offset, counted in pages
    BatchSize,    \* jobs claimed at once (workers)
    MaxTries,     \* max_job_attempts
    Burst,        \* transient_burst: failures in a row that start a cooldown
    MaxCycles,    \* max_recovery_cycles: cooldowns of one run
    MaxCrashes,   \* bound: kills of the process
    MaxFaults     \* bound: storage errors

ASSUME CollectorAssumption ==
    /\ NDays \in Nat \ {0}
    /\ MaxPage \in Nat
    /\ BatchSize \in Nat \ {0}
    /\ MaxTries \in Nat \ {0}
    /\ Burst \in Nat \ {0}
    /\ MaxCycles \in Nat
    /\ MaxCrashes \in Nat
    /\ MaxFaults \in Nat

Days == 1..NDays
Positions == 0..MaxPage

(* A job is identified by what it asks for. *)
Trades(d, i) == <<"trades", d, i>>
Match(d, i) == <<"opening_match", d, i>>
Keys == {"trades", "opening_match"} \X Days \X Positions
Family(k) == k[1]
Day(k) == k[2]
Position(k) == k[3]

(* What a page holds: rows, rows with the opening match, no rows. *)
Contents == {"rows", "match", "empty"}
States == {"ABSENT", "PENDING", "RUNNING", "STORED", "SAVED", "EMPTY", "ERROR",
           "STALLED", "PAGE_LIMIT"}
Reasons == {"none", "transient", "bad", "repeat", "gap"}

VARIABLES
    state,   \* state[k]: the job's state, ABSENT without a row
    tries,   \* tries[k]: attempts, counted up to MaxTries
    reason,  \* reason[k]: what the job's error text says
    queue,   \* the job keys in rowid order
    bytes,   \* bytes[k]: the response held on disk for k, or "none"
    chunk,   \* chunk[k]: does the job row point to these bytes?
    pub,     \* pub[k]: "no", "held" (committed) or "visible" (promoted)
    phase,   \* the process: "down", "loop" (between batches) or "work"
    fresh,   \* no batch claimed in this run yet
    batch,   \* claimed jobs still to be handled, as read from the table
    cur,     \* the job being handled, and the step it is at
    halted,  \* STOP or AUTO_HALT.json exists
    fails,   \* transient failures in a row, counted up to Burst
    cycles,  \* cooldowns in this run
    crashes,
    faults

jobVars == <<state, tries, reason, queue, bytes, chunk, pub>>
runVars == <<phase, fresh, batch, cur, halted, fails, cycles>>
vars == <<state, tries, reason, queue, bytes, chunk, pub, phase, fresh, batch,
          cur, halted, fails, cycles, crashes, faults>>

NoJob == [key |-> Trades(1, 0), step |-> "none"]
CurSteps == {"none", "enqueue_match", "save_match", "commit_match",
             "promote_match", "follow", "commit", "promote"}

(* Priorities by which jobs are claimed: the seed, following pages, earlier *)
(* days, opening matches.                                                   *)
Priority(k) ==
    CASE Family(k) = "opening_match" -> 999999
      [] Family(k) = "trades" /\ Position(k) > 0 -> 100
      [] Family(k) = "trades" /\ Position(k) = 0 /\ Day(k) > 1 -> 1000
      [] Family(k) = "trades" /\ Position(k) = 0 /\ Day(k) = 1 -> 0

Init ==
    /\ state = [k \in Keys |-> IF k = Trades(1, 0) THEN "PENDING" ELSE "ABSENT"]
    /\ tries = [k \in Keys |-> 0]
    /\ reason = [k \in Keys |-> "none"]
    /\ queue = <<Trades(1, 0)>>
    /\ bytes = [k \in Keys |-> "none"]
    /\ chunk = [k \in Keys |-> FALSE]
    /\ pub = [k \in Keys |-> "no"]
    /\ phase = "down"
    /\ fresh = FALSE
    /\ batch = <<>>
    /\ cur = NoJob
    /\ halted = FALSE
    /\ fails = 0
    /\ cycles = 0
    /\ crashes = 0
    /\ faults = 0

-----------------------------------------------------------------------------
(* The queue *)

Rowid(k) == CHOOSE n \in 1..Len(queue) : queue[n] = k
Before(j, k) == \/ Priority(j) < Priority(k)
                \/ Priority(j) = Priority(k) /\ Rowid(j) < Rowid(k)

PendingJobs == {k \in Keys : state[k] = "PENDING"}

(* The first BatchSize pending jobs by priority and rowid, in that order. *)
IsClaim(b) ==
    /\ Len(b) = IF Cardinality(PendingJobs) < BatchSize
                  THEN Cardinality(PendingJobs) ELSE BatchSize
    /\ \A n \in DOMAIN b : b[n] \in PendingJobs
    /\ \A m, n \in DOMAIN b : m < n => Before(b[m], b[n])
    /\ \A k \in PendingJobs \ {b[n] : n \in DOMAIN b} :
         \A n \in DOMAIN b : Before(b[n], k)

Claims == {b \in UNION {[1..n -> PendingJobs] : n \in 0..BatchSize} : IsClaim(b)}

(* INSERT OR IGNORE of a PENDING job. *)
Enqueue(k) ==
    IF state[k] = "ABSENT"
      THEN /\ state' = [state EXCEPT ![k] = "PENDING"]
           /\ queue' = Append(queue, k)
      ELSE UNCHANGED <<state, queue>>

(* recover: what a dead process left behind is pending again, and so are    *)
(* transient errors that have attempts left.                                *)
Retryable(k) == state[k] = "ERROR" /\ reason[k] = "transient" /\ tries[k] < MaxTries

(* Mutant of Recovered: a job whose page is already stored is left alone. *)
RecoveredRunning == [k \in Keys |->
    IF state[k] = "RUNNING" \/ Retryable(k) THEN "PENDING" ELSE state[k]]

Recovered == [k \in Keys |->
    IF state[k] \in {"RUNNING", "STORED"} \/ Retryable(k) THEN "PENDING" ELSE state[k]]

Reconciled == [k \in Keys |-> IF pub[k] = "held" THEN "visible" ELSE pub[k]]

-----------------------------------------------------------------------------
(* Runs *)

BeginRun ==
    /\ phase = "down"
    /\ state' = Recovered
    /\ pub' = Reconciled
    /\ phase' = "loop"
    /\ fresh' = TRUE
    /\ fails' = 0
    /\ cycles' = 0
    /\ UNCHANGED <<tries, reason, queue, bytes, chunk, batch, cur, crashes, faults>>

(* The service starts a run unless a stop marker is there ... *)
Autoresume == ~halted /\ BeginRun /\ UNCHANGED halted

(* ... which only a person removes. *)
Resume == halted /\ BeginRun /\ halted' = FALSE

Stop ==
    /\ ~halted
    /\ halted' = TRUE
    /\ UNCHANGED <<jobVars, phase, fresh, batch, cur, fails, cycles, crashes, faults>>

(* Stop marker, time or request budget, or nothing left to do; a run with   *)
(* work and no stop marker handles at least one batch.                      *)
EndRun ==
    /\ phase = "loop"
    /\ halted \/ ~fresh \/ PendingJobs = {}
    /\ phase' = "down"
    /\ UNCHANGED <<jobVars, fresh, batch, cur, halted, fails, cycles, crashes, faults>>

(* Jobs as they are in the table now: saved says that the row has a chunk. *)
Claim ==
    /\ phase = "loop"
    /\ ~halted
    /\ PendingJobs # {}
    /\ \E b \in Claims :
         LET claimed == {b[n] : n \in DOMAIN b} IN
         /\ batch' = [n \in DOMAIN b |-> [key |-> b[n], saved |-> chunk[b[n]]]]
         /\ state' = [k \in Keys |-> IF k \in claimed THEN "RUNNING" ELSE state[k]]
         /\ tries' = [k \in Keys |-> IF k \in claimed /\ tries[k] < MaxTries
                                       THEN tries[k] + 1 ELSE tries[k]]
    /\ phase' = "work"
    /\ fresh' = FALSE
    /\ UNCHANGED <<reason, queue, bytes, chunk, pub, cur, halted, fails, cycles,
                   crashes, faults>>

(* After a batch: a cooldown with recovery when failures have piled up, and *)
(* a halt when the run has had all its cooldowns.                           *)
EndBatch ==
    /\ phase = "work"
    /\ batch = <<>>
    /\ cur = NoJob
    /\ \/ /\ fails < Burst
          /\ phase' = "loop"
          /\ UNCHANGED <<state, halted, fails, cycles>>
       \/ /\ fails >= Burst
          /\ cycles < MaxCycles
          /\ state' = Recovered
          /\ cycles' = cycles + 1
          /\ fails' = 0
          /\ phase' = "loop"
          /\ UNCHANGED halted
       \/ /\ fails >= Burst
          /\ cycles >= MaxCycles
          /\ halted' = TRUE
          /\ phase' = "down"
          /\ UNCHANGED <<state, fails, cycles>>
    /\ UNCHANGED <<tries, reason, queue, bytes, chunk, pub, fresh, batch, cur,
                   crashes, faults>>

-----------------------------------------------------------------------------
(* One claimed job: its response, in batch order *)

AtNextJob == phase = "work" /\ cur = NoJob /\ batch # <<>>

Fail(k, why) ==
    /\ state' = [state EXCEPT ![k] = "ERROR"]
    /\ reason' = [reason EXCEPT ![k] = why]

(* The request failed.  An opening_match job has no request of its own and  *)
(* fails unless its bytes are already saved; saved bytes fail only with the *)
(* storage.  The row loses its chunk.                                       *)
FetchError(why) ==
    /\ AtNextJob
    /\ LET job == Head(batch) IN
         /\ job.saved => why = "bad" /\ faults < MaxFaults
         /\ faults' = IF job.saved THEN faults + 1 ELSE faults
         /\ Family(job.key) = "opening_match" => why = "bad"
         /\ Fail(job.key, why)
         /\ chunk' = [chunk EXCEPT ![job.key] = FALSE]
    /\ batch' = Tail(batch)
    /\ fails' = IF why = "bad" THEN 0 ELSE IF fails < Burst THEN fails + 1 ELSE fails
    /\ UNCHANGED <<tries, queue, bytes, pub, phase, fresh, cur, halted, cycles, crashes>>

(* The provider refuses access: the run ends at once, the rest of the batch *)
(* stays RUNNING.                                                           *)
AccessDenied ==
    /\ AtNextJob
    /\ ~Head(batch).saved
    /\ Family(Head(batch).key) = "trades"
    /\ Fail(Head(batch).key, "bad")
    /\ chunk' = [chunk EXCEPT ![Head(batch).key] = FALSE]
    /\ batch' = <<>>
    /\ phase' = "down"
    /\ halted' = TRUE
    /\ UNCHANGED <<tries, queue, bytes, pub, fresh, cur, fails, cycles, crashes, faults>>

Continues(k) == Family(k) = "trades" /\ Position(k) > 0

(* Mutant of HasPredecessor: bytes of the preceding page are enough. *)
HasPredecessorBytes(k) == chunk[Trades(Day(k), Position(k) - 1)]

HasPredecessor(k) ==
    LET p == Trades(Day(k), Position(k) - 1) IN state[p] = "SAVED" /\ chunk[p]

Stall(k, saved, why) ==
    /\ state' = [state EXCEPT ![k] = "STALLED"]
    /\ reason' = [reason EXCEPT ![k] = why]
    /\ chunk' = [chunk EXCEPT ![k] = saved]

(* validate_page_chain: no exact preceding page, or its rows once more. *)
Rejected(why) ==
    /\ AtNextJob
    /\ LET job == Head(batch) IN
         /\ Continues(job.key)
         /\ \/ why = "gap" /\ ~HasPredecessor(job.key)
            \/ why = "repeat" /\ HasPredecessor(job.key) /\ ~job.saved
         /\ Stall(job.key, job.saved, why)
    /\ batch' = Tail(batch)
    /\ fails' = 0
    /\ UNCHANGED <<tries, queue, bytes, pub, phase, fresh, cur, halted, cycles,
                   crashes, faults>>

(* Mutant of FirstStep: the opening match is saved without a job row. *)
FirstStepNoRow(k, c) ==
    CASE Family(k) = "opening_match"            -> "commit"
      [] Family(k) = "trades" /\ c = "match" -> "save_match"
      [] Family(k) = "trades" /\ c # "match" -> "follow"

FirstStep(k, c) ==
    CASE Family(k) = "opening_match"            -> "commit"
      [] Family(k) = "trades" /\ c = "match" -> "enqueue_match"
      [] Family(k) = "trades" /\ c # "match" -> "follow"

(* Mutant of Response: the provider is asked again although bytes are saved. *)
ResponseFresh(job) == IF Family(job.key) = "trades" THEN Contents ELSE {}

(* The bytes to work with: the saved ones if the row had a chunk, otherwise *)
(* whatever the provider answers.                                           *)
Response(job) == IF job.saved THEN {bytes[job.key]}
                 ELSE IF Family(job.key) = "trades" THEN Contents ELSE {}

(* save_page without publication. *)
Store(c) ==
    /\ AtNextJob
    /\ LET job == Head(batch) IN
         /\ Continues(job.key) => HasPredecessor(job.key)
         /\ c \in Response(job)
         /\ state' = [state EXCEPT ![job.key] = "STORED"]
         /\ bytes' = [bytes EXCEPT ![job.key] = c]
         /\ chunk' = [chunk EXCEPT ![job.key] = TRUE]
         /\ cur' = [key |-> job.key, step |-> FirstStep(job.key, c)]
    /\ batch' = Tail(batch)
    /\ UNCHANGED <<tries, reason, queue, pub, phase, fresh, halted, fails, cycles,
                   crashes, faults>>

-----------------------------------------------------------------------------
(* One stored page: opening match, cursor, publication *)

At(step) == cur.step = step
Goto(step) == cur' = [cur EXCEPT !.step = step]
MatchOf(k) == Match(Day(k), Position(k))
workFrame == <<phase, fresh, batch, halted, cycles, crashes, faults>>

EnqueueMatch ==
    /\ At("enqueue_match")
    /\ Enqueue(MatchOf(cur.key))
    /\ Goto("save_match")
    /\ UNCHANGED <<tries, reason, bytes, chunk, pub, fails, workFrame>>

SaveMatch ==
    /\ At("save_match")
    /\ state' = [state EXCEPT ![MatchOf(cur.key)] = "STORED"]
    /\ bytes' = [bytes EXCEPT ![MatchOf(cur.key)] = "rows"]
    /\ chunk' = [chunk EXCEPT ![MatchOf(cur.key)] = TRUE]
    /\ Goto("commit_match")
    /\ UNCHANGED <<tries, reason, queue, pub, fails, workFrame>>

(* Publication row, job state and pending promotion in one transaction. *)
CommitPage(k) ==
    /\ pub' = [pub EXCEPT ![k] = IF @ = "no" THEN "held" ELSE @]
    /\ state' = [state EXCEPT ![k] = IF bytes[k] = "empty" THEN "EMPTY" ELSE "SAVED"]
    /\ reason' = [reason EXCEPT ![k] = "none"]
    /\ UNCHANGED <<tries, queue, bytes, chunk>>

PromotePage(k) ==
    /\ pub' = [pub EXCEPT ![k] = "visible"]
    /\ UNCHANGED <<state, tries, reason, queue, bytes, chunk>>

CommitMatch == At("commit_match") /\ CommitPage(MatchOf(cur.key))
               /\ Goto("promote_match") /\ UNCHANGED <<fails, workFrame>>

(* Mutant of PromoteMatch: after a match the cursor is not moved on. *)
PromoteMatchOnly == At("promote_match") /\ PromotePage(MatchOf(cur.key))
                    /\ Goto("commit") /\ UNCHANGED <<fails, workFrame>>

PromoteMatch == At("promote_match") /\ PromotePage(MatchOf(cur.key))
                /\ Goto("follow") /\ UNCHANGED <<fails, workFrame>>

(* follow: queue the next page, or the day before after an empty page; the  *)
(* last page allowed ends the chain without a publication.                  *)
Follow ==
    LET k == cur.key IN
    /\ At("follow")
    /\ \/ /\ bytes[k] # "empty"
          /\ Position(k) + 1 <= MaxPage
          /\ Enqueue(Trades(Day(k), Position(k) + 1))
          /\ Goto("commit")
          /\ UNCHANGED fails
       \/ /\ bytes[k] # "empty"
          /\ Position(k) + 1 > MaxPage
          /\ state' = [state EXCEPT ![k] = "PAGE_LIMIT"]
          /\ cur' = NoJob
          /\ fails' = 0
          /\ UNCHANGED queue
       \/ /\ bytes[k] = "empty"
          /\ IF Day(k) < NDays THEN Enqueue(Trades(Day(k) + 1, 0))
             ELSE UNCHANGED <<state, queue>>
          /\ Goto("commit")
          /\ UNCHANGED fails
    /\ UNCHANGED <<tries, reason, bytes, chunk, pub, workFrame>>

Commit == At("commit") /\ CommitPage(cur.key) /\ Goto("promote")
          /\ UNCHANGED <<fails, workFrame>>

Promote == At("promote") /\ PromotePage(cur.key) /\ cur' = NoJob /\ fails' = 0
           /\ UNCHANGED workFrame

(* Disk, lock or rename error at any of these steps: the job is marked      *)
(* ERROR with its chunk, for good.                                          *)
StorageFault ==
    /\ cur # NoJob
    /\ faults < MaxFaults
    /\ faults' = faults + 1
    /\ Fail(cur.key, "bad")
    /\ cur' = NoJob
    /\ fails' = 0
    /\ UNCHANGED <<tries, queue, bytes, chunk, pub, phase, fresh, batch, halted,
                   cycles, crashes>>

(* The process is killed: tables and files stay. *)
Crash ==
    /\ phase # "down"
    /\ crashes < MaxCrashes
    /\ crashes' = crashes + 1
    /\ phase' = "down"
    /\ batch' = <<>>
    /\ cur' = NoJob
    /\ UNCHANGED <<jobVars, fresh, halted, fails, cycles, faults>>

-----------------------------------------------------------------------------
RunStep ==
    \/ Claim \/ EndBatch
    \/ \E why \in {"transient", "bad"} : FetchError(why)
    \/ AccessDenied
    \/ \E why \in {"gap", "repeat"} : Rejected(why)
    \/ \E c \in Contents : Store(c)
    \/ EnqueueMatch \/ SaveMatch \/ CommitMatch \/ PromoteMatch
    \/ Follow \/ Commit \/ Promote

Next == Autoresume \/ Resume \/ Stop \/ EndRun \/ RunStep \/ StorageFault \/ Crash

Spec == Init /\ [][Next]_vars

(* The service starts run after run, and a run goes on and ends when it has *)
(* nothing left to do.  Nobody has to remove a stop marker.                 *)
FairSpec == Spec /\ WF_vars(Autoresume) /\ WF_vars(RunStep) /\ WF_vars(EndRun)

-----------------------------------------------------------------------------
(* Properties *)

(* Types, and: a job has a row exactly if it is in the queue. *)
TypeOK ==
    /\ state \in [Keys -> States]
    /\ tries \in [Keys -> 0..MaxTries]
    /\ reason \in [Keys -> Reasons]
    /\ queue \in Seq(Keys)
    /\ \A k \in Keys : state[k] # "ABSENT" <=> k \in {queue[n] : n \in DOMAIN queue}
    /\ bytes \in [Keys -> Contents \cup {"none"}]
    /\ chunk \in [Keys -> BOOLEAN]
    /\ pub \in [Keys -> {"no", "held", "visible"}]
    /\ phase \in {"down", "loop", "work"}
    /\ fresh \in BOOLEAN
    /\ batch \in Seq([key : Keys, saved : BOOLEAN])
    /\ cur \in [key : Keys, step : CurSteps]
    /\ halted \in BOOLEAN
    /\ fails \in 0..Burst
    /\ cycles \in 0..MaxCycles
    /\ crashes \in Nat
    /\ faults \in Nat

(* A committed page continues a committed page: the published part of a     *)
(* day's chain has no hole, in whatever order jobs are claimed, retried and *)
(* recovered (validate_page_chain).                                         *)
NoGapInChain ==
    \A k \in Keys : Continues(k) /\ pub[k] # "no" =>
        LET p == Trades(Day(k), Position(k) - 1)
        IN  pub[p] # "no" /\ bytes[p] # "empty"

(* What a finished job calls for is there: the job that continues the       *)
(* collection, so that a crash cannot end the history silently (follow runs *)
(* before the commit), and the publication of an opening match, which a     *)
(* crash between the two publications must not lose.                        *)
FollowersExist ==
    \A d \in Days, i \in Positions :
        /\ state[Trades(d, i)] = "SAVED" /\ i < MaxPage
             => state[Trades(d, i + 1)] # "ABSENT"
        /\ state[Trades(d, i)] = "EMPTY" /\ d < NDays
             => state[Trades(d + 1, 0)] # "ABSENT"
        /\ state[Trades(d, i)] = "SAVED" /\ bytes[Trades(d, i)] = "match"
             => pub[Match(d, i)] # "no"

(* "Resume the exact saved bytes": once a response is on disk for a job, no *)
(* later response replaces it, however often the job is claimed again.      *)
SavedBytesAreFinal ==
    [][\A k \in Keys : bytes[k] # "none" => bytes'[k] = bytes[k]]_vars

(* Every pending job is decided in the end, unless collection was stopped:  *)
(* kills leave no job RUNNING or STORED for ever.                           *)
Settled == {"SAVED", "EMPTY", "ERROR", "STALLED", "PAGE_LIMIT"}
JobsSettle == \A k \in Keys : (state[k] = "PENDING") ~> (state[k] \in Settled \/ halted)

(* What stops a chain is the provider repeating a page; a page saved before *)
(* an interruption is read again and its successors go on.                  *)
OnlyRepeatsStall == \A k \in Keys : reason[k] # "gap"
=============================================================================
