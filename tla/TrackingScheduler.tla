------------------------- MODULE TrackingScheduler --------------------------
(***************************************************************************)
(* Automatic tracking of one watch (agent/tracking_scheduler.py,           *)
(* agent/series_auto_update.py, agent/tracking_authorization.py).          *)
(*                                                                         *)
(* Under a grant that a person gives for a number of jobs and downloads,   *)
(* a tick of the daemon or the desktop, which holds the lock of the watch, *)
(* settles the open research cycle, downloads and publishes the data of    *)
(* the latest session, reserves a cycle for it and submits its job.  Every *)
(* durable write is a step; the process can be killed between any two, and *)
(* other people publish data and retry jobs meanwhile.                     *)
(***************************************************************************)
EXTENDS Naturals, FiniteSets, Sequences, SequencesExt

CONSTANTS
    LastDay,       \* the end cap of the grants; sessions are numbered from 1
    MaxGrants,     \* bound: grants given, numbered from 1
    MaxJobs,       \* max_jobs of a grant
    MaxDownloads,  \* max_downloads of a grant
    MaxTries,      \* bound: attempts of a job
    MaxTroubles    \* bound: kills, publications by others, jobs handled by a person

ASSUME TrackingAssumption ==
    /\ {LastDay, MaxGrants, MaxJobs, MaxDownloads, MaxTries} \subseteq Nat \ {0}
    /\ MaxTroubles \in Nat

VARIABLES
    day,        \* the latest session whose data can be queried
    control,    \* the record of the watch in _tracking_control
    archive,    \* archive[g]: the cycles of a grant that was replaced
    step, mem, stamp, todo, at,  \* the tick under way, see below
    receipt,    \* receipt[n]: what is on disk of the grant's n-th download
    current,    \* the publication that the data series ends with
    history,    \* the snapshots of the watch: jobs whose results it took over
    job, tries, \* the research queue
    troubles

tickVars == <<step, mem, stamp, todo, at>>
dataVars == <<receipt, current>>
queueVars == <<job, tries>>
vars == <<day, control, archive, tickVars, dataVars, history, queueVars, troubles>>

Days == 1..LastDay
Grants == 1..MaxGrants
Downloads == 1..MaxDownloads
Imports == Grants \X Downloads
Others == <<0, 0>>
NoReceipts == [n \in Downloads |-> "none"]

(* The job of a cycle has an id derived from grant and session. *)
Queue == INSTANCE JobLifecycle WITH Jobs <- Grants \X Days

Pending == {"reserved", "queued", "running"}
Settled == {"synced", "stopped", "abandoned"}
NoCycles == [d \in Days |-> "none"]
NoControl == [grant |-> 0, enabled |-> FALSE, due |-> FALSE, accepted |-> 0,
              updates |-> <<>>, cycles |-> NoCycles]

(* A tick works on a copy of the record, mem; stamp is its clock, todo the  *)
(* cycles it still has to settle, at the cycle whose job it submits.        *)
NoTick == step = "idle" /\ mem = NoControl /\ stamp = 0 /\ todo = {} /\ at = 0
NoTick2 == step' = "idle" /\ mem' = NoControl /\ stamp' = 0 /\ todo' = {} /\ at' = 0

Init ==
    /\ day = 1
    /\ control = NoControl
    /\ archive = [g \in Grants |-> NoCycles]
    /\ NoTick
    /\ receipt = NoReceipts
    /\ current = [id |-> 1, by |-> Others, end |-> 0]
    /\ history = <<>>
    /\ Queue!Init
    /\ troubles = 0

-----------------------------------------------------------------------------
(* Grants *)

Open(c) == {d \in Days : c.cycles[d] \in Pending}
Reserved(c) == {d \in Days : c.cycles[d] # "none"}

(* Everybody who changes the record takes its lock, or gives up. *)
Unlocked == step = "idle"

MayReplace == ~control.enabled /\ Open(control) = {}

(* A person gives a grant, for the data that is published now.  Receipts of *)
(* the grant before are not read again.                                    *)
Authorize ==
    /\ Unlocked
    /\ control.grant < MaxGrants
    /\ MayReplace
    /\ control' = [NoControl EXCEPT !.grant = control.grant + 1, !.enabled = TRUE,
                                    !.due = TRUE, !.accepted = current.id]
    /\ archive' = IF control.grant = 0 THEN archive
                  ELSE [archive EXCEPT ![control.grant] = control.cycles]
    /\ receipt' = NoReceipts
    /\ UNCHANGED <<day, tickVars, current, history, queueVars, troubles>>

Revoke ==
    /\ Unlocked
    /\ control.enabled
    /\ control' = [control EXCEPT !.enabled = FALSE]
    /\ UNCHANGED <<day, archive, tickVars, dataVars, history, queueVars, troubles>>

-----------------------------------------------------------------------------
(* What a tick may rely on: validate *)

OwnImport(c) == <<c.grant, Len(c.updates)>>

LastUpdate(c) ==
    IF c.updates = <<>> THEN [target |-> 0, status |-> "none"] ELSE Last(c.updates)

(* The publication is that of a download whose end the record does not know.*)
Recovering(c) == LastUpdate(c).status = "downloading" /\ current.by = OwnImport(c)

(* Mutant of ChannelKept: whose publication it is does not matter. *)
ChannelKeptAnyhow(c) == TRUE

ChannelKept(c) == current.id = c.accepted \/ Recovering(c)

Go(where) == step' = where
Into(c) == mem' = c
Persist(c) == control' = c

Keep == UNCHANGED <<day, archive, troubles>>

(* expired, or code, folders or the watch have changed: valid = FALSE *)
TickBegin ==
    /\ Unlocked
    /\ control.enabled \/ Open(control) # {}
    /\ \E valid \in BOOLEAN :
         Into([control EXCEPT !.enabled = @ /\ valid /\ ChannelKept(control)])
    /\ stamp' = day
    /\ todo' = Open(control)
    /\ Go(IF todo' = {} THEN "advancing" ELSE "settling")
    /\ UNCHANGED <<control, at, dataVars, history, queueVars>> /\ Keep

(* Any error on the way: "blocked" until the next check. *)
Fail ==
    /\ step \in {"settling", "updating", "downloading", "planning", "submitting"}
    /\ Into([mem EXCEPT !.due = FALSE])
    /\ Go("saving")
    /\ todo' = {}
    /\ at' = 0
    /\ UNCHANGED <<control, stamp, dataVars, history, queueVars>> /\ Keep

TickEnd ==
    /\ step = "saving"
    /\ Persist(mem)
    /\ NoTick2
    /\ UNCHANGED <<dataVars, history, queueVars>> /\ Keep

-----------------------------------------------------------------------------
(* settle *)

JobOf(d) == <<mem.grant, d>>
Without(d) == todo' = todo \ {d}
Cycle(d, status) == [mem EXCEPT !.cycles[d] = status]

(* WatchService.observe: a result already taken over is not taken twice, and *)
(* one older than the latest is refused.                                     *)
ObservedDay == IF history = <<>> THEN 0 ELSE Last(history)[2]

(* Mutant of Observe: the history is not searched. *)
ObserveAgain(j) == history' = Append(history, j)

Observe(j) ==
    /\ ObservedDay <= j[2]
    /\ history' = IF Contains(history, j) THEN history ELSE Append(history, j)

(* Mutant of SettleMissing: a cycle whose grant has ended waits on. *)
SettleMissingWaits(d) ==
    /\ job[JobOf(d)] = "none"
    /\ \/ mem.enabled /\ mem.due /\ Go("submitting") /\ at' = d
       \/ ~mem.due /\ UNCHANGED <<step, at>>
    /\ UNCHANGED <<mem, history>>

(* A cycle without a job: submit it, wait, or give it up. *)
SettleMissing(d) ==
    /\ job[JobOf(d)] = "none"
    /\ IF mem.cycles[d] = "reserved" /\ mem.enabled
         THEN /\ UNCHANGED mem
              /\ \/ mem.due /\ Go("submitting") /\ at' = d
                 \/ ~mem.due /\ UNCHANGED <<step, at>>
         ELSE /\ Into([Cycle(d, "abandoned") EXCEPT !.enabled = FALSE])
              /\ UNCHANGED <<step, at>>
    /\ UNCHANGED history

SettleCompleted(d) ==
    /\ job[JobOf(d)] = "completed"
    /\ Observe(JobOf(d))
    /\ Into(Cycle(d, "synced"))
    /\ UNCHANGED <<step, at>>

SettleFailed(d) ==
    /\ job[JobOf(d)] = "stopped"
    /\ Into([Cycle(d, "stopped") EXCEPT !.enabled = FALSE])
    /\ UNCHANGED <<step, at, history>>

SettleActive(d) ==
    /\ job[JobOf(d)] \in {"queued", "running"}
    /\ Into(Cycle(d, job[JobOf(d)]))
    /\ UNCHANGED <<step, at, history>>

Settle(d) ==
    /\ step = "settling"
    /\ d \in todo
    /\ Without(d)
    /\ SettleMissing(d) \/ SettleCompleted(d) \/ SettleFailed(d) \/ SettleActive(d)
    /\ UNCHANGED <<control, stamp, dataVars, queueVars>> /\ Keep

SettleEnd ==
    /\ step = "settling"
    /\ todo = {}
    /\ Persist(mem)
    /\ Go("advancing")
    /\ UNCHANGED <<mem, stamp, todo, at, dataVars, history, queueVars>> /\ Keep

-----------------------------------------------------------------------------
(* advance: the next check is put off first; within the budget, the data    *)
(* and then the research are brought to the latest session.                 *)

IsDue == mem.enabled /\ Open(mem) = {} /\ mem.due
Spent == Cardinality(Reserved(mem)) >= MaxJobs
PutOff == [mem EXCEPT !.due = FALSE]
Stop(c) == [c EXCEPT !.enabled = FALSE]

Advance ==
    /\ step = "advancing"
    /\ \/ ~IsDue /\ UNCHANGED mem /\ Go("saving")
       \/ IsDue /\ Spent /\ Into(Stop(PutOff)) /\ Go("saving")
       \/ IsDue /\ ~Spent /\ Into(PutOff) /\ Go("updating")
    /\ UNCHANGED <<control, stamp, todo, at, dataVars, history, queueVars>> /\ Keep

-----------------------------------------------------------------------------
(* maybe_update_series *)

Updated(status) == [mem EXCEPT !.updates[Len(mem.updates)].status = status]
ForThisDay == LastUpdate(mem).target = stamp
IsLast(status) == ForThisDay /\ LastUpdate(mem).status = status
Receipt == receipt[Len(mem.updates)]

updateFrame == <<stamp, todo, at, history, queueVars>>

(* The download is published already, but the record does not say so. *)
UpdateRecover ==
    /\ step = "updating"
    /\ ForThisDay /\ Recovering(mem)
    /\ Into([Updated("published") EXCEPT !.accepted = current.id])
    /\ Persist([mem' EXCEPT !.accepted = mem.accepted])
    /\ Go("published")
    /\ UNCHANGED <<updateFrame, dataVars>> /\ Keep

(* Otherwise somebody else's publication is an error (Fail). *)
Owned == step = "updating" /\ current.id = mem.accepted

UpdateCurrent ==
    /\ Owned
    /\ stamp <= current.end
    /\ Go("planning")
    /\ UNCHANGED <<mem, control, updateFrame, dataVars>> /\ Keep

Behind == Owned /\ stamp > current.end

(* Too early for an answer, or for another try; or a person has to look. *)
UpdateWait ==
    /\ Behind
    /\ \/ IsLast("downloading") /\ Receipt \in {"none", "running"}
       \/ IsLast("failed")
       \/ IsLast("revision_review")
    /\ Go("saving")
    /\ UNCHANGED <<mem, control, updateFrame, dataVars>> /\ Keep

(* No answer for 15 minutes. *)
UpdateGiveUp ==
    /\ Behind
    /\ IsLast("downloading")
    /\ Receipt \in {"none", "running"}
    /\ Into(Updated("failed"))
    /\ Persist(mem')
    /\ UNCHANGED <<step, updateFrame, dataVars>> /\ Keep

UpdateResume ==
    /\ Behind
    /\ IsLast("downloading")
    /\ Receipt \in {"completed", "failed"}
    /\ Go("downloading")
    /\ UNCHANGED <<mem, control, updateFrame, dataVars>> /\ Keep

(* Mutant of UpdateReserve: one download too many. *)
UpdateReserveMore ==
    /\ Behind
    /\ ~ForThisDay \/ IsLast("failed")
    /\ IF Len(mem.updates) > MaxDownloads
         THEN Into(Stop(mem)) /\ UNCHANGED control /\ Go("saving")
         ELSE /\ Into([mem EXCEPT !.updates = Append(@, [target |-> stamp,
                                                         status |-> "downloading"])])
              /\ Persist(mem')
              /\ Go("downloading")
    /\ UNCHANGED <<updateFrame, dataVars>> /\ Keep

(* A first download for this session, or another one after six hours. *)
UpdateReserve ==
    /\ Behind
    /\ ~ForThisDay \/ IsLast("failed")
    /\ IF Len(mem.updates) >= MaxDownloads
         THEN Into(Stop(mem)) /\ UNCHANGED control /\ Go("saving")
         ELSE /\ Into([mem EXCEPT !.updates = Append(@, [target |-> stamp,
                                                         status |-> "downloading"])])
              /\ Persist(mem')
              /\ Go("downloading")
    /\ UNCHANGED <<updateFrame, dataVars>> /\ Keep

(* A child process downloads; it may outlive the tick. *)
DownloadStart ==
    /\ step = "downloading"
    /\ Receipt = "none"
    /\ receipt' = [receipt EXCEPT ![Len(mem.updates)] = "running"]
    /\ UNCHANGED <<mem, control, step, updateFrame, current>> /\ Keep

ChildEnds ==
    /\ \E i \in Downloads, outcome \in {"completed", "failed"} :
         /\ receipt[i] = "running"
         /\ receipt' = [receipt EXCEPT ![i] = outcome]
    /\ UNCHANGED <<day, control, archive, tickVars, current, history, queueVars, troubles>>

Downloaded(outcome) == step = "downloading" /\ Receipt = outcome

(* The batch failed, or does not pass the audit, or revises the past. *)
UpdateFailed ==
    /\ \/ Downloaded("failed") /\ Into(Updated("failed"))
       \/ /\ Downloaded("completed")
          /\ current.id = mem.accepted
          /\ Into(Updated("failed")) \/ Into(Updated("revision_review"))
    /\ Go("saving")
    /\ UNCHANGED <<control, updateFrame, dataVars>> /\ Keep

(* A person has published the batch in the meantime. *)
PublishFound ==
    /\ Downloaded("completed")
    /\ current.by = OwnImport(mem)
    /\ Into([Updated("published") EXCEPT !.accepted = current.id])
    /\ Persist([mem' EXCEPT !.accepted = mem.accepted])
    /\ Go("published")
    /\ UNCHANGED <<updateFrame, dataVars>> /\ Keep

Publish ==
    /\ Downloaded("completed")
    /\ current.id = mem.accepted
    /\ current' = [id |-> current.id + 1, by |-> OwnImport(mem), end |-> LastUpdate(mem).target]
    /\ Into([Updated("published") EXCEPT !.accepted = current'.id])
    /\ Go("published")
    /\ UNCHANGED <<control, updateFrame, receipt>> /\ Keep

Accept ==
    /\ step = "published"
    /\ Persist(mem)
    /\ Go("planning")
    /\ UNCHANGED <<mem, updateFrame, dataVars>> /\ Keep

-----------------------------------------------------------------------------
(* The research of the latest session *)

Target == current.end

(* Not ready, nothing to do, or a cycle for this session exists. *)
PlanNothing ==
    /\ step = "planning"
    /\ \/ UNCHANGED mem
       \/ Target = LastDay /\ ObservedDay >= Target /\ Into(Stop(mem))
    /\ Go("saving")
    /\ UNCHANGED <<control, updateFrame, dataVars>> /\ Keep

Wanted(d) == d \in Days /\ ObservedDay < d /\ mem.cycles[d] = "none"

(* Mutant of PlanReserve: the cycle is saved with its submission. *)
PlanReserveLate ==
    /\ step = "planning"
    /\ Wanted(Target)
    /\ Into(Cycle(Target, "reserved"))
    /\ at' = Target
    /\ Go("submitting")
    /\ UNCHANGED <<control, stamp, todo, history, queueVars, dataVars>> /\ Keep

PlanReserve ==
    /\ step = "planning"
    /\ Wanted(Target)
    /\ Into(Cycle(Target, "reserved"))
    /\ Persist(mem')
    /\ at' = Target
    /\ Go("submitting")
    /\ UNCHANGED <<stamp, todo, history, queueVars, dataVars>> /\ Keep

(* dispatch: the grant and the data once more, then the queue, which knows  *)
(* a job it has got before.                                                 *)
Submit ==
    /\ step = "submitting"
    /\ mem.enabled /\ ChannelKept(mem)
    /\ Queue!Submit(JobOf(at))
    /\ Go("submitted")
    /\ UNCHANGED <<mem, control, stamp, todo, at, history, dataVars>> /\ Keep

(* It was called by settle, which goes on, or by advance. *)
Submitted ==
    /\ step = "submitted"
    /\ Into(Cycle(at, "queued"))
    /\ Persist(mem')
    /\ Go(IF mem.due THEN "settling" ELSE "saving")
    /\ at' = 0
    /\ UNCHANGED <<stamp, todo, history, queueVars, dataVars>> /\ Keep

-----------------------------------------------------------------------------
(* reconcile_completed: a person has retried the job of a cycle that had    *)
(* ended without a result, and takes the result over.                       *)
Reconcile(d) ==
    /\ Unlocked
    /\ control.cycles[d] = "stopped"
    /\ job[<<control.grant, d>>] = "completed"
    /\ Observe(<<control.grant, d>>)
    /\ Into([control EXCEPT !.cycles[d] = "synced"])
    /\ Go("saving")
    /\ UNCHANGED <<control, stamp, todo, at, queueVars, dataVars>> /\ Keep

-----------------------------------------------------------------------------
(* The surroundings *)

outside == <<archive, tickVars, receipt, history>>
Calm == UNCHANGED troubles

Trouble == troubles < MaxTroubles /\ troubles' = troubles + 1

NextDay ==
    /\ day < LastDay
    /\ day' = day + 1
    /\ UNCHANGED <<control, current, queueVars, outside>> /\ Calm

(* next_check has passed. *)
Wake ==
    /\ Unlocked
    /\ control.enabled
    /\ ~control.due
    /\ control' = [control EXCEPT !.due = TRUE]
    /\ UNCHANGED <<day, current, queueVars, outside>> /\ Calm

(* Somebody publishes other data, or confirms the batch of a tick by hand. *)
ForeignPublish ==
    /\ Trouble
    /\ \E end \in current.end..day, by \in {Others, OwnImport(control)} :
         /\ by # Others => /\ current.by # by
                           /\ LastUpdate(control).status \in {"downloading", "revision_review"}
                           /\ receipt[by[2]] = "completed"
                           /\ end = LastUpdate(control).target
         /\ current' = [id |-> current.id + 1, by |-> by, end |-> end]
    /\ UNCHANGED <<day, control, queueVars, outside>>

JobRuns(j) ==
    /\ Queue!Start(j) \/ Queue!End(j)
    /\ UNCHANGED <<day, control, current, outside>> /\ Calm

(* A person cancels a job or tries it again. *)
JobHandled(j) ==
    /\ Queue!Cancel(j) \/ (tries[j] < MaxTries /\ Queue!Retry(j))
    /\ UNCHANGED <<day, control, current, outside>> /\ Trouble

Crash ==
    /\ Trouble
    /\ NoTick2
    /\ Queue!Restart
    /\ UNCHANGED <<day, control, archive, dataVars, history>>

-----------------------------------------------------------------------------
Update ==
    \/ UpdateRecover \/ UpdateCurrent \/ UpdateWait \/ UpdateGiveUp \/ UpdateResume
    \/ UpdateReserve \/ DownloadStart \/ UpdateFailed
    \/ PublishFound \/ Publish \/ Accept

Tick ==
    \/ TickBegin \/ (\E d \in Days : Settle(d)) \/ SettleEnd
    \/ Advance \/ Update \/ PlanNothing \/ PlanReserve \/ Submit \/ Submitted \/ TickEnd

Next ==
    \/ Tick \/ Fail
    \/ Authorize \/ Revoke \/ \E d \in Days : Reconcile(d)
    \/ \E j \in Grants \X Days : JobRuns(j) \/ JobHandled(j)
    \/ NextDay \/ Wake \/ ForeignPublish \/ ChildEnds \/ Crash

Spec == Init /\ [][Next]_vars

(* The daemon looks at its controls again and again, time passes, children  *)
(* and jobs end; an error may stop a tick often, but not every tick.        *)
FairSpec ==
    /\ Spec
    /\ WF_vars(Tick \/ Fail) /\ SF_vars(Wake) /\ WF_vars(ChildEnds)
    /\ SF_vars(Submit) /\ SF_vars(\E d \in Days : Settle(d) /\ <<step, mem>>' # <<step, mem>>)
    /\ WF_vars(\E j \in Grants \X Days : JobRuns(j))

-----------------------------------------------------------------------------
(* Properties *)

Cycles == [Days -> {"none"} \cup Pending \cup Settled]
Controls ==
    [grant : 0..MaxGrants, enabled : BOOLEAN, due : BOOLEAN, accepted : Nat, cycles : Cycles,
     updates : BoundedSeq([target : Days,
                           status : {"downloading", "failed", "revision_review", "published"}],
                          MaxDownloads)]

TypeOK ==
    /\ day \in Days
    /\ {control, mem} \subseteq Controls
    /\ archive \in [Grants -> Cycles]
    /\ step \in {"idle", "settling", "advancing", "updating", "downloading",
                "published", "planning", "submitting", "submitted", "saving"}
    /\ stamp \in {0} \cup Days /\ todo \subseteq Days /\ at \in {0} \cup Days
    /\ receipt \in [Downloads -> {"none", "running", "completed", "failed"}]
    /\ current \in [id : Nat, by : Imports \cup {Others}, end : {0} \cup Days]
    /\ history \in Seq(Grants \X Days)
    /\ job \in [Grants \X Days -> Queue!Statuses]

CycleOf(j) == IF j[1] = control.grant THEN control.cycles[j[2]] ELSE archive[j[1]][j[2]]

(* Whatever write a kill comes between, a job in the queue belongs to a     *)
(* cycle that was saved before and that nobody has given up: no research    *)
(* runs that no record of a grant accounts for.  That of an old grant is    *)
(* over when a new one is given, unless a person retries it.  The network   *)
(* is asked only after the download was saved in the record, and asked      *)
(* again for a session only after a download for it has failed.             *)
WorkIsReserved ==
    /\ \A j \in Grants \X Days :
         /\ job[j] # "none" => CycleOf(j) \notin {"none", "abandoned"}
         /\ j[1] < control.grant /\ job[j] \in Queue!Active => tries[j] > 1
    /\ \A i \in Downloads : receipt[i] # "none" => i <= Len(control.updates)
    /\ \A a, b \in 1..Len(control.updates) :
         a < b /\ control.updates[a].target = control.updates[b].target
           => control.updates[a].status = "failed"

(* A job enters the queue while its grant is in force, within the number of *)
(* jobs that was granted, for a session later than all that were observed,  *)
(* on data that nobody but the grant has changed.                           *)
SubmittedUnderGrant ==
    [][\A j \in Grants \X Days : job[j] = "none" /\ job'[j] # "none" =>
        /\ control.enabled
        /\ j[1] = control.grant
        /\ Cardinality(Reserved(control)) <= MaxJobs
        /\ \A i \in 1..Len(history) : history[i][2] < j[2]
        /\ current.id = control.accepted \/ current.by[1] = j[1]]_vars

(* A result is taken over once and in the order of the sessions, although  *)
(* a kill can come between that and the note that it was.                  *)
TakenOverOnce ==
    /\ \A a, b \in 1..Len(history) : a < b => history[a][2] < history[b][2]
    /\ \A d \in Days : control.cycles[d] = "synced" => Contains(history, <<control.grant, d>>)

(* Reserved research ends: its result is taken over, or the grant is       *)
(* stopped for a person to look at it.                                     *)
OpenIsSettled == Open(control) # {} ~> Open(control) = {}
=============================================================================
