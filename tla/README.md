# Verification of niuniu

This directory holds TLA+ models of the parts of niuniu (Python package
`quantlab` under `src/src/quantlab`) whose correctness depends on the order in
which several processes write files and database rows, or in which data become
known: collection, delivery and storage of market data, the research queue with
its session grants, automatic tracking and its reminders, the daily trading plan
and the paper account. With them come the TLC configurations that check them and
proofs, for every value of the constants, of all the safety properties that the
passing runs check. Source paths below are relative to `src/src/quantlab` unless they
start with `src/`.

## 1. The system

niuniu is a research workstation for the Chinese A-share market. Most of it is
computation over data frames (factors, structure, statistics, backtests). What
is stateful, concurrent and exposed to crashes are the services around it.

| component | state | operations | talks to |
|---|---|---|---|
| TDX collector (`agent/tdx_collection_cli.py`, `data/tdx_lake.py`) | SQLite queue of jobs (`PENDING … SAVED`), page files under `_stored`, `publications`, `pending_promotions`, STOP and AUTO_HALT files | claim a batch, fetch, validate the page chain, store, queue the following pages, commit, promote, recover, cool down, halt | the provider; the page store the delivery exports from |
| TDX result delivery (`agent/tdx_distributed.py`, `tdx_transfer.py`, `tdx_worker_service.py`, `tdx_distributed_cli.py`) | worker: outbox table, `distributed_exports`, bundle files; coordinator: `incoming`, markers, receipts, ledger `distributed_imports`, canonical page store, writer lease | export, upload, import, receipt, acknowledge | HTTP between workers and the coordinator; operators who carry bundles by hand |
| TDX storage (`agent/tdx_storage.py`, `data/tdx_sharding.py`, `agent/tdx_checkpoint_witness.py`) | page folders, archive, compacted query tables, publication rows, STOP file, writer lease | compact, verify, retire | collector and import (page store) |
| Workbench jobs (`workbench/jobs.py`, `server.py`) | one JSON document per job, an in-memory table, a worker thread | submit, run, cancel, resume, restart | HTTP clients, session grants, tracking |
| Session grants (`agent/research_session_grant.py`) | budget, expiry, linked jobs | issue, reserve, submit, revoke | workbench jobs |
| Tracking (`agent/tracking_scheduler.py`, `tracking_control_store.py`, `tracking_authorization.py`, `series_auto_update.py`, `watchlist.py`) | one control record per watch: grant, cycles, downloads, notices; history of the watch; the published data series | authorize, revoke, tick (settle, download, publish, plan, submit), reconcile | workbench jobs, data series, downloads in child processes |
| Notification delivery (`agent/notification_delivery.py`, `desktop/notification_controller.py`) | a shared table of receipts; the batch a desktop holds | read, reserve, send, note the result | notices of tracking, the operating system |
| Daily trading orchestrator (`trading/daily_orchestrator.py`, `playbook_forward.py`, `market_snapshot.py`, `playbook_decision_bridge.py`) | plan file of the day, frozen cases, candidate sets and predictions, snapshots | tick through PREP, AUCTION, R1, R2, R3; capture; freeze; bridge | market data archive, trading desk |
| Backtest and paper account (`execution/`) | bars, targets, rules, and the books computed from them | deliver and replay | decisions, market data |
| Experiment archive (`storage/`) | write-once run folders, approvals | archive, approve, reproduce | workbench |
| Development studio (`devstudio/`) | tasks, worktrees | create, run, review, apply | git, external agents |
| Broker shadow (`broker/`) | read-only snapshots | snapshot, readiness | broker clients |
| Assistant, MCP, chat (`agent/`) | conversations | plumbing around models and tools | all of the above |
| Data and computation (`data/`, `factors/`, `structure/`, …) | files, data frames | pure computation | – |
| User interfaces (`desktop/`, `src/web`) | presentation | – | workbench |

Hard behaviours, and what makes the components correct:

* **Collector.** One process, but it can be killed between any two of the four
  durable writes of a page, and each later run starts from what was left. Right
  means: the published part of a day's chain has no hole; the job that carries
  the collection on is never lost; saved evidence is never replaced by a later
  answer; no job hangs in an intermediate state; what readers see is what the
  job table says was saved.
* **Delivery.** Worker, upload handler, merger thread, local worker and operator
  run concurrently; uploads are cut, repeated and answered too late; imports are
  interrupted and repeated. Right means: a worker deletes its copy only after
  every page is visible in the canonical lake; the ledger takes bundles over in
  order, each exactly once; a pending bundle can always be delivered; each is
  delivered in the end.
* **Workbench jobs and grants.** Client threads race the worker thread; a
  restart interrupts jobs; journal writes fail; a grant is revoked or replaced
  while its jobs are on their way. Right means: what is queued runs once, a
  cancelled or replaced attempt never, an outcome that clients saw stays; a
  grant's budget is never overspent and nothing completes after its end.
* **Storage.** A compaction writes archive, query rows and three files per page,
  and can be killed between any two of them; a retirement deletes the workers'
  copies for good. Right means: the bytes of a published page are whole
  somewhere at any time, queries find its rows all the while, and what is left
  over can be cleaned up.
* **Tracking.** A tick works on a copy of the record, saves it at several places,
  and can be killed between any two writes, while people publish data, cancel
  jobs and replace the grant. Right means: no job and no download without a
  saved reservation within the grant; each result is taken over once, in the
  order of the sessions; a cycle that was begun is settled in the end.
* **Notification delivery.** Several desktops read the same notices. Right means: a
  reminder is sent at most once, whatever is killed, and the history is true.
* **Orchestrator.** The tick judges by the time at which it began, data come late,
  and kills fall between the store, the bridge and the plan. Right means: each
  frame is frozen once, reviews continue the very prediction before them, and
  the plan agrees with the store.
* **Paper account.** Data arrive late and in pieces, and everything is computed
  again from the beginning with all that is known by then. Right means: what was
  committed stays as it was, so no delivery that is in time is refused; fills
  depend on nothing that came after them; cash and shares balance.

`PROJECT.json` lists all components with their status, and under `hazards` the
lines at which this goes wrong if it does.

## 2. Modules

### ResultLedger – the abstract hand-over

`rows[w]` (what a worker exported, in order), `ledger[w]` (what the canonical
lake took over) and `confirmed[w]` (what the worker knows about). `Export`
appends a row that repeats no page, `Merge` takes the next row over, `Confirm`
follows the ledger. Merging and confirming are weakly fair. No files, no
network, no crash.

### JobLifecycle – the abstract research queue

What the clients of the queue rely on: per job a status and the number of the
attempt. `Submit`, `Start`, `End`, `Cancel`, `Retry`, and `Restart`, which
interrupts what was queued or running. A queued or running job ends (weak
fairness of `Start` and `End`), unless a person or a restart ends it before.
`JobQueue` implements it; `TrackingScheduler` is built on it.

### TdxDelivery – the delivery as it is implemented

State and code:

| variable | code |
|---|---|
| `published[w]` | `publications` in rowid order in the worker's lake |
| `outbox[w]`, `acked[w]` | rows of `distributed_result_bundles`, and those with `acked = 1` |
| `tars` | bundle files in `_outbox` |
| `service[w]` | the program counter of `run_service`/`deliver_pending`/`send_result`/`acknowledge` and the bundle in hand |
| `halted` | `AUTO_HALT.json` |
| `incoming`, `failed` | uploads at the coordinator, and their `.failed.json` markers |
| `receipts`, `ledger[w]` | files in `distributed-receipts`, rows of `distributed_imports` |
| `canon[p]` | how far `import_results` came with a page: `absent`, `staged` (files in `_stored`), `listed` (job row), `held` (publication row and pending promotion), `visible` (renamed) |
| `import` | the import that holds the writer lease: who runs it, the pages still to be done, the page in hand |

Actions: `Publish` (a collection cycle), `ExportWrite`/`ExportCommit`
(`export_results`: the file, then the transaction), `Poll`, `Put`, `PutLost`,
`Confirm` (`send_result`), `Acknowledge`/`Unlink` (`acknowledge`: the row, then
the file), `Resume` (a person), `ImportBegin`/`ImportDefer`/`ImportRefuse`
(the checks of `import_results` and what each caller does with their outcome),
`ImportTake`, `ImportStage`, `ImportList`, `ImportPublish`, `ImportPromote`,
`ImportPageDone` (one page, one durable write per step), `ImportRecord`,
`ImportReceipt` (ledger row, receipt), `MergerTidy`, `ImportFault` (an `OSError`
turned into `BundleConflict`), `WorkerCrash`, `ImporterCrash`.

Three importers share the lease: the merger thread over `incoming`, a worker
installed in local mode, and an operator with `import-results`. When
`CourierReadsDirectory` is true the operator takes every file of an outbox
directory, as the guide's bulk-copy procedure does, and not only those with an
outbox row; the runs have it false, the proofs about `DeliveryInv` cover both, and
those about the ledger say that they assume it false.

Abstractions, each of which keeps the control of the code:

* A page stands for an exact provider response; its digest, its job row and its
  dependencies are determined by it. Dependencies other than the page chain
  (the parent of an opening match) are left out of this module.
* `attempt` stands for `bundle_id`, the digest of a body that holds the export
  time, so each export has a new one.
* The byte budget can only shorten a bundle, never to nothing; `ExportWrite`
  chooses any size the page budget allows.
* The order of one service round (deliver, export, deliver, collect) is
  over-approximated: whenever the service is idle it may publish, export or
  deliver. All safety results hold for the code's order in particular.
* Signature and archive-shape checks of an unmodified bundle succeed. Faults
  are cut or lost transfers and I/O errors; altered files are not modelled.
* `ChainsHold` accepts a predecessor whose row exists though it is not
  published, because `page_source` also finds its bytes under `_stored`.
* The ledger row and the receipt are separate steps; the file that the merger
  removes after its receipt is removed by `MergerTidy`.

`MCTdxDelivery` gives it a remote and a local worker, `MCTdxDeliverySingle` a
single worker; in both a chain of two pages can be split over two bundles.

### TdxCollector – one worker's collector

| variable | code |
|---|---|
| `state`, `tries`, `reason`, `chunk`, `queue` | the `jobs` table: state, attempts, kind of the error text, whether the row refers to a stored page, rowid order |
| `bytes` | what is stored for a job, under `_stored` or published |
| `pub` | `no`, `held` (committed, promotion pending), `visible` |
| `phase`, `fresh`, `batch`, `cur` | the program counter of `Runner.run`: between batches or in one, the claimed jobs as they were read, the job in hand and its step |
| `halted` | STOP or AUTO_HALT.json |
| `fails`, `cycles` | transient failures in a row, cooldowns of this run |

Actions: `Autoresume`, `Resume` (recover and reconcile, then run), `Stop`,
`EndRun`, `Claim`, `EndBatch` (cooldown, halt), the outcomes of a job's response
(`FetchError`, `AccessDenied`, `Rejected`, `Store`), the steps of a stored page
(`EnqueueMatch`, `SaveMatch`, `CommitMatch`, `PromoteMatch`, `Follow`, `Commit`,
`Promote`), `StorageFault` and `Crash`.

Abstractions: one security and the trades family with its opening-match page
(the other families have no chain); positions are counted in pages; a page
holds rows, rows with the opening match, or none; the retries inside one fetch
are one outcome; `reason` keeps of the error text what `recover` and the
properties read; attempts are counted up to `MaxTries`; the plan's scope, time
and request budgets end a run at any batch (`EndRun`).

### TdxStorage – where the bytes of a page are

| variable | code |
|---|---|
| `folder[l][p]` | the folder of a page in lake `l`: none, under `_stored`, under its final path; how many of its three files are left |
| `published[l][p]` | the publication row and the place it names |
| `promoting[l]` | `pending_promotions` |
| `archive[l]`, `rows[l]` | `page_archive`; pages with rows in the compacted tables |
| `stopped`, `op[l]` | STOP files; the holder of the writer lease and how far its batch is |
| `exported`, `acked` | pages in bundles, and in acknowledged ones |

Actions: `WorkBegin`, `Store`, `Commit`, `Promote`, `WorkEnd` (a collection run
or an import), `Export`, `Acknowledge`, `Stop`; `CompactBegin`, `LoadBatch`,
`LoadResidual`, `InstallArchive`, `DropRows`, `InsertRows`, `CompactDelete` (one
file per step), `CompactEnd` (`compact_storage`); `RetireBegin`, `RetireDelete`,
`RetireEnd` (`retire_worker_storage`); `Crash`.

Abstractions: `TdxDelivery` tells how bundles travel, so `Export` and
`Acknowledge` are single steps here; a batch may be any set of pages that the
limits of bytes and rows allow; rows of a page are there or not. Left out:
export histories of retired workers (`synchronize_export_history`), the
checkpoints of `tdx_checkpoint_witness`, and `repair_missing_preceding_archives`.

### JobQueue – the research queue of the workbench

| variable | code |
|---|---|
| `phase` | no process, the queue open, or closed with the executor draining |
| `memory[j]`, `disk[j]` | status and attempt in `self.jobs` and in the journal file |
| `token[j]` | the event in `self.cancellations`: none, clear or set |
| `pool` | the tasks that the single-threaded executor has not taken |
| `worker` | where `_run` stands: before the study, in it, in the check after it, or with an outcome that is not yet written |
| `resuming` | the job that `resume` is checking; the lock is held meanwhile |

Actions: `Open` (`__init__`, which marks what was unfinished), `Close`,
`Closed`, `Crash`; `Submit`, `ResumeBegin`/`ResumeCommit`/`ResumeRefuse`,
`Cancel`; `Take`, `Begin`, `Checkpoint`, `Execute`, `Verify`, `Finish` (`_run`).

Abstractions: a job id has one spec, and a client that repeats it gets the
record. Everything that validates a spec, its frozen inputs and its data
qualification is a choice between success and refusal. The journal write is one
step, because it replaces the file, and may fail; a process that is killed
between the rename and what follows is the same as one killed after the step,
as the rest of the step is in memory. Progress records are left out: they repeat
the status that is in the journal already, and a failing one is a study that
fails.

### SessionGrant – session grants on this queue

`SessionGrant` extends `JobQueue`: its actions are those of the queue, joined with what
hosts and clients do, and its specification is `GrantSpec`. It adds

| variable | code |
|---|---|
| `current`, `enabled` | `current.json`: which grant it holds, and whether that is neither revoked nor expired |
| `reserved`, `submitted` | the items of the grant files (`history/` included), and those with `queue_submitted` |
| `client[c]` | where a thread in `submit`/`_submit_reserved` stands |

Actions: `Authorize`, `Revoke` (also expiry), `Reserve` (under the file lock of
the grant), `Admit` (the look at grant and queue without a lock), `Enqueue`
(`JobQueue.submit`), `Mark`. `InForce` is `assert_grant_active`; `resume` and the
worker evaluate it in `UserStep` and `RunStep`. The checks of `_submit_reserved`
and the one at the start of `JobQueue.submit` are one step, since the last of
them decides.

Abstractions: of the budgets only the number of jobs is counted, the others are
added up in the same transaction; the id of a job is derived from grant and
request, so `GrantOf` is a function of the job; grant files are written in one
step. An ordinary job shares the queue.

### TrackingScheduler – automatic research of one watch

| variable | code |
|---|---|
| `day` | the latest session whose data can be queried |
| `control` | the record in `_tracking_control`: grant, enabled, next tick due, accepted publication, downloads, cycles by session |
| `archive[g]` | cycles of replaced grants |
| `step`, `mem`, `stamp`, `todo`, `at` | the tick: where it is, its copy of the record, its clock, the cycles still to settle, the cycle whose job it submits |
| `receipt[n]` | what the n-th download left on disk; it runs in a child process that survives the tick |
| `current` | the publication that ends the data series, by whom, and its last session |
| `history` | the snapshots of the watch |
| `job`, `tries` | an instance of `JobLifecycle` |

Actions: `Authorize`, `Revoke`; `TickBegin`, `Settle…` (one per outcome of a
job), `Advance`, `Update…`, `DownloadStart`, `PublishFound`, `Publish`, `Accept`,
`PlanNothing`, `PlanReserve`, `Submit`, `Submitted`, `Fail`, `TickEnd`;
`Reconcile` (outside of a tick, for results of finished grants); and around it
`NextDay`, `Wake`, `ChildEnds`, `ForeignPublish`, `JobRuns`, `JobHandled`,
`Crash`.

Abstractions: one watch, whose lock the tick holds, so ticks do not overlap; a
kill of the process also restarts the queue. Sessions are numbers; when a tick
is due is a free choice (`Wake`). A tick reads the list of jobs once and settles
by it. Of receipts only those of the current grant matter. "Stopped" stands for
failed, cancelled and interrupted cycles, which only a person can look at. The
check of the guard and the entry into the queue are one step, as the queue's lock
is held. What is researched, the audit of a batch and the calendar are choices.

### NotificationDelivery – reminders

| variable | code |
|---|---|
| `clock`, `setbacks` | time, and how often it was behind a stamp that was used |
| `grant`, `notices[k]` | the control record and its notice per condition |
| `receipt[e]` | the row of an event in the shared receipts table |
| `desk[d]` | the check of a desktop: idle, with a batch read, reserved, or sent |
| `raised`, `met`, `attempts` | history: events that were unread notices, last time of a condition, sends |

Actions: `Notify`, `Acknowledge`, `Authorize`, `Pass`, `SetBack` (the scheduler's
side); `Check`, `Reserve`, `ReserveFails`, `Suppress`, `Send`, `Finish`, `Kill`.

Abstractions: a desktop that does not run is one that does not check; the
permission of the system is a free choice at check and at the end; the notices of
one tick are raised one by one. A desktop does not change its workspace while a
callback is pending (`desktop/app.py:597`).

### DailyOrchestrator – the plan of a trading day

| variable | code |
|---|---|
| `market`, `snaps[f]` | the archive of daily data; the times of the live snapshots of a frame |
| `cases`, `sets`, `predictions` | frozen records of `playbook_forward` |
| `desk` | frames with a receipt of the bridge |
| `disk`, `mem` | the plan file, and the copy a tick works on |
| `tick` | its step, its frame and the time at which it began, by which it judges |
| `calls` | history: network captures |

Actions: `Begin`, `CaptureMarket`, `Market`, `Captured`, `Prep`, `Reserve`,
`Scan`, `Case`, `CandidateSet`, `Prediction`, `Frozen`, `Bridge`, `Stage`,
`Observing`, and `Pass`, `Observe`, `Archive`, `Crash` around them.

Abstractions: the hours of the frames are constants; non-terminal statuses are
collapsed to "open", waiting for data and being early are one; the plan allows
captures of the market; the 30 seconds between captures are below the unit of
time; the PREP snapshot is saved with its reservation; one definition per day;
of the bridge only its receipt or its refusal. Which candidates are found and
what is predicted is left out: only the time a record was made from and the
prediction it continues are kept.

### OpenExecution and PaperAccount – the replay and the durable account

`OpenExecution` has no state: it is the engine (`OpenExecutionBacktester.run`,
`MarketRules.at`) as operators on bars, targets and rules. `RunBar` is one
bar: the target known at its opening (`Known`, `Latest`, `Decided`), the shares that
are missing (`Missing`: valuation at opening prices, one attempt per decision
within the entry window), the orders (`Order`: sales before purchases), each
order's size and reason (`Outcome`: rule of the moment, T+1, what the cash pays with
commission), the valuation at the close. `AfterOrders` goes through the orders
of a bar, sales in one pass and purchases in a second, and `BookAfter` through
the bars that there are. Both, and the sums over lots, symbols and fills (`Sums`),
are recursive functions of a number, so that facts about them can be proved
by induction. The target events are a set: no two are of one time, and the
order of their times is all that counts.

`PaperAccount` is `DynamicPaperAccount.advance`: `bars`, `targets` and `rules` are
merged with what is delivered (`MergedBars`, `MergedTargets`, `Delivered` are the
checks that refuse late or incomplete deliveries), the replay is run, and the
books replace the old ones only if they continue them. The actions are
`Create` (the first delivery), `DeliverBars`, `DeliverTarget` (with or without
new bars) and `DeliverRule`.

Abstractions: integer prices and shares, lots of one share, T+1 on, and a fixed
commission per order; suspension, ST and price limits of a rule
are the set of sides it blocks; the lunch recess of the entry window is left out.
Position, exposure, sector and volume limits are those of an account without them;
then the cash condition is the only one that limits a purchase. Corporate
actions, holding tax and virtual prices are not modelled. A delivery after the
first has bars of one time, one target, both, or a rule; what a real delivery
repeats is skipped by the code. The file is replaced at once under a lock, so a
kill is a delivery that was not made.

## 3. Runs

All bounds are constants, marked "bound" where they are declared; the other
constants are settings of the program. Constraints in the MC modules keep
combinations of rare events apart: `LocalExportsOnce`; `OneOddity` (one of a
kill, a clock set back, and so on, per behaviour); `Brisk` and `Sparing` (a tick
lasts less than two units of time, and captures for one frame);
`BeginsWithLasting`. They are used for safety only. Desktops and conditions of
`notices` are symmetric, again for safety only. Deadlock is not checked where the
system may stop: a worker that has delivered everything and may export no
more, a collector that is halted or has collected all there is, a closed queue,
a day that is over, an account that has all deliveries.

| run | instance | shows |
|---|---|---|
| `delivery_safety` | remote and local worker, pages p1←p2 and q1, two exports, one crash, one I/O error | `TypeOK`, `AckedIsCanonical`, `OutboxRetained`, `MergedChainsClosed`, `PendingNeverRefused` |
| `delivery_live` | one remote worker, two exports, one crash, any number of lost uploads | `ImplementsLedger`: the delivery is `ResultLedger` with its liveness, so every row is merged once, in order, and confirmed in the end |
| `collector` | two days, two pages a day, batches of two, two attempts, one kill, one storage error | `TypeOK`, `NoGapInChain`, `FollowersExist`, `SavedBytesAreFinal`, `JobsSettle` |
| `queue` | two jobs, three attempts each, one kill, two failing journal writes | `TypeOK`, `OnlyCurrentAttemptRuns`, `JournalBacksMemory`, `EndedAttemptStays`, and `ImplementsLifecycle` with its liveness |
| `grant` | two client threads, two jobs of a grant that pays for one, an ordinary job, a second grant, one kill, one failing write | `TypeOK`, `JobsArePaid`, `OnlyCurrentGrantRuns`, `RevokedYieldsNothing` |
| `tracking` | two sessions, two grants with two jobs and two downloads, one trouble: a kill, a publication by others, or a job cancelled or retried by a person | `TypeOK`, `WorkIsReserved`, `TakenOverOnce`, `SubmittedUnderGrant`, `OpenIsSettled` |
| `storage` | the main lake, one worker, two pages, two kills | `TypeOK`, `BytesSurvive`, `RowsStayVisible`, `LeftoversAreSafe` |
| `notices` | two desktops, three conditions, a record of two notices, a table of two rows, one oddity | `TypeOK`, `SentAsRecorded`, `RemindersAreSpaced` |
| `trading` | the five frames, the bridge on, two snapshots per frame, one of a kill, a revision or a refusal | `TypeOK`, `FrozenOnce`, `ReviewsContinue`, `CallsAreCounted` |
| `paper` | two symbols, three bars on two days, two targets, three rules of which one is published late | `TypeOK`, `OnTimeIsAccepted`, `CloseDecidesNothing`, `BooksBalance` |

Why the bounds are enough. Two bundles of one worker are the least for an order
between them and for a chain cut in two. The two workers of `delivery_safety` compete for the one lease
and otherwise share nothing; a third adds no new kind of interleaving. In the
collector the second page has a predecessor, the second day follows the first,
and two claimed jobs are the least for one to change the row of the other. For
the queue, three attempts allow an old task, a cancelled retry and a new one of
the same job to be in the executor together, next to a task of another job; two
failing writes can hit cancellation and outcome of one job. For the grants, two
threads are the least to submit the same request twice, or two requests against
one unit of the budget.

In tracking, two sessions give an order to take results over in, two downloads a
second one for the same session, two grants a handover; the trouble can
strike between any two writes. In storage each page is a batch of its
own or both are one, and the second kill hits the recovery from the first; a
second worker would share nothing with the first but the main lake. For the
notices, two desktops are the least to send twice, and three conditions with
room for two the least for one to be dropped. In the trading day the windows are as
short as they can be while a reservation can grow too old, a snapshot come after
its frame was judged, and a window close during a tick. For the paper account,
two bars of one day and one of the next are the least for T+1 to hold and to
end; each reason for a rejection occurs (missing rule, expired rule, suspension,
T+1, cash, cash for the fees of a sale), and so do a symbol that joins later and
a sale that pays for a purchase in the same bar.

Fairness. `WorkerStep` and `ImportStep` are weakly fair: the service loop and an
import under way go on by themselves and after a restart. `Put` is strongly
fair: the service repeats the upload for ever and the network is up again and
again. `StartImport` is strongly fair for each worker: the merger polls every
few seconds and is now and then not kept out by somebody else's lease. Nothing
makes a worker publish or export, a person resume, or a crash stay away (their
number is bounded). `Delivered` excepts a worker
that an I/O error has halted, as only a person resumes it. For the collector,
`Autoresume`, `RunStep` and `EndRun` are weakly fair: the service starts run
after run unless there is a stop marker, a run that has work handles a batch
before its budgets end it, and one that has none left ends. For the queue, the worker
thread is weakly fair, as is the rest of a `resume` that has begun; `Take` and
`Finish` are strongly fair, because they need the lock, which resuming clients
may hold again and again but always release. `Execute` under this fairness says
that studies end; those of a grant have a time limit that their checkpoints
enforce. For tracking, `Tick \/ Fail` is weakly fair and `Wake` strongly, because
the daemon looks at its controls once a minute for ever; downloads and
jobs end (`ChildEnds`, `JobRuns`: both have time limits or are handled by the
queue); and `Submit` and the settlement of a cycle are strongly fair: an error may
stop a tick at either now and then, but not each time. Nothing makes people
authorize, cancel or retry.

Runs that end in a violation, each a disagreement between the code and what is
said of it (quoted in `PROJECT.json`, `findings`):

* `collector_stall`: after a kill while the first page of an earlier day is
  being finished, its successor is claimed first (priority 100 before 1000),
  finds no predecessor and is stalled for good.
* `storage_promotion`: after a kill between the publication of a page and the
  rename of its folder, a compaction archives the page from there and deletes the
  folder; the pending promotion finds nothing, and with it every later run fails.

Met while modelling, without a run of their own:

* `agent/tdx_distributed.py:701`: an I/O error in the middle of an import is reported
  as `BundleConflict`, of which the docstring (line 54) says that canonical
  bytes remain unchanged, after a page was published, and the valid bundle gets the
  permanent marker. `AckedIsCanonical` and `MergedChainsClosed` hold all the same.
* `agent/tdx_distributed.py:516`, `src/docs/guide/tdx-distributed.md:118`: the file of
  an export that was killed before its row was written is imported by an operator
  who copies the directory; the row that gets the same number is refused from then on.
* `agent/tdx_distributed.py:508`: an error between the publication of an opening match
  and of its trade page leaves a state in which every export of the match fails.
* An error while a committed page is promoted marks its job ERROR, and the next
  reconciliation makes the page visible all the same.
* `workbench/jobs.py:386`: `resume` does not look at `max_active_jobs`; cancelling,
  submitting another job and resuming exceeds the approved limit.
* `agent/research_session_grant.py:139`: a job whose submission is past its last look
  at the grant has no journal file yet, so the grant can be replaced in between;
  the job is queued, and `grant` shows that it is not computed.
* `agent/series_auto_update.py:118`: after a kill between the acceptance of a tick's own
  publication and the save of the record, the next tick takes it for a foreign one
  once the session has changed, and asks for a new authorization.
* `trading/daily_orchestrator.py:380`: after a kill between the freezing of a prediction
  and the save of the plan, and the end of the window, the frame is called MISSED
  though its prediction exists; hence the condition `crashes = 0` in `FrozenOnce`.
  Also, a snapshot newer than the beginning of the tick that captured it is
  refused as lookahead, and a PREP reservation older than ten minutes is never frozen.

## 4. Proofs

`TdxDeliveryProofs` proves, for any workers, pages, chains, budgets and numbers
of crashes, faults and exports, with any mixture of remote and local workers
and with or without the courier:

* `TypeCorrect`: `Spec => []TypeOK`
* `AckedSafe`: `Spec => []AckedIsCanonical`
* `OutboxSafe`: `Spec => []OutboxRetained`

They assume `ConstantAssumption` and `NoBundleAssumption` of `TdxDelivery`,
which TLC evaluates in every run. None of the invariants is inductive alone:
that an acknowledged bundle is canonical depends on what a receipt means, a
receipt on what an import has done before it writes one, and both on the file
that a row names being the one the service has in hand. `DeliveryInv` is the
conjunction of

* `TypeOK`;
* `RowsNumbered`: row i of an outbox carries number i and its worker's name, so
  that the number a service acknowledges is that of the bundle in its hand;
* `ServiceSound`: what the bundle in hand means at each step of the service –
  after the receipt was seen it has a receipt, and at `unlinking` its row is
  already marked;
* `ImportSound`: every page of the bundle under import is either still to be
  done or visible, so that an import with nothing left has made all visible;
* `ReceiptsVisible`: every page of a bundle with a receipt is visible;
* `AckedHasReceipt`: a marked row has a receipt;
* `OutboxRetained` itself.

Each conjunct has a lemma per group of actions; visibility of a page is never
undone (`canon` only advances), which carries `ReceiptsVisible` through every
step. TLC checked `DeliveryInv` before it was proved, also with a courier and
with a local worker alone.

The second part of `TdxDeliveryProofs` goes on from `DeliveryInv` to what the delivery
hands over, that is, to `ResultLedger`:

* `HandOverSafe`: `~CourierReadsDirectory => (Spec => Ledger!Spec)`
* `ChainsSafe`: `~CourierReadsDirectory => (Spec => []MergedChainsClosed)`
* `PendingSafe`: `~CourierReadsDirectory => (Spec => []PendingNeverRefused)`

`CourierReadsDirectory` says that the user carries files which lie in the outbox
directory. Such a file may have no row yet (the export was killed between the two),
and then the first and the third statement are false: with the constant set to true
on the instance of `delivery_safety`, TLC finds a bundle merged that is not a row, and a
pending row whose number it has taken. The assumption is that only rows are
carried, as with uploads and local workers. Under it, `HandOverInv` adds to `DeliveryInv`: whatever is
on its way is a row (`IncomingAreRows`); what is imported is in the ledger
already or the next to come (`ImportInTurn`); the ledger of a worker is a prefix
of its outbox (`LedgerIsPrefix`); receipts are of merged bundles; and an export
under way repeats no page of a row (`ExportsAreNew`). The prefix is what makes a merge a
step of `ResultLedger`. `ChainInv` follows the order of pages from where they
are published through exports and rows to the ledger: a page is published after the
one it continues, an export takes the first candidates in that order
(`SelectionClosed`), so each row is closed under the rows before it. A row that
still waits then never finds its number taken by another bundle or a
predecessor missing, whatever crashed.

`TdxCollectorProofs` proves, for any days, pages, batch sizes and numbers of kills,
faults and retries, from the assumptions of `TdxCollector`:

* `CollectorTypeCorrect`, `ChainsHaveNoGap`, `FollowersSafe`: `TypeOK`, `NoGapInChain` and
  `FollowersExist` always hold;
* `BytesAreFinal`: `Spec => SavedBytesAreFinal`

A run saves, enqueues and publishes in several transactions, so each of these needs to
know where it stands. `CollectorInv` adds `PagesSound` (how a page's row, its
response, its chunk and its publication belong together, whatever step a kill came
after), `BatchSound` (what was read of the claimed jobs is still so when their turn
comes, since nobody else holds them), `CurSound` (what has been done for
the job in hand at each of its steps: at the commit all that the page calls
for is queued and its opening match published) and `ChainSound`, which is
`NoGapInChain` with the response of the page before. Beside the invariant `Kept` says that rows,
responses and publications are never undone, which carries every fact about another
page through a step.

`DailyOrchestratorProofs` proves, for any windows, limits, market data, kills,
refusals and revisions of the market:

* `DailyTypeCorrect`, `FrozenOnceHolds`, `ReviewsContinueAlways`, `CallsAlwaysCounted`: `TypeOK`,
  `FrozenOnce`, `ReviewsContinue` and `CallsAreCounted` always hold.

The plan is in memory and on disk, and the store of predictions is a third
place. `DailyInv` relates the three: `StoreSound` (one case per frame, completed
in order), `PlanSound` of both plans (what a plan calls frozen exists as it
says; what it calls applied is on the desk), `DiskFollows` (memory is ahead of the
disk only by what the disk leaves open), `PredictionsKnown` (until the first
kill memory calls each prediction frozen), `TickSound` (what has been established
when a tick gets to a step: the content that is being written is that of the plan,
and the frame before a review is frozen and on the desk) and `CaptureCounted` (a
capture is on disk before it is made). A kill replaces memory by the disk, which
is why what the plan says must hold of both. The first snapshot of a window is a `CHOOSE`;
that it exists is the least element of a set of naturals (`LeastTime`).

`TrackingSchedulerProofs` proves, for any numbers of grants, days, jobs, downloads,
retries, errors and kills, from the assumption of `TrackingScheduler`:

* `TrackingTypeCorrect`, `WorkAlwaysReserved`, `TakenOverAlwaysOnce`: `TypeOK`, `WorkIsReserved`
  and `TakenOverOnce` always hold;
* `AlwaysSubmittedUnderGrant`: `Spec => SubmittedUnderGrant`
* `TrackingUsesQueue`: `Spec => Queue!Init /\ [][Queue!Next]_(Queue!vars)`, where `Queue` is
  `JobLifecycle`: with `LifecycleSafety` below, what tracking relies on is what the
  queue is proved to do.

A tick works on its own copy of the record and saves it now and then; a kill
throws the copy away. So `TrackingInv` asks the same of both (`RecordSound`), relative to
the queue and the history: a job has a cycle that is not given up (`Accounted`),
what is called synced is in the history and nothing else is there for its
session (`TakenOver`), a cycle that still waits for its job is later than the
whole history (`Waiting`), one cycle is open at a time and none after a stop
(`OneAtATime`), the grant's number of jobs is kept, and downloads go forward (`InOrder`).
`TickSound` says how far the copy may be ahead of the file, and what each step of the tick
relies on without looking again: a download only while no cycle is open and the
budget has room, a submission only for a cycle that is reserved in the file.
`JobsSound` is the same for the grants before (their cycles are in `archive`),
`ReceiptsSound` ties downloads to the saved record, and `ClockSound` keeps the targets of
downloads behind the clock that the tick has read. `Waiting` and `OneAtATime` are what
`SubmittedUnderGrant` and the order in `TakenOverOnce` need, and neither can be seen from those
two alone: a takeover of the open cycle must not overtake one that still waits.

TLC checked `HandOverInv`, `ChainInv`, `CollectorInv`, `DailyInv` and `TrackingInv` on the
instances of the runs before they were proved.

The first part of `QueueProofs` proves, for any jobs, guards, limits and numbers of attempts,
kills and failing journal writes, from `QueueAssumption`:

* `QueueTypeCorrect`: `Spec => []TypeOK`
* `NoStaleRun`: `Spec => []OnlyCurrentAttemptRuns`
* `JournalSafe`: `Spec => []JournalBacksMemory`
* `OutcomesStay`: `Spec => EndedAttemptStays`

The inductive invariant `QueueInv` adds to these `DownForgets` (memory is empty
when there is no process), `ResumingSound` (what `resume` has checked is still so
when it queues the new attempt, since it keeps the lock) and `PoolSound`: a task
in the executor is of a past attempt, or of the current one, which then is
queued or cancelled, and no task is there twice. The last is why the comparison
of attempts in `_run` is enough: the task that is taken is the only one of its
attempt, so making it run leaves no second one behind. There is a lemma for each
kind of step; `Begin`, `Checkpoint`, `Execute` and `Verify` share one, as they
change nothing but where the worker stands.

The second part of `QueueProofs` proves from `QueueInv` that the queue implements
the life of a job, but for liveness:

* `LifecycleSafety`: `Spec => Lifecycle!Init /\ [][Lifecycle!Next]_(Lifecycle!vars)`

under the refinement mapping of `JobQueue` (`Reported`, `Attempt`). Two facts are added
to the invariant: a job that clients were told is completed is completed in the
journal (else a restart could take it back), and the worker knows the outcome it
is about to record. Each action of the queue that touches one job is a step of
that job's life or none; `Open` and the end of the process are `Restart`.

`TdxStorageProofs` proves, for any workers, pages and number of kills, from
`StorageAssumption`:

* `StorageTypeCorrect`, `BytesSafe`, `RowsSafe`, `LeftoversSafe`: `TypeOK`,
  `BytesSurvive`, `RowsStayVisible` and `LeftoversAreSafe` always hold.

`StorageInv` adds `PlacesSound` (only published pages are promoted, archived or have
rows; a folder that is not renamed yet is not in its final place) and
`BatchSound` (where a compaction stands says what is safe of its batch: archived
from "drop" on, with rows from "delete" on; the batch of a retirement is
acknowledged and archived in the main lake). The last is what a deletion relies
on, as it looks at nothing any more.

`NotificationProofs` proves, for any desktops, conditions, limits, kills and
clock corrections, from `NotificationAssumption`:

* `NoticesTypeCorrect`, `SentOnce`: `TypeOK` and `SentAsRecorded` always hold.

`DeliveryInv` of that module adds that what a desktop holds is reserved and tried
exactly when it has been sent (`ClaimsSound`), and that no event is with two
desktops (`ClaimsDisjoint`), which rests on the check and the reservation being one
transaction.

The second part of `NotificationProofs` proves from that type invariant, for any
conditions and limits and any number of clock corrections and authorizations:

* `RemindersSpaced`: `Spec => []RemindersAreSpaced`

An event is not enough to say when its condition was last reminded of, because
the notice may be gone. `ReminderInv` therefore says of every reminder of the
current record: either the record still remembers it or a later one
(`Remembered`: the notice is there, and its reminder is this one or a cooldown
later), or `MaxNotices` other conditions have been met since (`Crowded`). A notice is
dropped only when it was met least recently of `MaxNotices`, so that those that
stay and the one that takes its place are the conditions that crowd it out;
later meetings only add to them. `StampsSound` bounds what clock corrections do: no
stamp lies further ahead of the clock than it has been set back in all. TLC
checked `ReminderInv` on the instance of `notices` before it was proved.

The third part of `QueueProofs` proves, for any jobs, clients, grants, budgets, kills
and failing journal writes, from `GrantAssumption` and `QueueAssumption`:

* `GrantTypeCorrect`, `GrantsPay`, `ReplacedNeverRuns`: `GrantTypeOK`, `JobsArePaid` and
  `OnlyCurrentGrantRuns` always hold;
* `NothingAfterTheEnd`: `GrantSpec => RevokedYieldsNothing`
* `GrantsUseQueue`: `GrantSpec => Spec`, the specification of the queue alone

The composition is proved from the theorems about the queue, not again from its
actions: every step of hosts, clients, users and worker is a step of `JobQueue` or
leaves the queue alone (`StepOfQueue`), so that `LifecycleInv` of the queue is
kept. To it belongs `JournalStep`: a journal file stays, and only
`submit` makes one. `GrantInv` then adds `ClientsSound` (a client whose job is in the
queue finds it in the journal, before it marks the item) and that finitely many
jobs are reserved. That no study of a replaced grant runs rests on a chain
through three places: the worker runs only what memory calls running, memory and
journal agree on what has not ended, and `authorize` reads the journal.

`PaperAccountProofs` proves, for any symbols, bars, prices, weights, fees, rules and
targets, from `ExecutionAssumption` and `AccountAssumption`:

* `AccountTypeCorrect`: `Spec => []TypeOK`
* `DeliveriesInTimeAccepted`: `Spec => []OnTimeIsAccepted`
* `FillsIgnoreClose`: `Spec => []CloseDecidesNothing`
* `AccountBalances`: `Spec => []BooksBalance`
* `AccountIsReplay`: `Spec => []PaperInv`

`PaperInv` is short: the books are those of a replay of all that was merged
(`AccountIsReplay`), the bars that there are have no gap, targets are of different
times, and no delivery in time was refused. The rest is about the replay, hence
about three recursive functions: `Sums`, the orders of a bar, and the bars of a
run. Each is unfolded by an induction over a set of numbers, the ones for which
something has been shown (`Induct`, from the well-foundedness of <); that the
recursive definition has a value is the first thing shown (`SumsDef`,
`AfterOrdersDef`, `BookAfterDef`). The argument has three parts.

* A replay goes from one `Sound` book to the next (`FillSound`, `ExecuteSound`,
  `OrdersSound`, `CloseSound`, `BarSound`, `RunSound`). In a sound book the cash is what
  the fills have left of the initial cash, and so is the cash of each bar already
  valued; the lots up to a day hold what was bought up to it less all that was
  sold (`Balanced`), from the day before the bar on: the oldest lots are sold
  first, so the earlier sums do not say what was bought any more; and no day
  has sold more than was bought before it, which needs the lots, as a sale looks
  at nothing else.
* A replay only appends to its books (`Grows`), two replays agree as long as
  bars, known targets and rules in force agree (`RunsAgree`), and nothing
  happens after the last bar (`RunEnds`). What is delivered in time agrees with
  what there was up to the last bar: a new bar is later (`MergedBarsTyped`), a
  target comes after the close of the last bar and counts from a later
  opening on (`MergedTargetsTyped`), a rule was not public or in effect when the
  last bar opened (`TimelyRules`). So the new books continue the old ones
  (`OnTimeContinues`).
* The orders of a bar depend on its opening prices and on which symbols are
  traded only (`TradedAtOpen`); with `RunsAgree` for the bars before, another close of
  the last bar changes no fill and no rejection.

TLC checked `PaperInv` on the instance of `paper` before it was proved.

Only model-checked is liveness, that of `ImplementsLedger` and
`ImplementsLifecycle` included: the prover does not do fairness or ENABLED.

## 5. Not modelled

Within the modelled components: creation and installation of bootstrap bundles,
the back-pressure budget, authentication of uploads, policy optimisation,
collection scope and Parquet views; export histories and checkpoints of the
storage; in the workbench the HTTP layer, the validation of specs and grants, and
what a study computes; the calendar of tracking and the wording of reminders; the
scan for candidates and the trading desk behind the bridge; corporate actions,
taxes and the limits of the execution engine, and the account with a fixed universe.

The other components are listed in `PROJECT.json` with the reason. The repository
has about 137,000 lines of implementation, most of it numerical computation over
data frames, readers of file formats and user interfaces, where nothing runs
concurrently and what matters is what a formula computes. A state machine says
nothing about it, so the models cover a small share of the lines: those that
keep state across processes, kills and late data.

## 6. Plan

1. Corporate actions and lots of the execution engine, as operators that `RunBar`
   calls; the archive of experiments with its approvals; the task store of the
   development studio.
2. Export histories and checkpoints of `TdxStorage`.
