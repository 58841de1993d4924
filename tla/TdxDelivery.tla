---------------------------- MODULE TdxDelivery -----------------------------
(***************************************************************************)
(* Delivery of collected market-data pages from worker machines to the one *)
(* canonical lake (agent/tdx_distributed.py, tdx_transfer.py and           *)
(* tdx_worker_service.py).                                                 *)
(*                                                                         *)
(* A worker publishes pages in its own lake, exports them in numbered      *)
(* bundles (a tar file, then a row of its outbox table) and offers the     *)
(* first unacknowledged bundle until the canonical side answers with a     *)
(* receipt.  A remote worker uploads over HTTP and a merger thread imports *)
(* what arrived; a local worker imports into the canonical root itself; an *)
(* operator may import a bundle carried by hand.  An import publishes the  *)
(* pages one by one, then writes the ledger row, then the receipt.  Every  *)
(* process can crash between two of these steps.                           *)
(***************************************************************************)
EXTENDS Naturals, Sequences, FiniteSets

CONSTANTS
    Workers,       \* worker machines
    LocalWorkers,  \* those that import into the canonical root themselves
    Pages,         \* pages (exact provider responses) that can be collected
    Owner,         \* Owner[p]: the worker whose shard has p's security
    Prev,          \* Prev[p]: the page that precedes p in its chain, or NoPage
    NoPage,
    NoBundle,
    MaxPages,      \* page budget of one bundle (max_pages)
    CourierReadsDirectory, \* may the operator carry a tar the outbox lacks?
    MaxExports,    \* bound: export attempts of one worker
    MaxCrashes,    \* bound: process crashes
    MaxFaults      \* bound: I/O errors raised inside an import

(* Shards are disjoint (one owner per page) and a chain stays in its shard. *)
ASSUME ConstantAssumption ==
    /\ LocalWorkers \subseteq Workers
    /\ NoPage \notin Pages
    /\ Owner \in [Pages -> Workers]
    /\ Prev \in [Pages -> Pages \cup {NoPage}]
    /\ \A p \in Pages : Prev[p] # NoPage => Owner[Prev[p]] = Owner[p]
    /\ CourierReadsDirectory \in BOOLEAN
    /\ MaxPages \in Nat \ {0}
    /\ MaxExports \in Nat
    /\ MaxCrashes \in Nat
    /\ MaxFaults \in Nat

(* seq is sequence_no; attempt stands for the digest bundle_id, different  *)
(* for every export because the body holds its creation time.              *)
Bundle == [worker : Workers, seq : Nat \ {0}, attempt : Nat, pages : SUBSET Pages]

ASSUME NoBundleAssumption == NoBundle \notin Bundle

VARIABLES
    published,  \* published[w]: w's publications table, in rowid order
    outbox,     \* outbox[w]: rows of distributed_result_bundles, by sequence_no
    acked,      \* acked[w]: sequence numbers of the rows with acked = 1
    tars,       \* bundle files in the workers' _outbox directories
    attempts,   \* attempts[w]: exports started (source of fresh bundle_ids)
    service,    \* service[w]: where the worker service stands, and its bundle
    halted,     \* workers with an AUTO_HALT.json
    incoming,   \* uploaded bundle files waiting at the coordinator
    failed,     \* uploads with a .failed.json marker
    receipts,   \* bundles with a file in distributed-receipts
    ledger,     \* ledger[w]: rows of distributed_imports for w's assignment
    canon,      \* canon[p]: how far p is published in the canonical lake
    import,     \* the one import that holds the canonical writer lease
    crashes,
    faults

canonVars  == <<failed, receipts, ledger, canon, import>>
workerVars == <<published, outbox, acked, tars, attempts, service, halted>>
vars == <<published, outbox, acked, tars, attempts, service, halted, incoming,
          failed, receipts, ledger, canon, import, crashes, faults>>

(* staged: files in _stored; listed: job row; held: publication row and    *)
(* pending promotion; visible: directory renamed to its final place.       *)
Progress == {"absent", "staged", "listed", "held", "visible"}
Steps == {"idle", "exporting", "sending", "confirming", "importing",
          "acking", "unlinking"}
Importers == {"nobody", "merger", "operator", "local"}

NoImport == [by |-> "nobody", bundle |-> NoBundle, todo |-> {}, page |-> NoPage]
Idle == [step |-> "idle", bundle |-> NoBundle]

PagesIn(bundles) == UNION {bundles[i].pages : i \in DOMAIN bundles}

Init ==
    /\ published = [w \in Workers |-> <<>>]
    /\ outbox = [w \in Workers |-> <<>>]
    /\ acked = [w \in Workers |-> {}]
    /\ tars = {}
    /\ attempts = [w \in Workers |-> 0]
    /\ service = [w \in Workers |-> Idle]
    /\ halted = {}
    /\ incoming = {}
    /\ failed = {}
    /\ receipts = {}
    /\ ledger = [w \in Workers |-> <<>>]
    /\ canon = [p \in Pages |-> "absent"]
    /\ import = NoImport
    /\ crashes = 0
    /\ faults = 0

-----------------------------------------------------------------------------
(* The worker: collection and export *)

Running(w) == service[w] = Idle /\ w \notin halted

IsPublished(w, p) == \E i \in 1..Len(published[w]) : published[w][i] = p

(* One page of a collection cycle is published; the collector saves a page *)
(* only after the page it continues (TdxCollector).                        *)
Publish(w, p) ==
    /\ Running(w)
    /\ Owner[p] = w
    /\ ~IsPublished(w, p)
    /\ Prev[p] # NoPage => IsPublished(w, Prev[p])
    /\ published' = [published EXCEPT ![w] = Append(@, p)]
    /\ UNCHANGED <<outbox, acked, tars, attempts, service, halted, incoming,
                   canonVars, crashes, faults>>

(* Pages not yet in distributed_exports come in rowid order, so that they  *)
(* are the tail of the publications.                                       *)
Candidates(w) == {i \in 1..Len(published[w]) :
                    published[w][i] \notin PagesIn(outbox[w])}

(* The first n candidates; the byte budget may cut the list short, but     *)
(* never to nothing.  Without candidates an empty bundle carries status.   *)
Selection(w, n) == {published[w][i] : i \in
    {j \in Candidates(w) : Cardinality({k \in Candidates(w) : k <= j}) <= n}}

SelectionSizes(w) ==
    IF Candidates(w) = {} THEN {0}
    ELSE {n \in 1..MaxPages : n <= Cardinality(Candidates(w))}

(* export_results up to the tar file on disk; sequence_no is max + 1. *)
ExportWrite(w) ==
    /\ Running(w)
    /\ attempts[w] < MaxExports
    /\ \E n \in SelectionSizes(w) :
         LET b == [worker |-> w, seq |-> Len(outbox[w]) + 1,
                   attempt |-> attempts[w] + 1, pages |-> Selection(w, n)]
         IN  /\ tars' = tars \cup {b}
             /\ service' = [service EXCEPT ![w] = [step |-> "exporting", bundle |-> b]]
    /\ attempts' = [attempts EXCEPT ![w] = @ + 1]
    /\ UNCHANGED <<published, outbox, acked, halted, incoming, canonVars,
                   crashes, faults>>

(* The transaction that records the exported pages and the outbox row. *)
ExportCommit(w) ==
    /\ service[w].step = "exporting"
    /\ outbox' = [outbox EXCEPT ![w] = Append(@, service[w].bundle)]
    /\ service' = [service EXCEPT ![w] = Idle]
    /\ UNCHANGED <<published, acked, tars, attempts, halted, incoming,
                   canonVars, crashes, faults>>

-----------------------------------------------------------------------------
(* The worker: delivery of the first pending row *)

Pending(w) == {i \in 1..Len(outbox[w]) : i \notin acked[w]}

(* deliver_pending goes through the rows in sequence order and acknowledges *)
(* each before it looks at the next.                                        *)
IsFirstPending(w, i) == i \in Pending(w) /\ \A j \in Pending(w) : i <= j

Goto(w, step, b) == service' = [service EXCEPT ![w] = [step |-> step, bundle |-> b]]

(* GET /receipt: found, the ack can be recorded; not found, the tar is     *)
(* checked and uploaded, and a missing one stops the service.              *)
Poll(w) ==
    /\ Running(w)
    /\ w \notin LocalWorkers
    /\ \E i \in Pending(w) :
         /\ IsFirstPending(w, i)
         /\ LET b == outbox[w][i] IN
              \/ /\ b \in receipts
                 /\ Goto(w, "acking", b)
                 /\ UNCHANGED halted
              \/ /\ b \notin receipts
                 /\ IF b \in tars
                      THEN Goto(w, "sending", b) /\ UNCHANGED halted
                      ELSE halted' = halted \cup {w} /\ UNCHANGED service
    /\ UNCHANGED <<published, outbox, acked, tars, attempts, incoming,
                   canonVars, crashes, faults>>

(* PUT: the coordinator renames the complete file and writes its meta data. *)
Put(w) ==
    /\ service[w].step = "sending"
    /\ incoming' = incoming \cup {service[w].bundle}
    /\ Goto(w, "confirming", service[w].bundle)
    /\ UNCHANGED <<published, outbox, acked, tars, attempts, halted,
                   canonVars, crashes, faults>>

(* The connection breaks: the upload was cut off, or it was stored and only *)
(* the answer is lost.  The service waits and starts again from the outbox. *)
PutLost(w) ==
    /\ service[w].step = "sending"
    /\ \/ incoming' = incoming
       \/ incoming' = incoming \cup {service[w].bundle}
    /\ service' = [service EXCEPT ![w] = Idle]
    /\ UNCHANGED <<published, outbox, acked, tars, attempts, halted,
                   canonVars, crashes, faults>>

(* Mutant of Confirm: a stored upload counts as merged. *)
ConfirmOnUpload(w) ==
    /\ service[w].step = "confirming"
    /\ Goto(w, "acking", service[w].bundle)
    /\ UNCHANGED <<published, outbox, acked, tars, attempts, halted, incoming,
                   canonVars, crashes, faults>>

(* Mutant of Confirm: the file is removed before the row is marked. *)
ConfirmThenUnlink(w) ==
    /\ service[w].step = "confirming"
    /\ Goto(w, "unlinking", service[w].bundle)
    /\ UNCHANGED <<published, outbox, acked, tars, attempts, halted, incoming,
                   canonVars, crashes, faults>>

(* GET /receipt once more: usually the merger has not come to it yet. *)
Confirm(w) ==
    /\ service[w].step = "confirming"
    /\ IF service[w].bundle \in receipts
         THEN Goto(w, "acking", service[w].bundle)
         ELSE service' = [service EXCEPT ![w] = Idle]
    /\ UNCHANGED <<published, outbox, acked, tars, attempts, halted, incoming,
                   canonVars, crashes, faults>>

(* acknowledge: the row is marked in the database ... *)
Acknowledge(w) ==
    /\ service[w].step = "acking"
    /\ acked' = [acked EXCEPT ![w] = @ \cup {service[w].bundle.seq}]
    /\ Goto(w, "unlinking", service[w].bundle)
    /\ UNCHANGED <<published, outbox, tars, attempts, halted, incoming,
                   canonVars, crashes, faults>>

(* Mutant of Unlink: the service forgets to let go of the bundle. *)
UnlinkKeepsBundle(w) ==
    /\ service[w].step = "unlinking"
    /\ tars' = tars \ {service[w].bundle}
    /\ Goto(w, "idle", service[w].bundle)
    /\ UNCHANGED <<published, outbox, acked, attempts, halted, incoming,
                   canonVars, crashes, faults>>

(* ... and only then the transfer copy is removed. *)
Unlink(w) ==
    /\ service[w].step = "unlinking"
    /\ tars' = tars \ {service[w].bundle}
    /\ service' = [service EXCEPT ![w] = Idle]
    /\ UNCHANGED <<published, outbox, acked, attempts, halted, incoming,
                   canonVars, crashes, faults>>

(* A person removes AUTO_HALT.json. *)
Resume(w) ==
    /\ w \in halted
    /\ halted' = halted \ {w}
    /\ UNCHANGED <<published, outbox, acked, tars, attempts, service, incoming,
                   canonVars, crashes, faults>>

-----------------------------------------------------------------------------
(* The canonical side: one import at a time, under the writer lease *)

(* Every import starts by finishing interrupted promotions. *)
Reconciled == [p \in Pages |-> IF canon[p] = "held" THEN "visible" ELSE canon[p]]

(* Mutant of IsMerged: an import does not look itself up in the ledger. *)
IsMergedUnknown(b) == b.seq = 0

IsMerged(b) == \E i \in 1..Len(ledger[b.worker]) : ledger[b.worker][i] = b
Last(w) == Len(ledger[w])

(* Each continuation page needs its predecessor in the bundle or as a saved *)
(* canonical job.  The row alone will do: page_source also finds the bytes  *)
(* of a page that an interrupted import staged but never published.         *)
ChainsHold(b) ==
    \A p \in b.pages : Prev[p] # NoPage =>
        Prev[p] \in b.pages \/ canon[Prev[p]] \in {"listed", "held", "visible"}

(* Mutant of MustWait: a bundle may overtake an earlier one. *)
MustWaitNever(b) == b.seq = 0

MustWait(b) == ~IsMerged(b) /\ b.seq > Last(b.worker) + 1
MustRefuse(b) == \/ ~IsMerged(b) /\ b.seq <= Last(b.worker)
                 \/ ~MustWait(b) /\ ~ChainsHold(b)

(* The ways into import_results: an upload without marker or receipt, the   *)
(* first pending row of a local worker, and a bundle carried by hand.       *)
MergerOffers == {b \in incoming : b \notin failed /\ b \notin receipts}
LocalOffers == {b \in UNION {{outbox[w][i] : i \in {j \in Pending(w) : IsFirstPending(w, j)}} :
                               w \in LocalWorkers} : Running(b.worker) /\ b \in tars}
OperatorOffers ==
    IF CourierReadsDirectory THEN tars
    ELSE {b \in tars : \E i \in 1..Len(outbox[b.worker]) : outbox[b.worker][i] = b}

Offered(by) == CASE by = "merger"   -> MergerOffers
                 [] by = "local"    -> LocalOffers
                 [] by = "operator" -> OperatorOffers

(* All checks passed: the bundle's unpublished pages are still to be done. *)
ImportBegin(by, b) ==
    /\ import = NoImport
    /\ b \in Offered(by)
    /\ ~MustWait(b)
    /\ ~MustRefuse(b)
    /\ canon' = Reconciled
    /\ import' = [by |-> by, bundle |-> b, page |-> NoPage,
                  todo |-> {p \in b.pages : canon[p] \notin {"held", "visible"}}]
    /\ IF by = "local" THEN Goto(b.worker, "importing", b) ELSE UNCHANGED service
    /\ UNCHANGED <<published, outbox, acked, tars, attempts, halted, incoming,
                   failed, receipts, ledger, crashes, faults>>

(* An earlier bundle of the same worker is missing: nobody is at fault. *)
ImportDefer(by, b) ==
    /\ import = NoImport
    /\ b \in Offered(by)
    /\ MustWait(b)
    /\ canon' = Reconciled
    /\ UNCHANGED <<workerVars, incoming, failed, receipts, ledger, import,
                   crashes, faults>>

(* BundleConflict: the merger marks the upload for good, a local worker    *)
(* halts, an operator sees the message.                                    *)
Refuse(by, b) ==
    /\ failed' = IF by = "merger" THEN failed \cup {b} ELSE failed
    /\ halted' = IF by = "local" THEN halted \cup {b.worker} ELSE halted

ImportRefuse(by, b) ==
    /\ import = NoImport
    /\ b \in Offered(by)
    /\ MustRefuse(b)
    /\ canon' = Reconciled
    /\ Refuse(by, b)
    /\ UNCHANGED <<published, outbox, acked, tars, attempts, service, incoming,
                   receipts, ledger, import, crashes, faults>>

(* The next page in source_id order, which is the order of a digest. *)
ImportTake(p) ==
    /\ import.by # "nobody"
    /\ import.page = NoPage
    /\ p \in import.todo
    /\ import' = [import EXCEPT !.page = p]
    /\ UNCHANGED <<workerVars, incoming, failed, receipts, ledger, canon,
                   crashes, faults>>

(* Files, job row, publication row, rename: each durable before the next,  *)
(* and each skipped when an interrupted import had done it.                *)
Advance(from, to) ==
    /\ import.page # NoPage
    /\ canon[import.page] = from
    /\ canon' = [canon EXCEPT ![import.page] = to]
    /\ UNCHANGED <<workerVars, incoming, failed, receipts, ledger, import,
                   crashes, faults>>

ImportStage   == Advance("absent", "staged")
ImportList    == Advance("staged", "listed")
ImportPublish == Advance("listed", "held")
ImportPromote == Advance("held", "visible")

ImportPageDone ==
    /\ import.page # NoPage
    /\ canon[import.page] = "visible"
    /\ import' = [import EXCEPT !.page = NoPage, !.todo = @ \ {import.page}]
    /\ UNCHANGED <<workerVars, incoming, failed, receipts, ledger, canon,
                   crashes, faults>>

(* Mutant of ImportDone: the ledger row does not wait for the pages. *)
ImportDoneEarly == import.by # "nobody" /\ import.page = NoPage

ImportDone == import.by # "nobody" /\ import.page = NoPage /\ import.todo = {}

(* INSERT OR IGNORE INTO distributed_imports. *)
ImportRecord ==
    /\ ImportDone
    /\ ~IsMerged(import.bundle)
    /\ ledger' = [ledger EXCEPT ![import.bundle.worker] = Append(@, import.bundle)]
    /\ UNCHANGED <<workerVars, incoming, failed, receipts, canon, import,
                   crashes, faults>>

(* The receipt is the last write.  The merger then removes its own copy of *)
(* the file; a local worker goes on to acknowledge.                        *)
ImportReceipt ==
    /\ ImportDone
    /\ IsMerged(import.bundle)
    /\ receipts' = receipts \cup {import.bundle}
    /\ import' = NoImport
    /\ IF import.by = "local"
         THEN Goto(import.bundle.worker, "acking", import.bundle)
         ELSE UNCHANGED service
    /\ UNCHANGED <<published, outbox, acked, tars, attempts, halted, incoming,
                   failed, ledger, canon, crashes, faults>>

(* An upload that already has its receipt is only removed. *)
MergerTidy(b) ==
    /\ b \in incoming
    /\ b \notin failed
    /\ b \in receipts
    /\ incoming' = incoming \ {b}
    /\ UNCHANGED <<workerVars, canonVars, crashes, faults>>

(* Disk full, file locked: the handler turns an OSError into BundleConflict *)
(* wherever in the import it is raised.                                     *)
ImportFault ==
    /\ import.by # "nobody"
    /\ faults < MaxFaults
    /\ faults' = faults + 1
    /\ Refuse(import.by, import.bundle)
    /\ import' = NoImport
    /\ service' = [w \in Workers |->
                     IF service[w].step = "importing" THEN Idle ELSE service[w]]
    /\ UNCHANGED <<published, outbox, acked, tars, attempts, incoming,
                   receipts, ledger, canon, crashes>>

-----------------------------------------------------------------------------
(* Crashes: files and databases stay, the program counter is lost *)

WorkerCrash(w) ==
    /\ service[w] # Idle
    /\ crashes < MaxCrashes
    /\ crashes' = crashes + 1
    /\ service' = [service EXCEPT ![w] = Idle]
    /\ import' = IF service[w].step = "importing" THEN NoImport ELSE import
    /\ UNCHANGED <<published, outbox, acked, tars, attempts, halted, incoming,
                   failed, receipts, ledger, canon, faults>>

ImporterCrash ==
    /\ import.by \in {"merger", "operator"}
    /\ crashes < MaxCrashes
    /\ crashes' = crashes + 1
    /\ import' = NoImport
    /\ UNCHANGED <<workerVars, incoming, failed, receipts, ledger, canon, faults>>

-----------------------------------------------------------------------------
WorkerNext(w) ==
    \/ \E p \in Pages : Publish(w, p)
    \/ ExportWrite(w) \/ ExportCommit(w)
    \/ Poll(w) \/ Put(w) \/ PutLost(w) \/ Confirm(w)
    \/ Acknowledge(w) \/ Unlink(w) \/ Resume(w) \/ WorkerCrash(w)

ImportNext ==
    \/ \E by \in {"merger", "local", "operator"} : \E b \in Offered(by) :
         ImportBegin(by, b) \/ ImportDefer(by, b) \/ ImportRefuse(by, b)
    \/ \E p \in Pages : ImportTake(p)
    \/ ImportStage \/ ImportList \/ ImportPublish \/ ImportPromote
    \/ ImportPageDone \/ ImportRecord \/ ImportReceipt
    \/ \E b \in incoming : MergerTidy(b)
    \/ ImportFault \/ ImporterCrash

Next == (\E w \in Workers : WorkerNext(w)) \/ ImportNext

Spec == Init /\ [][Next]_vars

(* The service loop keeps going, an import under way is carried on, and   *)
(* the merger polls for ever.  Upload and lease are tried again and again  *)
(* and need strong fairness: a network that is up again and again, and an  *)
(* operator who does not hold the lease whenever the merger looks.         *)
WorkerStep(w) == \/ ExportCommit(w) \/ Poll(w) \/ Put(w) \/ Confirm(w)
                 \/ Acknowledge(w) \/ Unlink(w)

ImportStep == \/ \E p \in Pages : ImportTake(p)
              \/ ImportStage \/ ImportList \/ ImportPublish \/ ImportPromote
              \/ ImportPageDone \/ ImportRecord \/ ImportReceipt

StartImport(by, w) == \E b \in Offered(by) : b.worker = w /\ ImportBegin(by, b)

Fairness ==
    /\ WF_vars(ImportStep)
    /\ \A w \in Workers :
         /\ WF_vars(WorkerStep(w))
         /\ SF_vars(Put(w))
         /\ SF_vars(StartImport("merger", w))
         /\ SF_vars(StartImport("local", w))

FairSpec == Spec /\ Fairness

-----------------------------------------------------------------------------
(* Properties *)

(* Every variable has its type; a service or an import that is under way    *)
(* names a bundle.                                                          *)
TypeOK ==
    /\ published \in [Workers -> Seq(Pages)]
    /\ outbox \in [Workers -> Seq(Bundle)]
    /\ acked \in [Workers -> SUBSET Nat]
    /\ tars \in SUBSET Bundle
    /\ attempts \in [Workers -> Nat]
    /\ service \in [Workers -> {Idle} \cup [step : Steps \ {"idle"}, bundle : Bundle]]
    /\ halted \in SUBSET Workers
    /\ incoming \in SUBSET Bundle
    /\ failed \in SUBSET Bundle
    /\ receipts \in SUBSET Bundle
    /\ ledger \in [Workers -> Seq(Bundle)]
    /\ canon \in [Pages -> Progress]
    /\ import \in {NoImport} \cup [by : Importers \ {"nobody"}, bundle : Bundle,
                                   todo : SUBSET Pages, page : Pages \cup {NoPage}]
    /\ crashes \in Nat
    /\ faults \in Nat

(* A worker that has recorded the acknowledgement of a bundle, after which  *)
(* it deletes the transfer copy, can rely on every page of that bundle      *)
(* being visible in the canonical lake, whoever crashed in between          *)
(* (acknowledge and the order of the writes of import_results).             *)
AckedIsCanonical ==
    \A w \in Workers : \A i \in acked[w] :
        /\ i \in 1..Len(outbox[w])
        /\ \A p \in outbox[w][i].pages : canon[p] = "visible"

(* The file of an unacknowledged outbox row is still on the worker's disk,  *)
(* so that delivery can always be tried again (acknowledge marks the row    *)
(* before it unlinks, export writes the file before the row).               *)
OutboxRetained ==
    \A w \in Workers : \A i \in Pending(w) : outbox[w][i] \in tars

(* A bundle in the ledger leaves no hole: each of its continuation pages    *)
(* has its predecessor visible in the canonical lake, although the pages    *)
(* of one bundle are published in no particular order.                      *)
MergedChainsClosed ==
    \A w \in Workers : \A i \in 1..Len(ledger[w]) :
        \A p \in ledger[w][i].pages :
            Prev[p] # NoPage => canon[Prev[p]] = "visible"

(* A row that still waits for delivery is never one that the canonical side *)
(* would refuse, so that no crash or lost answer can end in the marker that *)
(* stops a worker's delivery for good.                                      *)
PendingNeverRefused ==
    \A w \in Workers : \A i \in Pending(w) : ~MustRefuse(outbox[w][i])

(* The delivery implements the ordered hand-over of ResultLedger, with its  *)
(* liveness.                                                                *)
Ledger == INSTANCE ResultLedger WITH
            rows <- outbox,
            confirmed <- [w \in Workers |-> Cardinality(acked[w])]

ImplementsLedger == Ledger!FairSpec
=============================================================================
