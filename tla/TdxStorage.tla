----------------------------- MODULE TdxStorage -----------------------------
(***************************************************************************)
(* Where the bytes of a page are (agent/tdx_storage.py, data/tdx_lake.py). *)
(*                                                                         *)
(* A lake keeps each published page as a folder of three files, until a    *)
(* stopped lake is compacted: the bytes go to the archive, the rows to the *)
(* catalog, and the folder away.  Once the main lake has archived what the *)
(* workers delivered, their copies are removed as well.  Every write is a  *)
(* step and the process may be killed after any; then it is run again.     *)
(***************************************************************************)
EXTENDS Naturals, FiniteSets

CONSTANTS
    Main,        \* the lake of the coordinator
    Workers,
    Pages,
    Owner,       \* Owner[p]: the worker that downloads the page
    MaxCrashes   \* bound: kills

ASSUME StorageAssumption ==
    /\ Main \notin Workers
    /\ Owner \in [Pages -> Workers]
    /\ MaxCrashes \in Nat

VARIABLES
    folder,     \* folder[l][p]: the place of the page's folder and the files left in it
    published,  \* published[l][p]: the place that the publication row names
    promoting,  \* promoting[l]: pending_promotions
    archive,    \* archive[l]: page_archive, the exact bytes
    rows,       \* rows[l]: pages with query rows in the compacted tables
    stopped,    \* stopped: the lakes with a STOP file
    op,         \* op[l]: who holds the writer lease of the lake, and how far it is
    exported,   \* pages in result bundles, and those acknowledged
    acked,
    crashes

disk == <<folder, published, promoting, archive, rows>>
vars == <<disk, stopped, op, exported, acked, crashes>>

Lakes == Workers \cup {Main}
All == 3                                    \* Cardinality(PAGE_FILES)
NoFolder == [at |-> "none", left |-> 0]
At(place) == [at |-> place, left |-> All]
Free == [by |-> "nobody", step |-> "none", batch |-> {}]

Init ==
    /\ folder = [l \in Lakes |-> [p \in Pages |-> NoFolder]]
    /\ published = [l \in Lakes |-> [p \in Pages |-> "none"]]
    /\ promoting = [l \in Lakes |-> {}]
    /\ archive = [l \in Lakes |-> {}]
    /\ rows = [l \in Lakes |-> {}]
    /\ stopped = {}
    /\ op = [l \in Lakes |-> Free]
    /\ exported = {} /\ acked = {}
    /\ crashes = 0

Published(l) == {p \in Pages : published[l][p] # "none"}
Whole(l, p) == folder[l][p].at # "none" /\ folder[l][p].left = All
Available(l, p) == Whole(l, p) \/ p \in archive[l]      \* page_source

-----------------------------------------------------------------------------
(* Leases and STOP *)

Holds(l, by) == op[l].by = by
Take(l, by, step) == op' = [op EXCEPT ![l] = [by |-> by, step |-> step, batch |-> {}]]
Release(l) == op' = [op EXCEPT ![l] = Free]
Batch(l, step, S) == op' = [op EXCEPT ![l] = [by |-> @.by, step |-> step, batch |-> S]]

Stop(l) ==
    /\ stopped' = stopped \cup {l}
    /\ UNCHANGED <<disk, op, exported, acked, crashes>>

-----------------------------------------------------------------------------
(* Collecting on a worker, importing on the main lake.  Both first complete *)
(* the promotions that a kill has left pending.                             *)

(* A collector that is started again takes the STOP away. *)
WorkBegin(l) ==
    /\ Holds(l, "nobody")
    /\ Take(l, "work", "none")
    /\ stopped' = IF l = Main THEN stopped ELSE stopped \ {l}
    /\ UNCHANGED <<disk, exported, acked, crashes>>

Working(l) == Holds(l, "work") /\ promoting[l] = {}

(* staging.rename(held): only complete folders become visible. *)
Store(l, p) ==
    /\ Working(l)
    /\ IF l = Main THEN p \in exported ELSE l = Owner[p]
    /\ published[l][p] = "none"
    /\ folder[l][p] = NoFolder
    /\ folder' = [folder EXCEPT ![l][p] = At("stored")]
    /\ UNCHANGED <<published, promoting, archive, rows, op>>

(* Mutant of Commit: the publication names the place where it will be. *)
CommitTarget(l, p) ==
    /\ Working(l)
    /\ published[l][p] = "none"
    /\ folder[l][p] = At("stored")
    /\ published' = [published EXCEPT ![l][p] = "pages"]
    /\ UNCHANGED <<folder, promoting, archive, rows, op>>

(* commit_saved_page, first half *)
Commit(l, p) ==
    /\ Working(l)
    /\ published[l][p] = "none"
    /\ folder[l][p] = At("stored")
    /\ published' = [published EXCEPT ![l][p] = "stored"]
    /\ promoting' = [promoting EXCEPT ![l] = @ \cup {p}]
    /\ UNCHANGED <<folder, archive, rows, op>>

(* _promote_page: rename the folder, then note it. *)
Promote(l, p) ==
    /\ Holds(l, "work")
    /\ p \in promoting[l]
    /\ \/ /\ folder[l][p] = At("stored")
          /\ folder' = [folder EXCEPT ![l][p] = At("pages")]
          /\ UNCHANGED <<published, promoting, op>>
       \/ /\ folder[l][p] = At("pages")
          /\ published' = [published EXCEPT ![l][p] = "pages"]
          /\ promoting' = [promoting EXCEPT ![l] = @ \ {p}]
          /\ UNCHANGED <<folder, op>>
       \/ /\ ~Whole(l, p)
          /\ Release(l)                     \* an error ends the run
          /\ UNCHANGED <<folder, published, promoting>>
    /\ UNCHANGED <<archive, rows>>

Export(l, p) ==
    /\ Working(l)
    /\ l = Owner[p]
    /\ p \in Published(l) \ exported
    /\ Available(l, p)
    /\ exported' = exported \cup {p}
    /\ UNCHANGED <<disk, stopped, op, acked, crashes>>

(* The receipt of the import comes back. *)
Acknowledge(p) ==
    /\ p \in exported
    /\ published[Main][p] = "pages"
    /\ acked' = acked \cup {p}
    /\ UNCHANGED <<disk, stopped, op, exported, crashes>>

WorkEnd(l) ==
    /\ Working(l)
    /\ Release(l)
    /\ UNCHANGED disk

Work(l) ==
    /\ WorkEnd(l) \/ \E p \in Pages : Store(l, p) \/ Commit(l, p) \/ Promote(l, p)
    /\ UNCHANGED <<stopped, exported, acked, crashes>>

-----------------------------------------------------------------------------
(* compact_storage *)

CompactBegin(l) ==
    /\ l \in stopped
    /\ Holds(l, "nobody")
    /\ Take(l, "compact", "load")
    /\ UNCHANGED <<disk, stopped, exported, acked, crashes>>

Compacting(l, step) == Holds(l, "compact") /\ op[l].step = step

(* A page is done when it is archived and its folder is gone, the one that  *)
(* the publication names.                                                   *)
Done(l, p) == p \in archive[l] /\ folder[l][p].at # published[l][p]
Todo(l) == {p \in Published(l) : ~Done(l, p)}

(* A batch of complete folders ... *)
LoadBatch(l) ==
    /\ Compacting(l, "load")
    /\ \E S \in SUBSET {p \in Todo(l) : Whole(l, p)} :
         S # {} /\ Batch(l, "install", S)
    /\ UNCHANGED disk

(* ... or what a kill has left of a folder, if archive and rows are there.  *)
LoadResidual(l) ==
    /\ Compacting(l, "load")
    /\ \E p \in Todo(l) :
         /\ ~Whole(l, p)
         /\ IF p \in archive[l] \cap rows[l] THEN Batch(l, "delete", {p}) ELSE Release(l)
    /\ UNCHANGED disk

InstallArchive(l) ==
    /\ Compacting(l, "install")
    /\ archive' = [archive EXCEPT ![l] = @ \cup op[l].batch]
    /\ Batch(l, "drop", op[l].batch)
    /\ UNCHANGED <<folder, published, promoting, rows>>

(* Two transactions: the rows of an earlier attempt go first. *)
DropRows(l) ==
    /\ Compacting(l, "drop")
    /\ rows' = [rows EXCEPT ![l] = @ \ op[l].batch]
    /\ Batch(l, "insert", op[l].batch)
    /\ UNCHANGED <<folder, published, promoting, archive>>

(* Mutant of InsertRows: once the folders are gone. *)
InsertRowsLate(l) ==
    /\ Compacting(l, "insert")
    /\ Batch(l, "delete", op[l].batch)
    /\ UNCHANGED disk

InsertRows(l) ==
    /\ Compacting(l, "insert")
    /\ rows' = [rows EXCEPT ![l] = @ \cup op[l].batch]
    /\ Batch(l, "delete", op[l].batch)
    /\ UNCHANGED <<folder, published, promoting, archive>>

(* Mutant of Delete: files are counted past the last. *)
DeleteMore(l, next) ==
    /\ op[l].step = "delete"
    /\ \E p \in op[l].batch :
         IF folder[l][p].at # "none"
           THEN folder' = [folder EXCEPT ![l][p].left = @ - 1] /\ UNCHANGED op
           ELSE /\ folder' = [folder EXCEPT ![l][p] = NoFolder]
                /\ Batch(l, IF op[l].batch = {p} THEN next ELSE "delete", op[l].batch \ {p})
    /\ UNCHANGED <<published, promoting, archive, rows>>

(* _delete_exact_page_folder: file by file, then the folder. *)
Delete(l, next) ==
    /\ op[l].step = "delete"
    /\ \E p \in op[l].batch :
         IF folder[l][p].left > 0
           THEN folder' = [folder EXCEPT ![l][p].left = @ - 1] /\ UNCHANGED op
           ELSE /\ folder' = [folder EXCEPT ![l][p] = NoFolder]
                /\ Batch(l, IF op[l].batch = {p} THEN next ELSE "delete", op[l].batch \ {p})
    /\ UNCHANGED <<published, promoting, archive, rows>>

CompactDelete(l) == Holds(l, "compact") /\ Delete(l, "load")

(* No page is left: storage-compaction.json says COMPLETE. *)
CompactEnd(l) ==
    /\ Compacting(l, "load")
    /\ Todo(l) = {}
    /\ Release(l)
    /\ UNCHANGED disk

Compact(l) ==
    /\ \/ LoadBatch(l) \/ LoadResidual(l) \/ InstallArchive(l) \/ DropRows(l)
       \/ InsertRows(l) \/ CompactDelete(l) \/ CompactEnd(l)
    /\ UNCHANGED <<stopped, exported, acked, crashes>>

-----------------------------------------------------------------------------
(* retire_local_worker_pages *)

Folders(l) == {p \in Pages : folder[l][p].at # "none"}

(* Mutant of MayRetire: that the receipts are there is enough. *)
MayRetireAcked(w) == Published(w) \subseteq acked

(* Everything published is merged and archived, nothing else lies about. *)
MayRetire(w) ==
    /\ Published(w) \subseteq exported \cap acked
    /\ Published(w) \subseteq Published(Main) \cap archive[Main]
    /\ \A p \in Folders(w) : published[w][p] = folder[w][p].at

(* With the leases of all the lakes. *)
RetireBegin ==
    /\ stopped = Lakes
    /\ \A l \in Lakes : Holds(l, "nobody")
    /\ \A w \in Workers : MayRetire(w)
    /\ op' = [l \in Lakes |-> [by |-> "retire", step |-> "delete",
                               batch |-> IF l = Main THEN {} ELSE Folders(l)]]
    /\ UNCHANGED disk

RetireDelete == \E w \in Workers : Holds(w, "retire") /\ Delete(w, "delete")

RetireEnd ==
    /\ \A l \in Lakes : Holds(l, "retire") /\ op[l].batch = {}
    /\ op' = [l \in Lakes |-> Free]
    /\ UNCHANGED disk

Retire ==
    /\ RetireBegin \/ RetireDelete \/ RetireEnd
    /\ UNCHANGED <<stopped, exported, acked, crashes>>

-----------------------------------------------------------------------------
(* Whoever works on the lake is killed; the leases go with the process. *)
Crash(l) ==
    /\ crashes < MaxCrashes
    /\ ~Holds(l, "nobody")
    /\ crashes' = crashes + 1
    /\ op' = [k \in Lakes |-> IF k = l \/ (Holds(l, "retire") /\ Holds(k, "retire"))
                              THEN Free ELSE op[k]]
    /\ UNCHANGED <<disk, stopped, exported, acked>>

Next ==
    \/ Retire
    \/ \E l \in Lakes : \/ Stop(l) \/ WorkBegin(l) \/ Work(l) \/ CompactBegin(l)
                        \/ Compact(l) \/ Crash(l)
                        \/ \E p \in Pages : Export(l, p)
    \/ \E p \in Pages : Acknowledge(p)

(* Who has the lease goes on; a person runs what was killed again. *)
Spec == Init /\ [][Next]_vars

-----------------------------------------------------------------------------
TypeOK ==
    /\ folder \in [Lakes -> [Pages -> [at : {"none", "stored", "pages"}, left : 0..All]]]
    /\ published \in [Lakes -> [Pages -> {"none", "stored", "pages"}]]
    /\ {promoting, archive, rows} \subseteq [Lakes -> SUBSET Pages]
    /\ stopped \subseteq Lakes
    /\ op \in [Lakes -> [by : {"nobody", "work", "compact", "retire"},
                         step : {"none", "load", "install", "drop", "insert", "delete"},
                         batch : SUBSET Pages]]
    /\ exported \subseteq Pages /\ acked \subseteq Pages

(* The exact bytes of a published page are never lost: wherever a kill      *)
(* strikes, they are whole in its folder or in an archive.                  *)
BytesSurvive ==
    \A l \in Lakes : \A p \in Published(l) :
        Whole(l, p) \/ p \in archive[l] \/ (l # Main /\ p \in archive[Main])

(* The live part of the view reads data.parquet, the second file to go,     *)
(* unless the compacted table has the page.                                 *)
Visible(l, p) == p \in rows[l] \/ (folder[l][p].at = "pages" /\ folder[l][p].left >= All - 1)

(* Queries find the rows of every published page of the main lake all       *)
(* through a compaction, and no rows of others.                             *)
RowsStayVisible ==
    \A l \in Lakes, p \in Pages :
        /\ Visible(l, p) => p \in Published(l)
        /\ l = Main /\ published[l][p] = "pages" => Visible(l, p)

(* What a kill leaves of a folder can be cleaned up by the next run:        *)
(* its bytes and rows are safe, here or after a retirement in the main lake.*)
LeftoversAreSafe ==
    \A l \in Lakes : \A p \in Folders(l) :
        Whole(l, p) \/ p \in archive[l] \cap rows[l] \/ (l # Main /\ p \in archive[Main] \cap acked)

(* "Reconciliation finishes exact-byte moves": the folder of a pending      *)
(* promotion is there for it.                                               *)
PromotionsFinish == \A l \in Lakes : \A p \in promoting[l] : Whole(l, p)
=============================================================================
