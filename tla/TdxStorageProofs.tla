-------------------------- MODULE TdxStorageProofs --------------------------
(***************************************************************************)
(* Proofs about TdxStorage: for any workers, pages and number of kills, no *)
(* published bytes are lost, the main lake keeps showing what it published *)
(* and what a kill leaves of a folder can be cleaned up.                   *)
(***************************************************************************)
EXTENDS TdxStorage, TLAPS

(* Nothing is promoted or archived, and no rows are inserted, of a page     *)
(* that is not published; a folder that is not renamed yet is pending.      *)
PlacesSound ==
    \A l \in Lakes :
        /\ promoting[l] \cup archive[l] \cup rows[l] \subseteq Published(l)
        /\ \A p \in Pages :
             /\ folder[l][p].at = "none" <=> folder[l][p] = NoFolder
             /\ folder[l][p].at = "pages" => p \in Published(l)
             /\ published[l][p] = "pages" => folder[l][p].at # "stored"

(* Where a compaction stands says what is safe of its batch; the batch of a *)
(* retirement is safe in the main lake, from which nothing is deleted.      *)
BatchSoundAt(l) ==
    \A p \in op[l].batch :
        /\ op[l].by \in {"compact", "retire"}
        /\ op[l].by = "retire" => l # Main /\ op[l].step = "delete" /\ p \in archive[Main] \cap acked
        /\ op[l].by = "compact" =>
             /\ p \in Published(l)
             /\ op[l].step \in {"install", "drop", "insert", "delete"}
             /\ op[l].step \in {"install", "drop", "insert"} => Whole(l, p)
             /\ op[l].step \in {"drop", "insert", "delete"} => p \in archive[l]
             /\ op[l].step = "delete" => p \in rows[l]

BatchSound == \A l \in Lakes : BatchSoundAt(l)

StorageInv ==
    TypeOK /\ PlacesSound /\ BatchSound /\ BytesSurvive /\ LeftoversAreSafe /\ RowsStayVisible

LEMMA LakesFact == Main \in Lakes /\ Workers \subseteq Lakes
  BY DEF Lakes

(* The initial states. *)
LEMMA StorageInit == Init => StorageInv
  <1> SUFFICES ASSUME Init PROVE StorageInv
    OBVIOUS
  <1> USE DEF Init, NoFolder, Free
  <1>1. TypeOK
    BY DEF TypeOK, All
  <1>2. PlacesSound
    BY DEF PlacesSound, Published
  <1>3. BatchSound
    BY DEF BatchSound, BatchSoundAt
  <1>4. BytesSurvive /\ LeftoversAreSafe
    BY DEF BytesSurvive, LeftoversAreSafe, Published, Folders
  <1>5. RowsStayVisible
    BY LakesFact DEF RowsStayVisible, Visible, Published
  <1> QED
    BY <1>1, <1>2, <1>3, <1>4, <1>5 DEF StorageInv

-----------------------------------------------------------------------------
(* Types *)

FolderType == [at : {"none", "stored", "pages"}, left : 0..All]
OpSteps == {"none", "load", "install", "drop", "insert", "delete"}
OpType == [by : {"nobody", "work", "compact", "retire"}, step : OpSteps, batch : SUBSET Pages]

(* What Batch does. *)
LEMMA BatchStep ==
    ASSUME TypeOK, NEW l \in Lakes, NEW step \in OpSteps, NEW S \in SUBSET Pages,
           Batch(l, step, S)
    PROVE  /\ op' \in [Lakes -> OpType]
           /\ op'[l] = [by |-> op[l].by, step |-> step, batch |-> S]
           /\ \A k \in Lakes \ {l} : op'[k] = op[k]
  BY DEF TypeOK, Batch, OpType, OpSteps

(* What a step of a deletion does: it takes a file away, or, when none is   *)
(* left, the folder.                                                        *)
LEMMA DeleteStep ==
    ASSUME TypeOK, NEW l \in Lakes, NEW next \in OpSteps, Delete(l, next)
    PROVE  \E p \in op[l].batch :
             /\ p \in Pages
             /\ folder' \in [Lakes -> [Pages -> FolderType]]
             /\ \A k \in Lakes, q \in Pages :
                  k # l \/ q # p => folder'[k][q] = folder[k][q]
             /\ \/ /\ folder[l][p].left > 0
                   /\ folder'[l][p] = [folder[l][p] EXCEPT !.left = @ - 1]
                   /\ op' = op
                \/ /\ folder'[l][p] = NoFolder
                   /\ Batch(l, IF op[l].batch = {p} THEN next ELSE "delete", op[l].batch \ {p})
  <1>1. PICK p \in op[l].batch :
          IF folder[l][p].left > 0
          THEN folder' = [folder EXCEPT ![l][p].left = @ - 1] /\ UNCHANGED op
          ELSE /\ folder' = [folder EXCEPT ![l][p] = NoFolder]
               /\ Batch(l, IF op[l].batch = {p} THEN next ELSE "delete", op[l].batch \ {p})
    BY DEF Delete
  <1>2. p \in Pages
    BY DEF TypeOK
  <1>3. folder \in [Lakes -> [Pages -> FolderType]]
    BY DEF TypeOK, FolderType
  <1>4. CASE folder[l][p].left > 0
    <2>1. folder' = [folder EXCEPT ![l] = [folder[l] EXCEPT ![p] =
                        [folder[l][p] EXCEPT !.left = @ - 1]]]
      BY <1>1, <1>2, <1>3, <1>4
    <2>2. [folder[l][p] EXCEPT !.left = @ - 1] \in FolderType
      BY <1>2, <1>3, <1>4 DEF FolderType, All
    <2> QED
      BY <1>1, <1>2, <1>3, <1>4, <2>1, <2>2
  <1>5. CASE ~(folder[l][p].left > 0)
    <2>1. NoFolder \in FolderType
      BY DEF NoFolder, FolderType, All
    <2>2. folder' = [folder EXCEPT ![l] = [folder[l] EXCEPT ![p] = NoFolder]]
      BY <1>1, <1>5
    <2>3. /\ folder' \in [Lakes -> [Pages -> FolderType]]
          /\ \A k \in Lakes, q \in Pages :
               k # l \/ q # p => folder'[k][q] = folder[k][q]
          /\ folder'[l][p] = NoFolder
      BY <1>2, <1>3, <2>1, <2>2
    <2> QED
      BY <1>1, <1>2, <1>5, <2>3
  <1> QED
    BY <1>4, <1>5

LEMMA DeletedBatch ==
    ASSUME TypeOK, NEW l \in Lakes, NEW next \in OpSteps, Delete(l, next)
    PROVE  op' \in [Lakes -> OpType]
  <1>1. op \in [Lakes -> OpType]
    BY DEF TypeOK, OpType, OpSteps
  <1>2. ASSUME NEW p \in op[l].batch,
               Batch(l, IF op[l].batch = {p} THEN next ELSE "delete", op[l].batch \ {p})
        PROVE  op' \in [Lakes -> OpType]
    <2>1. (IF op[l].batch = {p} THEN next ELSE "delete") \in OpSteps
      BY DEF OpSteps
    <2>2. op[l].batch \ {p} \in SUBSET Pages
      BY <1>1 DEF OpType
    <2> QED
      BY <1>2, <2>1, <2>2, BatchStep
  <1> QED
    BY <1>1, <1>2, DeleteStep

LEMMA DiskType == ASSUME TypeOK, NEW l \in Lakes, Work(l) \/ Compact(l)
                  PROVE  TypeOK'
  <1> USE DEF TypeOK, All
  <1>1. CASE Work(l)
    <2>1. CASE WorkEnd(l)
      BY <1>1, <2>1 DEF Work, WorkEnd, Release, Free, disk
    <2>2. ASSUME NEW p \in Pages, Store(l, p) PROVE TypeOK'
      BY <1>1, <2>2 DEF Work, Store, At
    <2>3. ASSUME NEW p \in Pages, Commit(l, p) PROVE TypeOK'
      BY <1>1, <2>3 DEF Work, Commit
    <2>4. ASSUME NEW p \in Pages, Promote(l, p) PROVE TypeOK'
      <3>1. CASE folder[l][p] = At("stored") /\ folder' = [folder EXCEPT ![l][p] = At("pages")]
                 /\ UNCHANGED <<published, promoting, op>>
        BY <1>1, <2>4, <3>1 DEF Work, Promote, At
      <3>2. CASE folder[l][p] = At("pages") /\ published' = [published EXCEPT ![l][p] = "pages"]
                 /\ promoting' = [promoting EXCEPT ![l] = @ \ {p}] /\ UNCHANGED <<folder, op>>
        BY <1>1, <2>4, <3>2 DEF Work, Promote
      <3>3. CASE Release(l) /\ UNCHANGED <<folder, published, promoting>>
        BY <1>1, <2>4, <3>3 DEF Work, Promote, Release, Free
      <3> QED
        BY <2>4, <3>1, <3>2, <3>3 DEF Promote
    <2> QED
      BY <1>1, <2>1, <2>2, <2>3, <2>4 DEF Work
  <1>2. CASE Compact(l)
    <2>1. CASE LoadBatch(l)
      BY <1>2, <2>1 DEF Compact, LoadBatch, Batch, Todo, Published, disk
    <2>2. CASE LoadResidual(l)
      <3>1. PICK p \in Pages : Batch(l, "delete", {p}) \/ Release(l)
        BY <2>2 DEF LoadResidual, Todo, Published
      <3>2. op' \in [Lakes -> OpType]
        <4>1. CASE Batch(l, "delete", {p})
          <5>1. "delete" \in OpSteps /\ {p} \in SUBSET Pages
            BY DEF OpSteps
          <5> QED
            BY <4>1, <5>1, BatchStep
        <4>2. CASE Release(l)
          BY <4>2 DEF Release, Free, OpType, OpSteps
        <4> QED
          BY <3>1, <4>1, <4>2
      <3> QED
        BY <1>2, <2>2, <3>2 DEF Compact, LoadResidual, OpType, OpSteps, disk
    <2>3. CASE InstallArchive(l)
      BY <1>2, <2>3 DEF Compact, InstallArchive, Batch
    <2>4. CASE DropRows(l)
      BY <1>2, <2>4 DEF Compact, DropRows, Batch
    <2>5. CASE InsertRows(l)
      BY <1>2, <2>5 DEF Compact, InsertRows, Batch
    <2>6. CASE CompactDelete(l)
      <3>1. Delete(l, "load") /\ "load" \in OpSteps
        BY <2>6 DEF CompactDelete, OpSteps
      <3>2. op' \in [Lakes -> OpType] /\ folder' \in [Lakes -> [Pages -> FolderType]]
        BY <3>1, DeleteStep, DeletedBatch
      <3> QED
        BY <1>2, <2>6, <3>1, <3>2 DEF Compact, Delete, CompactDelete, FolderType, OpType, OpSteps
    <2>7. CASE CompactEnd(l)
      BY <1>2, <2>7 DEF Compact, CompactEnd, Release, Free, disk
    <2> QED
      BY <1>2, <2>1, <2>2, <2>3, <2>4, <2>5, <2>6, <2>7 DEF Compact
  <1> QED
    BY <1>1, <1>2

LEMMA StorageTypes == TypeOK /\ [Next]_vars => TypeOK'
  <1> SUFFICES ASSUME TypeOK, [Next]_vars PROVE TypeOK'
    OBVIOUS
  <1>1. CASE Retire
    <2>1. CASE RetireBegin
      BY <1>1, <2>1 DEF TypeOK, Retire, RetireBegin, Folders, disk, Lakes
    <2>2. CASE RetireDelete
      <3>1. PICK w \in Workers : Holds(w, "retire") /\ Delete(w, "delete")
        BY <2>2 DEF RetireDelete
      <3>2. w \in Lakes /\ "delete" \in OpSteps
        BY LakesFact DEF OpSteps
      <3>3. op' \in [Lakes -> OpType] /\ folder' \in [Lakes -> [Pages -> FolderType]]
        BY <3>1, <3>2, DeleteStep, DeletedBatch
      <3> QED
        BY <1>1, <3>1, <3>3 DEF TypeOK, Retire, Delete, FolderType, OpType, OpSteps
    <2>3. CASE RetireEnd
      BY <1>1, <2>3 DEF TypeOK, Retire, RetireEnd, Free, disk
    <2> QED
      BY <1>1, <2>1, <2>2, <2>3 DEF Retire
  <1>2. ASSUME NEW l \in Lakes, Stop(l) \/ WorkBegin(l) \/ CompactBegin(l) \/ Crash(l)
        PROVE  TypeOK'
    <2>1. CASE Stop(l)
      BY <2>1 DEF TypeOK, Stop, disk
    <2>2. CASE WorkBegin(l)
      BY <2>2 DEF TypeOK, WorkBegin, Take, disk
    <2>3. CASE CompactBegin(l)
      BY <2>3 DEF TypeOK, CompactBegin, Take, disk
    <2>4. CASE Crash(l)
      BY <2>4 DEF TypeOK, Crash, Free, disk
    <2> QED
      BY <1>2, <2>1, <2>2, <2>3, <2>4
  <1>3. ASSUME NEW l \in Lakes, Work(l) \/ Compact(l) PROVE TypeOK'
    BY <1>3, DiskType
  <1>4. ASSUME NEW p \in Pages, Acknowledge(p) \/ \E l \in Lakes : Export(l, p) PROVE TypeOK'
    BY <1>4 DEF TypeOK, Acknowledge, Export, disk
  <1>5. CASE UNCHANGED vars
    BY <1>5 DEF TypeOK, vars, disk
  <1> QED
    BY <1>1, <1>2, <1>3, <1>4, <1>5 DEF Next

-----------------------------------------------------------------------------
(* Steps that leave the disk alone *)

DiskInv == PlacesSound /\ BytesSurvive /\ LeftoversAreSafe /\ RowsStayVisible

LEMMA DiskStays ==
    ASSUME DiskInv, UNCHANGED disk, acked \subseteq acked'
    PROVE  DiskInv'
  BY DEF DiskInv, PlacesSound, BytesSurvive, LeftoversAreSafe, RowsStayVisible, Published,
         Visible, Whole, Folders, disk

(* A lake whose operation does not change keeps what its batch needs, as    *)
(* publications, archives and acknowledgements only grow.                   *)
LEMMA OpStays ==
    ASSUME BatchSound, UNCHANGED disk, acked \subseteq acked',
           NEW l \in Lakes, op'[l] = op[l]
    PROVE  BatchSoundAt(l)'
  BY DEF BatchSound, BatchSoundAt, Published, Whole, disk

LEMMA NoBatch ==
    ASSUME NEW l \in Lakes, op'[l].batch = {}
    PROVE  BatchSoundAt(l)'
  BY DEF BatchSoundAt

LEMMA OpSteps1 ==
    ASSUME TypeOK, BatchSound, UNCHANGED disk, NEW l \in Lakes,
           \/ Stop(l) \/ WorkBegin(l) \/ CompactBegin(l) \/ Crash(l)
           \/ (WorkEnd(l) \/ CompactEnd(l)) /\ UNCHANGED acked
    PROVE  BatchSound'
  <1> USE DEF TypeOK
  <1>1. ASSUME NEW k \in Lakes
        PROVE  acked \subseteq acked' /\ (op'[k] = op[k] \/ op'[k].batch = {})
    <2>1. CASE Stop(l)
      BY <2>1 DEF Stop
    <2>2. CASE WorkBegin(l)
      BY <2>2 DEF WorkBegin, Take
    <2>3. CASE CompactBegin(l)
      BY <2>3 DEF CompactBegin, Take
    <2>4. CASE Crash(l)
      BY <2>4 DEF Crash, Free
    <2>5. CASE WorkEnd(l) /\ UNCHANGED acked
      BY <2>5 DEF WorkEnd, Release, Free
    <2>6. CASE CompactEnd(l) /\ UNCHANGED acked
      BY <2>6 DEF CompactEnd, Release, Free
    <2> QED
      BY <2>1, <2>2, <2>3, <2>4, <2>5, <2>6
  <1> QED
    BY <1>1, OpStays, NoBatch DEF BatchSound

LEMMA LoadSteps ==
    ASSUME StorageInv, UNCHANGED disk, UNCHANGED acked, NEW l \in Lakes,
           LoadBatch(l) \/ LoadResidual(l)
    PROVE  BatchSound'
  <1>1. CASE LoadBatch(l)
    <2>1. PICK S \in SUBSET {p \in Todo(l) : Whole(l, p)} : Batch(l, "install", S)
      BY <1>1 DEF LoadBatch
    <2>2. S \in SUBSET Pages /\ "install" \in OpSteps
      BY DEF Todo, Published, OpSteps
    <2>3. op'[l] = [by |-> op[l].by, step |-> "install", batch |-> S]
      /\ \A k \in Lakes \ {l} : op'[k] = op[k]
      BY <2>1, <2>2, BatchStep DEF StorageInv
    <2>4. op[l].by = "compact"
      BY <1>1 DEF LoadBatch, Compacting, Holds
    <2>5. BatchSoundAt(l)'
      BY <2>3, <2>4 DEF BatchSoundAt, Todo, Published, Whole, disk
    <2> QED
      BY <2>3, <2>5, OpStays DEF BatchSound, StorageInv
  <1>2. CASE LoadResidual(l)
    <2>1. PICK p \in Todo(l) :
            IF p \in archive[l] \cap rows[l] THEN Batch(l, "delete", {p}) ELSE Release(l)
      BY <1>2 DEF LoadResidual
    <2>2. {p} \in SUBSET Pages /\ "delete" \in OpSteps
      BY DEF Todo, Published, OpSteps
    <2>3. CASE p \in archive[l] \cap rows[l] /\ Batch(l, "delete", {p})
      <3>1. op'[l] = [by |-> op[l].by, step |-> "delete", batch |-> {p}]
        /\ \A k \in Lakes \ {l} : op'[k] = op[k]
        BY <2>2, <2>3, BatchStep DEF StorageInv
      <3>2. op[l].by = "compact"
        BY <1>2 DEF LoadResidual, Compacting, Holds
      <3>3. BatchSoundAt(l)'
        BY <2>3, <3>1, <3>2 DEF BatchSoundAt, Todo, Published, Whole, disk
      <3> QED
        BY <3>1, <3>3, OpStays DEF BatchSound, StorageInv
    <2>4. CASE Release(l)
      <3>1. \A k \in Lakes : op'[k] = op[k] \/ op'[k].batch = {}
        BY <2>4 DEF Release, Free, StorageInv, TypeOK
      <3> QED
        BY <3>1, OpStays, NoBatch DEF BatchSound, StorageInv
    <2> QED
      BY <2>1, <2>3, <2>4
  <1> QED
    BY <1>1, <1>2

LEMMA RetireSteps ==
    ASSUME StorageInv, UNCHANGED disk, UNCHANGED acked, RetireBegin \/ RetireEnd
    PROVE  BatchSound'
  <1>1. CASE RetireBegin
    <2>1. ASSUME NEW w \in Workers, NEW p \in Folders(w)
          PROVE  p \in archive[Main] \cap acked
      <3>1. published[w][p] = folder[w][p].at /\ folder[w][p].at # "none" /\ p \in Pages
        BY <1>1, <2>1 DEF RetireBegin, MayRetire, Folders
      <3> QED
        BY <1>1, <3>1 DEF RetireBegin, MayRetire, Published
    <2>2. ASSUME NEW l \in Lakes PROVE BatchSoundAt(l)'
      <3>1. op'[l] = [by |-> "retire", step |-> "delete",
                      batch |-> IF l = Main THEN {} ELSE Folders(l)]
        BY <1>1 DEF RetireBegin
      <3>2. l = Main \/ l \in Workers
        BY DEF Lakes
      <3>3. archive' = archive
        BY DEF disk
      <3> QED
        BY <2>1, <3>1, <3>2, <3>3 DEF BatchSoundAt
    <2> QED
      BY <2>2 DEF BatchSound
  <1>2. CASE RetireEnd
    <2>1. \A l \in Lakes : op'[l].batch = {}
      BY <1>2 DEF RetireEnd, Free
    <2> QED
      BY <2>1, NoBatch DEF BatchSound
  <1> QED
    BY <1>1, <1>2

-----------------------------------------------------------------------------
(* Steps that change the disk *)

Rest == UNCHANGED <<stopped, exported, acked, crashes>>

LEMMA StoreStep ==
    ASSUME StorageInv, NEW l \in Lakes, NEW p \in Pages, Store(l, p), Rest
    PROVE  DiskInv' /\ BatchSound'
  <1> USE DEF Store, StorageInv
  <1>1. /\ folder'[l][p] = At("stored")
        /\ \A k \in Lakes, q \in Pages : k # l \/ q # p => folder'[k][q] = folder[k][q]
    BY DEF TypeOK
  <1>2. UNCHANGED <<published, promoting, archive, rows, op, acked>> /\ published[l][p] = "none"
        /\ folder[l][p].at = "none"
    BY DEF Rest, NoFolder
  <1>3. PlacesSound'
    BY <1>1, <1>2 DEF PlacesSound, Published, At, NoFolder, All
  <1>4. BytesSurvive' /\ LeftoversAreSafe'
    BY <1>1, <1>2 DEF BytesSurvive, LeftoversAreSafe, Folders, Published, Whole, At
  <1>5. RowsStayVisible'
    BY <1>1, <1>2 DEF RowsStayVisible, Visible, Published, At
  <1>6. BatchSound'
    BY <1>1, <1>2 DEF BatchSound, BatchSoundAt, Published, Whole, TypeOK
  <1> QED
    BY <1>3, <1>4, <1>5, <1>6 DEF DiskInv

LEMMA CommitStep ==
    ASSUME StorageInv, NEW l \in Lakes, NEW p \in Pages, Commit(l, p), Rest
    PROVE  DiskInv' /\ BatchSound'
  <1> USE DEF Commit, StorageInv
  <1>1. /\ published'[l][p] = "stored"
        /\ \A k \in Lakes, q \in Pages : k # l \/ q # p => published'[k][q] = published[k][q]
        /\ promoting'[l] = promoting[l] \cup {p}
        /\ \A k \in Lakes : k # l => promoting'[k] = promoting[k]
    BY DEF TypeOK
  <1>2. /\ UNCHANGED <<folder, archive, rows, op, acked>>
        /\ folder[l][p] = At("stored") /\ published[l][p] = "none"
    BY DEF Rest
  <1>3. \A k \in Lakes : Published(k) \subseteq Published(k)' /\ Published(k)' \subseteq Published(k) \cup {p}
        /\ (k # l => Published(k)' = Published(k))
    BY <1>1, <1>2 DEF Published
  <1>4. PlacesSound'
    BY <1>1, <1>2, <1>3 DEF PlacesSound, Published, At, NoFolder, All
  <1>5. BytesSurvive' /\ LeftoversAreSafe'
    BY <1>1, <1>2, <1>3 DEF BytesSurvive, LeftoversAreSafe, Folders, Whole, At
  <1>6. RowsStayVisible'
    BY <1>1, <1>2, <1>3 DEF RowsStayVisible, Visible, At
  <1>7. BatchSound'
    BY <1>2, <1>3 DEF BatchSound, BatchSoundAt, Whole, TypeOK
  <1> QED
    BY <1>4, <1>5, <1>6, <1>7 DEF DiskInv

LEMMA PromoteStep ==
    ASSUME StorageInv, NEW l \in Lakes, NEW p \in Pages, Promote(l, p), Rest
    PROVE  DiskInv' /\ BatchSound'
  <1> USE DEF StorageInv
  <1>0. op[l].by = "work" /\ p \in promoting[l] /\ p \in Published(l) /\ op[l].batch = {}
    BY DEF Promote, Holds, PlacesSound, BatchSound, BatchSoundAt
  <1>1. CASE /\ folder[l][p] = At("stored")
             /\ folder' = [folder EXCEPT ![l][p] = At("pages")]
             /\ UNCHANGED <<published, promoting, op, archive, rows, acked>>
    <2>1. /\ folder'[l][p] = At("pages")
          /\ \A k \in Lakes, q \in Pages : k # l \/ q # p => folder'[k][q] = folder[k][q]
      BY <1>1 DEF TypeOK
    <2>2. PlacesSound'
      BY <1>0, <1>1, <2>1 DEF PlacesSound, Published, At, NoFolder, All
    <2>3. BytesSurvive' /\ LeftoversAreSafe'
      BY <1>1, <2>1 DEF BytesSurvive, LeftoversAreSafe, Folders, Published, Whole, At
    <2>4. RowsStayVisible'
      BY <1>0, <1>1, <2>1 DEF RowsStayVisible, Visible, Published, At, All
    <2>5. BatchSound'
      BY <1>0, <1>1, <2>1 DEF BatchSound, BatchSoundAt, Published, Whole, TypeOK
    <2> QED
      BY <2>2, <2>3, <2>4, <2>5 DEF DiskInv
  <1>2. CASE /\ folder[l][p] = At("pages")
             /\ published' = [published EXCEPT ![l][p] = "pages"]
             /\ promoting' = [promoting EXCEPT ![l] = @ \ {p}]
             /\ UNCHANGED <<folder, op, archive, rows, acked>>
    <2>1. /\ published'[l][p] = "pages"
          /\ \A k \in Lakes, q \in Pages : k # l \/ q # p => published'[k][q] = published[k][q]
          /\ \A k \in Lakes : promoting'[k] \subseteq promoting[k]
      BY <1>2 DEF TypeOK
    <2>2. \A k \in Lakes : Published(k)' = Published(k)
      BY <1>0, <2>1 DEF Published
    <2>3. PlacesSound'
      BY <1>2, <2>1, <2>2 DEF PlacesSound, At
    <2>4. BytesSurvive' /\ LeftoversAreSafe'
      BY <1>2, <2>2 DEF BytesSurvive, LeftoversAreSafe, Folders, Whole
    <2>5. RowsStayVisible'
      BY <1>2, <2>1, <2>2 DEF RowsStayVisible, Visible, At, All
    <2>6. BatchSound'
      BY <1>2, <2>2 DEF BatchSound, BatchSoundAt, Whole
    <2> QED
      BY <2>3, <2>4, <2>5, <2>6 DEF DiskInv
  <1>3. CASE Release(l) /\ UNCHANGED <<folder, published, promoting, archive, rows, acked>>
    <2>1. UNCHANGED disk /\ acked \subseteq acked'
      BY <1>3 DEF disk
    <2>2. \A k \in Lakes : op'[k] = op[k] \/ op'[k].batch = {}
      BY <1>3 DEF Release, Free, TypeOK
    <2> QED
      BY <2>1, <2>2, DiskStays, OpStays, NoBatch DEF BatchSound, DiskInv
  <1> QED
    BY <1>1, <1>2, <1>3 DEF Promote, Rest

LEMMA InstallStep ==
    ASSUME StorageInv, NEW l \in Lakes, InstallArchive(l), Rest
    PROVE  DiskInv' /\ BatchSound'
  <1> USE DEF StorageInv
  <1>1. op[l].batch \in SUBSET Pages /\ "drop" \in OpSteps /\ op[l].by = "compact" /\ op[l].step = "install"
    BY DEF TypeOK, OpSteps, InstallArchive, Compacting, Holds
  <1>2. op'[l] = [by |-> op[l].by, step |-> "drop", batch |-> op[l].batch]
        /\ \A k \in Lakes \ {l} : op'[k] = op[k]
    BY <1>1, BatchStep DEF InstallArchive
  <1>3. /\ archive'[l] = archive[l] \cup op[l].batch
        /\ \A k \in Lakes : k # l => archive'[k] = archive[k]
        /\ UNCHANGED <<folder, published, promoting, rows, acked>>
    BY DEF InstallArchive, TypeOK, Rest
  <1>4. op[l].batch \subseteq Published(l)
    BY <1>1 DEF BatchSound, BatchSoundAt
  <1>5. PlacesSound'
    BY <1>3, <1>4 DEF PlacesSound, Published
  <1>6. BytesSurvive' /\ LeftoversAreSafe'
    BY <1>3 DEF BytesSurvive, LeftoversAreSafe, Folders, Whole, Published, Lakes
  <1>7. RowsStayVisible'
    BY <1>3 DEF RowsStayVisible, Visible, Published
  <1>8. BatchSound'
    BY <1>1, <1>2, <1>3, LakesFact DEF BatchSound, BatchSoundAt, Whole, Published
  <1> QED
    BY <1>5, <1>6, <1>7, <1>8 DEF DiskInv

LEMMA RowSteps ==
    ASSUME StorageInv, NEW l \in Lakes, DropRows(l) \/ InsertRows(l), Rest
    PROVE  DiskInv' /\ BatchSound'
  <1> USE DEF StorageInv
  <1>1. op[l].batch \in SUBSET Pages /\ {"insert", "delete"} \subseteq OpSteps /\ op[l].by = "compact"
    BY DEF TypeOK, OpSteps, DropRows, InsertRows, Compacting, Holds
  <1>2. UNCHANGED <<folder, published, promoting, archive, acked>>
    BY DEF DropRows, InsertRows, Rest
  <1>3. \A q \in op[l].batch : Whole(l, q) /\ q \in archive[l] /\ q \in Published(l)
    BY <1>1 DEF BatchSound, BatchSoundAt, DropRows, InsertRows, Compacting
  <1>4. /\ \A k \in Lakes : k # l => rows'[k] = rows[k]
        /\ rows[l] \ op[l].batch \subseteq rows'[l]
        /\ rows'[l] \subseteq rows[l] \cup op[l].batch
    BY DEF DropRows, InsertRows, TypeOK
  <1>5. PlacesSound'
    BY <1>2, <1>3, <1>4 DEF PlacesSound, Published
  <1>6. BytesSurvive' /\ LeftoversAreSafe'
    BY <1>2, <1>3, <1>4 DEF BytesSurvive, LeftoversAreSafe, Folders, Whole, Published
  <1>7. RowsStayVisible'
    <2>1. \A q \in op[l].batch : published[l][q] = "pages" =>
            folder[l][q].at = "pages" /\ folder[l][q].left >= All - 1
      BY <1>1, <1>3 DEF PlacesSound, Whole, TypeOK, All
    <2> QED
      BY <1>1, <1>2, <1>3, <1>4, <2>1 DEF RowsStayVisible, Visible, Published
  <1>8. BatchSound'
    <2>1. CASE DropRows(l)
      <3>1. op'[l] = [by |-> op[l].by, step |-> "insert", batch |-> op[l].batch]
            /\ \A k \in Lakes \ {l} : op'[k] = op[k]
        BY <1>1, <2>1, BatchStep DEF DropRows
      <3> QED
        BY <1>1, <1>2, <1>3, <1>4, <3>1 DEF BatchSound, BatchSoundAt, Whole, Published
    <2>2. CASE InsertRows(l)
      <3>1. op'[l] = [by |-> op[l].by, step |-> "delete", batch |-> op[l].batch]
            /\ \A k \in Lakes \ {l} : op'[k] = op[k]
        BY <1>1, <2>2, BatchStep DEF InsertRows
      <3>2. op[l].batch \subseteq rows'[l]
        BY <2>2 DEF InsertRows, TypeOK
      <3> QED
        BY <1>1, <1>2, <1>3, <1>4, <3>1, <3>2 DEF BatchSound, BatchSoundAt, Whole, Published
    <2> QED
      BY <2>1, <2>2
  <1> QED
    BY <1>5, <1>6, <1>7, <1>8 DEF DiskInv

(* A deletion may take what is safe elsewhere, and then everything else     *)
(* stands as it was.                                                        *)
LEMMA DeletionStep ==
    ASSUME StorageInv, NEW l \in Lakes, NEW next \in OpSteps, Delete(l, next),
           op[l].by = "compact" \/ (op[l].by = "retire" /\ next = "delete"), Rest
    PROVE  DiskInv' /\ BatchSound'
  <1> USE DEF StorageInv
  <1>1. PICK p \in op[l].batch :
             /\ p \in Pages
             /\ folder' \in [Lakes -> [Pages -> FolderType]]
             /\ \A k \in Lakes, q \in Pages :
                  k # l \/ q # p => folder'[k][q] = folder[k][q]
             /\ \/ /\ folder[l][p].left > 0
                   /\ folder'[l][p] = [folder[l][p] EXCEPT !.left = @ - 1]
                   /\ op' = op
                \/ /\ folder'[l][p] = NoFolder
                   /\ Batch(l, IF op[l].batch = {p} THEN next ELSE "delete", op[l].batch \ {p})
    BY DeleteStep
  <1>2. op[l].step = "delete" /\ UNCHANGED <<published, promoting, archive, rows, acked>>
    BY DEF Delete, Rest
  <1>3. folder'[l][p].at \in {folder[l][p].at, "none"}
    <2>1. CASE folder'[l][p] = NoFolder
      BY <2>1 DEF NoFolder
    <2>2. CASE folder'[l][p] = [folder[l][p] EXCEPT !.left = @ - 1]
      <3>1. folder[l][p] \in FolderType
        BY <1>1 DEF TypeOK, FolderType
      <3> QED
        BY <2>2, <3>1 DEF FolderType
    <2> QED
      BY <1>1, <2>1, <2>2
  <1>4. \/ p \in archive[l] \cap rows[l] /\ p \in Published(l)
        \/ l # Main /\ p \in archive[Main] \cap acked
    BY <1>2 DEF BatchSound, BatchSoundAt
  <1>5. PlacesSound'
    <2>1. folder'[l][p].at = "none" => folder'[l][p] = NoFolder
      <3>1. CASE folder'[l][p] = NoFolder
        BY <3>1
      <3>2. CASE folder[l][p].left > 0 /\ folder'[l][p] = [folder[l][p] EXCEPT !.left = @ - 1]
        BY <3>2 DEF PlacesSound, NoFolder, TypeOK
      <3> QED
        BY <1>1, <3>1, <3>2
    <2> QED
      BY <1>1, <1>2, <1>3, <2>1 DEF PlacesSound, Published, NoFolder
  <1>6. BytesSurvive' /\ LeftoversAreSafe'
    BY <1>1, <1>2, <1>4 DEF BytesSurvive, LeftoversAreSafe, Folders, Whole, Published
  <1>7. RowsStayVisible'
    BY <1>1, <1>2, <1>3, <1>4 DEF RowsStayVisible, Visible, Published, PlacesSound
  <1>8. BatchSound'
    <2>1. ASSUME NEW k \in Lakes \ {l} PROVE op'[k] = op[k]
      <3>1. "delete" \in OpSteps /\ op[l].batch \ {p} \in SUBSET Pages
        BY DEF OpSteps, TypeOK
      <3> QED
        BY <1>1, <3>1, BatchStep
    <2>2. ASSUME NEW k \in Lakes \ {l} PROVE BatchSoundAt(k)'
      BY <1>1, <1>2, <2>1, <2>2 DEF BatchSound, BatchSoundAt, Whole, Published, TypeOK
    <2>3. BatchSoundAt(l)'
      <3>1. CASE op' = op
        BY <1>2, <3>1 DEF BatchSound, BatchSoundAt, Published
      <3>2. CASE Batch(l, IF op[l].batch = {p} THEN next ELSE "delete", op[l].batch \ {p})
        <4>1. "delete" \in OpSteps /\ op[l].batch \ {p} \in SUBSET Pages
          BY DEF OpSteps, TypeOK
        <4>2. op'[l] = [by |-> op[l].by,
                        step |-> IF op[l].batch = {p} THEN next ELSE "delete",
                        batch |-> op[l].batch \ {p}]
          BY <3>2, <4>1, BatchStep
        <4> QED
          BY <1>2, <4>2 DEF BatchSound, BatchSoundAt, Published
      <3> QED
        BY <1>1, <3>1, <3>2
    <2> QED
      BY <2>2, <2>3 DEF BatchSound
  <1> QED
    BY <1>5, <1>6, <1>7, <1>8 DEF DiskInv

-----------------------------------------------------------------------------
(* Every step preserves the invariant. *)
LEMMA StorageStep == StorageInv /\ [Next]_vars => StorageInv'
  <1> SUFFICES ASSUME StorageInv, [Next]_vars PROVE DiskInv' /\ BatchSound'
    BY StorageTypes DEF StorageInv, DiskInv
  <1>0. DiskInv /\ TypeOK /\ BatchSound
    BY DEF StorageInv, DiskInv
  <1>1. CASE Retire
    <2>1. CASE RetireBegin \/ RetireEnd
      <3>1. UNCHANGED disk /\ UNCHANGED acked
        BY <1>1, <2>1 DEF Retire, RetireBegin, RetireEnd
      <3> QED
        BY <1>0, <2>1, <3>1, RetireSteps, DiskStays
    <2>2. CASE RetireDelete
      <3>1. PICK w \in Workers : Holds(w, "retire") /\ Delete(w, "delete")
        BY <2>2 DEF RetireDelete
      <3>2. w \in Lakes /\ "delete" \in OpSteps /\ op[w].by = "retire" /\ Rest
        BY <1>1, <3>1, LakesFact DEF OpSteps, Holds, Retire, Rest
      <3> QED
        BY <3>1, <3>2, DeletionStep
    <2> QED
      BY <1>1, <2>1, <2>2 DEF Retire
  <1>2. ASSUME NEW l \in Lakes, Stop(l) \/ WorkBegin(l) \/ CompactBegin(l) \/ Crash(l)
        PROVE  DiskInv' /\ BatchSound'
    <2>1. UNCHANGED disk /\ UNCHANGED acked
      BY <1>2 DEF Stop, WorkBegin, CompactBegin, Crash, disk
    <2> QED
      BY <1>0, <1>2, <2>1, OpSteps1, DiskStays
  <1>3. ASSUME NEW l \in Lakes, Work(l) PROVE DiskInv' /\ BatchSound'
    <2>1. CASE WorkEnd(l)
      <3>1. UNCHANGED disk /\ UNCHANGED acked
        BY <1>3, <2>1 DEF Work, WorkEnd
      <3> QED
        BY <1>0, <2>1, <3>1, OpSteps1, DiskStays
    <2>2. ASSUME NEW p \in Pages, Store(l, p) \/ Commit(l, p) \/ Promote(l, p)
          PROVE  DiskInv' /\ BatchSound'
      BY <1>3, <2>2, StoreStep, CommitStep, PromoteStep DEF Work, Rest
    <2> QED
      BY <1>3, <2>1, <2>2 DEF Work
  <1>4. ASSUME NEW l \in Lakes, Compact(l) PROVE DiskInv' /\ BatchSound'
    <2>1. CASE LoadBatch(l) \/ LoadResidual(l)
      <3>1. UNCHANGED disk /\ UNCHANGED acked
        BY <1>4, <2>1 DEF Compact, LoadBatch, LoadResidual
      <3> QED
        BY <1>0, <2>1, <3>1, LoadSteps, DiskStays
    <2>2. CASE CompactEnd(l)
      <3>1. UNCHANGED disk /\ UNCHANGED acked
        BY <1>4, <2>2 DEF Compact, CompactEnd
      <3> QED
        BY <1>0, <2>2, <3>1, OpSteps1, DiskStays
    <2>3. CASE InstallArchive(l) \/ DropRows(l) \/ InsertRows(l)
      BY <1>4, <2>3, InstallStep, RowSteps DEF Compact, Rest
    <2>4. CASE CompactDelete(l)
      <3>1. Delete(l, "load") /\ "load" \in OpSteps /\ op[l].by = "compact" /\ Rest
        BY <1>4, <2>4 DEF Compact, CompactDelete, Holds, OpSteps, Rest
      <3> QED
        <4>1. op[l].by = "compact" \/ (op[l].by = "retire" /\ "load" = "delete")
          BY <3>1
        <4> QED
          BY <3>1, <4>1, DeletionStep
    <2> QED
      BY <1>4, <2>1, <2>2, <2>3, <2>4 DEF Compact
  <1>5. ASSUME NEW p \in Pages, Acknowledge(p) \/ \E l \in Lakes : Export(l, p)
        PROVE  DiskInv' /\ BatchSound'
    <2>1. UNCHANGED disk /\ UNCHANGED op /\ acked \subseteq acked'
      BY <1>5 DEF Acknowledge, Export
    <2> QED
      BY <1>0, <2>1, DiskStays, OpStays DEF BatchSound
  <1>6. CASE UNCHANGED vars
    <2>1. UNCHANGED disk /\ UNCHANGED op /\ acked \subseteq acked'
      BY <1>6 DEF vars
    <2> QED
      BY <1>0, <2>1, DiskStays, OpStays DEF BatchSound
  <1> QED
    BY <1>1, <1>2, <1>3, <1>4, <1>5, <1>6 DEF Next

THEOREM StorageInvariant == Spec => []StorageInv
  BY StorageInit, StorageStep, PTL DEF Spec

(* All variables keep their types: the index of a file to be deleted stays  *)
(* within the folder, and operations stay at the steps they have.           *)
THEOREM StorageTypeCorrect == Spec => []TypeOK
  <1>1. StorageInv => TypeOK
    BY DEF StorageInv
  <1> QED
    BY <1>1, StorageInvariant, PTL

(* The bytes of a published page are whole in its folder or in an archive,  *)
(* for any workers, pages and kills (compact_storage,                       *)
(* retire_local_worker_pages).                                              *)
THEOREM BytesSafe == Spec => []BytesSurvive
  <1>1. StorageInv => BytesSurvive
    BY DEF StorageInv
  <1> QED
    BY <1>1, StorageInvariant, PTL

(* The rows that the main lake has published stay visible through every     *)
(* compaction, and no unpublished ones ever are (_materialize_query_rows,   *)
(* view).                                                                   *)
THEOREM RowsSafe == Spec => []RowsStayVisible
  <1>1. StorageInv => RowsStayVisible
    BY DEF StorageInv
  <1> QED
    BY <1>1, StorageInvariant, PTL

(* A folder that a kill has left incomplete is one whose bytes and rows are *)
(* safe (_cleanup_archived_residual, _retirement_files).                    *)
THEOREM LeftoversSafe == Spec => []LeftoversAreSafe
  <1>1. StorageInv => LeftoversAreSafe
    BY DEF StorageInv
  <1> QED
    BY <1>1, StorageInvariant, PTL
=============================================================================
