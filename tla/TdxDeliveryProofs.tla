------------------------- MODULE TdxDeliveryProofs --------------------------
(***************************************************************************)
(* Proofs about TdxDelivery, for any workers, pages and numbers of         *)
(* crashes, faults and exports: first what an acknowledgement means, then  *)
(* that the delivery implements the safety part of ResultLedger.           *)
(***************************************************************************)
EXTENDS TdxDelivery, TLAPS, SequenceTheorems, FiniteSetTheorems

(* A bundle that is offered to an import is a bundle, for every way in. *)
LEMMA OfferedIsBundle ==
  ASSUME TypeOK, NEW by \in {"merger", "local", "operator"}, NEW b \in Offered(by)
  PROVE  b \in Bundle
<1>1. CASE by = "merger"
  BY <1>1 DEF Offered, MergerOffers, TypeOK
<1>2. CASE by = "local"
  BY <1>2 DEF Offered, LocalOffers, TypeOK
<1>3. CASE by = "operator"
  BY <1>3 DEF Offered, OperatorOffers, TypeOK
<1> QED BY <1>1, <1>2, <1>3

(* A bundle names a worker, a sequence number and pages. *)
LEMMA BundleFields ==
  ASSUME NEW b \in Bundle
  PROVE  b.worker \in Workers /\ b.seq \in Nat \ {0} /\ b.pages \in SUBSET Pages
BY DEF Bundle

(* A service that is not idle, and an import under way, have a bundle. *)
LEMMA ActiveBundles ==
  ASSUME TypeOK
  PROVE  /\ \A w \in Workers : service[w] # Idle =>
              service[w].bundle \in Bundle /\ service[w].step \in Steps \ {"idle"}
         /\ import.by # "nobody" =>
              /\ import \in [by : Importers \ {"nobody"}, bundle : Bundle,
                             todo : SUBSET Pages, page : Pages \cup {NoPage}]
              /\ import # NoImport
<1>1. \A w \in Workers : service[w] \in {Idle} \cup [step : Steps \ {"idle"}, bundle : Bundle]
  BY DEF TypeOK
<1>2. import.by # "nobody" => import # NoImport
  BY DEF NoImport
<1>3. QED
  BY <1>1, <1>2 DEF TypeOK

(* An export or a delivery that moves on was not idle. *)
LEMMA StepIsActive ==
  ASSUME NEW w \in Workers, NEW s \in Steps \ {"idle"}, service[w].step = s
  PROVE  service[w] # Idle
BY DEF Idle, Steps

(* Changing where one service stands keeps the type of all of them. *)
LEMMA GotoType ==
  ASSUME TypeOK, NEW w \in Workers,
         \/ service' = [service EXCEPT ![w] = Idle]
         \/ \E s \in Steps \ {"idle"}, b \in Bundle : Goto(w, s, b)
  PROVE  service' \in [Workers -> {Idle} \cup [step : Steps \ {"idle"}, bundle : Bundle]]
<1> DEFINE T == {Idle} \cup [step : Steps \ {"idle"}, bundle : Bundle]
<1>1. service \in [Workers -> T]
  BY DEF TypeOK
<1>2. \A t \in T : [service EXCEPT ![w] = t] \in [Workers -> T]
  <2> HIDE DEF T
  <2> QED BY <1>1
<1>3. \A s \in Steps \ {"idle"}, b \in Bundle : [step |-> s, bundle |-> b] \in T
  OBVIOUS
<1>4. Idle \in T
  OBVIOUS
<1> HIDE DEF T
<1>5. CASE service' = [service EXCEPT ![w] = Idle]
  BY <1>2, <1>4, <1>5 DEF T
<1>6. ASSUME NEW s \in Steps \ {"idle"}, NEW b \in Bundle, Goto(w, s, b)
      PROVE  service' \in [Workers -> T]
  BY <1>2, <1>3, <1>6 DEF Goto
<1>7. QED
  BY <1>5, <1>6 DEF T

-----------------------------------------------------------------------------
(* Every step keeps the types. *)
LEMMA TypeStep ==
  ASSUME ConstantAssumption, NoBundleAssumption, TypeOK, [Next]_vars
  PROVE  TypeOK'
<1> USE ActiveBundles
<1>1. ASSUME NEW w \in Workers, WorkerNext(w) PROVE TypeOK'
  <2>1. ASSUME NEW p \in Pages, Publish(w, p) PROVE TypeOK'
    <3>1. published' \in [Workers -> Seq(Pages)]
      BY <2>1 DEF TypeOK, Publish
    <3>2. UNCHANGED <<outbox, acked, tars, attempts, service, halted, incoming,
                      failed, receipts, ledger, canon, import, crashes, faults>>
      BY <2>1 DEF Publish, canonVars
    <3>3. QED
      BY <3>1, <3>2 DEF TypeOK
  <2>2. CASE ExportWrite(w)
    <3>1. PICK n \in SelectionSizes(w) :
            LET b == [worker |-> w, seq |-> Len(outbox[w]) + 1,
                      attempt |-> attempts[w] + 1, pages |-> Selection(w, n)]
            IN  /\ tars' = tars \cup {b}
                /\ service' = [service EXCEPT ![w] = [step |-> "exporting", bundle |-> b]]
      BY <2>2 DEF ExportWrite
    <3> DEFINE b == [worker |-> w, seq |-> Len(outbox[w]) + 1,
                     attempt |-> attempts[w] + 1, pages |-> Selection(w, n)]
    <3>2. Selection(w, n) \in SUBSET Pages
      <4>0. published[w] \in Seq(Pages)
        BY DEF TypeOK
      <4>1. \A i \in 1..Len(published[w]) : published[w][i] \in Pages
        BY <4>0
      <4>2. \A i \in Candidates(w) : published[w][i] \in Pages
        BY <4>1 DEF Candidates
      <4> DEFINE J == {j \in Candidates(w) :
                         Cardinality({k \in Candidates(w) : k <= j}) <= n}
      <4>3. \A i \in J : published[w][i] \in Pages
        BY <4>2
      <4>4. Selection(w, n) = {published[w][i] : i \in J}
        BY DEF Selection
      <4> HIDE DEF J
      <4>5. QED BY <4>3, <4>4
    <3>3. Len(outbox[w]) \in Nat /\ attempts[w] \in Nat
      BY DEF TypeOK
    <3>4. b \in Bundle
      BY <3>2, <3>3 DEF Bundle
    <3>5. service' \in [Workers -> {Idle} \cup [step : Steps \ {"idle"}, bundle : Bundle]]
      <4>1. Goto(w, "exporting", b) /\ "exporting" \in Steps \ {"idle"}
        BY <3>1 DEF Goto, Steps
      <4> HIDE DEF b
      <4>2. QED BY <3>4, <4>1, GotoType
    <3>6. tars' \in SUBSET Bundle /\ attempts' \in [Workers -> Nat]
      BY <3>1, <3>4, <2>2 DEF ExportWrite, TypeOK
    <3> HIDE DEF b
    <3>7. QED
      BY <2>2, <3>5, <3>6 DEF ExportWrite, TypeOK, canonVars
  <2>3. CASE ExportCommit(w)
    <3>1. service[w].bundle \in Bundle
      BY <2>3, StepIsActive DEF ExportCommit, Steps
    <3>2. outbox' \in [Workers -> Seq(Bundle)]
      BY <2>3, <3>1 DEF ExportCommit, TypeOK
    <3>3. QED
      BY <2>3, <3>2, GotoType DEF ExportCommit, TypeOK, canonVars
  <2>4. CASE Poll(w)
    <3>1. PICK i \in Pending(w) :
            \/ Goto(w, "acking", outbox[w][i]) /\ UNCHANGED halted
            \/ Goto(w, "sending", outbox[w][i]) /\ UNCHANGED halted
            \/ halted' = halted \cup {w} /\ UNCHANGED service
      BY <2>4 DEF Poll
    <3>2. outbox[w][i] \in Bundle
      BY DEF Pending, TypeOK
    <3>3. service' \in [Workers -> {Idle} \cup [step : Steps \ {"idle"}, bundle : Bundle]]
      BY <3>1, <3>2, GotoType DEF Steps, TypeOK
    <3>4. halted' \in SUBSET Workers
      BY <3>1 DEF TypeOK
    <3>5. QED
      BY <2>4, <3>3, <3>4 DEF Poll, TypeOK, canonVars
  <2>5. CASE Put(w)
    <3>1. service[w].bundle \in Bundle
      BY <2>5, StepIsActive DEF Put, Steps
    <3>2. service' \in [Workers -> {Idle} \cup [step : Steps \ {"idle"}, bundle : Bundle]]
      BY <2>5, <3>1, GotoType DEF Put, Steps
    <3>3. QED
      BY <2>5, <3>1, <3>2 DEF Put, TypeOK, canonVars
  <2>6. CASE PutLost(w)
    <3>1. service[w].bundle \in Bundle
      BY <2>6, StepIsActive DEF PutLost, Steps
    <3>2. incoming' \in SUBSET Bundle
      BY <2>6, <3>1 DEF PutLost, TypeOK
    <3>3. QED
      BY <2>6, <3>2, GotoType DEF PutLost, TypeOK, canonVars
  <2>7. CASE Confirm(w)
    <3>1. service[w].bundle \in Bundle
      BY <2>7, StepIsActive DEF Confirm, Steps
    <3>2. service' \in [Workers -> {Idle} \cup [step : Steps \ {"idle"}, bundle : Bundle]]
      BY <2>7, <3>1, GotoType DEF Confirm, Steps
    <3>3. QED
      BY <2>7, <3>2 DEF Confirm, TypeOK, canonVars
  <2>8. CASE Acknowledge(w)
    <3>1. service[w].bundle \in Bundle
      BY <2>8, StepIsActive DEF Acknowledge, Steps
    <3>2. service' \in [Workers -> {Idle} \cup [step : Steps \ {"idle"}, bundle : Bundle]]
      BY <2>8, <3>1, GotoType DEF Acknowledge, Steps
    <3>3. acked' \in [Workers -> SUBSET Nat]
      BY <2>8, <3>1, BundleFields DEF Acknowledge, TypeOK
    <3>4. QED
      BY <2>8, <3>2, <3>3 DEF Acknowledge, TypeOK, canonVars
  <2>9. CASE Unlink(w)
    BY <2>9, GotoType DEF Unlink, TypeOK, canonVars
  <2>10. CASE Resume(w)
    BY <2>10 DEF Resume, TypeOK, canonVars
  <2>11. CASE WorkerCrash(w)
    BY <2>11, GotoType DEF WorkerCrash, TypeOK
  <2>12. QED
    BY <1>1, <2>1, <2>2, <2>3, <2>4, <2>5, <2>6, <2>7, <2>8, <2>9, <2>10, <2>11
       DEF WorkerNext
<1>2. ASSUME NEW by \in {"merger", "local", "operator"}, NEW b \in Offered(by),
             ImportBegin(by, b) \/ ImportDefer(by, b) \/ ImportRefuse(by, b)
      PROVE TypeOK'
  <2>1. b \in Bundle /\ b.worker \in Workers /\ b.pages \in SUBSET Pages
    BY OfferedIsBundle, BundleFields
  <2>2. Reconciled \in [Pages -> Progress]
    BY DEF Reconciled, TypeOK, Progress
  <2>3. CASE ImportBegin(by, b)
    <3>1. service' \in [Workers -> {Idle} \cup [step : Steps \ {"idle"}, bundle : Bundle]]
      BY <2>1, <2>3, GotoType DEF ImportBegin, Steps, TypeOK
    <3>2. import' \in [by : Importers \ {"nobody"}, bundle : Bundle,
                       todo : SUBSET Pages, page : Pages \cup {NoPage}]
      BY <2>1, <2>3 DEF ImportBegin, Importers
    <3>3. QED
      BY <2>2, <2>3, <3>1, <3>2 DEF ImportBegin, TypeOK
  <2>4. CASE ImportDefer(by, b)
    BY <2>2, <2>4 DEF ImportDefer, TypeOK, workerVars
  <2>5. CASE ImportRefuse(by, b)
    BY <2>1, <2>2, <2>5 DEF ImportRefuse, Refuse, TypeOK
  <2>6. QED BY <1>2, <2>3, <2>4, <2>5
<1>3. ASSUME NEW p \in Pages, ImportTake(p) PROVE TypeOK'
  BY <1>3 DEF ImportTake, TypeOK, workerVars
<1>4. ASSUME NEW from \in Progress, NEW to \in Progress, Advance(from, to) PROVE TypeOK'
  BY <1>4 DEF Advance, TypeOK, workerVars
<1>5. CASE ImportStage
  BY <1>4, <1>5 DEF ImportStage, Progress
<1>6. CASE ImportList
  BY <1>4, <1>6 DEF ImportList, Progress
<1>7. CASE ImportPublish
  BY <1>4, <1>7 DEF ImportPublish, Progress
<1>8. CASE ImportPromote
  BY <1>4, <1>8 DEF ImportPromote, Progress
<1>9. CASE ImportPageDone
  <2>1. import.by # "nobody"
    BY <1>9 DEF ImportPageDone, TypeOK, NoImport
  <2>2. import' \in [by : Importers \ {"nobody"}, bundle : Bundle,
                     todo : SUBSET Pages, page : Pages \cup {NoPage}]
    BY <1>9, <2>1 DEF ImportPageDone
  <2>3. QED
    BY <1>9, <2>2 DEF ImportPageDone, TypeOK, workerVars
<1>10. CASE ImportRecord
  <2>1. import.bundle \in Bundle /\ import.bundle.worker \in Workers
    BY <1>10, BundleFields DEF ImportRecord, ImportDone
  <2>2. ledger' \in [Workers -> Seq(Bundle)]
    BY <1>10, <2>1 DEF ImportRecord, TypeOK
  <2>3. QED
    BY <1>10, <2>2 DEF ImportRecord, TypeOK, workerVars
<1>11. CASE ImportReceipt
  <2>1. import.bundle \in Bundle /\ import.bundle.worker \in Workers
    BY <1>11, BundleFields DEF ImportReceipt, ImportDone
  <2>2. service' \in [Workers -> {Idle} \cup [step : Steps \ {"idle"}, bundle : Bundle]]
    BY <1>11, <2>1, GotoType DEF ImportReceipt, Steps, TypeOK
  <2>3. QED
    BY <1>11, <2>1, <2>2 DEF ImportReceipt, TypeOK
<1>12. ASSUME NEW b \in incoming, MergerTidy(b) PROVE TypeOK'
  BY <1>12 DEF MergerTidy, TypeOK, workerVars, canonVars
<1>13. CASE ImportFault
  <2>1. import.bundle \in Bundle /\ import.bundle.worker \in Workers
    BY <1>13, BundleFields DEF ImportFault
  <2>2. failed' \in SUBSET Bundle /\ halted' \in SUBSET Workers
    BY <1>13, <2>1 DEF ImportFault, Refuse, TypeOK
  <2>3. QED
    BY <1>13, <2>2 DEF ImportFault, TypeOK
<1>14. CASE ImporterCrash
  BY <1>14 DEF ImporterCrash, TypeOK, workerVars
<1>15. CASE UNCHANGED vars
  BY <1>15 DEF vars, TypeOK
<1>16. QED
  BY <1>1, <1>2, <1>3, <1>5, <1>6, <1>7, <1>8, <1>9, <1>10, <1>11, <1>12, <1>13,
     <1>14, <1>15 DEF Next, ImportNext

(* The variables have their types in every reachable state. *)
THEOREM TypeCorrect == Spec => []TypeOK
<1> USE ConstantAssumption, NoBundleAssumption
<1>1. Init => TypeOK
  BY DEF Init, TypeOK, Progress
<1>2. TypeOK /\ [Next]_vars => TypeOK'
  BY TypeStep
<1>3. QED
  BY <1>1, <1>2, PTL DEF Spec

-----------------------------------------------------------------------------
(* The inductive invariant behind AckedIsCanonical and OutboxRetained.      *)

(* b is the outbox row that its sequence number says it is. *)
IsRow(b) == b.seq \in 1..Len(outbox[b.worker]) /\ outbox[b.worker][b.seq] = b

RowsNumbered ==
    \A w \in Workers : \A i \in 1..Len(outbox[w]) :
        outbox[w][i].worker = w /\ outbox[w][i].seq = i

(* What a service has established about its bundle when it gets to a step. *)
ServiceSound(w) ==
    LET b == service[w].bundle IN
    /\ service[w] # Idle => b.worker = w
    /\ service[w].step = "exporting" => b.seq = Len(outbox[w]) + 1 /\ b \in tars
    /\ service[w].step \in {"sending", "confirming", "acking", "unlinking"} => IsRow(b)
    /\ service[w].step = "acking" => b \in receipts
    /\ service[w].step = "unlinking" => b.seq \in acked[w]

(* What an import has done: the pages it is through with are visible. *)
ImportSound ==
    import.by # "nobody" =>
        /\ import.by = "local" => IsRow(import.bundle)
        /\ \A p \in import.bundle.pages \ import.todo : canon[p] = "visible"

ReceiptsVisible == \A b \in receipts : \A p \in b.pages : canon[p] = "visible"

AckedHasReceipt ==
    \A w \in Workers : \A i \in acked[w] :
        i \in 1..Len(outbox[w]) /\ outbox[w][i] \in receipts

DeliveryInv ==
    /\ TypeOK
    /\ RowsNumbered
    /\ \A w \in Workers : ServiceSound(w)
    /\ ImportSound
    /\ ReceiptsVisible
    /\ AckedHasReceipt
    /\ OutboxRetained

(* A service that a step leaves alone stays sound, as long as its rows stay *)
(* and receipts, acknowledgements and its files are not taken away.         *)
LEMMA ServiceFrame ==
  ASSUME NEW w \in Workers, ServiceSound(w), service'[w] = service[w],
         outbox'[w] = outbox[w], receipts \subseteq receipts',
         acked[w] \subseteq acked'[w],
         \A b \in tars : b.worker = w => b \in tars'
  PROVE  ServiceSound(w)'
<1>1. CASE service[w] = Idle
  BY <1>1 DEF ServiceSound, Idle
<1>2. CASE service[w] # Idle
  <2>1. service[w].bundle.worker = w
    BY <1>2 DEF ServiceSound
  <2>2. IsRow(service[w].bundle) => IsRow(service[w].bundle)'
    BY <2>1 DEF IsRow
  <2>3. QED
    BY <1>2, <2>1, <2>2 DEF ServiceSound
<1>3. QED BY <1>1, <1>2

(* The first pending row is a row. *)
LEMMA PendingIsRow ==
  ASSUME TypeOK, RowsNumbered, NEW w \in Workers, NEW i \in Pending(w)
  PROVE  /\ outbox[w][i] \in Bundle
         /\ outbox[w][i].worker = w
         /\ IsRow(outbox[w][i])
<1>1. i \in 1..Len(outbox[w])
  BY DEF Pending
<1>2. outbox[w][i].worker = w /\ outbox[w][i].seq = i
  BY <1>1 DEF RowsNumbered
<1>3. outbox[w][i] \in Bundle
  BY <1>1 DEF TypeOK
<1>4. QED BY <1>1, <1>2, <1>3 DEF IsRow

(* No step hides a page that is visible in the canonical lake. *)
LEMMA VisibleStays ==
  ASSUME TypeOK, [Next]_vars, NEW p \in Pages, canon[p] = "visible"
  PROVE  canon'[p] = "visible"
<1>1. ASSUME NEW w \in Workers, WorkerNext(w) PROVE canon' = canon
  BY <1>1 DEF WorkerNext, Publish, ExportWrite, ExportCommit, Poll, Put, PutLost,
     Confirm, Acknowledge, Unlink, Resume, WorkerCrash, canonVars
<1>2. ASSUME NEW by, NEW b, ImportBegin(by, b) \/ ImportDefer(by, b) \/ ImportRefuse(by, b)
      PROVE canon' = Reconciled
  BY <1>2 DEF ImportBegin, ImportDefer, ImportRefuse
<1>3. Reconciled[p] = "visible"
  BY DEF Reconciled
<1>4. ASSUME NEW from \in Progress \ {"visible"}, NEW to, Advance(from, to)
      PROVE canon'[p] = "visible"
  BY <1>4 DEF Advance, TypeOK
<1>5. CASE ImportStage \/ ImportList \/ ImportPublish \/ ImportPromote
  BY <1>4, <1>5 DEF ImportStage, ImportList, ImportPublish, ImportPromote, Progress
<1>6. CASE \/ \E q \in Pages : ImportTake(q)
           \/ ImportPageDone \/ ImportRecord \/ ImportReceipt
           \/ \E b \in incoming : MergerTidy(b)
           \/ ImportFault \/ ImporterCrash \/ UNCHANGED vars
  BY <1>6 DEF ImportTake, ImportPageDone, ImportRecord, ImportReceipt, MergerTidy,
     ImportFault, ImporterCrash, canonVars, vars
<1>7. QED
  BY <1>1, <1>2, <1>3, <1>5, <1>6 DEF Next, ImportNext

(* A step that leaves outbox, files, receipts and services alone keeps the  *)
(* invariant if it keeps ImportSound.                                       *)
LEMMA QuietStep ==
  ASSUME DeliveryInv, [Next]_vars, TypeOK', ImportSound',
         outbox' = outbox, acked' = acked, tars' = tars, receipts' = receipts,
         service' = service
  PROVE  DeliveryInv'
<1>1. RowsNumbered' /\ AckedHasReceipt' /\ OutboxRetained'
  BY DEF DeliveryInv, RowsNumbered, AckedHasReceipt, OutboxRetained, Pending
<1>2. \A w \in Workers : ServiceSound(w)'
  BY ServiceFrame DEF DeliveryInv
<1>3. ReceiptsVisible'
  BY VisibleStays, BundleFields DEF DeliveryInv, ReceiptsVisible, TypeOK
<1>4. QED
  BY <1>1, <1>2, <1>3 DEF DeliveryInv

(* So does a step of one service, if that service is sound afterwards and   *)
(* outbox, acknowledgements and files are as the invariant wants them.      *)
LEMMA ServiceStep ==
  ASSUME DeliveryInv, [Next]_vars, TypeOK', NEW w \in Workers,
         ServiceSound(w)', RowsNumbered', AckedHasReceipt', OutboxRetained',
         \A v \in Workers \ {w} : /\ service'[v] = service[v]
                                  /\ outbox'[v] = outbox[v]
                                  /\ acked'[v] = acked[v],
         \A b \in tars : b.worker # w => b \in tars',
         receipts' = receipts, ImportSound'
  PROVE  DeliveryInv'
<1>1. \A v \in Workers : ServiceSound(v)'
  BY ServiceFrame DEF DeliveryInv
<1>2. ReceiptsVisible'
  BY VisibleStays, BundleFields DEF DeliveryInv, ReceiptsVisible, TypeOK
<1>3. QED
  BY <1>1, <1>2 DEF DeliveryInv

(* An import that is continued, or given up, stays sound when the rows of   *)
(* the outbox stay.                                                         *)
LEMMA ImportFrame ==
  ASSUME DeliveryInv, [Next]_vars, import' = import \/ import' = NoImport,
         \A w \in Workers : \A i \in 1..Len(outbox[w]) :
             i \in 1..Len(outbox'[w]) /\ outbox'[w][i] = outbox[w][i]
  PROVE  ImportSound'
<1>1. CASE import.by = "nobody" \/ import' = NoImport
  BY <1>1 DEF ImportSound, NoImport
<1>2. CASE import.by # "nobody" /\ import' = import
  <2>1. import.bundle \in Bundle /\ import.bundle.worker \in Workers
        /\ import.bundle.pages \in SUBSET Pages
    BY <1>2, ActiveBundles, BundleFields DEF DeliveryInv
  <2>2. IsRow(import.bundle) => IsRow(import.bundle)'
    BY <1>2, <2>1 DEF IsRow
  <2>3. \A p \in import.bundle.pages \ import.todo : canon'[p] = "visible"
    BY <1>2, <2>1, VisibleStays DEF DeliveryInv, ImportSound
  <2>4. QED
    BY <1>2, <2>2, <2>3 DEF ImportSound, DeliveryInv
<1>3. QED BY <1>1, <1>2

(* Every step of a worker keeps the invariant. *)
LEMMA WorkerKeeps ==
  ASSUME DeliveryInv, TypeOK', [Next]_vars, NEW w \in Workers, WorkerNext(w)
  PROVE  DeliveryInv'
<1> USE DEF DeliveryInv
<1>1. ASSUME NEW p \in Pages, Publish(w, p) PROVE DeliveryInv'
  BY <1>1, QuietStep, ImportFrame DEF Publish, canonVars
<1>2. CASE ExportWrite(w)
  <2>1. PICK n \in SelectionSizes(w) :
          LET b == [worker |-> w, seq |-> Len(outbox[w]) + 1,
                    attempt |-> attempts[w] + 1, pages |-> Selection(w, n)]
          IN  /\ tars' = tars \cup {b}
              /\ service' = [service EXCEPT ![w] = [step |-> "exporting", bundle |-> b]]
    BY <1>2 DEF ExportWrite
  <2> DEFINE b == [worker |-> w, seq |-> Len(outbox[w]) + 1,
                   attempt |-> attempts[w] + 1, pages |-> Selection(w, n)]
  <2>2. b.worker = w /\ b.seq = Len(outbox[w]) + 1
    OBVIOUS
  <2>3. tars' = tars \cup {b} /\ service'[w] = [step |-> "exporting", bundle |-> b]
    BY <2>1 DEF TypeOK
  <2> HIDE DEF b
  <2>4. ServiceSound(w)'
    BY <1>2, <2>2, <2>3 DEF ServiceSound, ExportWrite
  <2>5. RowsNumbered' /\ AckedHasReceipt' /\ OutboxRetained'
    BY <1>2, <2>3 DEF ExportWrite, RowsNumbered, AckedHasReceipt, OutboxRetained,
       Pending, canonVars
  <2>6. ImportSound'
    BY <1>2, ImportFrame DEF ExportWrite, canonVars
  <2>7. QED
    BY <1>2, <2>1, <2>3, <2>4, <2>5, <2>6, ServiceStep DEF ExportWrite, canonVars
<1>3. CASE ExportCommit(w)
  <2> DEFINE b == service[w].bundle
  <2>1. b \in Bundle /\ b.worker = w /\ b.seq = Len(outbox[w]) + 1 /\ b \in tars
    BY <1>3, ActiveBundles, StepIsActive DEF ExportCommit, ServiceSound, Steps
  <2>2. outbox[w] \in Seq(Bundle)
    BY DEF TypeOK
  <2>3. /\ outbox'[w] = Append(outbox[w], b)
        /\ \A v \in Workers \ {w} : outbox'[v] = outbox[v]
        /\ service'[w] = Idle
        /\ \A v \in Workers \ {w} : service'[v] = service[v]
    BY <1>3 DEF ExportCommit, TypeOK
  <2> HIDE DEF b
  <2>4. /\ Len(outbox'[w]) = Len(outbox[w]) + 1
        /\ \A i \in 1..Len(outbox[w]) : outbox'[w][i] = outbox[w][i]
        /\ outbox'[w][Len(outbox[w]) + 1] = b
    BY <2>1, <2>2, <2>3
  <2>5. RowsNumbered'
    <3> SUFFICES ASSUME NEW v \in Workers, NEW i \in 1..Len(outbox'[v])
                 PROVE  outbox'[v][i].worker = v /\ outbox'[v][i].seq = i
      BY DEF RowsNumbered
    <3>1. CASE v # w
      BY <2>3, <3>1 DEF RowsNumbered
    <3>2. CASE v = w /\ i = Len(outbox[w]) + 1
      BY <2>1, <2>4, <3>2
    <3>3. CASE v = w /\ i \in 1..Len(outbox[w])
      BY <2>4, <3>3 DEF RowsNumbered
    <3>4. Len(outbox[w]) \in Nat
      BY <2>2
    <3>5. QED
      BY <2>4, <3>1, <3>2, <3>3, <3>4
  <2>6. AckedHasReceipt'
    BY <1>3, <2>2, <2>3, <2>4 DEF AckedHasReceipt, ExportCommit, canonVars
  <2>7. OutboxRetained'
    BY <1>3, <2>1, <2>2, <2>3, <2>4 DEF OutboxRetained, Pending, ExportCommit
  <2>8. ServiceSound(w)'
    BY <2>3 DEF ServiceSound, Idle
  <2>9. ImportSound'
    <3>1. \A v \in Workers : \A i \in 1..Len(outbox[v]) :
             i \in 1..Len(outbox'[v]) /\ outbox'[v][i] = outbox[v][i]
      BY <2>2, <2>3, <2>4
    <3>2. QED
      BY <1>3, <3>1, ImportFrame DEF ExportCommit, canonVars
  <2>10. QED
    BY <1>3, <2>3, <2>5, <2>6, <2>7, <2>8, <2>9, ServiceStep
       DEF ExportCommit, canonVars
<1>4. CASE Poll(w)
  <2>1. PICK i \in Pending(w) :
          \/ outbox[w][i] \in receipts /\ Goto(w, "acking", outbox[w][i])
          \/ Goto(w, "sending", outbox[w][i])
          \/ UNCHANGED service
    BY <1>4 DEF Poll
  <2>2. outbox[w][i] \in Bundle /\ outbox[w][i].worker = w /\ IsRow(outbox[w][i])
    BY PendingIsRow
  <2>3. UNCHANGED <<outbox, acked, tars, receipts, import>>
    BY <1>4 DEF Poll, canonVars
  <2>4. CASE UNCHANGED service
    BY <2>3, <2>4, QuietStep, ImportFrame
  <2>5. ASSUME NEW s \in {"acking", "sending"}, Goto(w, s, outbox[w][i]),
               s = "acking" => outbox[w][i] \in receipts
        PROVE  DeliveryInv'
    <3>1. /\ service'[w] = [step |-> s, bundle |-> outbox[w][i]]
          /\ \A v \in Workers \ {w} : service'[v] = service[v]
      BY <2>5 DEF Goto, TypeOK
    <3>2. IsRow(outbox[w][i])'
      BY <2>2, <2>3 DEF IsRow
    <3>3. ServiceSound(w)'
      BY <2>2, <2>3, <2>5, <3>1, <3>2 DEF ServiceSound
    <3>4. RowsNumbered' /\ AckedHasReceipt' /\ OutboxRetained'
      BY <2>3 DEF RowsNumbered, AckedHasReceipt, OutboxRetained, Pending
    <3>5. QED
      BY <2>3, <3>1, <3>3, <3>4, ServiceStep, ImportFrame
  <2>6. QED BY <2>1, <2>4, <2>5
<1>5. CASE Put(w) \/ PutLost(w) \/ Confirm(w) \/ Acknowledge(w) \/ Unlink(w) \/ WorkerCrash(w)
  <2> DEFINE b == service[w].bundle
  <2>1. UNCHANGED <<outbox, receipts>> /\ (import' = import \/ import' = NoImport)
    BY <1>5 DEF Put, PutLost, Confirm, Acknowledge, Unlink, WorkerCrash, canonVars
  <2>2. \A v \in Workers \ {w} : service'[v] = service[v] /\ acked'[v] = acked[v]
    BY <1>5 DEF Put, PutLost, Confirm, Acknowledge, Unlink, WorkerCrash, Goto, TypeOK
  <2>3. service[w] # Idle
    BY <1>5, StepIsActive DEF Put, PutLost, Confirm, Acknowledge, Unlink, WorkerCrash, Steps
  <2>4. b \in Bundle /\ b.worker = w /\ b.seq \in Nat
    BY <2>3, ActiveBundles, BundleFields DEF ServiceSound
  <2>5. ImportSound' /\ RowsNumbered'
    BY <2>1, ImportFrame DEF RowsNumbered
  <2>6. CASE Put(w) \/ PutLost(w) \/ Confirm(w) \/ WorkerCrash(w)
    <3>1. UNCHANGED <<tars, acked>>
      BY <2>6 DEF Put, PutLost, Confirm, WorkerCrash
    <3>2. \/ service'[w] = Idle
          \/ /\ service'[w] = [step |-> "confirming", bundle |-> b]
             /\ service[w].step = "sending"
          \/ /\ service'[w] = [step |-> "acking", bundle |-> b]
             /\ service[w].step = "confirming"
             /\ b \in receipts
      BY <2>6 DEF Put, PutLost, Confirm, WorkerCrash, Goto, TypeOK
    <3>4. ServiceSound(w)'
      <4>1. CASE service'[w] = Idle
        BY <4>1 DEF ServiceSound, Idle
      <4>2. CASE service'[w] # Idle
        <5>1. service'[w].bundle = b /\ IsRow(b)
          BY <3>2, <4>2 DEF ServiceSound
        <5>2. IsRow(b)'
          BY <2>1, <2>4, <5>1 DEF IsRow
        <5>3. QED
          BY <2>1, <2>4, <3>2, <4>2, <5>1, <5>2 DEF ServiceSound
      <4>3. QED BY <4>1, <4>2
    <3>5. AckedHasReceipt' /\ OutboxRetained'
      BY <2>1, <3>1 DEF AckedHasReceipt, OutboxRetained, Pending
    <3>6. QED
      BY <2>1, <2>2, <2>5, <3>1, <3>4, <3>5, ServiceStep
  <2>7. CASE Acknowledge(w)
    <3>1. tars' = tars /\ acked'[w] = acked[w] \cup {b.seq}
      BY <2>7 DEF Acknowledge, TypeOK
    <3>2. service'[w] = [step |-> "unlinking", bundle |-> b]
      BY <2>7 DEF Acknowledge, Goto, TypeOK
    <3>3. IsRow(b) /\ b \in receipts
      BY <2>7 DEF Acknowledge, ServiceSound
    <3>4. IsRow(service[w].bundle)'
      BY <2>1, <2>4, <3>2, <3>3 DEF IsRow
    <3>5. ServiceSound(w)'
      BY <2>4, <3>1, <3>2, <3>4 DEF ServiceSound
    <3>6. AckedHasReceipt'
      BY <2>1, <2>2, <2>4, <3>1, <3>3 DEF AckedHasReceipt, IsRow
    <3>7. OutboxRetained'
      BY <2>1, <2>2, <3>1 DEF OutboxRetained, Pending
    <3>8. QED
      BY <2>1, <2>2, <2>5, <3>1, <3>5, <3>6, <3>7, ServiceStep
  <2>8. CASE Unlink(w)
    <3>1. tars' = tars \ {b} /\ acked' = acked
      BY <2>8 DEF Unlink
    <3>2. service'[w] = Idle
      BY <2>8 DEF Unlink, TypeOK
    <3>3. IsRow(b) /\ b.seq \in acked[w]
      BY <2>8 DEF Unlink, ServiceSound
    <3>4. ServiceSound(w)'
      BY <3>2 DEF ServiceSound, Idle
    <3>5. OutboxRetained'
      <4>1. SUFFICES ASSUME NEW v \in Workers, NEW i \in Pending(v)
                     PROVE  outbox[v][i] # b /\ outbox[v][i] \in tars
        BY <2>1, <3>1 DEF OutboxRetained, Pending
      <4>2. outbox[v][i].worker = v /\ outbox[v][i].seq = i /\ i \notin acked[v]
        BY DEF Pending, RowsNumbered
      <4>3. QED
        BY <2>4, <3>3, <4>2 DEF OutboxRetained
    <3>6. AckedHasReceipt'
      BY <2>1, <3>1 DEF AckedHasReceipt
    <3>7. QED
      BY <2>1, <2>2, <2>4, <2>5, <3>1, <3>4, <3>5, <3>6, ServiceStep
  <2>9. QED BY <1>5, <2>6, <2>7, <2>8
<1>6. CASE Resume(w)
  BY <1>6, QuietStep, ImportFrame DEF Resume, canonVars
<1>7. QED
  BY <1>1, <1>2, <1>3, <1>4, <1>5, <1>6 DEF WorkerNext

(* Every step of an import keeps the invariant. *)
LEMMA ImportKeeps ==
  ASSUME DeliveryInv, TypeOK', [Next]_vars, ImportNext
  PROVE  DeliveryInv'
<1> USE DEF DeliveryInv
<1>1. ASSUME NEW by \in {"merger", "local", "operator"}, NEW b \in Offered(by),
             ImportBegin(by, b)
      PROVE  DeliveryInv'
  <2>1. b \in Bundle /\ b.worker \in Workers /\ b.pages \in SUBSET Pages
    BY OfferedIsBundle, BundleFields
  <2>2. UNCHANGED <<outbox, acked, tars, receipts>>
    BY <1>1 DEF ImportBegin
  <2>3. by = "local" => IsRow(b) /\ service[b.worker] = Idle
    <3>1. SUFFICES ASSUME b \in LocalOffers
                   PROVE  IsRow(b) /\ service[b.worker] = Idle
      BY DEF Offered
    <3>2. PICK w \in LocalWorkers : \E i \in Pending(w) : b = outbox[w][i]
      BY <3>1 DEF LocalOffers
    <3>3. QED
      BY <3>1, <3>2, PendingIsRow, ConstantAssumption DEF LocalOffers, Running, ConstantAssumption
  <2>4. ImportSound'
    <3>1. IsRow(b) => IsRow(b)'
      BY <2>1, <2>2 DEF IsRow
    <3>2. import' = [by |-> by, bundle |-> b, page |-> NoPage,
                     todo |-> {p \in b.pages : canon[p] \notin {"held", "visible"}}]
      BY <1>1 DEF ImportBegin
    <3>3. \A p \in b.pages \ import'.todo : canon'[p] = "visible"
      BY <1>1, <2>1, <3>2 DEF ImportBegin, Reconciled
    <3>4. QED
      BY <2>3, <3>1, <3>2, <3>3 DEF ImportSound
  <2>5. CASE by # "local"
    BY <1>1, <2>2, <2>4, <2>5, QuietStep DEF ImportBegin
  <2>6. CASE by = "local"
    <3>1. /\ service'[b.worker] = [step |-> "importing", bundle |-> b]
          /\ \A v \in Workers \ {b.worker} : service'[v] = service[v]
      BY <1>1, <2>1, <2>6 DEF ImportBegin, Goto, TypeOK
    <3>2. ServiceSound(b.worker)'
      BY <3>1 DEF ServiceSound
    <3>3. RowsNumbered' /\ AckedHasReceipt' /\ OutboxRetained'
      BY <2>2 DEF RowsNumbered, AckedHasReceipt, OutboxRetained, Pending
    <3>4. QED
      BY <2>1, <2>2, <2>4, <3>1, <3>2, <3>3, ServiceStep
  <2>7. QED BY <2>5, <2>6
<1>2. ASSUME NEW by, NEW b, ImportDefer(by, b) \/ ImportRefuse(by, b)
      PROVE  DeliveryInv'
  BY <1>2, QuietStep, ImportFrame DEF ImportDefer, ImportRefuse, workerVars
<1>3. ASSUME NEW p \in Pages, ImportTake(p) PROVE DeliveryInv'
  <2>1. import' = [import EXCEPT !.page = p] /\ import.by # "nobody"
    BY <1>3 DEF ImportTake
  <2>2. /\ import'.by = import.by
        /\ import'.bundle = import.bundle
        /\ import'.todo = import.todo
    BY <2>1, ActiveBundles
  <2>3. UNCHANGED <<outbox, acked, tars, receipts, service, canon>>
    BY <1>3 DEF ImportTake, workerVars
  <2>4. ImportSound'
    BY <2>2, <2>3 DEF ImportSound, IsRow
  <2>5. QED
    BY <2>3, <2>4, QuietStep
<1>4. CASE ImportStage \/ ImportList \/ ImportPublish \/ ImportPromote
  BY <1>4, QuietStep, ImportFrame
     DEF ImportStage, ImportList, ImportPublish, ImportPromote, Advance, workerVars
<1>5. CASE ImportPageDone
  <2>1. /\ import' = [import EXCEPT !.page = NoPage, !.todo = @ \ {import.page}]
        /\ import.page # NoPage
        /\ canon[import.page] = "visible"
    BY <1>5 DEF ImportPageDone
  <2>2. import.by # "nobody"
    BY <2>1 DEF TypeOK, NoImport
  <2>3. /\ import'.by = import.by
        /\ import'.bundle = import.bundle
        /\ import'.todo = import.todo \ {import.page}
    BY <2>1, <2>2, ActiveBundles
  <2>4. UNCHANGED <<outbox, acked, tars, receipts, service, canon>>
    BY <1>5 DEF ImportPageDone, workerVars
  <2>5. ImportSound'
    BY <2>1, <2>2, <2>3, <2>4 DEF ImportSound, IsRow
  <2>6. QED
    BY <2>4, <2>5, QuietStep
<1>6. CASE ImportRecord
  BY <1>6, QuietStep, ImportFrame DEF ImportRecord, workerVars
<1>7. CASE ImportReceipt
  <2> DEFINE b == import.bundle
  <2>1. /\ import.by # "nobody" /\ import.todo = {}
        /\ UNCHANGED <<outbox, acked, tars, canon>>
        /\ receipts' = receipts \cup {b}
        /\ import' = NoImport
    BY <1>7 DEF ImportReceipt, ImportDone
  <2>2. b \in Bundle /\ b.worker \in Workers /\ b.pages \in SUBSET Pages
    BY <2>1, ActiveBundles, BundleFields
  <2>3. ReceiptsVisible'
    BY <2>1, <2>2 DEF ReceiptsVisible, ImportSound
  <2>4. RowsNumbered' /\ AckedHasReceipt' /\ OutboxRetained'
    BY <2>1 DEF RowsNumbered, AckedHasReceipt, OutboxRetained, Pending
  <2>5. ImportSound'
    BY <2>1 DEF ImportSound, NoImport
  <2>6. ASSUME NEW w \in Workers PROVE ServiceSound(w)'
    <3>1. CASE service'[w] = service[w]
      BY <2>1, <3>1, ServiceFrame
    <3>2. CASE service'[w] # service[w]
      <4>1. /\ import.by = "local"
            /\ w = b.worker
            /\ service'[w] = [step |-> "acking", bundle |-> b]
        BY <1>7, <2>2, <3>2 DEF ImportReceipt, Goto, TypeOK
      <4>2. IsRow(b)
        BY <2>1, <4>1 DEF ImportSound
      <4>3. IsRow(service[w].bundle)'
        BY <2>1, <2>2, <4>1, <4>2 DEF IsRow
      <4>4. QED
        BY <2>1, <4>1, <4>3 DEF ServiceSound
    <3>3. QED BY <3>1, <3>2
  <2>7. QED
    BY <2>3, <2>4, <2>5, <2>6
<1>8. ASSUME NEW b \in incoming, MergerTidy(b) PROVE DeliveryInv'
  BY <1>8, QuietStep, ImportFrame DEF MergerTidy, workerVars, canonVars
<1>9. CASE ImportFault
  <2>1. UNCHANGED <<outbox, acked, tars, receipts, canon>> /\ import' = NoImport
    BY <1>9 DEF ImportFault
  <2>2. ImportSound'
    BY <2>1, ImportFrame
  <2>3. RowsNumbered' /\ AckedHasReceipt' /\ OutboxRetained' /\ ReceiptsVisible'
    BY <2>1 DEF RowsNumbered, AckedHasReceipt, OutboxRetained, Pending, ReceiptsVisible
  <2>4. ASSUME NEW w \in Workers PROVE ServiceSound(w)'
    <3>1. service'[w] = Idle \/ service'[w] = service[w]
      BY <1>9 DEF ImportFault
    <3>2. CASE service'[w] = Idle
      BY <3>2 DEF ServiceSound, Idle
    <3>3. CASE service'[w] = service[w]
      BY <2>1, <3>3, ServiceFrame
    <3>4. QED BY <3>1, <3>2, <3>3
  <2>5. QED
    BY <2>2, <2>3, <2>4
<1>10. CASE ImporterCrash
  BY <1>10, QuietStep, ImportFrame DEF ImporterCrash, workerVars
<1>11. QED
  BY <1>1, <1>2, <1>3, <1>4, <1>5, <1>6, <1>7, <1>8, <1>9, <1>10 DEF ImportNext

LEMMA DeliveryInit == Init => DeliveryInv
<1>1. Init => TypeOK
  BY ConstantAssumption, NoBundleAssumption DEF Init, TypeOK, Progress
<1>2. QED
  BY <1>1 DEF Init, DeliveryInv, RowsNumbered, ServiceSound, Idle, ImportSound,
     NoImport, ReceiptsVisible, AckedHasReceipt, OutboxRetained, Pending

LEMMA DeliveryStep == DeliveryInv /\ [Next]_vars => DeliveryInv'
<1> SUFFICES ASSUME DeliveryInv, [Next]_vars PROVE DeliveryInv'
  OBVIOUS
<1>1. TypeOK'
  BY TypeStep, ConstantAssumption, NoBundleAssumption DEF DeliveryInv
<1>2. CASE \E w \in Workers : WorkerNext(w)
  BY <1>1, <1>2, WorkerKeeps
<1>3. CASE ImportNext
  BY <1>1, <1>3, ImportKeeps
<1>4. CASE UNCHANGED vars
  BY <1>1, <1>4, QuietStep, ImportFrame DEF vars
<1>5. QED
  BY <1>2, <1>3, <1>4 DEF Next

LEMMA DeliveryInvariant == Spec => []DeliveryInv
BY DeliveryInit, DeliveryStep, PTL DEF Spec

(* A worker that deletes its transfer copy after the acknowledgement can    *)
(* rely on the canonical lake: all pages of an acknowledged bundle are      *)
(* visible there, whatever crashed, failed or was carried by hand before.   *)
THEOREM AckedSafe == Spec => []AckedIsCanonical
<1>1. DeliveryInv => AckedIsCanonical
  BY DEF DeliveryInv, AckedIsCanonical, AckedHasReceipt, ReceiptsVisible
<1>2. QED
  BY <1>1, DeliveryInvariant, PTL

(* The file of a row that is not acknowledged is never removed. *)
THEOREM OutboxSafe == Spec => []OutboxRetained
<1>1. DeliveryInv => OutboxRetained
  BY DEF DeliveryInv
<1>2. QED
  BY <1>1, DeliveryInvariant, PTL

-----------------------------------------------------------------------------
(* The delivery implements the safety part of ResultLedger, as long as a    *)
(* courier carries only what the outbox has.                               *)

(* Whatever is on its way to the canonical side is a row of its worker. *)
IncomingAreRows == \A b \in incoming : IsRow(b)

(* What is imported is in the ledger already or the next to come. *)
ImportInTurn ==
    import.by # "nobody" =>
        /\ IsRow(import.bundle)
        /\ IsMerged(import.bundle) \/ import.bundle.seq = Last(import.bundle.worker) + 1

LedgerIsPrefix ==
    \A w \in Workers :
        /\ Len(ledger[w]) <= Len(outbox[w])
        /\ \A i \in 1..Len(ledger[w]) : ledger[w][i] = outbox[w][i]

ReceiptsAreMerged == \A b \in receipts : IsMerged(b)

(* An export under way repeats no page of an earlier row. *)
ExportsAreNew ==
    \A w \in Workers : service[w].step = "exporting" =>
        \A i \in 1..Len(outbox[w]) : outbox[w][i].pages \cap service[w].bundle.pages = {}

HandOverInv ==
    /\ ~CourierReadsDirectory
    /\ DeliveryInv
    /\ IncomingAreRows
    /\ ImportInTurn
    /\ LedgerIsPrefix
    /\ ReceiptsAreMerged
    /\ ExportsAreNew

-----------------------------------------------------------------------------
(* Who changes what *)

LEMMA WhoChanges ==
    ASSUME [Next]_vars
    PROVE  /\ outbox' = outbox \/ \E w \in Workers : ExportCommit(w)
           /\ ledger' = ledger \/ ImportRecord
           /\ acked' = acked \/ \E w \in Workers : Acknowledge(w)
           /\ receipts' = receipts \/ ImportReceipt
           /\ incoming' \subseteq incoming
                \/ \E w \in Workers : /\ service[w].step = "sending"
                                      /\ incoming' = incoming \cup {service[w].bundle}
<1> USE DEF vars, canonVars, workerVars
<1>1. ASSUME NEW w \in Workers, WorkerNext(w)
      PROVE  /\ outbox' = outbox \/ ExportCommit(w)
             /\ ledger' = ledger /\ receipts' = receipts
             /\ acked' = acked \/ Acknowledge(w)
             /\ incoming' \subseteq incoming
                  \/ /\ service[w].step = "sending"
                     /\ incoming' = incoming \cup {service[w].bundle}
  BY <1>1 DEF WorkerNext, Publish, ExportWrite, ExportCommit, Poll, Put, PutLost, Confirm,
              Acknowledge, Unlink, Resume, WorkerCrash
<1>2. ASSUME ImportNext
      PROVE  /\ outbox' = outbox /\ acked' = acked
             /\ ledger' = ledger \/ ImportRecord
             /\ receipts' = receipts \/ ImportReceipt
             /\ incoming' \subseteq incoming
  BY <1>2 DEF ImportNext, ImportBegin, ImportDefer, ImportRefuse, ImportTake, Advance,
              ImportStage, ImportList, ImportPublish, ImportPromote, ImportPageDone,
              ImportRecord, ImportReceipt, MergerTidy, ImportFault, ImporterCrash
<1> QED BY <1>1, <1>2 DEF Next

LEMMA WhoImports ==
    ASSUME TypeOK, [Next]_vars, import'.by # "nobody"
    PROVE  \/ import.by # "nobody" /\ import'.bundle = import.bundle
           \/ \E by \in {"merger", "local", "operator"} : \E b \in Offered(by) :
                ImportBegin(by, b) /\ import'.bundle = b
<1> USE DEF vars, canonVars, workerVars
<1>1. CASE import' = import
  BY <1>1
<1>2. ASSUME NEW w \in Workers, WorkerNext(w) PROVE import' = import
  BY <1>2 DEF WorkerNext, Publish, ExportWrite, ExportCommit, Poll, Put, PutLost, Confirm,
              Acknowledge, Unlink, Resume, WorkerCrash, NoImport
<1>3. CASE import' # import /\ ImportNext
  <2>1. ASSUME NEW by, NEW b, ImportBegin(by, b) PROVE import'.bundle = b
    BY <2>1 DEF ImportBegin
  <2>2. ASSUME NEW p \in Pages, ImportTake(p) PROVE import.by # "nobody" /\ import'.bundle = import.bundle
    BY <2>2, ActiveBundles DEF ImportTake
  <2>3. CASE ImportPageDone
    <3>1. import # NoImport
      BY <2>3 DEF ImportPageDone, NoImport
    <3> QED BY <2>3, <3>1, ActiveBundles DEF ImportPageDone, TypeOK, Importers
  <2> QED
    BY <1>3, <2>1, <2>2, <2>3
    DEF ImportNext, ImportDefer, ImportRefuse, Advance, ImportStage, ImportList,
        ImportPublish, ImportPromote, ImportRecord, ImportReceipt, MergerTidy, ImportFault,
        ImporterCrash, NoImport
<1> QED BY <1>1, <1>2, <1>3 DEF Next

(* Rows are only added, and what is merged stays so. *)
LEMMA RowsStay ==
    ASSUME DeliveryInv, [Next]_vars, NEW w \in Workers
    PROVE  /\ Len(outbox[w]) <= Len(outbox'[w])
           /\ \A i \in 1..Len(outbox[w]) : outbox'[w][i] = outbox[w][i]
           /\ Len(ledger[w]) <= Len(ledger'[w])
           /\ \A i \in 1..Len(ledger[w]) : ledger'[w][i] = ledger[w][i]
<1>0. /\ outbox \in [Workers -> Seq(Bundle)] /\ ledger \in [Workers -> Seq(Bundle)]
      /\ outbox[w] \in Seq(Bundle) /\ ledger[w] \in Seq(Bundle)
      /\ Len(outbox[w]) \in Nat /\ Len(ledger[w]) \in Nat
  BY DEF DeliveryInv, TypeOK
<1>1. ASSUME NEW v \in Workers, ExportCommit(v)
      PROVE  \/ outbox'[w] = outbox[w]
             \/ \E b \in Bundle : outbox'[w] = Append(outbox[w], b)
  <2>1. service[v].bundle \in Bundle
    BY <1>1, ActiveBundles, StepIsActive DEF DeliveryInv, ExportCommit, Steps
  <2> QED BY <1>0, <1>1, <2>1 DEF ExportCommit
<1>2. ASSUME ImportRecord
      PROVE  \/ ledger'[w] = ledger[w]
             \/ \E b \in Bundle : ledger'[w] = Append(ledger[w], b)
  <2>1. import.bundle \in Bundle
    BY <1>2, ActiveBundles DEF DeliveryInv, ImportRecord, ImportDone
  <2> QED BY <1>0, <1>2, <2>1 DEF ImportRecord
<1>3. ASSUME NEW s \in Seq(Bundle), NEW b \in Bundle
      PROVE  Len(s) <= Len(Append(s, b)) /\ \A i \in 1..Len(s) : Append(s, b)[i] = s[i]
  BY AppendProperties
<1>4. \/ outbox'[w] = outbox[w]
      \/ \E b \in Bundle : outbox'[w] = Append(outbox[w], b)
  BY <1>1, WhoChanges
<1>5. \/ ledger'[w] = ledger[w]
      \/ \E b \in Bundle : ledger'[w] = Append(ledger[w], b)
  BY <1>2, WhoChanges
<1>6. /\ Len(outbox[w]) <= Len(outbox'[w])
      /\ \A i \in 1..Len(outbox[w]) : outbox'[w][i] = outbox[w][i]
  <2>1. ASSUME NEW b \in Bundle, outbox'[w] = Append(outbox[w], b)
        PROVE  /\ Len(outbox[w]) <= Len(outbox'[w])
               /\ \A i \in 1..Len(outbox[w]) : outbox'[w][i] = outbox[w][i]
    BY <1>0, <1>3, <2>1
  <2>2. CASE outbox'[w] = outbox[w]
    BY <1>0, <2>2
  <2> QED BY <1>4, <2>1, <2>2
<1>7. /\ Len(ledger[w]) <= Len(ledger'[w])
      /\ \A i \in 1..Len(ledger[w]) : ledger'[w][i] = ledger[w][i]
  <2>1. ASSUME NEW b \in Bundle, ledger'[w] = Append(ledger[w], b)
        PROVE  /\ Len(ledger[w]) <= Len(ledger'[w])
               /\ \A i \in 1..Len(ledger[w]) : ledger'[w][i] = ledger[w][i]
    BY <1>0, <1>3, <2>1
  <2>2. CASE ledger'[w] = ledger[w]
    BY <1>0, <2>2
  <2> QED BY <1>5, <2>1, <2>2
<1> QED BY <1>6, <1>7

LEMMA IsRowStays ==
    ASSUME DeliveryInv, TypeOK', [Next]_vars, NEW b \in Bundle
    PROVE  /\ IsRow(b) => IsRow(b)'
           /\ IsMerged(b) => IsMerged(b)'
<1>1. b.worker \in Workers
  BY BundleFields
<1>2. /\ Len(outbox[b.worker]) \in Nat /\ Len(outbox'[b.worker]) \in Nat
      /\ Len(ledger[b.worker]) \in Nat /\ Len(ledger'[b.worker]) \in Nat
  BY <1>1 DEF DeliveryInv, TypeOK
<1> QED BY <1>1, <1>2, RowsStay DEF IsRow, IsMerged

-----------------------------------------------------------------------------
(* Rows on their way *)

LEMMA IncomingStep ==
    ASSUME HandOverInv, TypeOK', [Next]_vars
    PROVE  IncomingAreRows'
<1> SUFFICES ASSUME NEW b \in incoming' PROVE IsRow(b)'
  BY DEF IncomingAreRows
<1>1. IsRow(b) /\ b \in Bundle
  <2>1. CASE b \in incoming
    BY <2>1 DEF HandOverInv, DeliveryInv, TypeOK, IncomingAreRows
  <2>2. CASE b \notin incoming
    <3>1. PICK w \in Workers : service[w].step = "sending" /\ b = service[w].bundle
      BY <2>2, WhoChanges
    <3> QED BY <3>1, ActiveBundles, StepIsActive
            DEF HandOverInv, DeliveryInv, ServiceSound, Steps
  <2> QED BY <2>1, <2>2
<1> QED BY <1>1, IsRowStays DEF HandOverInv

(* Whoever offers a bundle offers a row. *)
LEMMA OfferedAreRows ==
    ASSUME HandOverInv, NEW by \in {"merger", "local", "operator"}, NEW b \in Offered(by)
    PROVE  IsRow(b)
<1> USE DEF HandOverInv, DeliveryInv
<1>1. CASE by = "merger"
  BY <1>1 DEF Offered, MergerOffers, IncomingAreRows
<1>2. CASE by = "local"
  <2>1. PICK w \in LocalWorkers : \E i \in Pending(w) : b = outbox[w][i]
    BY <1>2 DEF Offered, LocalOffers
  <2> QED BY <2>1, ConstantAssumption, PendingIsRow
<1>3. CASE by = "operator"
  <2>1. /\ b \in tars
        /\ \E i \in 1..Len(outbox[b.worker]) : outbox[b.worker][i] = b
    BY <1>3 DEF Offered, OperatorOffers
  <2> QED BY <2>1, BundleFields DEF TypeOK, RowsNumbered, IsRow
<1> QED BY <1>1, <1>2, <1>3

LEMMA TurnStep ==
    ASSUME HandOverInv, TypeOK', [Next]_vars
    PROVE  ImportInTurn'
<1> SUFFICES ASSUME NEW b, b = import'.bundle, import'.by # "nobody"
             PROVE  IsRow(b)' /\ (IsMerged(b)' \/ b.seq = Last(b.worker)' + 1)
  BY DEF ImportInTurn, IsRow, IsMerged, Last
<1>0. TypeOK /\ DeliveryInv
  BY DEF HandOverInv, DeliveryInv
<1>1. CASE import.by # "nobody" /\ b = import.bundle
  <2>1. b \in Bundle /\ b.worker \in Workers
    BY <1>0, <1>1, ActiveBundles, BundleFields
  <2>2. IsRow(b) /\ (IsMerged(b) \/ b.seq = Last(b.worker) + 1)
    BY <1>1 DEF HandOverInv, ImportInTurn
  <2>3. CASE ImportRecord
    <3>1. ledger[b.worker] \in Seq(Bundle) /\ ledger'[b.worker] = Append(ledger[b.worker], b)
      BY <1>0, <2>1, <2>3 DEF ImportRecord, TypeOK
    <3>2. /\ Len(ledger[b.worker]) \in Nat
          /\ Len(ledger'[b.worker]) = Len(ledger[b.worker]) + 1
          /\ ledger'[b.worker][Len(ledger[b.worker]) + 1] = b
      BY <2>1, <3>1, AppendProperties
    <3>3. IsMerged(b)'
      BY <3>2 DEF IsMerged
    <3> QED BY <1>0, <2>1, <2>2, <3>3, IsRowStays
  <2>4. CASE ledger' = ledger
    BY <1>0, <2>1, <2>2, <2>4, IsRowStays DEF IsMerged, Last
  <2> QED BY <2>3, <2>4, WhoChanges
<1>2. ASSUME NEW by \in {"merger", "local", "operator"}, b \in Offered(by),
             ImportBegin(by, b)
      PROVE  IsRow(b)' /\ (IsMerged(b)' \/ b.seq = Last(b.worker)' + 1)
  <2>1. b \in Bundle /\ b.worker \in Workers /\ b.seq \in Nat /\ IsRow(b)
    BY <1>0, <1>2, OfferedIsBundle, OfferedAreRows, BundleFields
  <2>2. IsMerged(b) \/ b.seq = Last(b.worker) + 1
    <3>1. Last(b.worker) \in Nat
      BY <1>0, <2>1 DEF TypeOK, Last
    <3> QED BY <1>2, <2>1, <3>1 DEF ImportBegin, MustWait, MustRefuse
  <2>3. ledger' = ledger
    BY <1>2 DEF ImportBegin
  <2> QED BY <1>0, <2>1, <2>2, <2>3, IsRowStays DEF IsMerged, Last
<1> QED BY <1>0, <1>1, <1>2, WhoImports

LEMMA PrefixStep ==
    ASSUME HandOverInv, TypeOK', [Next]_vars
    PROVE  LedgerIsPrefix'
<1> SUFFICES ASSUME NEW w \in Workers
             PROVE  /\ Len(ledger'[w]) <= Len(outbox'[w])
                    /\ \A i \in 1..Len(ledger'[w]) : ledger'[w][i] = outbox'[w][i]
  BY DEF LedgerIsPrefix
<1>0. /\ DeliveryInv /\ TypeOK
      /\ ledger \in [Workers -> Seq(Bundle)] /\ ledger[w] \in Seq(Bundle)
      /\ Len(outbox[w]) \in Nat /\ Len(outbox'[w]) \in Nat /\ Len(ledger[w]) \in Nat
  BY DEF HandOverInv, DeliveryInv, TypeOK
<1>1. /\ Len(ledger[w]) <= Len(outbox[w])
      /\ \A i \in 1..Len(ledger[w]) : ledger[w][i] = outbox[w][i]
  BY DEF HandOverInv, LedgerIsPrefix
<1>2. CASE ledger'[w] = ledger[w]
  BY <1>0, <1>1, <1>2, RowsStay
<1>3. CASE ImportRecord /\ ledger'[w] # ledger[w]
  <2> DEFINE b == import.bundle
  <2>1. /\ b \in Bundle /\ b.worker = w /\ ledger'[w] = Append(ledger[w], b)
        /\ outbox' = outbox
    BY <1>0, <1>3, ActiveBundles, BundleFields DEF ImportRecord, ImportDone, workerVars
  <2>2. IsRow(b) /\ b.seq = Len(ledger[w]) + 1
    BY <1>3, <2>1 DEF ImportRecord, ImportDone, HandOverInv, ImportInTurn, Last
  <2>3. /\ Len(ledger'[w]) = Len(ledger[w]) + 1
        /\ \A i \in 1..Len(ledger[w]) : ledger'[w][i] = ledger[w][i]
        /\ ledger'[w][Len(ledger[w]) + 1] = b
    BY <1>0, <2>1, AppendProperties
  <2>4. outbox[w][Len(ledger[w]) + 1] = b /\ Len(ledger[w]) + 1 <= Len(outbox[w])
    BY <1>0, <2>1, <2>2 DEF IsRow
  <2> QED BY <1>0, <1>1, <2>1, <2>3, <2>4
<1> QED BY <1>2, <1>3, WhoChanges

LEMMA MergedStep ==
    ASSUME HandOverInv, TypeOK', [Next]_vars
    PROVE  ReceiptsAreMerged'
<1> SUFFICES ASSUME NEW b \in receipts' PROVE IsMerged(b)'
  BY DEF ReceiptsAreMerged
<1>1. b \in Bundle
  BY DEF TypeOK
<1>2. IsMerged(b)
  <2>1. CASE b \in receipts
    BY <2>1 DEF HandOverInv, ReceiptsAreMerged
  <2>2. CASE b \notin receipts
    BY <2>2, WhoChanges DEF ImportReceipt
  <2> QED BY <2>1, <2>2
<1> QED BY <1>1, <1>2, IsRowStays DEF HandOverInv

(* What is selected for an export has not been exported. *)
LEMMA SelectionIsNew ==
    ASSUME NEW w \in Workers, NEW n, NEW i \in 1..Len(outbox[w])
    PROVE  outbox[w][i].pages \cap Selection(w, n) = {}
<1>1. \A p \in Selection(w, n) : p \notin PagesIn(outbox[w])
  BY DEF Selection, Candidates
<1>2. outbox[w][i].pages \subseteq PagesIn(outbox[w])
  BY DEF PagesIn
<1> QED BY <1>1, <1>2

(* While a worker exports, it adds no row. *)
LEMMA ExportFrame ==
    ASSUME DeliveryInv, [Next]_vars, NEW w \in Workers, service'[w].step = "exporting"
    PROVE  \/ ExportWrite(w)
           \/ service'[w] = service[w] /\ outbox'[w] = outbox[w]
<1> USE DEF vars, canonVars, workerVars
<1>0. TypeOK /\ service \in [Workers -> {Idle} \cup [step : Steps \ {"idle"}, bundle : Bundle]]
      /\ outbox \in [Workers -> Seq(Bundle)]
  BY DEF DeliveryInv, TypeOK
<1>1. service'[w] = service[w] \/ ExportWrite(w)
  <2>1. ASSUME NEW v \in Workers, WorkerNext(v), ~ExportWrite(v)
        PROVE  service'[w] = service[w]
    BY <1>0, <2>1
    DEF WorkerNext, Publish, ExportCommit, Poll, Goto, Put, PutLost, Confirm, Acknowledge,
        Unlink, Resume, WorkerCrash, Idle
  <2>2. ASSUME NEW v \in Workers, ExportWrite(v), v # w PROVE service'[w] = service[w]
    BY <1>0, <2>2 DEF ExportWrite
  <2>3. ASSUME ImportNext PROVE service'[w] = service[w]
    <3>1. ASSUME NEW v, NEW step \in {"importing", "acking"}, NEW b, Goto(v, step, b)
          PROVE  service'[w] = service[w]
      BY <1>0, <3>1 DEF Goto
    <3>2. ASSUME NEW by, NEW b, ImportBegin(by, b) PROVE service'[w] = service[w]
      BY <3>1, <3>2 DEF ImportBegin
    <3>3. CASE ImportReceipt
      BY <3>1, <3>3 DEF ImportReceipt
    <3>4. CASE ImportFault
      BY <1>0, <3>4 DEF ImportFault, Idle
    <3> QED
      BY <2>3, <3>2, <3>3, <3>4
      DEF ImportNext, ImportDefer, ImportRefuse, ImportTake, Advance, ImportStage, ImportList,
          ImportPublish, ImportPromote, ImportPageDone, ImportRecord, MergerTidy, ImporterCrash
  <2> QED BY <2>1, <2>2, <2>3 DEF Next
<1>2. CASE service'[w] = service[w]
  <2>1. ASSUME NEW v \in Workers, ExportCommit(v) PROVE outbox'[w] = outbox[w]
    <3>1. v # w
      BY <1>0, <1>2, <2>1 DEF ExportCommit, Idle
    <3> QED BY <1>0, <2>1, <3>1 DEF ExportCommit
  <2> QED BY <1>2, <2>1, WhoChanges
<1> QED BY <1>1, <1>2

(* What an export writes is a selection; the rows stay. *)
LEMMA ExportWrites ==
    ASSUME TypeOK, NEW w \in Workers, ExportWrite(w)
    PROVE  /\ \E n \in Nat : service'[w].bundle.pages = Selection(w, n)
           /\ outbox' = outbox
<1>1. PICK n \in SelectionSizes(w) :
        service' = [service EXCEPT ![w] = [step |-> "exporting", bundle |->
            [worker |-> w, seq |-> Len(outbox[w]) + 1,
             attempt |-> attempts[w] + 1, pages |-> Selection(w, n)]]]
  BY DEF ExportWrite
<1>2. service'[w].bundle.pages = Selection(w, n)
  BY <1>1 DEF TypeOK
<1>3. n \in Nat
  BY ConstantAssumption DEF SelectionSizes
<1> QED BY <1>2, <1>3 DEF ExportWrite

LEMMA ExportsStep ==
    ASSUME HandOverInv, TypeOK', [Next]_vars
    PROVE  ExportsAreNew'
<1> SUFFICES ASSUME NEW w \in Workers, service'[w].step = "exporting"
             PROVE  \A i \in 1..Len(outbox'[w]) :
                        outbox'[w][i].pages \cap service'[w].bundle.pages = {}
  BY DEF ExportsAreNew
<1>1. CASE service'[w] = service[w] /\ outbox'[w] = outbox[w]
  BY <1>1 DEF HandOverInv, ExportsAreNew
<1>2. CASE ExportWrite(w)
  BY <1>2, ExportWrites, SelectionIsNew DEF HandOverInv, DeliveryInv
<1> QED BY <1>1, <1>2, ExportFrame DEF HandOverInv

-----------------------------------------------------------------------------
LEMMA HandOverInit == ~CourierReadsDirectory /\ Init => HandOverInv
<1> SUFFICES ASSUME ~CourierReadsDirectory, Init PROVE HandOverInv
  OBVIOUS
<1>1. DeliveryInv
  BY DeliveryInit
<1> QED BY <1>1
        DEF Init, HandOverInv, IncomingAreRows, ImportInTurn, NoImport, LedgerIsPrefix,
            ReceiptsAreMerged, ExportsAreNew, Idle

LEMMA HandOverStep == HandOverInv /\ [Next]_vars => HandOverInv'
<1> SUFFICES ASSUME HandOverInv, [Next]_vars PROVE HandOverInv'
  OBVIOUS
<1>1. DeliveryInv' /\ TypeOK'
  BY DeliveryStep DEF HandOverInv, DeliveryInv
<1>2. (~CourierReadsDirectory)'
  BY DEF HandOverInv
<1> QED BY <1>1, <1>2, IncomingStep, TurnStep, PrefixStep, MergedStep, ExportsStep
        DEF HandOverInv

-----------------------------------------------------------------------------
(* The step of ResultLedger that a step of TdxDelivery is *)

LEMMA ExportIsExport ==
    ASSUME HandOverInv, NEW w \in Workers, ExportCommit(w)
    PROVE  Ledger!Export(w)
<1> DEFINE b == service[w].bundle
<1>0. /\ outbox \in [Workers -> Seq(Bundle)] /\ outbox[w] \in Seq(Bundle)
      /\ Len(outbox[w]) \in Nat
  BY DEF HandOverInv, DeliveryInv, TypeOK
<1>1. b \in Bundle
  BY ActiveBundles, StepIsActive DEF HandOverInv, DeliveryInv, ExportCommit, Steps
<1>2. /\ outbox'[w] = Append(outbox[w], b)
      /\ \A v \in Workers \ {w} : outbox'[v] = outbox[v]
      /\ UNCHANGED <<ledger, acked>>
  BY <1>0 DEF ExportCommit, canonVars
<1> HIDE DEF b
<1>3. /\ Len(outbox'[w]) = Len(outbox[w]) + 1
      /\ outbox'[w][Len(outbox[w]) + 1] = b
      /\ \A i \in 1..Len(outbox[w]) : outbox'[w][i] = outbox[w][i]
      /\ outbox'[w] \in Seq(Bundle)
  BY <1>0, <1>1, <1>2, AppendProperties
<1>4. SubSeq(outbox'[w], 1, Len(outbox[w])) = outbox[w]
  BY <1>0, <1>3
<1>5. \A i \in 1..Len(outbox[w]) : outbox[w][i].pages \cap b.pages = {}
  BY DEF HandOverInv, ExportsAreNew, ExportCommit, b
<1> QED BY <1>2, <1>3, <1>4, <1>5 DEF Ledger!Export

LEMMA RecordIsMerge ==
    ASSUME HandOverInv, ImportRecord
    PROVE  \E w \in Workers : Ledger!Merge(w)
<1> DEFINE b == import.bundle
           w == b.worker
<1>1. b \in Bundle /\ w \in Workers /\ Len(ledger[w]) \in Nat
  BY ActiveBundles, BundleFields DEF HandOverInv, DeliveryInv, TypeOK, ImportRecord, ImportDone
<1>2. IsRow(b) /\ b.seq = Len(ledger[w]) + 1
  BY DEF HandOverInv, ImportInTurn, ImportRecord, ImportDone, Last
<1>3. /\ Len(ledger[w]) < Len(outbox[w])
      /\ outbox[w][Len(ledger[w]) + 1] = b
  BY <1>1, <1>2 DEF IsRow
<1>4. /\ ledger' = [ledger EXCEPT ![w] = Append(@, outbox[w][Len(@) + 1])]
      /\ UNCHANGED <<outbox, acked>>
  BY <1>3 DEF ImportRecord, workerVars
<1> QED BY <1>1, <1>3, <1>4 DEF Ledger!Merge

(* What a worker knows to be merged is in the ledger. *)
AckedAreMerged == \A w \in Workers : acked[w] \subseteq 1..Len(ledger[w])

LEMMA AckedInLedger == HandOverInv => AckedAreMerged
<1> SUFFICES ASSUME HandOverInv, NEW w \in Workers, NEW i \in acked[w]
             PROVE  i \in 1..Len(ledger[w])
  BY DEF AckedAreMerged
<1>1. i \in 1..Len(outbox[w]) /\ outbox[w][i] \in receipts
  BY DEF HandOverInv, DeliveryInv, AckedHasReceipt
<1>2. outbox[w][i].worker = w /\ outbox[w][i].seq = i
  BY <1>1 DEF HandOverInv, DeliveryInv, RowsNumbered
<1>3. PICK k \in 1..Len(ledger[w]) : ledger[w][k] = outbox[w][i]
  BY <1>1, <1>2 DEF HandOverInv, ReceiptsAreMerged, IsMerged
<1>4. Len(ledger[w]) \in Nat /\ Len(outbox[w]) \in Nat
  BY DEF HandOverInv, DeliveryInv, TypeOK
<1>5. ledger[w][k] = outbox[w][k] /\ k \in 1..Len(outbox[w])
  BY <1>4 DEF HandOverInv, LedgerIsPrefix
<1>6. outbox[w][k].seq = k
  BY <1>5 DEF HandOverInv, DeliveryInv, RowsNumbered
<1> QED BY <1>2, <1>3, <1>5, <1>6

LEMMA AcknowledgeIsConfirm ==
    ASSUME HandOverInv, HandOverInv', NEW w \in Workers, Acknowledge(w)
    PROVE  Ledger!Confirm(w) \/ UNCHANGED Ledger!vars
<1> DEFINE seq == service[w].bundle.seq
           Confirmed == [v \in Workers |-> Cardinality(acked[v])]
<1>1. /\ acked \in [Workers -> SUBSET Nat] /\ Len(ledger[w]) \in Nat
      /\ acked' = [acked EXCEPT ![w] = @ \cup {seq}]
      /\ UNCHANGED <<outbox, ledger>>
  BY DEF HandOverInv, DeliveryInv, TypeOK, Acknowledge, canonVars
<1> HIDE DEF seq
<1>2. acked[w] \subseteq 1..Len(ledger[w])
  BY AckedInLedger DEF AckedAreMerged
<1>3. acked'[w] \subseteq 1..Len(ledger[w])
  <2>1. (HandOverInv => AckedAreMerged)'
    BY AckedInLedger, PTL
  <2> QED BY <1>1, <2>1 DEF AckedAreMerged
<1>4. /\ IsFiniteSet(1..Len(ledger[w])) /\ Cardinality(1..Len(ledger[w])) = Len(ledger[w])
  BY <1>1, FS_Interval
<1>5. /\ IsFiniteSet(acked[w])
      /\ Cardinality(acked'[w]) <= Len(ledger[w])
      /\ Cardinality(acked[w]) \in Nat
  BY <1>2, <1>3, <1>4, FS_Subset, FS_CardinalityType
<1>6. CASE seq \in acked[w]
  <2>1. acked' = acked
    BY <1>1, <1>6
  <2> QED BY <1>1, <2>1 DEF Ledger!vars
<1>7. CASE seq \notin acked[w]
  <2>1. Cardinality(acked'[w]) = Cardinality(acked[w]) + 1
    BY <1>1, <1>5, <1>7, FS_AddElement
  <2>2. [v \in Workers |-> Cardinality(acked'[v])] =
          [[v \in Workers |-> Cardinality(acked[v])] EXCEPT ![w] = @ + 1]
    BY <1>1, <2>1
  <2> QED BY <1>1, <1>5, <2>1, <2>2 DEF Ledger!Confirm
<1> QED BY <1>6, <1>7

LEMMA EveryStep ==
    HandOverInv /\ HandOverInv' /\ [Next]_vars => [Ledger!Next]_(Ledger!vars)
<1> SUFFICES ASSUME HandOverInv, HandOverInv', [Next]_vars
             PROVE  [Ledger!Next]_(Ledger!vars)
  OBVIOUS
<1>1. CASE UNCHANGED <<outbox, ledger, acked>>
  BY <1>1 DEF Ledger!vars
<1>2. ASSUME NEW w \in Workers, ExportCommit(w) PROVE [Ledger!Next]_(Ledger!vars)
  BY <1>2, ExportIsExport DEF Ledger!Next
<1>3. CASE ImportRecord
  BY <1>3, RecordIsMerge DEF Ledger!Next
<1>4. ASSUME NEW w \in Workers, Acknowledge(w) PROVE [Ledger!Next]_(Ledger!vars)
  BY <1>4, AcknowledgeIsConfirm DEF Ledger!Next
<1> QED BY <1>1, <1>2, <1>3, <1>4, WhoChanges

LEMMA InitIsInit == Init => Ledger!Init
<1>1. Init => [w \in Workers |-> Cardinality(acked[w])] = [w \in Workers |-> 0]
  BY FS_EmptySet DEF Init
<1> QED BY <1>1 DEF Init, Ledger!Init

-----------------------------------------------------------------------------

(* The delivery hands over as ResultLedger says: with uploads, lost answers,*)
(* hand-carried rows, local workers, crashes and faults in any number, the  *)
(* ledger takes the bundles of a worker in the order of its outbox, each    *)
(* once, before the worker regards it as delivered, and no page is exported *)
(* twice (export_results, deliver_pending and import_results together).     *)
THEOREM HandOverSafe == ~CourierReadsDirectory => (Spec => Ledger!Spec)
<1>1. ~CourierReadsDirectory /\ Init => HandOverInv
  BY HandOverInit
<1>2. HandOverInv /\ [Next]_vars => HandOverInv'
  BY HandOverStep
<1>3. HandOverInv /\ HandOverInv' /\ [Next]_vars => [Ledger!Next]_(Ledger!vars)
  BY EveryStep
<1> QED BY <1>1, <1>2, <1>3, InitIsInit, PTL DEF Spec, Ledger!Spec

-----------------------------------------------------------------------------
(* Chains *)

(* A page is published after the page it continues. *)
PublishedInOrder ==
    \A w \in Workers : \A j \in 1..Len(published[w]) :
        Prev[published[w][j]] # NoPage =>
            \E k \in 1..j : k # j /\ published[w][k] = Prev[published[w][j]]

(* The page that p continues is in a row up to the i-th of w, or among pages. *)
Covered(w, i, pages, p) ==
    Prev[p] # NoPage => Prev[p] \in pages \/ \E k \in 1..i : Prev[p] \in outbox[w][k].pages

RowsClosed ==
    \A w \in Workers : \A i \in 1..Len(outbox[w]) : \A p \in outbox[w][i].pages :
        Covered(w, i, {}, p)

ExportsClosed ==
    \A w \in Workers : service[w].step = "exporting" =>
        \A p \in service[w].bundle.pages :
            Covered(w, Len(outbox[w]), service[w].bundle.pages, p)

LedgerVisible ==
    \A w \in Workers : \A i \in 1..Len(ledger[w]) : \A p \in ledger[w][i].pages :
        canon[p] = "visible"

ChainInv ==
    /\ HandOverInv
    /\ PublishedInOrder
    /\ RowsClosed
    /\ ExportsClosed
    /\ LedgerVisible

LEMMA PublishedStep ==
    ASSUME TypeOK, [Next]_vars, PublishedInOrder
    PROVE  PublishedInOrder'
<1>1. CASE published' = published
  BY <1>1 DEF PublishedInOrder
<1>2. ASSUME NEW w \in Workers, NEW q \in Pages, Publish(w, q) PROVE PublishedInOrder'
  <2>1. /\ published \in [Workers -> Seq(Pages)] /\ published[w] \in Seq(Pages)
        /\ Len(published[w]) \in Nat
    BY DEF TypeOK
  <2>2. /\ published'[w] = Append(published[w], q)
        /\ \A v \in Workers \ {w} : published'[v] = published[v]
    BY <1>2, <2>1 DEF Publish
  <2>3. /\ Len(published'[w]) = Len(published[w]) + 1
        /\ \A j \in 1..Len(published[w]) : published'[w][j] = published[w][j]
        /\ published'[w][Len(published[w]) + 1] = q
    BY <2>1, <2>2, AppendProperties
  <2>4. Prev[q] # NoPage => \E k \in 1..Len(published[w]) : published[w][k] = Prev[q]
    BY <1>2 DEF Publish, IsPublished
  <2> SUFFICES ASSUME NEW v \in Workers, NEW j \in 1..Len(published'[v]),
                      Prev[published'[v][j]] # NoPage
               PROVE  \E k \in 1..j : k # j /\ published'[v][k] = Prev[published'[v][j]]
    BY DEF PublishedInOrder
  <2>5. CASE v # w
    BY <2>2, <2>5 DEF PublishedInOrder
  <2>6. CASE v = w /\ j = Len(published[w]) + 1
    <3>1. PICK k \in 1..Len(published[w]) : published[w][k] = Prev[q]
      BY <2>3, <2>4, <2>6
    <3>2. k \in 1..j /\ k # j /\ published'[v][k] = Prev[published'[v][j]]
      BY <2>1, <2>3, <2>6, <3>1
    <3> QED BY <3>2
  <2>7. CASE v = w /\ j \in 1..Len(published[w])
    <3>1. PICK k \in 1..j : k # j /\ published[w][k] = Prev[published[w][j]]
      BY <2>3, <2>7 DEF PublishedInOrder
    <3>2. published'[v][k] = Prev[published'[v][j]]
      BY <2>1, <2>3, <2>7, <3>1
    <3> QED BY <3>1, <3>2
  <2> QED BY <2>1, <2>3, <2>5, <2>6, <2>7
<1>3. published' = published \/ \E w \in Workers, q \in Pages : Publish(w, q)
  <2>1. ASSUME NEW w \in Workers, WorkerNext(w)
        PROVE  published' = published \/ \E q \in Pages : Publish(w, q)
    BY <2>1 DEF WorkerNext, ExportWrite, ExportCommit, Poll, Put, PutLost, Confirm,
                Acknowledge, Unlink, Resume, WorkerCrash, workerVars
  <2>2. ASSUME ImportNext PROVE published' = published
    BY <2>2 DEF ImportNext, ImportBegin, ImportDefer, ImportRefuse, ImportTake, Advance,
                ImportStage, ImportList, ImportPublish, ImportPromote, ImportPageDone,
                ImportRecord, ImportReceipt, MergerTidy, ImportFault, ImporterCrash, workerVars
  <2> QED BY <2>1, <2>2 DEF Next, vars
<1> QED BY <1>1, <1>2, <1>3

(* An export takes the first candidates, with a page the one it continues. *)
LEMMA SelectionClosed ==
    ASSUME TypeOK, PublishedInOrder, NEW w \in Workers, NEW n \in Nat,
           NEW p \in Selection(w, n)
    PROVE  Covered(w, Len(outbox[w]), Selection(w, n), p)
<1> DEFINE UpTo(j) == {k \in Candidates(w) : k <= j}
<1>1. Len(published[w]) \in Nat /\ Len(outbox[w]) \in Nat
  BY DEF TypeOK
<1>2. PICK j \in Candidates(w) : p = published[w][j] /\ Cardinality(UpTo(j)) <= n
  BY DEF Selection
<1>3. j \in 1..Len(published[w])
  BY <1>2 DEF Candidates
<1> SUFFICES ASSUME Prev[p] # NoPage, Prev[p] \notin PagesIn(outbox[w])
             PROVE  Prev[p] \in Selection(w, n)
  <2>1. /\ outbox \in [Workers -> Seq(Bundle)] /\ outbox[w] \in Seq(Bundle)
        /\ DOMAIN outbox[w] = 1..Len(outbox[w])
    BY DEF TypeOK
  <2>2. \A q \in PagesIn(outbox[w]) : \E k \in 1..Len(outbox[w]) : q \in outbox[w][k].pages
    BY <2>1 DEF PagesIn
  <2> QED BY <2>2 DEF Covered
<1>4. PICK k \in 1..j : k # j /\ published[w][k] = Prev[p]
  BY <1>2, <1>3 DEF PublishedInOrder
<1>5. k \in Candidates(w) /\ k <= j
  BY <1>1, <1>3, <1>4 DEF Candidates
<1>6. IsFiniteSet(UpTo(j)) /\ IsFiniteSet(UpTo(k))
  <2>1. IsFiniteSet(1..Len(published[w]))
    BY 1 \in Int, Len(published[w]) \in Int, FS_Interval
  <2>2. UpTo(j) \subseteq 1..Len(published[w]) /\ UpTo(k) \subseteq 1..Len(published[w])
    BY DEF Candidates
  <2> QED BY <2>1, <2>2, FS_Subset
<1>7. UpTo(k) \subseteq UpTo(j)
  BY <1>1, <1>3, <1>5 DEF Candidates
<1>8. Cardinality(UpTo(k)) <= n
  BY <1>2, <1>6, <1>7, FS_Subset, FS_CardinalityType
<1> QED BY <1>4, <1>5, <1>8 DEF Selection

LEMMA RowsClosedStep ==
    ASSUME ChainInv, HandOverInv', [Next]_vars
    PROVE  RowsClosed'
<1> SUFFICES ASSUME NEW w \in Workers, NEW i \in 1..Len(outbox'[w]),
                    NEW p \in outbox'[w][i].pages, Prev[p] # NoPage
             PROVE  \E k \in 1..i : Prev[p] \in outbox'[w][k].pages
  BY DEF RowsClosed, Covered
<1>0. /\ DeliveryInv /\ outbox \in [Workers -> Seq(Bundle)] /\ outbox[w] \in Seq(Bundle)
      /\ Len(outbox[w]) \in Nat /\ Len(outbox'[w]) \in Nat
  BY DEF ChainInv, HandOverInv, DeliveryInv, TypeOK
<1>1. CASE i \in 1..Len(outbox[w])
  <2>1. p \in outbox[w][i].pages
    BY <1>0, <1>1, RowsStay
  <2>2. PICK k \in 1..i : Prev[p] \in outbox[w][k].pages
    BY <1>1, <2>1 DEF ChainInv, RowsClosed, Covered
  <2>3. k \in 1..Len(outbox[w])
    BY <1>0, <1>1
  <2>4. outbox'[w][k] = outbox[w][k]
    BY <1>0, <2>3, RowsStay
  <2> QED BY <2>2, <2>4
<1>2. CASE i \notin 1..Len(outbox[w])
  <2> DEFINE b == service[w].bundle
  <2>1. PICK v \in Workers : ExportCommit(v)
    BY <1>2, WhoChanges
  <2>2. v = w
    BY <1>0, <1>2, <2>1 DEF ExportCommit
  <2>3. service[w].step = "exporting" /\ outbox'[w] = Append(outbox[w], b)
    BY <1>0, <2>1, <2>2 DEF ExportCommit
  <2>4. b \in Bundle
    BY <1>0, <2>3, ActiveBundles, StepIsActive DEF DeliveryInv, Steps
  <2> HIDE DEF b
  <2>5. Len(outbox'[w]) = Len(outbox[w]) + 1 /\ outbox'[w][Len(outbox[w]) + 1] = b
    BY <1>0, <2>3, <2>4, AppendProperties
  <2>6. i = Len(outbox[w]) + 1 /\ p \in b.pages
    BY <1>0, <1>2, <2>5
  <2>7. Prev[p] \in b.pages \/ \E k \in 1..Len(outbox[w]) : Prev[p] \in outbox[w][k].pages
    BY <2>3, <2>6 DEF ChainInv, ExportsClosed, Covered, b
  <2>8. CASE Prev[p] \in b.pages
    BY <1>0, <2>5, <2>6, <2>8
  <2>9. ASSUME NEW k \in 1..Len(outbox[w]), Prev[p] \in outbox[w][k].pages
        PROVE  \E m \in 1..i : Prev[p] \in outbox'[w][m].pages
    <3>1. outbox'[w][k] = outbox[w][k]
      BY <1>0, RowsStay
    <3>2. k \in 1..i
      BY <1>0, <2>6
    <3> QED BY <2>9, <3>1, <3>2
  <2> QED BY <2>7, <2>8, <2>9
<1> QED BY <1>1, <1>2

LEMMA ExportsClosedStep ==
    ASSUME ChainInv, [Next]_vars
    PROVE  ExportsClosed'
<1> SUFFICES ASSUME NEW w \in Workers, service'[w].step = "exporting",
                    NEW p \in service'[w].bundle.pages, Prev[p] # NoPage
             PROVE  \/ Prev[p] \in service'[w].bundle.pages
                    \/ \E k \in 1..Len(outbox'[w]) : Prev[p] \in outbox'[w][k].pages
  BY DEF ExportsClosed, Covered
<1>0. DeliveryInv /\ TypeOK /\ PublishedInOrder
  BY DEF ChainInv, HandOverInv, DeliveryInv
<1>1. CASE service'[w] = service[w] /\ outbox'[w] = outbox[w]
  BY <1>1 DEF ChainInv, ExportsClosed, Covered
<1>2. CASE ExportWrite(w)
  <2>1. PICK n \in Nat : service'[w].bundle.pages = Selection(w, n)
    BY <1>0, <1>2, ExportWrites
  <2> QED BY <1>0, <1>2, <2>1, ExportWrites, SelectionClosed DEF Covered
<1> QED BY <1>0, <1>1, <1>2, ExportFrame

(* The row of the ledger is written when every page is through. *)
LEMMA LedgerVisibleStep ==
    ASSUME ChainInv, HandOverInv', [Next]_vars
    PROVE  LedgerVisible'
<1> SUFFICES ASSUME NEW w \in Workers, NEW i \in 1..Len(ledger'[w]),
                    NEW p \in ledger'[w][i].pages
             PROVE  canon'[p] = "visible"
  BY DEF LedgerVisible
<1>0. /\ DeliveryInv /\ TypeOK
      /\ ledger \in [Workers -> Seq(Bundle)] /\ ledger[w] \in Seq(Bundle)
      /\ Len(ledger[w]) \in Nat /\ Len(ledger'[w]) \in Nat
      /\ ledger'[w] \in Seq(Bundle)
  BY DEF ChainInv, HandOverInv, DeliveryInv, TypeOK
<1>1. p \in Pages
  <2>1. ledger'[w][i] \in Bundle
    BY <1>0
  <2> QED BY <2>1, BundleFields
<1>2. canon[p] = "visible"
  <2>1. CASE i \in 1..Len(ledger[w])
    BY <1>0, <2>1, RowsStay DEF ChainInv, LedgerVisible
  <2>2. CASE i \notin 1..Len(ledger[w])
    <3> DEFINE b == import.bundle
    <3>1. ImportRecord
      BY <2>2, WhoChanges
    <3>2. b \in Bundle /\ import.by # "nobody" /\ import.todo = {}
      BY <1>0, <3>1, ActiveBundles DEF ImportRecord, ImportDone
    <3>3. ledger'[w] = Append(ledger[w], b)
      BY <1>0, <2>2, <3>1 DEF ImportRecord
    <3> HIDE DEF b
    <3>4. Len(ledger'[w]) = Len(ledger[w]) + 1 /\ ledger'[w][Len(ledger[w]) + 1] = b
      BY <1>0, <3>2, <3>3, AppendProperties
    <3>5. p \in b.pages
      BY <1>0, <2>2, <3>4
    <3> QED BY <1>0, <3>2, <3>5 DEF DeliveryInv, ImportSound, b
  <2> QED BY <2>1, <2>2
<1> QED BY <1>0, <1>1, <1>2, VisibleStays

LEMMA ChainInit == ~CourierReadsDirectory /\ Init => ChainInv
BY HandOverInit DEF Init, ChainInv, PublishedInOrder, RowsClosed, ExportsClosed, Idle,
                    LedgerVisible

LEMMA ChainStep == ChainInv /\ [Next]_vars => ChainInv'
<1> SUFFICES ASSUME ChainInv, [Next]_vars PROVE ChainInv'
  OBVIOUS
<1>1. HandOverInv'
  BY HandOverStep DEF ChainInv
<1>2. PublishedInOrder'
  BY PublishedStep DEF ChainInv, HandOverInv, DeliveryInv
<1> QED BY <1>1, <1>2, RowsClosedStep, ExportsClosedStep, LedgerVisibleStep DEF ChainInv

LEMMA ChainInvariant == ~CourierReadsDirectory => (Spec => []ChainInv)
BY ChainInit, ChainStep, PTL DEF Spec

-----------------------------------------------------------------------------
(* Consequences *)

(* The page that a merged one continues came with it or with an earlier row. *)
LEMMA MergedIsClosed == ChainInv => MergedChainsClosed
<1> SUFFICES ASSUME ChainInv, NEW w \in Workers, NEW i \in 1..Len(ledger[w]),
                    NEW p \in ledger[w][i].pages, Prev[p] # NoPage
             PROVE  canon[Prev[p]] = "visible"
  BY DEF MergedChainsClosed
<1>1. Len(ledger[w]) \in Nat /\ Len(outbox[w]) \in Nat
  BY DEF ChainInv, HandOverInv, DeliveryInv, TypeOK
<1>2. i \in 1..Len(outbox[w]) /\ outbox[w][i] = ledger[w][i]
  BY <1>1 DEF ChainInv, HandOverInv, LedgerIsPrefix
<1>3. PICK k \in 1..i : Prev[p] \in outbox[w][k].pages
  BY <1>2 DEF ChainInv, RowsClosed, Covered
<1>4. k \in 1..Len(ledger[w]) /\ ledger[w][k] = outbox[w][k]
  BY <1>1 DEF ChainInv, HandOverInv, LedgerIsPrefix
<1> QED BY <1>3, <1>4 DEF ChainInv, LedgerVisible

(* Each merged bundle finds the page that it continues: export takes pages  *)
(* in publication order and import takes bundles in sequence order, so that *)
(* no crash, lost answer or hand-carried row leaves a hole in the lake      *)
(* (export_results, import_results).                                        *)
THEOREM ChainsSafe == ~CourierReadsDirectory => (Spec => []MergedChainsClosed)
BY ChainInvariant, MergedIsClosed, PTL

LEMMA PendingAcceptable == ChainInv => PendingNeverRefused
<1> SUFFICES ASSUME ChainInv, NEW w \in Workers, NEW i \in Pending(w),
                    MustRefuse(outbox[w][i])
             PROVE  FALSE
  BY DEF PendingNeverRefused
<1> DEFINE b == outbox[w][i]
<1>0. /\ HandOverInv /\ TypeOK /\ RowsNumbered
      /\ Len(ledger[w]) \in Nat /\ Len(outbox[w]) \in Nat
  BY DEF ChainInv, HandOverInv, DeliveryInv, TypeOK
<1>1. i \in 1..Len(outbox[w]) /\ b.worker = w /\ b.seq = i
  BY <1>0 DEF Pending, RowsNumbered
<1>2. CASE ~IsMerged(b) /\ b.seq <= Last(b.worker)
  <2>1. i \in 1..Len(ledger[w]) /\ ledger[w][i] = b
    BY <1>0, <1>1, <1>2 DEF Last, HandOverInv, LedgerIsPrefix
  <2> QED BY <1>1, <1>2, <2>1 DEF IsMerged
<1>3. CASE ~MustWait(b) /\ ~ChainsHold(b)
  <2>1. PICK p \in b.pages : /\ Prev[p] # NoPage /\ Prev[p] \notin b.pages
                             /\ canon[Prev[p]] # "visible"
    BY <1>3 DEF ChainsHold
  <2>2. PICK k \in 1..i : Prev[p] \in outbox[w][k].pages
    BY <1>1, <2>1 DEF ChainInv, RowsClosed, Covered
  <2>3. k \in 1..(i - 1)
    BY <1>1, <2>1, <2>2
  <2>4. i <= Len(ledger[w]) + 1
    <3>1. CASE IsMerged(b)
      <4>1. PICK m \in 1..Len(ledger[w]) : ledger[w][m] = b
        BY <1>1, <3>1 DEF IsMerged
      <4>2. m \in 1..Len(outbox[w]) /\ outbox[w][m] = b
        BY <1>0, <4>1 DEF HandOverInv, LedgerIsPrefix
      <4>3. m = i
        BY <1>0, <1>1, <4>2 DEF RowsNumbered
      <4> QED BY <1>0, <4>3
    <3>2. CASE ~IsMerged(b)
      BY <1>0, <1>1, <1>3, <3>2 DEF MustWait, Last
    <3> QED BY <3>1, <3>2
  <2>5. k \in 1..Len(ledger[w]) /\ ledger[w][k] = outbox[w][k]
    BY <1>0, <1>1, <2>3, <2>4 DEF HandOverInv, LedgerIsPrefix
  <2> QED BY <2>1, <2>2, <2>5 DEF ChainInv, LedgerVisible
<1> QED BY <1>2, <1>3 DEF MustRefuse

(* Whatever crashed or was lost, a row that still waits for delivery is one *)
(* that the canonical side takes, now or after the rows before it: neither  *)
(* a receipt answered late nor an import that broke off makes it a conflict *)
(* (the checks of import_results on sequence_no and on the predecessors).   *)
THEOREM PendingSafe == ~CourierReadsDirectory => (Spec => []PendingNeverRefused)
BY ChainInvariant, PendingAcceptable, PTL
=============================================================================
