---------------------- MODULE TrackingSchedulerProofs -----------------------
(***************************************************************************)
(* Proofs about TrackingScheduler: for any numbers of sessions, grants,    *)
(* granted jobs and downloads, attempts, kills and interventions, research *)
(* and downloads are recorded before they are asked for, results are taken *)
(* over once and in order, and a job is submitted only as its grant says.  *)
(***************************************************************************)
EXTENDS TrackingScheduler, FiniteSetTheorems, TLAPS

Jobs == Grants \X Days

-----------------------------------------------------------------------------
(* What is true of a record c of the watch, be it the saved one or that of  *)
(* the tick, when J, T and H are the jobs, their attempts and the history.  *)

(* A job has a cycle that was not given up; if that is over, it is a retry. *)
Accounted(c, J, T) ==
    \A d \in Days :
        /\ J[<<c.grant, d>>] # "none" => c.cycles[d] \notin {"none", "abandoned"}
        /\ c.cycles[d] \in Settled /\ J[<<c.grant, d>>] \in {"queued", "running"} =>
              T[<<c.grant, d>>] > 1

(* The history has the results that were taken over, and for the sessions   *)
(* of this grant no result of another one.                                  *)
TakenOver(c, H) ==
    \A d \in Days :
        /\ c.cycles[d] = "synced" => \E i \in 1..Len(H) : H[i] = <<c.grant, d>>
        /\ c.cycles[d] # "none" => \A i \in 1..Len(H) : H[i][2] = d => H[i] = <<c.grant, d>>

(* A cycle that waits for its job is of a later session than the history. *)
Waiting(c, J, H) ==
    \A d \in Days : c.cycles[d] = "reserved" /\ J[<<c.grant, d>>] = "none" =>
        \A i \in 1..Len(H) : H[i][2] < d

(* One cycle is open at a time, and none after one that has stopped. *)
OneAtATime(c) ==
    /\ \A d, e \in Open(c) : d = e
    /\ (\E d \in Days : c.cycles[d] = "stopped") => Open(c) = {} /\ ~c.enabled

(* Downloads are for later and later sessions; another one for the same     *)
(* session follows one that failed.                                         *)
InOrder(u) ==
    \A a, b \in 1..Len(u) : a < b =>
        /\ u[a].target <= u[b].target
        /\ u[a].target = u[b].target => u[a].status = "failed"

RecordSound(c, J, T, H) ==
    \/ c = NoControl
    \/ /\ c.grant \in Grants
       /\ Accounted(c, J, T)
       /\ TakenOver(c, H)
       /\ Waiting(c, J, H)
       /\ OneAtATime(c)
       /\ Cardinality(Reserved(c)) <= MaxJobs
       /\ InOrder(c.updates)

-----------------------------------------------------------------------------
(* The inductive invariant *)

TriesTyped == tries \in [Jobs -> Nat]

(* Jobs belong to grants that were given; those of an old grant are over.   *)
JobsSound ==
    /\ \A g \in Grants : g >= control.grant => archive[g] = NoCycles
    /\ \A j \in Jobs : job[j] # "none" =>
          /\ j[1] <= control.grant
          /\ tries[j] >= 1
          /\ j[1] < control.grant =>
                /\ archive[j[1]][j[2]] \notin {"none", "abandoned"}
                /\ job[j] \in {"queued", "running"} => tries[j] > 1

HistoryInOrder ==
    \A a, b \in 1..Len(history) : a < b => history[a][2] < history[b][2]

ReceiptsSound == \A n \in Downloads : receipt[n] # "none" => n <= Len(control.updates)

TargetsPast(c, when) == \A a \in 1..Len(c.updates) : c.updates[a].target <= when

ClockSound ==
    /\ stamp <= day
    /\ TargetsPast(control, day) /\ TargetsPast(mem, day)
    /\ step \notin {"idle", "saving"} => TargetsPast(mem, stamp)

(* What the record of the tick and the saved one have in common, and what   *)
(* has been established when the tick gets to a step.                       *)
TickSound ==
    /\ step = "idle" => NoTick
    /\ step # "idle" =>
          /\ mem.grant \in Grants /\ mem.grant = control.grant
          /\ mem.enabled => control.enabled
          /\ Len(mem.updates) = Len(control.updates)
          /\ step # "published" => mem.accepted = control.accepted
    /\ \A d \in todo : mem.cycles[d] \in Pending /\ control.cycles[d] = mem.cycles[d]
    /\ step \in {"updating", "downloading", "published", "planning"} =>
          mem.enabled /\ Open(mem) = {} /\ Cardinality(Reserved(mem)) < MaxJobs
    /\ step = "downloading" => LastUpdate(mem).status = "downloading"
    /\ step \in {"submitting", "submitted"} =>
          at \in Days /\ mem.cycles[at] = "reserved" /\ control.cycles[at] = "reserved"

TrackingInv ==
    /\ TypeOK /\ TriesTyped
    /\ RecordSound(control, job, tries, history)
    /\ RecordSound(mem, job, tries, history)
    /\ JobsSound
    /\ HistoryInOrder
    /\ ReceiptsSound
    /\ ClockSound
    /\ TickSound

-----------------------------------------------------------------------------
(* Records *)

Updates == [target : Days, status : {"downloading", "failed", "revision_review", "published"}]
CycleStates == {"none"} \cup Pending \cup Settled

LEMMA Parameters ==
    /\ LastDay \in Nat \ {0} /\ MaxGrants \in Nat \ {0} /\ MaxJobs \in Nat \ {0}
    /\ MaxDownloads \in Nat \ {0} /\ MaxTries \in Nat \ {0} /\ MaxTroubles \in Nat
    /\ Days \subseteq Nat \ {0} /\ Grants \subseteq Nat \ {0} /\ 1 \in Days
BY TrackingAssumption DEF Days, Grants

LEMMA BoundedSequence ==
    ASSUME NEW S, NEW n \in Nat, NEW s
    PROVE  s \in BoundedSeq(S, n) <=> s \in Seq(S) /\ Len(s) <= n
<1>1. ASSUME s \in BoundedSeq(S, n) PROVE s \in Seq(S) /\ Len(s) <= n
  <2>1. PICK m \in 0..n : s \in [1..m -> S]
    BY <1>1 DEF BoundedSeq, SeqOf
  <2> QED BY <2>1
<1>2. ASSUME s \in Seq(S), Len(s) <= n PROVE s \in BoundedSeq(S, n)
  <2>1. Len(s) \in 0..n /\ s \in [1..Len(s) -> S]
    BY <1>2
  <2> QED BY <2>1 DEF BoundedSeq, SeqOf
<1> QED BY <1>1, <1>2

LEMMA ControlFields ==
    Controls = [grant : 0..MaxGrants, enabled : BOOLEAN, due : BOOLEAN, accepted : Nat,
                cycles : [Days -> CycleStates], updates : BoundedSeq(Updates, MaxDownloads)]
BY DEF Controls, Cycles, Updates, CycleStates

LEMMA ControlTyped ==
    ASSUME NEW c \in Controls
    PROVE  /\ c.grant \in 0..MaxGrants /\ c.enabled \in BOOLEAN /\ c.due \in BOOLEAN
           /\ c.accepted \in Nat /\ c.cycles \in [Days -> CycleStates]
           /\ c.updates \in Seq(Updates) /\ Len(c.updates) \in Nat
           /\ Len(c.updates) <= MaxDownloads
<1>1. /\ c.grant \in 0..MaxGrants /\ c.enabled \in BOOLEAN /\ c.due \in BOOLEAN
      /\ c.accepted \in Nat /\ c.cycles \in [Days -> CycleStates]
      /\ c.updates \in BoundedSeq(Updates, MaxDownloads)
  BY ControlFields
<1>2. c.updates \in Seq(Updates) /\ Len(c.updates) <= MaxDownloads
  BY <1>1, BoundedSequence, Parameters
<1> QED BY <1>1, <1>2

(* A record of which one part is changed *)
LEMMA ControlChanged ==
    ASSUME NEW c \in Controls
    PROVE  /\ \A b \in BOOLEAN : LET r == [c EXCEPT !.enabled = b] IN
                /\ r \in Controls /\ r.grant = c.grant /\ r.enabled = b /\ r.due = c.due
                /\ r.accepted = c.accepted /\ r.cycles = c.cycles /\ r.updates = c.updates
           /\ \A b \in BOOLEAN : LET r == [c EXCEPT !.due = b] IN
                /\ r \in Controls /\ r.grant = c.grant /\ r.enabled = c.enabled /\ r.due = b
                /\ r.accepted = c.accepted /\ r.cycles = c.cycles /\ r.updates = c.updates
           /\ \A n \in Nat : LET r == [c EXCEPT !.accepted = n] IN
                /\ r \in Controls /\ r.grant = c.grant /\ r.enabled = c.enabled /\ r.due = c.due
                /\ r.accepted = n /\ r.cycles = c.cycles /\ r.updates = c.updates
           /\ \A d \in Days, s \in CycleStates : LET r == [c EXCEPT !.cycles[d] = s] IN
                /\ r \in Controls /\ r.grant = c.grant /\ r.enabled = c.enabled /\ r.due = c.due
                /\ r.accepted = c.accepted /\ r.cycles = [c.cycles EXCEPT ![d] = s]
                /\ r.updates = c.updates
           /\ \A u \in BoundedSeq(Updates, MaxDownloads) : LET r == [c EXCEPT !.updates = u] IN
                /\ r \in Controls /\ r.grant = c.grant /\ r.enabled = c.enabled /\ r.due = c.due
                /\ r.accepted = c.accepted /\ r.cycles = c.cycles /\ r.updates = u
<1> DEFINE C == [Days -> CycleStates]
           U == BoundedSeq(Updates, MaxDownloads)
<1>0. Controls = [grant : 0..MaxGrants, enabled : BOOLEAN, due : BOOLEAN, accepted : Nat,
                  cycles : C, updates : U]
  BY ControlFields
<1>1. \A f \in C, d \in Days, s \in CycleStates : [f EXCEPT ![d] = s] \in C
  OBVIOUS
<1> HIDE DEF C
<1> HIDE DEF U
<1>2. ASSUME NEW b \in BOOLEAN
      PROVE  LET r == [c EXCEPT !.enabled = b] IN
             /\ r \in Controls /\ r.grant = c.grant /\ r.enabled = b /\ r.due = c.due
             /\ r.accepted = c.accepted /\ r.cycles = c.cycles /\ r.updates = c.updates
  BY <1>0
<1>3. ASSUME NEW b \in BOOLEAN
      PROVE  LET r == [c EXCEPT !.due = b] IN
             /\ r \in Controls /\ r.grant = c.grant /\ r.enabled = c.enabled /\ r.due = b
             /\ r.accepted = c.accepted /\ r.cycles = c.cycles /\ r.updates = c.updates
  BY <1>0
<1>4. ASSUME NEW n \in Nat
      PROVE  LET r == [c EXCEPT !.accepted = n] IN
             /\ r \in Controls /\ r.grant = c.grant /\ r.enabled = c.enabled /\ r.due = c.due
             /\ r.accepted = n /\ r.cycles = c.cycles /\ r.updates = c.updates
  BY <1>0
<1>5. ASSUME NEW d \in Days, NEW s \in CycleStates
      PROVE  LET r == [c EXCEPT !.cycles[d] = s] IN
             /\ r \in Controls /\ r.grant = c.grant /\ r.enabled = c.enabled /\ r.due = c.due
             /\ r.accepted = c.accepted /\ r.cycles = [c.cycles EXCEPT ![d] = s]
             /\ r.updates = c.updates
  <2> DEFINE f == [c.cycles EXCEPT ![d] = s]
  <2>1. f \in C
    BY <1>0, <1>1
  <2>2. [c EXCEPT !.cycles[d] = s] = [c EXCEPT !.cycles = f]
    BY <1>0
  <2> HIDE DEF f
  <2>3. LET r == [c EXCEPT !.cycles = f] IN
        /\ r \in Controls /\ r.grant = c.grant /\ r.enabled = c.enabled /\ r.due = c.due
        /\ r.accepted = c.accepted /\ r.cycles = f /\ r.updates = c.updates
    BY <1>0, <2>1
  <2> QED BY <2>2, <2>3 DEF f
<1>6. ASSUME NEW u \in U
      PROVE  LET r == [c EXCEPT !.updates = u] IN
             /\ r \in Controls /\ r.grant = c.grant /\ r.enabled = c.enabled /\ r.due = c.due
             /\ r.accepted = c.accepted /\ r.cycles = c.cycles /\ r.updates = u
  BY <1>0
<1> QED BY <1>2, <1>3, <1>4, <1>5, <1>6 DEF U

LEMMA FreshControl ==
    /\ NoControl \in Controls
    /\ NoControl.grant = 0 /\ NoControl.enabled = FALSE /\ NoControl.due = FALSE
    /\ NoControl.accepted = 0 /\ NoControl.cycles = NoCycles /\ NoControl.updates = <<>>
    /\ Open(NoControl) = {} /\ Reserved(NoControl) = {}
<1>1. NoCycles \in [Days -> CycleStates]
  BY DEF NoCycles, CycleStates
<1>2. <<>> \in BoundedSeq(Updates, MaxDownloads)
  <2>1. <<>> \in Seq(Updates) /\ Len(<<>>) = 0
    OBVIOUS
  <2>2. MaxDownloads \in Nat /\ 0 <= MaxDownloads
    BY Parameters
  <2> QED BY <2>1, <2>2, BoundedSequence
<1>3. 0 \in 0..MaxGrants
  BY Parameters
<1>4. NoControl \in Controls
  BY <1>1, <1>2, <1>3, ControlFields DEF NoControl
<1>5. Open(NoControl) = {} /\ Reserved(NoControl) = {}
  BY DEF NoControl, NoCycles, Open, Reserved, Pending
<1> QED BY <1>4, <1>5 DEF NoControl

LEMMA TargetsAreTimes ==
    ASSUME NEW c \in Controls
    PROVE  \A a \in 1..Len(c.updates) : c.updates[a].target \in Nat
<1>1. c.updates \in Seq(Updates)
  BY ControlTyped
<1>2. \A a \in 1..Len(c.updates) : c.updates[a] \in Updates
  BY <1>1
<1>3. \A x \in Updates : x.target \in Nat
  BY Parameters DEF Updates
<1> QED BY <1>2, <1>3

(* The last download of a record *)
LEMMA LastIsLast ==
    ASSUME NEW c \in Controls
    PROVE  /\ c.updates = <<>> => LastUpdate(c) = [target |-> 0, status |-> "none"]
           /\ c.updates # <<>> =>
                 /\ Len(c.updates) \in Downloads
                 /\ LastUpdate(c) = c.updates[Len(c.updates)] /\ LastUpdate(c) \in Updates
           /\ LastUpdate(c).status # "none" => c.updates # <<>>
<1>1. c.updates \in Seq(Updates) /\ Len(c.updates) \in Nat /\ Len(c.updates) <= MaxDownloads
  BY ControlTyped
<1>2. CASE c.updates = <<>>
  BY <1>2 DEF LastUpdate
<1>3. CASE c.updates # <<>>
  <2>1. Len(c.updates) \in 1..Len(c.updates) /\ Len(c.updates) \in Downloads
    BY <1>1, <1>3, Parameters DEF Downloads
  <2>2. LastUpdate(c) = c.updates[Len(c.updates)]
    BY <1>3 DEF LastUpdate, Last
  <2>3. c.updates[Len(c.updates)] \in Updates
    BY <1>1, <2>1
  <2> QED BY <1>3, <2>1, <2>2, <2>3
<1> QED BY <1>2, <1>3

-----------------------------------------------------------------------------
(* What keeps a record sound *)

(* Jobs come and go, but a job that was over is under way again only when   *)
(* it is tried again.                                                       *)
Onward(J, T, K, S) ==
    \A j \in Jobs :
        /\ K[j] = "none" <=> J[j] = "none"
        /\ S[j] >= T[j]
        /\ K[j] \in {"queued", "running"} /\ J[j] \notin {"queued", "running"} => S[j] > 1

LEMMA RecordOnward ==
    ASSUME NEW c \in Controls, NEW J, NEW T \in [Jobs -> Nat], NEW K, NEW S \in [Jobs -> Nat],
           NEW H, RecordSound(c, J, T, H), Onward(J, T, K, S)
    PROVE  RecordSound(c, K, S, H)
<1>1. CASE c = NoControl
  BY <1>1 DEF RecordSound
<1>2. CASE c # NoControl
  <2>1. c.grant \in Grants /\ Accounted(c, J, T) /\ Waiting(c, J, H)
    BY <1>2 DEF RecordSound
  <2>2. Accounted(c, K, S)
    <3> SUFFICES ASSUME NEW d \in Days
                 PROVE  /\ K[<<c.grant, d>>] # "none" => c.cycles[d] \notin {"none", "abandoned"}
                        /\ c.cycles[d] \in Settled /\ K[<<c.grant, d>>] \in {"queued", "running"} =>
                              S[<<c.grant, d>>] > 1
      BY DEF Accounted
    <3> DEFINE j == <<c.grant, d>>
    <3>1. j \in Jobs
      BY <2>1 DEF Jobs
    <3>2. /\ J[j] # "none" => c.cycles[d] \notin {"none", "abandoned"}
          /\ c.cycles[d] \in Settled /\ J[j] \in {"queued", "running"} => T[j] > 1
      BY <2>1 DEF Accounted
    <3> HIDE DEF j
    <3>3. /\ K[j] = "none" <=> J[j] = "none"
          /\ S[j] >= T[j]
          /\ K[j] \in {"queued", "running"} /\ J[j] \notin {"queued", "running"} => S[j] > 1
      BY <3>1 DEF Onward
    <3>4. S[j] \in Nat /\ T[j] \in Nat
      BY <3>1
    <3> QED BY <3>2, <3>3, <3>4 DEF j
  <2>3. \A d \in Days : <<c.grant, d>> \in Jobs
    BY <2>1 DEF Jobs
  <2>4. Waiting(c, K, H)
    BY <2>1, <2>3 DEF Waiting, Onward
  <2> QED BY <1>2, <2>2, <2>4 DEF RecordSound
<1> QED BY <1>1, <1>2

LEMMA RecordSubmitted ==
    ASSUME NEW c \in Controls, NEW J, NEW T, NEW K, NEW S, NEW H,
           RecordSound(c, J, T, H), NEW d \in Days, c.cycles[d] = "reserved",
           K[<<c.grant, d>>] # "none",
           \A e \in Days \ {d} : /\ K[<<c.grant, e>>] = J[<<c.grant, e>>]
                                 /\ S[<<c.grant, e>>] = T[<<c.grant, e>>]
    PROVE  RecordSound(c, K, S, H)
<1>1. c # NoControl
  BY FreshControl DEF NoCycles
<1>2. Accounted(c, J, T) /\ Waiting(c, J, H)
  BY <1>1 DEF RecordSound
<1>3. Accounted(c, K, S)
  BY <1>2 DEF Accounted, Settled
<1>4. Waiting(c, K, H)
  BY <1>2 DEF Waiting
<1> QED BY <1>1, <1>3, <1>4 DEF RecordSound

LEMMA RecordObserved ==
    ASSUME NEW c \in Controls, NEW J, NEW T, NEW H \in Seq(Jobs), RecordSound(c, J, T, H),
           NEW d \in Days, <<c.grant, d>> \in Jobs,
           c.cycles[d] \in Pending \cup {"stopped"}, J[<<c.grant, d>>] # "none"
    PROVE  RecordSound(c, J, T, Append(H, <<c.grant, d>>))
<1> DEFINE G == Append(H, <<c.grant, d>>)
<1>1. CASE c = NoControl
  BY <1>1 DEF RecordSound
<1>2. CASE c # NoControl
  <2>1. Len(G) = Len(H) + 1 /\ Len(H) \in Nat
    OBVIOUS
  <2>2. \A i \in 1..Len(H) : G[i] = H[i]
    OBVIOUS
  <2>3. G[Len(H) + 1] = <<c.grant, d>>
    OBVIOUS
  <2> HIDE DEF G
  <2>4. TakenOver(c, H) /\ OneAtATime(c)
    BY <1>2 DEF RecordSound
  <2>5. TakenOver(c, G)
    <3> SUFFICES ASSUME NEW e \in Days
                 PROVE  /\ c.cycles[e] = "synced" => \E i \in 1..Len(G) : G[i] = <<c.grant, e>>
                        /\ c.cycles[e] # "none" =>
                              \A i \in 1..Len(G) : G[i][2] = e => G[i] = <<c.grant, e>>
      BY DEF TakenOver
    <3>1. ASSUME c.cycles[e] = "synced" PROVE \E i \in 1..Len(G) : G[i] = <<c.grant, e>>
      <4>1. PICK i \in 1..Len(H) : H[i] = <<c.grant, e>>
        BY <2>4, <3>1 DEF TakenOver
      <4>2. i \in 1..Len(G)
        BY <2>1
      <4> QED BY <2>2, <4>1, <4>2
    <3>2. ASSUME c.cycles[e] # "none", NEW i \in 1..Len(G), G[i][2] = e
          PROVE  G[i] = <<c.grant, e>>
      <4>1. CASE i \in 1..Len(H)
        BY <2>2, <2>4, <3>2, <4>1 DEF TakenOver
      <4>2. CASE i = Len(H) + 1
        BY <2>3, <3>2, <4>2
      <4> QED BY <2>1, <4>1, <4>2
    <3> QED BY <3>1, <3>2
  <2>6. Waiting(c, J, G)
    <3> SUFFICES ASSUME NEW e \in Days, c.cycles[e] = "reserved", J[<<c.grant, e>>] = "none"
                 PROVE  FALSE
      BY DEF Waiting
    <3>1. e \in Open(c) /\ (d \in Open(c) \/ c.cycles[d] = "stopped")
      BY DEF Open, Pending
    <3> QED BY <2>4, <3>1 DEF OneAtATime
  <2> QED BY <1>2, <2>5, <2>6 DEF RecordSound, G
<1> QED BY <1>1, <1>2

(* Switches, and downloads that are in order *)
LEMMA RecordSwitched ==
    ASSUME NEW c \in Controls, NEW r \in Controls, NEW J, NEW T, NEW H, RecordSound(c, J, T, H),
           c.grant \in Grants, r.grant = c.grant, r.cycles = c.cycles, r.enabled => c.enabled,
           InOrder(r.updates)
    PROVE  RecordSound(r, J, T, H)
<1>1. c # NoControl
  BY FreshControl, Parameters
<1>2. /\ Accounted(c, J, T) /\ TakenOver(c, H) /\ Waiting(c, J, H) /\ OneAtATime(c)
      /\ Cardinality(Reserved(c)) <= MaxJobs
  BY <1>1 DEF RecordSound
<1>3. Open(r) = Open(c) /\ Reserved(r) = Reserved(c)
  BY DEF Open, Reserved
<1>4. Accounted(r, J, T) /\ TakenOver(r, H) /\ Waiting(r, J, H)
  <2>1. Accounted(r, J, T)
    BY <1>2 DEF Accounted
  <2>2. TakenOver(r, H)
    <3> SUFFICES ASSUME NEW d \in Days
                 PROVE  /\ r.cycles[d] = "synced" => \E i \in 1..Len(H) : H[i] = <<r.grant, d>>
                        /\ r.cycles[d] # "none" =>
                              \A i \in 1..Len(H) : H[i][2] = d => H[i] = <<r.grant, d>>
      BY Zenon DEF TakenOver
    <3>1. /\ c.cycles[d] = "synced" => \E i \in 1..Len(H) : H[i] = <<c.grant, d>>
          /\ c.cycles[d] # "none" =>
                \A i \in 1..Len(H) : H[i][2] = d => H[i] = <<c.grant, d>>
      BY <1>2, Zenon DEF TakenOver
    <3> QED BY <3>1
  <2>3. Waiting(r, J, H)
    BY <1>2 DEF Waiting
  <2> QED BY <2>1, <2>2, <2>3
<1>5. OneAtATime(r)
  BY <1>2, <1>3 DEF OneAtATime
<1> QED BY <1>2, <1>3, <1>4, <1>5 DEF RecordSound

(* A cycle that is there gets another state. *)
LEMMA RecordSettled ==
    ASSUME NEW c \in Controls, NEW r \in Controls, NEW J, NEW T, NEW H, RecordSound(c, J, T, H),
           NEW d \in Days, NEW s \in Pending \cup Settled,
           r.grant = c.grant, r.cycles = [c.cycles EXCEPT ![d] = s], r.updates = c.updates,
           r.enabled => c.enabled,
           c.cycles[d] # "none",
           s \in Pending => c.cycles[d] \in Pending, s # "reserved",
           s = "abandoned" => J[<<c.grant, d>>] = "none",
           s \in Settled => J[<<c.grant, d>>] \notin {"queued", "running"},
           s = "stopped" => ~r.enabled /\ c.cycles[d] \in Pending,
           s = "synced" => \E i \in 1..Len(H) : H[i] = <<c.grant, d>>
    PROVE  /\ RecordSound(r, J, T, H)
           /\ Open(r) \subseteq Open(c) /\ Reserved(r) = Reserved(c)
<1>1. c # NoControl
  BY FreshControl DEF NoCycles
<1>2. /\ c.grant \in Grants /\ InOrder(c.updates) /\ Waiting(c, J, H)
      /\ Accounted(c, J, T) /\ TakenOver(c, H) /\ OneAtATime(c)
      /\ Cardinality(Reserved(c)) <= MaxJobs
  BY <1>1 DEF RecordSound
<1>3. /\ r.cycles[d] = s
      /\ \A e \in Days \ {d} : r.cycles[e] = c.cycles[e]
  BY ControlTyped
<1>4. Open(r) \subseteq Open(c)
  BY <1>3 DEF Open, Pending, Settled
<1>5. Reserved(r) = Reserved(c)
  BY <1>3 DEF Reserved, Pending, Settled
<1>6. Accounted(r, J, T)
  <2> SUFFICES ASSUME NEW e \in Days
               PROVE  /\ J[<<r.grant, e>>] # "none" => r.cycles[e] \notin {"none", "abandoned"}
                      /\ r.cycles[e] \in Settled /\ J[<<r.grant, e>>] \in {"queued", "running"} =>
                            T[<<r.grant, e>>] > 1
    BY DEF Accounted
  <2>1. CASE e # d
    BY <1>2, <1>3, <2>1 DEF Accounted
  <2>2. CASE e = d
    BY <1>3, <2>2 DEF Pending, Settled
  <2> QED BY <2>1, <2>2
<1>7. TakenOver(r, H)
  <2> SUFFICES ASSUME NEW e \in Days
               PROVE  /\ r.cycles[e] = "synced" => \E i \in 1..Len(H) : H[i] = <<r.grant, e>>
                      /\ r.cycles[e] # "none" =>
                            \A i \in 1..Len(H) : H[i][2] = e => H[i] = <<r.grant, e>>
    BY DEF TakenOver
  <2>1. /\ c.cycles[e] = "synced" => \E i \in 1..Len(H) : H[i] = <<c.grant, e>>
        /\ c.cycles[e] # "none" => \A i \in 1..Len(H) : H[i][2] = e => H[i] = <<c.grant, e>>
    BY <1>2 DEF TakenOver
  <2>2. CASE e # d
    BY <1>3, <2>1, <2>2
  <2>3. CASE e = d
    BY <1>3, <2>1, <2>3
  <2> QED BY <2>2, <2>3
<1>8. OneAtATime(r)
  <2>1. \A e, f \in Open(r) : e = f
    BY <1>2, <1>4 DEF OneAtATime
  <2>2. ASSUME NEW e \in Days, r.cycles[e] = "stopped" PROVE Open(r) = {} /\ ~r.enabled
    <3>1. CASE c.cycles[e] = "stopped"
      <4>1. Open(c) = {} /\ ~c.enabled
        BY <1>2, <3>1 DEF OneAtATime
      <4> QED BY <1>4, <4>1
    <3>2. CASE c.cycles[e] # "stopped"
      <4>1. e = d /\ s = "stopped"
        BY <1>3, <2>2, <3>2
      <4>2. d \in Open(c) /\ d \notin Open(r)
        BY <1>3, <4>1 DEF Open, Pending
      <4>3. \A f \in Open(c) : f = d
        BY <1>2, <4>2 DEF OneAtATime
      <4> QED BY <1>4, <4>1, <4>2, <4>3
    <3> QED BY <3>1, <3>2
  <2> QED BY <2>1, <2>2 DEF OneAtATime
<1>9. Waiting(r, J, H)
  BY <1>2, <1>3 DEF Waiting
<1> QED BY <1>2, <1>4, <1>5, <1>6, <1>7, <1>8, <1>9 DEF RecordSound

(* A cycle is reserved. *)
LEMMA RecordReserved ==
    ASSUME NEW c \in Controls, NEW r \in Controls, NEW J, NEW T, NEW H, RecordSound(c, J, T, H),
           NEW d \in Days, c.grant \in Grants,
           r.grant = c.grant, r.cycles = [c.cycles EXCEPT ![d] = "reserved"],
           r.updates = c.updates, r.enabled => c.enabled,
           c.enabled, Open(c) = {}, c.cycles[d] = "none", Cardinality(Reserved(c)) < MaxJobs,
           H \in Seq(Jobs), \A i \in 1..Len(H) : H[i][2] < d
    PROVE  RecordSound(r, J, T, H)
<1>1. c # NoControl
  BY FreshControl
<1>2. /\ InOrder(c.updates) /\ Waiting(c, J, H)
      /\ Accounted(c, J, T) /\ TakenOver(c, H) /\ OneAtATime(c)
  BY <1>1 DEF RecordSound
<1>0. d \in Nat /\ \A i \in 1..Len(H) : H[i][2] # d
  BY Parameters
<1>3. /\ r.cycles[d] = "reserved"
      /\ \A e \in Days \ {d} : r.cycles[e] = c.cycles[e]
  BY ControlTyped
<1>4. Open(r) = {d} /\ Reserved(r) = Reserved(c) \cup {d} /\ d \notin Reserved(c)
  BY <1>3 DEF Open, Reserved, Pending
<1>5. Cardinality(Reserved(r)) <= MaxJobs
  <2>1. IsFiniteSet(Days) /\ Reserved(c) \subseteq Days
    BY Parameters, FS_Interval DEF Days, Reserved
  <2>2. IsFiniteSet(Reserved(c)) /\ Cardinality(Reserved(c)) \in Nat
    BY <2>1, FS_Subset, FS_CardinalityType
  <2>3. Cardinality(Reserved(c) \cup {d}) = Cardinality(Reserved(c)) + 1
    BY <1>4, <2>2, FS_AddElement
  <2> QED BY <1>4, <2>2, <2>3, Parameters
<1>6. Accounted(r, J, T)
  BY <1>2, <1>3 DEF Accounted, Settled
<1>7. TakenOver(r, H)
  <2> SUFFICES ASSUME NEW e \in Days
               PROVE  /\ r.cycles[e] = "synced" => \E i \in 1..Len(H) : H[i] = <<r.grant, e>>
                      /\ r.cycles[e] # "none" =>
                            \A i \in 1..Len(H) : H[i][2] = e => H[i] = <<r.grant, e>>
    BY DEF TakenOver
  <2>1. CASE e # d
    <3>1. r.cycles[e] = c.cycles[e]
      BY <1>3, <2>1
    <3>2. /\ c.cycles[e] = "synced" => \E i \in 1..Len(H) : H[i] = <<c.grant, e>>
          /\ c.cycles[e] # "none" => \A i \in 1..Len(H) : H[i][2] = e => H[i] = <<c.grant, e>>
      BY <1>2 DEF TakenOver
    <3> QED BY <3>1, <3>2
  <2>2. CASE e = d
    BY <1>0, <1>3, <2>2
  <2> QED BY <2>1, <2>2
<1>8. OneAtATime(r)
  BY <1>2, <1>3, <1>4 DEF OneAtATime
<1>9. Waiting(r, J, H)
  BY <1>2, <1>3 DEF Waiting
<1> QED BY <1>2, <1>5, <1>6, <1>7, <1>8, <1>9 DEF RecordSound

-----------------------------------------------------------------------------
(* The history *)

LEMMA HistoryFacts ==
    ASSUME TypeOK
    PROVE  /\ history \in Seq(Jobs) /\ Len(history) \in Nat
           /\ \A i \in 1..Len(history) : history[i] \in Jobs /\ history[i][2] \in Days
<1>1. history \in Seq(Jobs)
  BY DEF TypeOK, Jobs
<1>2. \A i \in 1..Len(history) : history[i] \in Jobs
  BY <1>1
<1>3. \A j \in Jobs : j[2] \in Days
  BY DEF Jobs
<1> QED BY <1>1, <1>2, <1>3

(* The latest session that was taken over is no earlier than any other. *)
LEMMA ObservedIsLatest ==
    ASSUME TypeOK, HistoryInOrder
    PROVE  /\ ObservedDay \in Nat
           /\ history # <<>> => ObservedDay = history[Len(history)][2]
           /\ \A i \in 1..Len(history) : history[i][2] <= ObservedDay
<1>1. /\ Len(history) \in Nat
      /\ \A i \in 1..Len(history) : history[i][2] \in Nat
  BY HistoryFacts, Parameters
<1>2. CASE history = <<>>
  BY <1>2 DEF ObservedDay
<1>3. CASE history # <<>>
  <2>1. Len(history) \in 1..Len(history)
    BY <1>1, <1>3, HistoryFacts
  <2>2. ObservedDay = history[Len(history)][2]
    BY <1>3 DEF ObservedDay, Last
  <2>3. \A i \in 1..Len(history) : i < Len(history) => history[i][2] < history[Len(history)][2]
    BY <2>1 DEF HistoryInOrder
  <2> QED BY <1>1, <1>3, <2>1, <2>2, <2>3
<1> QED BY <1>2, <1>3

(* A result of the record's own grant is taken over: once, and in order. *)
LEMMA ObserveStep ==
    ASSUME TrackingInv, NEW c \in Controls, RecordSound(c, job, tries, history),
           c.grant \in Grants, NEW d \in Days, c.cycles[d] # "none", Observe(<<c.grant, d>>)
    PROVE  /\ history' = history \/ history' = Append(history, <<c.grant, d>>)
           /\ \E i \in 1..Len(history') : history'[i] = <<c.grant, d>>
           /\ history' \in Seq(Jobs)
           /\ HistoryInOrder'
<1> DEFINE j == <<c.grant, d>>
<1>0. /\ j \in Jobs /\ j[2] = d /\ d \in Nat /\ TypeOK /\ HistoryInOrder
      /\ history \in Seq(Jobs) /\ Len(history) \in Nat
  BY HistoryFacts, Parameters DEF TrackingInv, Jobs
<1>1. CASE Contains(history, j)
  <2>1. history' = history
    BY <1>1 DEF Observe
  <2> QED BY <1>0, <1>1, <2>1 DEF Contains, HistoryInOrder
<1>2. CASE ~Contains(history, j)
  <2>1. history' = Append(history, j) /\ ObservedDay <= d
    BY <1>2 DEF Observe
  <2>2. \A i \in 1..Len(history) : history[i][2] # d
    <3>1. c # NoControl
      BY FreshControl DEF NoCycles
    <3>2. \A i \in 1..Len(history) : history[i][2] = d => history[i] = j
      BY <3>1 DEF RecordSound, TakenOver
    <3> QED BY <1>2, <3>2 DEF Contains
  <2>3. \A i \in 1..Len(history) : history[i][2] < d
    <3>1. \A i \in 1..Len(history) : history[i][2] \in Nat /\ history[i][2] <= ObservedDay
      BY <1>0, ObservedIsLatest, HistoryFacts, Parameters
    <3>2. ObservedDay \in Nat
      BY <1>0, ObservedIsLatest
    <3> QED BY <1>0, <2>1, <2>2, <3>1, <3>2
  <2>4. /\ Len(history') = Len(history) + 1 /\ history'[Len(history) + 1] = j
        /\ \A i \in 1..Len(history) : history'[i] = history[i]
        /\ history' \in Seq(Jobs)
    BY <1>0, <2>1
  <2> HIDE DEF j
  <2>5. HistoryInOrder'
    <3> SUFFICES ASSUME NEW a \in 1..Len(history'), NEW b \in 1..Len(history'), a < b
                 PROVE  history'[a][2] < history'[b][2]
      BY DEF HistoryInOrder
    <3>1. a \in 1..Len(history) /\ history'[a] = history[a]
      BY <1>0, <2>4
    <3>2. CASE b \in 1..Len(history)
      BY <1>0, <2>4, <3>1, <3>2 DEF HistoryInOrder
    <3>3. CASE b = Len(history) + 1
      BY <1>0, <2>3, <2>4, <3>1, <3>3
    <3>4. b \in 1..Len(history) \/ b = Len(history) + 1
      <4>1. Len(history) \in Nat /\ Len(history') = Len(history) + 1
        BY <1>0, <2>4
      <4> QED BY <4>1
    <3> QED BY <3>2, <3>3, <3>4
  <2> QED BY <1>0, <2>1, <2>4, <2>5 DEF j
<1> QED BY <1>1, <1>2

-----------------------------------------------------------------------------
(* Downloads *)

LEMMA InOrderUpdated ==
    ASSUME NEW c \in Controls, NEW t \in Nat, InOrder(c.updates), TargetsPast(c, t),
           c.updates # <<>>,
           NEW s \in {"downloading", "failed", "revision_review", "published"}
    PROVE  LET r == [c EXCEPT !.updates[Len(c.updates)].status = s] IN
           /\ r \in Controls /\ r.grant = c.grant /\ r.enabled = c.enabled /\ r.due = c.due
           /\ r.accepted = c.accepted /\ r.cycles = c.cycles
           /\ Len(r.updates) = Len(c.updates) /\ InOrder(r.updates) /\ TargetsPast(r, t)
<1> DEFINE n == Len(c.updates)
           v == [c.updates EXCEPT ![n].status = s]
           r == [c EXCEPT !.updates[n].status = s]
<1>1. /\ c.updates \in Seq(Updates) /\ n \in Nat /\ n <= MaxDownloads /\ n \in 1..n
      /\ MaxDownloads \in Nat
  BY ControlTyped, Parameters
<1>2. c.updates[n] \in Updates
  BY <1>1
<1>3. [c.updates[n] EXCEPT !.status = s] \in Updates
      /\ [c.updates[n] EXCEPT !.status = s].target = c.updates[n].target
  BY <1>2 DEF Updates
<1>4. /\ v \in Seq(Updates) /\ Len(v) = n
      /\ v[n].target = c.updates[n].target
      /\ \A a \in 1..n : a # n => v[a] = c.updates[a]
  BY <1>1, <1>3
<1>5. v \in BoundedSeq(Updates, MaxDownloads)
  BY <1>1, <1>4, BoundedSequence
<1>6. r = [c EXCEPT !.updates = v]
  BY ControlFields
<1> HIDE DEF v
<1> DEFINE q == [c EXCEPT !.updates = v]
<1>7. /\ q \in Controls /\ q.grant = c.grant /\ q.enabled = c.enabled /\ q.due = c.due
      /\ q.accepted = c.accepted /\ q.cycles = c.cycles /\ q.updates = v
  BY <1>5, ControlChanged
<1> HIDE DEF q
<1>8. InOrder(v)
  <2> SUFFICES ASSUME NEW a \in 1..n, NEW b \in 1..n, a < b
               PROVE  /\ v[a].target <= v[b].target
                      /\ v[a].target = v[b].target => v[a].status = "failed"
    BY <1>4 DEF InOrder
  <2>1. v[a] = c.updates[a] /\ v[b].target = c.updates[b].target
    BY <1>1, <1>4
  <2> QED BY <2>1 DEF InOrder
<1>9. \A a \in 1..n : v[a].target <= t
  BY <1>4 DEF TargetsPast
<1> HIDE DEF r
<1> QED BY <1>4, <1>6, <1>7, <1>8, <1>9 DEF TargetsPast, q, r

LEMMA InOrderAppended ==
    ASSUME NEW c \in Controls, NEW t \in Days, InOrder(c.updates), TargetsPast(c, t),
           Len(c.updates) < MaxDownloads,
           LastUpdate(c).target # t \/ LastUpdate(c).status = "failed"
    PROVE  LET r == [c EXCEPT !.updates = Append(@, [target |-> t, status |-> "downloading"])] IN
           /\ r \in Controls /\ r.grant = c.grant /\ r.enabled = c.enabled /\ r.due = c.due
           /\ r.accepted = c.accepted /\ r.cycles = c.cycles
           /\ Len(r.updates) = Len(c.updates) + 1 /\ InOrder(r.updates) /\ TargetsPast(r, t)
           /\ LastUpdate(r).status = "downloading"
<1> DEFINE n == Len(c.updates)
           u == [target |-> t, status |-> "downloading"]
           v == Append(c.updates, u)
           r == [c EXCEPT !.updates = Append(@, u)]
           q == [c EXCEPT !.updates = v]
<1>1. /\ c.updates \in Seq(Updates) /\ n \in Nat /\ n < MaxDownloads /\ MaxDownloads \in Nat
      /\ t \in Nat
  BY ControlTyped, Parameters
<1>2. u \in Updates /\ u.target = t /\ u.status = "downloading"
  BY DEF Updates
<1>3. r = q
  BY ControlFields
<1> HIDE DEF u
<1>4. /\ v \in Seq(Updates) /\ Len(v) = n + 1 /\ v[n + 1] = u
      /\ \A a \in 1..n : v[a] = c.updates[a]
  BY <1>1, <1>2
<1>5. v \in BoundedSeq(Updates, MaxDownloads)
  <2>1. Len(v) <= MaxDownloads
    BY <1>1, <1>4
  <2> QED BY <1>1, <1>4, <2>1, BoundedSequence
<1> HIDE DEF v
<1>6. /\ q \in Controls /\ q.grant = c.grant /\ q.enabled = c.enabled /\ q.due = c.due
      /\ q.accepted = c.accepted /\ q.cycles = c.cycles /\ q.updates = v
  BY <1>5, ControlChanged
<1> HIDE DEF q
<1>7. \A a \in 1..n : c.updates[a] \in Updates /\ c.updates[a].target \in Nat
  <2>1. \A x \in Updates : x.target \in Nat
    BY Parameters DEF Updates
  <2> QED BY <1>1, <2>1
<1>8. ASSUME NEW a \in 1..n, c.updates[a].target = t PROVE c.updates[a].status = "failed"
  <2>1. n \in 1..n /\ LastUpdate(c) = c.updates[n]
    BY <1>1, LastIsLast
  <2>2. c.updates[n].target <= t
    BY <2>1 DEF TargetsPast
  <2>3. a < n => /\ c.updates[a].target <= c.updates[n].target
                 /\ c.updates[a].target = c.updates[n].target => c.updates[a].status = "failed"
    BY <2>1 DEF InOrder
  <2> QED BY <1>1, <1>7, <1>8, <2>1, <2>2, <2>3
<1>9. InOrder(v)
  <2> SUFFICES ASSUME NEW a \in 1..(n + 1), NEW b \in 1..(n + 1), a < b
               PROVE  /\ v[a].target <= v[b].target
                      /\ v[a].target = v[b].target => v[a].status = "failed"
    BY <1>4 DEF InOrder
  <2>1. a \in 1..n /\ v[a] = c.updates[a]
    BY <1>1, <1>4
  <2>2. CASE b \in 1..n
    BY <1>4, <2>1, <2>2 DEF InOrder
  <2>3. CASE b = n + 1
    BY <1>2, <1>4, <1>8, <2>1, <2>3 DEF TargetsPast
  <2> QED BY <1>1, <2>2, <2>3
<1>10. \A a \in 1..(n + 1) : v[a].target <= t
  <2> TAKE a \in 1..(n + 1)
  <2>1. CASE a \in 1..n
    BY <1>4, <2>1 DEF TargetsPast
  <2>2. CASE a = n + 1
    BY <1>1, <1>2, <1>4, <2>2
  <2> QED BY <1>1, <2>1, <2>2
<1>11. LastUpdate(q).status = "downloading"
  <2>1. v # <<>> /\ Len(v) = n + 1
    BY <1>1, <1>4
  <2>2. LastUpdate(q) = v[n + 1]
    BY <1>6, <2>1, LastIsLast
  <2> QED BY <1>2, <1>4, <2>2
<1> HIDE DEF r
<1>12. /\ r \in Controls /\ r.grant = c.grant /\ r.enabled = c.enabled /\ r.due = c.due
       /\ r.accepted = c.accepted /\ r.cycles = c.cycles
       /\ Len(r.updates) = n + 1 /\ InOrder(r.updates) /\ TargetsPast(r, t)
       /\ LastUpdate(r).status = "downloading"
  BY <1>3, <1>4, <1>6, <1>9, <1>10, <1>11 DEF TargetsPast
<1> QED BY <1>12 DEF r, u

-----------------------------------------------------------------------------
(* The initial state *)

LEMMA TrackingInit == Init => TrackingInv
<1> SUFFICES ASSUME Init PROVE TrackingInv
  OBVIOUS
<1>1. job = [j \in Jobs |-> "none"] /\ tries = [j \in Jobs |-> 0]
  BY DEF Init, Queue!Init, Jobs
<1>2. TypeOK /\ TriesTyped
  <2>1. control \in Controls /\ mem \in Controls
    BY FreshControl DEF Init, NoTick
  <2>2. archive \in [Grants -> Cycles]
    BY DEF Init, NoCycles, Cycles
  <2>3. receipt \in [Downloads -> {"none", "running", "completed", "failed"}]
    BY DEF Init, NoReceipts
  <2>4. current \in [id : Nat, by : Imports \cup {Others}, end : {0} \cup Days]
    BY DEF Init
  <2>5. history \in Seq(Grants \X Days)
    BY DEF Init
  <2>6. job \in [Grants \X Days -> Queue!Statuses] /\ tries \in [Jobs -> Nat]
    BY <1>1 DEF Queue!Statuses, Jobs
  <2>7. day \in Days /\ stamp = 0 /\ todo = {} /\ at = 0 /\ step = "idle"
    BY Parameters DEF Init, NoTick
  <2> QED BY <2>1, <2>2, <2>3, <2>4, <2>5, <2>6, <2>7 DEF TypeOK, TriesTyped
<1>3. RecordSound(control, job, tries, history) /\ RecordSound(mem, job, tries, history)
  BY DEF Init, NoTick, RecordSound
<1>4. JobsSound
  BY <1>1 DEF Init, JobsSound
<1>5. HistoryInOrder
  BY DEF Init, HistoryInOrder
<1>6. ReceiptsSound
  BY DEF Init, NoReceipts, ReceiptsSound
<1>7. ClockSound
  BY FreshControl, Parameters DEF Init, NoTick, ClockSound, TargetsPast
<1>8. TickSound
  BY DEF Init, NoTick, TickSound
<1> QED BY <1>2, <1>3, <1>4, <1>5, <1>6, <1>7, <1>8 DEF TrackingInv

-----------------------------------------------------------------------------
(* Steps of a tick *)

Steps == {"idle", "settling", "advancing", "updating", "downloading",
          "published", "planning", "submitting", "submitted", "saving"}
Publications == [id : Nat, by : Imports \cup {Others}, end : {0} \cup Days]
Updating == {"updating", "downloading", "published", "planning"}

LEMMA Typed ==
    ASSUME TrackingInv
    PROVE  /\ TypeOK /\ TriesTyped /\ control \in Controls /\ mem \in Controls
           /\ step \in Steps /\ day \in Days /\ todo \subseteq Days /\ stamp \in {0} \cup Days
           /\ day \in Nat /\ stamp \in Nat
           /\ step # "idle" =>
                 /\ mem.grant \in Grants /\ mem.grant = control.grant
                 /\ mem # NoControl /\ control # NoControl
                 /\ InOrder(mem.updates) /\ InOrder(control.updates)
<1>1. /\ TypeOK /\ TriesTyped /\ control \in Controls /\ mem \in Controls
      /\ step \in Steps /\ day \in Days /\ todo \subseteq Days /\ stamp \in {0} \cup Days
  BY DEF TrackingInv, TypeOK, Steps
<1>2. day \in Nat /\ stamp \in Nat
  BY <1>1, Parameters
<1>3. ASSUME step # "idle"
      PROVE  /\ mem.grant \in Grants /\ mem.grant = control.grant
             /\ mem # NoControl /\ control # NoControl
             /\ InOrder(mem.updates) /\ InOrder(control.updates)
  <2>1. mem.grant \in Grants /\ mem.grant = control.grant
    BY <1>3 DEF TrackingInv, TickSound
  <2>2. mem # NoControl /\ control # NoControl
    BY <2>1, FreshControl, Parameters
  <2> QED BY <2>1, <2>2 DEF TrackingInv, RecordSound
<1> QED BY <1>1, <1>2, <1>3

(* Some steps change only the record of the tick, and may save it; what is  *)
(* accepted may be saved later.                                             *)
Saved ==
    /\ control' \in Controls /\ control'.grant = mem'.grant /\ control'.enabled = mem'.enabled
    /\ control'.cycles = mem'.cycles /\ control'.updates = mem'.updates

RecordKept == control' = control /\ Len(mem'.updates) = Len(mem.updates)

LEMMA TickStep ==
    ASSUME TrackingInv, step # "idle", TypeOK',
           UNCHANGED <<day, archive, stamp, receipt, queueVars>>,
           RecordSound(control, job, tries, history'), RecordSound(mem', job, tries, history'),
           HistoryInOrder',
           mem'.grant = mem.grant, mem'.enabled => mem.enabled,
           Len(mem'.updates) >= Len(mem.updates),
           TargetsPast(mem', day),
           step' \notin {"idle", "saving"} => TargetsPast(mem', stamp),
           RecordKept \/ Saved,
           TickSound'
    PROVE  TrackingInv'
<1>0. /\ TypeOK /\ TriesTyped /\ control \in Controls /\ mem \in Controls
      /\ mem.grant \in Grants /\ mem.grant = control.grant
      /\ InOrder(control.updates) /\ mem' \in Controls /\ control' \in Controls
      /\ stamp <= day
  BY Typed DEF TypeOK, TrackingInv, ClockSound
<1>l. /\ Len(mem.updates) = Len(control.updates) /\ Len(control.updates) \in Nat
      /\ Len(control'.updates) \in Nat /\ Len(control'.updates) >= Len(control.updates)
  <2>1. Len(mem.updates) = Len(control.updates)
    BY DEF TrackingInv, TickSound
  <2>2. Len(control.updates) \in Nat /\ Len(control'.updates) \in Nat
    BY <1>0, ControlTyped
  <2> QED BY <2>1, <2>2 DEF RecordKept, Saved
<1>1. TriesTyped'
  BY <1>0 DEF TriesTyped, queueVars
<1>2. RecordSound(mem', job', tries', history')
  BY DEF queueVars
<1>3. RecordSound(control', job', tries', history')
  <2>1. CASE RecordKept
    BY <2>1 DEF RecordKept, queueVars
  <2>2. CASE Saved
    <3>1. mem' # NoControl
      BY <1>0, FreshControl, Parameters
    <3>2. InOrder(mem'.updates)
      BY <1>2, <3>1 DEF RecordSound
    <3> QED BY <1>0, <1>2, <2>2, <3>2, RecordSwitched DEF Saved
  <2> QED BY <2>1, <2>2
<1>4. control'.grant = control.grant
  BY <1>0 DEF RecordKept, Saved
<1>5. JobsSound'
  <2>1. JobsSound
    BY DEF TrackingInv
  <2> QED BY <1>4, <2>1 DEF JobsSound, queueVars
<1>6. ReceiptsSound'
  <2> SUFFICES ASSUME NEW n \in Downloads, receipt[n] # "none"
               PROVE  n <= Len(control'.updates)
    BY DEF ReceiptsSound
  <2>1. n <= Len(control.updates)
    BY DEF TrackingInv, ReceiptsSound
  <2>2. n \in Nat
    BY DEF Downloads
  <2> QED BY <1>l, <2>1, <2>2
<1>7. ClockSound'
  <2>1. TargetsPast(control', day)
    <3>1. CASE RecordKept
      BY <3>1 DEF TrackingInv, ClockSound, RecordKept
    <3>2. CASE Saved
      BY <3>2 DEF Saved, TargetsPast
    <3> QED BY <3>1, <3>2
  <2> QED BY <1>0, <2>1 DEF ClockSound, TargetsPast
<1> QED BY <1>1, <1>2, <1>3, <1>5, <1>6, <1>7 DEF TrackingInv

(* Of these, many leave the cycles alone. *)
LEMMA DataStep ==
    ASSUME TrackingInv, step # "idle",
           mem' \in Controls, control' \in Controls, step' \in Steps, at' \in {0, at},
           current' = current \/ current' \in Publications,
           UNCHANGED <<day, archive, stamp, receipt, history, queueVars>>,
           mem'.grant = mem.grant, mem'.cycles = mem.cycles, mem'.enabled => mem.enabled,
           InOrder(mem'.updates), Len(mem'.updates) >= Len(mem.updates),
           TargetsPast(mem', day),
           step' \notin {"idle", "saving"} => TargetsPast(mem', stamp),
           RecordKept \/ Saved,
           todo' \subseteq todo,
           step' \notin {"idle", "submitting", "submitted"},
           step' \in Updating =>
               mem'.enabled /\ Open(mem) = {} /\ Cardinality(Reserved(mem)) < MaxJobs,
           step' = "downloading" => LastUpdate(mem').status = "downloading",
           step' # "published" => mem'.accepted = control'.accepted
    PROVE  TrackingInv'
<1>0. /\ control \in Controls /\ mem \in Controls
      /\ mem.grant \in Grants /\ mem.grant = control.grant
      /\ mem.enabled => control.enabled
      /\ Len(mem.updates) = Len(control.updates)
      /\ RecordSound(mem, job, tries, history) /\ RecordSound(control, job, tries, history)
      /\ HistoryInOrder
  BY Typed DEF TrackingInv, TickSound
<1>b. mem.enabled \in BOOLEAN /\ mem'.enabled \in BOOLEAN /\ control.enabled \in BOOLEAN
  BY <1>0, ControlTyped
<1>1. RecordSound(mem', job, tries, history)
  BY <1>0, <1>b, RecordSwitched
<1>2. Open(mem') = Open(mem) /\ Reserved(mem') = Reserved(mem)
  BY DEF Open, Reserved
<1>3. /\ mem'.grant = control'.grant
      /\ mem'.enabled => control'.enabled
      /\ Len(mem'.updates) = Len(control'.updates)
  BY <1>0, <1>b DEF RecordKept, Saved
<1>4. \A d \in todo' : mem'.cycles[d] \in Pending /\ control'.cycles[d] = mem'.cycles[d]
  BY DEF TrackingInv, TickSound, RecordKept, Saved
<1>5. TickSound'
  BY <1>0, <1>2, <1>3, <1>4 DEF TickSound, Updating
<1>6. HistoryInOrder'
  BY <1>0 DEF HistoryInOrder
<1>7. TypeOK'
  <2>1. TypeOK
    BY DEF TrackingInv
  <2>2. /\ day' \in Days /\ {control', mem'} \subseteq Controls /\ archive' \in [Grants -> Cycles]
        /\ stamp' \in {0} \cup Days /\ todo' \subseteq Days /\ at' \in {0} \cup Days
    BY <2>1 DEF TypeOK
  <2>3. /\ receipt' \in [Downloads -> {"none", "running", "completed", "failed"}]
        /\ current' \in Publications /\ history' \in Seq(Grants \X Days)
        /\ job' \in [Grants \X Days -> Queue!Statuses]
    BY <2>1 DEF TypeOK, queueVars, Publications
  <2> QED BY <2>2, <2>3 DEF TypeOK, Steps, Publications
<1> QED BY <1>0, <1>1, <1>5, <1>6, <1>7, TickStep

(* And most of these the downloads. *)
LEMMA CalmStep ==
    ASSUME TrackingInv, step \notin {"idle", "saving"},
           mem' \in Controls, control' \in Controls, step' \in Steps, at' \in {0, at},
           UNCHANGED <<day, archive, stamp, receipt, history, queueVars, current>>,
           mem'.grant = mem.grant, mem'.cycles = mem.cycles, mem'.enabled => mem.enabled,
           mem'.updates = mem.updates,
           control' = control \/ Saved,
           todo' \subseteq todo,
           step' \notin {"idle", "submitting", "submitted"},
           step' \in Updating =>
               mem'.enabled /\ Open(mem) = {} /\ Cardinality(Reserved(mem)) < MaxJobs,
           step' = "downloading" => LastUpdate(mem).status = "downloading",
           step' # "published" => mem'.accepted = control'.accepted
    PROVE  TrackingInv'
<1>1. InOrder(mem'.updates) /\ Len(mem'.updates) = Len(mem.updates) /\ Len(mem.updates) \in Nat
  BY Typed, ControlTyped
<1>2. TargetsPast(mem', day) /\ TargetsPast(mem', stamp)
  BY DEF TrackingInv, ClockSound, TargetsPast
<1>3. RecordKept \/ Saved
  BY <1>1 DEF RecordKept
<1>4. LastUpdate(mem') = LastUpdate(mem)
  BY DEF LastUpdate
<1> QED BY <1>1, <1>2, <1>3, <1>4, DataStep

LEMMA FailStep ==
    ASSUME TrackingInv, Fail
    PROVE  TrackingInv'
<1>1. /\ mem' = [mem EXCEPT !.due = FALSE] /\ step' = "saving" /\ todo' = {} /\ at' = 0
      /\ control' = control /\ step \notin {"idle", "saving", "published"}
      /\ UNCHANGED <<day, archive, stamp, receipt, history, queueVars, current>>
  BY DEF Fail, Into, Go, Keep, dataVars
<1>2. /\ mem' \in Controls /\ mem'.grant = mem.grant /\ mem'.cycles = mem.cycles
      /\ mem'.enabled = mem.enabled /\ mem'.updates = mem.updates
      /\ mem'.accepted = mem.accepted
  BY <1>1, Typed, ControlChanged
<1>3. mem.accepted = control.accepted /\ control' \in Controls
  BY <1>1, Typed DEF TrackingInv, TickSound
<1> QED BY <1>1, <1>2, <1>3, CalmStep DEF Steps, Updating

LEMMA SettleEndStep ==
    ASSUME TrackingInv, SettleEnd
    PROVE  TrackingInv'
<1>1. /\ mem' = mem /\ step' = "advancing" /\ todo' = todo /\ at' = at
      /\ control' = mem /\ step = "settling"
      /\ UNCHANGED <<day, archive, stamp, receipt, history, queueVars, current>>
  BY DEF SettleEnd, Persist, Go, Keep, dataVars
<1>2. mem \in Controls
  BY Typed
<1>3. Saved
  BY <1>1, <1>2 DEF Saved
<1> QED BY <1>1, <1>2, <1>3, CalmStep DEF Steps, Updating

LEMMA AdvanceStep ==
    ASSUME TrackingInv, Advance
    PROVE  TrackingInv'
<1>0. /\ step = "advancing" /\ control' = control /\ todo' = todo /\ at' = at
      /\ UNCHANGED <<day, archive, stamp, receipt, history, queueVars, current>>
      /\ mem \in Controls /\ control \in Controls /\ mem.accepted = control.accepted
  BY Typed DEF Advance, Keep, dataVars, TrackingInv, TickSound
<1>p. /\ PutOff \in Controls /\ PutOff.grant = mem.grant /\ PutOff.cycles = mem.cycles
      /\ PutOff.enabled = mem.enabled /\ PutOff.updates = mem.updates
      /\ PutOff.accepted = mem.accepted
  BY <1>0, ControlChanged DEF PutOff
<1>1. CASE ~IsDue /\ UNCHANGED mem /\ Go("saving")
  BY <1>0, <1>1, CalmStep DEF Go, Steps, Updating
<1>2. CASE IsDue /\ Spent /\ Into(Stop(PutOff)) /\ Go("saving")
  <2>1. mem' = [PutOff EXCEPT !.enabled = FALSE] /\ step' = "saving"
    BY <1>2 DEF Into, Stop, Go
  <2>2. /\ mem' \in Controls /\ mem'.grant = mem.grant /\ mem'.cycles = mem.cycles
        /\ mem'.enabled = FALSE /\ mem'.updates = mem.updates /\ mem'.accepted = mem.accepted
    BY <1>p, <2>1, ControlChanged
  <2> QED BY <1>0, <2>1, <2>2, CalmStep DEF Steps, Updating
<1>3. CASE IsDue /\ ~Spent /\ Into(PutOff) /\ Go("updating")
  <2>1. mem' = PutOff /\ step' = "updating" /\ mem.enabled /\ Open(mem) = {}
    BY <1>3 DEF Into, Go, IsDue
  <2>2. Cardinality(Reserved(mem)) < MaxJobs
    <3>1. IsFiniteSet(Days) /\ Reserved(mem) \subseteq Days
      BY Parameters, FS_Interval DEF Days, Reserved
    <3>2. Cardinality(Reserved(mem)) \in Nat
      BY <3>1, FS_Subset, FS_CardinalityType
    <3> QED BY <1>3, <3>2, Parameters DEF Spent
  <2> QED BY <1>0, <1>p, <2>1, <2>2, CalmStep DEF Steps, Updating
<1> QED BY <1>1, <1>2, <1>3 DEF Advance

(* The last download gets another state; what is accepted may change.       *)
LEMMA UpdatedStep ==
    ASSUME TrackingInv, step \in Updating, LastUpdate(mem).status # "none",
           NEW s \in {"downloading", "failed", "revision_review", "published"}, NEW n \in Nat,
           \/ mem' = Updated(s)
           \/ mem' = [Updated(s) EXCEPT !.accepted = n] /\ step' = "published",
           \/ control' = control /\ (step # "published" \/ step' = "published")
           \/ control' = mem'
           \/ control' = [mem' EXCEPT !.accepted = mem.accepted] /\ step' = "published",
           step' \in {"updating", "published", "saving"},
           UNCHANGED <<day, archive, stamp, todo, at, receipt, history, queueVars>>,
           current' = current \/ current' \in Publications
    PROVE  TrackingInv'
<1>0. /\ mem \in Controls /\ control \in Controls /\ stamp \in Nat /\ day \in Nat
      /\ step # "idle" /\ step # "saving" /\ InOrder(mem.updates)
      /\ mem.updates # <<>> /\ Len(mem.updates) \in Nat
  BY Typed, LastIsLast, ControlTyped DEF Updating
<1>1. /\ TargetsPast(mem, day) /\ TargetsPast(mem, stamp)
      /\ step # "published" => mem.accepted = control.accepted
      /\ mem.enabled /\ Open(mem) = {} /\ Cardinality(Reserved(mem)) < MaxJobs
  BY <1>0 DEF TrackingInv, ClockSound, TickSound, Updating
<1>r. PICK r : r = Updated(s)
  OBVIOUS
<1>2. /\ r \in Controls /\ r.grant = mem.grant /\ r.enabled = mem.enabled
      /\ r.accepted = mem.accepted /\ r.cycles = mem.cycles
      /\ Len(r.updates) = Len(mem.updates) /\ InOrder(r.updates)
      /\ TargetsPast(r, day) /\ TargetsPast(r, stamp)
  <2>1. r = [mem EXCEPT !.updates[Len(mem.updates)].status = s]
    BY <1>r DEF Updated
  <2>2. /\ r \in Controls /\ r.grant = mem.grant /\ r.enabled = mem.enabled
        /\ r.accepted = mem.accepted /\ r.cycles = mem.cycles
        /\ Len(r.updates) = Len(mem.updates) /\ InOrder(r.updates) /\ TargetsPast(r, day)
    <3>1. /\ mem \in Controls /\ day \in Nat /\ InOrder(mem.updates) /\ TargetsPast(mem, day)
          /\ mem.updates # <<>>
      BY <1>0, <1>1
    <3> QED BY <2>1, <3>1, InOrderUpdated
  <2>3. TargetsPast(r, stamp)
    <3>1. /\ mem \in Controls /\ stamp \in Nat /\ InOrder(mem.updates) /\ TargetsPast(mem, stamp)
          /\ mem.updates # <<>>
      BY <1>0, <1>1
    <3> QED BY <2>1, <3>1, InOrderUpdated
  <2> QED BY <2>2, <2>3
<1>3. /\ mem' \in Controls /\ mem'.grant = mem.grant /\ mem'.enabled = mem.enabled
      /\ mem'.cycles = mem.cycles /\ mem'.updates = r.updates
      /\ step' # "published" => mem'.accepted = mem.accepted
  <2>1. /\ [r EXCEPT !.accepted = n] \in Controls
        /\ [r EXCEPT !.accepted = n].grant = r.grant /\ [r EXCEPT !.accepted = n].enabled = r.enabled
        /\ [r EXCEPT !.accepted = n].cycles = r.cycles
        /\ [r EXCEPT !.accepted = n].updates = r.updates
    BY <1>2, ControlChanged
  <2>2. mem' = r \/ (mem' = [r EXCEPT !.accepted = n] /\ step' = "published")
    BY <1>r
  <2> QED BY <1>2, <2>1, <2>2
<1>4. control' = control \/ Saved
  <2>1. mem.accepted \in Nat
    BY <1>0, ControlTyped
  <2>2. /\ [mem' EXCEPT !.accepted = mem.accepted] \in Controls
        /\ [mem' EXCEPT !.accepted = mem.accepted].grant = mem'.grant
        /\ [mem' EXCEPT !.accepted = mem.accepted].enabled = mem'.enabled
        /\ [mem' EXCEPT !.accepted = mem.accepted].cycles = mem'.cycles
        /\ [mem' EXCEPT !.accepted = mem.accepted].updates = mem'.updates
    BY <1>3, <2>1, ControlChanged
  <2> QED BY <1>3, <2>2 DEF Saved
<1>5. RecordKept \/ Saved
  BY <1>2, <1>3, <1>4 DEF RecordKept
<1>6. control' \in Controls
  BY <1>0, <1>4 DEF Saved
<1>7. TargetsPast(mem', day) /\ TargetsPast(mem', stamp)
  BY <1>2, <1>3 DEF TargetsPast
<1>8. step' # "published" => mem'.accepted = control'.accepted
  BY <1>1, <1>3
<1> QED BY <1>0, <1>1, <1>2, <1>3, <1>5, <1>6, <1>7, <1>8, DataStep DEF Steps, Updating

LEMMA UpdateFacts ==
    ASSUME TrackingInv, step \in Updating
    PROVE  /\ mem \in Controls /\ control \in Controls /\ current \in Publications
           /\ current.id \in Nat /\ current.end \in {0} \cup Days
           /\ mem.enabled /\ Open(mem) = {} /\ Cardinality(Reserved(mem)) < MaxJobs
           /\ step # "published" => mem.accepted = control.accepted
           /\ step = "downloading" => LastUpdate(mem).status = "downloading"
           /\ mem.grant \in Grants /\ mem.grant = control.grant
BY Typed DEF TrackingInv, TypeOK, TickSound, Updating, Publications

LEMMA OwnImportTyped ==
    ASSUME NEW c \in Controls, c.grant \in Grants, LastUpdate(c).status # "none"
    PROVE  /\ OwnImport(c) \in Imports /\ LastUpdate(c).target \in Days
           /\ Len(c.updates) \in Downloads
<1>1. Len(c.updates) \in Downloads /\ LastUpdate(c) \in Updates
  BY LastIsLast
<1> QED BY <1>1 DEF OwnImport, Imports, Updates

LEMMA MaybeUpdateStep ==
    ASSUME TrackingInv,
           \/ UpdateRecover \/ UpdateCurrent \/ UpdateWait \/ UpdateGiveUp \/ UpdateResume
           \/ UpdateReserve
    PROVE  TrackingInv'
<1>0. /\ step = "updating"
      /\ UNCHANGED <<day, archive, stamp, todo, at, receipt, history, queueVars, current>>
  BY DEF UpdateRecover, UpdateCurrent, UpdateWait, UpdateGiveUp, UpdateResume, UpdateReserve,
         Owned, Behind, Keep, updateFrame, dataVars
<1>1. step \in Updating /\ step \notin {"idle", "saving"} /\ UNCHANGED dataVars
  BY <1>0 DEF Updating, dataVars
<1>2. /\ mem \in Controls /\ control \in Controls /\ current \in Publications
      /\ current.id \in Nat /\ current.end \in {0} \cup Days
      /\ mem.enabled /\ Open(mem) = {} /\ Cardinality(Reserved(mem)) < MaxJobs
      /\ mem.accepted = control.accepted
  BY <1>0, <1>1, UpdateFacts
<1>3. CASE UpdateRecover
  <2>1. /\ mem' = [Updated("published") EXCEPT !.accepted = current.id]
        /\ control' = [mem' EXCEPT !.accepted = mem.accepted] /\ step' = "published"
        /\ LastUpdate(mem).status # "none"
    BY <1>3 DEF UpdateRecover, Recovering, Into, Persist, Go
  <2> QED BY <1>0, <1>1, <1>2, <2>1, UpdatedStep
<1>4. CASE UpdateCurrent
  <2>1. mem' = mem /\ control' = control /\ step' = "planning"
    BY <1>4 DEF UpdateCurrent, Go
  <2> QED BY <1>0, <1>1, <1>2, <2>1, CalmStep DEF Steps, Updating
<1>5. CASE UpdateWait
  <2>1. mem' = mem /\ control' = control /\ step' = "saving"
    BY <1>5 DEF UpdateWait, Go
  <2> QED BY <1>0, <1>1, <1>2, <2>1, CalmStep DEF Steps, Updating
<1>6. CASE UpdateGiveUp
  <2>1. mem' = Updated("failed") /\ control' = mem' /\ step' = step
        /\ LastUpdate(mem).status # "none"
    BY <1>6 DEF UpdateGiveUp, IsLast, Into, Persist
  <2> QED BY <1>0, <1>1, <1>2, <2>1, UpdatedStep
<1>7. CASE UpdateResume
  <2>1. mem' = mem /\ control' = control /\ step' = "downloading"
        /\ LastUpdate(mem).status = "downloading"
    BY <1>7 DEF UpdateResume, Go, IsLast
  <2> QED BY <1>0, <1>1, <1>2, <2>1, CalmStep DEF Steps, Updating
<1>8. CASE UpdateReserve
  <2>1. CASE Len(mem.updates) >= MaxDownloads
    <3>1. mem' = [mem EXCEPT !.enabled = FALSE] /\ control' = control /\ step' = "saving"
      BY <1>8, <2>1 DEF UpdateReserve, Into, Stop, Go
    <3>2. /\ mem' \in Controls /\ mem'.grant = mem.grant /\ mem'.cycles = mem.cycles
          /\ mem'.enabled = FALSE /\ mem'.updates = mem.updates /\ mem'.accepted = mem.accepted
      BY <1>2, <3>1, ControlChanged
    <3> QED BY <1>0, <1>1, <1>2, <3>1, <3>2, CalmStep DEF Steps, Updating
  <2>2. CASE ~(Len(mem.updates) >= MaxDownloads)
    <3> DEFINE t == stamp
               r == [mem EXCEPT !.updates = Append(@, [target |-> stamp,
                                                       status |-> "downloading"])]
    <3>1. mem' = r /\ control' = mem' /\ step' = "downloading"
      BY <1>8, <2>2 DEF UpdateReserve, Into, Persist, Go
    <3>2. /\ Len(mem.updates) \in Nat /\ Len(mem.updates) < MaxDownloads
          /\ InOrder(mem.updates) /\ TargetsPast(mem, stamp) /\ stamp <= day
      BY <1>0, <1>2, <2>2, Typed, ControlTyped, Parameters DEF TrackingInv, ClockSound
    <3>3. stamp \in Days /\ day \in Nat /\ stamp \in Nat
      <4>1. stamp # 0
        BY <1>2, <1>8, Parameters, Typed DEF UpdateReserve, Behind
      <4> QED BY <4>1, Typed
    <3>4. LastUpdate(mem).target # stamp \/ LastUpdate(mem).status = "failed"
      BY <1>8 DEF UpdateReserve, ForThisDay, IsLast
    <3>5. /\ r \in Controls /\ r.grant = mem.grant /\ r.enabled = mem.enabled /\ r.due = mem.due
          /\ r.accepted = mem.accepted /\ r.cycles = mem.cycles
          /\ Len(r.updates) = Len(mem.updates) + 1 /\ InOrder(r.updates)
          /\ TargetsPast(r, stamp) /\ LastUpdate(r).status = "downloading"
      BY <1>2, <3>2, <3>3, <3>4, InOrderAppended
    <3> HIDE DEF r
    <3>6. TargetsPast(r, day)
      <4>1. \A a \in 1..Len(r.updates) : r.updates[a].target \in Nat
        BY <3>5, TargetsAreTimes
      <4> QED BY <3>2, <3>3, <3>5, <4>1 DEF TargetsPast
    <3>7. Saved /\ Len(mem'.updates) >= Len(mem.updates)
      BY <3>1, <3>2, <3>5 DEF Saved
    <3> QED BY <1>0, <1>1, <1>2, <3>1, <3>5, <3>6, <3>7, DataStep DEF Steps, Updating
  <2> QED BY <2>1, <2>2
<1> QED BY <1>3, <1>4, <1>5, <1>6, <1>7, <1>8

LEMMA DownloadedStep ==
    ASSUME TrackingInv,
           \/ UpdateFailed \/ PublishFound \/ Publish \/ Accept \/ PlanNothing
    PROVE  TrackingInv'
<1>0. /\ step \in Updating /\ step \notin {"idle", "saving"}
      /\ UNCHANGED <<day, archive, stamp, todo, at, receipt, history, queueVars>>
  BY DEF UpdateFailed, PublishFound, Publish, Accept, PlanNothing, Downloaded,
         Keep, updateFrame, dataVars, Updating
<1>2. /\ mem \in Controls /\ control \in Controls /\ current \in Publications
      /\ current.id \in Nat /\ current.end \in {0} \cup Days
      /\ mem.enabled /\ Open(mem) = {} /\ Cardinality(Reserved(mem)) < MaxJobs
      /\ step # "published" => mem.accepted = control.accepted
      /\ step = "downloading" => LastUpdate(mem).status = "downloading"
      /\ mem.grant \in Grants
  BY <1>0, UpdateFacts
<1>3. CASE UpdateFailed
  <2>1. /\ step = "downloading" /\ step' = "saving" /\ control' = control /\ current' = current
        /\ mem' = Updated("failed") \/ mem' = Updated("revision_review")
    BY <1>3 DEF UpdateFailed, Downloaded, Into, Go, dataVars
  <2> QED BY <1>0, <1>2, <2>1, UpdatedStep
<1>4. CASE PublishFound
  <2>1. /\ step = "downloading" /\ step' = "published" /\ current' = current
        /\ mem' = [Updated("published") EXCEPT !.accepted = current.id]
        /\ control' = [mem' EXCEPT !.accepted = mem.accepted]
    BY <1>4 DEF PublishFound, Downloaded, Into, Persist, Go, dataVars
  <2> QED BY <1>0, <1>2, <2>1, UpdatedStep
<1>5. CASE Publish
  <2>1. /\ step = "downloading" /\ step' = "published" /\ control' = control
        /\ current' = [id |-> current.id + 1, by |-> OwnImport(mem),
                       end |-> LastUpdate(mem).target]
        /\ mem' = [Updated("published") EXCEPT !.accepted = current'.id]
    BY <1>5 DEF Publish, Downloaded, Into, Go
  <2>2. LastUpdate(mem).status # "none"
    BY <1>2, <2>1
  <2>3. current' \in Publications /\ current'.id \in Nat
    BY <1>2, <2>1, <2>2, OwnImportTyped DEF Publications
  <2> QED BY <1>0, <2>1, <2>2, <2>3, UpdatedStep
<1>6. CASE Accept
  <2>1. mem' = mem /\ control' = mem /\ step' = "planning" /\ current' = current
    BY <1>6 DEF Accept, Persist, Go, dataVars
  <2>2. Saved
    BY <1>2, <2>1 DEF Saved
  <2> QED BY <1>0, <1>2, <2>1, <2>2, CalmStep DEF Steps, Updating
<1>7. CASE PlanNothing
  <2>1. /\ step = "planning" /\ step' = "saving" /\ control' = control /\ current' = current
        /\ mem' = mem \/ mem' = [mem EXCEPT !.enabled = FALSE]
    BY <1>7 DEF PlanNothing, Into, Stop, Go, dataVars
  <2>2. /\ mem' \in Controls /\ mem'.grant = mem.grant /\ mem'.cycles = mem.cycles
        /\ mem'.enabled => mem.enabled
        /\ mem'.updates = mem.updates /\ mem'.accepted = mem.accepted
    <3>1. CASE mem' = mem
      BY <1>2, <3>1
    <3>2. CASE mem' = [mem EXCEPT !.enabled = FALSE]
      BY <1>2, <3>2, ControlChanged
    <3> QED BY <2>1, <3>1, <3>2
  <2> QED BY <1>0, <1>2, <2>1, <2>2, CalmStep DEF Steps, Updating
<1> QED BY <1>3, <1>4, <1>5, <1>6, <1>7

-----------------------------------------------------------------------------
(* The surroundings: the record stays, and a tick goes on or is killed. *)

LEMMA SurroundingStep ==
    ASSUME TrackingInv, UNCHANGED <<control, archive, history>>,
           UNCHANGED tickVars \/ NoTick2,
           day' \in Days, day' >= day,
           receipt' \in [Downloads -> {"none", "running", "completed", "failed"}],
           ReceiptsSound', current' \in Publications,
           job' \in [Grants \X Days -> Queue!Statuses], tries' \in [Jobs -> Nat],
           Onward(job, tries, job', tries')
    PROVE  TrackingInv'
<1>0. /\ TypeOK /\ TriesTyped /\ control \in Controls /\ mem \in Controls
      /\ day \in Nat /\ stamp \in Nat /\ day' \in Nat /\ stamp <= day
      /\ RecordSound(control, job, tries, history) /\ RecordSound(mem, job, tries, history)
      /\ HistoryInOrder /\ JobsSound
  BY Typed, Parameters DEF TrackingInv, ClockSound
<1>1. TypeOK' /\ TriesTyped'
  <2>1. mem' \in Controls /\ step' \in Steps /\ stamp' \in {0} \cup Days
        /\ todo' \subseteq Days /\ at' \in {0} \cup Days
    BY <1>0, FreshControl DEF TypeOK, tickVars, NoTick2, Steps
  <2>2. control' \in Controls /\ archive' \in [Grants -> Cycles]
        /\ history' \in Seq(Grants \X Days)
    BY <1>0 DEF TypeOK
  <2> QED BY <2>1, <2>2 DEF TypeOK, TriesTyped, Steps, Publications
<1>2. RecordSound(control', job', tries', history')
  <2>1. RecordSound(control, job', tries', history)
    BY <1>0, RecordOnward DEF TriesTyped
  <2> QED BY <2>1
<1>3. RecordSound(mem', job', tries', history')
  <2>1. CASE mem' = NoControl
    BY <2>1 DEF RecordSound
  <2>2. CASE mem' = mem
    <3>1. RecordSound(mem, job', tries', history)
      BY <1>0, RecordOnward DEF TriesTyped
    <3> QED BY <2>2, <3>1
  <2> QED BY <2>1, <2>2 DEF tickVars, NoTick2
<1>4. JobsSound'
  <2>1. ASSUME NEW j \in Jobs, job'[j] # "none"
        PROVE  /\ j[1] <= control.grant
               /\ tries'[j] >= 1
               /\ j[1] < control.grant =>
                     /\ archive[j[1]][j[2]] \notin {"none", "abandoned"}
                     /\ job'[j] \in {"queued", "running"} => tries'[j] > 1
    <3>1. /\ job[j] # "none" /\ tries'[j] >= tries[j]
          /\ job'[j] \in {"queued", "running"} /\ job[j] \notin {"queued", "running"} =>
                tries'[j] > 1
      BY <2>1 DEF Onward
    <3>2. tries[j] \in Nat /\ tries'[j] \in Nat
      BY <1>0 DEF TriesTyped
    <3> QED BY <1>0, <3>1, <3>2 DEF JobsSound
  <2> QED BY <1>0, <2>1 DEF JobsSound
<1>5. HistoryInOrder'
  BY <1>0 DEF HistoryInOrder
<1>6. ClockSound'
  <2>1. \A a \in 1..Len(control.updates) : control.updates[a].target \in Nat
    BY <1>0, TargetsAreTimes
  <2>2. \A a \in 1..Len(mem.updates) : mem.updates[a].target \in Nat
    BY <1>0, TargetsAreTimes
  <2>3. TargetsPast(control, day') /\ TargetsPast(mem, day')
    BY <1>0, <2>1, <2>2 DEF TrackingInv, ClockSound, TargetsPast
  <2>4. CASE UNCHANGED tickVars
    BY <1>0, <2>3, <2>4 DEF TrackingInv, ClockSound, TargetsPast, tickVars
  <2>5. CASE NoTick2
    BY <1>0, <2>3, <2>5, FreshControl DEF ClockSound, TargetsPast, NoTick2
  <2> QED BY <2>4, <2>5
<1>7. TickSound'
  <2>1. CASE UNCHANGED tickVars
    BY <2>1 DEF TrackingInv, TickSound, tickVars, NoTick
  <2>2. CASE NoTick2
    BY <2>2 DEF TickSound, NoTick, NoTick2
  <2> QED BY <2>1, <2>2
<1> QED BY <1>1, <1>2, <1>3, <1>4, <1>5, <1>6, <1>7 DEF TrackingInv

(* The queue *)
LEMMA QueueKept ==
    ASSUME TrackingInv, UNCHANGED queueVars
    PROVE  /\ job' \in [Grants \X Days -> Queue!Statuses] /\ tries' \in [Jobs -> Nat]
           /\ Onward(job, tries, job', tries')
<1>1. job \in [Grants \X Days -> Queue!Statuses] /\ tries \in [Jobs -> Nat]
  BY DEF TrackingInv, TypeOK, TriesTyped
<1> QED BY <1>1 DEF Onward, queueVars

LEMMA QueueMoves ==
    ASSUME TrackingInv, NEW j \in Jobs,
           Queue!Start(j) \/ Queue!End(j) \/ Queue!Cancel(j) \/ Queue!Retry(j)
    PROVE  /\ job' \in [Grants \X Days -> Queue!Statuses] /\ tries' \in [Jobs -> Nat]
           /\ Onward(job, tries, job', tries')
<1>1. job \in [Jobs -> Queue!Statuses] /\ tries \in [Jobs -> Nat]
  BY DEF TrackingInv, TypeOK, TriesTyped, Jobs
<1>2. job[j] # "none" => tries[j] >= 1
  BY DEF TrackingInv, JobsSound
<1>3. /\ job' \in [Jobs -> Queue!Statuses] /\ tries' \in [Jobs -> Nat]
      /\ Onward(job, tries, job', tries')
  <2>1. CASE Queue!Start(j)
    BY <1>1, <2>1 DEF Queue!Start, Queue!Statuses, Queue!Active, Onward
  <2>2. CASE Queue!End(j)
    BY <1>1, <2>2 DEF Queue!End, Queue!Statuses, Queue!Active, Onward
  <2>3. CASE Queue!Cancel(j)
    BY <1>1, <2>3 DEF Queue!Cancel, Queue!Statuses, Queue!Active, Onward
  <2>4. CASE Queue!Retry(j)
    BY <1>1, <1>2, <2>4 DEF Queue!Retry, Queue!Queued, Queue!Statuses, Queue!Active, Onward
  <2> QED BY <2>1, <2>2, <2>3, <2>4
<1> QED BY <1>3 DEF Jobs

LEMMA QueueRestarts ==
    ASSUME TrackingInv, Queue!Restart
    PROVE  /\ job' \in [Grants \X Days -> Queue!Statuses] /\ tries' \in [Jobs -> Nat]
           /\ Onward(job, tries, job', tries')
<1>1. job \in [Grants \X Days -> Queue!Statuses] /\ tries \in [Jobs -> Nat]
  BY DEF TrackingInv, TypeOK, TriesTyped
<1> QED BY <1>1 DEF Queue!Restart, Queue!Statuses, Queue!Active, Onward, Jobs

LEMMA SurroundingsStep ==
    ASSUME TrackingInv,
           \/ \E j \in Grants \X Days : JobRuns(j) \/ JobHandled(j)
           \/ NextDay \/ ForeignPublish \/ ChildEnds \/ Crash \/ DownloadStart
    PROVE  TrackingInv'
<1>0. /\ day \in Days /\ day \in Nat /\ control \in Controls /\ mem \in Controls
      /\ receipt \in [Downloads -> {"none", "running", "completed", "failed"}]
      /\ ReceiptsSound /\ current \in Publications
      /\ control.grant \in 0..MaxGrants
  BY Typed, ControlTyped DEF TrackingInv, TypeOK, Publications
<1>1. ReceiptsSound' \/ ~(UNCHANGED <<receipt, control>>)
  BY <1>0 DEF ReceiptsSound
<1>2. CASE \E j \in Grants \X Days : JobRuns(j) \/ JobHandled(j)
  <2>1. PICK j \in Jobs : JobRuns(j) \/ JobHandled(j)
    BY <1>2 DEF Jobs
  <2>2. /\ Queue!Start(j) \/ Queue!End(j) \/ Queue!Cancel(j) \/ Queue!Retry(j)
        /\ UNCHANGED <<day, control, current, archive, tickVars, receipt, history>>
    BY <2>1 DEF JobRuns, JobHandled, outside
  <2> QED BY <1>0, <1>1, <2>2, QueueMoves, SurroundingStep
<1>3. CASE NextDay
  <2>1. /\ day' = day + 1 /\ day' \in Days
        /\ UNCHANGED <<control, current, queueVars, archive, tickVars, receipt, history>>
    BY <1>0, <1>3, Parameters DEF NextDay, outside, Days
  <2> QED BY <1>0, <1>1, <2>1, QueueKept, SurroundingStep
<1>4. CASE ForeignPublish
  <2>1. /\ UNCHANGED <<day, control, queueVars, archive, tickVars, receipt, history>>
    BY <1>4 DEF ForeignPublish, outside
  <2>2. PICK end \in current.end..day, by \in {Others, OwnImport(control)} :
          /\ by # Others => LastUpdate(control).status \in {"downloading", "revision_review"}
          /\ current' = [id |-> current.id + 1, by |-> by, end |-> end]
    BY <1>4 DEF ForeignPublish
  <2>3. by \in Imports \cup {Others}
    <3>1. CASE by = Others
      BY <3>1
    <3>2. CASE by # Others
      <4>1. by = OwnImport(control) /\ LastUpdate(control).status # "none"
        BY <2>2, <3>2
      <4>2. control.updates # <<>>
        BY <1>0, <4>1, LastIsLast
      <4>3. control.grant \in Grants
        BY <4>2, FreshControl DEF TrackingInv, RecordSound
      <4> QED BY <1>0, <4>1, <4>3, OwnImportTyped
    <3> QED BY <3>1, <3>2
  <2>4. end \in {0} \cup Days /\ current.id \in Nat
    <3>1. current.end \in {0} \cup Days /\ current.id \in Nat
      BY <1>0 DEF Publications
    <3>2. end \in Nat /\ end <= LastDay
      BY <1>0, <3>1, Parameters DEF Days
    <3> QED BY <3>1, <3>2, Parameters DEF Days
  <2>5. current' \in Publications
    BY <2>2, <2>3, <2>4 DEF Publications
  <2> QED BY <1>0, <1>1, <2>1, <2>5, QueueKept, SurroundingStep
<1>5. CASE ChildEnds
  <2>1. /\ UNCHANGED <<day, control, archive, tickVars, current, history, queueVars>>
        /\ \E i \in Downloads, outcome \in {"completed", "failed"} :
             /\ receipt[i] = "running"
             /\ receipt' = [receipt EXCEPT ![i] = outcome]
    BY <1>5 DEF ChildEnds
  <2>2. receipt' \in [Downloads -> {"none", "running", "completed", "failed"}]
    BY <1>0, <2>1
  <2>3. \A n \in Downloads : receipt'[n] # "none" => receipt[n] # "none"
    BY <1>0, <2>1
  <2>4. ReceiptsSound'
    BY <1>0, <2>1, <2>3 DEF ReceiptsSound
  <2> QED BY <1>0, <2>1, <2>2, <2>4, QueueKept, SurroundingStep
<1>6. CASE Crash
  <2>1. /\ UNCHANGED <<day, control, archive, receipt, current, history>>
        /\ NoTick2 /\ Queue!Restart
    BY <1>6 DEF Crash, dataVars
  <2> QED BY <1>0, <1>1, <2>1, QueueRestarts, SurroundingStep
<1>7. CASE DownloadStart
  <2>1. /\ UNCHANGED <<day, control, archive, tickVars, current, history, queueVars>>
        /\ receipt' = [receipt EXCEPT ![Len(mem.updates)] = "running"]
        /\ step # "idle"
    BY <1>7 DEF DownloadStart, updateFrame, Keep, tickVars
  <2>2. receipt' \in [Downloads -> {"none", "running", "completed", "failed"}]
    BY <1>0, <2>1
  <2>3. Len(mem.updates) = Len(control.updates) /\ Len(control.updates) \in Nat
    BY <1>0, <2>1, ControlTyped DEF TrackingInv, TickSound
  <2>4. \A n \in Downloads : receipt'[n] # "none" =>
            receipt[n] # "none" \/ n = Len(control.updates)
    BY <1>0, <2>1, <2>3
  <2>5. ReceiptsSound'
    BY <1>0, <2>1, <2>3, <2>4 DEF ReceiptsSound
  <2> QED BY <1>0, <2>1, <2>2, <2>5, QueueKept, SurroundingStep
<1> QED BY <1>2, <1>3, <1>4, <1>5, <1>6, <1>7

-----------------------------------------------------------------------------
(* The saved record changes between ticks. *)

LEMMA BetweenFacts ==
    ASSUME TrackingInv, step = "idle"
    PROVE  /\ NoTick /\ control \in Controls
           /\ TargetsPast(control, day) /\ TargetsPast(mem, day)
BY Typed DEF TrackingInv, TickSound, ClockSound

LEMMA AuthorizeStep ==
    ASSUME TrackingInv, Authorize
    PROVE  TrackingInv'
<1>0. /\ TypeOK /\ TriesTyped /\ NoTick /\ control \in Controls /\ JobsSound
      /\ control.grant \in 0..MaxGrants /\ control.grant < MaxGrants /\ MaxGrants \in Nat
      /\ control.cycles \in [Days -> CycleStates] /\ current.id \in Nat
      /\ Open(control) = {} /\ RecordSound(control, job, tries, history)
      /\ archive \in [Grants -> Cycles]
  BY BetweenFacts, ControlTyped, Parameters
  DEF TrackingInv, Authorize, Unlocked, MayReplace, TypeOK
<1>1. /\ archive' = IF control.grant = 0 THEN archive
                    ELSE [archive EXCEPT ![control.grant] = control.cycles]
      /\ receipt' = NoReceipts
      /\ UNCHANGED <<day, tickVars, current, history, queueVars>>
  BY DEF Authorize
<1> DEFINE g == control.grant + 1
<1>2. g \in Grants /\ g \in 0..MaxGrants
  BY <1>0 DEF Grants
<1>3. /\ control'.grant = g /\ control'.cycles = NoCycles /\ control'.updates = <<>>
      /\ control' \in Controls /\ control' # NoControl
  <2>1. control' = [grant |-> g, enabled |-> TRUE, due |-> TRUE, accepted |-> current.id,
                    updates |-> <<>>, cycles |-> NoCycles]
    BY DEF Authorize, NoControl
  <2>2. NoCycles \in [Days -> CycleStates] /\ <<>> \in BoundedSeq(Updates, MaxDownloads)
    BY FreshControl, ControlFields
  <2>3. control' \in Controls
    BY <1>0, <1>2, <2>1, <2>2, ControlFields
  <2> QED BY <1>0, <2>1, <2>3, FreshControl
<1>4. archive' \in [Grants -> Cycles]
  <2>1. control.cycles \in Cycles
    BY <1>0 DEF Cycles, CycleStates
  <2> QED BY <1>0, <1>1, <2>1
<1>5. TypeOK' /\ TriesTyped'
  <2>1. receipt' \in [Downloads -> {"none", "running", "completed", "failed"}]
    BY <1>1 DEF NoReceipts
  <2>2. mem' \in Controls
    BY <1>0, <1>1 DEF TypeOK, tickVars
  <2>3. /\ day' \in Days /\ step' \in Steps /\ stamp' \in {0} \cup Days /\ todo' \subseteq Days
        /\ at' \in {0} \cup Days /\ current' \in Publications
        /\ history' \in Seq(Grants \X Days) /\ job' \in [Grants \X Days -> Queue!Statuses]
        /\ TriesTyped'
    BY <1>0, <1>1 DEF TypeOK, TriesTyped, tickVars, queueVars, Steps, Publications
  <2> QED BY <1>3, <1>4, <2>1, <2>2, <2>3 DEF TypeOK, Steps, Publications
<1>6. RecordSound(control', job', tries', history')
  <2>1. Open(control') = {} /\ Reserved(control') = {}
    BY <1>3 DEF Open, Reserved, NoCycles, Pending
  <2>2. Cardinality(Reserved(control')) <= MaxJobs
    BY <2>1, FS_EmptySet, Parameters
  <2>3. Accounted(control', job', tries')
    <3>1. \A d \in Days : job[<<g, d>>] = "none"
      <4> SUFFICES ASSUME NEW d \in Days, job[<<g, d>>] # "none" PROVE FALSE
        OBVIOUS
      <4>1. <<g, d>> \in Jobs /\ <<g, d>>[1] = g
        BY <1>2 DEF Jobs
      <4>2. g <= control.grant
        BY <1>0, <4>1 DEF JobsSound
      <4> QED BY <1>0, <4>2
    <3> QED BY <1>1, <1>3, <3>1 DEF Accounted, NoCycles, Settled, queueVars
  <2>4. TakenOver(control', history') /\ Waiting(control', job', history') /\ OneAtATime(control')
    BY <1>3, <2>1 DEF TakenOver, Waiting, OneAtATime, NoCycles
  <2>5. InOrder(control'.updates)
    BY <1>3 DEF InOrder
  <2> QED BY <1>2, <1>3, <2>2, <2>3, <2>4, <2>5 DEF RecordSound
<1>7. RecordSound(mem', job', tries', history')
  BY <1>0, <1>1 DEF RecordSound, NoTick, tickVars
<1>8. JobsSound'
  <2>1. ASSUME NEW h \in Grants, h >= g PROVE archive'[h] = NoCycles
    <3>1. h # control.grant /\ h >= control.grant
      BY <1>0, <2>1, Parameters
    <3> QED BY <1>0, <1>1, <3>1 DEF JobsSound
  <2>2. ASSUME NEW j \in Jobs, job[j] # "none"
        PROVE  /\ j[1] <= g
               /\ tries[j] >= 1
               /\ j[1] < g =>
                     /\ archive'[j[1]][j[2]] \notin {"none", "abandoned"}
                     /\ job[j] \in {"queued", "running"} => tries[j] > 1
    <3>1. j[1] \in Grants /\ j[2] \in Days /\ j = <<j[1], j[2]>> /\ j[1] \in Nat
      <4>1. j[1] \in Grants /\ j[2] \in Days /\ j = <<j[1], j[2]>>
        BY DEF Jobs
      <4> QED BY <4>1, Parameters
    <3>2. /\ j[1] <= control.grant /\ tries[j] >= 1
          /\ j[1] < control.grant =>
                /\ archive[j[1]][j[2]] \notin {"none", "abandoned"}
                /\ job[j] \in {"queued", "running"} => tries[j] > 1
      BY <1>0, <2>2 DEF JobsSound
    <3>3. CASE j[1] < control.grant
      BY <1>0, <1>1, <3>1, <3>2, <3>3
    <3>4. CASE j[1] = control.grant
      <4>1. control.grant \in Grants /\ control.grant # 0 /\ control # NoControl
        BY <3>1, <3>4, Parameters, FreshControl
      <4>2. archive'[j[1]] = control.cycles
        BY <1>0, <1>1, <3>4, <4>1
      <4>3. Accounted(control, job, tries)
        BY <1>0, <4>1 DEF RecordSound
      <4>4. control.cycles[j[2]] \notin {"none", "abandoned"}
        BY <2>2, <3>1, <3>4, <4>3 DEF Accounted
      <4>5. control.cycles[j[2]] \in CycleStates /\ control.cycles[j[2]] \notin Pending
        BY <1>0, <3>1 DEF Open
      <4>6. control.cycles[j[2]] \in Settled
        BY <4>4, <4>5 DEF CycleStates
      <4>7. job[j] \in {"queued", "running"} => tries[j] > 1
        BY <3>1, <3>4, <4>3, <4>6 DEF Accounted
      <4> QED BY <1>0, <3>2, <3>4, <4>2, <4>4, <4>7
    <3> QED BY <1>0, <3>1, <3>2, <3>3, <3>4
  <2> HIDE DEF g
  <2> QED BY <1>1, <1>3, <2>1, <2>2 DEF JobsSound, queueVars
<1>9. HistoryInOrder'
  BY <1>1 DEF TrackingInv, HistoryInOrder
<1>10. ReceiptsSound'
  BY <1>1 DEF ReceiptsSound, NoReceipts
<1>11. ClockSound'
  BY <1>1, <1>3 DEF TrackingInv, ClockSound, TargetsPast, tickVars
<1>12. TickSound'
  BY <1>0, <1>1 DEF TickSound, NoTick, tickVars
<1> QED BY <1>5, <1>6, <1>7, <1>8, <1>9, <1>10, <1>11, <1>12 DEF TrackingInv

(* Switched off by a person, or due again *)
LEMMA SwitchStep ==
    ASSUME TrackingInv, Revoke \/ Wake
    PROVE  TrackingInv'
<1>0. /\ TypeOK /\ NoTick /\ control \in Controls /\ JobsSound /\ control.enabled
      /\ RecordSound(control, job, tries, history)
  BY BetweenFacts DEF TrackingInv, Revoke, Wake, Unlocked
<1>1. /\ control' = [control EXCEPT !.enabled = FALSE] \/ control' = [control EXCEPT !.due = TRUE]
      /\ UNCHANGED <<day, archive, tickVars, receipt, current, history, queueVars>>
  BY DEF Revoke, Wake, dataVars, outside
<1>2. /\ control' \in Controls /\ control'.grant = control.grant
      /\ control'.cycles = control.cycles /\ control'.updates = control.updates
  <2>1. CASE control' = [control EXCEPT !.enabled = FALSE]
    BY <1>0, <2>1, ControlChanged
  <2>2. CASE control' = [control EXCEPT !.due = TRUE]
    BY <1>0, <2>2, ControlChanged
  <2> QED BY <1>1, <2>1, <2>2
<1>3. control.grant \in Grants /\ InOrder(control.updates)
  BY <1>0, FreshControl DEF RecordSound
<1>4. RecordSound(control', job, tries, history)
  BY <1>0, <1>2, <1>3, RecordSwitched
<1>5. RecordSound(control', job', tries', history') /\ RecordSound(mem', job', tries', history')
  BY <1>0, <1>1, <1>4 DEF RecordSound, NoTick, tickVars, queueVars
<1>6. TypeOK' /\ TriesTyped'
  <2>1. mem' \in Controls /\ archive' \in [Grants -> Cycles]
    BY <1>0, <1>1 DEF TypeOK, tickVars
  <2>2. /\ receipt' \in [Downloads -> {"none", "running", "completed", "failed"}]
        /\ day' \in Days /\ step' \in Steps /\ stamp' \in {0} \cup Days /\ todo' \subseteq Days
        /\ at' \in {0} \cup Days /\ current' \in Publications
        /\ history' \in Seq(Grants \X Days) /\ job' \in [Grants \X Days -> Queue!Statuses]
    BY <1>0, <1>1 DEF TypeOK, tickVars, queueVars, Steps, Publications
  <2>3. TriesTyped'
    BY <1>1 DEF TrackingInv, TriesTyped, queueVars
  <2> QED BY <1>2, <2>1, <2>2, <2>3 DEF TypeOK, Steps, Publications
<1>7. JobsSound' /\ HistoryInOrder'
  BY <1>0, <1>1, <1>2 DEF TrackingInv, JobsSound, HistoryInOrder, queueVars
<1>8. ReceiptsSound'
  BY <1>1, <1>2 DEF TrackingInv, ReceiptsSound
<1>9. ClockSound'
  BY <1>1, <1>2 DEF TrackingInv, ClockSound, TargetsPast, tickVars
<1>10. TickSound'
  BY <1>0, <1>1 DEF TickSound, NoTick, tickVars
<1> QED BY <1>5, <1>6, <1>7, <1>8, <1>9, <1>10 DEF TrackingInv

-----------------------------------------------------------------------------
(* A tick begins and ends. *)

LEMMA TickBeginStep ==
    ASSUME TrackingInv, TickBegin
    PROVE  TrackingInv'
<1>0. /\ TypeOK /\ TriesTyped /\ NoTick /\ control \in Controls /\ day \in Days /\ day \in Nat
      /\ RecordSound(control, job, tries, history) /\ TargetsPast(control, day)
      /\ control.enabled \/ Open(control) # {}
  BY BetweenFacts, Typed DEF TrackingInv, TickBegin, Unlocked
<1>1. /\ stamp' = day /\ todo' = Open(control) /\ step' \in {"advancing", "settling"}
      /\ UNCHANGED <<control, at, receipt, current, history, queueVars, day, archive>>
  BY DEF TickBegin, Go, Keep, dataVars
<1>2. PICK b \in BOOLEAN : /\ mem' = [control EXCEPT !.enabled = b]
                           /\ b => control.enabled
  <2>1. PICK valid \in BOOLEAN :
          mem' = [control EXCEPT !.enabled = @ /\ valid /\ ChannelKept(control)]
    BY DEF TickBegin, Into
  <2>2. mem' = [control EXCEPT !.enabled = control.enabled /\ valid /\ ChannelKept(control)]
    BY <1>0, <2>1, ControlFields
  <2> QED BY <2>2
<1>3. /\ mem' \in Controls /\ mem'.grant = control.grant /\ mem'.enabled = b
      /\ mem'.cycles = control.cycles /\ mem'.updates = control.updates
      /\ mem'.accepted = control.accepted
  BY <1>0, <1>2, ControlChanged
<1>4. control.grant \in Grants /\ InOrder(control.updates)
  BY <1>0, FreshControl DEF RecordSound
<1>5. RecordSound(mem', job, tries, history)
  BY <1>0, <1>2, <1>3, <1>4, RecordSwitched
<1>6. RecordSound(control', job', tries', history') /\ RecordSound(mem', job', tries', history')
  BY <1>0, <1>1, <1>5 DEF queueVars
<1>7. TypeOK' /\ TriesTyped'
  <2>1. control' \in Controls /\ archive' \in [Grants -> Cycles] /\ todo' \subseteq Days
    BY <1>0, <1>1 DEF TypeOK, Open
  <2>2. /\ receipt' \in [Downloads -> {"none", "running", "completed", "failed"}]
        /\ day' \in Days /\ step' \in Steps /\ stamp' \in {0} \cup Days
        /\ at' \in {0} \cup Days /\ current' \in Publications
        /\ history' \in Seq(Grants \X Days) /\ job' \in [Grants \X Days -> Queue!Statuses]
    BY <1>0, <1>1 DEF TypeOK, queueVars, Steps, Publications
  <2>3. TriesTyped'
    BY <1>0, <1>1 DEF TriesTyped, queueVars
  <2> QED BY <1>3, <2>1, <2>2, <2>3 DEF TypeOK, Steps, Publications
<1>8. JobsSound' /\ HistoryInOrder' /\ ReceiptsSound'
  BY <1>1 DEF TrackingInv, JobsSound, HistoryInOrder, ReceiptsSound, queueVars
<1>9. ClockSound'
  BY <1>0, <1>1, <1>3 DEF ClockSound, TargetsPast
<1>10. TickSound'
  BY <1>1, <1>2, <1>3, <1>4 DEF TickSound, Open
<1> QED BY <1>6, <1>7, <1>8, <1>9, <1>10 DEF TrackingInv

LEMMA TickEndStep ==
    ASSUME TrackingInv, TickEnd
    PROVE  TrackingInv'
<1>0. /\ TypeOK /\ TriesTyped /\ control \in Controls /\ mem \in Controls
      /\ mem.grant = control.grant /\ Len(mem.updates) = Len(control.updates)
      /\ RecordSound(mem, job, tries, history) /\ TargetsPast(mem, day)
      /\ stamp <= day /\ day \in Nat
  BY Typed DEF TrackingInv, TickEnd, TickSound, ClockSound
<1>1. /\ control' = mem /\ NoTick2
      /\ UNCHANGED <<receipt, current, history, queueVars, day, archive>>
  BY DEF TickEnd, Persist, Keep, dataVars
<1>2. RecordSound(control', job', tries', history') /\ RecordSound(mem', job', tries', history')
  BY <1>0, <1>1 DEF RecordSound, NoTick2, queueVars
<1>3. TypeOK' /\ TriesTyped'
  <2>1. /\ control' \in Controls /\ mem' \in Controls /\ archive' \in [Grants -> Cycles]
        /\ step' \in Steps /\ stamp' = 0 /\ todo' = {} /\ at' = 0
    BY <1>0, <1>1, FreshControl DEF TypeOK, NoTick2, Steps
  <2>2. /\ receipt' \in [Downloads -> {"none", "running", "completed", "failed"}]
        /\ day' \in Days /\ current' \in Publications
        /\ history' \in Seq(Grants \X Days) /\ job' \in [Grants \X Days -> Queue!Statuses]
    BY <1>0, <1>1 DEF TypeOK, queueVars, Publications
  <2>3. TriesTyped'
    BY <1>0, <1>1 DEF TriesTyped, queueVars
  <2> QED BY <2>1, <2>2, <2>3 DEF TypeOK, Steps, Publications
<1>4. JobsSound' /\ HistoryInOrder' /\ ReceiptsSound'
  BY <1>0, <1>1 DEF TrackingInv, JobsSound, HistoryInOrder, ReceiptsSound, queueVars
<1>5. ClockSound'
  BY <1>0, <1>1, FreshControl DEF ClockSound, TargetsPast, NoTick2
<1>6. TickSound'
  BY <1>1 DEF TickSound, NoTick, NoTick2
<1> QED BY <1>2, <1>3, <1>4, <1>5, <1>6 DEF TrackingInv

LEMMA ReconcileStep ==
    ASSUME TrackingInv, NEW d \in Days, Reconcile(d)
    PROVE  TrackingInv'
<1>0. /\ TypeOK /\ TriesTyped /\ NoTick /\ control \in Controls /\ day \in Days /\ day \in Nat
      /\ RecordSound(control, job, tries, history) /\ TargetsPast(control, day)
      /\ control.cycles[d] = "stopped" /\ job[<<control.grant, d>>] = "completed"
      /\ Observe(<<control.grant, d>>)
  BY BetweenFacts, Typed DEF TrackingInv, Reconcile, Unlocked
<1>1. /\ mem' = [control EXCEPT !.cycles[d] = "synced"] /\ step' = "saving"
      /\ UNCHANGED <<control, stamp, todo, at, queueVars, receipt, current, day, archive>>
  BY DEF Reconcile, Into, Go, Keep, dataVars
<1>2. control # NoControl /\ control.grant \in Grants /\ InOrder(control.updates)
  <2>1. control # NoControl
    BY <1>0, FreshControl DEF NoCycles
  <2> QED BY <1>0, <2>1 DEF RecordSound
<1>3. /\ mem' \in Controls /\ mem'.grant = control.grant /\ mem'.enabled = control.enabled
      /\ mem'.cycles = [control.cycles EXCEPT ![d] = "synced"]
      /\ mem'.updates = control.updates /\ mem'.accepted = control.accepted
  BY <1>0, <1>1, ControlChanged DEF CycleStates, Settled
<1>4. /\ history' = history \/ history' = Append(history, <<control.grant, d>>)
      /\ \E i \in 1..Len(history') : history'[i] = <<control.grant, d>>
      /\ history' \in Seq(Jobs) /\ HistoryInOrder'
  BY <1>0, <1>2, ObserveStep
<1>5. RecordSound(control, job, tries, history')
  <2>1. history \in Seq(Jobs) /\ <<control.grant, d>> \in Jobs
    BY <1>0, <1>2, HistoryFacts DEF Jobs
  <2> QED BY <1>0, <1>4, <2>1, RecordObserved
<1>6. RecordSound(mem', job, tries, history')
  <2>1. /\ "synced" \in Pending \cup Settled /\ "synced" \notin Pending
        /\ control.cycles[d] # "none"
        /\ job[<<control.grant, d>>] \notin {"queued", "running"}
    BY <1>0 DEF Settled, Pending
  <2>2. mem'.enabled => control.enabled
    BY <1>3
  <2> QED BY <1>0, <1>3, <1>4, <1>5, <2>1, <2>2, RecordSettled
<1>7. RecordSound(control', job', tries', history') /\ RecordSound(mem', job', tries', history')
  BY <1>1, <1>5, <1>6 DEF queueVars
<1>8. TypeOK' /\ TriesTyped'
  <2>1. control' \in Controls /\ archive' \in [Grants -> Cycles] /\ todo' \subseteq Days
    BY <1>0, <1>1 DEF TypeOK
  <2>2. /\ receipt' \in [Downloads -> {"none", "running", "completed", "failed"}]
        /\ day' \in Days /\ step' \in Steps /\ stamp' \in {0} \cup Days
        /\ at' \in {0} \cup Days /\ current' \in Publications
        /\ job' \in [Grants \X Days -> Queue!Statuses]
    BY <1>0, <1>1 DEF TypeOK, queueVars, Steps, Publications
  <2>3. TriesTyped' /\ history' \in Seq(Grants \X Days)
    BY <1>0, <1>1, <1>4 DEF TriesTyped, queueVars, Jobs
  <2> QED BY <1>3, <2>1, <2>2, <2>3 DEF TypeOK, Steps, Publications
<1>9. JobsSound' /\ ReceiptsSound'
  BY <1>1 DEF TrackingInv, JobsSound, ReceiptsSound, queueVars
<1>10. ClockSound'
  BY <1>0, <1>1, <1>3 DEF TrackingInv, ClockSound, TargetsPast
<1>11. TickSound'
  BY <1>0, <1>1, <1>2, <1>3 DEF TickSound, NoTick
<1> QED BY <1>4, <1>7, <1>8, <1>9, <1>10, <1>11 DEF TrackingInv

-----------------------------------------------------------------------------
(* settle *)

LEMMA SettleFacts ==
    ASSUME TrackingInv, NEW d \in Days, Settle(d)
    PROVE  /\ step = "settling" /\ d \in todo /\ todo' = todo \ {d}
           /\ mem.cycles[d] \in Pending /\ control.cycles[d] = mem.cycles[d]
           /\ mem.grant \in Grants /\ mem.grant = control.grant /\ JobOf(d) = <<mem.grant, d>>
           /\ UNCHANGED <<control, stamp, receipt, current, queueVars, day, archive>>
<1>1. /\ step = "settling" /\ d \in todo /\ todo' = todo \ {d}
      /\ UNCHANGED <<control, stamp, receipt, current, queueVars, day, archive>>
  BY DEF Settle, Without, Keep, dataVars
<1> QED BY <1>1, Typed DEF TrackingInv, TickSound, JobOf

(* Each outcome is a new state of the cycle, after its result was taken     *)
(* over, or leaves it for the submission or the next tick.                  *)
LEMMA SettleOutcome ==
    ASSUME TrackingInv, NEW d \in Days, Settle(d), HistoryInOrder',
           mem' \in Controls, history' \in Seq(Jobs),
           mem'.grant = mem.grant, mem'.enabled => mem.enabled, mem'.updates = mem.updates,
           mem'.accepted = mem.accepted,
           \A e \in Days \ {d} : mem'.cycles[e] = mem.cycles[e],
           RecordSound(control, job, tries, history'), RecordSound(mem', job, tries, history'),
           \/ step' = "settling" /\ at' = at
           \/ step' = "submitting" /\ at' = d /\ mem' = mem /\ mem.cycles[d] = "reserved"
    PROVE  TrackingInv'
<1>0. /\ step = "settling" /\ d \in todo /\ todo' = todo \ {d}
      /\ mem.cycles[d] \in Pending /\ control.cycles[d] = mem.cycles[d]
      /\ mem.grant \in Grants /\ mem.grant = control.grant
      /\ UNCHANGED <<control, stamp, receipt, current, queueVars, day, archive>>
  BY SettleFacts
<1>1. /\ TypeOK /\ control \in Controls /\ Len(mem.updates) \in Nat /\ todo \subseteq Days
  BY Typed, ControlTyped
<1>2. TypeOK'
  <2>1. control' \in Controls /\ archive' \in [Grants -> Cycles] /\ todo' \subseteq Days
    BY <1>0, <1>1 DEF TypeOK
  <2>2. /\ receipt' \in [Downloads -> {"none", "running", "completed", "failed"}]
        /\ day' \in Days /\ step' \in Steps /\ stamp' \in {0} \cup Days
        /\ at' \in {0} \cup Days /\ current' \in Publications
        /\ job' \in [Grants \X Days -> Queue!Statuses]
    BY <1>0, <1>1 DEF TypeOK, queueVars, Steps, Publications
  <2>3. history' \in Seq(Grants \X Days)
    BY DEF Jobs
  <2> QED BY <2>1, <2>2, <2>3 DEF TypeOK, Steps, Publications
<1>3. TargetsPast(mem', day) /\ TargetsPast(mem', stamp)
  BY <1>0 DEF TrackingInv, ClockSound, TargetsPast
<1>4. /\ mem.enabled => control.enabled
      /\ Len(mem.updates) = Len(control.updates)
      /\ mem.accepted = control.accepted
      /\ \A e \in todo : mem.cycles[e] \in Pending /\ control.cycles[e] = mem.cycles[e]
  BY <1>0 DEF TrackingInv, TickSound
<1>5. \A e \in todo' : mem'.cycles[e] \in Pending /\ control'.cycles[e] = mem'.cycles[e]
  BY <1>0, <1>1, <1>4
<1>6. /\ mem'.enabled => control'.enabled
      /\ Len(mem'.updates) = Len(control'.updates)
      /\ mem'.accepted = control'.accepted /\ mem'.grant = control'.grant
      /\ control'.cycles = control.cycles
  <2>1. mem'.enabled \in BOOLEAN /\ mem.enabled \in BOOLEAN
    BY Typed, ControlTyped
  <2> QED BY <1>0, <1>4, <2>1
<1>7. TickSound'
  BY <1>0, <1>5, <1>6 DEF TickSound
<1>8. RecordKept
  BY <1>0 DEF RecordKept
<1> QED BY <1>0, <1>1, <1>2, <1>3, <1>7, <1>8, TickStep

LEMMA CycleFields ==
    ASSUME mem \in Controls, NEW d \in Days, NEW s \in CycleStates
    PROVE  /\ LET r == Cycle(d, s) IN
              /\ r \in Controls /\ r.grant = mem.grant /\ r.enabled = mem.enabled
              /\ r.cycles = [mem.cycles EXCEPT ![d] = s]
              /\ r.updates = mem.updates /\ r.accepted = mem.accepted
           /\ LET r == [Cycle(d, s) EXCEPT !.enabled = FALSE] IN
              /\ r \in Controls /\ r.grant = mem.grant /\ r.enabled = FALSE
              /\ r.cycles = [mem.cycles EXCEPT ![d] = s]
              /\ r.updates = mem.updates /\ r.accepted = mem.accepted
<1>r. PICK r : r = Cycle(d, s)
  OBVIOUS
<1>1. /\ r \in Controls /\ r.grant = mem.grant /\ r.enabled = mem.enabled
      /\ r.cycles = [mem.cycles EXCEPT ![d] = s]
      /\ r.updates = mem.updates /\ r.accepted = mem.accepted
  BY <1>r, ControlChanged DEF Cycle
<1>q. PICK q : q = [r EXCEPT !.enabled = FALSE]
  OBVIOUS
<1>2. /\ q \in Controls /\ q.grant = r.grant /\ q.enabled = FALSE
      /\ q.cycles = r.cycles /\ q.updates = r.updates /\ q.accepted = r.accepted
  BY <1>1, <1>q, ControlChanged
<1> QED BY <1>r, <1>1, <1>q, <1>2

LEMMA SettleStep ==
    ASSUME TrackingInv, NEW d \in Days, Settle(d)
    PROVE  TrackingInv'
<1>0. /\ step = "settling" /\ mem.cycles[d] \in Pending /\ control.cycles[d] = mem.cycles[d]
      /\ mem.grant \in Grants /\ mem.grant = control.grant /\ JobOf(d) = <<mem.grant, d>>
      /\ mem \in Controls /\ control \in Controls
      /\ RecordSound(mem, job, tries, history) /\ RecordSound(control, job, tries, history)
      /\ history \in Seq(Jobs) /\ HistoryInOrder /\ <<mem.grant, d>> \in Jobs
      /\ mem.cycles \in [Days -> CycleStates] /\ mem.enabled \in BOOLEAN
  <2>1. TypeOK /\ mem \in Controls /\ control \in Controls
    BY Typed
  <2>2. /\ mem.grant \in Grants /\ mem.cycles \in [Days -> CycleStates]
        /\ mem.enabled \in BOOLEAN
    BY <2>1, SettleFacts, ControlTyped
  <2> QED BY <2>1, <2>2, SettleFacts, HistoryFacts DEF TrackingInv, Jobs
<1>1. SettleMissing(d) \/ SettleCompleted(d) \/ SettleFailed(d) \/ SettleActive(d)
  BY DEF Settle
<1>c. /\ "abandoned" \in CycleStates \cap Settled /\ "synced" \in CycleStates \cap Settled
      /\ "stopped" \in CycleStates \cap Settled /\ Settled \cap Pending = {}
      /\ "queued" \in CycleStates \cap Pending /\ "running" \in CycleStates \cap Pending
      /\ "reserved" \notin Settled /\ "none" \notin Pending
  BY DEF CycleStates, Settled, Pending
<1>k. /\ mem \in Controls /\ "abandoned" \in CycleStates /\ "synced" \in CycleStates
      /\ "stopped" \in CycleStates
  BY <1>0, <1>c
<1>2. ASSUME history' = history PROVE HistoryInOrder' /\ history' \in Seq(Jobs)
  BY <1>0, <1>2 DEF HistoryInOrder
<1>3. CASE SettleMissing(d)
  <2>1. history' = history /\ job[<<mem.grant, d>>] = "none"
    BY <1>0, <1>3 DEF SettleMissing
  <2>2. CASE mem.cycles[d] = "reserved" /\ mem.enabled
    <3>1. /\ mem' = mem
          /\ \/ step' = "submitting" /\ at' = d
             \/ step' = step /\ at' = at
      BY <1>3, <2>2 DEF SettleMissing, Go
    <3> QED BY <1>0, <1>2, <2>1, <2>2, <3>1, SettleOutcome
  <2>3. CASE ~(mem.cycles[d] = "reserved" /\ mem.enabled)
    <3>1. /\ mem' = [Cycle(d, "abandoned") EXCEPT !.enabled = FALSE]
          /\ step' = step /\ at' = at
      BY <1>3, <2>3 DEF SettleMissing, Into
    <3>2. /\ mem' \in Controls /\ mem'.grant = mem.grant /\ mem'.enabled = FALSE
          /\ mem'.cycles = [mem.cycles EXCEPT ![d] = "abandoned"]
          /\ mem'.updates = mem.updates /\ mem'.accepted = mem.accepted
      BY <1>k, <3>1, CycleFields
    <3>3. RecordSound(mem', job, tries, history)
      BY <1>0, <1>c, <2>1, <3>2, RecordSettled
    <3>4. \A e \in Days \ {d} : mem'.cycles[e] = mem.cycles[e]
      BY <1>0, <3>2
    <3> QED BY <1>0, <1>2, <2>1, <3>1, <3>2, <3>3, <3>4, SettleOutcome
  <2> QED BY <2>2, <2>3
<1>4. CASE SettleCompleted(d)
  <2>1. /\ job[<<mem.grant, d>>] = "completed" /\ Observe(<<mem.grant, d>>)
        /\ mem' = Cycle(d, "synced") /\ step' = step /\ at' = at
    BY <1>0, <1>4 DEF SettleCompleted, Into
  <2>2. /\ mem' \in Controls /\ mem'.grant = mem.grant /\ mem'.enabled = mem.enabled
        /\ mem'.cycles = [mem.cycles EXCEPT ![d] = "synced"]
        /\ mem'.updates = mem.updates /\ mem'.accepted = mem.accepted
    BY <1>k, <2>1, CycleFields
  <2>3. /\ history' = history \/ history' = Append(history, <<mem.grant, d>>)
        /\ \E i \in 1..Len(history') : history'[i] = <<mem.grant, d>>
        /\ history' \in Seq(Jobs) /\ HistoryInOrder'
    <3>1. mem.cycles[d] # "none"
      BY <1>0, <1>c
    <3> QED BY <1>0, <2>1, <3>1, ObserveStep
  <2>4. RecordSound(mem, job, tries, history')
    BY <1>0, <2>1, <2>3, RecordObserved
  <2>5. RecordSound(control, job, tries, history')
    BY <1>0, <2>1, <2>3, RecordObserved
  <2>6. RecordSound(mem', job, tries, history')
    BY <1>0, <1>c, <2>1, <2>2, <2>3, <2>4, RecordSettled
  <2>7. \A e \in Days \ {d} : mem'.cycles[e] = mem.cycles[e]
    BY <1>0, <2>2
  <2> QED BY <1>0, <2>1, <2>2, <2>3, <2>5, <2>6, <2>7, SettleOutcome
<1>5. CASE SettleFailed(d)
  <2>1. /\ job[<<mem.grant, d>>] = "stopped" /\ history' = history
        /\ mem' = [Cycle(d, "stopped") EXCEPT !.enabled = FALSE] /\ step' = step /\ at' = at
    BY <1>0, <1>5 DEF SettleFailed, Into
  <2>2. /\ mem' \in Controls /\ mem'.grant = mem.grant /\ mem'.enabled = FALSE
        /\ mem'.cycles = [mem.cycles EXCEPT ![d] = "stopped"]
        /\ mem'.updates = mem.updates /\ mem'.accepted = mem.accepted
    BY <1>k, <2>1, CycleFields
  <2>3. RecordSound(mem', job, tries, history)
    BY <1>0, <1>c, <2>1, <2>2, RecordSettled
  <2>4. \A e \in Days \ {d} : mem'.cycles[e] = mem.cycles[e]
    BY <1>0, <2>2
  <2> QED BY <1>0, <1>2, <2>1, <2>2, <2>3, <2>4, SettleOutcome
<1>6. CASE SettleActive(d)
  <2> DEFINE s == job[<<mem.grant, d>>]
  <2>1. /\ s \in {"queued", "running"} /\ history' = history
        /\ mem' = Cycle(d, s) /\ step' = step /\ at' = at
    BY <1>0, <1>6 DEF SettleActive, Into
  <2>0. s \in CycleStates /\ s \in Pending /\ s # "reserved"
    BY <1>c, <2>1
  <2>2. /\ mem' \in Controls /\ mem'.grant = mem.grant /\ mem'.enabled = mem.enabled
        /\ mem'.cycles = [mem.cycles EXCEPT ![d] = s]
        /\ mem'.updates = mem.updates /\ mem'.accepted = mem.accepted
    BY <1>k, <2>0, <2>1, CycleFields
  <2>3. RecordSound(mem', job, tries, history)
    <3>1. s \notin Settled /\ mem.cycles[d] # "none" /\ s # "abandoned" /\ s # "stopped"
          /\ s # "synced" /\ s \in Pending \cup Settled
      BY <1>0, <1>c, <2>0, <2>1
    <3> HIDE DEF s
    <3> QED BY <1>0, <2>0, <2>2, <3>1, RecordSettled
  <2>4. \A e \in Days \ {d} : mem'.cycles[e] = mem.cycles[e]
    BY <1>0, <2>2
  <2> QED BY <1>0, <1>2, <2>1, <2>2, <2>3, <2>4, SettleOutcome
<1> QED BY <1>1, <1>3, <1>4, <1>5, <1>6

-----------------------------------------------------------------------------
(* The research of a session is reserved, submitted, and noted. *)

LEMMA PlanReserveStep ==
    ASSUME TrackingInv, PlanReserve
    PROVE  TrackingInv'
<1> DEFINE d == Target
<1>0. /\ step = "planning" /\ d \in Days /\ ObservedDay < d /\ mem.cycles[d] = "none"
      /\ mem' = Cycle(d, "reserved") /\ control' = mem' /\ at' = d /\ step' = "submitting"
      /\ UNCHANGED <<stamp, todo, history, queueVars, receipt, current, day, archive>>
  BY DEF PlanReserve, Wanted, Into, Persist, Go, Keep, dataVars
<1>1. PICK e \in Days : e = d
  BY <1>0
<1> HIDE DEF d
<1>2. /\ TypeOK /\ mem \in Controls /\ control \in Controls /\ mem.grant \in Grants
      /\ mem.enabled /\ Open(mem) = {} /\ Cardinality(Reserved(mem)) < MaxJobs
      /\ Len(mem.updates) \in Nat /\ mem.cycles \in [Days -> CycleStates]
      /\ RecordSound(mem, job, tries, history) /\ RecordSound(control, job, tries, history)
      /\ HistoryInOrder /\ history \in Seq(Jobs)
  BY <1>0, Typed, UpdateFacts, ControlTyped, HistoryFacts DEF TrackingInv, Updating
<1>3. /\ mem' \in Controls /\ mem'.grant = mem.grant /\ mem'.enabled = mem.enabled
      /\ mem'.cycles = [mem.cycles EXCEPT ![e] = "reserved"]
      /\ mem'.updates = mem.updates /\ mem'.accepted = mem.accepted
  <2>1. "reserved" \in CycleStates
    BY DEF CycleStates, Pending
  <2> QED BY <1>0, <1>1, <1>2, <2>1, CycleFields
<1>4. \A i \in 1..Len(history) : history[i][2] < e
  <2>1. /\ ObservedDay \in Nat /\ e \in Nat /\ ObservedDay < e
        /\ \A i \in 1..Len(history) : history[i][2] \in Nat /\ history[i][2] <= ObservedDay
    BY <1>0, <1>1, <1>2, ObservedIsLatest, HistoryFacts, Parameters
  <2> QED BY <2>1
<1>5. RecordSound(mem', job, tries, history)
  <2>1. mem.cycles[e] = "none"
    BY <1>0, <1>1
  <2> QED BY <1>2, <1>3, <1>4, <2>1, RecordReserved
<1>6. Saved
  BY <1>0, <1>3 DEF Saved
<1>7. TypeOK'
  <2>1. control' \in Controls /\ archive' \in [Grants -> Cycles] /\ todo' \subseteq Days
    BY <1>0, <1>2, <1>3 DEF TypeOK
  <2>2. /\ receipt' \in [Downloads -> {"none", "running", "completed", "failed"}]
        /\ day' \in Days /\ step' \in Steps /\ stamp' \in {0} \cup Days
        /\ at' \in {0} \cup Days /\ current' \in Publications
        /\ history' \in Seq(Grants \X Days) /\ job' \in [Grants \X Days -> Queue!Statuses]
    BY <1>0, <1>2 DEF TypeOK, queueVars, Steps, Publications
  <2> QED BY <1>3, <2>1, <2>2 DEF TypeOK, Steps, Publications
<1>8. TickSound'
  <2>1. todo = {}
    <3>1. \A x \in todo : x \in Open(mem)
      BY <1>2 DEF TrackingInv, TickSound, Open, TypeOK
    <3> QED BY <1>2, <3>1
  <2>2. mem'.cycles[e] = "reserved"
    BY <1>2, <1>3
  <2> QED BY <1>0, <1>1, <1>2, <1>3, <2>1, <2>2 DEF TickSound
<1>9. TargetsPast(mem', day) /\ TargetsPast(mem', stamp)
  BY <1>0, <1>3 DEF TrackingInv, ClockSound, TargetsPast
<1>10. HistoryInOrder' /\ RecordSound(control, job, tries, history')
       /\ RecordSound(mem', job, tries, history')
  BY <1>0, <1>2, <1>5 DEF HistoryInOrder
<1> QED BY <1>0, <1>2, <1>3, <1>6, <1>7, <1>8, <1>9, <1>10, TickStep

LEMMA SubmittedStep ==
    ASSUME TrackingInv, Submitted
    PROVE  TrackingInv'
<1>0. /\ step = "submitted" /\ at \in Days /\ mem.cycles[at] = "reserved"
      /\ mem' = Cycle(at, "queued") /\ control' = mem' /\ at' = 0
      /\ step' \in {"settling", "saving"}
      /\ UNCHANGED <<stamp, todo, history, queueVars, receipt, current, day, archive>>
  BY DEF Submitted, Into, Persist, Go, Keep, dataVars, TrackingInv, TickSound
<1>1. PICK e \in Days : e = at
  BY <1>0
<1>2. /\ TypeOK /\ mem \in Controls /\ control \in Controls /\ mem.grant \in Grants
      /\ Len(mem.updates) \in Nat /\ mem.cycles \in [Days -> CycleStates]
      /\ RecordSound(mem, job, tries, history) /\ RecordSound(control, job, tries, history)
      /\ HistoryInOrder
  BY <1>0, Typed, ControlTyped DEF TrackingInv
<1>3. /\ mem' \in Controls /\ mem'.grant = mem.grant /\ mem'.enabled = mem.enabled
      /\ mem'.cycles = [mem.cycles EXCEPT ![e] = "queued"]
      /\ mem'.updates = mem.updates /\ mem'.accepted = mem.accepted
  <2>1. "queued" \in CycleStates
    BY DEF CycleStates, Pending
  <2> QED BY <1>0, <1>1, <1>2, <2>1, CycleFields
<1>4. RecordSound(mem', job, tries, history)
  <2>1. /\ "queued" \in Pending \cup Settled /\ "queued" \notin Settled
        /\ mem.cycles[e] = "reserved" /\ mem.cycles[e] \in Pending
    BY <1>0, <1>1 DEF Pending, Settled
  <2> QED BY <1>2, <1>3, <2>1, RecordSettled
<1>5. Saved
  BY <1>0, <1>3 DEF Saved
<1>6. TypeOK'
  <2>1. control' \in Controls /\ archive' \in [Grants -> Cycles] /\ todo' \subseteq Days
    BY <1>0, <1>2, <1>3 DEF TypeOK
  <2>2. /\ receipt' \in [Downloads -> {"none", "running", "completed", "failed"}]
        /\ day' \in Days /\ step' \in Steps /\ stamp' \in {0} \cup Days
        /\ at' \in {0} \cup Days /\ current' \in Publications
        /\ history' \in Seq(Grants \X Days) /\ job' \in [Grants \X Days -> Queue!Statuses]
    BY <1>0, <1>2 DEF TypeOK, queueVars, Steps, Publications
  <2> QED BY <1>3, <2>1, <2>2 DEF TypeOK, Steps, Publications
<1>7. TickSound'
  <2>1. \A x \in todo : mem'.cycles[x] \in Pending
    <3> TAKE x \in todo
    <3>1. x \in Days /\ mem.cycles[x] \in Pending
      BY <1>2 DEF TrackingInv, TickSound, TypeOK
    <3>2. mem'.cycles[x] = IF x = e THEN "queued" ELSE mem.cycles[x]
      BY <1>2, <1>3, <3>1
    <3> QED BY <3>1, <3>2 DEF Pending
  <2> QED BY <1>0, <1>2, <1>3, <2>1 DEF TickSound
<1>8. TargetsPast(mem', day) /\ TargetsPast(mem', stamp)
  BY <1>0, <1>3 DEF TrackingInv, ClockSound, TargetsPast
<1>9. HistoryInOrder' /\ RecordSound(control, job, tries, history')
      /\ RecordSound(mem', job, tries, history')
  BY <1>0, <1>2, <1>4 DEF HistoryInOrder
<1> QED BY <1>0, <1>2, <1>3, <1>5, <1>6, <1>7, <1>8, <1>9, TickStep

LEMMA SubmitFacts ==
    ASSUME TrackingInv, Submit
    PROVE  /\ step = "submitting" /\ at \in Days /\ JobOf(at) = <<control.grant, at>>
           /\ control.cycles[at] = "reserved" /\ mem.cycles[at] = "reserved"
           /\ control.grant \in Grants /\ mem.grant = control.grant
           /\ mem.accepted = control.accepted
           /\ mem.enabled /\ control.enabled /\ ChannelKept(mem)
           /\ job[<<control.grant, at>>] = "none"
           /\ job' = [job EXCEPT ![<<control.grant, at>>] = "queued"]
           /\ tries' = [tries EXCEPT ![<<control.grant, at>>] = @ + 1]
           /\ step' = "submitted"
           /\ UNCHANGED <<mem, control, stamp, todo, at, history, receipt, current, day, archive>>
<1>1. /\ step = "submitting" /\ mem.enabled /\ ChannelKept(mem) /\ step' = "submitted"
      /\ Queue!Submit(JobOf(at))
      /\ UNCHANGED <<mem, control, stamp, todo, at, history, receipt, current, day, archive>>
  BY DEF Submit, Go, Keep, dataVars
<1>2. /\ at \in Days /\ control.cycles[at] = "reserved" /\ mem.cycles[at] = "reserved"
      /\ control.grant \in Grants /\ mem.grant = control.grant
      /\ mem.accepted = control.accepted
      /\ control.enabled
  BY <1>1 DEF TrackingInv, TickSound
<1>3. JobOf(at) = <<control.grant, at>>
  BY <1>2 DEF JobOf
<1> QED BY <1>1, <1>2, <1>3 DEF Queue!Submit, Queue!Queued

LEMMA SubmitStep ==
    ASSUME TrackingInv, Submit
    PROVE  TrackingInv'
<1>0. /\ step = "submitting" /\ at \in Days /\ control.grant \in Grants
      /\ control.cycles[at] = "reserved" /\ mem.cycles[at] = "reserved"
      /\ mem.grant = control.grant
      /\ job' = [job EXCEPT ![<<control.grant, at>>] = "queued"]
      /\ tries' = [tries EXCEPT ![<<control.grant, at>>] = @ + 1]
      /\ step' = "submitted"
      /\ UNCHANGED <<mem, control, stamp, todo, at, history, receipt, current, day, archive>>
  BY SubmitFacts
<1>1. PICK j : j = <<control.grant, at>>
  OBVIOUS
<1>2. j \in Jobs /\ j[1] = control.grant
  BY <1>0, <1>1 DEF Jobs
<1>3. /\ TypeOK /\ TriesTyped /\ mem \in Controls /\ control \in Controls
      /\ job \in [Jobs -> Queue!Statuses] /\ tries \in [Jobs -> Nat]
      /\ RecordSound(mem, job, tries, history) /\ RecordSound(control, job, tries, history)
      /\ JobsSound
  BY Typed DEF TrackingInv, TypeOK, TriesTyped, Jobs
<1>4. /\ job'[j] = "queued" /\ tries'[j] = tries[j] + 1
      /\ \A i \in Jobs \ {j} : job'[i] = job[i] /\ tries'[i] = tries[i]
      /\ job' \in [Jobs -> Queue!Statuses] /\ tries' \in [Jobs -> Nat]
  <2>1. "queued" \in Queue!Statuses
    BY DEF Queue!Statuses, Queue!Active
  <2> QED BY <1>0, <1>1, <1>2, <1>3, <2>1
<1>5. TypeOK' /\ TriesTyped'
  <2>1. job' \in [Grants \X Days -> Queue!Statuses]
    BY <1>4 DEF Jobs
  <2>2. /\ day' \in Days /\ {control', mem'} \subseteq Controls /\ archive' \in [Grants -> Cycles]
        /\ stamp' \in {0} \cup Days /\ todo' \subseteq Days /\ at' \in {0} \cup Days
        /\ step' \in Steps
        /\ receipt' \in [Downloads -> {"none", "running", "completed", "failed"}]
        /\ current' \in Publications /\ history' \in Seq(Grants \X Days)
    BY <1>0, <1>3 DEF TypeOK, Publications, Steps
  <2> QED BY <1>4, <2>1, <2>2 DEF TypeOK, TriesTyped, Steps, Publications
<1>6. \A e \in Days \ {at} : /\ job'[<<control.grant, e>>] = job[<<control.grant, e>>]
                             /\ tries'[<<control.grant, e>>] = tries[<<control.grant, e>>]
  <2> TAKE e \in Days \ {at}
  <2>1. <<control.grant, e>> \in Jobs \ {j}
    BY <1>0, <1>1 DEF Jobs
  <2> QED BY <1>4, <2>1
<1>7. job'[<<control.grant, at>>] # "none"
  BY <1>1, <1>4
<1>8. RecordSound(control, job', tries', history) /\ RecordSound(mem, job', tries', history)
  <2>0. /\ at \in Days /\ control.cycles[at] = "reserved" /\ mem.cycles[at] = "reserved"
        /\ mem \in Controls /\ control \in Controls
        /\ RecordSound(mem, job, tries, history) /\ RecordSound(control, job, tries, history)
    BY <1>0, <1>3
  <2>1. RecordSound(control, job', tries', history)
    BY <1>6, <1>7, <2>0, RecordSubmitted
  <2>2. /\ job'[<<mem.grant, at>>] # "none"
        /\ \A e \in Days \ {at} : /\ job'[<<mem.grant, e>>] = job[<<mem.grant, e>>]
                                  /\ tries'[<<mem.grant, e>>] = tries[<<mem.grant, e>>]
    BY <1>0, <1>6, <1>7
  <2>3. RecordSound(mem, job', tries', history)
    BY <2>0, <2>2, RecordSubmitted
  <2> QED BY <2>1, <2>3
<1>9. RecordSound(control', job', tries', history') /\ RecordSound(mem', job', tries', history')
  BY <1>0, <1>8
<1>10. JobsSound'
  <2>1. ASSUME NEW i \in Jobs, job'[i] # "none"
        PROVE  /\ i[1] <= control.grant
               /\ tries'[i] >= 1
               /\ i[1] < control.grant =>
                     /\ archive[i[1]][i[2]] \notin {"none", "abandoned"}
                     /\ job'[i] \in {"queued", "running"} => tries'[i] > 1
    <3>1. CASE i = j
      <4>1. tries[j] \in Nat /\ control.grant \in Nat
        BY <1>0, <1>2, <1>3, Parameters
      <4> QED BY <1>2, <1>4, <3>1, <4>1
    <3>2. CASE i # j
      BY <1>3, <1>4, <2>1, <3>2 DEF JobsSound
    <3> QED BY <3>1, <3>2
  <2> QED BY <1>0, <1>3, <2>1 DEF JobsSound
<1>11. HistoryInOrder' /\ ReceiptsSound' /\ ClockSound'
  BY <1>0 DEF TrackingInv, HistoryInOrder, ReceiptsSound, ClockSound, TargetsPast
<1>12. TickSound'
  BY <1>0 DEF TrackingInv, TickSound
<1> QED BY <1>5, <1>9, <1>10, <1>11, <1>12 DEF TrackingInv

-----------------------------------------------------------------------------
(* The invariant *)

LEMMA StutterStep ==
    ASSUME TrackingInv, UNCHANGED vars
    PROVE  TrackingInv'
<1>1. /\ UNCHANGED <<control, archive, history, tickVars, day, receipt, current, queueVars>>
      /\ ReceiptsSound'
  BY DEF vars, dataVars, TrackingInv, ReceiptsSound
<1>2. /\ day \in Days /\ day \in Nat /\ current \in Publications
      /\ receipt \in [Downloads -> {"none", "running", "completed", "failed"}]
  BY Typed DEF TypeOK, Publications
<1> QED BY <1>1, <1>2, QueueKept, SurroundingStep

LEMMA TrackingStep ==
    ASSUME TrackingInv, [Next]_vars
    PROVE  TrackingInv'
<1>1. CASE UNCHANGED vars
  BY <1>1, StutterStep
<1>2. CASE Tick
  <2>1. CASE Update
    BY <2>1, MaybeUpdateStep, DownloadedStep, SurroundingsStep DEF Update
  <2>2. CASE \E d \in Days : Settle(d)
    BY <2>2, SettleStep
  <2> QED BY <1>2, <2>1, <2>2, TickBeginStep, SettleEndStep, AdvanceStep, DownloadedStep,
             PlanReserveStep, SubmitStep, SubmittedStep, TickEndStep DEF Tick
<1>3. CASE Fail \/ Authorize \/ Revoke \/ Wake \/ \E d \in Days : Reconcile(d)
  BY <1>3, FailStep, AuthorizeStep, SwitchStep, ReconcileStep
<1>4. CASE \/ \E j \in Grants \X Days : JobRuns(j) \/ JobHandled(j)
           \/ NextDay \/ ForeignPublish \/ ChildEnds \/ Crash
  BY <1>4, SurroundingsStep
<1> QED BY <1>1, <1>2, <1>3, <1>4 DEF Next

THEOREM TrackingInvariant == Spec => []TrackingInv
BY TrackingInit, TrackingStep, PTL DEF Spec

(* The records of the watch, the queue, the history and the tick hold what  *)
(* the code declares; no record has more downloads than were granted.       *)
THEOREM TrackingTypeCorrect == Spec => []TypeOK
<1>1. TrackingInv => TypeOK
  BY DEF TrackingInv
<1> QED BY <1>1, TrackingInvariant, PTL

LEMMA ReservedWork == TrackingInv => WorkIsReserved
<1> SUFFICES ASSUME TrackingInv PROVE WorkIsReserved
  OBVIOUS
<1>0. /\ control \in Controls /\ JobsSound /\ RecordSound(control, job, tries, history)
      /\ control.grant \in Nat
  BY Typed, ControlTyped, Parameters DEF TrackingInv
<1>1. ASSUME NEW j \in Grants \X Days, job[j] # "none"
      PROVE  /\ CycleOf(j) \notin {"none", "abandoned"}
             /\ j[1] < control.grant /\ job[j] \in Queue!Active => tries[j] > 1
  <2>1. /\ j \in Jobs /\ j[1] \in Grants /\ j[2] \in Days /\ j = <<j[1], j[2]>>
    BY DEF Jobs
  <2>2. /\ j[1] <= control.grant
        /\ j[1] < control.grant =>
              /\ archive[j[1]][j[2]] \notin {"none", "abandoned"}
              /\ job[j] \in {"queued", "running"} => tries[j] > 1
    BY <1>0, <1>1, <2>1 DEF JobsSound
  <2>3. j[1] \in Nat
    BY <2>1, Parameters
  <2>4. CASE j[1] < control.grant
    BY <1>0, <2>2, <2>3, <2>4 DEF CycleOf, Queue!Active
  <2>5. CASE j[1] = control.grant
    <3>1. control # NoControl
      BY <2>1, <2>3, <2>5, FreshControl, Parameters
    <3>2. Accounted(control, job, tries)
      BY <1>0, <3>1 DEF RecordSound
    <3>3. control.cycles[j[2]] \notin {"none", "abandoned"}
      BY <1>1, <2>1, <2>5, <3>2 DEF Accounted
    <3> QED BY <1>0, <2>5, <3>3 DEF CycleOf
  <2> QED BY <1>0, <2>2, <2>3, <2>4, <2>5
<1>2. \A n \in Downloads : receipt[n] # "none" => n <= Len(control.updates)
  BY DEF TrackingInv, ReceiptsSound
<1>3. InOrder(control.updates)
  BY <1>0, FreshControl DEF RecordSound, InOrder
<1>4. \A j \in Grants \X Days : job[j] = "none" => job[j] \notin Queue!Active
  BY DEF Queue!Active
<1> QED BY <1>1, <1>2, <1>3, <1>4 DEF WorkIsReserved, InOrder

(* reserve, authorize and settle: whatever write a kill comes between, a    *)
(* job in the queue has a saved cycle, those of an old grant are over, and  *)
(* each download was saved before it was asked for (advance,                *)
(* maybe_update_series).                                                    *)
THEOREM WorkAlwaysReserved == Spec => []WorkIsReserved
BY TrackingInvariant, ReservedWork, PTL

LEMMA InvTakenOver == TrackingInv => TakenOverOnce
<1> SUFFICES ASSUME TrackingInv PROVE TakenOverOnce
  OBVIOUS
<1>1. HistoryInOrder /\ RecordSound(control, job, tries, history)
  BY DEF TrackingInv
<1>2. ASSUME NEW d \in Days, control.cycles[d] = "synced"
      PROVE  Contains(history, <<control.grant, d>>)
  <2>1. control # NoControl
    BY <1>2, FreshControl DEF NoCycles
  <2> QED BY <1>1, <1>2, <2>1 DEF RecordSound, TakenOver, Contains
<1> QED BY <1>1, <1>2 DEF TakenOverOnce, HistoryInOrder

(* WatchService.observe as settle and reconcile_completed call it: a result *)
(* is taken over once, in the order of the sessions, before its cycle is    *)
(* called synced, though a kill may come between.                           *)
THEOREM TakenOverAlwaysOnce == Spec => []TakenOverOnce
BY TrackingInvariant, InvTakenOver, PTL

UnderGrant ==
    \A j \in Grants \X Days : job[j] = "none" /\ job'[j] # "none" =>
        /\ control.enabled
        /\ j[1] = control.grant
        /\ Cardinality(Reserved(control)) <= MaxJobs
        /\ \A i \in 1..Len(history) : history[i][2] < j[2]
        /\ current.id = control.accepted \/ current.by[1] = j[1]

(* Jobs enter the queue in one place. *)

(* What a step does to the queue *)
LEMMA StepOfLifecycle ==
    ASSUME [Next]_vars
    PROVE  \/ UNCHANGED queueVars
           \/ Submit /\ Queue!Submit(JobOf(at))
           \/ \E j \in Jobs : Queue!Start(j) \/ Queue!End(j) \/ Queue!Cancel(j) \/ Queue!Retry(j)
           \/ Queue!Restart
<1>1. CASE UNCHANGED vars
  BY <1>1 DEF vars
<1>2. CASE Tick
  <2>1. ASSUME Update PROVE UNCHANGED queueVars
    BY <2>1 DEF Update, UpdateRecover, UpdateCurrent, UpdateWait, UpdateGiveUp, UpdateResume,
                UpdateReserve, DownloadStart, UpdateFailed, PublishFound, Publish, Accept,
                updateFrame
  <2>2. ASSUME NEW d \in Days, Settle(d) PROVE UNCHANGED queueVars
    BY <2>2 DEF Settle
  <2>3. ASSUME TickBegin \/ SettleEnd \/ Advance \/ TickEnd PROVE UNCHANGED queueVars
    BY <2>3 DEF TickBegin, SettleEnd, Advance, TickEnd
  <2>4. ASSUME PlanNothing \/ PlanReserve \/ Submitted PROVE UNCHANGED queueVars
    BY <2>4 DEF PlanNothing, PlanReserve, Submitted, updateFrame
  <2>5. ASSUME Submit PROVE Queue!Submit(JobOf(at))
    BY <2>5 DEF Submit
  <2> QED BY <1>2, <2>1, <2>2, <2>3, <2>4, <2>5 DEF Tick
<1>3. CASE Fail \/ Authorize \/ Revoke \/ Wake \/ \E d \in Days : Reconcile(d)
  BY <1>3 DEF Fail, Authorize, Revoke, Wake, Reconcile
<1>4. CASE \E i \in Grants \X Days : JobRuns(i) \/ JobHandled(i)
  <2>1. PICK i \in Jobs : JobRuns(i) \/ JobHandled(i)
    BY <1>4 DEF Jobs
  <2>2. Queue!Start(i) \/ Queue!End(i) \/ Queue!Cancel(i) \/ Queue!Retry(i)
    BY <2>1 DEF JobRuns, JobHandled
  <2> QED BY <2>2
<1>5. CASE Crash
  BY <1>5 DEF Crash
<1>6. CASE NextDay \/ ForeignPublish \/ ChildEnds
  BY <1>6 DEF NextDay, ForeignPublish, ChildEnds
<1> QED BY <1>1, <1>2, <1>3, <1>4, <1>5, <1>6 DEF Next

LEMMA OnlySubmitted ==
    ASSUME TrackingInv, [Next]_vars, NEW j \in Jobs, job[j] = "none", job'[j] # "none"
    PROVE  Submit
<1>1. ~UNCHANGED queueVars
  BY DEF queueVars
<1>2. ~Onward(job, tries, job', tries')
  BY DEF Onward
<1>3. ~Queue!Restart
  BY <1>2, QueueRestarts
<1>4. ASSUME NEW i \in Jobs
      PROVE  ~(Queue!Start(i) \/ Queue!End(i) \/ Queue!Cancel(i) \/ Queue!Retry(i))
  BY <1>2, QueueMoves
<1> QED BY <1>1, <1>3, <1>4, StepOfLifecycle

LEMMA SubmittedSoundly ==
    ASSUME TrackingInv, [Next]_vars
    PROVE  UnderGrant
<1> SUFFICES ASSUME NEW j \in Jobs, job[j] = "none", job'[j] # "none"
             PROVE  /\ control.enabled
                    /\ j[1] = control.grant
                    /\ Cardinality(Reserved(control)) <= MaxJobs
                    /\ \A i \in 1..Len(history) : history[i][2] < j[2]
                    /\ current.id = control.accepted \/ current.by[1] = j[1]
  BY DEF UnderGrant, Jobs
<1>1. Submit
  BY OnlySubmitted
<1>2. /\ at \in Days /\ control.cycles[at] = "reserved" /\ control.grant \in Grants
      /\ mem.grant = control.grant /\ mem.accepted = control.accepted
      /\ control.enabled /\ ChannelKept(mem)
      /\ job[<<control.grant, at>>] = "none"
      /\ job' = [job EXCEPT ![<<control.grant, at>>] = "queued"]
  BY <1>1, SubmitFacts
<1>3. job \in [Jobs -> Queue!Statuses]
  BY DEF TrackingInv, TypeOK, Jobs
<1>4. j = <<control.grant, at>>
  BY <1>2, <1>3
<1>5. control # NoControl
  BY <1>2, FreshControl, Parameters
<1>6. Waiting(control, job, history) /\ Cardinality(Reserved(control)) <= MaxJobs
  BY <1>5 DEF TrackingInv, RecordSound
<1>7. \A i \in 1..Len(history) : history[i][2] < at
  BY <1>2, <1>6 DEF Waiting
<1>8. current.id = control.accepted \/ current.by[1] = control.grant
  BY <1>2 DEF ChannelKept, Recovering, OwnImport
<1> QED BY <1>2, <1>4, <1>6, <1>7, <1>8

(* dispatch after reserve: a job enters the queue while its grant is in     *)
(* force, within the jobs that were granted, for a session later than all   *)
(* that were observed, on data that nobody but the grant has changed.       *)
THEOREM AlwaysSubmittedUnderGrant == Spec => SubmittedUnderGrant
<1>1. TrackingInv /\ [Next]_vars => [UnderGrant]_vars
  BY SubmittedSoundly
<1>2. Spec => [][UnderGrant]_vars
  BY <1>1, TrackingInvariant, PTL DEF Spec
<1> QED BY <1>2 DEF SubmittedUnderGrant, UnderGrant

(* Submit, jobs that run or are handled, and kills: through all of them the *)
(* queue is seen to do what JobLifecycle promises and no more, so that what *)
(* is proved above rests on LifecycleSafety of QueueProofs.                 *)
THEOREM TrackingUsesQueue == Spec => Queue!Init /\ [][Queue!Next]_(Queue!vars)
<1>1. Init => Queue!Init
  BY DEF Init
<1>2. TrackingInv /\ [Next]_vars => [Queue!Next]_(Queue!vars)
  <2> SUFFICES ASSUME TrackingInv, [Next]_vars PROVE [Queue!Next]_(Queue!vars)
    OBVIOUS
  <2>1. UNCHANGED queueVars => UNCHANGED Queue!vars
    BY DEF queueVars, Queue!vars
  <2>2. ASSUME Submit, Queue!Submit(JobOf(at)) PROVE Queue!Next
    <3>1. JobOf(at) \in Grants \X Days
      BY <2>2, SubmitFacts
    <3> QED BY <2>2, <3>1 DEF Queue!Next
  <2>3. ASSUME NEW j \in Jobs,
               Queue!Start(j) \/ Queue!End(j) \/ Queue!Cancel(j) \/ Queue!Retry(j)
        PROVE  Queue!Next
    BY <2>3 DEF Queue!Next, Jobs
  <2>4. Queue!Restart => Queue!Next
    BY DEF Queue!Next
  <2> QED BY <2>1, <2>2, <2>3, <2>4, StepOfLifecycle
<1> QED BY <1>1, <1>2, TrackingInvariant, PTL DEF Spec
=============================================================================
