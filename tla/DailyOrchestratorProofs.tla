---------------------- MODULE DailyOrchestratorProofs -----------------------
(***************************************************************************)
(* Proofs about DailyOrchestrator: for any windows, limits, market data    *)
(* and numbers of kills, refusals and revisions, each frame of the day is  *)
(* frozen at most once, what the plan says of it is true, reviews continue *)
(* what was predicted, and no capture goes uncounted.                      *)
(***************************************************************************)
EXTENDS DailyOrchestrator, FiniteSetTheorems, WellFoundedInduction, TLAPS

(* The store has one case of a frame at most, and completes it in order. *)
StoreSound ==
    \A f \in Frames :
        /\ \A c, d \in cases[f] : c = d
        /\ sets[f] \subseteq cases[f]
        /\ predictions[f] \subseteq sets[f]

(* What a state of the plan, in memory or on disk, says is true. *)
PlanSound(m) ==
    /\ \A f \in Frames : m.stage[f] = "FROZEN" => predictions[f] = {m.content[f]}
    /\ m.applied \subseteq desk
    /\ m.stage["PREP"] = "RESERVED" => m.content["PREP"] \in Contents
    /\ cases["PREP"] \subseteq {m.content["PREP"]}
    /\ cases["PREP"] # {} /\ m.status \notin Terminal =>
          m.stage["PREP"] \in {"RESERVED", "FROZEN"}
    /\ m.status \notin Terminal =>
          /\ m.stage["PREP"] \in {"PENDING", "RESERVED", "FROZEN"}
          /\ \A f \in Live : m.stage[f] \in {"PENDING", "FROZEN", "MISSED"}

(* The tick is ahead of the disk only by what is not yet decided there. *)
DiskFollows ==
    /\ mem.attempts = disk.attempts /\ mem.content["PREP"] = disk.content["PREP"]
    /\ \A f \in Frames : disk.stage[f] \in {mem.stage[f], "PENDING", "RESERVED"}
    /\ tick.step \in {"idle", "market", "capturing", "prep", "scan"} => mem = disk

(* Unless a tick was killed, it knows each prediction to be frozen. *)
PredictionsKnown ==
    crashes = 0 => \A f \in Frames : predictions[f] # {} => mem.stage[f] = "FROZEN"

(* The frame before f is on the desk, if it is frozen and the bridge is on. *)
BridgedBefore(f) ==
    f \in {"R2", "R3"} /\ mem.stage[Before(f)] = "FROZEN" /\ Bridging
        => Before(f) \in mem.applied

(* What has been established when a tick gets to a step. *)
TickSound ==
    LET f == tick.frame IN
    /\ tick.step # "idle" => mem.status \notin Terminal /\ disk.status \notin Terminal
    /\ tick.step \in {"capturing", "scan"} => f = "PREP"
    /\ tick.step = "scan" => mem.stage["PREP"] \notin {"RESERVED", "FROZEN"}
    /\ tick.step \in {"stage", "observing"} => f \in Live
    /\ tick.step = "observing" => mem.stage[f] = "PENDING" /\ ~Broken(f)
    /\ tick.step \in {"stage", "observing", "case"} => BridgedBefore(f)
    /\ tick.step \in {"case", "set", "prediction"} =>
          /\ mem.content[f] \in Contents
          /\ mem.stage[f] = IF f = "PREP" THEN "RESERVED" ELSE "PENDING"
          /\ f = "PREP" => disk.stage[f] = "RESERVED"
    /\ tick.step = "case" /\ f \in {"R2", "R3"} =>
          /\ mem.stage[Before(f)] = "FROZEN"
          /\ mem.content[f].prev = mem.content[Before(f)].asOf
    /\ tick.step \in {"set", "prediction"} => cases[f] = {mem.content[f]}
    /\ tick.step = "prediction" => mem.content[f] \in sets[f]
    /\ tick.step \in {"frozen", "bridge"} => mem.stage[f] = "FROZEN"

(* A capture is on disk before it is made. *)
CaptureCounted ==
    /\ CallsAreCounted
    /\ tick.step \in {"capturing", "observing"} => calls[tick.frame] < disk.attempts[tick.frame]

DailyInv ==
    /\ TypeOK /\ crashes \in Nat
    /\ StoreSound
    /\ PlanSound(mem) /\ PlanSound(disk)
    /\ DiskFollows
    /\ PredictionsKnown
    /\ TickSound
    /\ CaptureCounted
    /\ ReviewsContinue

-----------------------------------------------------------------------------
(* Frames, snapshots, and the fields of a changed plan *)

LEMMA FrameFacts ==
    /\ Frames = {"PREP", "AUCTION", "R1", "R2", "R3"}
    /\ Live = {"AUCTION", "R1", "R2", "R3"}
    /\ Next1("PREP") = "AUCTION" /\ Next1("AUCTION") = "R1"
    /\ Next1("R1") = "R2" /\ Next1("R2") = "R3"
    /\ Before("R1") = "AUCTION" /\ Before("R2") = "R1" /\ Before("R3") = "R2"
<1>1. /\ Order[1] = "PREP" /\ Order[2] = "AUCTION" /\ Order[3] = "R1"
      /\ Order[4] = "R2" /\ Order[5] = "R3"
  BY DEF Order
<1>2. Frames = {"PREP", "AUCTION", "R1", "R2", "R3"}
  <2>1. 1 .. 5 = {1, 2, 3, 4, 5}
    OBVIOUS
  <2> QED BY <1>1, <2>1 DEF Frames
<1>3. ASSUME NEW n \in 1 .. 4, NEW f, f = Order[n] PROVE Next1(f) = Order[1 + n]
  <2>1. \A i \in 1 .. 4 : Order[i] = f <=> i = n
    BY <1>1, <1>3
  <2>2. (CHOOSE i \in 1 .. 4 : Order[i] = f) = n
    BY <2>1
  <2> QED BY <2>2 DEF Next1
<1>4. ASSUME NEW n \in 2 .. 5, NEW f, f = Order[n] PROVE Before(f) = Order[n - 1]
  <2>1. \A i \in 2 .. 5 : Order[i] = f <=> i = n
    BY <1>1, <1>4
  <2>2. (CHOOSE i \in 2 .. 5 : Order[i] = f) = n
    BY <2>1
  <2> QED BY <2>2 DEF Before
<1>5. /\ Next1(Order[1]) = Order[2] /\ Next1(Order[2]) = Order[3]
      /\ Next1(Order[3]) = Order[4] /\ Next1(Order[4]) = Order[5]
  BY <1>3
<1>6. /\ Before(Order[3]) = Order[2] /\ Before(Order[4]) = Order[3]
      /\ Before(Order[5]) = Order[4]
  BY <1>4
<1> QED BY <1>1, <1>2, <1>5, <1>6 DEF Live

(* Every set of times has a first one. *)
LEMMA LeastTime ==
    ASSUME NEW S \in SUBSET Nat, S # {}
    PROVE  \E t \in S : \A u \in S : t <= u
<1> DEFINE R == {p \in Nat \X Nat : p[1] < p[2]}
<1>1. IsWellFoundedOn(R, Nat)
  BY NatLessThanWellFounded DEF OpToRel
<1> HIDE DEF R
<1>2. PICK t \in S : \A u \in S : <<u, t>> \notin R
  BY <1>1, WFMin
<1>3. \A u \in S : ~(u < t)
  BY <1>2 DEF R
<1> QED BY <1>3

LEMMA FirstIsSnapshot ==
    ASSUME TypeOK, NEW f \in Live, snaps[f] # {}
    PROVE  First(f) \in Times
<1>1. snaps[f] \subseteq Times /\ Times \subseteq Nat
  BY DEF TypeOK, Times
<1>2. \E t \in snaps[f] : \A u \in snaps[f] : t <= u
  BY <1>1, LeastTime
<1> QED BY <1>1, <1>2 DEF First

LEMMA StagedFields ==
    ASSUME mem \in Plan, NEW f \in Frames, NEW s \in StageStates
    PROVE  /\ Staged(f, s) \in Plan
           /\ Staged(f, s).stage = [mem.stage EXCEPT ![f] = s]
           /\ Staged(f, s).status = mem.status /\ Staged(f, s).attempts = mem.attempts
           /\ Staged(f, s).content = mem.content /\ Staged(f, s).applied = mem.applied
           /\ Staged(f, s).empty = mem.empty /\ Staged(f, s).last = mem.last
BY DEF Staged, Plan

LEMMA EndedFields ==
    ASSUME NEW m \in Plan, NEW s \in {"open"} \cup Terminal
    PROVE  LET e == [m EXCEPT !.status = s] IN
           /\ e \in Plan
           /\ e.status = s /\ e.stage = m.stage /\ e.attempts = m.attempts
           /\ e.content = m.content /\ e.applied = m.applied
BY DEF Plan

-----------------------------------------------------------------------------
(* Types *)

PlanTyped ==
    /\ disk \in Plan /\ mem \in Plan
    /\ tick \in [step : Steps, frame : Frames, at : Times]

LEMMA TypeMeansPlan == TypeOK => PlanTyped
BY DEF TypeOK, PlanTyped

LEMMA GotoTyped ==
    ASSUME TypeOK, NEW s \in Steps, NEW f \in Frames, Goto(s, f)
    PROVE  tick' \in [step : Steps, frame : Frames, at : Times]
BY DEF TypeOK, Goto

LEMMA LeaveTyped ==
    ASSUME TypeOK, NEW m \in Plan, Leave(m)
    PROVE  PlanTyped'
<1>1. tick.frame \in Frames /\ "idle" \in Steps
  BY DEF TypeOK, Steps
<1> QED BY <1>1, GotoTyped DEF Leave, Save, PlanTyped

LEMMA WorkTyped ==
    ASSUME TypeOK, NEW m \in Plan, NEW s \in Steps, NEW f \in Frames,
           Work(m) \/ Save(m), Goto(s, f)
    PROVE  PlanTyped'
BY GotoTyped, TypeMeansPlan DEF Work, Save, PlanTyped

LEMMA SameTyped ==
    ASSUME TypeOK, NEW s \in Steps, NEW f \in Frames, UNCHANGED <<mem, disk>>, Goto(s, f)
    PROVE  PlanTyped'
BY GotoTyped, TypeMeansPlan DEF PlanTyped

LEMMA MissTyped ==
    ASSUME TypeOK, NEW f \in Live, Miss(f)
    PROVE  PlanTyped'
<1>0. mem \in Plan /\ f \in Frames /\ "MISSED" \in StageStates /\ "stage" \in Steps
  BY TypeMeansPlan DEF PlanTyped, StageStates, Steps, Live
<1>1. Staged(f, "MISSED") \in Plan
  BY <1>0, StagedFields
<1>2. CASE f = "R3"
  <2>1. [Staged(f, "MISSED") EXCEPT !.status = "COMPLETE_WITH_MISSED"] \in Plan
    BY <1>1, EndedFields DEF Terminal
  <2> QED BY <1>2, <2>1, LeaveTyped DEF Miss
<1>3. CASE f # "R3"
  <2>1. Next1(f) \in Frames
    BY <1>3, FrameFacts
  <2> QED BY <1>0, <1>1, <1>3, <2>1, WorkTyped DEF Miss
<1> QED BY <1>2, <1>3

LEMMA WithoutTyped ==
    ASSUME TypeOK, NEW f \in Live, Without(f)
    PROVE  PlanTyped'
BY MissTyped, LeaveTyped, TypeMeansPlan DEF Without, PlanTyped

(* The content of a frame that a snapshot is used for. *)
Found(f) == [asOf |-> First(f), prev |-> Basis(f)]

LEMMA FoundIsContent ==
    ASSUME TypeOK, NEW f \in Live, snaps[f] # {}, ~Lacks(f)
    PROVE  Found(f) \in Contents
<1>1. First(f) \in Times
  BY FirstIsSnapshot
<1>2. Basis(f) \in Times \cup {NoTime}
  <2>1. CASE f = "AUCTION"
    BY <2>1 DEF Basis
  <2>2. CASE f = "R1"
    BY <2>2, FirstIsSnapshot, FrameFacts DEF Basis, Lacks
  <2>3. CASE f \notin {"AUCTION", "R1"}
    <3>1. f \in {"R2", "R3"} /\ Before(f) \in Frames
      BY <2>3, FrameFacts
    <3>2. mem.content[Before(f)] \in Contents \cup {NoContent}
      BY <3>1 DEF TypeOK, Plan
    <3>3. mem.content[Before(f)].asOf \in Times \cup {NoTime}
      BY <3>2 DEF Contents, NoContent
    <3> QED BY <2>3, <3>3 DEF Basis
  <2> QED BY <2>1, <2>2, <2>3
<1> QED BY <1>1, <1>2 DEF Found, Contents

(* The plan with that content. *)
Using(f) == [mem EXCEPT !.content[f] = Found(f)]

LEMMA UsingFields ==
    ASSUME mem \in Plan, NEW f \in Frames, Found(f) \in Contents
    PROVE  /\ Using(f) \in Plan
           /\ Using(f).content = [mem.content EXCEPT ![f] = Found(f)]
           /\ Using(f).status = mem.status /\ Using(f).attempts = mem.attempts
           /\ Using(f).stage = mem.stage /\ Using(f).applied = mem.applied
<1> DEFINE c == Found(f)
<1> HIDE DEF c
<1>1. /\ [mem EXCEPT !.content[f] = c] \in Plan
      /\ [mem EXCEPT !.content[f] = c].content = [mem.content EXCEPT ![f] = c]
      /\ [mem EXCEPT !.content[f] = c].status = mem.status
      /\ [mem EXCEPT !.content[f] = c].attempts = mem.attempts
      /\ [mem EXCEPT !.content[f] = c].stage = mem.stage
      /\ [mem EXCEPT !.content[f] = c].applied = mem.applied
  <2>1. c \in Contents
    BY DEF c
  <2> QED BY <2>1 DEF Plan
<1> QED BY <1>1 DEF Using, c

LEMMA UseTyped ==
    ASSUME TypeOK, NEW f \in Live, snaps[f] # {}, Use(f)
    PROVE  PlanTyped'
<1>0. mem \in Plan /\ f \in Frames /\ "case" \in Steps
  BY TypeMeansPlan DEF PlanTyped, Steps, Live
<1>1. CASE Without(f) \/ Miss(f)
  BY <1>1, WithoutTyped, MissTyped
<1>2. CASE ~Lacks(f) /\ Work(Using(f)) /\ Goto("case", f)
  <2>1. Using(f) \in Plan
    BY <1>0, <1>2, FoundIsContent, UsingFields
  <2> QED BY <1>0, <1>2, <2>1, WorkTyped
<1> QED BY <1>1, <1>2 DEF Use, Using, Found

LEMMA RefusedTyped ==
    ASSUME TypeOK, NEW f \in Frames, Refused(f)
    PROVE  PlanTyped'
<1>1. mem \in Plan /\ Staged(f, "MISSED") \in Plan /\ "stage" \in Steps
  BY TypeMeansPlan, StagedFields DEF PlanTyped, StageStates, Steps
<1> QED BY <1>1, WorkTyped, LeaveTyped DEF Refused

LEMMA NoTradeFields ==
    ASSUME mem \in Plan
    PROVE  /\ NoTrade \in Plan
           /\ NoTrade.status = "COMPLETE_NO_TRADE" /\ NoTrade.attempts = mem.attempts
           /\ NoTrade.content = mem.content /\ NoTrade.applied = mem.applied
           /\ NoTrade.stage = [f \in Frames |-> IF mem.stage[f] = "PENDING"
                                                THEN "SKIPPED_NO_TRADE" ELSE mem.stage[f]]
<1>1. [f \in Frames |-> IF mem.stage[f] = "PENDING" THEN "SKIPPED_NO_TRADE" ELSE mem.stage[f]]
        \in [Frames -> StageStates]
  BY DEF Plan, StageStates
<1> QED BY <1>1 DEF NoTrade, Plan, Terminal

LEMMA CompletedFields ==
    ASSUME mem \in Plan
    PROVE  /\ Completed \in Plan /\ Completed.status \in Terminal
           /\ Completed.stage = mem.stage /\ Completed.attempts = mem.attempts
           /\ Completed.content = mem.content /\ Completed.applied = mem.applied
<1>1. {"COMPLETE_WITH_MISSED", "COMPLETE"} \subseteq Terminal
  BY DEF Terminal
<1> QED BY <1>1, EndedFields DEF Completed, Ended

LEMMA AdvanceTyped ==
    ASSUME TypeOK, NEW f \in Frames, Advance(f)
    PROVE  PlanTyped'
<1>1. mem \in Plan /\ "stage" \in Steps
  BY TypeMeansPlan DEF PlanTyped, Steps
<1>2. f # "R3" => Next1(f) \in Frames
  BY FrameFacts
<1> QED BY <1>1, <1>2, NoTradeFields, CompletedFields, LeaveTyped, SameTyped DEF Advance

(* An attempt is counted. *)
LEMMA AttemptFields ==
    ASSUME mem \in Plan, NEW f \in Frames, NEW t \in Times \cup {NoTime}
    PROVE  LET m == [mem EXCEPT !.attempts[f] = @ + 1]
               n == [m EXCEPT !.last = t]
           IN  /\ m \in Plan /\ n \in Plan
               /\ m.attempts = [mem.attempts EXCEPT ![f] = @ + 1] /\ n.attempts = m.attempts
               /\ m.status = mem.status /\ n.status = mem.status
               /\ m.stage = mem.stage /\ n.stage = mem.stage
               /\ m.content = mem.content /\ n.content = mem.content
               /\ m.applied = mem.applied /\ n.applied = mem.applied
<1>1. mem.attempts[f] + 1 \in Nat
  BY DEF Plan
<1> QED BY <1>1 DEF Plan

LEMMA ReservationFields ==
    ASSUME TypeOK, NEW none \in BOOLEAN
    PROVE  LET m == [Reservation EXCEPT !.empty = none] IN
           /\ m \in Plan
           /\ m.stage = [mem.stage EXCEPT !["PREP"] = "RESERVED"]
           /\ m.content = [mem.content EXCEPT !["PREP"] = [asOf |-> tick.at, prev |-> NoTime]]
           /\ m.status = mem.status /\ m.attempts = mem.attempts /\ m.applied = mem.applied
<1> DEFINE c == [asOf |-> tick.at, prev |-> NoTime]
           r == Staged("PREP", "RESERVED")
<1>1. c \in Contents
  BY DEF TypeOK, Contents
<1>2. /\ r \in Plan /\ "PREP" \in Frames
      /\ r.stage = [mem.stage EXCEPT !["PREP"] = "RESERVED"]
      /\ r.status = mem.status /\ r.attempts = mem.attempts
      /\ r.content = mem.content /\ r.applied = mem.applied
  BY TypeMeansPlan, StagedFields, FrameFacts DEF PlanTyped, StageStates
<1>3. Reservation = [r EXCEPT !.content["PREP"] = c]
  BY DEF Reservation
<1> HIDE DEF c, r
<1>4. /\ [r EXCEPT !.content["PREP"] = c] \in Plan
      /\ [r EXCEPT !.content["PREP"] = c].content = [r.content EXCEPT !["PREP"] = c]
      /\ [r EXCEPT !.content["PREP"] = c].stage = r.stage
      /\ [r EXCEPT !.content["PREP"] = c].status = r.status
      /\ [r EXCEPT !.content["PREP"] = c].attempts = r.attempts
      /\ [r EXCEPT !.content["PREP"] = c].applied = r.applied
  BY <1>1, <1>2 DEF Plan
<1>5. ASSUME NEW m \in Plan
      PROVE  /\ [m EXCEPT !.empty = none] \in Plan
             /\ [m EXCEPT !.empty = none].stage = m.stage
             /\ [m EXCEPT !.empty = none].content = m.content
             /\ [m EXCEPT !.empty = none].status = m.status
             /\ [m EXCEPT !.empty = none].attempts = m.attempts
             /\ [m EXCEPT !.empty = none].applied = m.applied
  BY DEF Plan
<1> QED BY <1>2, <1>3, <1>4, <1>5 DEF c

LEMMA AppliedFields ==
    ASSUME mem \in Plan, NEW f \in Frames
    PROVE  LET m == [mem EXCEPT !.applied = @ \cup {f}] IN
           /\ m \in Plan /\ m.applied = mem.applied \cup {f}
           /\ m.status = mem.status /\ m.attempts = mem.attempts
           /\ m.stage = mem.stage /\ m.content = mem.content
BY DEF Plan

LEMMA PlanTypeStep ==
    ASSUME DailyInv, [Next]_vars
    PROVE  PlanTyped'
<1>0. /\ TypeOK /\ PlanTyped /\ mem \in Plan /\ tick.frame \in Frames /\ TickSound
  BY TypeMeansPlan DEF DailyInv, PlanTyped
<1>1. /\ {"PREP"} \subseteq Frames /\ Live \subseteq Frames
      /\ {"market", "capturing", "prep", "scan", "stage", "observing", "case", "set",
          "prediction", "frozen", "bridge"} \subseteq Steps
  BY FrameFacts DEF Steps
<1>2. CASE UNCHANGED <<mem, disk, tick>>
  BY <1>0, <1>2 DEF PlanTyped
<1>3. CASE Begin
  BY <1>0, <1>1, <1>3 DEF Begin, PlanTyped, TypeOK
<1>4. CASE Crash
  BY <1>0, <1>4, GotoTyped DEF Crash, PlanTyped, Steps
<1>5. CASE Market
  <2>1. ASSUME CaptureMarket PROVE PlanTyped'
    <3>1. [mem EXCEPT !.attempts["PREP"] = @ + 1, !.last = tick.at] \in Plan
      BY <1>0, <1>1, AttemptFields DEF TypeOK
    <3> QED BY <1>0, <1>1, <2>1, <3>1, WorkTyped DEF CaptureMarket
  <2>2. Ended("BLOCKED_CAPTURE_BUDGET") \in Plan
    BY <1>0, EndedFields DEF Ended, Terminal
  <2> QED BY <1>0, <1>1, <1>5, <2>1, <2>2, SameTyped, LeaveTyped DEF Market
<1>6. CASE Captured
  BY <1>0, <1>1, <1>6, SameTyped, LeaveTyped DEF Captured
<1>7. CASE Prep
  <2>1. [Staged("PREP", "MISSED") EXCEPT !.status = "BLOCKED_PREP_MISSED"] \in Plan
    BY <1>0, <1>1, StagedFields, EndedFields DEF StageStates, Terminal
  <2> QED BY <1>0, <1>1, <1>7, <2>1, SameTyped, LeaveTyped DEF Prep
<1>8. CASE Scan
  <2>1. ASSUME NEW none \in BOOLEAN, Reserve(none), Goto("case", "PREP") PROVE PlanTyped'
    BY <1>0, <1>1, <2>1, ReservationFields, WorkTyped DEF Reserve
  <2>2. Ended("BLOCKED_ROUTE_UNKNOWN") \in Plan
    BY <1>0, EndedFields DEF Ended, Terminal
  <2> QED BY <1>0, <1>8, <2>1, <2>2, LeaveTyped DEF Scan
<1>9. CASE Case
  BY <1>0, <1>1, <1>9, SameTyped, RefusedTyped DEF Case
<1>10. CASE CandidateSet
  BY <1>0, <1>1, <1>10, SameTyped DEF CandidateSet
<1>11. CASE Prediction
  <2>1. Staged(tick.frame, "FROZEN") \in Plan
    BY <1>0, StagedFields DEF StageStates
  <2> QED BY <1>0, <1>1, <1>11, <2>1, WorkTyped DEF Prediction
<1>12. CASE Frozen
  BY <1>0, <1>1, <1>12, SameTyped, AdvanceTyped DEF Frozen
<1>13. CASE Bridge
  <2>1. [mem EXCEPT !.applied = @ \cup {tick.frame}] \in Plan
    BY <1>0, AppliedFields
  <2> QED BY <1>0, <1>1, <1>13, <2>1, WorkTyped, LeaveTyped DEF Bridge
<1>14. CASE Stage
  <2> DEFINE f == tick.frame
  <2>1. f \in Live
    BY <1>0, <1>14 DEF Stage, At, TickSound
  <2>2. ASSUME Save([mem EXCEPT !.attempts[f] = @ + 1]), Goto("observing", f)
        PROVE  PlanTyped'
    <3>1. [mem EXCEPT !.attempts[f] = @ + 1] \in Plan
      BY <1>0, AttemptFields
    <3> QED BY <1>0, <1>1, <2>2, <3>1, WorkTyped
  <2>3. CASE Goto("frozen", f) /\ UNCHANGED <<mem, disk>>
    BY <1>0, <1>1, <2>3, SameTyped
  <2>4. CASE Miss(f) \/ Leave(mem) \/ Without(f)
    BY <1>0, <2>1, <2>4, MissTyped, LeaveTyped, WithoutTyped
  <2>5. CASE snaps[f] # {} /\ Use(f)
    BY <1>0, <2>1, <2>5, UseTyped
  <2> QED
    <3>1. mem.stage[f] \in {"PENDING", "FROZEN", "MISSED"}
      BY <1>0, <1>14, <2>1 DEF DailyInv, PlanSound, TickSound, Stage, At
    <3>2. tick.at \in Int /\ Ready[f] \in Int /\ Close[f] \in Int
      BY <1>0, OrchestratorAssumption DEF TypeOK, Times
    <3>3. mem.stage[f] = "PENDING" =>
            \/ tick.at < Ready[f]
            \/ Late(f) \/ (CanFreeze(f) /\ Broken(f))
            \/ CanFreeze(f) /\ ~Broken(f)
      BY <3>2 DEF Late, CanFreeze
    <3> QED BY <1>14, <2>2, <2>3, <2>4, <2>5, <3>1, <3>3 DEF Stage
<1>15. CASE Observing
  <2>1. tick.frame \in Live
    BY <1>0, <1>15 DEF Observing, At, TickSound
  <2> QED BY <1>0, <1>1, <1>15, <2>1, SameTyped, WithoutTyped, UseTyped DEF Observing
<1>16. UNCHANGED <<mem, disk, tick>> \/ Begin \/ Crash \/ Tick
  BY DEF Next, vars, Pass, Archive, Observe, Quiet
<1> QED BY <1>2, <1>3, <1>4, <1>5, <1>6, <1>7, <1>8, <1>9, <1>10, <1>11, <1>12, <1>13, <1>14,
           <1>15, <1>16 DEF Tick

(* A snapshot is of a time that there is. *)
LEMMA SnapshotTyped ==
    ASSUME TypeOK, NEW f \in Live, NEW t \in {clock - 1, clock} \cap (Ready[f] .. Cutoff[f]),
           snaps' = [snaps EXCEPT ![f] = @ \cup {t}]
    PROVE  snaps' \in [Live -> SUBSET Times]
<1>1. Ready[f] \in Nat /\ Cutoff[f] \in Nat /\ MaxTime \in Nat
  BY OrchestratorAssumption, FrameFacts
<1>2. t \in Times
  BY <1>1 DEF TypeOK, Times
<1> QED BY <1>2 DEF TypeOK

LEMMA DailyTypeStep ==
    ASSUME DailyInv, [Next]_vars
    PROVE  TypeOK'
<1> USE DEF vars, outside, store, bounds, Quiet
<1>0. TypeOK /\ TickSound /\ PlanTyped'
  BY PlanTypeStep DEF DailyInv
<1>1. clock' \in Times
  <2>1. CASE Pass
    BY <1>0, <2>1, OrchestratorAssumption DEF TypeOK, Times, Pass
  <2>2. clock' = clock \/ Pass
    BY DEF Next, Archive, Observe, Begin, Crash, Tick, Market, Captured, Prep, Scan, Case,
           CandidateSet, Prediction, Frozen, Bridge, Stage, Observing
  <2> QED BY <1>0, <2>1, <2>2 DEF TypeOK
<1>2. market' \in [accepted : BOOLEAN, review : BOOLEAN]
  BY <1>0
  DEF TypeOK, Next, Pass, Archive, Observe, Begin, Crash, Tick, Market, Captured, Prep,
      Scan, Case, CandidateSet, Prediction, Frozen, Bridge, Stage, Observing
<1>3. snaps' \in [Live -> SUBSET Times]
  <2>1. ASSUME NEW f \in Live, Observe(f) PROVE snaps' \in [Live -> SUBSET Times]
    BY <1>0, <2>1, SnapshotTyped DEF Observe
  <2>2. CASE Observing
    BY <1>0, <2>2, SnapshotTyped DEF Observing, TickSound, At, TypeOK
  <2> QED
    BY <1>0, <2>1, <2>2
    DEF TypeOK, Next, Pass, Archive, Begin, Crash, Tick, Market, Captured, Prep,
        Scan, Case, CandidateSet, Prediction, Frozen, Bridge, Stage
<1>4. /\ cases' \in [Frames -> SUBSET Contents] /\ sets' \in [Frames -> SUBSET Contents]
      /\ predictions' \in [Frames -> SUBSET Contents] /\ desk' \in SUBSET Frames
  <2> DEFINE c == Content(tick.frame)
  <2>1. CASE Case
    <3>1. c \in Contents
      BY <1>0, <2>1 DEF Case, At, TickSound, Content
    <3> HIDE DEF c
    <3>2. cases' = cases \/ cases' = [cases EXCEPT ![tick.frame] = @ \cup {c}]
      BY <2>1 DEF Case, c
    <3> QED BY <1>0, <2>1, <3>1, <3>2 DEF TypeOK, Case
  <2>2. CASE CandidateSet
    <3>1. c \in Contents
      BY <1>0, <2>2 DEF CandidateSet, At, TickSound, Content
    <3> HIDE DEF c
    <3>2. sets' = [sets EXCEPT ![tick.frame] = @ \cup {c}]
      BY <2>2 DEF CandidateSet, c
    <3> QED BY <1>0, <2>2, <3>1, <3>2 DEF TypeOK, CandidateSet
  <2>3. CASE Prediction
    <3>1. c \in Contents
      BY <1>0, <2>3 DEF Prediction, At, TickSound, Content
    <3> HIDE DEF c
    <3>2. predictions' = [predictions EXCEPT ![tick.frame] = @ \cup {c}]
      BY <2>3 DEF Prediction, c
    <3> QED BY <1>0, <2>3, <3>1, <3>2 DEF TypeOK, Prediction
  <2>4. CASE Bridge
    BY <1>0, <2>4 DEF TypeOK, Bridge
  <2> QED
    BY <1>0, <2>1, <2>2, <2>3, <2>4
    DEF TypeOK, Next, Pass, Archive, Observe, Begin, Crash, Tick, Market, Captured, Prep,
        Scan, Frozen, Stage, Observing
<1>5. calls' \in [Frames -> Nat]
  <2>1. ASSUME NEW f \in Frames, calls' = [calls EXCEPT ![f] = @ + 1]
        PROVE  calls' \in [Frames -> Nat]
    BY <1>0, <2>1 DEF TypeOK
  <2>2. calls' = calls \/ \E f \in Frames : calls' = [calls EXCEPT ![f] = @ + 1]
    BY <1>0, FrameFacts
    DEF TypeOK, Next, Pass, Archive, Observe, Begin, Crash, Tick, Market, Captured, Prep,
        Scan, Case, CandidateSet, Prediction, Frozen, Bridge, Stage, Observing
  <2> QED BY <1>0, <2>1, <2>2 DEF TypeOK
<1> QED BY <1>0, <1>1, <1>2, <1>3, <1>4, <1>5 DEF TypeOK, PlanTyped

-----------------------------------------------------------------------------
(* Steps that leave the store alone *)

(* m says nothing that mem does not say, and gives up only what was open. *)
Follows(m) ==
    /\ m \in Plan
    /\ m.applied = mem.applied
    /\ m.content["PREP"] = mem.content["PREP"]
    /\ \A f \in Frames :
          /\ m.stage[f] # mem.stage[f] =>
                /\ mem.stage[f] \in {"PENDING", "RESERVED"}
                /\ m.stage[f] \in {"MISSED", "SKIPPED_NO_TRADE"}
          /\ m.content[f] # mem.content[f] => m.stage[f] # "FROZEN"
    /\ m.status \notin Terminal =>
          /\ m.stage["PREP"] = mem.stage["PREP"]
          /\ \A f \in Live : m.stage[f] \in {"PENDING", "FROZEN", "MISSED"}

Quietly ==
    /\ Follows(mem')
    /\ disk' \in {disk, mem'}
    /\ mem'.attempts = disk'.attempts
    /\ tick'.step \in {"idle", "market", "capturing", "prep", "scan"} => mem' = disk'
    /\ TickSound'

(* The invariant without types and counters. *)
PlanInv ==
    /\ StoreSound
    /\ PlanSound(mem) /\ PlanSound(disk)
    /\ DiskFollows
    /\ PredictionsKnown
    /\ TickSound
    /\ ReviewsContinue

LEMMA QuietStep ==
    ASSUME DailyInv, TypeOK', tick.step # "idle", UNCHANGED store, crashes' = crashes, Quietly
    PROVE  PlanInv'
<1>0. /\ TypeOK /\ PlanTyped /\ mem.status \notin Terminal /\ PlanSound(mem) /\ PlanSound(disk)
      /\ mem' \in Plan /\ disk' \in Plan /\ Follows(mem')
      /\ UNCHANGED <<cases, sets, predictions, desk>> /\ "PREP" \in Frames
  BY TypeMeansPlan, FrameFacts DEF DailyInv, TickSound, PlanTyped, TypeOK, Quietly, store
<1>1. /\ \A f \in Frames : mem'.stage[f] = "FROZEN" => predictions[f] = {mem'.content[f]}
      /\ mem'.applied \subseteq desk /\ cases["PREP"] \subseteq {mem'.content["PREP"]}
      /\ mem'.stage["PREP"] = "RESERVED" => mem'.content["PREP"] \in Contents
      /\ cases["PREP"] # {} /\ mem'.status \notin Terminal =>
            mem'.stage["PREP"] \in {"RESERVED", "FROZEN"}
      /\ mem'.status \notin Terminal =>
            /\ mem'.stage["PREP"] \in {"PENDING", "RESERVED", "FROZEN"}
            /\ \A f \in Live : mem'.stage[f] \in {"PENDING", "FROZEN", "MISSED"}
  <2>1. \A f \in Frames : mem'.stage[f] = "FROZEN" => predictions[f] = {mem'.content[f]}
    BY <1>0 DEF PlanSound, Follows
  <2>2. mem'.applied \subseteq desk /\ cases["PREP"] \subseteq {mem'.content["PREP"]}
    BY <1>0 DEF PlanSound, Follows
  <2>3. mem'.stage["PREP"] = "RESERVED" => mem'.content["PREP"] \in Contents
    BY <1>0 DEF PlanSound, Follows
  <2>4. cases["PREP"] # {} /\ mem'.status \notin Terminal =>
          mem'.stage["PREP"] \in {"RESERVED", "FROZEN"}
    BY <1>0 DEF PlanSound, Follows
  <2>5. mem'.status \notin Terminal => mem'.stage["PREP"] \in {"PENDING", "RESERVED", "FROZEN"}
    BY <1>0 DEF PlanSound, Follows
  <2> QED BY <1>0, <2>1, <2>2, <2>3, <2>4, <2>5 DEF Follows
<1>2. PlanSound(mem)' /\ PlanSound(disk)'
  <2>1. PlanSound(mem)'
    BY <1>0, <1>1 DEF PlanSound
  <2>2. CASE disk' = disk
    BY <1>0, <2>1, <2>2 DEF PlanSound
  <2>3. CASE disk' = mem'
    BY <1>0, <1>1, <2>1, <2>3 DEF PlanSound
  <2> QED BY <2>1, <2>2, <2>3 DEF Quietly
<1>3. DiskFollows'
  <2>1. \A f \in Frames : disk'.stage[f] \in {mem'.stage[f], "PENDING", "RESERVED"}
    <3>1. CASE disk' = mem'
      BY <3>1
    <3>2. CASE disk' = disk
      BY <1>0, <3>2 DEF DailyInv, DiskFollows, Follows
    <3> QED BY <3>1, <3>2 DEF Quietly
  <2>2. mem'.content["PREP"] = disk'.content["PREP"]
    BY <1>0 DEF DailyInv, DiskFollows, Follows, Quietly
  <2> QED BY <2>1, <2>2 DEF DiskFollows, Quietly
<1>4. PredictionsKnown'
  BY <1>0 DEF DailyInv, PredictionsKnown, Follows
<1>5. StoreSound' /\ ReviewsContinue'
  BY <1>0 DEF DailyInv, StoreSound, ReviewsContinue
<1> QED BY <1>2, <1>3, <1>4, <1>5 DEF PlanInv, Quietly

LEMMA LeaveQuietly ==
    ASSUME TypeOK, NEW m, Follows(m), Leave(m)
    PROVE  Quietly
<1>1. mem' = m /\ disk' = m /\ tick'.step = "idle"
  BY DEF Leave, Save, Goto, TypeOK
<1>2. TickSound'
  BY <1>1 DEF TickSound
<1> QED BY <1>1, <1>2 DEF Quietly

(* To a frame that is considered next. *)
LEMMA GotoStageQuietly ==
    ASSUME DailyInv, tick.step # "idle", NEW m, Follows(m), mem' = m, disk' = disk,
           m.attempts = mem.attempts, m.status \notin Terminal,
           NEW f \in Live, Goto("stage", f),
           f \in {"R2", "R3"} /\ m.stage[Before(f)] = "FROZEN" /\ Bridging
               => Before(f) \in m.applied
    PROVE  Quietly
<1>1. tick'.step = "stage" /\ tick'.frame = f
  BY DEF DailyInv, TypeOK, Goto
<1>2. TickSound'
  BY <1>1 DEF DailyInv, TickSound, BridgedBefore
<1> QED BY <1>1, <1>2 DEF Quietly, DailyInv, DiskFollows

LEMMA SelfFollows ==
    ASSUME DailyInv, tick.step # "idle"
    PROVE  Follows(mem)
BY DEF DailyInv, TypeOK, Follows, PlanSound, TickSound

LEMMA EndedFollows ==
    ASSUME mem \in Plan, NEW s \in Terminal
    PROVE  Follows(Ended(s)) /\ Ended(s).attempts = mem.attempts
<1> DEFINE e == [mem EXCEPT !.status = s]
<1>1. /\ e \in Plan
      /\ e.status = s /\ e.stage = mem.stage /\ e.attempts = mem.attempts
      /\ e.content = mem.content /\ e.applied = mem.applied
  BY EndedFields
<1>2. Ended(s) = e
  BY DEF Ended
<1> HIDE DEF e
<1>3. Follows(e)
  BY <1>1 DEF Follows
<1> QED BY <1>1, <1>2, <1>3

(* A frame that is open, or missed already, is missed. *)
LEMMA MissedFollows ==
    ASSUME DailyInv, tick.step # "idle", NEW f \in Live, mem.stage[f] \in {"PENDING", "MISSED"}
    PROVE  Follows(Staged(f, "MISSED"))
<1>0. mem \in Plan /\ f \in Frames /\ f # "PREP" /\ "MISSED" \in StageStates
  BY FrameFacts DEF DailyInv, TypeOK, StageStates
<1> DEFINE m == Staged(f, "MISSED")
<1>1. /\ m \in Plan /\ m.stage = [mem.stage EXCEPT ![f] = "MISSED"]
      /\ m.status = mem.status /\ m.content = mem.content /\ m.applied = mem.applied
  BY <1>0, StagedFields
<1>2. mem.stage \in [Frames -> StageStates]
  BY <1>0 DEF Plan
<1> HIDE DEF m
<1>3. /\ m.stage[f] = "MISSED"
      /\ \A g \in Frames \ {f} : m.stage[g] = mem.stage[g]
  BY <1>0, <1>1, <1>2
<1>4. Follows(mem) /\ mem.status \notin Terminal
  BY SelfFollows DEF DailyInv, TickSound
<1>5. Follows(m)
  BY <1>0, <1>1, <1>3, <1>4, FrameFacts DEF Follows
<1> QED BY <1>5 DEF m

LEMMA MissQuietly ==
    ASSUME DailyInv, tick.step # "idle", NEW f \in Live, mem.stage[f] \in {"PENDING", "MISSED"},
           Miss(f)
    PROVE  Quietly
<1>0. mem \in Plan /\ TypeOK /\ f \in Frames /\ "MISSED" \in StageStates
      /\ mem.status \notin Terminal
  BY FrameFacts DEF DailyInv, TypeOK, StageStates, TickSound
<1> DEFINE m == Staged(f, "MISSED")
<1>1. /\ m \in Plan /\ m.stage = [mem.stage EXCEPT ![f] = "MISSED"]
      /\ m.status = mem.status /\ m.attempts = mem.attempts
      /\ Follows(m) /\ m.stage[f] = "MISSED"
  <2>1. f \in DOMAIN mem.stage
    BY <1>0 DEF Plan
  <2> QED BY <1>0, <2>1, StagedFields, MissedFollows
<1>2. Miss(f) <=> IF f = "R3" THEN Leave([m EXCEPT !.status = "COMPLETE_WITH_MISSED"])
                  ELSE Work(m) /\ Goto("stage", Next1(f))
  BY DEF Miss
<1> HIDE DEF m
<1>3. CASE f = "R3"
  <2> DEFINE e == [m EXCEPT !.status = "COMPLETE_WITH_MISSED"]
  <2>1. /\ e \in Plan /\ e.status = "COMPLETE_WITH_MISSED" /\ e.status \in Terminal
        /\ e.stage = m.stage /\ e.content = m.content /\ e.applied = m.applied
    BY <1>1, EndedFields DEF Terminal
  <2> HIDE DEF e
  <2>2. Follows(e)
    BY <1>1, <2>1 DEF Follows
  <2> QED BY <1>0, <1>2, <1>3, <2>2, LeaveQuietly DEF e
<1>4. CASE f # "R3"
  <2>1. /\ Next1(f) \in Live /\ (Next1(f) \in {"R2", "R3"} => Before(Next1(f)) = f)
    BY <1>4, FrameFacts
  <2> QED BY <1>0, <1>1, <1>2, <1>4, <2>1, GotoStageQuietly DEF Work
<1> QED BY <1>3, <1>4

LEMMA WithoutQuietly ==
    ASSUME DailyInv, tick.step # "idle", NEW f \in Live, mem.stage[f] = "PENDING", Without(f)
    PROVE  Quietly
BY MissQuietly, SelfFollows, LeaveQuietly DEF Without, DailyInv

LEMMA UseQuietly ==
    ASSUME DailyInv, tick.step # "idle", NEW f \in Live, mem.stage[f] = "PENDING", ~Broken(f),
           BridgedBefore(f), snaps[f] # {}, Use(f)
    PROVE  Quietly
<1>0. /\ mem \in Plan /\ TypeOK /\ f \in Frames /\ f # "PREP" /\ "PREP" \in Frames
      /\ mem.status \notin Terminal /\ Follows(mem) /\ mem.attempts = disk.attempts
  BY FrameFacts, SelfFollows DEF DailyInv, TypeOK, TickSound, DiskFollows
<1>1. CASE Without(f) \/ Miss(f)
  BY <1>1, WithoutQuietly, MissQuietly
<1>2. CASE ~Lacks(f) /\ Work(Using(f)) /\ Goto("case", f)
  <2> DEFINE m == Using(f)
  <2>1. /\ Found(f) \in Contents /\ m \in Plan
        /\ m.content = [mem.content EXCEPT ![f] = Found(f)]
        /\ m.status = mem.status /\ m.attempts = mem.attempts
        /\ m.stage = mem.stage /\ m.applied = mem.applied
    BY <1>0, <1>2, FoundIsContent, UsingFields
  <2>2. mem' = m /\ disk' = disk
    BY <1>2 DEF Work
  <2> HIDE DEF m
  <2>3. /\ m.content[f] = Found(f)
        /\ \A g \in Frames \ {f} : m.content[g] = mem.content[g]
    BY <1>0, <2>1 DEF Plan
  <2>4. Follows(m)
    BY <1>0, <2>1, <2>3 DEF Follows
  <2>5. tick'.step = "case" /\ tick'.frame = f
    BY <1>0, <1>2 DEF TypeOK, Goto
  <2>6. f \in {"R2", "R3"} =>
          /\ mem.stage[Before(f)] = "FROZEN" /\ Before(f) # f /\ Before(f) \in Frames
          /\ Found(f).prev = mem.content[Before(f)].asOf
    BY FrameFacts DEF Broken, Found, Basis
  <2>7. TickSound'
    <3>1. mem'.content[f] \in Contents /\ mem'.stage[f] = "PENDING"
      BY <2>1, <2>2, <2>3
    <3>2. mem'.status \notin Terminal /\ disk'.status \notin Terminal
      BY <1>0, <2>1, <2>2 DEF DailyInv, TickSound
    <3>3. f \in {"R2", "R3"} =>
            /\ mem'.stage[Before(f)] = "FROZEN"
            /\ mem'.content[f].prev = mem'.content[Before(f)].asOf
      BY <2>1, <2>2, <2>3, <2>6
    <3>4. BridgedBefore(f)'
      BY <2>1, <2>2 DEF BridgedBefore
    <3> QED BY <1>0, <2>5, <3>1, <3>2, <3>3, <3>4 DEF TickSound
  <2> QED BY <1>0, <2>1, <2>2, <2>4, <2>5, <2>7 DEF Quietly
<1> QED BY <1>1, <1>2 DEF Use, Using, Found

LEMMA RefusedQuietly ==
    ASSUME DailyInv, tick.step = "case", Refused(tick.frame)
    PROVE  Quietly
<1> DEFINE f == tick.frame
<1>0. /\ mem \in Plan /\ TypeOK /\ f \in Frames /\ mem.status \notin Terminal /\ Follows(mem)
      /\ "MISSED" \in StageStates
      /\ mem.stage[f] = IF f = "PREP" THEN "RESERVED" ELSE "PENDING"
      /\ BridgedBefore(f)
  BY SelfFollows DEF DailyInv, TypeOK, TickSound, StageStates
<1>1. CASE Leave(mem)
  BY <1>0, <1>1, LeaveQuietly
<1>2. CASE f # "PREP" /\ Work(Staged(f, "MISSED")) /\ Goto("stage", f)
  <2> DEFINE m == Staged(f, "MISSED")
  <2>1. /\ f \in Live /\ mem.stage[f] = "PENDING"
        /\ f \in {"R2", "R3"} => Before(f) \in Frames /\ Before(f) # f
    BY <1>0, <1>2, FrameFacts
  <2>2. /\ Follows(m) /\ m.stage = [mem.stage EXCEPT ![f] = "MISSED"]
        /\ m.status = mem.status /\ m.attempts = mem.attempts /\ m.applied = mem.applied
    BY <1>0, <2>1, MissedFollows, StagedFields
  <2>3. mem' = m /\ disk' = disk
    BY <1>2 DEF Work
  <2>4. f \in {"R2", "R3"} /\ m.stage[Before(f)] = "FROZEN" /\ Bridging
          => Before(f) \in m.applied
    <3>1. f \in {"R2", "R3"} => m.stage[Before(f)] = mem.stage[Before(f)]
      BY <1>0, <2>1, <2>2 DEF Plan
    <3> QED BY <1>0, <2>2, <3>1 DEF BridgedBefore
  <2> HIDE DEF m
  <2> QED BY <1>0, <1>2, <2>1, <2>2, <2>3, <2>4, GotoStageQuietly
<1> QED BY <1>1, <1>2 DEF Refused

LEMMA AdvanceQuietly ==
    ASSUME DailyInv, tick.step = "frozen", ~Wanted(tick.frame), Advance(tick.frame)
    PROVE  Quietly
<1> DEFINE f == tick.frame
<1>0. /\ mem \in Plan /\ TypeOK /\ f \in Frames /\ mem.status \notin Terminal /\ Follows(mem)
      /\ mem.stage[f] = "FROZEN"
  BY SelfFollows DEF DailyInv, TypeOK, TickSound
<1>1. CASE f = "PREP" /\ Leave(NoTrade)
  <2>1. /\ NoTrade \in Plan /\ NoTrade.status \in Terminal
        /\ NoTrade.content = mem.content /\ NoTrade.applied = mem.applied
        /\ \A g \in Frames : NoTrade.stage[g] = IF mem.stage[g] = "PENDING"
                                                THEN "SKIPPED_NO_TRADE" ELSE mem.stage[g]
    BY <1>0, NoTradeFields DEF Terminal
  <2>2. Follows(NoTrade)
    BY <2>1 DEF Follows
  <2> QED BY <1>0, <1>1, <2>2, LeaveQuietly
<1>2. CASE Leave(Completed)
  <2>1. Follows(Completed)
    BY <1>0, CompletedFields DEF Follows
  <2> QED BY <1>0, <1>2, <2>1, LeaveQuietly
<1>3. CASE f # "R3" /\ Goto("stage", Next1(f)) /\ UNCHANGED <<mem, disk>>
  <2>1. /\ Next1(f) \in Live
        /\ Next1(f) \in {"R2", "R3"} => Before(Next1(f)) = f /\ f # "PREP"
    BY <1>0, <1>3, FrameFacts
  <2>2. Next1(f) \in {"R2", "R3"} /\ Bridging => f \in mem.applied
    BY <2>1 DEF Wanted
  <2> QED BY <1>0, <1>3, <2>1, <2>2, GotoStageQuietly
<1> QED BY <1>1, <1>2, <1>3 DEF Advance

(* The plan stays, and the tick goes on. *)
LEMMA SameQuietly ==
    ASSUME DailyInv, tick.step # "idle", UNCHANGED <<mem, disk>>, TickSound',
           tick'.step \in {"idle", "market", "capturing", "prep", "scan"} => mem = disk
    PROVE  Quietly
BY SelfFollows DEF DailyInv, DiskFollows, Quietly

-----------------------------------------------------------------------------
(* What the steps do to the count of attempts *)

Uncounted ==
    /\ disk'.attempts = disk.attempts
    /\ tick'.step \notin {"capturing", "observing"}

LEMMA LeaveUncounted ==
    ASSUME DailyInv, NEW m, m.attempts = mem.attempts, Leave(m)
    PROVE  Uncounted
BY DEF DailyInv, TypeOK, DiskFollows, Leave, Save, Goto, Uncounted

LEMMA GotoUncounted ==
    ASSUME DailyInv, disk' = disk, NEW s \in Steps \ {"capturing", "observing"}, NEW f, Goto(s, f)
    PROVE  Uncounted
BY DEF DailyInv, TypeOK, Goto, Uncounted

LEMMA MissUncounted ==
    ASSUME DailyInv, NEW f \in Live, Miss(f)
    PROVE  Uncounted
<1>1. /\ mem \in Plan /\ f \in Frames /\ "MISSED" \in StageStates
      /\ "stage" \in Steps \ {"capturing", "observing"}
  BY FrameFacts DEF DailyInv, TypeOK, StageStates, Steps
<1> DEFINE m == Staged(f, "MISSED")
<1>2. m \in Plan /\ m.attempts = mem.attempts
  BY <1>1, StagedFields
<1>3. Miss(f) <=> IF f = "R3" THEN Leave([m EXCEPT !.status = "COMPLETE_WITH_MISSED"])
                  ELSE Work(m) /\ Goto("stage", Next1(f))
  BY DEF Miss
<1> HIDE DEF m
<1>4. [m EXCEPT !.status = "COMPLETE_WITH_MISSED"].attempts = mem.attempts
  BY <1>2, EndedFields DEF Terminal
<1> QED BY <1>1, <1>3, <1>4, LeaveUncounted, GotoUncounted DEF Work

LEMMA WithoutUncounted ==
    ASSUME DailyInv, NEW f \in Live, Without(f)
    PROVE  Uncounted
BY MissUncounted, LeaveUncounted DEF Without

LEMMA UseUncounted ==
    ASSUME DailyInv, NEW f \in Live, Use(f)
    PROVE  Uncounted
<1>1. "case" \in Steps \ {"capturing", "observing"}
  BY DEF Steps
<1> QED BY <1>1, MissUncounted, WithoutUncounted, GotoUncounted DEF Use, Work

(* The counts after a step that neither captures nor prepares to. *)
LEMMA UncountedStep ==
    ASSUME DailyInv, UNCHANGED calls, Uncounted
    PROVE  CaptureCounted'
BY DEF DailyInv, CaptureCounted, CallsAreCounted, Uncounted

(* A capture that has been counted is made. *)
LEMMA CapturedCount ==
    ASSUME DailyInv, tick.step \in {"capturing", "observing"}, Uncounted,
           calls' = [calls EXCEPT ![tick.frame] = @ + 1]
    PROVE  CaptureCounted'
<1>1. /\ calls \in [Frames -> Nat] /\ disk.attempts \in [Frames -> Nat]
      /\ tick.frame \in Frames /\ calls[tick.frame] < disk.attempts[tick.frame]
  BY DEF DailyInv, TypeOK, Plan, CaptureCounted
<1>2. \A g \in Frames : calls'[g] <= disk.attempts[g]
  <2>1. ASSUME NEW g \in Frames, g = tick.frame PROVE calls'[g] <= disk.attempts[g]
    BY <1>1, <2>1
  <2>2. ASSUME NEW g \in Frames, g # tick.frame PROVE calls'[g] <= disk.attempts[g]
    BY <1>1, <2>2 DEF DailyInv, CaptureCounted, CallsAreCounted
  <2> QED BY <2>1, <2>2
<1> QED BY <1>2 DEF Uncounted, CaptureCounted, CallsAreCounted

(* A capture is counted that has not been made. *)
LEMMA AttemptCount ==
    ASSUME DailyInv, UNCHANGED calls, tick'.frame \in Frames,
           disk'.attempts = [mem.attempts EXCEPT ![tick'.frame] = @ + 1]
    PROVE  CaptureCounted'
<1>1. /\ calls \in [Frames -> Nat] /\ disk.attempts \in [Frames -> Nat]
      /\ mem.attempts = disk.attempts
      /\ \A g \in Frames : calls[g] <= disk.attempts[g]
  BY DEF DailyInv, TypeOK, Plan, DiskFollows, CaptureCounted, CallsAreCounted
<1>2. calls[tick'.frame] < disk'.attempts[tick'.frame]
  BY <1>1
<1>3. \A g \in Frames : calls[g] <= disk'.attempts[g]
  BY <1>1
<1> QED BY <1>2, <1>3 DEF CaptureCounted, CallsAreCounted

-----------------------------------------------------------------------------
(* The steps of a tick *)

LEMMA MarketStep ==
    ASSUME DailyInv, TypeOK', Market
    PROVE  PlanInv' /\ CaptureCounted'
<1>0. /\ TypeOK /\ mem \in Plan /\ mem = disk /\ mem.status \notin Terminal
      /\ tick.step = "market" /\ "PREP" \in Frames
      /\ Follows(mem) /\ UNCHANGED <<store, calls>> /\ crashes' = crashes
      /\ {"prep", "capturing"} \subseteq Steps
  BY SelfFollows, FrameFacts
  DEF DailyInv, TypeOK, TickSound, DiskFollows, Market, At, bounds, Steps
<1>1. Quietly /\ CaptureCounted'
  <2>1. CASE Goto("prep", "PREP") /\ UNCHANGED <<mem, disk>>
    <3>1. tick'.step = "prep"
      BY <1>0, <2>1 DEF Goto, TypeOK
    <3>2. TickSound'
      BY <1>0, <2>1, <3>1 DEF TickSound
    <3> QED BY <1>0, <2>1, <3>1, <3>2, SameQuietly, GotoUncounted, UncountedStep
  <2>2. CASE Leave(mem)
    BY <1>0, <2>2, LeaveQuietly, LeaveUncounted, UncountedStep
  <2>3. CASE Leave(Ended("BLOCKED_CAPTURE_BUDGET"))
    <3>1. /\ Follows(Ended("BLOCKED_CAPTURE_BUDGET"))
          /\ Ended("BLOCKED_CAPTURE_BUDGET").attempts = mem.attempts
      <4>1. "BLOCKED_CAPTURE_BUDGET" \in Terminal /\ mem \in Plan
        BY <1>0 DEF Terminal, TypeOK
      <4> QED BY <4>1, EndedFollows
    <3> QED BY <1>0, <2>3, <3>1, LeaveQuietly, LeaveUncounted, UncountedStep
  <2>4. CASE CaptureMarket
    <3> DEFINE m == [mem EXCEPT !.attempts["PREP"] = @ + 1]
               n == [m EXCEPT !.last = tick.at]
    <3>1. /\ n \in Plan /\ n.attempts = [mem.attempts EXCEPT !["PREP"] = @ + 1]
          /\ n.status = mem.status /\ n.stage = mem.stage
          /\ n.content = mem.content /\ n.applied = mem.applied
      <4>1. tick.at \in Times \cup {NoTime} /\ mem \in Plan
        BY <1>0 DEF TypeOK
      <4>2. "PREP" \in Frames
        BY FrameFacts
      <4> QED BY <4>1, <4>2, AttemptFields
    <3>2. mem' = n /\ disk' = n /\ tick'.step = "capturing" /\ tick'.frame = "PREP"
      BY <1>0, <2>4 DEF CaptureMarket, Save, Goto, TypeOK
    <3> HIDE DEF n, m
    <3>3. Follows(mem')
      BY <1>0, <3>1, <3>2 DEF Follows
    <3>4. TickSound'
      BY <1>0, <3>1, <3>2 DEF TickSound
    <3>5. Quietly
      BY <3>1, <3>2, <3>3, <3>4 DEF Quietly
    <3> QED BY <1>0, <3>1, <3>2, <3>5, AttemptCount
  <2> QED BY <2>1, <2>2, <2>3, <2>4 DEF Market
<1> QED BY <1>0, <1>1, QuietStep

LEMMA CapturedStep ==
    ASSUME DailyInv, TypeOK', Captured
    PROVE  PlanInv' /\ CaptureCounted'
<1>0. /\ TypeOK /\ mem = disk /\ mem.status \notin Terminal
      /\ tick.step = "capturing" /\ tick.frame = "PREP"
      /\ Follows(mem) /\ UNCHANGED store /\ crashes' = crashes
      /\ calls' = [calls EXCEPT ![tick.frame] = @ + 1]
      /\ "prep" \in Steps
  BY SelfFollows DEF DailyInv, TypeOK, TickSound, DiskFollows, Captured, At, Steps
<1>1. Quietly /\ Uncounted
  <2>1. CASE Goto("prep", "PREP") /\ UNCHANGED <<mem, disk>>
    <3>1. tick'.step = "prep"
      BY <1>0, <2>1 DEF Goto, TypeOK
    <3>2. TickSound'
      BY <1>0, <2>1, <3>1 DEF TickSound
    <3> QED BY <1>0, <2>1, <3>1, <3>2, SameQuietly, GotoUncounted
  <2>2. CASE Leave(mem)
    BY <1>0, <2>2, LeaveQuietly, LeaveUncounted
  <2> QED BY <2>1, <2>2 DEF Captured
<1> QED BY <1>0, <1>1, QuietStep, CapturedCount

LEMMA PrepStep ==
    ASSUME DailyInv, TypeOK', Prep
    PROVE  PlanInv' /\ CaptureCounted'
<1>0. /\ TypeOK /\ mem \in Plan /\ mem = disk /\ mem.status \notin Terminal
      /\ tick.step = "prep" /\ "PREP" \in Frames
      /\ Follows(mem) /\ UNCHANGED <<store, calls>> /\ crashes' = crashes
      /\ {"frozen", "case", "scan"} \subseteq Steps /\ "MISSED" \in StageStates
      /\ mem.stage["PREP"] \in {"PENDING", "RESERVED", "FROZEN"}
      /\ tick.at \in Nat /\ Ready["PREP"] \in Nat /\ Close["PREP"] \in Nat
  BY SelfFollows, FrameFacts, OrchestratorAssumption
  DEF DailyInv, TypeOK, TickSound, DiskFollows, PlanSound, Prep, At, bounds, Steps, StageStates,
      Times
<1>1. Quietly /\ Uncounted
  <2>1. CASE mem.stage["PREP"] = "FROZEN" /\ Goto("frozen", "PREP") /\ UNCHANGED <<mem, disk>>
    <3>1. tick'.step = "frozen" /\ tick'.frame = "PREP"
      BY <1>0, <2>1 DEF Goto, TypeOK
    <3>2. TickSound'
      BY <1>0, <2>1, <3>1 DEF TickSound
    <3> QED BY <1>0, <2>1, <3>1, <3>2, SameQuietly, GotoUncounted
  <2>2. CASE /\ mem.stage["PREP"] # "FROZEN"
             /\ Leave([Staged("PREP", "MISSED") EXCEPT !.status = "BLOCKED_PREP_MISSED"])
    <3> DEFINE m == Staged("PREP", "MISSED")
               e == [m EXCEPT !.status = "BLOCKED_PREP_MISSED"]
    <3>1. /\ m \in Plan /\ m.stage = [mem.stage EXCEPT !["PREP"] = "MISSED"]
          /\ m.attempts = mem.attempts /\ m.content = mem.content /\ m.applied = mem.applied
      BY <1>0, StagedFields
    <3> HIDE DEF m
    <3>2. /\ e \in Plan /\ e.status \in Terminal /\ e.stage = m.stage
          /\ e.attempts = m.attempts /\ e.content = m.content /\ e.applied = m.applied
      BY <3>1, EndedFields DEF Terminal
    <3> HIDE DEF e
    <3>3. /\ e.stage["PREP"] = "MISSED"
          /\ \A g \in Frames \ {"PREP"} : e.stage[g] = mem.stage[g]
      BY <1>0, <3>1, <3>2 DEF Plan
    <3>4. Follows(e)
      BY <1>0, <2>2, <3>1, <3>2, <3>3 DEF Follows
    <3>5. Leave(e)
      BY <2>2 DEF e, m
    <3> QED BY <1>0, <3>1, <3>2, <3>4, <3>5, LeaveQuietly, LeaveUncounted
  <2>3. CASE Leave(mem)
    BY <1>0, <2>3, LeaveQuietly, LeaveUncounted
  <2>4. CASE mem.stage["PREP"] = "RESERVED" /\ Goto("case", "PREP") /\ UNCHANGED <<mem, disk>>
    <3>1. tick'.step = "case" /\ tick'.frame = "PREP"
      BY <1>0, <2>4 DEF Goto, TypeOK
    <3>2. mem.content["PREP"] \in Contents
      BY <2>4 DEF DailyInv, PlanSound
    <3>3. TickSound'
      BY <1>0, <2>4, <3>1, <3>2 DEF TickSound, BridgedBefore
    <3> QED BY <1>0, <2>4, <3>1, <3>3, SameQuietly, GotoUncounted
  <2>5. CASE mem.stage["PREP"] = "PENDING" /\ Goto("scan", "PREP") /\ UNCHANGED <<mem, disk>>
    <3>1. tick'.step = "scan" /\ tick'.frame = "PREP"
      BY <1>0, <2>5 DEF Goto, TypeOK
    <3>2. TickSound'
      BY <1>0, <2>5, <3>1 DEF TickSound
    <3> QED BY <1>0, <2>5, <3>1, <3>2, SameQuietly, GotoUncounted
  <2>6. CASE mem.stage["PREP"] = "FROZEN"
    BY <2>1, <2>6 DEF Prep
  <2>7. CASE mem.stage["PREP"] # "FROZEN" /\ Late("PREP")
    <3>1. ~(tick.at < Ready["PREP"]) /\ ~CanFreeze("PREP")
      BY <1>0, <2>7, OrchestratorAssumption DEF Late, CanFreeze
    <3> QED BY <2>2, <2>7, <3>1 DEF Prep
  <2>8. CASE mem.stage["PREP"] # "FROZEN" /\ tick.at < Ready["PREP"]
    <3>1. ~Late("PREP") /\ ~CanFreeze("PREP")
      BY <1>0, <2>8, OrchestratorAssumption DEF Late, CanFreeze
    <3> QED BY <2>3, <2>8, <3>1 DEF Prep
  <2>9. CASE mem.stage["PREP"] = "RESERVED" /\ CanFreeze("PREP")
    <3>1. ~Late("PREP") /\ ~(tick.at < Ready["PREP"])
      BY <1>0, <2>9 DEF Late, CanFreeze
    <3> QED BY <2>4, <2>9, <3>1 DEF Prep
  <2>10. CASE mem.stage["PREP"] = "PENDING" /\ ~Late("PREP") /\ ~(tick.at < Ready["PREP"])
    BY <2>5, <2>10 DEF Prep
  <2>11. CASE mem.stage["PREP"] = "RESERVED" /\ ~Late("PREP") /\ ~(tick.at < Ready["PREP"])
    <3>1. CanFreeze("PREP")
      BY <1>0, <2>11 DEF Late, CanFreeze
    <3> QED BY <2>9, <2>11, <3>1
  <2> QED BY <1>0, <2>6, <2>7, <2>8, <2>10, <2>11
<1> QED BY <1>0, <1>1, QuietStep, UncountedStep

LEMMA ScanStep ==
    ASSUME DailyInv, TypeOK', Scan
    PROVE  PlanInv' /\ CaptureCounted'
<1>0. /\ TypeOK /\ mem \in Plan /\ mem = disk /\ mem.status \notin Terminal
      /\ tick.step = "scan" /\ "PREP" \in Frames /\ "PREP" \notin Live
      /\ mem.stage["PREP"] \notin {"RESERVED", "FROZEN"}
      /\ Follows(mem) /\ UNCHANGED <<cases, sets, predictions, desk, calls>> /\ crashes' = crashes
      /\ "case" \in Steps /\ PlanSound(mem)
  BY SelfFollows, FrameFacts
  DEF DailyInv, TypeOK, TickSound, DiskFollows, Scan, At, bounds, store, Steps
<1>1. CASE Leave(mem)
  BY <1>0, <1>1, LeaveQuietly, LeaveUncounted, QuietStep, UncountedStep DEF store
<1>2. CASE Leave(Ended("BLOCKED_ROUTE_UNKNOWN"))
  <2>1. /\ Follows(Ended("BLOCKED_ROUTE_UNKNOWN"))
        /\ Ended("BLOCKED_ROUTE_UNKNOWN").attempts = mem.attempts
    <3>1. "BLOCKED_ROUTE_UNKNOWN" \in Terminal /\ mem \in Plan
      BY <1>0 DEF Terminal, TypeOK
    <3> QED BY <3>1, EndedFollows
  <2> QED BY <1>0, <1>2, <2>1, LeaveQuietly, LeaveUncounted, QuietStep, UncountedStep DEF store
<1>3. ASSUME NEW none \in BOOLEAN, Reserve(none), Goto("case", "PREP")
      PROVE  PlanInv' /\ CaptureCounted'
  <2> DEFINE m == [Reservation EXCEPT !.empty = none]
  <2>1. /\ m \in Plan /\ m.stage = [mem.stage EXCEPT !["PREP"] = "RESERVED"]
        /\ m.content = [mem.content EXCEPT !["PREP"] = [asOf |-> tick.at, prev |-> NoTime]]
        /\ m.status = mem.status /\ m.attempts = mem.attempts /\ m.applied = mem.applied
    BY <1>0, ReservationFields
  <2>2. mem' = m /\ disk' = m
    BY <1>3 DEF Reserve, Save
  <2> HIDE DEF m
  <2>3. tick'.step = "case" /\ tick'.frame = "PREP"
    BY <1>0, <1>3 DEF TypeOK, Goto
  <2>4. /\ m.stage["PREP"] = "RESERVED"
        /\ m.content["PREP"] \in Contents
        /\ \A f \in Frames \ {"PREP"} :
              m.stage[f] = mem.stage[f] /\ m.content[f] = mem.content[f]
    <3>1. m.content["PREP"] = [asOf |-> tick.at, prev |-> NoTime]
      BY <1>0, <2>1 DEF Plan
    <3>2. [asOf |-> tick.at, prev |-> NoTime] \in Contents
      BY <1>0 DEF TypeOK, Contents
    <3>3. m.stage["PREP"] = "RESERVED"
      BY <1>0, <2>1 DEF Plan
    <3>4. \A f \in Frames \ {"PREP"} :
              m.stage[f] = mem.stage[f] /\ m.content[f] = mem.content[f]
      BY <1>0, <2>1 DEF Plan
    <3> QED BY <3>1, <3>2, <3>3, <3>4
  <2>5. cases["PREP"] = {} /\ sets["PREP"] = {} /\ predictions["PREP"] = {}
    BY <1>0 DEF DailyInv, PlanSound, StoreSound
  <2>6. PlanSound(m)
    <3>1. \A f \in Frames : m.stage[f] = "FROZEN" => predictions[f] = {m.content[f]}
      BY <1>0, <2>4 DEF PlanSound
    <3>2. m.status \notin Terminal =>
            /\ m.stage["PREP"] \in {"PENDING", "RESERVED", "FROZEN"}
            /\ \A f \in Live : m.stage[f] \in {"PENDING", "FROZEN", "MISSED"}
      BY <1>0, <2>4, FrameFacts DEF PlanSound
    <3>3. m.applied \subseteq desk
      BY <1>0, <2>1 DEF PlanSound
    <3> QED BY <2>4, <2>5, <3>1, <3>2, <3>3 DEF PlanSound
  <2>7. PlanSound(mem)' /\ PlanSound(disk)'
    <3>1. PlanSound(mem)'
      BY <1>0, <2>2, <2>6 DEF PlanSound
    <3>2. PlanSound(disk)'
      BY <1>0, <2>2, <2>6 DEF PlanSound
    <3> QED BY <3>1, <3>2
  <2>8. DiskFollows'
    BY <2>2 DEF DiskFollows
  <2>9. PredictionsKnown'
    BY <1>0, <2>2, <2>4, <2>5 DEF DailyInv, PredictionsKnown
  <2>10. TickSound'
    BY <1>0, <2>1, <2>2, <2>3, <2>4 DEF TickSound, BridgedBefore
  <2>11. StoreSound' /\ ReviewsContinue'
    BY <1>0 DEF DailyInv, StoreSound, ReviewsContinue
  <2>12. Uncounted
    BY <1>0, <2>1, <2>2, <2>3 DEF Uncounted
  <2> QED BY <1>0, <2>7, <2>8, <2>9, <2>10, <2>11, <2>12, UncountedStep DEF PlanInv
<1> QED BY <1>1, <1>2, <1>3 DEF Scan

LEMMA CaseStep ==
    ASSUME DailyInv, TypeOK', Case
    PROVE  PlanInv' /\ CaptureCounted'
<1> DEFINE f == tick.frame
           c == mem.content[f]
<1>0. /\ TypeOK /\ mem \in Plan /\ mem.status \notin Terminal /\ disk.status \notin Terminal
      /\ tick.step = "case" /\ f \in Frames /\ c \in Contents
      /\ mem.stage[f] = IF f = "PREP" THEN "RESERVED" ELSE "PENDING"
      /\ f = "PREP" => disk.stage[f] = "RESERVED"
      /\ UNCHANGED <<sets, predictions, desk, calls>> /\ crashes' = crashes
      /\ {"set", "stage"} \subseteq Steps
      /\ cases \in [Frames -> SUBSET Contents]
      /\ mem.content["PREP"] = disk.content["PREP"]
  BY DEF DailyInv, TypeOK, TickSound, DiskFollows, Case, At, bounds, Steps
<1>1. CASE Refused(f) /\ UNCHANGED cases
  <2>1. Uncounted
    <3>1. /\ Staged(f, "MISSED").attempts = mem.attempts
          /\ "stage" \in Steps \ {"capturing", "observing"}
      BY <1>0, StagedFields DEF StageStates
    <3> QED BY <1>1, <3>1, LeaveUncounted, GotoUncounted DEF Refused, Work
  <2> QED BY <1>0, <1>1, <2>1, RefusedQuietly, QuietStep, UncountedStep DEF store
<1>2. CASE /\ Only(cases, f) /\ cases' = [cases EXCEPT ![f] = @ \cup {Content(f)}]
           /\ Goto("set", f) /\ UNCHANGED <<mem, disk>>
  <2>1. /\ cases[f] \subseteq {c} /\ cases'[f] = {c}
        /\ \A g \in Frames \ {f} : cases'[g] = cases[g]
    BY <1>0, <1>2 DEF Only, Content
  <2>2. tick'.step = "set" /\ tick'.frame = f
    BY <1>0, <1>2 DEF TypeOK, Goto
  <2>3. StoreSound'
    <3>1. \A g \in Frames : cases[g] \subseteq cases'[g]
      BY <2>1
    <3>2. \A g \in Frames : \A d, e \in cases'[g] : d = e
      BY <2>1 DEF DailyInv, StoreSound
    <3> QED BY <1>0, <3>1, <3>2 DEF DailyInv, StoreSound
  <2>4. PlanSound(mem)' /\ PlanSound(disk)'
    <3>1. /\ cases'["PREP"] \subseteq {mem.content["PREP"]}
          /\ cases'["PREP"] # {} => mem.stage["PREP"] \in {"RESERVED", "FROZEN"}
          /\ cases'["PREP"] # {} => disk.stage["PREP"] \in {"RESERVED", "FROZEN"}
      <4>1. CASE f = "PREP"
        BY <1>0, <2>1, <4>1
      <4>2. CASE f # "PREP"
        BY <1>0, <2>1, <4>2, FrameFacts DEF DailyInv, PlanSound
      <4> QED BY <4>1, <4>2
    <3>2. PlanSound(mem)'
      BY <1>0, <1>2, <3>1 DEF DailyInv, PlanSound
    <3>3. PlanSound(disk)'
      BY <1>0, <1>2, <3>1 DEF DailyInv, PlanSound
    <3> QED BY <3>2, <3>3
  <2>5. DiskFollows'
    BY <1>2, <2>2 DEF DailyInv, DiskFollows
  <2>6. PredictionsKnown'
    BY <1>0, <1>2 DEF DailyInv, PredictionsKnown
  <2>7. TickSound'
    BY <1>0, <1>2, <2>1, <2>2 DEF TickSound
  <2>8. ReviewsContinue'
    <3>1. ASSUME f \in {"R2", "R3"}
          PROVE  /\ \E d \in predictions[Before(f)] : c.prev = d.asOf
                 /\ Bridging => Before(f) \in desk
      <4>1. /\ mem.stage[Before(f)] = "FROZEN" /\ c.prev = mem.content[Before(f)].asOf
            /\ BridgedBefore(f) /\ Before(f) \in Frames
        BY <1>0, <3>1, FrameFacts DEF DailyInv, TickSound
      <4>2. predictions[Before(f)] = {mem.content[Before(f)]} /\ mem.applied \subseteq desk
        BY <4>1 DEF DailyInv, PlanSound
      <4> QED BY <3>1, <4>1, <4>2 DEF BridgedBefore
    <3>2. {"R2", "R3"} \subseteq Frames
      BY FrameFacts
    <3> QED BY <1>0, <2>1, <3>1, <3>2 DEF DailyInv, ReviewsContinue
  <2>9. Uncounted
    BY <1>0, <1>2, <2>2 DEF Uncounted
  <2> QED BY <1>0, <2>3, <2>4, <2>5, <2>6, <2>7, <2>8, <2>9, UncountedStep DEF PlanInv
<1> QED BY <1>1, <1>2 DEF Case

LEMMA CandidateSetStep ==
    ASSUME DailyInv, TypeOK', CandidateSet
    PROVE  PlanInv' /\ CaptureCounted'
<1> DEFINE f == tick.frame
           c == mem.content[f]
<1>0. /\ TypeOK /\ tick.step = "set" /\ f \in Frames /\ cases[f] = {c}
      /\ UNCHANGED <<cases, predictions, desk, mem, disk, calls>> /\ crashes' = crashes
      /\ sets' = [sets EXCEPT ![f] = @ \cup {c}] /\ sets \in [Frames -> SUBSET Contents]
      /\ tick'.step = "prediction" /\ tick'.frame = f
  BY DEF DailyInv, TypeOK, TickSound, CandidateSet, At, bounds, Goto, Content
<1>1. /\ sets'[f] = sets[f] \cup {c}
      /\ \A g \in Frames \ {f} : sets'[g] = sets[g]
  BY <1>0
<1>2. StoreSound'
  <2>1. \A g \in Frames : sets'[g] \subseteq cases[g] /\ predictions[g] \subseteq sets'[g]
    BY <1>0, <1>1 DEF DailyInv, StoreSound
  <2> QED BY <1>0, <2>1 DEF DailyInv, StoreSound
<1>3. PlanSound(mem)' /\ PlanSound(disk)'
  BY <1>0 DEF DailyInv, PlanSound
<1>4. DiskFollows' /\ PredictionsKnown' /\ ReviewsContinue'
  BY <1>0 DEF DailyInv, DiskFollows, PredictionsKnown, ReviewsContinue
<1>5. TickSound'
  BY <1>0, <1>1 DEF DailyInv, TickSound
<1>6. Uncounted
  BY <1>0 DEF Uncounted
<1> QED BY <1>0, <1>2, <1>3, <1>4, <1>5, <1>6, UncountedStep DEF PlanInv

LEMMA PredictionStep ==
    ASSUME DailyInv, TypeOK', Prediction
    PROVE  PlanInv' /\ CaptureCounted'
<1> DEFINE f == tick.frame
           c == mem.content[f]
           m == Staged(f, "FROZEN")
<1>0. /\ TypeOK /\ tick.step = "prediction" /\ f \in Frames /\ cases[f] = {c} /\ c \in sets[f]
      /\ mem \in Plan /\ mem.status \notin Terminal /\ disk.status \notin Terminal
      /\ mem.stage[f] = IF f = "PREP" THEN "RESERVED" ELSE "PENDING"
      /\ UNCHANGED <<cases, sets, desk, disk, calls>> /\ crashes' = crashes /\ mem' = m
      /\ predictions' = [predictions EXCEPT ![f] = @ \cup {c}]
      /\ predictions \in [Frames -> SUBSET Contents]
      /\ tick'.step = "frozen" /\ tick'.frame = f
  BY DEF DailyInv, TypeOK, TickSound, Prediction, At, bounds, Goto, Content, Work
<1>1. /\ m \in Plan /\ m.stage = [mem.stage EXCEPT ![f] = "FROZEN"] /\ m.status = mem.status
      /\ m.attempts = mem.attempts /\ m.content = mem.content /\ m.applied = mem.applied
  BY <1>0, StagedFields DEF StageStates
<1> HIDE DEF m
<1>2. /\ m.stage[f] = "FROZEN" /\ \A g \in Frames \ {f} : m.stage[g] = mem.stage[g]
      /\ predictions'[f] = {c} /\ \A g \in Frames \ {f} : predictions'[g] = predictions[g]
  <2>1. predictions[f] \subseteq {c}
    BY <1>0 DEF DailyInv, StoreSound
  <2> QED BY <1>0, <1>1, <2>1 DEF Plan
<1>3. StoreSound'
  <2>1. \A g \in Frames : predictions'[g] \subseteq sets[g]
    BY <1>0, <1>2 DEF DailyInv, StoreSound
  <2> QED BY <1>0, <2>1 DEF DailyInv, StoreSound
<1>4. disk.stage[f] # "FROZEN"
  BY <1>0 DEF DailyInv, DiskFollows
<1>5. PlanSound(mem)'
  <2>1. \A g \in Frames : m.stage[g] = "FROZEN" => predictions'[g] = {m.content[g]}
    BY <1>1, <1>2 DEF DailyInv, PlanSound
  <2>2. m.stage["PREP"] = "RESERVED" => m.content["PREP"] \in Contents
    BY <1>1, <1>2, FrameFacts DEF DailyInv, PlanSound
  <2>3. /\ cases["PREP"] # {} => m.stage["PREP"] \in {"RESERVED", "FROZEN"}
        /\ m.stage["PREP"] \in {"PENDING", "RESERVED", "FROZEN"}
        /\ \A g \in Live : m.stage[g] \in {"PENDING", "FROZEN", "MISSED"}
    BY <1>0, <1>2, FrameFacts DEF DailyInv, PlanSound
  <2>4. m.applied \subseteq desk /\ cases["PREP"] \subseteq {m.content["PREP"]}
    BY <1>1 DEF DailyInv, PlanSound
  <2> QED BY <1>0, <2>1, <2>2, <2>3, <2>4 DEF PlanSound
<1>6. PlanSound(disk)'
  <2>1. \A g \in Frames : disk.stage[g] = "FROZEN" => predictions'[g] = {disk.content[g]}
    BY <1>2, <1>4 DEF DailyInv, PlanSound
  <2> QED BY <1>0, <2>1 DEF DailyInv, PlanSound
<1>7. DiskFollows'
  <2>1. \A g \in Frames : disk.stage[g] \in {m.stage[g], "PENDING", "RESERVED"}
    BY <1>0, <1>2 DEF DailyInv, DiskFollows
  <2> QED BY <1>0, <1>1, <2>1 DEF DailyInv, DiskFollows
<1>8. PredictionsKnown'
  BY <1>0, <1>2 DEF DailyInv, PredictionsKnown
<1>9. ReviewsContinue'
  <2>1. \A g \in Frames : predictions[g] \subseteq predictions'[g]
    BY <1>0
  <2>2. Before("R2") \in Frames /\ Before("R3") \in Frames
    BY FrameFacts
  <2> QED BY <1>0, <2>1, <2>2 DEF DailyInv, ReviewsContinue
<1>10. TickSound'
  BY <1>0, <1>1, <1>2 DEF TickSound
<1>11. Uncounted
  BY <1>0 DEF Uncounted
<1> QED BY <1>0, <1>3, <1>5, <1>6, <1>7, <1>8, <1>9, <1>10, <1>11, UncountedStep DEF PlanInv

LEMMA FrozenStep ==
    ASSUME DailyInv, TypeOK', Frozen
    PROVE  PlanInv' /\ CaptureCounted'
<1> DEFINE f == tick.frame
<1>0. /\ TypeOK /\ mem \in Plan /\ mem.status \notin Terminal
      /\ tick.step = "frozen" /\ f \in Frames /\ mem.stage[f] = "FROZEN"
      /\ UNCHANGED <<store, calls>> /\ crashes' = crashes
      /\ {"bridge", "stage"} \subseteq Steps \ {"capturing", "observing"}
  BY DEF DailyInv, TypeOK, TickSound, Frozen, At, bounds, Steps
<1>1. Quietly /\ Uncounted
  <2>1. CASE Goto("bridge", f) /\ UNCHANGED <<mem, disk>>
    <3>1. tick'.step = "bridge" /\ tick'.frame = f
      BY <1>0, <2>1 DEF Goto, TypeOK
    <3>2. TickSound'
      BY <1>0, <2>1, <3>1 DEF DailyInv, TickSound
    <3> QED BY <1>0, <2>1, <3>1, <3>2, SameQuietly, GotoUncounted
  <2>2. CASE ~Wanted(f) /\ Advance(f)
    <3>1. Uncounted
      BY <1>0, <2>2, NoTradeFields, CompletedFields, LeaveUncounted, GotoUncounted DEF Advance
    <3> QED BY <1>0, <2>2, <3>1, AdvanceQuietly
  <2> QED BY <2>1, <2>2 DEF Frozen
<1> QED BY <1>0, <1>1, QuietStep, UncountedStep

LEMMA BridgeStep ==
    ASSUME DailyInv, TypeOK', Bridge
    PROVE  PlanInv' /\ CaptureCounted'
<1> DEFINE f == tick.frame
<1>0. /\ TypeOK /\ mem \in Plan /\ mem.status \notin Terminal /\ disk.status \notin Terminal
      /\ tick.step = "bridge" /\ f \in Frames /\ mem.stage[f] = "FROZEN" /\ Follows(mem)
      /\ UNCHANGED <<cases, sets, predictions, calls>> /\ crashes' = crashes
  BY SelfFollows DEF DailyInv, TypeOK, TickSound, Bridge, At, bounds
<1>1. CASE Leave(mem) /\ UNCHANGED desk
  BY <1>0, <1>1, LeaveQuietly, LeaveUncounted, QuietStep, UncountedStep DEF store
<1>2. CASE /\ desk' = desk \cup {f} /\ Goto("frozen", f)
           /\ Work([mem EXCEPT !.applied = @ \cup {f}])
  <2> DEFINE m == [mem EXCEPT !.applied = @ \cup {f}]
  <2>1. /\ m \in Plan /\ m.applied = mem.applied \cup {f}
        /\ m.status = mem.status /\ m.attempts = mem.attempts
        /\ m.stage = mem.stage /\ m.content = mem.content
    BY <1>0, AppliedFields
  <2>2. mem' = m /\ disk' = disk
    BY <1>2 DEF Work
  <2> HIDE DEF m
  <2>3. tick'.step = "frozen" /\ tick'.frame = f
    BY <1>0, <1>2 DEF TypeOK, Goto
  <2>4. PlanSound(mem)'
    BY <1>0, <1>2, <2>1, <2>2 DEF DailyInv, PlanSound
  <2>5. PlanSound(disk)'
    BY <1>0, <1>2, <2>2 DEF DailyInv, PlanSound
  <2>6. DiskFollows' /\ PredictionsKnown' /\ StoreSound' /\ ReviewsContinue'
    BY <1>0, <1>2, <2>1, <2>2, <2>3
    DEF DailyInv, DiskFollows, PredictionsKnown, StoreSound, ReviewsContinue
  <2>7. TickSound'
    BY <1>0, <2>1, <2>2, <2>3 DEF TickSound
  <2>8. Uncounted
    BY <2>2, <2>3 DEF Uncounted
  <2> QED BY <1>0, <2>4, <2>5, <2>6, <2>7, <2>8, UncountedStep DEF PlanInv
<1> QED BY <1>1, <1>2 DEF Bridge

LEMMA StageStep ==
    ASSUME DailyInv, TypeOK', Stage
    PROVE  PlanInv' /\ CaptureCounted'
<1> DEFINE f == tick.frame
<1>0. /\ TypeOK /\ mem \in Plan /\ mem.status \notin Terminal /\ disk.status \notin Terminal
      /\ tick.step = "stage" /\ f \in Frames /\ f \in Live /\ BridgedBefore(f) /\ Follows(mem)
      /\ mem.stage[f] \in {"PENDING", "FROZEN", "MISSED"}
      /\ UNCHANGED <<store, calls>> /\ crashes' = crashes
      /\ {"frozen", "stage"} \subseteq Steps \ {"capturing", "observing"}
      /\ tick.at \in Nat /\ Ready[f] \in Nat /\ Close[f] \in Nat
  BY SelfFollows, OrchestratorAssumption
  DEF DailyInv, TypeOK, TickSound, PlanSound, Stage, At, bounds, Steps, Live, Times
<1>1. CASE Quietly /\ Uncounted
  BY <1>0, <1>1, QuietStep, UncountedStep
<1>2. CASE mem.stage[f] = "FROZEN"
  <2>1. Goto("frozen", f) /\ UNCHANGED <<mem, disk>>
    BY <1>2 DEF Stage
  <2>2. tick'.step = "frozen" /\ tick'.frame = f
    BY <1>0, <2>1 DEF Goto, TypeOK
  <2>3. TickSound'
    BY <1>0, <1>2, <2>1, <2>2 DEF TickSound
  <2> QED BY <1>0, <1>1, <2>1, <2>2, <2>3, SameQuietly, GotoUncounted
<1>3. CASE mem.stage[f] \in {"PENDING", "MISSED"} /\ Miss(f)
  BY <1>0, <1>1, <1>3, MissQuietly, MissUncounted
<1>4. CASE Leave(mem)
  BY <1>0, <1>1, <1>4, LeaveQuietly, LeaveUncounted
<1>5. CASE /\ mem.stage[f] = "PENDING" /\ CanFreeze(f) /\ ~Broken(f)
           /\ snaps[f] # {} /\ Use(f)
  BY <1>0, <1>1, <1>5, UseQuietly, UseUncounted
<1>6. CASE mem.stage[f] = "PENDING" /\ Without(f)
  BY <1>0, <1>1, <1>6, WithoutQuietly, WithoutUncounted
<1>7. CASE /\ mem.stage[f] = "PENDING" /\ ~Broken(f)
           /\ Save([mem EXCEPT !.attempts[f] = @ + 1]) /\ Goto("observing", f)
  <2> DEFINE m == [mem EXCEPT !.attempts[f] = @ + 1]
  <2>1. /\ m \in Plan /\ m.attempts = [mem.attempts EXCEPT ![f] = @ + 1]
        /\ m.status = mem.status /\ m.stage = mem.stage
        /\ m.content = mem.content /\ m.applied = mem.applied
    BY <1>0, AttemptFields
  <2>2. mem' = m /\ disk' = m /\ tick'.step = "observing" /\ tick'.frame = f
    BY <1>0, <1>7 DEF Save, Goto, TypeOK
  <2> HIDE DEF m
  <2>3. Follows(mem')
    BY <1>0, <2>1, <2>2 DEF Follows
  <2>4. TickSound'
    <3>1. Broken(f)' <=> Broken(f)
      BY <2>1, <2>2 DEF Broken
    <3>2. BridgedBefore(f)'
      BY <1>0, <2>1, <2>2 DEF BridgedBefore
    <3> QED BY <1>0, <1>7, <2>1, <2>2, <3>1, <3>2 DEF TickSound
  <2>5. Quietly
    BY <2>1, <2>2, <2>3, <2>4 DEF Quietly
  <2> QED BY <1>0, <2>1, <2>2, <2>5, QuietStep, AttemptCount
<1>8. CASE mem.stage[f] = "MISSED"
  BY <1>3, <1>8 DEF Stage
<1>9. CASE mem.stage[f] = "PENDING" /\ tick.at < Ready[f]
  <2>1. ~Late(f) /\ ~CanFreeze(f)
    BY <1>0, <1>9, OrchestratorAssumption DEF Late, CanFreeze
  <2> QED BY <1>4, <1>9, <2>1 DEF Stage
<1>10. CASE mem.stage[f] = "PENDING" /\ (Late(f) \/ (CanFreeze(f) /\ Broken(f)))
  <2>1. ~(tick.at < Ready[f]) /\ ~(CanFreeze(f) /\ ~Broken(f))
    BY <1>0, <1>10, OrchestratorAssumption DEF Late, CanFreeze
  <2> QED BY <1>3, <1>10, <2>1 DEF Stage
<1>11. CASE mem.stage[f] = "PENDING" /\ CanFreeze(f) /\ ~Broken(f)
  <2>1. ~(tick.at < Ready[f]) /\ ~Late(f)
    BY <1>0, <1>11 DEF Late, CanFreeze
  <2>2. IF snaps[f] # {} THEN Use(f)
        ELSE IF mem.attempts[f] < MaxCaptures
        THEN Save([mem EXCEPT !.attempts[f] = @ + 1]) /\ Goto("observing", f)
        ELSE Without(f)
    BY <1>11, <2>1 DEF Stage
  <2> QED BY <1>5, <1>6, <1>7, <1>11, <2>2
<1>12. tick.at < Ready[f] \/ Late(f) \/ CanFreeze(f)
  BY <1>0 DEF Late, CanFreeze
<1> QED BY <1>0, <1>2, <1>8, <1>9, <1>10, <1>11, <1>12

LEMMA ObservingStep ==
    ASSUME DailyInv, TypeOK', Observing
    PROVE  PlanInv' /\ CaptureCounted'
<1> DEFINE f == tick.frame
<1>0. /\ TypeOK /\ mem.status \notin Terminal /\ disk.status \notin Terminal
      /\ tick.step = "observing" /\ f \in Live /\ BridgedBefore(f)
      /\ mem.stage[f] = "PENDING" /\ ~Broken(f)
      /\ UNCHANGED store /\ crashes' = crashes
      /\ calls' = [calls EXCEPT ![f] = @ + 1]
      /\ "stage" \in Steps \ {"capturing", "observing"}
  BY DEF DailyInv, TypeOK, TickSound, Observing, At, bounds, Steps
<1>1. Quietly /\ Uncounted
  <2>1. CASE UNCHANGED <<mem, disk>> /\ Goto("stage", f)
    <3>1. tick'.step = "stage" /\ tick'.frame = f
      BY <1>0, <2>1 DEF Goto, TypeOK
    <3>2. TickSound'
      BY <1>0, <2>1, <3>1 DEF TickSound, BridgedBefore
    <3> QED BY <1>0, <2>1, <3>1, <3>2, SameQuietly, GotoUncounted
  <2>2. CASE Without(f)
    BY <1>0, <2>2, WithoutQuietly, WithoutUncounted
  <2>3. CASE snaps[f] # {} /\ Use(f)
    BY <1>0, <2>3, UseQuietly, UseUncounted
  <2> QED BY <2>1, <2>2, <2>3 DEF Observing
<1> QED BY <1>0, <1>1, QuietStep, CapturedCount

-----------------------------------------------------------------------------
(* The world, the beginning of a tick and its end *)

LEMMA WorldStep ==
    ASSUME DailyInv, UNCHANGED <<store, disk, mem, tick, calls, crashes>>
    PROVE  PlanInv' /\ CaptureCounted'
<1>0. UNCHANGED <<cases, sets, predictions, desk>>
  BY DEF store
<1>1. StoreSound' /\ PlanSound(mem)' /\ PlanSound(disk)'
  BY <1>0 DEF DailyInv, StoreSound, PlanSound
<1>2. DiskFollows' /\ PredictionsKnown' /\ ReviewsContinue'
  BY <1>0 DEF DailyInv, DiskFollows, PredictionsKnown, ReviewsContinue
<1>3. TickSound'
  BY <1>0 DEF DailyInv, TickSound, BridgedBefore, Broken
<1>4. CaptureCounted'
  BY DEF DailyInv, CaptureCounted, CallsAreCounted
<1> QED BY <1>1, <1>2, <1>3, <1>4 DEF PlanInv

LEMMA BeginStep ==
    ASSUME DailyInv, TypeOK', Begin
    PROVE  PlanInv' /\ CaptureCounted'
<1>0. /\ TypeOK /\ mem = disk /\ disk.status \notin Terminal
      /\ UNCHANGED <<cases, sets, predictions, desk, mem, disk, calls>> /\ crashes' = crashes
      /\ tick' = [step |-> "market", frame |-> "PREP", at |-> clock]
  BY DEF DailyInv, DiskFollows, Begin, At, store, bounds
<1>1. StoreSound' /\ PlanSound(mem)' /\ PlanSound(disk)'
  BY <1>0 DEF DailyInv, StoreSound, PlanSound
<1>2. DiskFollows' /\ PredictionsKnown' /\ ReviewsContinue'
  BY <1>0 DEF DailyInv, DiskFollows, PredictionsKnown, ReviewsContinue
<1>3. TickSound'
  BY <1>0 DEF TickSound
<1>4. Uncounted
  BY <1>0 DEF Uncounted
<1> QED BY <1>0, <1>1, <1>2, <1>3, <1>4, UncountedStep DEF PlanInv

LEMMA CrashStep ==
    ASSUME DailyInv, TypeOK', Crash
    PROVE  PlanInv' /\ CaptureCounted'
<1>0. /\ TypeOK /\ mem' = disk /\ crashes' # 0 /\ tick'.step = "idle"
      /\ UNCHANGED <<cases, sets, predictions, desk, disk, calls>>
  BY DEF DailyInv, TypeOK, Crash, Goto, store
<1>1. StoreSound' /\ PlanSound(mem)' /\ PlanSound(disk)'
  BY <1>0 DEF DailyInv, StoreSound, PlanSound
<1>2. DiskFollows' /\ PredictionsKnown' /\ ReviewsContinue'
  BY <1>0 DEF DailyInv, DiskFollows, PredictionsKnown, ReviewsContinue
<1>3. TickSound'
  BY <1>0 DEF TickSound
<1>4. Uncounted
  BY <1>0 DEF Uncounted
<1> QED BY <1>0, <1>1, <1>2, <1>3, <1>4, UncountedStep DEF PlanInv

-----------------------------------------------------------------------------
(* The invariant *)

LEMMA DailyInit == Init => DailyInv
<1> SUFFICES ASSUME Init PROVE DailyInv
  OBVIOUS
<1>0. /\ "PREP" \in Frames /\ Live \subseteq Frames
      /\ cases = [f \in Frames |-> {}] /\ sets = cases /\ predictions = cases /\ desk = {}
      /\ mem = disk /\ tick = [step |-> "idle", frame |-> "PREP", at |-> 0]
      /\ crashes = 0 /\ calls = [f \in Frames |-> 0]
  BY FrameFacts DEF Init, Live
<1>1. disk \in Plan
  BY <1>0 DEF Init, Plan, StageStates
<1>2. TypeOK
  <2>1. 0 \in Times
    BY OrchestratorAssumption DEF Times
  <2>2. {cases, sets, predictions} \subseteq [Frames -> SUBSET Contents]
    BY <1>0
  <2>3. tick \in [step : Steps, frame : Frames, at : Times] /\ {disk, mem} \subseteq Plan
    BY <1>0, <1>1, <2>1 DEF Steps
  <2>4. /\ clock \in Times /\ market \in [accepted : BOOLEAN, review : BOOLEAN]
        /\ snaps \in [Live -> SUBSET Times] /\ desk \in SUBSET Frames /\ calls \in [Frames -> Nat]
    BY <1>0, <2>1 DEF Init
  <2> QED BY <2>2, <2>3, <2>4 DEF TypeOK
<1>3. /\ \A f \in Frames : disk.stage[f] = "PENDING" /\ cases[f] = {} /\ sets[f] = {}
                           /\ predictions[f] = {} /\ disk.attempts[f] = 0
      /\ disk.applied = {}
  BY <1>0 DEF Init
<1>4. StoreSound /\ PlanSound(disk)
  BY <1>0, <1>3 DEF StoreSound, PlanSound
<1>5. DiskFollows /\ PredictionsKnown /\ TickSound
  BY <1>0, <1>3 DEF DiskFollows, PredictionsKnown, TickSound
<1>6. CaptureCounted
  BY <1>0, <1>3 DEF CaptureCounted, CallsAreCounted
<1>7. ReviewsContinue
  BY <1>0, <1>3, FrameFacts DEF ReviewsContinue
<1> QED BY <1>0, <1>2, <1>4, <1>5, <1>6, <1>7 DEF DailyInv

LEMMA DailyStep == DailyInv /\ [Next]_vars => DailyInv'
<1> SUFFICES ASSUME DailyInv, [Next]_vars PROVE DailyInv'
  OBVIOUS
<1>1. TypeOK'
  BY DailyTypeStep
<1>2. crashes' \in Nat
  <2>1. crashes' = crashes \/ Crash
    BY DEF Next, Pass, Archive, Observe, Begin, Tick, Market, Captured, Prep, Scan, Case,
           CandidateSet, Prediction, Frozen, Bridge, Stage, Observing, bounds, vars
  <2>2. Crash => crashes' = crashes + 1
    BY DEF Crash
  <2> QED BY <2>1, <2>2 DEF DailyInv
<1>3. PlanInv' /\ CaptureCounted'
  <2>1. CASE UNCHANGED vars \/ Pass \/ Archive \/ \E f \in Live : Observe(f)
    <3>1. UNCHANGED <<store, disk, mem, tick, calls, crashes>>
      BY <2>1 DEF vars, bounds, Pass, Archive, Observe, Quiet
    <3> QED BY <3>1, WorldStep
  <2>2. CASE Begin \/ Crash
    BY <1>1, <2>2, BeginStep, CrashStep
  <2>3. CASE Tick
    BY <1>1, <2>3, MarketStep, CapturedStep, PrepStep, ScanStep, CaseStep, CandidateSetStep,
       PredictionStep, FrozenStep, BridgeStep, StageStep, ObservingStep DEF Tick
  <2> QED BY <2>1, <2>2, <2>3 DEF Next
<1> QED BY <1>1, <1>2, <1>3 DEF DailyInv, PlanInv

LEMMA DailyInvariant == Spec => []DailyInv
BY DailyInit, DailyStep, PTL DEF Spec

(* The state of the plan, of the stores and of the tick is what the code    *)
(* declares: every stage, content, attempt and step is one it knows.        *)
THEOREM DailyTypeCorrect == Spec => []TypeOK
<1>1. DailyInv => TypeOK
  BY DEF DailyInv
<1> QED BY <1>1, DailyInvariant, PTL

(* freeze_forward_snapshot and _save: whatever is killed and when, a frame  *)
(* has one case, candidate set and prediction at most, a frame that the     *)
(* plan on disk calls frozen has exactly the prediction that it names, and  *)
(* without a kill a frame that it calls missed has none.                    *)
THEOREM FrozenOnceHolds == Spec => []FrozenOnce
<1>1. DailyInv => FrozenOnce
  <2> SUFFICES ASSUME DailyInv, NEW f \in Frames
               PROVE  /\ Cardinality(cases[f]) <= 1
                      /\ sets[f] \subseteq cases[f] /\ predictions[f] \subseteq sets[f]
                      /\ disk.stage[f] = "FROZEN" => predictions[f] = {disk.content[f]}
                      /\ f = "PREP" => cases[f] \subseteq {disk.content[f]}
                      /\ crashes = 0 /\ disk.stage[f] = "MISSED" => predictions[f] = {}
    BY DEF FrozenOnce
  <2>1. Cardinality(cases[f]) <= 1
    <3>1. CASE cases[f] = {}
      BY <3>1, FS_EmptySet
    <3>2. ASSUME NEW c \in cases[f] PROVE Cardinality(cases[f]) <= 1
      <4>1. cases[f] = {c}
        BY DEF DailyInv, StoreSound
      <4>2. Cardinality({c}) = 1
        BY FS_Singleton
      <4> QED BY <4>1, <4>2
    <3> QED BY <3>1, <3>2
  <2>2. sets[f] \subseteq cases[f] /\ predictions[f] \subseteq sets[f]
    BY DEF DailyInv, StoreSound
  <2>3. disk.stage[f] = "FROZEN" => predictions[f] = {disk.content[f]}
    BY DEF DailyInv, PlanSound
  <2>4. f = "PREP" => cases[f] \subseteq {disk.content[f]}
    BY DEF DailyInv, PlanSound
  <2>5. crashes = 0 /\ disk.stage[f] = "MISSED" => predictions[f] = {}
    BY DEF DailyInv, DiskFollows, PredictionsKnown
  <2> QED BY <2>1, <2>2, <2>3, <2>4, <2>5
<1> QED BY <1>1, DailyInvariant, PTL

(* _r2 and _r3 with the bridge: a review is made from the snapshot of a     *)
(* prediction that exists, and with the bridge on the desk has got it.      *)
THEOREM ReviewsContinueAlways == Spec => []ReviewsContinue
<1>1. DailyInv => ReviewsContinue
  BY DEF DailyInv
<1> QED BY <1>1, DailyInvariant, PTL

(* _ensure_daily_market and the captures of the live frames: the plan on    *)
(* disk has counted every use of the network, across any number of kills.   *)
THEOREM CallsAlwaysCounted == Spec => []CallsAreCounted
<1>1. DailyInv => CallsAreCounted
  BY DEF DailyInv, CaptureCounted
<1> QED BY <1>1, DailyInvariant, PTL
=============================================================================
