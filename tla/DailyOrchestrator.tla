------------------------- MODULE DailyOrchestrator -------------------------
(***************************************************************************)
(* The plan of one trading day (trading/daily_orchestrator.py), with the   *)
(* gate that freezes its predictions (trading/playbook_forward.py).        *)
(*                                                                         *)
(* A tick carries the plan through PREP, AUCTION, R1, R2 and R3 as far as  *)
(* the hour and the market data allow.  It works on a copy of the state    *)
(* that it saves at a few places, judges everything by the time at which   *)
(* it began, and writes predictions to a store that is never rewritten.    *)
(* Market snapshots come from the tick itself or from other tools, and a   *)
(* tick can be killed after any of its writes.                             *)
(***************************************************************************)
EXTENDS Integers, FiniteSets, Sequences

CONSTANTS
    Ready, Cutoff, Close,  \* Ready[f], ...: the hours of a frame, on one clock
    Fresh,                 \* ten minutes
    MarketReady,           \* CAPTURE_READY, the day before
    MarketCooldown,        \* CAPTURE_COOLDOWN
    MaxMarketCaptures,     \* MAX_CAPTURE_ATTEMPTS (8)
    MaxCaptures,           \* MAX_MARKET_CAPTURE_ATTEMPTS (3), per frame
    Bridging,              \* bridge_to_trading_desk
    MaxTime,               \* bound: the clock
    MaxSnapshots,          \* bound: live snapshots of a frame
    MaxReviews,            \* bound: revisions of the daily market data
    MaxFailures,           \* bound: refusals of the bridge
    MaxCrashes             \* bound: kills

Order == <<"PREP", "AUCTION", "R1", "R2", "R3">>
Frames == {Order[i] : i \in 1 .. 5}
Live == Frames \ {"PREP"}
Next1(f) == Order[1 + CHOOSE i \in 1 .. 4 : Order[i] = f]
Before(f) == Order[(CHOOSE i \in 2 .. 5 : Order[i] = f) - 1]

ASSUME OrchestratorAssumption ==
    /\ {Fresh, MarketReady, MarketCooldown, MaxMarketCaptures, MaxCaptures} \subseteq Nat
    /\ {MaxTime, MaxSnapshots, MaxReviews, MaxFailures, MaxCrashes} \subseteq Nat
    /\ Bridging \in BOOLEAN
    /\ \A f \in Frames : Ready[f] \in Nat /\ Cutoff[f] \in Nat /\ Close[f] \in Nat
    /\ \A f \in Frames : Ready[f] <= Close[f]         \* FRAME_POLICY_CONFLICT

VARIABLES
    clock,
    market,    \* the archive of daily data: is there an accepted one, is a revision open
    snaps,     \* snaps[f]: as_of of the live, full snapshots of a frame
    cases,     \* cases[f], predictions[f]: what is frozen in the playbook store
    sets,
    predictions,
    desk,      \* frames whose prediction has a bridge receipt
    disk,      \* the state file of the plan
    mem,       \* the state that the tick works on
    tick,      \* where the tick is, and when it began
    calls,     \* history: network captures, of the market and of each frame
    reviews, failures, crashes

outside == <<market, snaps>>
store == <<cases, sets, predictions, desk>>
bounds == <<reviews, failures, crashes>>
vars == <<clock, outside, store, disk, mem, tick, calls, bounds>>

Times == 0 .. MaxTime
NoTime == -1
NoContent == [asOf |-> NoTime, prev |-> NoTime]
Contents == [asOf : Times, prev : Times \cup {NoTime}]
Terminal == {"COMPLETE", "COMPLETE_NO_TRADE", "COMPLETE_WITH_MISSED",
             "BLOCKED_PREP_MISSED", "BLOCKED_ROUTE_UNKNOWN", "BLOCKED_CAPTURE_BUDGET"}
StageStates == {"PENDING", "RESERVED", "FROZEN", "MISSED", "SKIPPED_NO_TRADE"}
Steps == {"idle", "market", "capturing", "prep", "scan", "stage", "observing",
          "case", "set", "prediction", "frozen", "bridge"}

Plan == [status : {"open"} \cup Terminal,
         empty : BOOLEAN,                     \* no candidates: candidate_count = 0
         attempts : [Frames -> Nat], last : Times \cup {NoTime},
         stage : [Frames -> StageStates],
         content : [Frames -> Contents \cup {NoContent}],
         applied : SUBSET Frames]

Init ==
    /\ clock = 0
    /\ market = [accepted |-> FALSE, review |-> FALSE]
    /\ snaps = [f \in Live |-> {}]
    /\ cases = [f \in Frames |-> {}] /\ sets = cases /\ predictions = cases
    /\ desk = {}
    /\ disk = [status |-> "open", empty |-> FALSE,
               attempts |-> [f \in Frames |-> 0], last |-> NoTime,
               stage |-> [f \in Frames |-> "PENDING"],
               content |-> [f \in Frames |-> NoContent],
               applied |-> {}]
    /\ mem = disk
    /\ tick = [step |-> "idle", frame |-> "PREP", at |-> 0]
    /\ calls = [f \in Frames |-> 0]
    /\ reviews = 0 /\ failures = 0 /\ crashes = 0

-----------------------------------------------------------------------------
(* The world around the plan *)

Quiet == UNCHANGED <<store, disk, mem, tick, calls>>

Pass ==
    /\ clock < MaxTime
    /\ clock' = clock + 1
    /\ Quiet /\ UNCHANGED <<outside, bounds>>

(* Other tools save a snapshot that is near real time, the later ones       *)
(* sometimes first.                                                         *)
Observe(f) ==
    /\ Cardinality(snaps[f]) < MaxSnapshots
    /\ \E t \in {clock - 1, clock} \cap (Ready[f] .. Cutoff[f]) :
          snaps' = [snaps EXCEPT ![f] = @ \cup {t}]
    /\ Quiet /\ UNCHANGED <<clock, market, bounds>>

(* The daily data is captured elsewhere, or differs from what was accepted, *)
(* or the host accepts the revision.                                        *)
Archive ==
    /\ \/ ~market.accepted /\ market' = [market EXCEPT !.accepted = TRUE] /\ UNCHANGED reviews
       \/ /\ market.accepted /\ ~market.review /\ reviews < MaxReviews
          /\ market' = [market EXCEPT !.review = TRUE]
          /\ reviews' = reviews + 1
       \/ market.review /\ market' = [market EXCEPT !.review = FALSE] /\ UNCHANGED reviews
    /\ Quiet /\ UNCHANGED <<clock, snaps, failures, crashes>>

-----------------------------------------------------------------------------
(* A tick *)

At(step) == tick.step = step
Goto(step, f) == tick' = [tick EXCEPT !.step = step, !.frame = f]
Work(state) == mem' = state /\ UNCHANGED disk
Save(state) == mem' = state /\ disk' = state
Leave(state) == Save(state) /\ Goto("idle", tick.frame)
Staged(f, status) == [mem EXCEPT !.stage[f] = status]
Ended(status) == [mem EXCEPT !.status = status]

Begin ==
    /\ At("idle")
    /\ disk.status \notin Terminal
    /\ mem' = disk
    /\ tick' = [step |-> "market", frame |-> "PREP", at |-> clock]
    /\ UNCHANGED <<clock, outside, store, disk, calls, bounds>>

(* Mutant of CaptureMarket: the attempt is saved when it is over. *)
CaptureMarketUnsaved ==
    /\ Work([mem EXCEPT !.attempts["PREP"] = @ + 1, !.last = tick.at])
    /\ Goto("capturing", "PREP")

(* The attempt is on disk before the network is used. *)
CaptureMarket ==
    /\ Save([mem EXCEPT !.attempts["PREP"] = @ + 1, !.last = tick.at])
    /\ Goto("capturing", "PREP")

Cooling == mem.last # NoTime /\ tick.at - mem.last < MarketCooldown

(* _ensure_daily_market *)
Market ==
    /\ At("market")
    /\ \/ /\ market.accepted /\ ~market.review
          /\ Goto("prep", "PREP")
          /\ UNCHANGED <<mem, disk>>
       \/ market.accepted /\ market.review /\ Leave(mem)
       \/ /\ ~market.accepted
          /\ IF tick.at < MarketReady \/ Cooling THEN Leave(mem)
             ELSE IF mem.attempts["PREP"] >= MaxMarketCaptures
             THEN Leave(Ended("BLOCKED_CAPTURE_BUDGET"))
             ELSE CaptureMarket
    /\ UNCHANGED <<clock, outside, store, calls, bounds>>

(* archive.capture: it fails, or it is accepted if nothing was; if another  *)
(* process was faster the same data is found, or a revision.                *)
Captured ==
    /\ At("capturing")
    /\ calls' = [calls EXCEPT !["PREP"] = @ + 1]
    /\ \/ Leave(mem) /\ UNCHANGED <<market, reviews>>
       \/ /\ market' = [market EXCEPT !.accepted = TRUE]
          /\ Goto("prep", "PREP")
          /\ UNCHANGED <<mem, disk, reviews>>
       \/ /\ market.accepted /\ reviews < MaxReviews
          /\ market' = [market EXCEPT !.review = TRUE]
          /\ reviews' = reviews + 1
          /\ Leave(mem)
    /\ UNCHANGED <<clock, snaps, store, failures, crashes>>

CanFreeze(f) == Ready[f] <= tick.at /\ tick.at <= Close[f]
Late(f) == tick.at > Close[f]

(* _prep: the window, and what was reserved before. *)
Prep ==
    /\ At("prep")
    /\ CASE mem.stage["PREP"] = "FROZEN" -> Goto("frozen", "PREP") /\ UNCHANGED <<mem, disk>>
         [] mem.stage["PREP"] # "FROZEN" /\ Late("PREP") ->
               Leave([Staged("PREP", "MISSED") EXCEPT !.status = "BLOCKED_PREP_MISSED"])
         [] mem.stage["PREP"] # "FROZEN" /\ tick.at < Ready["PREP"] -> Leave(mem)
         [] mem.stage["PREP"] = "RESERVED" /\ CanFreeze("PREP") ->
               Goto("case", "PREP") /\ UNCHANGED <<mem, disk>>
         [] OTHER -> Goto("scan", "PREP") /\ UNCHANGED <<mem, disk>>
    /\ UNCHANGED <<clock, outside, store, calls, bounds>>

Reservation == [Staged("PREP", "RESERVED") EXCEPT
                   !.content["PREP"] = [asOf |-> tick.at, prev |-> NoTime]]

(* The reservation is saved before anything is written to the stores. *)
Reserve(none) == Save([Reservation EXCEPT !.empty = none])

(* scan_prep_universe: with candidates or none, without a route, or without *)
(* the data.                                                                *)
Scan ==
    /\ At("scan")
    /\ \/ \E none \in BOOLEAN : Reserve(none) /\ Goto("case", "PREP")
       \/ Leave(Ended("BLOCKED_ROUTE_UNKNOWN"))
       \/ Leave(mem)
    /\ UNCHANGED <<clock, outside, store, calls, bounds>>

-----------------------------------------------------------------------------
(* freeze_forward_snapshot: three records, each found again or created.     *)

Content(f) == mem.content[f]
OnTime(f) == CanFreeze(f) /\ Ready[f] <= Content(f).asOf
Lookahead(f) == Content(f).asOf > tick.at \/ tick.at - Content(f).asOf > Fresh

(* After a refusal: PREP tries again, the others do so unless it is too     *)
(* late for good, which loses the frame.                                    *)
Refused(f) ==
    IF f # "PREP" /\ (~CanFreeze(f) \/ Lookahead(f))
    THEN Work(Staged(f, "MISSED")) /\ Goto("stage", f)
    ELSE Leave(mem)

(* Mutant of Only: other records of the frame are no obstacle. *)
OnlyMine(records, f) == TRUE

Only(records, f) == records[f] \subseteq {Content(f)}      \* _reject_other

Case ==
    /\ At("case")
    /\ LET f == tick.frame IN
          IF OnTime(f) /\ ~Lookahead(f) /\ Only(cases, f)
          THEN /\ cases' = [cases EXCEPT ![f] = @ \cup {Content(f)}]
               /\ Goto("set", f)
               /\ UNCHANGED <<mem, disk>>
          ELSE Refused(f) /\ UNCHANGED cases
    /\ UNCHANGED <<clock, outside, sets, predictions, desk, calls, bounds>>

CandidateSet ==
    /\ At("set")
    /\ sets' = [sets EXCEPT ![tick.frame] = @ \cup {Content(tick.frame)}]
    /\ Goto("prediction", tick.frame)
    /\ UNCHANGED <<clock, outside, cases, predictions, desk, mem, disk, calls, bounds>>

Prediction ==
    /\ At("prediction")
    /\ predictions' = [predictions EXCEPT ![tick.frame] = @ \cup {Content(tick.frame)}]
    /\ Work(Staged(tick.frame, "FROZEN"))
    /\ Goto("frozen", tick.frame)
    /\ UNCHANGED <<clock, outside, cases, sets, desk, calls, bounds>>

-----------------------------------------------------------------------------
(* After a frame is frozen: the bridge, then the next frame.                *)

(* Mutant of Completed: a status that is not among the terminal ones. *)
CompletedUnlisted == Ended("COMPLETE_R3")

Completed ==
    Ended(IF \E f \in Live : mem.stage[f] = "MISSED" THEN "COMPLETE_WITH_MISSED" ELSE "COMPLETE")

NoTrade ==
    [mem EXCEPT !.status = "COMPLETE_NO_TRADE",
                !.stage = [f \in Frames |->
                    IF @[f] = "PENDING" THEN "SKIPPED_NO_TRADE" ELSE @[f]]]

(* The bridge is not asked for PREP, unless it has no candidates. *)
Wanted(f) == Bridging /\ (f # "PREP" \/ mem.empty) /\ f \notin mem.applied

Advance(f) ==
    IF f = "PREP" /\ mem.empty THEN Leave(NoTrade)
    ELSE IF f = "R3" THEN Leave(Completed)
    ELSE Goto("stage", Next1(f)) /\ UNCHANGED <<mem, disk>>

Frozen ==
    /\ At("frozen")
    /\ IF Wanted(tick.frame) THEN Goto("bridge", tick.frame) /\ UNCHANGED <<mem, disk>>
       ELSE Advance(tick.frame)
    /\ UNCHANGED <<clock, outside, store, calls, bounds>>

(* PlaybookDecisionBridge.apply, whose receipt makes it idempotent *)
Bridge ==
    /\ At("bridge")
    /\ \/ /\ desk' = desk \cup {tick.frame}
          /\ Work([mem EXCEPT !.applied = @ \cup {tick.frame}])
          /\ Goto("frozen", tick.frame)
          /\ UNCHANGED failures
       \/ /\ failures < MaxFailures
          /\ failures' = failures + 1
          /\ Leave(mem)
          /\ UNCHANGED desk
    /\ UNCHANGED <<clock, outside, cases, sets, predictions, calls, reviews, crashes>>

-----------------------------------------------------------------------------
(* _auction, _r1, _r2 and _r3                                               *)

First(f) == CHOOSE t \in snaps[f] : \A u \in snaps[f] : t <= u

Miss(f) ==
    IF f = "R3" THEN Leave([Staged(f, "MISSED") EXCEPT !.status = "COMPLETE_WITH_MISSED"])
    ELSE Work(Staged(f, "MISSED")) /\ Goto("stage", Next1(f))

(* Mutant of Broken: a review does not need the prediction before it. *)
BrokenNever(f) == FALSE

(* A review continues what was selected before. *)
Broken(f) == f \in {"R2", "R3"} /\ mem.stage[Before(f)] # "FROZEN"

(* R1 needs the auction as it was, not the prediction about it. *)
Lacks(f) == f = "R1" /\ snaps["AUCTION"] = {}

Basis(f) ==
    CASE f = "AUCTION" -> NoTime
      [] f = "R1" -> First("AUCTION")
      [] OTHER -> mem.content[Before(f)].asOf

(* What is decided when there is no snapshot, before or after a capture. *)
Without(f) == IF f # "AUCTION" /\ tick.at > Cutoff[f] THEN Miss(f) ELSE Leave(mem)

Use(f) ==
    IF Lacks(f) THEN Without(f)
    ELSE IF f # "AUCTION" /\ tick.at - First(f) > Fresh THEN Miss(f)
    ELSE /\ Work([mem EXCEPT !.content[f] = [asOf |-> First(f), prev |-> Basis(f)]])
         /\ Goto("case", f)

Stage ==
    /\ At("stage")
    /\ LET f == tick.frame IN
          CASE mem.stage[f] = "FROZEN" -> Goto("frozen", f) /\ UNCHANGED <<mem, disk>>
            [] mem.stage[f] = "MISSED" -> Miss(f)
            [] mem.stage[f] = "PENDING" /\ tick.at < Ready[f] -> Leave(mem)
            [] mem.stage[f] = "PENDING" /\ (Late(f) \/ (CanFreeze(f) /\ Broken(f))) -> Miss(f)
            [] mem.stage[f] = "PENDING" /\ CanFreeze(f) /\ ~Broken(f) ->
                  IF snaps[f] # {} THEN Use(f)
                  ELSE IF mem.attempts[f] < MaxCaptures
                  THEN Save([mem EXCEPT !.attempts[f] = @ + 1]) /\ Goto("observing", f)
                  ELSE Without(f)
    /\ UNCHANGED <<clock, outside, store, calls, bounds>>

(* _capture_live_snapshot: what it brings is as old as its quotes, and may  *)
(* be newer than the beginning of the tick.                                 *)
Observing ==
    /\ At("observing")
    /\ LET f == tick.frame IN
          /\ calls' = [calls EXCEPT ![f] = @ + 1]
          /\ \/ /\ Cardinality(snaps[f]) < MaxSnapshots
                /\ \E t \in {clock - 1, clock} \cap (Ready[f] .. Cutoff[f]) :
                      snaps' = [snaps EXCEPT ![f] = @ \cup {t}]
                /\ UNCHANGED <<mem, disk>>
                /\ Goto("stage", f)
             \/ snaps[f] = {} /\ Without(f) /\ UNCHANGED snaps
             \/ snaps[f] # {} /\ Use(f) /\ UNCHANGED snaps
    /\ UNCHANGED <<clock, market, store, bounds>>

Crash ==
    /\ ~At("idle")
    /\ crashes < MaxCrashes
    /\ crashes' = crashes + 1
    /\ mem' = disk
    /\ Goto("idle", tick.frame)
    /\ UNCHANGED <<clock, outside, store, disk, calls, reviews, failures>>

Tick ==
    \/ Market \/ Captured \/ Prep \/ Scan
    \/ Case \/ CandidateSet \/ Prediction \/ Frozen \/ Bridge \/ Stage \/ Observing

Next ==
    \/ Pass \/ Archive \/ \E f \in Live : Observe(f)
    \/ Begin \/ Tick \/ Crash

Spec == Init /\ [][Next]_vars

-----------------------------------------------------------------------------
(* Properties *)

TypeOK ==
    /\ clock \in Times
    /\ market \in [accepted : BOOLEAN, review : BOOLEAN]
    /\ snaps \in [Live -> SUBSET Times]
    /\ {cases, sets, predictions} \subseteq [Frames -> SUBSET Contents]
    /\ desk \in SUBSET Frames
    /\ {disk, mem} \subseteq Plan
    /\ tick \in [step : Steps, frame : Frames, at : Times]
    /\ calls \in [Frames -> Nat]

(* A frame of the day is frozen once: whatever is killed and whatever       *)
(* snapshots come late, there are never two cases, sets or predictions.     *)
(* What the plan calls frozen is what is in the store, and what has been    *)
(* written for PREP is what the plan had reserved.  Without a kill, a frame *)
(* that the plan calls missed has no prediction.                            *)
FrozenOnce ==
    \A f \in Frames :
        /\ Cardinality(cases[f]) <= 1
        /\ sets[f] \subseteq cases[f] /\ predictions[f] \subseteq sets[f]
        /\ disk.stage[f] = "FROZEN" => predictions[f] = {disk.content[f]}
        /\ f = "PREP" => cases[f] \subseteq {disk.content[f]}
        /\ crashes = 0 /\ disk.stage[f] = "MISSED" => predictions[f] = {}

(* A review continues the prediction before it, on the very snapshot that   *)
(* it was made from, and the desk has that one if the bridge is on: R2 and  *)
(* R3 are never made up after a gap.                                        *)
ReviewsContinue ==
    \A f \in {"R2", "R3"} : \A c \in cases[f] :
        /\ \E d \in predictions[Before(f)] : c.prev = d.asOf
        /\ Bridging => Before(f) \in desk

(* The network is not asked more often than the plan counts, so the limits  *)
(* hold across kills.                                                       *)
CallsAreCounted == \A f \in Frames : calls[f] <= disk.attempts[f]

=============================================================================
