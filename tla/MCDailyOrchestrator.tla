------------------------ MODULE MCDailyOrchestrator ------------------------
EXTENDS DailyOrchestrator, TLC

(* The windows of the frames in their order, each as short as it can be     *)
(* with what happens in it: a reservation of PREP and a snapshot of R1 can  *)
(* grow too old, two snapshots of the auction differ in age.                *)
MCReady == "PREP" :> 0 @@ "AUCTION" :> 3 @@ "R1" :> 5 @@ "R2" :> 8 @@ "R3" :> 9
MCCutoff == "PREP" :> 0 @@ "AUCTION" :> 4 @@ "R1" :> 5 @@ "R2" :> 8 @@ "R3" :> 9
MCClose == "PREP" :> 2 @@ "AUCTION" :> 4 @@ "R1" :> 7 @@ "R2" :> 8 @@ "R3" :> 9

OneOddity == crashes + reviews + failures <= 1

(* A tick takes less than two units of time.  *)
Brisk == tick.step # "idle" => clock <= tick.at + 1

(* The ticks themselves capture for one frame of the day at most. *)
Sparing == Cardinality({f \in Live : calls[f] > 0}) <= 1
=============================================================================
