------------------------ MODULE NotificationDelivery ------------------------
(***************************************************************************)
(* From a condition of a tracked watch to a message on a desktop           *)
(* (notify in tracking_control_store.py, notification_delivery.py,         *)
(* desktop/notification_controller.py).                                    *)
(*                                                                         *)
(* The tracking scheduler raises notices, at most one reminder of a        *)
(* condition within the cooldown.  Desktops that share the workspace read  *)
(* the unread ones once a minute, reserve their numbers in one transaction *)
(* of a shared database, hand them to the system and note the result.  A   *)
(* desktop can be killed anywhere; what it had reserved is not sent again. *)
(***************************************************************************)
EXTENDS Integers, FiniteSets

CONSTANTS
    Desktops,
    Keys,          \* conditions
    Cooldown,      \* six hours
    MaxNotices,    \* notices that a control record keeps (128)
    Limit,         \* events of one message (20)
    MaxReceipts,   \* rows of the receipts table (10000)
    MaxClock,      \* bound: the clock
    MaxSetbacks,   \* bound: times the clock is behind a stamp already used
    MaxGrants,     \* bound: authorizations of the watch
    MaxRaised,     \* bound: reminders
    MaxKills       \* bound: kills of a desktop

ASSUME NotificationAssumption ==
    /\ IsFiniteSet(Keys)
    /\ {Cooldown, MaxNotices, Limit, MaxReceipts, MaxGrants, MaxRaised} \subseteq Nat \ {0}
    /\ {MaxClock, MaxSetbacks, MaxKills} \subseteq Nat

VARIABLES
    clock, setbacks,
    grant,     \* the authorization whose control record this is
    notices,   \* notices[k]: the notice of a condition, if the record has one
    raised,    \* history: the events that have been unread notices
    met,       \* history: met[k]: the latest time at which the condition was met
    receipt,   \* receipt[e]: the state of the row of e, if there is one
    attempts,  \* history: calls of transport.send with e
    desk,      \* desk[d]: where a desktop stands in check, and the events it holds
    kills

control == <<clock, setbacks, grant, notices, raised, met>>
vars == <<control, receipt, attempts, desk, kills>>

Times == 0 .. MaxClock
Events == [grant : 1 .. MaxGrants, key : Keys, at : Times]
States == {"none", "reserved", "handed_to_qt", "dispatch_failed", "suppressed"}
Phases == {"idle", "claiming", "claimed", "sent"}
NoNotice == [seen |-> -1, notified |-> -1, unread |-> FALSE]

Init ==
    /\ clock = 0 /\ setbacks = 0 /\ grant = 1
    /\ notices = [k \in Keys |-> NoNotice]
    /\ raised = {}
    /\ met = [k \in Keys |-> -1]
    /\ receipt = [e \in Events |-> "none"]
    /\ attempts = [e \in Events |-> 0]
    /\ desk = [d \in Desktops |-> [phase |-> "idle", batch |-> {}]]
    /\ kills = 0

-----------------------------------------------------------------------------
(* Notices *)

Kept == {k \in Keys : notices[k] # NoNotice}
Event(k) == [grant |-> grant, key |-> k, at |-> notices[k].notified]

(* notify makes room by dropping the notice that was met least recently. *)
Evicted(k) ==
    IF notices[k] = NoNotice /\ Cardinality(Kept) >= MaxNotices
    THEN {{j} : j \in {j \in Kept : \A i \in Kept : notices[j].seen <= notices[i].seen}}
    ELSE {{}}

(* Mutant of Reminded: a notice that was read may come back at once. *)
RemindedWhenRead(k) ==
    \/ ~notices[k].unread
    \/ clock - notices[k].notified >= Cooldown

Reminded(k) == clock - notices[k].notified >= Cooldown

(* The notice of a condition that is met again. *)
Renewed(k) ==
    IF notices[k] = NoNotice \/ Reminded(k)
    THEN [seen |-> clock, notified |-> clock, unread |-> TRUE]
    ELSE [notices[k] EXCEPT !.seen = clock]

(* notify, for one of the conditions that a tick of the scheduler meets.    *)
(* Those of a tick are saved together: a reader sees some of these states.  *)
Notify(k) ==
    /\ \E gone \in Evicted(k) :
          notices' = [j \in Keys |-> IF j = k THEN Renewed(k)
                                     ELSE IF j \in gone THEN NoNotice ELSE notices[j]]
    /\ raised' = raised \cup {[grant |-> grant, key |-> k, at |-> notices'[k].notified]}
    /\ Cardinality(raised') <= MaxRaised
    /\ met' = [met EXCEPT ![k] = IF @ < clock THEN clock ELSE @]
    /\ UNCHANGED <<clock, setbacks, grant>>

(* acknowledge: all notices of the watch are read. *)
Acknowledge ==
    /\ notices' = [k \in Keys |-> [notices[k] EXCEPT !.unread = FALSE]]
    /\ UNCHANGED <<clock, setbacks, grant, raised, met>>

(* authorize_control: the new record starts with no notices. *)
Authorize ==
    /\ grant < MaxGrants
    /\ grant' = grant + 1
    /\ notices' = [k \in Keys |-> NoNotice]
    /\ met' = [k \in Keys |-> -1]
    /\ UNCHANGED <<clock, setbacks, raised>>

Pass ==
    /\ clock < MaxClock
    /\ clock' = clock + 1
    /\ UNCHANGED <<setbacks, grant, notices, raised, met>>

(* The clock is set back, or a scheduler that took its stamp earlier than   *)
(* another one comes to the watch after it.                                 *)
SetBack ==
    /\ clock > 0 /\ setbacks < MaxSetbacks
    /\ clock' = clock - 1 /\ setbacks' = setbacks + 1
    /\ UNCHANGED <<grant, notices, raised, met>>

Control ==
    /\ \/ Acknowledge \/ Authorize \/ Pass \/ SetBack
       \/ \E k \in Keys : Notify(k)
    /\ UNCHANGED <<receipt, attempts, desk, kills>>

-----------------------------------------------------------------------------
(* Desktops *)

Go(d, phase, batch) == desk' = [desk EXCEPT ![d] = [phase |-> phase, batch |-> batch]]
Recorded(batch, state) ==
    [e \in Events |-> IF e \in batch /\ receipt[e] = "reserved" THEN state ELSE receipt[e]]

(* check, when the switch, the hour and the system permit messages; a       *)
(* thread of the pool then reads the unread notices (notice_events).  A     *)
(* check that finds none changes nothing.                                   *)
Unread == {Event(k) : k \in {k \in Kept : notices[k].unread}}

Check(d) ==
    /\ desk[d].phase = "idle"
    /\ Unread # {}
    /\ Go(d, "claiming", Unread)
    /\ UNCHANGED <<control, receipt, attempts, kills>>

(* Mutant of Unclaimed: what was reserved and never finished is taken again. *)
UnclaimedOrLost(batch) ==
    {e \in batch : e.at <= clock /\ receipt[e] \in {"none", "reserved"}}

Unclaimed(batch) == {e \in batch : e.at <= clock /\ receipt[e] = "none"}

(* The newest first, as many as one message may have. *)
Chosen(batch) ==
    {C \in SUBSET Unclaimed(batch) :
        /\ Cardinality(C) <= Limit
        /\ C = Unclaimed(batch) \/ Cardinality(C) = Limit
        /\ \A e \in C, f \in Unclaimed(batch) \ C : e.at >= f.at}

Rows == {e \in Events : receipt[e] # "none"}

Room(C) == Cardinality(Rows) + Cardinality(C) <= MaxReceipts

(* reserve: one transaction, committed before done sees the events. *)
Reserve(d) ==
    /\ desk[d].phase = "claiming"
    /\ \E C \in Chosen(desk[d].batch) :
          /\ Room(C)
          /\ receipt' = [e \in Events |-> IF e \in C THEN "reserved" ELSE receipt[e]]
          /\ Go(d, IF C = {} THEN "idle" ELSE "claimed", C)
    /\ UNCHANGED <<control, attempts, kills>>

(* reserve raises: the table is full, or the database is busy or fails.     *)
ReserveFails(d) ==
    /\ desk[d].phase = "claiming"
    /\ Go(d, "idle", {})
    /\ UNCHANGED <<control, receipt, attempts, kills>>

(* done, when by now the switch is off, the hour is quiet, the system does  *)
(* not support messages or the window is closing; the database may fail     *)
Suppress(d) ==
    /\ desk[d].phase = "claimed"
    /\ receipt' \in {receipt, Recorded(desk[d].batch, "suppressed")}
    /\ Go(d, "idle", {})
    /\ UNCHANGED <<control, attempts, kills>>

(* transport.send *)
Send(d) ==
    /\ desk[d].phase = "claimed"
    /\ attempts' = [e \in Events |-> attempts[e] + (IF e \in desk[d].batch THEN 1 ELSE 0)]
    /\ Go(d, "sent", desk[d].batch)
    /\ UNCHANGED <<control, receipt, kills>>

(* Mutant of Finish: a message is recorded as shown. *)
FinishShown(d) ==
    /\ desk[d].phase = "sent"
    /\ receipt' = Recorded(desk[d].batch, "displayed")
    /\ Go(d, "idle", {})
    /\ UNCHANGED <<control, attempts, kills>>

(* The send has returned or raised; its result is noted unless the database *)
(* fails then, which is not tried again.                                    *)
Finish(d) ==
    /\ desk[d].phase = "sent"
    /\ \/ UNCHANGED receipt
       \/ \E result \in {"handed_to_qt", "dispatch_failed"} :
             receipt' = Recorded(desk[d].batch, result)
    /\ Go(d, "idle", {})
    /\ UNCHANGED <<control, attempts, kills>>

(* The process dies with what it holds.  A desktop that does not run is one *)
(* that does not check.                                                     *)
Kill(d) ==
    /\ desk[d].phase # "idle" /\ kills < MaxKills
    /\ kills' = kills + 1
    /\ Go(d, "idle", {})
    /\ UNCHANGED <<control, receipt, attempts>>

Desktop(d) ==
    \/ Check(d) \/ Reserve(d) \/ ReserveFails(d)
    \/ Suppress(d) \/ Send(d) \/ Finish(d) \/ Kill(d)

Next == Control \/ \E d \in Desktops : Desktop(d)

Spec == Init /\ [][Next]_vars

-----------------------------------------------------------------------------
(* Properties *)

TypeOK ==
    /\ clock \in Times /\ setbacks \in 0 .. MaxSetbacks /\ grant \in 1 .. MaxGrants
    /\ notices \in [Keys -> {NoNotice} \cup [seen : Times, notified : Times, unread : BOOLEAN]]
    /\ raised \in SUBSET Events
    /\ met \in [Keys -> Times \cup {-1}]
    /\ receipt \in [Events -> States]
    /\ attempts \in [Events -> Nat]
    /\ desk \in [Desktops -> [phase : Phases, batch : SUBSET Events]]
    /\ kills \in 0 .. MaxKills

(* Whatever desktops share the workspace and wherever they are killed, a    *)
(* reminder is handed to the system at most once, and the history tells:    *)
(* nothing was tried with a suppressed reminder or one that has no row, and *)
(* what is recorded as handed over or failed was tried.                     *)
SentAsRecorded ==
    \A e \in Events :
        /\ attempts[e] <= 1
        /\ receipt[e] \in {"none", "suppressed"} => attempts[e] = 0
        /\ receipt[e] \in {"handed_to_qt", "dispatch_failed"} => attempts[e] = 1

(* The system is reminded of a condition twice within the cooldown only if  *)
(* as many other conditions as a record keeps have been met meanwhile.      *)
RemindersAreSpaced ==
    \A e, f \in raised :
        /\ e # f /\ e.key = f.key /\ e.grant = grant /\ f.grant = grant
        /\ e.at <= f.at /\ f.at - e.at < Cooldown
        => Cardinality({k \in Keys \ {e.key} : met[k] >= 0 /\ met[k] >= e.at - MaxSetbacks})
               >= MaxNotices

=============================================================================
