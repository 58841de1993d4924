------------------------- MODULE NotificationProofs -------------------------
(***************************************************************************)
(* Proofs about NotificationDelivery: for any desktops, conditions and     *)
(* limits, and any number of kills and clock corrections, a reminder is    *)
(* handed over at most once and its receipt tells the truth; and reminders *)
(* of one condition are spaced.                                            *)
(***************************************************************************)
EXTENDS NotificationDelivery, FiniteSetTheorems, TLAPS

Notices == [seen : Times, notified : Times, unread : BOOLEAN]

Holding(d) == desk[d].phase \in {"claimed", "sent"}

(* The events that a desktop has taken are reserved, and tried when it has  *)
(* sent them.                                                               *)
ClaimsSound ==
    \A d \in Desktops : Holding(d) => \A e \in desk[d].batch :
        /\ receipt[e] = "reserved"
        /\ attempts[e] = IF desk[d].phase = "sent" THEN 1 ELSE 0

(* No event is with two desktops. *)
ClaimsDisjoint ==
    \A c, d \in Desktops :
        c # d /\ Holding(c) /\ Holding(d) => desk[c].batch \cap desk[d].batch = {}

DeliveryInv == TypeOK /\ SentAsRecorded /\ ClaimsSound /\ ClaimsDisjoint

-----------------------------------------------------------------------------
LEMMA DeliveryInit == Init => DeliveryInv
<1> SUFFICES ASSUME Init PROVE DeliveryInv
  OBVIOUS
<1>1. MaxClock \in Nat /\ MaxSetbacks \in Nat /\ MaxKills \in Nat /\ MaxGrants \in Nat \ {0}
  BY NotificationAssumption
<1>2. TypeOK
  BY <1>1 DEF Init, TypeOK, Times, States, Phases
<1>3. SentAsRecorded
  BY DEF Init, SentAsRecorded
<1>4. ClaimsSound /\ ClaimsDisjoint
  BY DEF Init, ClaimsSound, ClaimsDisjoint, Holding
<1> QED BY <1>2, <1>3, <1>4 DEF DeliveryInv

(* The scheduler's side leaves receipts and desktops alone. *)
LEMMA NotifyTypes ==
    ASSUME TypeOK, NEW k \in Keys, Notify(k)
    PROVE  /\ notices' \in [Keys -> {NoNotice} \cup Notices]
           /\ raised' \in SUBSET Events
           /\ met' \in [Keys -> Times \cup {-1}]
<1> USE DEF TypeOK
<1>0. clock \in Times /\ Times \subseteq Int
  BY NotificationAssumption DEF Times
<1>1. Renewed(k) \in Notices
  <2>1. CASE notices[k] = NoNotice \/ Reminded(k)
    BY <1>0, <2>1 DEF Renewed, Notices
  <2>2. CASE notices[k] # NoNotice /\ ~Reminded(k)
    <3>1. notices[k] \in Notices
      BY <2>2 DEF Notices
    <3>2. [notices[k] EXCEPT !.seen = clock] \in Notices
      BY <1>0, <3>1 DEF Notices
    <3> QED BY <2>2, <3>2 DEF Renewed
  <2> QED BY <2>1, <2>2
<1>2. PICK gone \in Evicted(k) :
         notices' = [j \in Keys |-> IF j = k THEN Renewed(k)
                                    ELSE IF j \in gone THEN NoNotice ELSE notices[j]]
  BY DEF Notify
<1>3. notices' \in [Keys -> {NoNotice} \cup Notices] /\ notices'[k] = Renewed(k)
  BY <1>1, <1>2 DEF Notices
<1>4. [grant |-> grant, key |-> k, at |-> notices'[k].notified] \in Events
  BY <1>1, <1>3 DEF Notices, Events
<1>5. raised' \in SUBSET Events
  BY <1>4 DEF Notify
<1>6. met' \in [Keys -> Times \cup {-1}]
  BY <1>0 DEF Notify
<1> QED BY <1>3, <1>5, <1>6

LEMMA ControlStep == ASSUME DeliveryInv, Control PROVE DeliveryInv'
<1> USE DEF DeliveryInv
<1>0. UNCHANGED <<receipt, attempts, desk, kills>>
  BY DEF Control
<1>1. TypeOK'
  <2> USE DEF TypeOK
  <2>0. /\ clock \in Times /\ setbacks \in 0 .. MaxSetbacks /\ grant \in 1 .. MaxGrants
        /\ MaxClock \in Nat /\ MaxSetbacks \in Nat /\ MaxGrants \in Nat
    BY NotificationAssumption
  <2>1. CASE Acknowledge
    <3>1. ASSUME NEW k \in Keys
          PROVE  [notices[k] EXCEPT !.unread = FALSE] \in {NoNotice} \cup Notices
      <4>1. CASE notices[k] = NoNotice
        <5>1. notices[k] \in [seen : Int, notified : Int, unread : BOOLEAN]
              /\ notices[k].unread = FALSE
          BY <4>1 DEF NoNotice
        <5>2. [notices[k] EXCEPT !.unread = FALSE] = notices[k]
          BY <5>1
        <5> QED BY <4>1, <5>2
      <4>2. CASE notices[k] \in Notices
        BY <4>2 DEF Notices
      <4> QED BY <4>1, <4>2 DEF Notices
    <3>2. notices' \in [Keys -> {NoNotice} \cup Notices]
      BY <2>1, <3>1 DEF Acknowledge
    <3> QED BY <1>0, <2>1, <3>2 DEF Acknowledge, Notices
  <2>2. CASE Authorize
    BY <1>0, <2>0, <2>2 DEF Authorize
  <2>3. CASE Pass
    BY <1>0, <2>0, <2>3 DEF Pass, Times
  <2>4. CASE SetBack
    BY <1>0, <2>0, <2>4 DEF SetBack, Times
  <2>5. ASSUME NEW k \in Keys, Notify(k) PROVE TypeOK'
    <3>1. UNCHANGED <<clock, setbacks, grant>>
      BY <2>5 DEF Notify
    <3> QED BY <1>0, <2>5, <3>1, NotifyTypes DEF Notices
  <2> QED BY <2>1, <2>2, <2>3, <2>4, <2>5 DEF Control
<1>2. SentAsRecorded' /\ ClaimsSound' /\ ClaimsDisjoint'
  BY <1>0 DEF SentAsRecorded, ClaimsSound, ClaimsDisjoint, Holding
<1> QED BY <1>1, <1>2

-----------------------------------------------------------------------------
(* Desktops *)

LEMMA GoTypes ==
    ASSUME TypeOK, NEW d \in Desktops, NEW p \in Phases, NEW batch \in SUBSET Events,
           Go(d, p, batch)
    PROVE  /\ desk' \in [Desktops -> [phase : Phases, batch : SUBSET Events]]
           /\ desk'[d] = [phase |-> p, batch |-> batch]
           /\ \A c \in Desktops : c # d => desk'[c] = desk[c]
BY DEF TypeOK, Go

(* A desktop that lets go, or has only read, disturbs no other.             *)
LEMMA LetGo ==
    ASSUME DeliveryInv, NEW d \in Desktops, NEW p \in {"idle", "claiming"},
           NEW batch \in SUBSET Events, Go(d, p, batch),
           UNCHANGED <<control, attempts>>, kills' \in 0 .. MaxKills,
           receipt' \in [Events -> States],
           \A e \in Events : receipt'[e] = receipt[e] \/
               /\ e \in desk[d].batch /\ Holding(d)
               /\ receipt'[e] \in (IF desk[d].phase = "sent" THEN {"handed_to_qt", "dispatch_failed"}
                                                          ELSE {"suppressed"})
    PROVE  DeliveryInv'
<1> USE DEF DeliveryInv
<1>1. /\ desk' \in [Desktops -> [phase : Phases, batch : SUBSET Events]]
      /\ desk'[d] = [phase |-> p, batch |-> batch]
      /\ \A c \in Desktops : c # d => desk'[c] = desk[c]
  BY GoTypes DEF Phases
<1>2. TypeOK'
  BY <1>1 DEF TypeOK, control
<1>3. \A e \in Events : receipt'[e] # receipt[e] =>
         /\ e \in desk[d].batch /\ Holding(d)
         /\ attempts[e] = IF desk[d].phase = "sent" THEN 1 ELSE 0
  BY DEF ClaimsSound
<1>4. SentAsRecorded'
  BY <1>3 DEF SentAsRecorded, Holding
<1>5. ~Holding(d)'
  BY <1>1 DEF Holding
<1>6. ASSUME NEW c \in Desktops, Holding(c)'
      PROVE  c # d /\ Holding(c) /\ desk'[c] = desk[c]
  BY <1>1, <1>5, <1>6 DEF Holding
<1>7. ClaimsDisjoint'
  BY <1>6 DEF ClaimsDisjoint
<1>8. ASSUME NEW c \in Desktops, Holding(c)', NEW e \in desk'[c].batch
      PROVE  receipt'[e] = "reserved" /\ attempts'[e] = IF desk'[c].phase = "sent" THEN 1 ELSE 0
  <2>1. c # d /\ Holding(c) /\ desk'[c] = desk[c] /\ e \in desk[c].batch /\ e \in Events
    BY <1>6, <1>8 DEF TypeOK
  <2>2. receipt'[e] = receipt[e]
    BY <1>3, <2>1 DEF ClaimsDisjoint
  <2> QED BY <2>1, <2>2 DEF ClaimsSound
<1>9. ClaimsSound'
  BY <1>8 DEF ClaimsSound
<1> QED BY <1>2, <1>4, <1>7, <1>9

LEMMA CheckStep == ASSUME DeliveryInv, NEW d \in Desktops, Check(d) PROVE DeliveryInv'
<1>1. Unread \in SUBSET Events
  <2> SUFFICES ASSUME NEW k \in Kept PROVE Event(k) \in Events
    BY DEF Unread
  <2>1. k \in Keys /\ notices[k].notified \in Times /\ grant \in 1 .. MaxGrants
    BY DEF Kept, DeliveryInv, TypeOK
  <2> QED BY <2>1 DEF Event, Events
<1>2. /\ Go(d, "claiming", Unread) /\ UNCHANGED <<control, attempts>>
      /\ receipt' = receipt /\ kills' = kills
  BY DEF Check
<1> QED BY <1>1, <1>2, LetGo DEF DeliveryInv, TypeOK

(* One transaction: what is taken was in no row, so nobody else has it and  *)
(* it was never tried.                                                      *)
LEMMA ReserveStep == ASSUME DeliveryInv, NEW d \in Desktops, Reserve(d) PROVE DeliveryInv'
<1> USE DEF DeliveryInv
<1>1. PICK C \in Chosen(desk[d].batch) :
         /\ receipt' = [e \in Events |-> IF e \in C THEN "reserved" ELSE receipt[e]]
         /\ Go(d, IF C = {} THEN "idle" ELSE "claimed", C)
  BY DEF Reserve
<1>2. UNCHANGED <<control, attempts, kills>>
  BY DEF Reserve
<1>3. C \in SUBSET Events /\ \A e \in C : receipt[e] = "none"
  BY DEF Chosen, Unclaimed, TypeOK
<1>4. /\ desk' \in [Desktops -> [phase : Phases, batch : SUBSET Events]]
      /\ desk'[d] = [phase |-> IF C = {} THEN "idle" ELSE "claimed", batch |-> C]
      /\ \A c \in Desktops : c # d => desk'[c] = desk[c]
  BY <1>1, <1>3, GoTypes DEF Phases
<1>5. TypeOK'
  BY <1>1, <1>2, <1>4 DEF TypeOK, control, States
<1>6. \A e \in C : attempts[e] = 0
  BY <1>3 DEF SentAsRecorded
<1>7. SentAsRecorded'
  BY <1>1, <1>2, <1>6 DEF SentAsRecorded
<1>8. \A c \in Desktops : c # d /\ Holding(c) => desk[c].batch \cap C = {}
  BY <1>3 DEF ClaimsSound
<1>9. ClaimsDisjoint'
  BY <1>4, <1>8 DEF ClaimsDisjoint, Holding
<1>10. ASSUME NEW c \in Desktops, Holding(c)', NEW e \in desk'[c].batch
       PROVE  receipt'[e] = "reserved" /\ attempts'[e] = IF desk'[c].phase = "sent" THEN 1 ELSE 0
  <2>0. e \in Events
    BY <1>4, <1>10
  <2>1. CASE c = d
    BY <1>1, <1>2, <1>4, <1>6, <1>10, <2>0, <2>1
  <2>2. CASE c # d
    <3>1. desk'[c] = desk[c] /\ Holding(c)
      BY <1>4, <1>10, <2>2 DEF Holding
    <3> QED BY <1>1, <1>2, <1>10, <2>0, <3>1 DEF ClaimsSound
  <2> QED BY <2>1, <2>2
<1>11. ClaimsSound'
  BY <1>10 DEF ClaimsSound
<1> QED BY <1>5, <1>7, <1>9, <1>11

LEMMA SendStep == ASSUME DeliveryInv, NEW d \in Desktops, Send(d) PROVE DeliveryInv'
<1> USE DEF DeliveryInv
<1>1. /\ attempts' = [e \in Events |-> attempts[e] + (IF e \in desk[d].batch THEN 1 ELSE 0)]
      /\ UNCHANGED <<control, receipt, kills>>
      /\ desk[d].phase = "claimed" /\ Go(d, "sent", desk[d].batch)
  BY DEF Send
<1>2. desk[d].batch \in SUBSET Events /\ "sent" \in Phases
  BY DEF TypeOK, Phases
<1>3. /\ desk' \in [Desktops -> [phase : Phases, batch : SUBSET Events]]
      /\ desk'[d] = [phase |-> "sent", batch |-> desk[d].batch]
      /\ \A c \in Desktops : c # d => desk'[c] = desk[c]
  BY <1>1, <1>2, GoTypes
<1>4. \A e \in Events : attempts[e] \in Nat
  BY DEF TypeOK
<1>5. attempts' \in [Events -> Nat]
  BY <1>1, <1>4
<1>6. TypeOK'
  BY <1>1, <1>3, <1>5 DEF TypeOK, control
<1>7. \A e \in desk[d].batch :
         receipt[e] = "reserved" /\ attempts[e] = 0 /\ attempts'[e] = 1
  BY <1>1, <1>2 DEF ClaimsSound, Holding
<1>8. \A e \in Events : e \notin desk[d].batch => attempts'[e] = attempts[e]
  BY <1>1, <1>4
<1>9. SentAsRecorded'
  BY <1>1, <1>7, <1>8 DEF SentAsRecorded
<1>10. Holding(d)
  BY <1>1 DEF Holding
<1>11. ASSUME NEW c \in Desktops, Holding(c)'
       PROVE  Holding(c) /\ desk'[c].batch = desk[c].batch
  BY <1>3, <1>10, <1>11 DEF Holding
<1>12. ClaimsDisjoint'
  BY <1>11 DEF ClaimsDisjoint
<1>13. ASSUME NEW c \in Desktops, Holding(c)', NEW e \in desk'[c].batch
       PROVE  receipt'[e] = "reserved" /\ attempts'[e] = IF desk'[c].phase = "sent" THEN 1 ELSE 0
  <2>1. CASE c = d
    BY <1>1, <1>3, <1>7, <1>13, <2>1
  <2>2. CASE c # d
    <3>1. Holding(c) /\ desk'[c] = desk[c] /\ e \in desk[c].batch /\ e \in Events
      BY <1>3, <1>11, <1>13, <2>2
    <3>2. e \notin desk[d].batch
      BY <1>10, <2>2, <3>1 DEF ClaimsDisjoint
    <3> QED BY <1>1, <1>8, <3>1, <3>2 DEF ClaimsSound
  <2> QED BY <2>1, <2>2
<1>14. ClaimsSound'
  BY <1>13 DEF ClaimsSound
<1> QED BY <1>6, <1>9, <1>12, <1>14

(* Results are noted only where a reservation still stands. *)
LEMMA RecordedFacts ==
    ASSUME DeliveryInv, NEW d \in Desktops, Holding(d), NEW state \in States
    PROVE  /\ Recorded(desk[d].batch, state) \in [Events -> States]
           /\ \A e \in Events :
                \/ Recorded(desk[d].batch, state)[e] = receipt[e]
                \/ e \in desk[d].batch /\ Recorded(desk[d].batch, state)[e] = state
BY DEF DeliveryInv, TypeOK, Recorded

LEMMA DesktopStep == ASSUME DeliveryInv, NEW d \in Desktops, Desktop(d) PROVE DeliveryInv'
<1>0. /\ kills \in 0 .. MaxKills /\ receipt \in [Events -> States] /\ MaxKills \in Nat
      /\ {} \in SUBSET Events
  BY NotificationAssumption DEF DeliveryInv, TypeOK
<1>1. CASE ReserveFails(d)
  BY <1>0, <1>1, LetGo DEF ReserveFails
<1>2. CASE Suppress(d)
  <2>1. Holding(d) /\ desk[d].phase # "sent" /\ "suppressed" \in States
    BY <1>2 DEF Suppress, Holding, States
  <2>2. /\ receipt' \in {receipt, Recorded(desk[d].batch, "suppressed")}
        /\ Go(d, "idle", {}) /\ UNCHANGED <<control, attempts>> /\ kills' = kills
    BY <1>2 DEF Suppress
  <2> QED BY <1>0, <2>1, <2>2, RecordedFacts, LetGo
<1>3. CASE Finish(d)
  <2>1. /\ Holding(d) /\ desk[d].phase = "sent"
        /\ "handed_to_qt" \in States /\ "dispatch_failed" \in States
    BY <1>3 DEF Finish, Holding, States
  <2>2. /\ \/ receipt' = receipt
           \/ receipt' = Recorded(desk[d].batch, "handed_to_qt")
           \/ receipt' = Recorded(desk[d].batch, "dispatch_failed")
        /\ Go(d, "idle", {}) /\ UNCHANGED <<control, attempts>> /\ kills' = kills
    BY <1>3 DEF Finish
  <2>3. CASE receipt' = receipt
    BY <1>0, <2>2, <2>3, LetGo
  <2>4. ASSUME NEW result \in {"handed_to_qt", "dispatch_failed"},
               receipt' = Recorded(desk[d].batch, result)
        PROVE  DeliveryInv'
    <3>1. /\ receipt' \in [Events -> States]
          /\ \A e \in Events : receipt'[e] = receipt[e]
                                \/ (e \in desk[d].batch /\ receipt'[e] = result)
      BY <2>1, <2>4, RecordedFacts
    <3> QED BY <1>0, <2>1, <2>2, <3>1, LetGo
  <2> QED BY <2>2, <2>3, <2>4
<1>4. CASE Kill(d)
  <2>1. kills' \in 0 .. MaxKills
    BY <1>0, <1>4 DEF Kill
  <2> QED BY <1>0, <1>4, <2>1, LetGo DEF Kill
<1> QED BY <1>1, <1>2, <1>3, <1>4, CheckStep, ReserveStep, SendStep DEF Desktop

LEMMA DeliveryStep == DeliveryInv /\ [Next]_vars => DeliveryInv'
<1>1. ASSUME DeliveryInv, UNCHANGED vars PROVE DeliveryInv'
  BY <1>1 DEF DeliveryInv, TypeOK, SentAsRecorded, ClaimsSound, ClaimsDisjoint, Holding,
              vars, control
<1> QED BY <1>1, ControlStep, DesktopStep DEF Next

LEMMA DeliveryInvHolds == Spec => []DeliveryInv
BY DeliveryInit, DeliveryStep, PTL DEF Spec

-----------------------------------------------------------------------------
(* All variables keep their types (notify, notice_events, reserve).         *)
THEOREM NoticesTypeCorrect == Spec => []TypeOK
<1>1. DeliveryInv => TypeOK
  BY DEF DeliveryInv
<1> QED BY <1>1, DeliveryInvHolds, PTL

(* However many desktops share a workspace and however often they are       *)
(* killed, no reminder is handed to the system twice, and no receipt says   *)
(* otherwise than what was tried (reserve and finish of                     *)
(* DeliveryStore, check of the notification controller).             *)
THEOREM SentOnce == Spec => []SentAsRecorded
<1>1. DeliveryInv => SentAsRecorded
  BY DEF DeliveryInv
<1> QED BY <1>1, DeliveryInvHolds, PTL

-----------------------------------------------------------------------------
(* Reminders of a condition are a cooldown apart, unless as many other     *)
(* conditions as a record keeps have been met meanwhile: for any           *)
(* conditions, limits, clock corrections and authorizations.               *)

(* The conditions met since the reminder e, as far as the clock can tell. *)
Others(e) == {k \in Keys \ {e.key} : met[k] >= 0 /\ met[k] >= e.at - MaxSetbacks}

Crowded(e) == Cardinality(Others(e)) >= MaxNotices

(* The record remembers the reminder e, or a later one of its condition. *)
Remembered(e) ==
    LET notice == notices[e.key] IN
    /\ notice # NoNotice
    /\ notice.seen >= e.at - MaxSetbacks
    /\ notice.notified = e.at \/ notice.notified - e.at >= Cooldown

(* No stamp lies further ahead than the clock has been set back. *)
StampsSound ==
    /\ \A e \in raised : e.grant <= grant /\ e.at <= clock + setbacks
    /\ \A k \in Keys : notices[k] # NoNotice =>
          /\ notices[k].notified <= clock + setbacks
          /\ notices[k].seen <= met[k]

RememberedOrCrowded == \A e \in raised : e.grant = grant => Remembered(e) \/ Crowded(e)

Spaced(e, f) ==
    e # f /\ e.key = f.key /\ e.grant = grant /\ f.grant = grant
    /\ e.at <= f.at /\ f.at - e.at < Cooldown => Crowded(e)

ReminderInv ==
    /\ TypeOK
    /\ StampsSound
    /\ RememberedOrCrowded
    /\ \A e, f \in raised : Spaced(e, f)

-----------------------------------------------------------------------------
LEMMA Numbers ==
    ASSUME TypeOK
    PROVE  /\ clock \in Nat /\ setbacks \in Nat /\ grant \in Nat /\ MaxSetbacks \in Nat
           /\ setbacks <= MaxSetbacks
           /\ MaxNotices \in Nat \ {0} /\ Cooldown \in Nat \ {0}
           /\ \A k \in Keys : met[k] \in Int
           /\ \A k \in Keys : notices[k] # NoNotice =>
                notices[k].seen \in Nat /\ notices[k].notified \in Nat
           /\ \A e \in Events : e.at \in Nat /\ e.grant \in Nat /\ e.key \in Keys
           /\ raised \subseteq Events
BY NotificationAssumption DEF TypeOK, Times, Events

(* The fewer conditions a reminder must have been followed by, the later it is. *)
LEMMA EarlierIsCrowded ==
    ASSUME TypeOK, NEW e \in Events, NEW f \in Events,
           e.key = f.key, e.at <= f.at, Crowded(f)
    PROVE  Crowded(e)
<1>1. Others(f) \subseteq Others(e)
  BY Numbers DEF Others
<1>2. IsFiniteSet(Others(e)) /\ IsFiniteSet(Others(f))
  BY NotificationAssumption, FS_Subset DEF Others
<1>3. Cardinality(Others(f)) <= Cardinality(Others(e))
  BY <1>1, <1>2, FS_Subset
<1>4. Cardinality(Others(e)) \in Nat /\ Cardinality(Others(f)) \in Nat
  BY <1>2, FS_CardinalityType
<1> QED BY <1>3, <1>4, Numbers DEF Crowded

(* Conditions are met later and later. *)
LEMMA CrowdedStays ==
    ASSUME TypeOK, TypeOK', NEW e \in Events, Crowded(e),
           \A k \in Keys : met'[k] >= met[k]
    PROVE  Crowded(e)'
<1>1. Others(e) \subseteq Others(e)'
  <2>1. \A k \in Keys : met[k] \in Int /\ met'[k] \in Int
    BY Numbers, NotificationAssumption DEF TypeOK, Times
  <2> QED BY <2>1, Numbers DEF Others
<1>2. IsFiniteSet(Others(e)) /\ IsFiniteSet(Others(e)')
  BY NotificationAssumption, FS_Subset DEF Others
<1>3. Cardinality(Others(e)) <= Cardinality(Others(e)')
  BY <1>1, <1>2, FS_Subset
<1>4. Cardinality(Others(e)) \in Nat /\ Cardinality(Others(e)') \in Nat
  BY <1>2, FS_CardinalityType
<1> QED BY <1>3, <1>4, Numbers DEF Crowded

-----------------------------------------------------------------------------
(* notify *)

LEMMA NotifyFacts ==
    ASSUME ReminderInv, NEW k \in Keys, Notify(k), TypeOK'
    PROVE  /\ \A j \in Keys : met'[j] >= met[j]
           /\ met'[k] >= clock
           /\ notices'[k] = Renewed(k)
           /\ \A j \in Keys \ {k} : notices'[j] = notices[j] \/ notices'[j] = NoNotice
           /\ UNCHANGED <<clock, setbacks, grant>>
           /\ raised' = raised \cup {[grant |-> grant, key |-> k, at |-> notices'[k].notified]}
<1>1. TypeOK
  BY DEF ReminderInv
<1>2. met \in [Keys -> Int] /\ clock \in Int
  BY <1>1, Numbers DEF TypeOK
<1>3. met' = [met EXCEPT ![k] = IF @ < clock THEN clock ELSE @]
  BY DEF Notify
<1>4. (\A j \in Keys : met'[j] >= met[j]) /\ met'[k] >= clock
  BY <1>2, <1>3
<1> QED BY <1>4 DEF Notify

(* A notice is renewed when it is new or its cooldown is over. *)
LEMMA RenewedFacts ==
    ASSUME ReminderInv, NEW k \in Keys
    PROVE  /\ Renewed(k).seen = clock /\ Renewed(k) # NoNotice
           /\ Renewed(k).notified \in Nat /\ Renewed(k).notified <= clock + setbacks
           /\ notices[k] # NoNotice =>
                \/ Renewed(k).notified = notices[k].notified
                \/ /\ Renewed(k).notified = clock
                   /\ clock - notices[k].notified >= Cooldown
<1>1. TypeOK /\ clock \in Nat /\ setbacks \in Nat
  BY Numbers DEF ReminderInv
<1>2. CASE notices[k] = NoNotice \/ Reminded(k)
  BY <1>1, <1>2 DEF Renewed, Reminded, NoNotice
<1>3. CASE notices[k] # NoNotice /\ ~Reminded(k)
  <2>1. notices[k] \in [seen : Times, notified : Times, unread : BOOLEAN]
    BY <1>1, <1>3 DEF TypeOK
  <2>2. Renewed(k) = [notices[k] EXCEPT !.seen = clock]
    BY <1>3 DEF Renewed
  <2>3. Renewed(k).seen = clock /\ Renewed(k).notified = notices[k].notified
    BY <2>1, <2>2
  <2>4. notices[k].notified \in Nat /\ notices[k].notified <= clock + setbacks
    BY <1>1, <1>3, Numbers DEF ReminderInv, StampsSound
  <2>5. Renewed(k) # NoNotice
    BY <1>1, <2>3 DEF NoNotice
  <2> QED BY <2>3, <2>4, <2>5
<1> QED BY <1>2, <1>3

(* Whoever is dropped is followed by the other conditions of the record and *)
(* the one that takes its place.                                            *)
LEMMA EvictedIsCrowded ==
    ASSUME ReminderInv, NEW k \in Keys, Notify(k), TypeOK',
           NEW e \in raised, e.grant = grant, Remembered(e),
           e.key # k, notices'[e.key] # notices[e.key]
    PROVE  Crowded(e)'
<1> DEFINE j == e.key
           Followers == (Kept \ {j}) \cup {k}
<1>0. /\ TypeOK /\ j \in Keys /\ e \in Events
      /\ clock \in Nat /\ setbacks \in Nat /\ MaxSetbacks \in Nat /\ setbacks <= MaxSetbacks
      /\ e.at \in Nat /\ e.at <= clock + setbacks
  BY Numbers DEF ReminderInv, StampsSound
<1>1. PICK gone \in Evicted(k) :
         notices' = [i \in Keys |-> IF i = k THEN Renewed(k)
                                    ELSE IF i \in gone THEN NoNotice ELSE notices[i]]
  BY DEF Notify
<1>2. j \in gone
  BY <1>0, <1>1
<1>3. /\ j \in Kept /\ k \notin Kept
      /\ Cardinality(Kept) >= MaxNotices
      /\ \A i \in Kept : notices[j].seen <= notices[i].seen
  BY <1>2 DEF Evicted, Kept
<1>4. Followers \subseteq Others(e)'
  <2>1. ASSUME NEW i \in Kept \ {j}
        PROVE  met'[i] >= 0 /\ met'[i] >= e.at - MaxSetbacks
    <3>1. i \in Keys /\ notices[i] # NoNotice
      BY DEF Kept
    <3>2. /\ notices[i].seen \in Nat /\ notices[j].seen \in Nat
          /\ met[i] \in Int /\ met'[i] \in Int
      BY <1>0, <1>3, <3>1, Numbers, NotificationAssumption DEF Kept, TypeOK, Times
    <3>3. met'[i] >= met[i] /\ met[i] >= notices[i].seen
      BY <3>1, NotifyFacts DEF ReminderInv, StampsSound
    <3>4. notices[j].seen <= notices[i].seen /\ notices[j].seen >= e.at - MaxSetbacks
      BY <1>3 DEF Remembered
    <3> QED BY <1>0, <3>2, <3>3, <3>4
  <2>2. met'[k] >= 0 /\ met'[k] >= e.at - MaxSetbacks
    <3>1. met'[k] \in Int /\ met'[k] >= clock
      BY NotifyFacts, NotificationAssumption DEF TypeOK, Times
    <3> QED BY <1>0, <3>1
  <2> QED BY <2>1, <2>2 DEF Others, Kept
<1>5. /\ IsFiniteSet(Kept) /\ IsFiniteSet(Others(e)') /\ IsFiniteSet(Kept \ {j})
      /\ IsFiniteSet(Followers)
  <2>1. IsFiniteSet(Kept) /\ IsFiniteSet(Others(e)')
    BY NotificationAssumption, FS_Subset DEF Kept, Others
  <2> QED BY <2>1, <1>4, FS_Subset, FS_RemoveElement
<1>6. Cardinality(Followers) = Cardinality(Kept)
  <2>1. Cardinality(Kept \ {j}) = Cardinality(Kept) - 1
    BY <1>3, <1>5, FS_RemoveElement
  <2>2. Cardinality(Followers) = Cardinality(Kept \ {j}) + 1
    BY <1>3, <1>5, FS_AddElement
  <2> QED BY <2>1, <2>2, <1>5, FS_CardinalityType
<1>7. Cardinality(Followers) <= Cardinality(Others(e)')
  BY <1>4, <1>5, FS_Subset
<1>8. Cardinality(Kept) \in Nat /\ Cardinality(Others(e)') \in Nat /\ MaxNotices \in Nat
  BY <1>0, <1>5, FS_CardinalityType, Numbers
<1> QED BY <1>3, <1>6, <1>7, <1>8 DEF Crowded

LEMMA NotifyStamps ==
    ASSUME ReminderInv, NEW k \in Keys, Notify(k), TypeOK'
    PROVE  StampsSound'
<1>0. TypeOK /\ clock \in Nat /\ setbacks \in Nat /\ grant \in Nat
  BY Numbers DEF ReminderInv
<1>1. UNCHANGED <<clock, setbacks, grant>> /\ notices'[k] = Renewed(k)
  BY NotifyFacts
<1>2. ASSUME NEW e \in raised' PROVE e.grant <= grant /\ e.at <= clock + setbacks
  <2>1. e \in raised \/ (e.grant = grant /\ e.at = Renewed(k).notified)
    BY NotifyFacts
  <2> QED BY <1>0, <2>1, RenewedFacts DEF ReminderInv, StampsSound
<1>3. ASSUME NEW j \in Keys, notices'[j] # NoNotice
      PROVE  notices'[j].notified <= clock + setbacks /\ notices'[j].seen <= met'[j]
  <2>1. met[j] \in Int /\ met'[j] \in Int /\ met'[j] >= met[j]
    BY <1>0, Numbers, NotifyFacts, NotificationAssumption DEF TypeOK, Times
  <2>2. CASE j = k
    BY <1>0, <1>1, <2>1, <2>2, NotifyFacts, RenewedFacts
  <2>3. CASE j # k
    <3>1. notices'[j] = notices[j] /\ notices[j] # NoNotice
      BY <1>3, <2>3, NotifyFacts
    <3>2. notices[j].seen \in Nat
      BY <1>0, <3>1, Numbers
    <3> QED BY <2>1, <3>1, <3>2 DEF ReminderInv, StampsSound
  <2> QED BY <2>2, <2>3
<1> QED BY <1>1, <1>2, <1>3 DEF StampsSound

LEMMA NotifyRemembers ==
    ASSUME ReminderInv, NEW k \in Keys, Notify(k), TypeOK',
           NEW e \in raised', e.grant = grant
    PROVE  Remembered(e)' \/ Crowded(e)'
<1>0. /\ TypeOK /\ clock \in Nat /\ setbacks \in Nat /\ MaxSetbacks \in Nat
      /\ setbacks <= MaxSetbacks /\ Cooldown \in Nat \ {0}
  BY Numbers DEF ReminderInv
<1>1. notices'[k] = Renewed(k)
  BY NotifyFacts
<1>2. CASE e \notin raised
  <2>1. e.key = k /\ e.at = Renewed(k).notified
    BY <1>1, <1>2, NotifyFacts
  <2> QED BY <1>0, <1>1, <2>1, RenewedFacts DEF Remembered
<1>3. CASE e \in raised /\ Crowded(e)
  BY <1>0, <1>3, CrowdedStays, NotifyFacts, Numbers
<1>4. CASE e \in raised /\ Remembered(e)
  <2>0. /\ e \in Events /\ e.at \in Nat /\ e.key \in Keys /\ e.at <= clock + setbacks
        /\ notices[e.key] # NoNotice /\ notices[e.key].notified \in Nat
    BY <1>0, <1>4, Numbers DEF ReminderInv, StampsSound, Remembered
  <2>1. CASE e.key = k
    BY <1>0, <1>1, <1>4, <2>0, <2>1, RenewedFacts DEF Remembered
  <2>2. CASE e.key # k /\ notices'[e.key] = notices[e.key]
    BY <1>4, <2>2 DEF Remembered
  <2>3. CASE e.key # k /\ notices'[e.key] # notices[e.key]
    BY <1>4, <2>3, EvictedIsCrowded
  <2> QED BY <2>1, <2>2, <2>3
<1> QED BY <1>2, <1>3, <1>4 DEF ReminderInv, RememberedOrCrowded

LEMMA NotifySpaces ==
    ASSUME ReminderInv, NEW k \in Keys, Notify(k), TypeOK',
           NEW e \in raised', NEW f \in raised'
    PROVE  Spaced(e, f)'
<1> SUFFICES ASSUME e # f, e.key = f.key, e.grant = grant, f.grant = grant,
                    e.at <= f.at, f.at - e.at < Cooldown
             PROVE  Crowded(e)'
  BY NotifyFacts DEF Spaced
<1>0. /\ TypeOK /\ clock \in Nat /\ setbacks \in Nat /\ Cooldown \in Nat \ {0}
      /\ e \in Events /\ f \in Events /\ e.at \in Nat /\ f.at \in Nat
  <2>1. raised' \subseteq Events
    BY DEF TypeOK
  <2> QED BY <2>1, Numbers DEF ReminderInv
<1>1. ASSUME NEW d \in raised' \ raised
      PROVE  d = [grant |-> grant, key |-> k, at |-> Renewed(k).notified]
  BY <1>1, NotifyFacts
<1>2. Crowded(e) => Crowded(e)'
  BY <1>0, CrowdedStays, NotifyFacts
<1>3. CASE e \in raised /\ f \in raised
  BY <1>2, <1>3 DEF ReminderInv, Spaced
<1>4. CASE e \in raised /\ f \notin raised
  <2>1. f.key = k /\ f.at = Renewed(k).notified
    BY <1>1, <1>4
  <2>2. ASSUME Remembered(e) PROVE FALSE
    <3>1. /\ notices[k] # NoNotice /\ notices[k].notified \in Nat
          /\ notices[k].notified = e.at \/ notices[k].notified - e.at >= Cooldown
      BY <1>0, <2>1, <2>2, Numbers DEF Remembered
    <3>2. f.at = notices[k].notified \/ f.at - notices[k].notified >= Cooldown
      BY <2>1, <3>1, RenewedFacts
    <3>3. f.at # e.at
      BY <1>0 DEF Events
    <3> QED BY <1>0, <3>1, <3>2, <3>3
  <2> QED BY <1>2, <1>4, <2>2 DEF ReminderInv, RememberedOrCrowded
<1>5. CASE e \notin raised /\ f \in raised
  <2>1. e.key = k /\ e.at = Renewed(k).notified
    BY <1>1, <1>5
  <2>2. ASSUME Remembered(f) PROVE FALSE
    <3>1. /\ notices[k] # NoNotice /\ notices[k].notified \in Nat
          /\ notices[k].notified = f.at \/ notices[k].notified - f.at >= Cooldown
      BY <1>0, <2>1, <2>2, Numbers DEF Remembered
    <3>2. e.at = notices[k].notified \/ e.at - notices[k].notified >= Cooldown
      BY <2>1, <3>1, RenewedFacts
    <3>3. f.at # e.at
      BY <1>0 DEF Events
    <3> QED BY <1>0, <3>1, <3>2, <3>3
  <2>3. Crowded(f)
    BY <1>5, <2>2 DEF ReminderInv, RememberedOrCrowded
  <2> QED BY <1>0, <1>2, <2>3, EarlierIsCrowded
<1> QED BY <1>1, <1>3, <1>4, <1>5

-----------------------------------------------------------------------------
(* Everything else *)

(* Reading a notice, and the clock, change nothing that counts here. *)
LEMMA QuietStep ==
    ASSUME ReminderInv, TypeOK', clock + setbacks <= clock' + setbacks',
           UNCHANGED <<grant, raised, met>>,
           \A k \in Keys : notices'[k] = notices[k]
                           \/ notices'[k] = [notices[k] EXCEPT !.unread = FALSE]
    PROVE  ReminderInv'
<1>0. /\ TypeOK /\ clock \in Nat /\ setbacks \in Nat /\ grant \in Nat
      /\ clock' \in Nat /\ setbacks' \in Nat
  BY Numbers, NotificationAssumption DEF ReminderInv, TypeOK, Times
<1>1. \A k \in Keys : /\ notices'[k].seen = notices[k].seen
                      /\ notices'[k].notified = notices[k].notified
                      /\ notices'[k] = NoNotice <=> notices[k] = NoNotice
  <2> SUFFICES ASSUME NEW k \in Keys
               PROVE  /\ notices'[k].seen = notices[k].seen
                      /\ notices'[k].notified = notices[k].notified
                      /\ notices'[k] = NoNotice <=> notices[k] = NoNotice
    OBVIOUS
  <2>1. CASE notices[k] = NoNotice
    BY <2>1 DEF NoNotice
  <2>2. CASE notices[k] # NoNotice
    <3>1. notices[k] \in [seen : Times, notified : Times, unread : BOOLEAN]
      BY <1>0, <2>2 DEF TypeOK
    <3>2. notices[k].seen >= 0 /\ notices[k].seen \in Nat
      BY <1>0, <2>2, Numbers
    <3>3. notices'[k].seen = notices[k].seen /\ notices'[k].notified = notices[k].notified
      BY <3>1
    <3>4. notices'[k] # NoNotice
      BY <3>2, <3>3 DEF NoNotice
    <3> QED BY <2>2, <3>3, <3>4
  <2> QED BY <2>1, <2>2
<1>2. StampsSound'
  <2>1. ASSUME NEW e \in raised PROVE e.at \in Nat
    BY <1>0, Numbers
  <2>2. ASSUME NEW k \in Keys, notices[k] # NoNotice PROVE notices[k].notified \in Nat
    BY <1>0, <2>2, Numbers
  <2> QED BY <1>0, <1>1, <2>1, <2>2 DEF ReminderInv, StampsSound
<1>3. \A e \in raised : /\ Crowded(e)' <=> Crowded(e)
                        /\ Remembered(e) => Remembered(e)'
  <2>1. \A e \in raised : e.key \in Keys
    BY <1>0, Numbers
  <2> QED BY <1>1, <2>1 DEF Crowded, Others, Remembered
<1>4. RememberedOrCrowded'
  BY <1>3 DEF ReminderInv, RememberedOrCrowded
<1>5. \A e, f \in raised' : Spaced(e, f)'
  BY <1>3 DEF ReminderInv, Spaced
<1> QED BY <1>2, <1>4, <1>5 DEF ReminderInv

(* A new record has raised nothing yet. *)
LEMMA AuthorizeStep == ASSUME ReminderInv, TypeOK', Authorize PROVE ReminderInv'
<1>0. /\ TypeOK /\ clock \in Nat /\ setbacks \in Nat /\ grant \in Nat
      /\ \A e \in raised : e.grant \in Nat /\ e.grant <= grant
  BY Numbers DEF ReminderInv, StampsSound
<1>1. /\ grant' = grant + 1 /\ UNCHANGED <<clock, setbacks, raised>>
      /\ \A k \in Keys : notices'[k] = NoNotice
  BY DEF Authorize
<1>2. \A e \in raised' : e.grant # grant'
  BY <1>0, <1>1
<1>3. StampsSound'
  BY <1>0, <1>1 DEF ReminderInv, StampsSound
<1> QED BY <1>2, <1>3 DEF ReminderInv, RememberedOrCrowded, Spaced

LEMMA ReminderInit == Init => ReminderInv
<1> SUFFICES ASSUME Init PROVE ReminderInv
  OBVIOUS
<1>1. TypeOK
  BY DeliveryInit DEF DeliveryInv
<1> QED BY <1>1 DEF Init, ReminderInv, StampsSound, RememberedOrCrowded

LEMMA ReminderStep == ReminderInv /\ TypeOK' /\ [Next]_vars => ReminderInv'
<1> SUFFICES ASSUME ReminderInv, TypeOK', [Next]_vars PROVE ReminderInv'
  OBVIOUS
<1>0. clock \in Nat /\ setbacks \in Nat
  BY Numbers DEF ReminderInv
<1>1. CASE UNCHANGED control
  BY <1>0, <1>1, QuietStep DEF control
<1>2. CASE Acknowledge
  <2>1. \A k \in Keys : notices'[k] = [notices[k] EXCEPT !.unread = FALSE]
    BY <1>2 DEF Acknowledge
  <2> QED BY <1>0, <1>2, <2>1, QuietStep DEF Acknowledge
<1>3. CASE Authorize
  BY <1>3, AuthorizeStep
<1>4. CASE Pass
  BY <1>0, <1>4, QuietStep DEF Pass
<1>5. CASE SetBack
  BY <1>0, <1>5, QuietStep DEF SetBack
<1>6. ASSUME NEW k \in Keys, Notify(k) PROVE ReminderInv'
  <2>1. StampsSound'
    BY <1>6, NotifyStamps
  <2>2. RememberedOrCrowded'
    BY <1>6, NotifyRemembers, NotifyFacts DEF RememberedOrCrowded
  <2>3. \A e, f \in raised' : Spaced(e, f)'
    BY <1>6, NotifySpaces
  <2> QED BY <2>1, <2>2, <2>3 DEF ReminderInv
<1> QED
  BY <1>1, <1>2, <1>3, <1>4, <1>5, <1>6
  DEF Next, Control, Desktop, Check, Reserve, ReserveFails, Suppress, Send, Finish, Kill, vars

-----------------------------------------------------------------------------

(* The system is reminded of a condition twice within the cooldown only if  *)
(* as many other conditions as a record keeps have been met meanwhile, for  *)
(* any conditions, limits and corrections of the clock (notify and the      *)
(* eviction of the notice that was met least recently).                     *)
THEOREM RemindersSpaced == Spec => []RemindersAreSpaced
<1>1. ReminderInv => RemindersAreSpaced
  BY DEF ReminderInv, Spaced, Crowded, Others, RemindersAreSpaced
<1> QED BY <1>1, ReminderInit, ReminderStep, NoticesTypeCorrect, PTL DEF Spec
=============================================================================
