--------------------------- MODULE MCNotification ---------------------------
EXTENDS NotificationDelivery, TLC

(* One of a kill, a clock that is set back, a new authorization, a time     *)
(* long enough for a reminder, and more notices than a record keeps.        *)
OneOddity ==
    kills + setbacks + (grant - 1)
        + (IF clock >= Cooldown THEN 1 ELSE 0)
        + (IF Cardinality(raised) > MaxNotices THEN 1 ELSE 0) <= 1

(* Conditions and desktops are alike; all properties are about safety. *)
Symmetry == Permutations(Keys) \cup Permutations(Desktops)
=============================================================================
