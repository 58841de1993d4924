CONSTANTS
    Main = Main
    w1 = w1
    Workers = {w1}
    Pages = {p1, p2}
    Owner <- MCOwner
    MaxCrashes = 1
SPECIFICATION Spec
INVARIANTS
    PromotionsFinish
CHECK_DEADLOCK FALSE
