CONSTANTS
    Main = Main
    w1 = w1
    Workers = {w1}
    Pages = {p1, p2}
    Owner <- MCOwner
    MaxCrashes = 2
SPECIFICATION Spec
INVARIANTS
    TypeOK
    BytesSurvive
    RowsStayVisible
    LeftoversAreSafe
CHECK_DEADLOCK FALSE
