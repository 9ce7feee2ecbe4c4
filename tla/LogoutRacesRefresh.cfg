\* A logout that arrives while a refresh holds its session.
CONSTANTS
    Requests = {r1, r2, r3}
    Earlier = {e1}
    Passwords = {p1, p2}
    NoPassword = NoPassword
    DbFaults = FALSE
SPECIFICATION Spec
SYMMETRY Symmetry
CHECK_DEADLOCK FALSE
INVARIANTS
    LogoutEndsSession
