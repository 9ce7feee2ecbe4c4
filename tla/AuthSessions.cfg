\* Three requests, every mixture of operations, an earlier login and an earlier
\* reset link, failing statements and lost answers.
CONSTANTS
    Requests = {r1, r2, r3}
    Earlier = {e1}
    Passwords = {p1, p2}
    NoPassword = NoPassword
    DbFaults = TRUE
SPECIFICATION Spec
SYMMETRY Symmetry
CHECK_DEADLOCK FALSE
INVARIANTS
    TypeOK
    RowsBelongToAccount
    GrantsHold
    LocksAndRowsAgree
    OneSuccessor
    ResetTokenUsedOnce
    NobodyStuck
PROPERTIES
    RevokedIsFinal
