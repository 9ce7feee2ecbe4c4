\* One upload, one withdrawal, nothing fails.
CONSTANTS
    a = a  b = b
    w1 = w1  w2 = w2
    Uploads = {a}
    Withdrawals = {w1}
    MaxCrashes = 0
    StorageFaults = FALSE
    DbFaults = FALSE
SPECIFICATION Spec
CHECK_DEADLOCK FALSE
INVARIANT WithdrawalSchedulesObjects
