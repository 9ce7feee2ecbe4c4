\* Two uploads that race two withdrawals; S3, the database and the process
\* may all fail.
CONSTANTS
    a = a  b = b
    w1 = w1  w2 = w2
    Uploads = {a, b}
    Withdrawals = {w1, w2}
    MaxCrashes = 1
    StorageFaults = TRUE
    DbFaults = TRUE
SPECIFICATION FairSpec
CHECK_DEADLOCK FALSE
INVARIANTS
    TypeOK
    StoresAgree
    StoredRowHasObject
    NothingLeftBehind
PROPERTIES
    ScheduledObjectsGo
