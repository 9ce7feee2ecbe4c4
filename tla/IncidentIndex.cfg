\* Two years, two articles; the site changes twice, the process crashes once.
CONSTANTS
    Years = {2025, 2026}
    CurrentYear = 2026
    Articles = {a1, a2}
    Titles = {t1, t2}
    Requests = {r1}
    BatchSize = 2
    MaxEdits = 2
    MaxCrashes = 1
    Absent = Absent
    NoEntry = NoEntry
    NoPage = NoPage
SPECIFICATION Spec
SYMMETRY IndexSymmetry
CHECK_DEADLOCK FALSE
INVARIANTS
    TypeOK
    IndexIsAPage
    NoRefetchAtBoot
    EmbeddingIsOwn
PROPERTIES
    InitialSyncComplete
    EmbeddedOnce
