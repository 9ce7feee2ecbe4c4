\* The daily job beside one request, while the site changes.
CONSTANTS
    Years = {2025, 2026}
    CurrentYear = 2026
    Articles = {a1, a2}
    Titles = {t1, t2}
    Requests = {r1}
    BatchSize = 1
    MaxEdits = 1
    MaxCrashes = 0
    Absent = Absent
    NoEntry = NoEntry
    NoPage = NoPage
SPECIFICATION FairSpec
CHECK_DEADLOCK FALSE
PROPERTIES
    JobEnds
