\* Two submissions of one account, crashes and failing statements.
CONSTANTS
    s1 = s1  s2 = s2
    u1 = u1  u2 = u2
    r1 = r1  r2 = r2
    Submissions = {s1, s2}
    Users = {u1}
    Owner <- SharedOwner
    Reviewers = {}
    TextPii = {"phone"}
    ImagePii = {}
    GptFindings = {"abuse"}
    NewFindings = {}
    HighConfidence = {}
    Unstorable = {"abuse"}
    MaxCrashes = 1
    DbFaults = TRUE
    NoRow = NoRow
    NoPatch = NoPatch
SPECIFICATION Spec
SYMMETRY Symmetry
CHECK_DEADLOCK FALSE
INVARIANTS
    TypeOK
    SnapshotFresh
    WorkerAndRowsAgree
    ResultsOnlyWhenCompleted
    ProgressTellsPhase
    StrandedOnlyByFault
PROPERTIES
    DecidedOnce
    LifecycleSpec
