\* One submission, every kind of finding, two concurrent finding updates.
CONSTANTS
    s1 = s1  s2 = s2
    u1 = u1  u2 = u2
    r1 = r1  r2 = r2
    Submissions = {s1}
    Users = {u1}
    Owner <- SharedOwner
    Reviewers = {r1, r2}
    TextPii = {"phone"}
    ImagePii = {"card"}
    GptFindings = {"abuse"}
    NewFindings = {"context"}
    HighConfidence = {"abuse"}
    Unstorable = {"context"}
    MaxCrashes = 1
    DbFaults = TRUE
    NoRow = NoRow
    NoPatch = NoPatch
SPECIFICATION FairSpec
CHECK_DEADLOCK FALSE
INVARIANTS
    PiiNeverLost
    ScoredFailsOnlyRefused
PROPERTIES
    ProgressNeverFalls
    TriageKept
    WithdrawnStaysGone
    EveryRunSettles
