\* The reference review drops a high-confidence finding.
CONSTANTS
    s1 = s1  s2 = s2
    u1 = u1  u2 = u2
    r1 = r1  r2 = r2
    Submissions = {s1}
    Users = {u1}
    Owner <- SharedOwner
    Reviewers = {}
    TextPii = {"phone"}
    ImagePii = {"card"}
    GptFindings = {"abuse"}
    NewFindings = {"context"}
    HighConfidence = {"abuse"}
    Unstorable = {}
    MaxCrashes = 0
    DbFaults = FALSE
    NoRow = NoRow
    NoPatch = NoPatch
SPECIFICATION Spec
CHECK_DEADLOCK FALSE
INVARIANTS
    HighConfidenceNotRechecked
