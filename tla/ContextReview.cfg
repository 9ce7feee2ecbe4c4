\* One policy from the profile, two in all; two incidents by words, one by
\* embedding, two in all; two findings, one of them confident.
CONSTANTS
    fraud = fraud
    hate = hate
    policy = policy
    requests = requests
    gone = gone
    early = early
    incident = incident
    late = late
    again = again
    made_up = made_up
    Catalogue <- Codes
    Inactive = {requests}
    RuleCodes <- RuleNames
    Profiles <- Named
    Index <- Rows
    Page <- OnArticle
    MaxScore = 2
    ProfileLimit = 1
    PolicyLimit = 2
    KeywordLimit = 2
    VectorLimit = 1
    ContextLimit = 2
    N = 2
    High <- SecondHigh
    EvidenceLimit = 1
    Invented = {made_up}
    MaxReviews = 3
    MaxAdded = 1
    Answers <- AllAnswers
    Broken = Broken
    NotADict = NotADict
SPECIFICATION Spec
CHECK_DEADLOCK FALSE
INVARIANTS
    TypeOK
    ProfileThenBestMatches
    NearestArticlesKept
    FirstVerdictDecides
    VoidChangesNothing
    CitesOnlyOffered
