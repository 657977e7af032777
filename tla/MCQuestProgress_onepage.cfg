SPECIFICATION Spec
CONSTANTS
    NQ = 1
    Answer = {right, wrong}
    Correct = {right}
    Help = {}
    Practice = {p1}
    s1 = s1
    s2 = s2
    s3 = s3
    SessionId = {s1, s2, s3}
    KindOf <- FluencyRetiredWordStudy
    MaxRev = 2
    NoAnswer = NoAnswer
    NoDraft = NoDraft
    NoSession = NoSession
    Tab = {t1}
    MaxAttempts = 1
    WordStudyOpens = 1
    Declined = {}
    MaxForeign = 0
    LegacySeed = TRUE
    Empty = Empty
    Unreadable = Unreadable
    NoJob = NoJob
    NoSnapshot = NoSnapshot
\* Every session may be over.
CHECK_DEADLOCK FALSE
PROPERTIES SessionNeverLost RewardMatchesAnswers KeepsLedger
