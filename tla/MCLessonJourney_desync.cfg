SPECIFICATION JourneySpec
CONSTANTS
    NQ = 2
    Answer = {right}
    Correct = {right}
    Help = {}
    Practice = {}
    s1 = s1
    SessionId = {s1}
    KindOf <- OneReading
    MaxRev = 6
    NoAnswer = NoAnswer
    NoDraft = NoDraft
    NoSession = NoSession
    Tab = {t1}
    MaxAttempts = 1
    WordStudyOpens = 0
    Declined = {}
    MaxForeign = 0
    LegacySeed = FALSE
    Empty = Empty
    Unreadable = Unreadable
    NoJob = NoJob
    NoSnapshot = NoSnapshot
    WritingEnabled = FALSE
    MaxVisits = 0
    MaxFaults = 2
    MaxLaunches = 1
\* Every session may be over.
CHECK_DEADLOCK FALSE
INVARIANT FeedbackIsSaved
