SPECIFICATION FairJourney
CONSTANTS
    NQ = 2
    Answer = {right}
    Correct = {right}
    Help = {}
    Practice = {}
    s1 = s1
    SessionId = {s1}
    KindOf <- OneReading
    MaxRev = 7
    NoAnswer = NoAnswer
    NoDraft = NoDraft
    NoSession = NoSession
    Tab = {t1}
    MaxAttempts = 1
    WordStudyOpens = 0
    Declined = {}
    MaxForeign = 1
    LegacySeed = FALSE
    Empty = Empty
    Unreadable = Unreadable
    NoJob = NoJob
    NoSnapshot = NoSnapshot
    WritingEnabled = TRUE
    MaxVisits = 1
    MaxFaults = 1
    MaxLaunches = 2
\* Every session may be over.
CHECK_DEADLOCK FALSE
INVARIANT NeverStranded
PROPERTIES SessionsFinish LoadingEnds
