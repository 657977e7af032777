SPECIFICATION JourneySpec
CONSTANTS
    NQ = 2
    Answer = {right, wrong}
    Correct = {right}
    Help = {h1}
    Practice = {}
    s1 = s1
    SessionId = {s1}
    KindOf <- OneReading
    MaxRev = 3
    NoAnswer = NoAnswer
    NoDraft = NoDraft
    NoSession = NoSession
    Tab = {t1, t2}
    MaxAttempts = 1
    WordStudyOpens = 0
    Declined = {}
    MaxForeign = 0
    LegacySeed = FALSE
    Empty = Empty
    Unreadable = Unreadable
    NoJob = NoJob
    NoSnapshot = NoSnapshot
    WritingEnabled = FALSE
    MaxVisits = 0
    MaxFaults = 0
    MaxLaunches = 1
\* Every session may be over.
CHECK_DEADLOCK FALSE
SYMMETRY TabSymmetry
INVARIANTS JourneyTypeOK NeverStranded ViewResynchronized FinishedIsAccepted
