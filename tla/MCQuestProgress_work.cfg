SPECIFICATION Spec
CONSTANTS
    NQ = 2
    Answer = {right, wrong}
    Correct = {right}
    Help = {}
    Practice = {}
    s1 = s1
    s2 = s2
    s3 = s3
    SessionId = {s1, s2}
    KindOf <- ReadingAndWordStudy
    MaxRev = 3
    NoAnswer = NoAnswer
    NoDraft = NoDraft
    NoSession = NoSession
    Tab = {t1, t2}
    MaxAttempts = 1
    WordStudyOpens = 1
    Declined = {}
    MaxForeign = 1
    LegacySeed = FALSE
    Empty = Empty
    Unreadable = Unreadable
    NoJob = NoJob
    NoSnapshot = NoSnapshot
\* Every session may be over.
CHECK_DEADLOCK FALSE
SYMMETRY TabSymmetry
INVARIANTS TypeOK CreditedOnce DeferredSlotFree
PROPERTIES AcceptedWorkKept SessionNeverLost RewardMatchesAnswers UnreadableKept KeepsLedger
