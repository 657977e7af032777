\* Two pages, one record of handwriting, up to two requests.
CONSTANTS
    p1 = p1
    p2 = p2
    Pages = {p1, p2}
    Inks = {"ink"}
    Words = {}
    RecordLimit = 1
    MaxRecords = 1
    MaxRevision = 2
    MaxRequests = 2
    Blank = "blank"
    NoText = NoText
    NoRecord = NoRecord
    NoCheck = NoCheck
SPECIFICATION FairPilotSpec
INVARIANTS PilotTypeOK NoLateReading FeedbackFitsText CheckIsAwaited
PROPERTY AwaitedCheckEnds
