\* One page, one record: a page that goes while it waits for an answer.
CONSTANTS
    p1 = p1
    p2 = p2
    Pages = {p1}
    Inks = {"ink"}
    Words = {}
    RecordLimit = 1
    MaxRecords = 1
    MaxRevision = 1
    MaxRequests = 1
    Blank = "blank"
    NoText = NoText
    NoRecord = NoRecord
    NoCheck = NoCheck
SPECIFICATION FairPilotSpec
PROPERTIES CheckEnds
