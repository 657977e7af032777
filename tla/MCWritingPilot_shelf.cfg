\* One page, two records kept of three made, handwriting and typing.
CONSTANTS
    p1 = p1
    p2 = p2
    Pages = {p1}
    Inks = {"ink"}
    Words = {"typed"}
    RecordLimit = 2
    MaxRecords = 3
    MaxRevision = 1
    MaxRequests = 1
    Blank = "blank"
    NoText = NoText
    NoRecord = NoRecord
    NoCheck = NoCheck
SPECIFICATION PilotSpec
INVARIANTS StoreStaysReadable
PROPERTIES AwaitingWorkKept

