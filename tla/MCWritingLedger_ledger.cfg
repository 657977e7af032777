SPECIFICATION LedgerSpec
CONSTANTS
    Workers = {w1, w2}
    Tokens = {t1}
    RequestIds = {r1, r2}
    Payloads = {p1, p2}
    LastTime = 2
    Times <- Clock
    Days <- AllDays
    UtcDay <- DayOf
    Reservation <- Neurons
    DailyLimit = 20
    DedupTtl = 2
    AuthorizationTtl = 2
    MaxRequests = 3
    NoRequest = NoRequest
SYMMETRY Interchangeable
CHECK_DEADLOCK FALSE
INVARIANTS LedgerTypeOK PaidWithinLimit WorkIsExclusive OneAnswer
           SpellingNeedsItsInk
PROPERTIES SettledStands RevokedStaysOut
