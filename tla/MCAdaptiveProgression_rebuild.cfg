SPECIFICATION TrackSpec
CONSTANTS
    Unit <- Units
    Lesson <- Catalog
    Completion = 4
    Intervals <- TwoIntervals
    MaxFailures = 3
    NoUnit = NoUnit
    NoPlan = NoPlan
    NoContext = NoContext
    NoReview = NoReview
INVARIANT RebuildingGoesOn
