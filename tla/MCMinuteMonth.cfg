SPECIFICATION Spec
CONSTANTS
    MonthLens <- ThreeMonths
    Cycle = 2
    StartAt = 8
    LastMinute = 30
    MaxLost = 2
INVARIANTS
    FindsTheLastOfTheMonth
