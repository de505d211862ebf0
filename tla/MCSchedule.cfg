SPECIFICATION Spec
CONSTANTS
    MinLen = 3
    HourLen = 6
    DayLen = 12
    MonthLen = 24
    YearLen = 48
    Pieces <- Bytes
    MaxLag = 2
    StartAt = 43
    LastSecond = 54
    MaxSets = 1
    MaxResets = 1
INVARIANTS
    TypeOK
    Settled
PROPERTIES
    ClosedOnce
    StampsInOrder
    CatchesUp
