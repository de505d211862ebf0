SPECIFICATION Spec
CONSTANTS
    TenLen = 2
    HourLen = 4
    DayLen = 8
    MonthLen = 16
    YearLen = 32
    MaxYearLen = 33
    Cycle = 2
    SectorSlots = 4
    LeftOver = {0}
    QueueLen = 1
    StartAt = 93
    LastMinute = 97
    MaxOutage = 1
    MaxRain = 2
    MaxPowerLosses = 1
    MaxSdErrors = 0
    MaxErases = 0
INVARIANTS
    RestoresTheDay
