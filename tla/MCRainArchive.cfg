SPECIFICATION Spec
CONSTANTS
    TenLen = 1
    HourLen = 2
    DayLen = 4
    MonthLen = 8
    YearLen = 16
    MaxYearLen = 16
    Cycle = 2
    SectorSlots = 4
    LeftOver = {0, 1}
    QueueLen = 1
    StartAt = 45
    LastMinute = 49
    MaxOutage = 1
    MaxRain = 1
    MaxPowerLosses = 1
    MaxSdErrors = 1
    MaxErases = 1
INVARIANTS
    TypeOK
    Books
PROPERTIES
    ReportsAddUp
    KeptForACycle
