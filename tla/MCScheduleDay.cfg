SPECIFICATION Spec
CONSTANTS
    MinLen = 3
    HourLen = 6
    DayLen = 12
    MonthLen = 24
    YearLen = 48
    Pieces <- HalfWords
    MaxLag = 2
    StartAt = 40
    LastSecond = 54
    MaxSets = 0
    MaxResets = 0
PROPERTIES
    LastRecordOfDay
