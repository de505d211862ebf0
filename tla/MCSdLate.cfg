SPECIFICATION Spec
CONSTANTS
    Cards = {c1}
    Blocks <- SingleSectors
    Data = {d1, d2}
    Blank = blank
    None = none
    QueueSize = 10
    MaxWrites = 3
    MaxFailures = 0
    MaxLate = 1
    MaxSwaps = 0
    MaxPowerLosses = 0
PROPERTIES
    WorksAfterRemount
