SPECIFICATION Spec
CONSTANTS
    Cards = {c1}
    Blocks <- OneOrBoth
    Data = {d1, d2}
    Blank = blank
    None = none
    QueueSize = 10
    MaxWrites = 2
    MaxFailures = 1
    MaxLate = 0
    MaxSwaps = 0
    MaxPowerLosses = 0
INVARIANTS
    SuccessIsKept
