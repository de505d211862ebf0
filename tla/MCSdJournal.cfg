SPECIFICATION Spec
CONSTANTS
    Cards = {c1, c2}
    Blocks <- OneOrBoth
    Data = {d1, d2}
    Blank = blank
    None = none
    QueueSize = 1
    MaxWrites = 2
    MaxFailures = 1
    MaxLate = 1
    MaxSwaps = 1
    MaxPowerLosses = 1
INVARIANTS
    TypeOK
    WriteAhead
    Acknowledged
    TornIsJournalled

