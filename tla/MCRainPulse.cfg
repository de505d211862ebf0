SPECIFICATION Spec
CONSTANTS
    EventQueueLen = 2
    PulseMod = 64
    CurrentMod = 8
    TipUnit = 5
    TickMod = 3
    Debounce = 2
    MaxPulses = 3
    MaxFaults = 1
INVARIANTS
    TypeOK
    Conservation
    NoUnderflow
PROPERTIES
    Debounced
    LedgerSpec
    EventuallyCounted
