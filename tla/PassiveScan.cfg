SPECIFICATION ScanFairSpec
CONSTANTS
    Scans = {s1, s2}
    Types = {A}
    Cycles = 3
    Up = Up
    Off = Off
    None = None
INVARIANTS
    DisturbedByLate
    AnsweredOnce
PROPERTIES
    ScanReturns
CHECK_DEADLOCK FALSE
