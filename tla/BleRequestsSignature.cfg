SPECIFICATION Spec
CONSTANTS
    MaxWrites = 4
    MaxInFlight = 2
    Readers = {r1, r2}
    MaxFaults = 2
    MaxBoots = 2
INVARIANTS
    SignatureOfLast
CHECK_DEADLOCK FALSE
