SPECIFICATION StartFairSpec
CONSTANTS
    Window = 1
    Lifetimes = {2, 3}
    MaxDays = 5
    MaxBoots = 4
    None = None
    Torn = Torn
    Vehicles = {v1, v2}
    ConfigTries = 2
    InfoTries = 2
    MaxPairings = 1
    MaxDeletes = 1
INVARIANTS
    MismatchIsDue
    WeekOfService
    KnownVehicleRuns
PROPERTIES
    Spec
    StartEnds
CHECK_DEADLOCK FALSE
