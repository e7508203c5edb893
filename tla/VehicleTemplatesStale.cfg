SPECIFICATION Spec
CONSTANTS
    Configs <- MCConfigs
    NoUrl = "none"
    None = None
    Torn = Torn
    MaxBoots = 3
    MaxChanges = 1
    MaxDeletes = 0
INVARIANTS
    ReturnsLatest
CHECK_DEADLOCK FALSE
