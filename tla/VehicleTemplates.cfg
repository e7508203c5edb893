SPECIFICATION Spec
CONSTANTS
    Configs <- MCConfigs
    NoUrl = "none"
    None = None
    Torn = Torn
    MaxBoots = 3
    MaxChanges = 1
    MaxDeletes = 1
INVARIANTS
    UpdateRunsLatest
    SettledSurvives
CHECK_DEADLOCK FALSE
