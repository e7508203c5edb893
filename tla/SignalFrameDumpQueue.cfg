SPECIFICATION FairSpec
CONSTANTS
    NumPids = 1
    MaxCycles = 3
    MaxLoops = 1
    MaxBoots = 2
INVARIANTS
    QueueBounded
    FramesAccountedFor
PROPERTIES
    CapturingEnds
CHECK_DEADLOCK FALSE
