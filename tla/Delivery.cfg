SPECIFICATION DeliveryFairSpec
CONSTANTS
    Threads = {t1, t2, t3}
    threshold = 3
    stopLogAfter = 2
    MaxEvents = 4
    Messages = {m1, m2}
    Limit = 1
INVARIANTS
    StoreBounded
    ThresholdIsSent
    PrintedBounded
PROPERTIES
    KeptUntilDelivered
    OutboxSpec
    StoredIsSent
CHECK_DEADLOCK FALSE
