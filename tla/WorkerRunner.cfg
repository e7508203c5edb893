SPECIFICATION FairSpec
CONSTANTS
    Signals <- MCSignals
    Values = {v1}
    Interval <- MCInterval
    MaxPidFailures = 1
    Never = Never
    Requests <- MCRequests
    LocationFields <- MCOneField
    MaxTime = 2
    MaxFixes = 1
    MaxBoots = 2
INVARIANTS
    SamplesAccountedFor
PROPERTIES
    GivenUpStaysQuiet
    SampledOnlyWhenDue
    MailboxSpec
    QueueDrains
    ScanEnds
CHECK_DEADLOCK FALSE
