SPECIFICATION FairSpec
CONSTANTS
    Signals <- MCSignals
    Values = {v1, v2}
    Interval <- MCInterval
    MaxPidFailures = 1
    Never = Never
    Requests <- MCRequests
    ResponseHeader <- MCResponseHeader
    Pid <- MCPid
    Dbc <- MCDbc
    Broadcasts <- MCBroadcasts
    None = None
    SocketSize = 2
    MaxTime = 1
    MaxFrames = 3
    MaxBoots = 2
INVARIANTS
    TypeOK
    DecodedIsQueued
    PassiveWaitsOnce
PROPERTIES
    ReceivedIsRead
CHECK_DEADLOCK FALSE
