SPECIFICATION DecodingSpec
CONSTANTS
    Setups <- MCSetups
    Data <- MCData
    Pads <- MCPads
    Broadcasts <- MCBroadcasts
    VINs <- MCVINs
    VinQueries <- MCVinQueries
INVARIANTS
    NativeIsReference
    AutoPiIsReference
    BroadcastIsReference
    PanicsKnown
    VinExtracted
CHECK_DEADLOCK FALSE
