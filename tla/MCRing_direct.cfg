CONSTANTS
    FbCount = 3
    EarlyEncode = TRUE
    YuvSwap = FALSE
    SemMax = 2
    SameCore = TRUE
SPECIFICATION FairSpec
INVARIANT WholeFrame
PROPERTIES NoOverwrite NoTwoDrops GateReopens LoopTurns RingFills
