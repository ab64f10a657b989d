CONSTANTS
    FbCount = 2
    EarlyEncode = FALSE
    YuvSwap = TRUE
    SemMax = 2
    SameCore = FALSE
SPECIFICATION FairSpec
INVARIANT WholeFrame
PROPERTY LoopTurns
