CONSTANTS
    Signals <- MCSignals
    MaxH = 2
    MaxV = 2
    KnowsDdc5v = TRUE
    NudgeMax = 1
    MaxChanges = 1
SPECIFICATION Spec
INVARIANT FitsBuffers
