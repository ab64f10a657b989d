CONSTANTS
    Readers = {r1, r2}
    Pipelined = TRUE
    JpegSlots = 3
    H264Slots = 2
    YuvBufs = 2
SPECIFICATION FairSpec
INVARIANTS HeldIntact WritesLive RefsCounted YuvOnce FrontTagged
PROPERTY SwitchEnds
