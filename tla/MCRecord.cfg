CONSTANTS
    RingFrames = 2
    Pre = 2
    Post = 1
    EventMax = 2
    MaxSeq = 4
SPECIFICATION Spec
INVARIANT FeedServes
PROPERTY FilesPlay
CHECK_DEADLOCK FALSE
