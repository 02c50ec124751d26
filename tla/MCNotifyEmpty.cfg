SPECIFICATION FairSpec
CONSTANTS
    Keyword <- MCKeyword
    TypeBits = 8
    OffsetBits = 24
    LenBits = 16
    BATCH = 2
    NetSize = 2
    RingSize = 2
    Environment <- EmptyFrames
    BlankEvent = {}
    Remains <- Used
    Traffic <- MCTraffic
PROPERTIES EveryMessageShown
CHECK_DEADLOCK FALSE
