SPECIFICATION FairSpec
CONSTANTS
    Keyword <- MCKeyword
    TypeBits = 8
    OffsetBits = 24
    LenBits = 16
    BATCH = 2
    NetSize = 2
    RingSize = 2
    Environment <- Weather
    BlankEvent = {}
    Remains <- Used
    Traffic <- MCTraffic
INVARIANTS OnlyPublished TextHasDialog
PROPERTIES NeverBack EveryMessageShown LatestShown
CHECK_DEADLOCK FALSE
