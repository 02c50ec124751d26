SPECIFICATION Spec
CONSTANTS
    Keyword <- MCKeyword
    TypeBits = 8
    OffsetBits = 24
    LenBits = 16
    BATCH = 2
    NetSize = 2
    RingSize = 2
    Environment <- BlankPage
    BlankEvent = {2}
    Remains <- LineEnd
    Traffic <- MCTraffic
INVARIANTS OnlyPublished
CHECK_DEADLOCK FALSE
