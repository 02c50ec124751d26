SPECIFICATION MCSpec
CONSTANTS
    Keyword <- MCKeyword
    TypeBits = 3
    OffsetBits = 4
    LenBits = 16
    MAX_NLETTERS_IN_ROW = 2
    MAX_NROWS_IN_DIALOG = 2
    LETTER_WIDTH = 18
    LETTER_HEIGHT = 36
    OffsX = 26
    OffsY = 154
    PictureWidth = 62
    PictureHeight = 226
    Printable = {32, 49, 50, 65}
    Newline = 10
    OtherByte = {0}
    MaxMsg = 12
    Alphabet = {0, 10, 32, 49, 50, 65}
    MaxMore = 5
INVARIANTS InsideDialog ReadingOrder TextShown ParsesFormat
CHECK_DEADLOCK FALSE
