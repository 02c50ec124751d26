SPECIFICATION Spec
CONSTANTS
    Block = {b1, b2}
    PAGESIZE = 4
    MaxLen = 4
    numkeeps = 1
    Keep = {0, 1}
CHECK_DEADLOCK FALSE
INVARIANT GivenBackUnused
