SPECIFICATION MemSpec
CONSTANTS
    CPU = {c1, c2}
    NUM_OF_PAGES = 8
    NUM_OF_ALLOCSIZE = 3
    Vmm = {0}
    PanicMem = {1}
    SmallPage = {p1, p2, p3}
    SmallSize = {0, 1}
    DataBit <- FewSlots
    HeaderBits <- FewHeaderSlots
    NULL = NULL
SYMMETRY Symmetry
CHECK_DEADLOCK FALSE
INVARIANTS EachPageOnce FieldsAgree SlotsAccounted
