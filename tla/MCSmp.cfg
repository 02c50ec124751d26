SPECIFICATION SmpSpec
CONSTANTS
    CPU = {c1, c2, c3}
    TwoCPU = {c1, c2}
    W = 2
    SyncW = 1
    NULL = NULL
    MaxCalls = 4
    MaxPanics = 2
    LIMIT = 2
    NONE = NONE
    MaxTsc = 2
    MaxTime = 6
    MaxSleeps = 1
CHECK_DEADLOCK FALSE
INVARIANTS MutualExclusion LocksExclude NobodyLeavesEarly OneMessage
PROPERTIES FirstComeFirstServed TicketIsServed WaitersGetIn EveryCallReturns EverybodyStops TimeRight
