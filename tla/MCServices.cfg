SPECIFICATION ServSpec
CONSTANTS
    CPU = {c1, c2}
    MAX_TIMER = 3
    Interval = {1, 2}
    MaxTime = 2
    U64 = 16
    NULL = NULL
    Thread = {t1, t2}
    NUM_OF_PID = 3
    NUM_OF_MSGDSC = 2
    NUM_OF_MSGDSCRECV = 1
    Name = {n1}
    MaxNew = 2
    MaxCalls = 2
    MaxDepth = 2
    Output = {65, 66}
    Input = {97, 98}
    EOT = 266
    MaxSends = 3
    SIZE = 4
    W = 3
    Area = {1, 2}
    MaxSaid = 9
    MaxResets = 2
INVARIANTS ListsAgree InsideLiving NamesLive InStep LogIsTail
PROPERTIES Fires
CHECK_DEADLOCK FALSE
