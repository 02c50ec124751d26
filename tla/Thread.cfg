SPECIFICATION FairSpec
CONSTANTS
    CPU = {c1, c2}
    MAXNUM_OF_THREADS = 4
    Stack = {s1, s2}
    CPUNUM_ANY = CPUNUM_ANY
    NULL = NULL
INVARIANTS OnePlace StackSafety NoBadState BootThreadStays
PROPERTIES ReadyThreadRuns
