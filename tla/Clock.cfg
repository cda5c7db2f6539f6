SPECIFICATION Spec
CONSTANTS
    NSEC_PER_SEC = 8
    NSEC_PER_MSEC = 2
    MSEC_PER_SEC = 4
    MAX_NOW = 12
    USECS_PER_SEC = 8
    USECS_PER_MSEC = 2
    NSEC_PER_USEC = 1
    GUINT_SIZE = 24
    Intervals = {1, 5, 13}
    Seconds = {7}
    Granularities = {0, 3}
    Threads = {t1, t2}
    INT_SIZE = 32
    Waits <- MCWaits
    Deltas <- MCDeltas
    NoThread = NoThread
INVARIANTS
    LoopDoesNotOversleep
    WaitsAreKept
PROPERTIES
    TimerIsNotEarly
CHECK_DEADLOCK FALSE
