SPECIFICATION CondSpec
CONSTANTS
    Thread = {0, 1}
    Idle = Idle
    NULL = NULL
    MaxPrio = 1
    TimeSlice = 1
    Priorities = {1}
    Ops = {"lock", "unlock", "timedwait", "signal"}
    m1 = m1
    Mutex = {m1}
    Recursive = {}
    Rank <- OneMutex
    MaxCount = 1
    Cond = {c1}
INVARIANTS
    TimedWaitHasTimer
CHECK_DEADLOCK FALSE
