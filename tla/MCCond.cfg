SPECIFICATION CondSpec
CONSTANTS
    Thread = {0, 1, 2}
    Idle = Idle
    NULL = NULL
    MaxPrio = 2
    TimeSlice = 1
    Priorities = {1, 2}
    Ops = {"lock", "unlock", "wait", "timedwait", "signal", "broadcast"}
    m1 = m1
    Mutex = {m1}
    Recursive = {m1}
    Rank <- OneMutex
    MaxCount = 2
    Cond = {c1}
INVARIANTS
    NoStaleEntry
    NoLostSignal
PROPERTIES
    ImplementsCond
CHECK_DEADLOCK FALSE
