SPECIFICATION MutexSpec
CONSTANTS
    Thread = {0, 1, 2}
    Idle = Idle
    NULL = NULL
    MaxPrio = 1
    TimeSlice = 1
    Priorities = {1}
    Ops = {"lock", "unlock", "sleep"}
    m1 = m1
    m2 = m2
    Mutex = {m1, m2}
    Recursive = {}
    Rank <- TwoMutexes
    MaxCount = 1
INVARIANT
    NoNullOwner
CHECK_DEADLOCK FALSE
