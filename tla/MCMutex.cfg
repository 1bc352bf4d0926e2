SPECIFICATION MutexSpec
CONSTANTS
    Thread = {0, 1, 2}
    Idle = Idle
    NULL = NULL
    MaxPrio = 2
    TimeSlice = 1
    Priorities = {1, 2}
    Ops = {"lock", "trylock", "unlock", "setprio"}
    m1 = m1
    m2 = m2
    Mutex = {m1, m2}
    Recursive = {m1}
    Rank <- TwoMutexes
    MaxCount = 2
INVARIANTS
    HighestOwnerRuns
    OwnershipOK
    NoLostWakeup
    InheritanceExact
    RunQueueOK
    WalkEnds
PROPERTIES
    ImplementsLock
CHECK_DEADLOCK FALSE
