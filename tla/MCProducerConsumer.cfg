SPECIFICATION FairPCSpec
CONSTANTS
    Thread = {0, 1}
    Idle = Idle
    NULL = NULL
    MaxPrio = 2
    TimeSlice = 1
    Priorities = {1, 2}
    Ops = {"lock", "unlock", "wait", "signal"}
    mutex = mutex
    cond_empty = cond_empty
    cond_full = cond_full
    Mutex = {mutex}
    Recursive = {}
    Rank <- OneMutex
    MaxCount = 1
    Cond = {cond_empty, cond_full}
    Modulus = 4
INVARIANTS
    InStep
PROPERTIES
    KeepsPrinting
