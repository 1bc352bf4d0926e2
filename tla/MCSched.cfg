SPECIFICATION FairSchedSpec
CONSTANTS
    Thread = {0, 1}
    Idle = Idle
    NULL = NULL
    MaxPrio = 2
    TimeSlice = 2
    Priorities = {1, 2}
    Ops = {"yield", "sleep"}
INVARIANTS
    SchedTypeOK
    HighestRuns
    SliceLeft
PROPERTIES
    OrderKept
    RoundRobin
    SleepReturns
