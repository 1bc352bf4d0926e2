SPECIFICATION SchedSpec
CONSTANTS
    Thread = {0, 1}
    Idle = Idle
    NULL = NULL
    MaxPrio = 1
    TimeSlice = 2
    Priorities = {1}
    Ops = {"sleep"}
INVARIANT
    SleeperHasTimer
