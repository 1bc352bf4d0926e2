SPECIFICATION KeyboardSpec
CONSTANTS
    Thread = {0, 1}
    Idle = Idle
    NULL = NULL
    MaxPrio = 1
    TimeSlice = 1
    Priorities = {1}
    Ops = {"getchar"}
    Keys = {"l_ctrl", "r_ctrl", "pause", "letter", "fn", "page", "kp_home", "kp_slash",
            "num_lock", "unknown"}
    Readers = {0}
    Size = 5
INVARIANTS
    NoSleepOnData
    ModifiersMatch
PROPERTIES
    ImplementsInput
