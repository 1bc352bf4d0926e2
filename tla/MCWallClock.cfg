SPECIFICATION WallSpec
CONSTANTS
    LastDay = 24854
    Times = {0, 59, 3600, 43199, 86399}
    CONFIG_TZ <- MCTz
    BootDays = {12417, 12476}
    BootTimes = {43198, 46798, 57598, 86398}
    MaxUpdates = 3
    Task = {t1, t2}
    USECS_PER_SEC = 6
    CONFIG_HZ = 3
    MaxTicks = 4
INVARIANTS
    DatesCorrect
    ReadsRealTime
    ClocksExact
    CalendarShown
PROPERTIES
    ReadingsAscend
    DateShown
CHECK_DEADLOCK FALSE
