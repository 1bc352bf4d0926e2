SPECIFICATION HeapSpec
CONSTANTS
    Timer = {t1, t2, t3, t4, t5, t6}
    NULL = NULL
    MaxNum = 6
    Half = 6
    Delay = {0, 1, 3}
    First = 11
    MaxTicks = 3
    MaxLag = 1
    MaxSetting = 2
SYMMETRY Permuted
INVARIANTS
    IndexOK
    HeapOrdered
PROPERTIES
    ImplementsTimers
