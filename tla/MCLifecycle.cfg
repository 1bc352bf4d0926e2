SPECIFICATION LifecycleSpec
CONSTANTS
    Thread = {0, 1, 2}
    Idle = Idle
    NULL = NULL
    MaxPrio = 2
    TimeSlice = 1
    Priorities = {1, 2}
    Ops = {"create", "join", "detach", "exit"}
    MaxGen = 2
INVARIANTS
    JoinsItsThread
    NoLostJoiner
    NoZombie
    FreeSlotUnused
    WaitersAcyclic
    ReadyIsQueued
