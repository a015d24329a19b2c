CONSTANTS
    n1 = n1
    n2 = n2
    w1 = w1
    w2 = w2
    Nodes = {n1, n2}
    Writers = {w1, w2}
    Defaults <- MCDefaults
    Writes <- MCWrites
    Cast <- MCCast
    CastOnSave <- MCCastOnSave
    DatabaseFails = TRUE
    MaxTime = 1
    MaxEvents = 2
SPECIFICATION SchedulerSpec
CHECK_DEADLOCK FALSE
INVARIANTS
    SchedulerTypeOK
    NothingMissed
    TasksFollowTable
PROPERTIES
    ConvergesUnlessRaced
    LeaderTakesOver
