SPECIFICATION Spec
CONSTANTS
    NTasks = 4
    PREEMPT_TICK_COUNT = 1
    FirstPid = 2
    PidMod = 100
    PidBound = 5
    Statuses = {0}
    TTY_BUF_SIZE = 1
    FirstProgram = "any"
INVARIANTS
    TypeOK
    RingOK
    RunQueueExact
    SleeperHasWaker
    FreshSlice
    PidsUnique
    SwitchPanicOnlyWhenIdle
PROPERTY ImplementsRunQueue
