SPECIFICATION Spec
CONSTANTS
    NTasks = 3
    PREEMPT_TICK_COUNT = 1
    FirstPid = 2
    PidMod = 100
    PidBound = 6
    Statuses = {0}
    TTY_BUF_SIZE = 1
    FirstProgram = "any"
INVARIANT WaiterHasNoZombie
