SPECIFICATION FairSpec
CONSTANTS
    NTasks = 3
    PREEMPT_TICK_COUNT = 2
    FirstPid = 2
    PidMod = 100
    PidBound = 6
    Statuses = {0}
    TTY_BUF_SIZE = 2
    FirstProgram = "init_fork"
INVARIANTS
    WaiterHasNoZombie
    OnlyUserErrorsHalt
    ReaderHasLine
PROPERTIES
    OwnZombieReaped
    ZombieReaped
    ReaderResumes
