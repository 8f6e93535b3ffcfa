SPECIFICATION Spec
CONSTANTS
    NTasks = 3
    NFiles = 3
    TASK_FILE_MAX = 3
    Kinds = {"reg", "dir", "fifo", "missing"}
INVARIANTS
    DescriptorsSound
    RefcntExact
CHECK_DEADLOCK FALSE
