SPECIFICATION Spec
CONSTANTS
    NTasks = 2
    KERNEL_STACK_WORDS = 1024
    MaxDepth = 48
    Versions = {0}
INVARIANTS
    InterruptsTransparent
CHECK_DEADLOCK FALSE
