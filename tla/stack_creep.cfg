SPECIFICATION Spec
CONSTANTS
    NTasks = 2
    KERNEL_STACK_WORDS = 1024
    MaxDepth = 1200
    Versions = {0}
INVARIANTS
    StackInside
CHECK_DEADLOCK FALSE
