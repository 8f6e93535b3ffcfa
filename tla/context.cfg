SPECIFICATION Spec
CONSTANTS
    NTasks = 3
    KERNEL_STACK_WORDS = 1024
    MaxDepth = 48
    Versions = {0, 1}
INVARIANTS
    RegistersKept
    NoForeignRegisters
    StackBalanced
    NoneInService
CHECK_DEADLOCK FALSE
