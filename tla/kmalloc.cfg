SPECIFICATION Spec
CONSTANTS
    HDR = 2
    INIT_HEAP_SIZE = 14
    KERNEL_BRK_START = 1
    KERNEL_BRK_END = 24
    Sizes = {0, 1, 2, 3, 5}
INVARIANTS
    HeapTiled
    NoAdjacentFree
    NoWaste
PROPERTY
    ImplementsHeap
