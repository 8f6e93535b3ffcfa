CONSTANTS
    LEVELS = 3
    FAN = 3
    NFrames = 47
    NTasks = 3
    KernelAreas <- MCKernelAreas
    Images <- MCImages
    StackStart = 15
    StackPages = 1
    Written = {"w"}
SPECIFICATION Spec
INVARIANTS MemoryPrivate FramesExact RightsExact KernelMapped LoadedTablesLive
