SPECIFICATION Spec
CONSTANTS
    NDIR = 2
    PTRS = 3
    CELLS = 2
    SECTORS = 2
    BufLen = 16
    MaxSize = 82
    MaxSparse = 24
    Disks <- MCDisks
    Paths <- MCPaths
INVARIANTS
    InodeFound
    CopiesInside
    ReadExact
    NameiExactUnlessShadowed
    
PROPERTIES
    ListingEnds
    ProgramLoaded
CHECK_DEADLOCK FALSE
