CONSTANTS
    PAGE_SIZE = 2
    BITS = 2
    KernelStart = 4
    KernelEnd = 7
    Maps <- MCDisjointMaps
SPECIFICATION Spec
INVARIANTS BitmapExact KernelSpared
PROPERTY NeverTwice
