CONSTANTS
    PAGE_SIZE = 16
    KB = 16
    WORD = 256
    LOW_PAGES = 2
    KERNEL_START = 2
    KERNEL_PAGES = 2
    BITMAP_START = 4
    MemKb <- MCMemKb
    Counts <- MCCounts
SPECIFICATION Spec
INVARIANTS CountExact Ownership
PROPERTY ImplementsFramePool
