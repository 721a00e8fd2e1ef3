SPECIFICATION Spec
CONSTANTS
    ENTRIES = 12
    DIRS = 4
    Frames <- MCFrames
    Pools <- MCPools
    HeapBase = 36
    HeapPages = 2
    UserBase = 12
    StackPage = 35
    RAMDISK_MAX = 2
    Names = {"init", "shell", "test"}
    Programs = {"a", "b"}
    PagesOf <- MCPagesOf
INVARIANTS NoAlias UnmappedNotCached CodeInUserFrames RamdiskSound LostOnlyWhenOut HeapBacked
