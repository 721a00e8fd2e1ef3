CONSTANTS
    HDR = 16
    ALIGN = 8
    WORD = 4096
    HeapStart = 64
    HeapSize = 96
    Sizes <- MCSizes
    Nums <- MCNums
SPECIFICATION FairSpec
INVARIANTS Tiled NoAdjacentFree LiveExact WalkSound UsedExact FreedStaysFree
PROPERTIES HeldBlocksStay CallsReturn ImplementsHeap
