--------------------------------- MODULE Pmm ---------------------------------
(***************************************************************************)
(* The physical memory manager, kernel/pmm.c: one bit per 4 KB page, a     *)
(* count of free pages beside it, and frames named by their address.       *)
(* Sizes and addresses are constants so that the layout can be scaled.     *)
(***************************************************************************)
EXTENDS Integers, FiniteSets

CONSTANTS
    PAGE_SIZE,      \* bytes in a page (4096)
    KB,             \* bytes in a kilobyte (1024)
    WORD,           \* 2^32: uint32_t arithmetic is modulo WORD
    LOW_PAGES,      \* pages below 1 MB (256)
    KERNEL_START,   \* first page of the kernel (256)
    KERNEL_PAGES,   \* pages of the kernel (256)
    BITMAP_START,   \* first page of the bitmap (0x200000 / PAGE_SIZE)
    MemKb,          \* the memory sizes the boot loader may report, in KB
    Counts          \* the counts alloc_frames is called with

NULL == 0

VARIABLES
    bitmap,         \* the pages whose bit is set
    total_pages,
    free_pages,
    initialized,
    held,           \* ghost: frame addresses handed out and not yet freed
    reply           \* the last call: frames asked for, address returned

pmmVars == <<bitmap, total_pages, free_pages, initialized, held, reply>>

-----------------------------------------------------------------------------
\* The number of pages in kb kilobytes, with the wrap of a 32-bit product.
Pages(kb) == ((kb * KB) % WORD) \div PAGE_SIZE

\* The bitmap's length in 32-bit words, a multiple of four of them.
BitmapWords(pages) == ((((pages + 31) \div 32) + 3) \div 4) * 4

\* Pages that hold the bitmap: four bytes a word, rounded up to whole pages.
BitmapPages(pages) == (BitmapWords(pages) * 4 + PAGE_SIZE - 1) \div PAGE_SIZE

LowRegion == 0..(LOW_PAGES - 1)
KernelRegion == KERNEL_START..(KERNEL_START + KERNEL_PAGES - 1)
BitmapRegion(pages) == BITMAP_START..(BITMAP_START + BitmapPages(pages) - 1)

\* Mutant: the pages under the bitmap itself are forgotten.
ReservedWithoutBitmap(pages) == LowRegion \cup KernelRegion

\* The pages init_pmm withdraws from use.
Reserved(pages) == LowRegion \cup BitmapRegion(pages) \cup KernelRegion

FrameAddr(i) == i * PAGE_SIZE
PageIndex(frame) == frame \div PAGE_SIZE

\* The pages alloc_frame's scan may still return.
ClearPages == (0..(total_pages - 1)) \ bitmap

\* The page where the scan for a clear bit stops, as a set of at most one page.
FirstClear == {i \in ClearPages : \A j \in 0..(i - 1) : j \in bitmap}

ASSUME SizeAssumption ==
    /\ PAGE_SIZE \in Nat /\ PAGE_SIZE > 0
    /\ WORD \in Nat /\ WORD > 0
    /\ KB \in Nat /\ LOW_PAGES \in Nat /\ BITMAP_START \in Nat
    /\ KERNEL_START \in Nat /\ KERNEL_PAGES \in Nat

ASSUME InputAssumption ==
    /\ MemKb \subseteq Nat
    /\ Counts \subseteq Nat
    /\ 0 \in Counts /\ 1 \in Counts

\* The layout pmm.c hard-codes: three disjoint regions, the first at page 0.
ASSUME LayoutAssumption ==
    /\ LOW_PAGES > 0
    /\ LOW_PAGES <= KERNEL_START
    /\ KERNEL_START + KERNEL_PAGES <= BITMAP_START

\* The machine has memory for the kernel and the bitmap, and less than 4 GB.
ASSUME MemoryAssumption ==
    \A kb \in MemKb :
        /\ kb * KB < WORD
        /\ BITMAP_START + BitmapPages(Pages(kb)) <= Pages(kb)

-----------------------------------------------------------------------------
\* pmm is a static object: all zero before init_pmm.
Init ==
    /\ bitmap = {}
    /\ total_pages = 0
    /\ free_pages = 0
    /\ initialized = FALSE
    /\ held = {}
    /\ reply = [asked |-> 0, got |-> NULL]

\* kernel_main calls it once; each bit it sets takes one page off the count.
init_pmm(kb) ==
    /\ ~initialized
    /\ initialized' = TRUE
    /\ total_pages' = Pages(kb)
    /\ bitmap' = Reserved(Pages(kb))
    /\ free_pages' = Pages(kb) - LOW_PAGES - BitmapPages(Pages(kb)) - KERNEL_PAGES
    /\ reply' = [asked |-> 0, got |-> NULL]
    /\ UNCHANGED held

\* Mutants: the scan forgets the count, or forgets to set the bit.
ScanKeepsCount(n) ==
    IF initialized /\ free_pages # 0 /\ ClearPages # {}
    THEN \E i \in FirstClear :
         /\ bitmap' = bitmap \cup {i}
         /\ held' = held \cup {FrameAddr(i)}
         /\ reply' = [asked |-> n, got |-> FrameAddr(i)]
         /\ UNCHANGED <<total_pages, free_pages, initialized>>
    ELSE /\ reply' = [asked |-> n, got |-> NULL]
         /\ UNCHANGED <<bitmap, total_pages, free_pages, initialized, held>>

\* The effect of one successful or failed scan, for a caller that asked for n.
Scan(n) ==
    IF initialized /\ free_pages # 0 /\ ClearPages # {}
    THEN \E i \in FirstClear :
         /\ bitmap' = bitmap \cup {i}
         /\ free_pages' = free_pages - 1
         /\ held' = held \cup {FrameAddr(i)}
         /\ reply' = [asked |-> n, got |-> FrameAddr(i)]
         /\ UNCHANGED <<total_pages, initialized>>
    ELSE /\ reply' = [asked |-> n, got |-> NULL]
         /\ UNCHANGED <<bitmap, total_pages, free_pages, initialized, held>>

alloc_frame == Scan(1)

\* Mutant: the last frames cannot be asked for.
AllocFramesStrict(count) ==
    IF count = 0 \/ count >= free_pages
    THEN /\ reply' = [asked |-> count, got |-> NULL]
         /\ UNCHANGED <<bitmap, total_pages, free_pages, initialized, held>>
    ELSE Scan(count)

\* Whatever the count, at most one frame is allocated.
alloc_frames(count) ==
    IF count = 0 \/ count > free_pages
    THEN /\ reply' = [asked |-> count, got |-> NULL]
         /\ UNCHANGED <<bitmap, total_pages, free_pages, initialized, held>>
    ELSE Scan(count)

\* A frame that free_frame turns away: before boot, null, out of range, clear.
Rejected(frame) ==
    \/ ~initialized
    \/ frame = NULL
    \/ PageIndex(frame) >= total_pages
    \/ PageIndex(frame) \notin bitmap

free_frame(frame) ==
    /\ reply' = [asked |-> 0, got |-> NULL]
    /\ IF Rejected(frame)
       THEN UNCHANGED <<bitmap, total_pages, free_pages, initialized, held>>
       ELSE /\ bitmap' = bitmap \ {PageIndex(frame)}
            /\ free_pages' = free_pages + 1
            /\ held' = held \ {frame}
            /\ UNCHANGED <<total_pages, initialized>>

\* What a caller may pass to free_frame: a frame it holds, the null address,
\* an address past the end of memory, or a frame it has already given back.
Freeable ==
    held \cup {NULL, FrameAddr(total_pages)} \cup {FrameAddr(i) : i \in ClearPages}

Next ==
    \/ \E kb \in MemKb : init_pmm(kb)
    \/ alloc_frame
    \/ \E count \in Counts : alloc_frames(count)
    \/ \E frame \in Freeable : free_frame(frame)

Spec == Init /\ [][Next]_pmmVars

-----------------------------------------------------------------------------
TypeOK ==
    /\ total_pages \in Nat
    /\ bitmap \subseteq 0..(total_pages - 1)
    /\ free_pages \in 0..total_pages
    /\ initialized \in BOOLEAN
    /\ held \subseteq Nat
    /\ reply \in [asked : Counts, got : Nat]

\* The count that alloc_frame trusts (pmm.c:85) is the number of clear bits, so
\* a frame is refused exactly when none is left, whatever was freed twice.
CountExact == free_pages = Cardinality(ClearPages)

\* Every set bit is either reserved at boot or held by exactly one caller: no
\* frame leaks, and no caller is ever given the low memory, the kernel or the
\* bitmap's own pages.
Ownership ==
    /\ bitmap = (IF initialized THEN Reserved(total_pages) ELSE {})
                  \cup {PageIndex(f) : f \in held}
    /\ \A f \in held :
          /\ f = FrameAddr(PageIndex(f))
          /\ PageIndex(f) \notin LowRegion \cup KernelRegion \cup BitmapRegion(total_pages)

\* A step never hands out a frame that was held before it: alloc_frame returns
\* a fresh frame or NULL (pmm.c:92-101).
FreshFrame ==
    [][reply'.got # NULL => reply'.got \notin held /\ reply'.got \in held']_pmmVars

\* pmm.c implements the frame pool, but for the requests of several frames that
\* alloc_frames grants: the pool promises as many frames in a row, as pmm.c:132
\* says, and pmm.c:140 gives one.
Pool == INSTANCE FramePool WITH
            FRAME <- PAGE_SIZE,
            avail <- {FrameAddr(i) : i \in ClearPages},
            out <- held,
            filled <- initialized
SeveralGranted == reply'.asked > 1 /\ reply'.got # NULL
ImplementsFramePool == Pool!Init /\ [][SeveralGranted \/ Pool!Next]_(Pool!vars)
==============================================================================
