-------------------------------- MODULE Kheap --------------------------------
(***************************************************************************)
(* The kernel heap, kernel/kheap.c: a doubly linked list of blocks that    *)
(* tile the arena, first-fit allocation with splitting, and merging of     *)
(* neighbours on free.  A block is named by the address of its header; the *)
(* caller's pointer is HDR bytes further on.                               *)
(*                                                                         *)
(* kmalloc's walk over the list takes one step a block, so that where the  *)
(* walk is, what it has passed and that it ends are all part of the model. *)
(***************************************************************************)
EXTENDS Integers, FiniteSets, FiniteSetsExt

CONSTANTS
    HDR,          \* sizeof(block_header_t): 16
    ALIGN,        \* payloads are rounded up to a multiple of this: 8
    WORD,         \* 2^32: uint32_t arithmetic is modulo WORD
    HeapStart,    \* kernel_heap.start, 0xD0000000
    HeapSize,     \* kernel_heap.size, 0x10000000
    Sizes,        \* the sizes callers ask for
    Nums          \* the element counts given to kcalloc

NULL == 0
HeapEnd == HeapStart + HeapSize

VARIABLES
    hdr,          \* the linked headers: block -> [size, is_free, next, prev]
    used,         \* kernel_heap.used
    call,         \* the kmalloc in progress, or Idle
    live,         \* ghost: blocks held by callers -> the bytes they asked for
    freed         \* blocks given back whose header nobody overwrote since -> the
                  \* is_free flag last written there

heapVars == <<hdr, used, call, live, freed>>

Blocks == DOMAIN hdr
Idle == [op |-> "idle", need |-> 0, asked |-> 0, old |-> NULL, cur |-> NULL]

ASSUME HeapAssumption ==
    /\ HDR \in Nat /\ HDR > 0
    /\ ALIGN \in Nat /\ ALIGN > 0
    /\ WORD \in Nat /\ WORD > 0
    /\ HeapStart \in Nat /\ HeapStart > 0
    /\ HeapSize \in Nat /\ HeapSize >= HDR
    /\ Sizes \subseteq Nat /\ Nums \subseteq Nat

\* Callers stay clear of the top of the 32-bit range.
NoWrap ==
    /\ \A size \in Sizes : size + ALIGN + HDR <= WORD
    /\ \A num \in Nums, size \in Sizes : num * size + ALIGN + HDR <= WORD

-----------------------------------------------------------------------------
\* kmalloc's block size for a request: rounded up, plus the header, in 32 bits.
RoundUp(size) == (((size + ALIGN - 1) % WORD) \div ALIGN) * ALIGN
NeedWithoutHeader(size) == RoundUp(size)   \* mutant of Need
Need(size) == (RoundUp(size) + HDR) % WORD

\* A header is written at address a, on top of whatever was there.
Write(h, a, header) == [b \in DOMAIN h \cup {a} |-> IF b = a THEN header ELSE h[b]]

\* Block a leaves the list; its header stays in memory as dead bytes.
Unlink(h, a) == [b \in DOMAIN h \ {a} |-> h[b]]

\* "if (b) b->prev = p"
SetPrev(h, b, p) == IF b = NULL THEN h ELSE Write(h, b, [h[b] EXCEPT !.prev = p])

\* Is the remainder big enough for a header and a smallest payload?
Splits(h, b, need) == h[b].size >= need + HDR + ALIGN

\* Take block b for need bytes, splitting off the remainder when it can be used.
Carve(h, b, need) ==
    LET new == b + need
        rest == [size |-> h[b].size - need, is_free |-> TRUE,
                 next |-> h[b].next, prev |-> b]
        h1 == SetPrev(Write(h, new, rest), h[b].next, new)
    IN IF Splits(h, b, need)
       THEN Write(h1, b, [h1[b] EXCEPT !.size = need, !.next = new, !.is_free = FALSE])
       ELSE Write(h, b, [h[b] EXCEPT !.is_free = FALSE])

\* Mutant of Absorb: the block after the merged pair keeps its old prev.
AbsorbKeepsPrev(h, a, b) ==
    Unlink(Write(h, a, [h[a] EXCEPT !.size = @ + h[b].size, !.next = h[b].next]), b)

\* Block a swallows its successor b, header and all.
Absorb(h, a, b) ==
    LET h1 == Write(h, a, [h[a] EXCEPT !.size = @ + h[b].size, !.next = h[b].next])
    IN SetPrev(Unlink(h1, b), h[b].next, a)

IsFree(h, b) == b # NULL /\ h[b].is_free

\* Mutants of the merges: one is missing, or one does not look at is_free.
MergesNothing(h, b) == h
MergeIntoAny(h, b) == IF h[b].prev # NULL THEN Absorb(h, h[b].prev, b) ELSE h

\* kfree's two merges: first the successor, then into the predecessor.
MergeForward(h, b) == IF IsFree(h, h[b].next) THEN Absorb(h, b, h[b].next) ELSE h
MergeBackward(h, b) == IF IsFree(h, h[b].prev) THEN Absorb(h, h[b].prev, b) ELSE h

MarkedNot(h, b) == h   \* mutant of Marked
Marked(h, b) == Write(h, b, [h[b] EXCEPT !.is_free = TRUE])

Release(h, b) == MergeBackward(MergeForward(Marked(h, b), b), b)

\* Freed headers that survive bytes from..to-1 being written.
Spared(from, to) == {a \in DOMAIN freed : a + HDR <= from \/ a >= to}

\* The flags in the headers at F when kfree begins to merge list h.  Merging
\* writes no flag: a header that leaves the list keeps the one it has.
Flags(h, F) == [a \in F |-> IF a \in DOMAIN h THEN h[a].is_free ELSE freed[a]]

-----------------------------------------------------------------------------
\* init_kheap, second half: one free block over the whole arena.
Init ==
    /\ hdr = [b \in {HeapStart} |->
                [size |-> HeapSize, is_free |-> TRUE, next |-> NULL, prev |-> NULL]]
    /\ used = HDR
    /\ call = Idle
    /\ live = [b \in {} |-> 0]
    /\ freed = [b \in {} |-> TRUE]

\* kmalloc(size) up to its loop, for a caller that needs asked bytes; old is
\* the block krealloc will copy from and free, or NULL.
Start(op, size, asked, old) ==
    /\ call = Idle
    /\ call' = [op |-> op, need |-> Need(size), asked |-> asked, old |-> old,
                cur |-> HeapStart]
    /\ UNCHANGED <<hdr, used, live, freed>>

kmalloc(size) == Start("kmalloc", size, size, NULL)

kcalloc(num, size) == Start("kcalloc", (num * size) % WORD, num * size, NULL)

FitsStrictly == hdr[call.cur].is_free /\ hdr[call.cur].size > call.need   \* mutant of Fits

Fits == hdr[call.cur].is_free /\ hdr[call.cur].size >= call.need

WalkStays ==   \* mutant of WalkOn: the loop goes on without moving on a small block
    /\ call # Idle
    /\ call.cur # NULL
    /\ ~Fits
    /\ call' = IF hdr[call.cur].is_free THEN call ELSE [call EXCEPT !.cur = hdr[call.cur].next]
    /\ UNCHANGED <<hdr, used, live, freed>>

\* The loop moves on past a block that is taken or too small.
WalkOn ==
    /\ call # Idle
    /\ call.cur # NULL
    /\ ~Fits
    /\ call' = [call EXCEPT !.cur = hdr[call.cur].next]
    /\ UNCHANGED <<hdr, used, live, freed>>

\* The loop ends without a block: NULL goes back to the caller, and krealloc
\* leaves the old block as it was.
WalkFails ==
    /\ call # Idle
    /\ call.cur = NULL
    /\ call' = Idle
    /\ UNCHANGED <<hdr, used, live, freed>>

\* The loop stops at a block that fits; under krealloc the data is copied and
\* the old block is freed before the call returns.
WalkTakes ==
    /\ call # Idle
    /\ call.cur # NULL
    /\ Fits
    /\ LET b == call.cur
           h == Carve(hdr, b, call.need)
           held == [a \in DOMAIN live \cup {b} |->
                      IF a = b THEN call.asked ELSE live[a]]
           kept == Spared(b, b + h[b].size + (IF Splits(hdr, b, call.need) THEN HDR ELSE 0))
       IN IF call.old = NULL
          THEN /\ hdr' = h
               /\ used' = used + h[b].size
               /\ live' = held
               /\ freed' = [a \in kept |-> freed[a]]
          ELSE /\ hdr' = Release(h, call.old)
               /\ used' = used + h[b].size - h[call.old].size
               /\ live' = [a \in DOMAIN held \ {call.old} |-> held[a]]
               /\ freed' = Flags(Marked(h, call.old), kept \cup {call.old})
    /\ call' = Idle

\* What kfree reads as block->is_free: the flag of a linked header, or the one
\* left in the bytes of a header that was merged away.
ReadsFree(b) == IF b \in Blocks THEN hdr[b].is_free ELSE freed[b]

\* Mutant of kfree: used is reduced after the merges have grown the block.
KfreeLate(b) ==
    /\ call = Idle
    /\ IF ReadsFree(b)
       THEN UNCHANGED heapVars
       ELSE LET h == MergeForward(Marked(hdr, b), b) IN
            /\ hdr' = MergeBackward(h, b)
            /\ used' = used - h[b].size
            /\ live' = [a \in DOMAIN live \ {b} |-> live[a]]
            /\ freed' = Flags(Marked(hdr, b), DOMAIN freed \cup {b})
            /\ UNCHANGED call

\* kfree of a block; a block that is already free is only warned about.
kfree(b) ==
    /\ call = Idle
    /\ IF ReadsFree(b)
       THEN UNCHANGED heapVars
       ELSE /\ hdr' = Release(hdr, b)
            /\ used' = used - hdr[b].size
            /\ live' = [a \in DOMAIN live \ {b} |-> live[a]]
            /\ freed' = Flags(Marked(hdr, b), DOMAIN freed \cup {b})
            /\ UNCHANGED call

\* krealloc that neither grows nor frees: the old pointer is returned.
KeepsBlock(b, size) == size # 0 /\ size <= hdr[b].size - HDR

krealloc(b, size) ==
    \/ /\ b = NULL
       /\ kmalloc(size)
    \/ /\ b # NULL
       /\ size = 0
       /\ kfree(b)
    \/ /\ b # NULL
       /\ KeepsBlock(b, size)
       /\ call = Idle
       /\ live' = [live EXCEPT ![b] = size]
       /\ UNCHANGED <<hdr, used, call, freed>>
    \/ /\ b # NULL
       /\ size # 0
       /\ ~KeepsBlock(b, size)
       /\ Start("krealloc", size, size, b)

Walk == WalkOn \/ WalkFails \/ WalkTakes

Next ==
    \/ \E size \in Sizes : kmalloc(size)
    \/ \E num \in Nums, size \in Sizes : kcalloc(num, size)
    \/ \E b \in DOMAIN live \cup {NULL}, size \in Sizes : krealloc(b, size)
    \/ \E b \in DOMAIN live \cup DOMAIN freed : kfree(b)
    \/ Walk

Spec == Init /\ [][Next]_heapVars

\* kmalloc's loop runs to its end: nothing in the kernel preempts it for good.
FairSpec == Spec /\ WF_heapVars(Walk)

-----------------------------------------------------------------------------
Headers == [size : Nat, is_free : BOOLEAN, next : Nat, prev : Nat]
Calls == [op : {"kmalloc", "kcalloc", "krealloc"}, need : Nat, asked : Nat,
          old : Nat, cur : Nat]

TypeOK ==
    /\ Blocks \subseteq HeapStart..(HeapEnd - 1)
    /\ hdr \in [Blocks -> Headers]
    /\ used \in Int
    /\ call = Idle \/ call \in Calls
    /\ DOMAIN live \subseteq Blocks
    /\ live \in [DOMAIN live -> Nat]
    /\ DOMAIN freed \subseteq HeapStart..(HeapEnd - 1)
    /\ freed \in [DOMAIN freed -> BOOLEAN]

\* The parts of a well-formed block list h.
Linked(h) ==
    \A b \in DOMAIN h :
        IF b + h[b].size = HeapEnd
        THEN h[b].next = NULL
        ELSE h[b].next = b + h[b].size /\ h[b].next \in DOMAIN h
LinkedBack(h) ==
    \A b \in DOMAIN h :
        IF b = HeapStart
        THEN h[b].prev = NULL
        ELSE h[b].prev \in DOMAIN h /\ h[b].prev + h[h[b].prev].size = b
Apart(h) ==
    \A b, c \in DOMAIN h : b < c => b + h[b].size <= c
WellFormed(h) ==
    /\ HeapStart \in DOMAIN h
    /\ \A b \in DOMAIN h : h[b].size >= HDR
    /\ Linked(h) /\ LinkedBack(h) /\ Apart(h)

\* The blocks tile the arena in list order: each next pointer leads to the
\* block that starts where this one ends, each prev pointer leads back, and
\* nothing overlaps, so the list has no cycle and loses no byte.
Tiled == WellFormed(hdr)

\* kfree leaves no two free neighbours, so a free run is one block.
Coalesced(h) == \A b \in DOMAIN h : h[b].is_free => ~IsFree(h, h[b].next)
NoAdjacentFree == Coalesced(hdr)

\* A block is marked used exactly while a caller holds it, and its payload is
\* at least as long as that caller asked for.
LiveExact ==
    /\ DOMAIN live = {b \in Blocks : ~hdr[b].is_free}
    /\ \A b \in DOMAIN live : live[b] + HDR <= hdr[b].size

\* The walk is at a linked block (or past the end), no block it has passed
\* could have served, and the block krealloc copies from is still held.
WalkSound ==
    call # Idle =>
        /\ call.cur \in Blocks \cup {NULL}
        /\ \A b \in Blocks :
             (call.cur = NULL \/ b < call.cur) /\ hdr[b].is_free
               => hdr[b].size < call.need
        /\ call.old # NULL =>
             call.old \in DOMAIN live /\ hdr[call.old].size < call.asked + HDR

\* kernel_heap.used is the first header plus the blocks that are not free.
UsedExact ==
    used = HDR + MapThenSumSet(LAMBDA b : hdr[b].size, {b \in Blocks : ~hdr[b].is_free})

\* A block given back is recognised as free until its bytes are reused, whether
\* its header is still linked or was left behind by a merge: a second kfree
\* never frees a block that somebody else holds.
FreedStaysFree == \A b \in DOMAIN freed : ReadsFree(b)

\* No step moves, shrinks or grows a block while its caller holds it.
HeldBlocksStay ==
    [][\A b \in DOMAIN live \cap DOMAIN live' : hdr'[b].size = hdr[b].size]_heapVars

\* Every kmalloc, kcalloc and krealloc returns.
CallsReturn == call # Idle ~> call = Idle

\* The block list implements the abstract heap: what is granted overlaps
\* nothing, and NULL means that no hole was big enough.
Extent == [b \in DOMAIN live |-> hdr[b].size]
Asking == IF call = Idle THEN 0 ELSE call.need
Abstract == INSTANCE HeapSpec WITH
    ArenaStart <- HeapStart, ArenaSize <- HeapSize, extent <- Extent, asking <- Asking
ImplementsHeap == Abstract!Spec
==============================================================================
