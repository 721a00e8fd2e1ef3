------------------------------ MODULE PmmProofs ------------------------------
(***************************************************************************)
(* Proofs about kernel/pmm.c for every layout and memory size: the bitmap, *)
(* the free count and the frames held by callers agree for ever, and the   *)
(* manager implements the abstract frame pool.                             *)
(***************************************************************************)
EXTENDS Pmm, FiniteSetTheorems, TLAPS

\* A frame address names its page and no other (pmm.c:97 and pmm.c:110).
LEMMA AddrRoundTrip ==
    ASSUME NEW i \in Nat
    PROVE  FrameAddr(i) \in Nat /\ PageIndex(FrameAddr(i)) = i
  BY SizeAssumption DEF FrameAddr, PageIndex

\* Two pages with one address are one page.
LEMMA AddrInjective ==
    ASSUME NEW i \in Nat, NEW j \in Nat, FrameAddr(i) = FrameAddr(j)
    PROVE  i = j
  BY AddrRoundTrip

\* init_pmm's arithmetic yields natural numbers (pmm.c:20-26, 41).
LEMMA SizesAreNat ==
    ASSUME NEW kb \in MemKb
    PROVE  /\ Pages(kb) \in Nat
           /\ BitmapPages(Pages(kb)) \in Nat
<1>1. kb * KB \in Nat
  BY SizeAssumption, InputAssumption
<1>2. (kb * KB) % WORD \in Nat
  BY <1>1, SizeAssumption
<1>3. Pages(kb) \in Nat
  BY <1>2, SizeAssumption DEF Pages
<1>4. BitmapWords(Pages(kb)) \in Nat
  BY <1>3 DEF BitmapWords
<1>5. BitmapWords(Pages(kb)) * 4 + PAGE_SIZE - 1 \in Nat
  BY <1>4, SizeAssumption
<1> QED
  BY <1>3, <1>5, SizeAssumption DEF BitmapPages

\* A run of len pages has len members.
LEMMA RunLength ==
    ASSUME NEW s \in Nat, NEW len \in Nat
    PROVE  /\ IsFiniteSet(s..(s + len - 1))
           /\ Cardinality(s..(s + len - 1)) = len
<1>1. s + len - 1 \in Int
  OBVIOUS
<1> QED
  BY <1>1, FS_Interval

\* What is left of a finite set.
LEMMA ComplementCard ==
    ASSUME NEW S, IsFiniteSet(S), NEW T \in SUBSET S
    PROVE  Cardinality(S \ T) = Cardinality(S) - Cardinality(T)
<1>1. S \cap T = T
  OBVIOUS
<1> QED
  BY <1>1, FS_Difference

\* Removing or returning one page changes the count of clear pages by one.
LEMMA ClearCount ==
    ASSUME NEW n \in Nat, NEW B \in SUBSET (0..(n - 1)), NEW i \in 0..(n - 1)
    PROVE  /\ IsFiniteSet((0..(n - 1)) \ B)
           /\ Cardinality((0..(n - 1)) \ B) \in 0..n
           /\ i \notin B => Cardinality((0..(n - 1)) \ (B \cup {i}))
                              = Cardinality((0..(n - 1)) \ B) - 1
           /\ i \in B => Cardinality((0..(n - 1)) \ (B \ {i}))
                              = Cardinality((0..(n - 1)) \ B) + 1
<1> DEFINE N == 0..(n - 1)
           C == N \ B
<1>1. IsFiniteSet(N) /\ Cardinality(N) = n
  BY FS_Interval
<1>2. IsFiniteSet(C) /\ Cardinality(C) <= n
  BY <1>1, FS_Subset
<1>3. Cardinality(C) \in Nat
  BY <1>2, FS_CardinalityType
<1>4. ASSUME i \notin B
      PROVE  Cardinality(N \ (B \cup {i})) = Cardinality(C) - 1
  <2>1. N \ (B \cup {i}) = C \ {i} /\ i \in C
    BY <1>4
  <2> HIDE DEF N, C
  <2> QED
    BY <2>1, <1>2, FS_RemoveElement
<1>5. ASSUME i \in B
      PROVE  Cardinality(N \ (B \ {i})) = Cardinality(C) + 1
  <2>1. N \ (B \ {i}) = C \cup {i} /\ i \notin C
    BY <1>5
  <2> QED
    BY <2>1, <1>2, FS_AddElement
<1> QED
  BY <1>2, <1>3, <1>4, <1>5

-----------------------------------------------------------------------------
\* Before boot nothing exists; after it the reserved pages lie in memory.
BootState ==
    IF initialized
    THEN /\ BitmapPages(total_pages) \in Nat
         /\ BITMAP_START + BitmapPages(total_pages) <= total_pages
    ELSE total_pages = 0 /\ held = {}

\* The inductive invariant.
PmmInv == TypeOK /\ CountExact /\ Ownership /\ BootState

\* The zeroed manager satisfies the invariant.
LEMMA InitInv == Init => PmmInv
<1> SUFFICES ASSUME Init PROVE PmmInv
  OBVIOUS
<1>1. TypeOK
  <2>1. reply \in [asked : Counts, got : Nat]
    BY InputAssumption DEF Init, NULL
  <2>2. bitmap \subseteq 0..(total_pages - 1) /\ held \subseteq Nat
    BY DEF Init
  <2>3. total_pages \in Nat /\ free_pages \in 0..total_pages
    BY DEF Init
  <2>4. initialized \in BOOLEAN
    BY Zenon DEF Init
  <2> QED
    BY <2>1, <2>2, <2>3, <2>4 DEF TypeOK
<1>5. BootState
  BY DEF Init, BootState
<1>2. ClearPages = {}
  BY DEF Init, ClearPages
<1>3. CountExact
  BY <1>2, FS_EmptySet DEF Init, CountExact
<1>4. Ownership
  BY DEF Init, Ownership
<1> QED
  BY <1>1, <1>3, <1>4, <1>5 DEF PmmInv

\* init_pmm establishes the invariant: the three regions it reserves are
\* disjoint, so each BITMAP_SET took exactly one page off the count.
LEMMA init_pmmInv ==
    ASSUME PmmInv, NEW kb \in MemKb, init_pmm(kb)
    PROVE  PmmInv'
<1> DEFINE n == Pages(kb)
           b == BitmapPages(n)
           N == 0..(n - 1)
           R == Reserved(n)
<1>1. n \in Nat /\ b \in Nat /\ BITMAP_START + b <= n
  BY SizesAreNat, MemoryAssumption
<1>2. held = {} /\ held' = {} /\ initialized' /\ total_pages' = n /\ bitmap' = R
  BY DEF init_pmm, PmmInv, BootState
<1> HIDE DEF n, b
<1>3. R \subseteq N
  BY <1>1, SizeAssumption, LayoutAssumption
     DEF Reserved, LowRegion, KernelRegion, BitmapRegion, b
<1>4. Cardinality(R) = LOW_PAGES + b + KERNEL_PAGES /\ IsFiniteSet(R)
  <2>l. IsFiniteSet(LowRegion) /\ Cardinality(LowRegion) = LOW_PAGES
    BY RunLength, SizeAssumption DEF LowRegion
  <2>k. IsFiniteSet(KernelRegion) /\ Cardinality(KernelRegion) = KERNEL_PAGES
    BY RunLength, SizeAssumption DEF KernelRegion
  <2>b. IsFiniteSet(BitmapRegion(n)) /\ Cardinality(BitmapRegion(n)) = b
    BY RunLength, <1>1, SizeAssumption DEF BitmapRegion, b
  <2>2. /\ LowRegion \cap BitmapRegion(n) = {}
        /\ (LowRegion \cup BitmapRegion(n)) \cap KernelRegion = {}
    BY <1>1, SizeAssumption, LayoutAssumption
       DEF LowRegion, KernelRegion, BitmapRegion, b
  <2>3. /\ IsFiniteSet(LowRegion \cup BitmapRegion(n))
        /\ Cardinality(LowRegion \cup BitmapRegion(n)) = LOW_PAGES + b
    <3>1. Cardinality(LowRegion \cup BitmapRegion(n)) = LOW_PAGES + b - Cardinality({})
      BY <2>l, <2>b, <2>2, FS_Union
    <3> QED
      <4>1. IsFiniteSet(LowRegion \cup BitmapRegion(n))
        BY <2>l, <2>b, FS_Union
      <4> QED
        BY <3>1, <4>1, FS_EmptySet, <1>1, SizeAssumption
  <2>4. /\ Cardinality(R) = (LOW_PAGES + b) + KERNEL_PAGES - Cardinality({})
        /\ IsFiniteSet(R)
    BY <2>k, <2>2, <2>3, FS_Union DEF Reserved
  <2> QED
    BY <2>4, FS_EmptySet, <1>1, SizeAssumption
<1>5. Cardinality(N \ R) = n - LOW_PAGES - b - KERNEL_PAGES
  <2>1. IsFiniteSet(N) /\ Cardinality(N) = n
    <3>1. N = 0..(0 + n - 1)
      BY <1>1
    <3> QED
      BY <1>1, <3>1, RunLength
  <2>2. Cardinality(N \ R) = Cardinality(N) - Cardinality(R)
    BY <2>1, <1>3, ComplementCard
  <2>3. Cardinality(N \ R) = n - (LOW_PAGES + b + KERNEL_PAGES)
    BY <2>1, <2>2, <1>4
  <2> QED
    BY <2>3, <1>1, SizeAssumption
<1>6. free_pages' = n - LOW_PAGES - b - KERNEL_PAGES
  BY DEF init_pmm, n, b
<1>7. free_pages' \in 0..n
  BY <1>1, <1>6, SizeAssumption, LayoutAssumption
<1>8. TypeOK'
  BY <1>1, <1>2, <1>3, <1>7, InputAssumption DEF TypeOK, init_pmm, NULL
<1>9. CountExact'
  BY <1>2, <1>5, <1>6 DEF CountExact, ClearPages
<1>10. Ownership'
  BY <1>2 DEF Ownership
<1>11. BootState'
  BY <1>1, <1>2 DEF BootState, b
<1> QED
  BY <1>8, <1>9, <1>10, <1>11 DEF PmmInv
\* A call that turns its caller away leaves the invariant alone.
LEMMA RefusalInv ==
    ASSUME PmmInv, NEW n \in Counts, reply' = [asked |-> n, got |-> NULL],
           UNCHANGED <<bitmap, total_pages, free_pages, initialized, held>>
    PROVE  PmmInv'
<1>1. reply' \in [asked : Counts, got : Nat]
  BY DEF NULL
<1>2. TypeOK'
  BY <1>1 DEF PmmInv, TypeOK
<1>3. CountExact'
  BY DEF PmmInv, CountExact, ClearPages
<1>4. Ownership' /\ BootState'
  BY DEF PmmInv, Ownership, BootState
<1> QED
  BY <1>2, <1>3, <1>4 DEF PmmInv

\* A page the scan may take: in memory, not reserved, not page 0, not held.
LEMMA ClearPageIsUsable ==
    ASSUME PmmInv, initialized, NEW i \in ClearPages
    PROVE  /\ i \in 0..(total_pages - 1) /\ i \in Nat /\ i > 0
           /\ i \notin bitmap
           /\ i \notin LowRegion \cup KernelRegion \cup BitmapRegion(total_pages)
           /\ FrameAddr(i) \notin held
<1>1. i \in 0..(total_pages - 1) /\ i \notin bitmap /\ i \in Nat
  BY DEF ClearPages, PmmInv, TypeOK
<1>2. i \notin Reserved(total_pages)
  BY <1>1 DEF PmmInv, Ownership
<1>3. i > 0
  BY <1>1, <1>2, LayoutAssumption, SizeAssumption DEF Reserved, LowRegion
<1>4. FrameAddr(i) \notin held
  BY <1>1, AddrRoundTrip DEF PmmInv, Ownership
<1> QED
  BY <1>1, <1>2, <1>3, <1>4 DEF Reserved

\* alloc_frame's scan keeps the invariant.
LEMMA ScanInv ==
    ASSUME PmmInv, NEW n \in Counts, Scan(n)
    PROVE  PmmInv'
<1>1. CASE ~(initialized /\ free_pages # 0 /\ ClearPages # {})
  BY <1>1, RefusalInv DEF Scan
<1>2. CASE initialized /\ free_pages # 0 /\ ClearPages # {}
  <2>1. PICK i \in FirstClear :
          /\ bitmap' = bitmap \cup {i}
          /\ free_pages' = free_pages - 1
          /\ held' = held \cup {FrameAddr(i)}
          /\ reply' = [asked |-> n, got |-> FrameAddr(i)]
          /\ UNCHANGED <<total_pages, initialized>>
    BY <1>2 DEF Scan
  <2>2. i \in ClearPages
    BY DEF FirstClear
  <2>3. /\ i \in 0..(total_pages - 1) /\ i \in Nat /\ i > 0 /\ i \notin bitmap
        /\ i \notin LowRegion \cup KernelRegion \cup BitmapRegion(total_pages)
    BY <1>2, <2>2, ClearPageIsUsable
  <2>4. FrameAddr(i) \in Nat /\ PageIndex(FrameAddr(i)) = i
    BY <2>3, AddrRoundTrip
  <2>5. TypeOK'
    <3>1. reply' \in [asked : Counts, got : Nat]
      BY <2>1, <2>4
    <3>2. free_pages' \in 0..total_pages'
      BY <2>1, <1>2 DEF PmmInv, TypeOK
    <3> QED
      BY <3>1, <3>2, <2>1, <2>3, <2>4 DEF PmmInv, TypeOK
  <2>6. CountExact'
    BY <2>1, <2>3, ClearCount DEF PmmInv, TypeOK, CountExact, ClearPages
  <2>7. Ownership'
    <3>1. {PageIndex(f) : f \in held'} = {PageIndex(f) : f \in held} \cup {i}
      BY <2>1, <2>4
    <3>2. \A f \in held' :
             /\ f = FrameAddr(PageIndex(f))
             /\ PageIndex(f) \notin LowRegion \cup KernelRegion \cup BitmapRegion(total_pages)
      BY <2>1, <2>3, <2>4 DEF PmmInv, Ownership
    <3> QED
      BY <1>2, <3>1, <3>2, <2>1 DEF PmmInv, Ownership
  <2>8. BootState'
    BY <1>2, <2>1 DEF PmmInv, BootState
  <2> QED
    BY <2>5, <2>6, <2>7, <2>8 DEF PmmInv
<1> QED
  BY <1>1, <1>2

\* A frame that free_frame accepts from a caller is one the caller holds.
LEMMA AcceptedIsHeld ==
    ASSUME PmmInv, NEW frame \in Freeable, ~Rejected(frame)
    PROVE  frame \in held
<1>1. total_pages \in Nat /\ \A i \in ClearPages : i \in Nat /\ i \notin bitmap
  BY DEF PmmInv, TypeOK, ClearPages
<1>2. frame # FrameAddr(total_pages)
  BY <1>1, AddrRoundTrip DEF Rejected
<1>3. \A i \in ClearPages : frame # FrameAddr(i)
  BY <1>1, AddrRoundTrip DEF Rejected
<1> QED
  BY <1>2, <1>3 DEF Freeable, Rejected

\* free_frame keeps the invariant.
LEMMA free_frameInv ==
    ASSUME PmmInv, NEW frame \in Freeable, free_frame(frame)
    PROVE  PmmInv'
<1>1. CASE Rejected(frame)
  BY <1>1, RefusalInv, InputAssumption DEF free_frame
<1>2. CASE ~Rejected(frame)
  <2> DEFINE i == PageIndex(frame)
  <2>1. /\ bitmap' = bitmap \ {i}
        /\ free_pages' = free_pages + 1
        /\ held' = held \ {frame}
        /\ reply' = [asked |-> 0, got |-> NULL]
        /\ UNCHANGED <<total_pages, initialized>>
    BY <1>2 DEF free_frame
  <2>2. frame \in held /\ i \in bitmap /\ initialized
    BY <1>2, AcceptedIsHeld DEF Rejected
  <2>3. i \in 0..(total_pages - 1) /\ bitmap \subseteq 0..(total_pages - 1)
        /\ total_pages \in Nat
    BY <2>2 DEF PmmInv, TypeOK
  <2>4. /\ frame = FrameAddr(i)
        /\ i \notin LowRegion \cup KernelRegion \cup BitmapRegion(total_pages)
    BY <2>2 DEF PmmInv, Ownership
  <2> HIDE DEF i
  <2>5. CountExact'
    BY <2>1, <2>2, <2>3, ClearCount DEF PmmInv, CountExact, ClearPages
  <2>6. TypeOK'
    <3>1. reply' \in [asked : Counts, got : Nat]
      BY <2>1, InputAssumption DEF NULL
    <3>2. Cardinality((0..(total_pages - 1)) \ (bitmap \ {i})) \in 0..total_pages
      BY <2>3, ClearCount
    <3>3. free_pages' \in 0..total_pages'
      BY <3>2, <2>5, <2>1 DEF CountExact, ClearPages
    <3> QED
      BY <3>1, <3>3, <2>1, <2>3 DEF PmmInv, TypeOK
  <2>7. Ownership'
    <3>1. \A f \in held : f # frame => PageIndex(f) # i
      BY <2>4 DEF PmmInv, Ownership
    <3>2. {PageIndex(f) : f \in held'} = {PageIndex(f) : f \in held} \ {i}
      BY <3>1, <2>1 DEF i
    <3>3. \A f \in held' :
             /\ f = FrameAddr(PageIndex(f))
             /\ PageIndex(f) \notin LowRegion \cup KernelRegion \cup BitmapRegion(total_pages)
      BY <2>1 DEF PmmInv, Ownership
    <3>4. i \notin Reserved(total_pages)
      BY <2>4 DEF Reserved
    <3>5. bitmap' = Reserved(total_pages) \cup {PageIndex(f) : f \in held'}
      BY <3>2, <3>4, <2>1, <2>2 DEF PmmInv, Ownership
    <3> QED
      BY <3>3, <3>5, <2>1, <2>2 DEF Ownership
  <2>8. BootState'
    BY <2>1, <2>2 DEF PmmInv, BootState
  <2> QED
    BY <2>5, <2>6, <2>7, <2>8 DEF PmmInv
<1> QED
  BY <1>1, <1>2

\* Every step of the manager keeps the invariant.
LEMMA NextInv == PmmInv /\ [Next]_pmmVars => PmmInv'
<1> SUFFICES ASSUME PmmInv, [Next]_pmmVars PROVE PmmInv'
  OBVIOUS
<1>1. ASSUME NEW kb \in MemKb, init_pmm(kb) PROVE PmmInv'
  BY <1>1, init_pmmInv
<1>2. ASSUME alloc_frame PROVE PmmInv'
  BY <1>2, ScanInv, InputAssumption DEF alloc_frame
<1>3. ASSUME NEW count \in Counts, alloc_frames(count) PROVE PmmInv'
  BY <1>3, ScanInv, RefusalInv DEF alloc_frames
<1>4. ASSUME NEW frame \in Freeable, free_frame(frame) PROVE PmmInv'
  BY <1>4, free_frameInv
<1>5. CASE UNCHANGED pmmVars
  BY <1>5 DEF pmmVars, PmmInv, TypeOK, CountExact, ClearPages, Ownership, BootState
<1> QED
  BY <1>1, <1>2, <1>3, <1>4, <1>5 DEF Next
\* The invariant holds in every state of every behaviour of the manager.
THEOREM PmmInvariant == Spec => []PmmInv
<1>1. Init => PmmInv
  BY InitInv
<1>2. PmmInv /\ [Next]_pmmVars => PmmInv'
  BY NextInv
<1> QED
  BY <1>1, <1>2, PTL DEF Spec

\* Type correctness of pmm.c's state, for every layout and memory size.
THEOREM PmmTypeCorrect == Spec => []TypeOK
<1>1. PmmInv => TypeOK
  BY DEF PmmInv
<1> QED
  BY <1>1, PmmInvariant, PTL

\* free_pages always counts the clear bits, so alloc_frame's early return on a
\* zero count (pmm.c:85) refuses a frame exactly when there is none.
THEOREM PmmCountExact == Spec => []CountExact
<1>1. PmmInv => CountExact
  BY DEF PmmInv
<1> QED
  BY <1>1, PmmInvariant, PTL

\* No page is leaked, shared, or taken from the kernel: the bitmap is the
\* reserved pages and the held frames, for every sequence of calls.
THEOREM PmmOwnership == Spec => []Ownership
<1>1. PmmInv => Ownership
  BY DEF PmmInv
<1> QED
  BY <1>1, PmmInvariant, PTL

\* A successful scan hands out a frame nobody held; a failed one hands out none.
LEMMA ScanIsFresh ==
    ASSUME PmmInv, NEW n \in Counts, Scan(n)
    PROVE  reply'.got # NULL => reply'.got \notin held /\ reply'.got \in held'
<1>1. CASE ~(initialized /\ free_pages # 0 /\ ClearPages # {})
  BY <1>1 DEF Scan
<1>2. CASE initialized /\ free_pages # 0 /\ ClearPages # {}
  <2>1. PICK i \in FirstClear :
          /\ held' = held \cup {FrameAddr(i)}
          /\ reply' = [asked |-> n, got |-> FrameAddr(i)]
    BY <1>2 DEF Scan
  <2>2. i \in ClearPages
    BY DEF FirstClear
  <2>3. FrameAddr(i) \notin held
    BY <1>2, <2>2, ClearPageIsUsable
  <2> QED
    BY <2>1, <2>3
<1> QED
  BY <1>1, <1>2

\* No call ever returns a frame that some caller still holds (pmm.c:92-101).
THEOREM PmmFreshFrame == Spec => FreshFrame
<1>1. PmmInv /\ [Next]_pmmVars =>
        [reply'.got # NULL => reply'.got \notin held /\ reply'.got \in held']_pmmVars
  <2> SUFFICES ASSUME PmmInv, Next
               PROVE  reply'.got # NULL => reply'.got \notin held /\ reply'.got \in held'
    OBVIOUS
  <2>1. ASSUME NEW kb \in MemKb, init_pmm(kb) PROVE reply'.got = NULL
    BY <2>1 DEF init_pmm
  <2>2. ASSUME alloc_frame
        PROVE  reply'.got # NULL => reply'.got \notin held /\ reply'.got \in held'
    BY <2>2, ScanIsFresh, InputAssumption DEF alloc_frame
  <2>3. ASSUME NEW count \in Counts, alloc_frames(count)
        PROVE  reply'.got # NULL => reply'.got \notin held /\ reply'.got \in held'
    BY <2>3, ScanIsFresh DEF alloc_frames
  <2>4. ASSUME NEW frame \in Freeable, free_frame(frame) PROVE reply'.got = NULL
    BY <2>4 DEF free_frame
  <2> QED
    BY <2>1, <2>2, <2>3, <2>4 DEF Next
<1> QED
  BY <1>1, PmmInvariant, PTL DEF Spec, FreshFrame

-----------------------------------------------------------------------------
\* The clear pages are finitely many page numbers.
LEMMA ClearFinite ==
    ASSUME PmmInv
    PROVE  ClearPages \subseteq Nat /\ IsFiniteSet(ClearPages)
<1>1. total_pages - 1 \in Int /\ ClearPages \subseteq 0..(total_pages - 1)
  BY DEF PmmInv, TypeOK, ClearPages
<1>2. IsFiniteSet(0..(total_pages - 1))
  BY <1>1, FS_Interval
<1>3. ClearPages \subseteq Nat
  BY <1>1
<1>4. IsFiniteSet(ClearPages)
  BY <1>1, <1>2, FS_Subset
<1> QED
  BY <1>3, <1>4

\* The frames left have as many addresses as there are clear pages.
LEMMA PoolSize ==
    ASSUME PmmInv
    PROVE  /\ IsFiniteSet({FrameAddr(i) : i \in ClearPages})
           /\ Cardinality({FrameAddr(i) : i \in ClearPages}) = free_pages
<1> DEFINE A == {FrameAddr(i) : i \in ClearPages}
           f == [i \in ClearPages |-> FrameAddr(i)]
<1>1. ClearPages \subseteq Nat /\ IsFiniteSet(ClearPages)
  BY ClearFinite
<1>2. f \in Bijection(ClearPages, A)
  <2>1. f \in [ClearPages -> A]
    OBVIOUS
  <2>2. \A i, j \in ClearPages : f[i] = f[j] => i = j
    BY <1>1, AddrInjective
  <2>3. \A a \in A : \E i \in ClearPages : f[i] = a
    OBVIOUS
  <2> QED
    BY <2>1, <2>2, <2>3 DEF Bijection, Injection, Surjection, IsInjective
<1>3. ExistsBijection(ClearPages, A)
  BY <1>2 DEF ExistsBijection
<1> QED
  BY <1>1, <1>3, FS_Bijection DEF PmmInv, CountExact

\* n frames in a row are n frames, and one is the frame itself.
LEMMA RunSize ==
    ASSUME NEW f \in Nat, NEW n \in Nat
    PROVE  /\ IsFiniteSet(Pool!Run(f, n)) /\ Cardinality(Pool!Run(f, n)) = n
           /\ Pool!Run(f, 1) = {f}
<1> DEFINE K == 0..(n - 1)
           R == Pool!Run(f, n)
           g == [k \in K |-> f + k * PAGE_SIZE]
<1>1. IsFiniteSet(K) /\ Cardinality(K) = n /\ K \subseteq Nat
  BY RunLength
<1>2. R = {f + k * PAGE_SIZE : k \in K}
  BY DEF Pool!Run
<1> HIDE DEF K, R
<1>3. g \in Bijection(K, R)
  <2>1. g \in [K -> R]
    BY <1>2
  <2>2. ASSUME NEW i \in K, NEW j \in K, g[i] = g[j] PROVE i = j
    <3>1. i \in Nat /\ j \in Nat /\ i * PAGE_SIZE \in Nat /\ j * PAGE_SIZE \in Nat
      BY <1>1, SizeAssumption
    <3>2. f + i * PAGE_SIZE = f + j * PAGE_SIZE
      BY <2>2
    <3>3. i * PAGE_SIZE = j * PAGE_SIZE
      BY <3>1, <3>2
    <3> QED
      BY <3>1, <3>3, AddrInjective DEF FrameAddr
  <2>3. \A a \in R : \E i \in K : g[i] = a
    BY <1>2
  <2> QED
    BY <2>1, <2>2, <2>3 DEF Bijection, Injection, Surjection, IsInjective
<1>4. ExistsBijection(K, R)
  BY <1>3 DEF ExistsBijection
<1>5. IsFiniteSet(R) /\ Cardinality(R) = n
  BY <1>1, <1>4, FS_Bijection
<1>6. Pool!Run(f, 1) = {f}
  <2>1. 0..(1 - 1) = {0} /\ f + 0 * PAGE_SIZE = f
    BY SizeAssumption
  <2> QED
    BY <2>1 DEF Pool!Run
<1> QED
  BY <1>5, <1>6 DEF R

\* A refused request maps to a refusal of the frame pool.
LEMMA RefusalRefines ==
    ASSUME PmmInv, NEW n \in Counts, n = 0 \/ n > free_pages,
           reply' = [asked |-> n, got |-> NULL],
           UNCHANGED <<bitmap, total_pages, free_pages, initialized, held>>
    PROVE  Pool!Next
<1>1. Pool!Refuse(n)
  <2>1. n \in Nat /\ free_pages \in Nat
    BY InputAssumption DEF PmmInv, TypeOK
  <2> DEFINE A == {FrameAddr(i) : i \in ClearPages}
  <2>2. IsFiniteSet(A) /\ Cardinality(A) = free_pages /\ A \subseteq Nat
    BY PoolSize, ClearFinite, AddrRoundTrip
  <2>3. A' = A
    BY DEF ClearPages, FrameAddr
  <2> HIDE DEF A
  <2>4. ASSUME n > free_pages, NEW f \in A, Pool!Run(f, n) \subseteq A PROVE FALSE
    <3>1. Cardinality(Pool!Run(f, n)) <= Cardinality(A)
      BY <2>2, <2>4, FS_Subset
    <3>2. Cardinality(Pool!Run(f, n)) = n
      BY <2>1, <2>2, RunSize
    <3> QED
      BY <2>1, <2>2, <2>4, <3>1, <3>2
  <2>5. n = 0 \/ \A f \in A : ~(Pool!Run(f, n) \subseteq A)
    BY <2>4
  <2> QED
    BY <2>3, <2>5 DEF A, Pool!Refuse, Pool!Nothing
<1> QED
  BY <1>1 DEF Pool!Next

\* A scan made for one frame maps to the hand-out of one frame; with no frame
\* left, to a refusal.
LEMMA ScanRefines ==
    ASSUME PmmInv, NEW n \in Counts, n > 0, n <= free_pages \/ n = 1, Scan(n)
    PROVE  SeveralGranted \/ Pool!Next
<1>0. n \in Nat /\ free_pages \in Nat /\ IsFiniteSet(ClearPages)
  BY InputAssumption, ClearFinite DEF PmmInv, TypeOK
<1>1. CASE ~(initialized /\ free_pages # 0 /\ ClearPages # {})
  <2>1. free_pages = 0
    <3>1. CASE ~initialized
      BY <3>1 DEF PmmInv, BootState, TypeOK
    <3>2. CASE ClearPages = {}
      BY <3>2, FS_EmptySet DEF PmmInv, CountExact
    <3> QED
      BY <1>1, <3>1, <3>2
  <2> QED
    BY <1>0, <1>1, <2>1, RefusalRefines DEF Scan
<1>2. CASE initialized /\ free_pages # 0 /\ ClearPages # {}
  <2>1. PICK i \in FirstClear :
          /\ bitmap' = bitmap \cup {i}
          /\ held' = held \cup {FrameAddr(i)}
          /\ reply' = [asked |-> n, got |-> FrameAddr(i)]
          /\ UNCHANGED <<total_pages, initialized>>
    BY <1>2 DEF Scan
  <2>2. i \in ClearPages /\ ClearPages \subseteq Nat
    BY DEF FirstClear, ClearPages, PmmInv, TypeOK
  <2>3. ClearPages' = ClearPages \ {i}
    BY <2>1 DEF ClearPages
  <2>4. {FrameAddr(j) : j \in ClearPages'} = {FrameAddr(j) : j \in ClearPages} \ {FrameAddr(i)}
    BY <2>2, <2>3, AddrInjective
  <2>5. CASE n # 1
    <3>1. FrameAddr(i) # NULL
      <4>1. i \notin LowRegion
        BY <1>2, <2>2, ClearPageIsUsable
      <4> QED
        BY <2>2, <4>1, SizeAssumption, LayoutAssumption DEF LowRegion, FrameAddr, NULL
    <3> QED
      BY <1>0, <2>1, <2>5, <3>1 DEF SeveralGranted
  <2>6. FrameAddr(i) \in {FrameAddr(j) : j \in ClearPages}
    BY <2>2
  <2>7. CASE n = 1
    <3>1. Pool!Run(FrameAddr(i), n) = {FrameAddr(i)}
      BY <2>2, <2>7, AddrRoundTrip, RunSize
    <3>2. Pool!Take(n)
      BY <1>0, <2>1, <2>4, <2>6, <2>7, <3>1 DEF Pool!Take
    <3> QED
      BY <3>2 DEF Pool!Next
  <2> QED
    BY <2>5, <2>7
<1> QED
  BY <1>1, <1>2

\* free_frame gives a frame back to the pool, or changes nothing.
LEMMA free_frameRefines ==
    ASSUME PmmInv, NEW frame \in Freeable, free_frame(frame)
    PROVE  Pool!Next
<1>1. CASE Rejected(frame)
  BY <1>1, RefusalRefines, InputAssumption DEF free_frame
<1>2. CASE ~Rejected(frame)
  <2> DEFINE i == PageIndex(frame)
  <2>1. /\ bitmap' = bitmap \ {i}
        /\ held' = held \ {frame}
        /\ reply' = [asked |-> 0, got |-> NULL]
        /\ UNCHANGED <<total_pages, initialized>>
    BY <1>2 DEF free_frame
  <2>2. frame \in held /\ i \in 0..(total_pages - 1)
    BY <1>2, AcceptedIsHeld DEF Rejected, PmmInv, TypeOK
  <2>3. frame = FrameAddr(i)
    BY <2>2 DEF PmmInv, Ownership
  <2> HIDE DEF i
  <2>4. ClearPages' = ClearPages \cup {i}
    BY <2>1, <2>2 DEF ClearPages
  <2>5. {FrameAddr(j) : j \in ClearPages'} = {FrameAddr(j) : j \in ClearPages} \cup {frame}
    BY <2>3, <2>4
  <2>6. Pool!GiveBack
    BY <2>1, <2>2, <2>5 DEF Pool!GiveBack, Pool!Nothing
  <2> QED
    BY <2>6 DEF Pool!Next
<1> QED
  BY <1>1, <1>2

\* init_pmm fills the pool.
LEMMA init_pmmRefines ==
    ASSUME PmmInv, PmmInv', NEW kb \in MemKb, init_pmm(kb)
    PROVE  Pool!Next
<1>1. \A i \in ClearPages' : i \in Nat /\ i > 0
  <2>1. initialized' /\ total_pages' \in Nat
    BY DEF init_pmm, PmmInv, TypeOK
  <2>2. LowRegion \subseteq bitmap'
    BY DEF init_pmm, Reserved
  <2> QED
    BY <2>1, <2>2, SizeAssumption, LayoutAssumption DEF ClearPages, LowRegion
<1>2. NULL \notin {FrameAddr(i) : i \in ClearPages'}
  <2>1. FrameAddr(0) = NULL
    BY SizeAssumption DEF FrameAddr, NULL
  <2> QED
    BY <1>1, <2>1, AddrInjective
<1>3. Pool!Fill
  BY <1>2 DEF Pool!Fill, Pool!Nothing, init_pmm
<1> QED
  BY <1>3 DEF Pool!Next

\* pmm.c implements the abstract frame pool: it refuses a request only when no
\* such run of frames is left, and hands out frames nobody holds, one for one,
\* unless several are asked for.
THEOREM PmmImplementsFramePool == Spec => ImplementsFramePool
<1>1. Init => Pool!Init
  BY DEF Init, Pool!Init, Pool!Nothing, ClearPages
<1>2. PmmInv /\ PmmInv' /\ [Next]_pmmVars => [SeveralGranted \/ Pool!Next]_(Pool!vars)
  <2> SUFFICES ASSUME PmmInv, PmmInv', [Next]_pmmVars
               PROVE  [SeveralGranted \/ Pool!Next]_(Pool!vars)
    OBVIOUS
  <2>1. ASSUME NEW kb \in MemKb, init_pmm(kb) PROVE Pool!Next
    BY <2>1, init_pmmRefines
  <2>2. ASSUME alloc_frame PROVE SeveralGranted \/ Pool!Next
    BY <2>2, ScanRefines, InputAssumption DEF alloc_frame
  <2>3. ASSUME NEW count \in Counts, alloc_frames(count) PROVE SeveralGranted \/ Pool!Next
    <3>1. count \in Nat /\ free_pages \in Nat
      BY InputAssumption DEF PmmInv, TypeOK
    <3> QED
      BY <2>3, <3>1, ScanRefines, RefusalRefines DEF alloc_frames
  <2>4. ASSUME NEW frame \in Freeable, free_frame(frame) PROVE Pool!Next
    BY <2>4, free_frameRefines
  <2>5. CASE UNCHANGED pmmVars
    BY <2>5 DEF pmmVars, Pool!vars, ClearPages
  <2> QED
    BY <2>1, <2>2, <2>3, <2>4, <2>5 DEF Next
<1> QED
  BY <1>1, <1>2, PmmInvariant, PTL DEF Spec, ImplementsFramePool
==============================================================================
