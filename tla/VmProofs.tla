------------------------------- MODULE VmProofs -------------------------------
(***************************************************************************)
(* Proofs about paging, the heap's mapping loop and the ramdisk loader for *)
(* every number of frames, tables, heap pages and programs: no frame ever  *)
(* has two uses, program code lands in user frames only, and the kernel    *)
(* writes through an unmapped address only when low memory has run out.    *)
(***************************************************************************)
EXTENDS Vm, SequenceTheorems, WellFoundedInduction, TLAPS

\* The minimum of a set of naturals that is not empty.
LEMMA MinNat ==
    ASSUME NEW S, S \subseteq Nat, S # {}
    PROVE  Min(S) \in S /\ \A y \in S : Min(S) <= y
<1> DEFINE R == OpToRel(<, Nat)
<1>1. \A x, y \in Nat : <<y, x>> \in R <=> y < x
  BY DEF OpToRel
<1>2. IsWellFoundedOn(R, Nat)
  BY NatLessThanWellFounded, Zenon
<1> HIDE DEF R
<1>3. PICK x \in S : \A y \in S : ~(<<y, x>> \in R)
  BY <1>2, WFMin, Zenon
<1>4. ASSUME NEW y \in S PROVE ~(y < x)
  <2>1. x \in Nat /\ y \in Nat
    OBVIOUS
  <2> QED
    BY <1>1, <1>3, <2>1, Zenon
<1>5. \A y \in S : x <= y
  BY <1>4
<1> QED
  BY <1>5 DEF Min

-----------------------------------------------------------------------------
\* The quotient of a page number of the address space is a directory index,
\* and pages above the identity map have tables of their own.
LEMMA DirRange ==
    ASSUME NEW v \in VPages
    PROVE  Dir(v) \in 0..(DIRS - 1) /\ (v \notin Identity => Dir(v) # 0)
<1>1. ENTRIES \in Nat /\ DIRS \in Nat /\ v \in Nat /\ v < ENTRIES * DIRS
  BY VmAssumption DEF VPages
<1>2. ENTRIES > 0
  <2>1. ENTRIES = 0 => ENTRIES * DIRS = 0
    BY <1>1
  <2> QED
    BY <1>1, <2>1
<1>3. Dir(v) \in Int /\ ENTRIES * Dir(v) <= v /\ v < ENTRIES * Dir(v) + ENTRIES
  BY <1>1, <1>2 DEF Dir
<1>4. Dir(v) >= 0
  BY <1>1, <1>2 DEF Dir
<1>5. Dir(v) < DIRS
  <2> SUFFICES ASSUME Dir(v) >= DIRS PROVE FALSE
    BY <1>1, <1>3
  <2>1. ENTRIES * Dir(v) >= ENTRIES * DIRS
    BY <1>1, <1>2, <1>3
  <2> QED
    BY <2>1, <1>1, <1>3
<1>6. ASSUME v \notin Identity PROVE Dir(v) # 0
  <2>1. v >= ENTRIES
    BY <1>1, <1>6 DEF Identity
  <2>2. Dir(v) = 0 => ENTRIES * Dir(v) = 0
    BY <1>1
  <2> QED
    BY <2>1, <2>2, <1>1, <1>3
<1> QED
  BY <1>1, <1>3, <1>4, <1>5, <1>6

-----------------------------------------------------------------------------
\* The inductive invariant, beside the properties of Vm: what each variable
\* holds, with the loop in progress at one of its pages,
CallOK ==
    \/ call = Idle \/ call = Lost
    \/ \E off \in 0..HeapPages : call = Call("heap", NoProgram, off)
    \/ \E p \in Programs : \E off \in 0..PagesOf[p] : call = Call("load", p, off)
VarsOK == TypeOK /\ CallOK /\ ramdisk \in Seq([name : Names, data : Programs])

\* nothing is mapped, cached or copied before init_paging,
BootState ==
    paging = "unset" =>
        /\ call = Idle
        /\ \A d \in 0..(DIRS - 1) : tables[d] = NULL
        /\ DOMAIN pages = {} /\ DOMAIN tlb = {}
        /\ \A f \in Frames : mem[f] = Blank

\* tables other than the identity map's lie in low memory,
TablesLow == \A d \in 1..(DIRS - 1) : tables[d] # NULL => tables[d] \in Identity

\* a cached translation outside the heap, however old, is to a user frame,
HeapFrames == {pages[v] : v \in HeapRange \cap DOMAIN pages}
CachedUser ==
    \A v \in DOMAIN tlb \ HeapRange : tlb[v] \notin free \cup TableFrames \cup HeapFrames

\* and the mapping loop has skipped no page while frames were left.
HeapSoFar ==
    call.op = "heap" /\ free # {} =>
        \A k \in 0..(call.off - 1) : HeapBase + k \in DOMAIN pages

VmInv ==
    /\ VarsOK /\ BootState /\ NoAlias /\ TablesLow /\ UnmappedNotCached /\ CachedUser
    /\ CodeInUserFrames /\ RamdiskSound /\ LostOnlyWhenOut /\ HeapSoFar

-----------------------------------------------------------------------------
\* The pages the two loops map lie in the address space, above low memory.
LEMMA ClientPages ==
    /\ \A off \in 0..(HeapPages - 1) : HeapBase + off \in HeapRange
    /\ HeapRange \subseteq VPages \ Identity
    /\ \A p \in Programs : \A off \in 0..(PagesOf[p] - 1) :
         UserBase + off \in VPages \ (Identity \cup HeapRange)
    /\ StackPage \in VPages \ (Identity \cup HeapRange)
    /\ \A p \in Programs : PagesOf[p] \in Nat
<1>1. \A off \in 0..(HeapPages - 1) : HeapBase + off \in HeapRange
  BY VmAssumption DEF HeapRange
<1>2. ASSUME NEW p \in Programs, NEW off \in 0..(PagesOf[p] - 1)
      PROVE  UserBase + off \in VPages \ (Identity \cup HeapRange)
  <2>1. PagesOf[p] \in Nat /\ UserBase \in Nat
    BY VmAssumption
  <2>2. UserBase + off \in UserBase..(UserBase + PagesOf[p] - 1)
    BY <2>1
  <2> QED
    BY <2>2, VmAssumption
<1> QED
  BY <1>1, <1>2, VmAssumption

\* The directory has an entry for the identity map.
LEMMA DirsPositive == DIRS \in Nat /\ DIRS > 0 /\ ENTRIES \in Nat
<1>1. StackPage \in VPages
  BY VmAssumption
<1> QED
  BY <1>1, DirRange, VmAssumption

\* The fields of the calls.
LEMMA CallFields ==
    /\ Idle.op = "idle" /\ Lost.op = "lost" /\ Idle.off = 0 /\ Lost.off = 0
    /\ \A op, prog, off : /\ Call(op, prog, off).op = op
                          /\ Call(op, prog, off).prog = prog
                          /\ Call(op, prog, off).off = off
                          /\ [Call(op, prog, off) EXCEPT !.off = @ + 1] = Call(op, prog, off + 1)
  BY DEF Idle, Lost, Call

\* The lowest free frame is a frame that is free.
LEMMA TakenFree ==
    ASSUME NEW fr \in SUBSET (Frames \ {NULL}), fr # {}
    PROVE  /\ Min(fr) \in fr /\ Min(fr) \in Frames /\ Min(fr) # NULL
           /\ \A g \in fr : Min(fr) <= g
<1>1. fr \subseteq Nat
  BY VmAssumption
<1> QED
  BY <1>1, MinNat

-----------------------------------------------------------------------------
\* The frames that are free, page tables or under a heap page.
Uses == free \cup TableFrames \cup HeapFrames

\* What map_page of a newly taken frame does to the frames and the tables.
LEMMA MapPage ==
    ASSUME VmInv, NEW v \in VPages \ Identity, free # {},
           map_page(v, Taken, free \ {Taken})
    PROVE  /\ Taken \in free /\ free' \subseteq free \ {Taken}
           /\ tables' \in [0..(DIRS - 1) -> Frames \cup {NULL}] /\ TablesLow'
           /\ TableFrames' \subseteq TableFrames \cup (free \ ({Taken} \cup free'))
           /\ \A d, e \in DOMAIN tables' : tables'[d] = tables'[e] /\ tables'[d] # NULL => d = e
           /\ pages' = pages \/ pages' = Bind(pages, v, Taken)
           /\ Strays(v, free \ {Taken}) => free' \cap Identity = {}
           /\ ~Strays(v, free \ {Taken}) => free' = {} \/ pages' = Bind(pages, v, Taken)
<1> DEFINE fr == free \ {Taken}
           d0 == Dir(v)
<1>1. /\ free \subseteq Frames \ {NULL} /\ tables \in [0..(DIRS - 1) -> Frames \cup {NULL}]
      /\ TablesLow /\ NoAlias
  BY DEF VmInv, VarsOK, TypeOK
<1>2. d0 \in 0..(DIRS - 1) /\ d0 # 0 /\ d0 \in 1..(DIRS - 1)
  BY DirRange, DirsPositive
<1>3. Taken \in free /\ fr \subseteq Frames \ {NULL}
  BY <1>1, TakenFree DEF Taken
<1>4. CASE tables[d0] # NULL
  <2>1. TableFor(v, fr) = tables[d0] /\ ~Strays(v, fr)
    BY <1>4, <1>1, <1>2 DEF TableFor, Strays, TablesLow
  <2>2. free' = fr /\ pages' = Bind(pages, v, Taken) /\ tables' = tables
    <3>1. tables' = [tables EXCEPT ![d0] = tables[d0]]
      BY <2>1, <1>4 DEF map_page
    <3>2. tables' = tables
      BY <3>1, <1>1
    <3> QED
      BY <3>2, <2>1, <1>4 DEF map_page
  <2> QED
    BY <2>1, <2>2, <1>1, <1>3 DEF TablesLow, TableFrames, NoAlias
<1>5. CASE tables[d0] = NULL /\ fr = {}
  <2>1. TableFor(v, fr) = NULL /\ ~Strays(v, fr)
    BY <1>5 DEF TableFor, Strays
  <2>2. free' = {} /\ pages' = pages /\ tables' = tables
    BY <2>1, <1>5 DEF map_page
  <2> QED
    BY <2>1, <2>2, <1>1, <1>3 DEF TablesLow, TableFrames, NoAlias
<1>6. CASE tables[d0] = NULL /\ fr # {}
  <2> DEFINE t == Min(fr)
  <2>1. TableFor(v, fr) = t /\ t \in fr /\ t \in Frames /\ t # NULL /\ \A g \in fr : t <= g
    BY <1>6, <1>3, TakenFree DEF TableFor
  <2>2. free' = fr \ {t}
    BY <2>1, <1>6 DEF map_page
  <2>3. CASE Strays(v, fr)
    <3>1. pages' = pages /\ tables' = tables
      BY <2>1, <2>3 DEF map_page
    <3>2. free' \cap Identity = {}
      <4> SUFFICES ASSUME NEW g \in fr, g \in Identity PROVE FALSE
        BY <2>2
      <4>1. t \in Nat /\ t <= g /\ t \notin Identity
        BY <2>1, <2>3, VmAssumption DEF Strays
      <4> QED
        BY <4>1, DirsPositive DEF Identity
    <3>3. TablesLow' /\ TableFrames' = TableFrames /\ tables' = tables
      BY <3>1, <1>1 DEF TablesLow, TableFrames
    <3>4. \A d, e \in DOMAIN tables : tables[d] = tables[e] /\ tables[d] # NULL => d = e
      BY <1>1 DEF NoAlias
    <3> QED
      BY <3>1, <3>2, <3>3, <3>4, <2>2, <2>3, <1>1, <1>3
  <2>4. CASE ~Strays(v, fr)
    <3>1. t \in Identity
      BY <2>1, <2>4 DEF Strays
    <3>2. pages' = Bind(pages, v, Taken) /\ tables' = [tables EXCEPT ![d0] = t]
      BY <2>1, <2>4 DEF map_page
    <3> HIDE DEF d0, t
    <3>3. /\ tables' \in [0..(DIRS - 1) -> Frames \cup {NULL}]
          /\ \A d \in 0..(DIRS - 1) : tables'[d] = IF d = d0 THEN t ELSE tables[d]
      BY <3>2, <2>1, <1>1, <1>2
    <3>4. TablesLow'
      <4> SUFFICES ASSUME NEW d \in 1..(DIRS - 1), tables'[d] # NULL
                   PROVE  tables'[d] \in Identity
        BY DEF TablesLow
      <4>1. d \in 0..(DIRS - 1) /\ tables'[d] = IF d = d0 THEN t ELSE tables[d]
        BY <3>3, DirsPositive
      <4>2. tables[d] # NULL => tables[d] \in Identity
        BY <1>1 DEF TablesLow
      <4> QED
        BY <4>1, <4>2, <3>1
    <3>5. TableFrames' \subseteq TableFrames \cup {t}
      BY <3>3, <1>1 DEF TableFrames
    <3>6. t \notin TableFrames /\ \A d \in 0..(DIRS - 1) : tables[d] # t
      BY <2>1, <1>1 DEF NoAlias, TableFrames
    <3>7. \A d, e \in DOMAIN tables' : tables'[d] = tables'[e] /\ tables'[d] # NULL => d = e
      <4>1. DOMAIN tables' = 0..(DIRS - 1) /\ DOMAIN tables = 0..(DIRS - 1)
        BY <3>3, <1>1
      <4> QED
        BY <4>1, <3>3, <3>6, <1>1 DEF NoAlias
    <3> QED
      BY <3>2, <3>3, <3>4, <3>5, <3>7, <2>1, <2>2, <2>4, <1>3
  <2> QED
    BY <2>3, <2>4
<1> QED
  BY <1>4, <1>5, <1>6

\* The pages after map_page: still one use for every frame, and frames of no
\* use to the kernel stay so.
LEMMA MapPagePages ==
    ASSUME VmInv, NEW v \in VPages \ Identity, free # {},
           map_page(v, Taken, free \ {Taken})
    PROVE  /\ NoAlias' /\ DOMAIN pages \subseteq DOMAIN pages' /\ DOMAIN pages' \subseteq VPages
           /\ \A w \in DOMAIN pages' \ Identity : pages'[w] \in Frames
           /\ \A f : f \notin Uses => f \notin Uses'
           /\ v \notin HeapRange /\ v \in DOMAIN pages' => pages'[v] \notin Uses'
<1> DEFINE f0 == Taken
<1>1. /\ free \subseteq Frames \ {NULL} /\ NoAlias /\ DOMAIN pages \subseteq VPages
      /\ \A w \in DOMAIN pages \ Identity : pages[w] \in Frames
  BY DEF VmInv, VarsOK, TypeOK
<1>2. /\ f0 \in free /\ free' \subseteq free \ {f0}
      /\ TableFrames' \subseteq TableFrames \cup (free \ ({f0} \cup free'))
      /\ \A d, e \in DOMAIN tables' : tables'[d] = tables'[e] /\ tables'[d] # NULL => d = e
      /\ pages' = pages \/ pages' = Bind(pages, v, f0)
  BY MapPage
<1> HIDE DEF f0
<1>3. /\ DOMAIN pages \subseteq DOMAIN pages' /\ DOMAIN pages' \subseteq DOMAIN pages \cup {v}
      /\ \A w \in DOMAIN pages' : \/ pages'[w] = pages[w] /\ w \in DOMAIN pages
                                  \/ pages'[w] = f0 /\ w = v
  <2>1. CASE pages' = pages
    BY <2>1
  <2>2. CASE pages' = Bind(pages, v, f0)
    <3>1. pages' = [w \in DOMAIN pages \cup {v} |-> IF w = v THEN f0 ELSE pages[w]]
      BY <2>2 DEF Bind
    <3> QED
      BY <3>1
  <2> QED
    BY <2>1, <2>2, <1>2
<1>4. \A w \in DOMAIN pages \ Identity : pages[w] \notin free \cup TableFrames
  BY <1>1 DEF NoAlias
<1>5. f0 \notin TableFrames /\ TableFrames \cap free = {}
  BY <1>1, <1>2 DEF NoAlias
<1>6. \A w \in DOMAIN pages' \ Identity : pages'[w] \notin free' \cup TableFrames'
  BY <1>2, <1>3, <1>4, <1>5
<1>7. \A w, x \in DOMAIN pages' \ Identity : pages'[w] = pages'[x] => w = x
  <2> SUFFICES ASSUME NEW w \in DOMAIN pages' \ Identity, NEW x \in DOMAIN pages' \ Identity,
                      pages'[w] = pages'[x]
               PROVE  w = x
    OBVIOUS
  <2>1. \A y \in DOMAIN pages \ Identity : pages[y] # f0
    BY <1>2, <1>4
  <2>2. \A y, z \in DOMAIN pages \ Identity : pages[y] = pages[z] => y = z
    BY <1>1 DEF NoAlias
  <2> QED
    BY <2>1, <2>2, <1>3
<1>8. TableFrames' \cap free' = {}
  BY <1>2, <1>5
<1>9. NoAlias'
  BY <1>2, <1>6, <1>7, <1>8 DEF NoAlias
<1>10. /\ DOMAIN pages' \subseteq VPages
       /\ \A w \in DOMAIN pages' \ Identity : pages'[w] \in Frames
  BY <1>1, <1>2, <1>3
<1>11. HeapFrames' \subseteq HeapFrames \cup {f0}
  BY <1>3 DEF HeapFrames
<1>12. \A f : f \notin Uses => f \notin Uses'
  BY <1>2, <1>11 DEF Uses
<1>13. ASSUME v \notin HeapRange, v \in DOMAIN pages' PROVE pages'[v] \notin Uses'
  <2>1. pages'[v] \notin free' \cup TableFrames'
    BY <1>6, <1>13
  <2>2. pages'[v] \notin HeapFrames'
    BY <1>7, <1>13, ClientPages DEF HeapFrames
  <2> QED
    BY <2>1, <2>2 DEF Uses
<1> QED
  BY <1>3, <1>9, <1>10, <1>12, <1>13

-----------------------------------------------------------------------------
\* The state before init_paging satisfies the invariant.
LEMMA VmInitInv == Init => VmInv
<1> SUFFICES ASSUME Init PROVE VmInv
  OBVIOUS
<1>1. /\ paging = "unset" /\ free \subseteq Frames \ {NULL}
      /\ tables \in [0..(DIRS - 1) -> Frames \cup {NULL}]
      /\ \A d \in 0..(DIRS - 1) : tables[d] = NULL
      /\ DOMAIN pages = {} /\ DOMAIN tlb = {} /\ ramdisk = <<>> /\ call = Idle
      /\ mem \in [Frames -> {Blank} \cup (Programs \X Nat)]
      /\ \A f \in Frames : mem[f] = Blank
  BY VmAssumption DEF Init
<1>2. VarsOK
  BY <1>1, CallFields, VmAssumption DEF VarsOK, TypeOK, CallOK
<1>3. BootState /\ TablesLow /\ UnmappedNotCached /\ CachedUser /\ CodeInUserFrames
  BY <1>1, DirsPositive DEF BootState, TablesLow, UnmappedNotCached, CachedUser, CodeInUserFrames
<1>4. NoAlias
  BY <1>1 DEF NoAlias, TableFrames
<1>5. RamdiskSound /\ LostOnlyWhenOut /\ HeapSoFar
  BY <1>1, CallFields, VmAssumption DEF RamdiskSound, LostOnlyWhenOut, HeapSoFar
<1> QED
  BY <1>2, <1>3, <1>4, <1>5 DEF VmInv

\* init_paging, with and without a frame for the identity map's table.
LEMMA init_pagingInv ==
    ASSUME VmInv, init_paging
    PROVE  VmInv'
<1>1. /\ VarsOK /\ call = Idle /\ RamdiskSound
      /\ \A d \in 0..(DIRS - 1) : tables[d] = NULL
      /\ DOMAIN pages = {} /\ DOMAIN tlb = {} /\ \A f \in Frames : mem[f] = Blank
  BY DEF VmInv, BootState, init_paging
<1>2. /\ free \subseteq Frames \ {NULL} /\ tables \in [0..(DIRS - 1) -> Frames \cup {NULL}]
      /\ mem \in [Frames -> {Blank} \cup (Programs \X Nat)] /\ Len(ramdisk) <= RAMDISK_MAX
  BY <1>1 DEF VarsOK, TypeOK
<1>3. /\ call' = Call("heap", NoProgram, 0) /\ tlb' = tlb /\ mem' = mem /\ ramdisk' = ramdisk
      /\ paging' \in {"on", "failed"}
  BY DEF init_paging
<1>4. /\ free' \subseteq free /\ tables' \in [0..(DIRS - 1) -> Frames \cup {NULL}]
      /\ \A d \in 0..(DIRS - 1) : tables'[d] # NULL => d = 0 /\ tables'[d] \notin free'
      /\ DOMAIN pages' \subseteq Identity
  <2>1. CASE free = {}
    BY <2>1, <1>1, <1>2 DEF init_paging
  <2>2. CASE free # {}
    <3>1. Taken \in free /\ Taken \in Frames
      BY <2>2, <1>2, TakenFree DEF Taken
    <3>2. /\ free' = free \ {Taken} /\ tables' = [tables EXCEPT ![0] = Taken]
          /\ DOMAIN pages' = Identity
      BY <2>2 DEF init_paging
    <3> QED
      BY <3>1, <3>2, <1>1, <1>2, DirsPositive
  <2> QED
    BY <2>1, <2>2
<1>5. Identity \subseteq VPages
  <2>1. ENTRIES <= ENTRIES * DIRS
    BY DirsPositive
  <2> QED
    BY <2>1, DirsPositive DEF Identity, VPages
<1>6. VarsOK'
  <2>1. CallOK'
    BY <1>3, VmAssumption DEF CallOK
  <2>2. TypeOK'
    BY <1>1, <1>2, <1>3, <1>4, <1>5, CallFields DEF TypeOK
  <2> QED
    BY <2>1, <2>2, <1>1, <1>3 DEF VarsOK
<1>7. NoAlias' /\ TablesLow'
  <2>1. DOMAIN tables' = 0..(DIRS - 1)
    BY <1>4
  <2> QED
    BY <2>1, <1>4, DirsPositive DEF NoAlias, TableFrames, TablesLow
<1>8. BootState' /\ UnmappedNotCached' /\ CachedUser' /\ CodeInUserFrames'
  BY <1>1, <1>3 DEF BootState, UnmappedNotCached, CachedUser, CodeInUserFrames
<1>9. RamdiskSound' /\ LostOnlyWhenOut' /\ HeapSoFar'
  <2>1. call' # Lost /\ call'.off = 0
    BY <1>3, CallFields
  <2> QED
    BY <2>1, <1>1, <1>3 DEF RamdiskSound, LostOnlyWhenOut, HeapSoFar
<1> QED
  BY <1>6, <1>7, <1>8, <1>9 DEF VmInv

-----------------------------------------------------------------------------
\* Steps that only drop mappings and drop or fill cached translations.
LEMMA Remapped ==
    ASSUME VmInv, UNCHANGED <<paging, free, tables, mem, ramdisk, call>>,
           paging # "unset", call.op = "heap" => pages' = pages,
           DOMAIN pages' \subseteq DOMAIN pages,
           \A w \in DOMAIN pages' : pages'[w] = pages[w],
           \A w \in DOMAIN tlb' :
               /\ w \in DOMAIN pages' \ Identity
               /\ \/ w \in DOMAIN tlb /\ tlb'[w] = tlb[w]
                  \/ w \in DOMAIN pages /\ tlb'[w] = pages[w]
    PROVE  VmInv'
<1>1. TypeOK /\ CallOK /\ NoAlias /\ CachedUser
  BY DEF VmInv, VarsOK
<1>2. VarsOK'
  <2>1. CallOK'
    BY <1>1 DEF CallOK
  <2>2. ASSUME NEW w \in DOMAIN tlb' PROVE w \in VPages \ Identity /\ tlb'[w] \in Frames
    BY <1>1 DEF TypeOK
  <2>3. TypeOK'
    BY <1>1, <2>2 DEF TypeOK
  <2> QED
    BY <2>1, <2>3 DEF VmInv, VarsOK
<1>3. TableFrames' = TableFrames /\ HeapFrames' \subseteq HeapFrames
  BY DEF TableFrames, HeapFrames
<1>4. NoAlias'
  BY <1>1, <1>3 DEF NoAlias
<1>5. CachedUser'
  <2> SUFFICES ASSUME NEW w \in DOMAIN tlb' \ HeapRange
               PROVE  tlb'[w] \notin free \cup TableFrames \cup HeapFrames
    BY <1>3 DEF CachedUser
  <2>1. CASE w \in DOMAIN tlb /\ tlb'[w] = tlb[w]
    BY <2>1, <1>1 DEF CachedUser
  <2>2. CASE w \in DOMAIN pages /\ tlb'[w] = pages[w]
    <3>1. w \notin Identity /\ HeapRange \cap Identity = {}
      BY ClientPages
    <3>2. pages[w] \notin free \cup TableFrames
      BY <3>1, <2>2, <1>1 DEF NoAlias
    <3>3. pages[w] \notin HeapFrames
      BY <3>1, <2>2, <1>1 DEF NoAlias, HeapFrames
    <3> QED
      BY <2>2, <3>2, <3>3
  <2> QED
    BY <2>1, <2>2
<1>6. CodeInUserFrames'
  BY <1>3 DEF VmInv, CodeInUserFrames, HeapFrames
<1>7. BootState' /\ TablesLow' /\ UnmappedNotCached' /\ RamdiskSound' /\ LostOnlyWhenOut'
  BY DEF VmInv, BootState, TablesLow, UnmappedNotCached, RamdiskSound, LostOnlyWhenOut
<1>8. HeapSoFar'
  BY DEF VmInv, HeapSoFar
<1> QED
  BY <1>2, <1>4, <1>5, <1>6, <1>7, <1>8 DEF VmInv

\* vmm_unmap_page, the CR3 reload, a program's access and an eviction.
LEMMA RemapInv ==
    ASSUME VmInv,
           \/ \E v \in VPages \ Identity : vmm_unmap_page(v) \/ Touch(v) \/ Evict(v)
           \/ switch_page_directory
    PROVE  VmInv'
<1>1. /\ UnmappedNotCached /\ \A w \in DOMAIN tlb : w \in DOMAIN pages \ Identity
      /\ paging = "unset" => DOMAIN pages = {} /\ DOMAIN tlb = {}
  BY DEF VmInv, VarsOK, TypeOK, UnmappedNotCached, BootState
<1>2. ASSUME NEW v \in VPages \ Identity, vmm_unmap_page(v) PROVE VmInv'
  <2>1. /\ UNCHANGED <<paging, free, tables, mem, ramdisk, call>> /\ paging # "unset"
        /\ call.op # "heap"
    BY <1>2, CallFields DEF vmm_unmap_page
  <2>2. CASE tables[Dir(v)] = NULL
    <3>1. pages' = pages /\ tlb' = tlb
      BY <1>2, <2>2 DEF vmm_unmap_page, unmap_page
    <3> QED
      BY <3>1, <2>1, <1>1, Remapped
  <2>3. CASE tables[Dir(v)] # NULL
    <3>1. pages' = [w \in DOMAIN pages \ {v} |-> pages[w]]
      BY <1>2, <2>3 DEF vmm_unmap_page, unmap_page, Unbind
    <3>2. tlb' = [w \in DOMAIN tlb \ {v} |-> tlb[w]]
      BY <1>2, <2>3 DEF vmm_unmap_page, unmap_page, Unbind
    <3>3. DOMAIN pages' \subseteq DOMAIN pages /\ \A w \in DOMAIN pages' : pages'[w] = pages[w]
      BY <3>1
    <3>4. \A w \in DOMAIN tlb' :
               /\ w \in DOMAIN pages' \ Identity
               /\ w \in DOMAIN tlb /\ tlb'[w] = tlb[w]
      BY <3>1, <3>2, <1>1
    <3> QED
      BY <3>3, <3>4, <2>1, Remapped
  <2> QED
    BY <2>2, <2>3
<1>3. ASSUME NEW v \in VPages \ Identity, Touch(v) PROVE VmInv'
  <2>1. /\ UNCHANGED <<paging, free, tables, mem, ramdisk, call>> /\ pages' = pages
        /\ v \in DOMAIN pages
    BY <1>3 DEF Touch
  <2>2. tlb' = [w \in DOMAIN tlb \cup {v} |-> IF w = v THEN pages[v] ELSE tlb[w]]
    BY <1>3 DEF Touch, Bind
  <2>3. \A w \in DOMAIN tlb' :
               /\ w \in DOMAIN pages' \ Identity
               /\ \/ w \in DOMAIN tlb /\ tlb'[w] = tlb[w]
                  \/ w \in DOMAIN pages /\ tlb'[w] = pages[w]
    BY <2>1, <2>2, <1>1
  <2> QED
    BY <2>1, <2>3, <1>1, Remapped
<1>4. ASSUME NEW v \in VPages \ Identity, Evict(v) PROVE VmInv'
  <2>1. /\ UNCHANGED <<paging, free, tables, mem, ramdisk, call>> /\ pages' = pages
        /\ v \in DOMAIN tlb
    BY <1>4 DEF Evict
  <2>2. tlb' = [w \in DOMAIN tlb \ {v} |-> tlb[w]]
    BY <1>4 DEF Evict, Unbind
  <2>3. \A w \in DOMAIN tlb' :
               /\ w \in DOMAIN pages' \ Identity
               /\ w \in DOMAIN tlb /\ tlb'[w] = tlb[w]
    BY <2>1, <2>2, <1>1
  <2> QED
    BY <2>1, <2>3, <1>1, Remapped
<1>5. ASSUME switch_page_directory PROVE VmInv'
  <2>1. /\ UNCHANGED <<paging, free, tables, mem, ramdisk, call>> /\ pages' = pages
        /\ paging # "unset" /\ DOMAIN tlb' = {}
    BY <1>5 DEF switch_page_directory
  <2> QED
    BY <2>1, Remapped
<1> QED
  BY <1>2, <1>3, <1>4, <1>5

-----------------------------------------------------------------------------
\* A step that leaves memory as it is and moves to a call that is not a heap
\* loop in progress, nor lost.
LEMMA OtherCall ==
    ASSUME VmInv, UNCHANGED <<paging, free, tables, pages, tlb, mem>>,
           paging # "unset", CallOK', call'.op \notin {"heap", "lost"},
           ramdisk' \in Seq([name : Names, data : Programs]), RamdiskSound'
    PROVE  VmInv'
<1>1. VarsOK'
  <2>1. call'.op \in {"idle", "lost", "heap", "load"} /\ call'.off \in Nat
    BY CallFields, ClientPages, VmAssumption DEF CallOK
  <2> QED
    BY <2>1 DEF VmInv, VarsOK, TypeOK, RamdiskSound
<1>2. NoAlias' /\ TablesLow' /\ UnmappedNotCached' /\ CachedUser' /\ CodeInUserFrames'
  <2>1. TableFrames' = TableFrames /\ HeapFrames' = HeapFrames
    BY DEF TableFrames, HeapFrames
  <2> QED
    BY <2>1 DEF VmInv, NoAlias, TablesLow, UnmappedNotCached, CachedUser, CodeInUserFrames,
                HeapFrames
<1>3. BootState' /\ LostOnlyWhenOut' /\ HeapSoFar'
  BY CallFields DEF VmInv, BootState, LostOnlyWhenOut, HeapSoFar
<1> QED
  BY <1>1, <1>2, <1>3 DEF VmInv

\* The end of the heap's loop, a load that starts and a load that finds no frame.
LEMMA CallInv ==
    ASSUME VmInv, HeapEnd \/ LoadFails \/ \E name \in Names : ramdisk_load(name)
    PROVE  VmInv'
<1>1. ramdisk \in Seq([name : Names, data : Programs]) /\ RamdiskSound
  BY DEF VmInv, VarsOK
<1>2. CASE HeapEnd \/ LoadFails
  <2>1. /\ UNCHANGED <<paging, free, tables, pages, tlb, mem, ramdisk>> /\ call' = Idle
        /\ call # Idle
    BY <1>2, CallFields DEF HeapEnd, LoadFails
  <2>2. paging # "unset" /\ CallOK' /\ call'.op \notin {"heap", "lost"} /\ RamdiskSound'
    BY <2>1, <1>1, CallFields DEF VmInv, BootState, CallOK, RamdiskSound
  <2> QED
    BY <2>1, <2>2, <1>1, OtherCall
<1>3. ASSUME NEW name \in Names, ramdisk_load(name) PROVE VmInv'
  <2> DEFINE p == ramdisk[Min(Entries(name))].data
  <2>1. /\ UNCHANGED <<paging, free, tables, pages, tlb, mem, ramdisk>> /\ paging # "unset"
        /\ call' = Call("load", p, 0) /\ Entries(name) # {}
    BY <1>3 DEF ramdisk_load
  <2>2. Entries(name) \subseteq Nat /\ Entries(name) \subseteq 1..Len(ramdisk)
    BY <1>1 DEF Entries
  <2>3. Min(Entries(name)) \in 1..Len(ramdisk)
    BY <2>1, <2>2, MinNat
  <2>4. p \in Programs
    <3> DEFINE k == Min(Entries(name))
    <3> HIDE DEF k
    <3>1. k \in 1..Len(ramdisk)
      BY <2>3 DEF k
    <3>2. ramdisk[k] \in [name : Names, data : Programs]
      BY <3>1, <1>1, ElementOfSeq
    <3>3. ramdisk[k].data \in Programs
      BY <3>2
    <3> QED
      BY <3>3 DEF k
  <2> HIDE DEF p
  <2>5. CallOK' /\ call'.op = "load" /\ RamdiskSound'
    BY <2>1, <2>4, <1>1, CallFields, ClientPages DEF CallOK, RamdiskSound
  <2> QED
    BY <2>1, <2>5, <1>1, OtherCall
<1> QED
  BY <1>2, <1>3

\* ramdisk_register replaces the entry of its name or appends one.
LEMMA RegisterInv ==
    ASSUME VmInv, NEW name \in Names, NEW p \in Programs, ramdisk_register(name, p)
    PROVE  VmInv'
<1> DEFINE R == [name : Names, data : Programs]
           e == [name |-> name, data |-> p]
           n == Len(ramdisk)
<1>1. /\ ramdisk \in Seq(R) /\ n <= RAMDISK_MAX /\ n \in Nat /\ RAMDISK_MAX \in Nat
      /\ \A i, j \in 1..n : ramdisk[i].name = ramdisk[j].name => i = j
  BY VmAssumption DEF VmInv, VarsOK, RamdiskSound
<1>2. /\ UNCHANGED <<paging, free, tables, pages, tlb, mem, call>> /\ paging # "unset"
      /\ call = Idle
      /\ ramdisk' = IF Entries(name) # {} THEN [ramdisk EXCEPT ![Min(Entries(name))] = e]
                    ELSE IF n < RAMDISK_MAX THEN Append(ramdisk, e) ELSE ramdisk
  BY DEF ramdisk_register
<1>3. e \in R /\ e.name = name
  OBVIOUS
<1> HIDE DEF e
<1>4. /\ ramdisk' \in Seq(R) /\ Len(ramdisk') <= RAMDISK_MAX
      /\ \A i, j \in 1..Len(ramdisk') : ramdisk'[i].name = ramdisk'[j].name => i = j
  <2>1. CASE Entries(name) # {}
    <3> DEFINE k == Min(Entries(name))
    <3>1. Entries(name) \subseteq Nat
      BY <1>1 DEF Entries
    <3>2. k \in 1..n /\ ramdisk[k].name = name
      <4>1. k \in Entries(name)
        BY <3>1, <2>1, MinNat
      <4> QED
        BY <4>1, <1>1 DEF Entries
    <3>3. ramdisk' = [ramdisk EXCEPT ![k] = e]
      BY <1>2, <2>1
    <3> HIDE DEF k
    <3>4. /\ ramdisk' \in Seq(R) /\ Len(ramdisk') = n
          /\ \A i \in 1..n : ramdisk'[i] = IF i = k THEN e ELSE ramdisk[i]
      BY <3>2, <3>3, <1>1, <1>3
    <3>5. \A i \in 1..n : ramdisk'[i].name = ramdisk[i].name
      BY <3>2, <3>4, <1>3
    <3> QED
      BY <3>4, <3>5, <1>1
  <2>2. CASE Entries(name) = {} /\ n < RAMDISK_MAX
    <3>1. ramdisk' = Append(ramdisk, e)
      BY <1>2, <2>2
    <3>2. /\ ramdisk' \in Seq(R) /\ Len(ramdisk') = n + 1 /\ ramdisk'[n + 1] = e
          /\ \A i \in 1..n : ramdisk'[i] = ramdisk[i]
      BY <3>1, <1>1, <1>3
    <3>3. \A i \in 1..n : ramdisk[i].name # name
      BY <2>2, <1>1 DEF Entries
    <3>4. \A i, j \in 1..(n + 1) : ramdisk'[i].name = ramdisk'[j].name => i = j
      BY <3>2, <3>3, <1>1, <1>3
    <3> QED
      BY <3>2, <3>4, <2>2, <1>1
  <2>3. CASE Entries(name) = {} /\ ~(n < RAMDISK_MAX)
    BY <2>3, <1>1, <1>2
  <2> QED
    BY <2>1, <2>2, <2>3
<1>5. RamdiskSound' /\ CallOK' /\ call'.op \notin {"heap", "lost"}
  <2>1. DOMAIN ramdisk' = 1..Len(ramdisk')
    BY <1>4
  <2>2. RamdiskSound'
    BY <2>1, <1>4 DEF RamdiskSound
  <2> QED
    BY <2>2, <1>2, CallFields DEF CallOK
<1> QED
  BY <1>2, <1>4, <1>5, OtherCall

-----------------------------------------------------------------------------
\* A loop's step: map_page of a newly taken frame at v, with what the caller
\* does to the cache, to memory and to its own progress.
LEMMA Mapped ==
    ASSUME VmInv, NEW v \in VPages \ Identity, free # {},
           map_page(v, Taken, free \ {Taken}),
           UNCHANGED <<paging, ramdisk>>, paging # "unset", CallOK',
           \A w \in DOMAIN tlb' : \/ w \in DOMAIN tlb /\ tlb'[w] = tlb[w]
                                  \/ w = v /\ v \in DOMAIN pages' /\ tlb'[w] = pages'[w],
           mem' \in [Frames -> {Blank} \cup (Programs \X Nat)],
           \A f \in Frames : mem'[f] # Blank => mem[f] # Blank \/ f \notin Uses',
           LostOnlyWhenOut', HeapSoFar'
    PROVE  VmInv'
<1>1. TypeOK /\ CallOK /\ CachedUser /\ UnmappedNotCached /\ CodeInUserFrames
  BY DEF VmInv, VarsOK
<1>2. /\ free' \subseteq free /\ tables' \in [0..(DIRS - 1) -> Frames \cup {NULL}] /\ TablesLow'
  BY MapPage
<1>3. /\ NoAlias' /\ DOMAIN pages \subseteq DOMAIN pages' /\ DOMAIN pages' \subseteq VPages
      /\ \A w \in DOMAIN pages' \ Identity : pages'[w] \in Frames
      /\ \A f : f \notin Uses => f \notin Uses'
      /\ v \notin HeapRange /\ v \in DOMAIN pages' => pages'[v] \notin Uses'
  BY MapPagePages
<1>4. \A w \in DOMAIN tlb : w \in DOMAIN pages \ Identity /\ tlb[w] \in Frames
  BY <1>1 DEF TypeOK, UnmappedNotCached
<1>5. \A w \in DOMAIN tlb' : w \in DOMAIN pages' \ Identity /\ tlb'[w] \in Frames
  BY <1>3, <1>4
<1>6. VarsOK'
  <2>1. call'.op \in {"idle", "lost", "heap", "load"} /\ call'.off \in Nat
    BY CallFields, ClientPages, VmAssumption DEF CallOK
  <2>2. TypeOK'
    BY <2>1, <1>1, <1>2, <1>3, <1>5 DEF TypeOK
  <2> QED
    BY <2>2 DEF VmInv, VarsOK
<1>7. CachedUser'
  <2> SUFFICES ASSUME NEW w \in DOMAIN tlb' \ HeapRange PROVE tlb'[w] \notin Uses'
    BY DEF CachedUser, Uses
  <2>1. w \in DOMAIN tlb => tlb[w] \notin Uses
    BY <1>1 DEF CachedUser, Uses
  <2> QED
    BY <2>1, <1>3
<1>8. CodeInUserFrames'
  <2> SUFFICES ASSUME NEW f \in Frames, mem'[f] # Blank PROVE f \notin Uses'
    BY DEF CodeInUserFrames, Uses, HeapFrames
  <2>1. mem[f] # Blank => f \notin Uses
    BY <1>1 DEF CodeInUserFrames, Uses, HeapFrames
  <2> QED
    BY <2>1, <1>3
<1>9. UnmappedNotCached' /\ BootState' /\ RamdiskSound'
  BY <1>5 DEF UnmappedNotCached, BootState, VmInv, RamdiskSound
<1> QED
  BY <1>2, <1>3, <1>6, <1>7, <1>8, <1>9 DEF VmInv

\* A page of the heap.
LEMMA HeapPageInv ==
    ASSUME VmInv, HeapPage
    PROVE  VmInv'
<1>1. PICK off \in 0..(HeapPages - 1) : call = Call("heap", NoProgram, off)
  <2>1. call.op = "heap" /\ call.off < HeapPages /\ CallOK
    BY DEF HeapPage, VmInv, VarsOK
  <2>2. PICK off \in 0..HeapPages : call = Call("heap", NoProgram, off)
    BY <2>1, CallFields DEF CallOK
  <2> QED
    BY <2>1, <2>2, CallFields, VmAssumption
<1>2. /\ off \in Nat /\ call.off = off /\ call.op = "heap" /\ off + 1 \in 0..HeapPages
      /\ [call EXCEPT !.off = @ + 1] = Call("heap", NoProgram, off + 1) /\ call # Idle
  BY <1>1, CallFields, VmAssumption
<1>3. UNCHANGED <<paging, tlb, mem, ramdisk>> /\ paging # "unset"
  BY <1>2 DEF HeapPage, VmInv, BootState
<1>4. Call("heap", NoProgram, off + 1).off = off + 1 /\ Lost.op # "heap"
      /\ Call("heap", NoProgram, off + 1) # Lost
  BY CallFields
<1>5. CASE free = {}
  <2>1. /\ UNCHANGED <<free, tables, pages>> /\ call' = Call("heap", NoProgram, off + 1)
    BY <1>2, <1>5 DEF HeapPage
  <2>2. CallOK' /\ LostOnlyWhenOut' /\ HeapSoFar'
    BY <2>1, <1>2, <1>4, <1>5 DEF CallOK, LostOnlyWhenOut, HeapSoFar
  <2>3. VarsOK'
    <3>1. call'.op \in {"idle", "lost", "heap", "load"} /\ call'.off \in Nat
      BY <2>1, <1>2, CallFields
    <3> QED
      BY <3>1, <2>1, <2>2, <1>3 DEF VmInv, VarsOK, TypeOK
  <2>4. TableFrames' = TableFrames /\ HeapFrames' = HeapFrames
    BY <2>1 DEF TableFrames, HeapFrames
  <2>5. NoAlias' /\ TablesLow' /\ UnmappedNotCached' /\ CachedUser' /\ CodeInUserFrames'
    BY <2>1, <2>4, <1>3 DEF VmInv, NoAlias, TablesLow, UnmappedNotCached, CachedUser,
                            CodeInUserFrames, HeapFrames
  <2>6. BootState' /\ RamdiskSound'
    BY <1>3 DEF VmInv, BootState, RamdiskSound
  <2> QED
    BY <2>2, <2>3, <2>5, <2>6 DEF VmInv
<1>6. CASE free # {}
  <2> DEFINE v == HeapBase + off
             fr == free \ {Taken}
  <2>1. /\ map_page(v, Taken, fr)
        /\ call' = IF Strays(v, fr) THEN Lost ELSE Call("heap", NoProgram, off + 1)
    BY <1>2, <1>6 DEF HeapPage
  <2>2. v \in VPages \ Identity
    BY ClientPages
  <2>3. /\ Strays(v, fr) => free' \cap Identity = {}
        /\ ~Strays(v, fr) => free' = {} \/ pages' = Bind(pages, v, Taken)
        /\ free' \subseteq free
    BY <2>1, <2>2, <1>6, MapPage
  <2>4. DOMAIN pages \subseteq DOMAIN pages'
    BY <2>1, <2>2, <1>6, MapPagePages
  <2>5. CallOK' /\ LostOnlyWhenOut'
    BY <2>1, <2>3, <1>2, <1>4 DEF CallOK, LostOnlyWhenOut
  <2>6. HeapSoFar'
    <3> SUFFICES ASSUME call'.op = "heap", free' # {}, NEW k \in 0..(call'.off - 1)
                 PROVE  HeapBase + k \in DOMAIN pages'
      BY DEF HeapSoFar
    <3>1. ~Strays(v, fr) /\ call'.off = off + 1
      BY <2>1, <1>4
    <3>2. v \in DOMAIN pages'
      BY <3>1, <2>3 DEF Bind
    <3>3. \A j \in 0..(off - 1) : HeapBase + j \in DOMAIN pages
      BY <1>2, <1>6 DEF VmInv, HeapSoFar
    <3>4. k = off \/ k \in 0..(off - 1)
      BY <3>1, <1>2
    <3> QED
      BY <3>2, <3>3, <3>4, <2>4
  <2>7. mem' \in [Frames -> {Blank} \cup (Programs \X Nat)]
    BY <1>3 DEF VmInv, VarsOK, TypeOK
  <2> HIDE DEF v
  <2> QED
    BY <2>1, <2>2, <2>5, <2>6, <2>7, <1>3, <1>6, Mapped
<1> QED
  BY <1>5, <1>6

\* A load in progress is at a page of its image or at the stack.
LEMMA LoadCall ==
    ASSUME VmInv, call.op = "load"
    PROVE  /\ paging # "unset" /\ call.prog \in Programs /\ call.off \in 0..PagesOf[call.prog]
           /\ [call EXCEPT !.off = @ + 1] = Call("load", call.prog, call.off + 1)
<1>1. PICK p \in Programs : \E off \in 0..PagesOf[p] : call = Call("load", p, off)
  BY CallFields DEF VmInv, VarsOK, CallOK
<1>2. PICK off \in 0..PagesOf[p] : call = Call("load", p, off)
  BY <1>1
<1>3. call.prog = p /\ call.off = off /\ call # Idle
  BY <1>2, CallFields
<1>4. paging # "unset"
  BY <1>3 DEF VmInv, BootState
<1> QED
  BY <1>1, <1>2, <1>3, <1>4, CallFields

\* A copy to a user frame puts code in user frames only.
LEMMA Copied ==
    ASSUME NEW g \in Frames, NEW c \in Programs \X Nat,
           mem \in [Frames -> {Blank} \cup (Programs \X Nat)],
           mem' = [mem EXCEPT ![g] = c]
    PROVE  /\ mem' \in [Frames -> {Blank} \cup (Programs \X Nat)]
           /\ \A f \in Frames : mem'[f] # Blank => mem[f] # Blank \/ f = g
  OBVIOUS

\* A page of a program's code.
LEMMA LoadPageInv ==
    ASSUME VmInv, LoadPage
    PROVE  VmInv'
<1> DEFINE v == UserBase + call.off
           fr == free \ {Taken}
           p == call.prog
           c == <<call.prog, call.off>>
           next == Call("load", p, call.off + 1)
<1>1. /\ call.op = "load" /\ free # {} /\ call.off < PagesOf[p] /\ map_page(v, Taken, fr)
      /\ IF Strays(v, fr) THEN call' = Lost /\ UNCHANGED <<mem, tlb>> ELSE CopyTo(v)
      /\ UNCHANGED <<paging, ramdisk>>
  BY DEF LoadPage
<1>2. /\ paging # "unset" /\ p \in Programs /\ call.off \in 0..PagesOf[p] /\ PagesOf[p] \in Nat
      /\ [call EXCEPT !.off = @ + 1] = next
  BY <1>1, LoadCall, ClientPages
<1>3. v \in VPages \ (Identity \cup HeapRange) /\ call.off + 1 \in 0..PagesOf[p]
      /\ c \in Programs \X Nat
  BY <1>1, <1>2, ClientPages
<1> HIDE DEF v, c
<1>4. /\ Strays(v, fr) => free' \cap Identity = {}
      /\ ~Strays(v, fr) => free' = {} \/ pages' = Bind(pages, v, Taken)
  BY <1>1, <1>3, MapPage
<1>5. /\ v \in DOMAIN pages' => pages'[v] \notin Uses' /\ pages'[v] \in Frames
      /\ \A f : f \notin Uses => f \notin Uses'
  BY <1>1, <1>3, MapPagePages
<1>6. mem \in [Frames -> {Blank} \cup (Programs \X Nat)]
  BY DEF VmInv, VarsOK, TypeOK
<1>7. /\ CallOK' /\ LostOnlyWhenOut'
      /\ call' = Lost \/ call' = next
      /\ \A w \in DOMAIN tlb' : \/ w \in DOMAIN tlb /\ tlb'[w] = tlb[w]
                                \/ w = v /\ v \in DOMAIN pages' /\ tlb'[w] = pages'[w]
      /\ mem' \in [Frames -> {Blank} \cup (Programs \X Nat)]
      /\ \A f \in Frames : mem'[f] # Blank => mem[f] # Blank \/ f \notin Uses'
  <2>1. CASE Strays(v, fr)
    BY <2>1, <1>1, <1>4, <1>6 DEF CallOK, LostOnlyWhenOut
  <2>2. ASSUME call' = next PROVE CallOK' /\ LostOnlyWhenOut'
    <3>1. CallOK'
      BY <2>2, <1>2, <1>3 DEF CallOK
    <3>2. call' # Lost
      BY <2>2, CallFields
    <3> QED
      BY <3>1, <3>2 DEF LostOnlyWhenOut
  <2>3. CASE ~Strays(v, fr) /\ v \in DOMAIN tlb
    <3>1. mem' = [mem EXCEPT ![tlb[v]] = c] /\ call' = next /\ tlb' = tlb
      BY <2>3, <1>1, <1>2 DEF CopyTo, c
    <3>2. tlb[v] \in Frames /\ tlb[v] \notin Uses
      BY <2>3, <1>3 DEF VmInv, VarsOK, TypeOK, CachedUser, Uses
    <3>3. /\ mem' \in [Frames -> {Blank} \cup (Programs \X Nat)]
          /\ \A f \in Frames : mem'[f] # Blank => mem[f] # Blank \/ f = tlb[v]
      BY <3>1, <3>2, <1>3, <1>6, Copied
    <3> QED
      BY <3>1, <3>2, <3>3, <2>2, <1>5
  <2>4. CASE ~Strays(v, fr) /\ v \notin DOMAIN tlb /\ v \in DOMAIN pages'
    <3> DEFINE g == pages'[v]
    <3>1. mem' = [mem EXCEPT ![g] = c] /\ call' = next /\ tlb' = Bind(tlb, v, g)
      BY <2>4, <1>1, <1>2 DEF CopyTo, c
    <3>2. g \in Frames /\ g \notin Uses'
      BY <2>4, <1>5
    <3> HIDE DEF g
    <3>3. /\ mem' \in [Frames -> {Blank} \cup (Programs \X Nat)]
          /\ \A f \in Frames : mem'[f] # Blank => mem[f] # Blank \/ f = g
      BY <3>1, <3>2, <1>3, <1>6, Copied
    <3>4. tlb' = [w \in DOMAIN tlb \cup {v} |-> IF w = v THEN g ELSE tlb[w]]
      BY <3>1 DEF Bind
    <3>5. \A w \in DOMAIN tlb' : \/ w \in DOMAIN tlb /\ tlb'[w] = tlb[w]
                                 \/ w = v /\ v \in DOMAIN pages' /\ tlb'[w] = pages'[w]
      BY <3>4, <2>4 DEF g
    <3> QED
      BY <3>1, <3>2, <3>3, <3>5, <2>2
  <2>5. CASE ~Strays(v, fr) /\ v \notin DOMAIN tlb /\ v \notin DOMAIN pages'
    <3>1. call' = Lost /\ mem' = mem /\ tlb' = tlb
      BY <2>5, <1>1 DEF CopyTo
    <3>2. v \in DOMAIN Bind(pages, v, Taken)
      BY DEF Bind
    <3>3. free' = {}
      BY <3>2, <2>5, <1>4
    <3> QED
      BY <3>1, <3>3, <1>6 DEF CallOK, LostOnlyWhenOut
  <2> QED
    BY <2>1, <2>3, <2>4, <2>5
<1>8. HeapSoFar'
  BY <1>7, CallFields DEF HeapSoFar
<1> QED
  BY <1>1, <1>2, <1>3, <1>7, <1>8, Mapped

\* The stack page, the last step of a load.
LEMMA LoadStackInv ==
    ASSUME VmInv, LoadStack
    PROVE  VmInv'
<1> DEFINE v == StackPage
           fr == free \ {Taken}
<1>1. /\ call.op = "load" /\ free # {} /\ map_page(v, Taken, fr)
      /\ call' = IF Strays(v, fr) THEN Lost ELSE Idle
      /\ UNCHANGED <<paging, tlb, mem, ramdisk>>
  BY DEF LoadStack
<1>2. paging # "unset" /\ v \in VPages \ Identity
  BY <1>1, LoadCall, ClientPages
<1>3. Strays(v, fr) => free' \cap Identity = {}
  BY <1>1, <1>2, MapPage
<1>4. Idle # Lost /\ Idle.op # "heap" /\ Lost.op # "heap"
  BY CallFields
<1>5. CallOK' /\ LostOnlyWhenOut' /\ HeapSoFar'
  BY <1>1, <1>3, <1>4 DEF CallOK, LostOnlyWhenOut, HeapSoFar
<1>6. mem' \in [Frames -> {Blank} \cup (Programs \X Nat)]
  BY <1>1 DEF VmInv, VarsOK, TypeOK
<1> QED
  BY <1>1, <1>2, <1>5, <1>6, Mapped

-----------------------------------------------------------------------------
\* Every step keeps the invariant.
LEMMA VmStep == VmInv /\ [Next]_vmVars => VmInv'
<1> SUFFICES ASSUME VmInv, [Next]_vmVars PROVE VmInv'
  OBVIOUS
<1>1. CASE init_paging
  BY <1>1, init_pagingInv
<1>2. CASE \/ \E v \in VPages \ Identity : vmm_unmap_page(v) \/ Touch(v) \/ Evict(v)
           \/ switch_page_directory
  BY <1>2, RemapInv
<1>3. CASE HeapPage
  BY <1>3, HeapPageInv
<1>4. CASE HeapEnd \/ LoadFails \/ \E name \in Names : ramdisk_load(name)
  BY <1>4, CallInv
<1>5. CASE \E name \in Names : \E p \in Programs : ramdisk_register(name, p)
  BY <1>5, RegisterInv
<1>6. CASE LoadPage
  BY <1>6, LoadPageInv
<1>7. CASE LoadStack
  BY <1>7, LoadStackInv
<1>8. CASE UNCHANGED vmVars
  BY <1>8 DEF vmVars, VmInv, VarsOK, TypeOK, CallOK, BootState, NoAlias, TableFrames, TablesLow,
              UnmappedNotCached, CachedUser, HeapFrames, CodeInUserFrames, RamdiskSound,
              LostOnlyWhenOut, HeapSoFar
<1>9. CASE Refault
  BY <1>8, <1>9 DEF Refault
<1> QED
  BY <1>1, <1>2, <1>3, <1>4, <1>5, <1>6, <1>7, <1>8, <1>9 DEF Next

\* The invariant holds in every state the kernel reaches.
THEOREM VmInvariant == Spec => []VmInv
  BY VmInitInv, VmStep, PTL DEF Spec

\* Every variable of paging and its clients keeps to its type.
THEOREM VmType == Spec => []TypeOK
<1>1. VmInv => TypeOK
  BY DEF VmInv, VarsOK
<1> QED
  BY <1>1, VmInvariant, PTL

\* map_page, unmap_page and the two loops never give a frame two uses, whatever
\* is remapped, skipped or cut short and however many frames the machine has.
THEOREM VmNoAlias == Spec => []NoAlias
<1>1. VmInv => NoAlias
  BY DEF VmInv
<1> QED
  BY <1>1, VmInvariant, PTL

\* unmap_page flushes what it unmaps: no translation is cached of an unmapped page.
THEOREM VmUnmappedNotCached == Spec => []UnmappedNotCached
<1>1. VmInv => UnmappedNotCached
  BY DEF VmInv
<1> QED
  BY <1>1, VmInvariant, PTL

\* ramdisk_load copies code into user frames only, even through translations that
\* map_page has left out of date.
THEOREM VmCodeInUserFrames == Spec => []CodeInUserFrames
<1>1. VmInv => CodeInUserFrames
  BY DEF VmInv
<1> QED
  BY <1>1, VmInvariant, PTL

\* ramdisk_register keeps the table within its bound and has each name once.
THEOREM VmRamdiskSound == Spec => []RamdiskSound
<1>1. VmInv => RamdiskSound
  BY DEF VmInv
<1> QED
  BY <1>1, VmInvariant, PTL

\* The kernel writes through an address that is not mapped only when low memory
\* has no frame left.
THEOREM VmLostOnlyWhenOut == Spec => []LostOnlyWhenOut
<1>1. VmInv => LostOnlyWhenOut
  BY DEF VmInv
<1> QED
  BY <1>1, VmInvariant, PTL

\* init_kheap's loop leaves a hole in the heap only if the frames ran out.
THEOREM VmHeapBacked == Spec => []HeapBacked
<1>1. VmInv => HeapBacked
  <2> SUFFICES ASSUME VmInv, call.op = "heap", call.off = HeapPages, free # {}
               PROVE  HeapRange \subseteq DOMAIN pages
    BY DEF HeapBacked
  <2>1. \A k \in 0..(HeapPages - 1) : HeapBase + k \in DOMAIN pages
    BY DEF VmInv, HeapSoFar
  <2>2. ASSUME NEW v \in HeapRange
        PROVE  v - HeapBase \in 0..(HeapPages - 1) /\ HeapBase + (v - HeapBase) = v
    BY VmAssumption DEF HeapRange
  <2> QED
    BY <2>1, <2>2
<1> QED
  BY <1>1, VmInvariant, PTL
===============================================================================
