---------------------------------- MODULE Vm ----------------------------------
(***************************************************************************)
(* Paging, kernel/paging.c and vmm.c, with its two clients: the loop of    *)
(* init_kheap that maps the heap and the ramdisk loader of syscall.c.      *)
(* There is one page directory in the kernel.  Virtual pages and frames    *)
(* are named by their number; frame contents are told apart only by which  *)
(* page of which program was copied there.                                 *)
(*                                                                         *)
(* The kernel writes page tables through their physical address, which     *)
(* works in the identity-mapped low memory only.  The processor keeps      *)
(* translations it has used until they are flushed or evicted.             *)
(***************************************************************************)
EXTENDS Integers, Sequences, FiniteSetsExt

CONSTANTS
    ENTRIES,       \* entries of a page table (1024): the identity map's length
    DIRS,          \* entries of the page directory (1024)
    Frames,        \* the frame numbers of the machine
    Pools,         \* the sets of frames that may be free when paging starts
    HeapBase,      \* page of kernel_heap.start, 0xD0000000
    HeapPages,     \* pages of the heap
    UserBase,      \* page of user_base, 0x400000
    StackPage,     \* page below 0xBFC00000
    RAMDISK_MAX,   \* ramdisk entries (8)
    Names,         \* names of programs
    Programs,      \* program images
    PagesOf        \* image -> its length in pages

NULL == 0
VPages == 0..(ENTRIES * DIRS - 1)
Identity == 0..(ENTRIES - 1)
Dir(v) == v \div ENTRIES
HeapRange == HeapBase..(HeapBase + HeapPages - 1)

VARIABLES
    paging,     \* "unset", then "on" or "failed"
    free,       \* frames the frame allocator would hand out
    tables,     \* directory index -> frame of its page table, or NULL
    pages,      \* present pages -> frame
    tlb,        \* translations the processor has cached
    mem,        \* frame -> <<image, page>> copied to it, or Blank
    ramdisk,    \* the registered images, in table order
    call        \* the loop in progress, Idle, or Lost

vmVars == <<paging, free, tables, pages, tlb, mem, ramdisk, call>>

Blank == <<>>
NoProgram == <<>>
Call(op, prog, off) == [op |-> op, prog |-> prog, off |-> off]
Idle == Call("idle", NoProgram, 0)

\* The kernel used an address that is not mapped, or not to what it believes.
Lost == Call("lost", NoProgram, 0)

ASSUME VmAssumption ==
    /\ ENTRIES \in Nat /\ DIRS \in Nat /\ RAMDISK_MAX \in Nat
    /\ HeapBase \in Nat /\ HeapPages \in Nat /\ UserBase \in Nat
    /\ Frames \subseteq Nat /\ \A pool \in Pools : pool \subseteq Frames \ {NULL}
    /\ HeapRange \subseteq VPages \ Identity
    /\ StackPage \in VPages \ (Identity \cup HeapRange)
    /\ PagesOf \in [Programs -> Nat]
    /\ \A p \in Programs : UserBase..(UserBase + PagesOf[p] - 1)
                             \subseteq VPages \ (Identity \cup HeapRange \cup {StackPage})

-----------------------------------------------------------------------------
Init ==
    /\ paging = "unset"
    /\ free \in Pools
    /\ tables = [d \in 0..(DIRS - 1) |-> NULL]
    /\ pages = [v \in {} |-> NULL]
    /\ tlb = [v \in {} |-> NULL]
    /\ mem = [f \in Frames |-> Blank]
    /\ ramdisk = <<>>
    /\ call = Idle

\* alloc_frame and pmm_alloc_page: the lowest free frame.
Taken == Min(free)

Bind(m, v, f) == [w \in DOMAIN m \cup {v} |-> IF w = v THEN f ELSE m[w]]
Unbind(m, v) == [w \in DOMAIN m \ {v} |-> m[w]]

\* init_paging maps the low memory to itself; without a frame for the table
\* paging stays off.  Either way kernel_main goes on to map the heap.
init_paging ==
    /\ paging = "unset"
    /\ IF free = {}
       THEN /\ paging' = "failed"
            /\ UNCHANGED <<free, tables, pages>>
       ELSE /\ paging' = "on"
            /\ free' = free \ {Taken}
            /\ tables' = [tables EXCEPT ![0] = Taken]
            /\ pages' = [v \in Identity |-> v]
    /\ call' = Call("heap", NoProgram, 0)
    /\ UNCHANGED <<tlb, mem, ramdisk>>

\* Mutant of TableFor: any free frame will do.
TableFromTop(v, fr) ==
    IF tables[Dir(v)] # NULL THEN tables[Dir(v)] ELSE IF fr = {} THEN NULL ELSE Max(fr)

\* The table map_page writes to: linked already, or the next of the frames fr.
TableFor(v, fr) ==
    IF tables[Dir(v)] # NULL THEN tables[Dir(v)] ELSE IF fr = {} THEN NULL ELSE Min(fr)

\* map_page writes to a table it can only reach through the identity map.
Strays(v, fr) == TableFor(v, fr) # NULL /\ TableFor(v, fr) \notin Identity

MapKeepsFrame(v, f, fr) ==   \* mutant of map_page: the new table's frame stays free
    LET t == TableFor(v, fr) IN
    /\ free' = fr
    /\ IF t = NULL \/ Strays(v, fr)
       THEN UNCHANGED <<tables, pages>>
       ELSE /\ tables' = [tables EXCEPT ![Dir(v)] = t]
            /\ pages' = Bind(pages, v, f)

MapTableOnly(v, f, fr) ==   \* mutant of map_page: returns once the table is linked
    LET t == TableFor(v, fr) IN
    /\ free' = fr \ (IF tables[Dir(v)] = NULL THEN {t} ELSE {})
    /\ IF t = NULL \/ Strays(v, fr)
       THEN UNCHANGED <<tables, pages>>
       ELSE /\ tables' = [tables EXCEPT ![Dir(v)] = t]
            /\ pages' = IF tables[Dir(v)] = NULL THEN pages ELSE Bind(pages, v, f)

\* map_page(v, f) when fr are the free frames; without a table it returns
\* silently.  It does not flush the page's old translation.
map_page(v, f, fr) ==
    LET t == TableFor(v, fr) IN
    /\ free' = fr \ (IF tables[Dir(v)] = NULL THEN {t} ELSE {})
    /\ IF t = NULL \/ Strays(v, fr)
       THEN UNCHANGED <<tables, pages>>
       ELSE /\ tables' = [tables EXCEPT ![Dir(v)] = t]
            /\ pages' = Bind(pages, v, f)

UnmapUnflushed(v) ==   \* mutant of unmap_page: no invlpg
    /\ pages' = IF tables[Dir(v)] = NULL THEN pages ELSE Unbind(pages, v)
    /\ UNCHANGED tlb

\* vmm_unmap_page of a page outside the kernel's own.
unmap_page(v) ==
    IF tables[Dir(v)] = NULL
    THEN UNCHANGED <<pages, tlb>>
    ELSE /\ pages' = Unbind(pages, v)
         /\ tlb' = Unbind(tlb, v)

vmm_unmap_page(v) ==
    /\ call = Idle
    /\ paging # "unset"
    /\ unmap_page(v)
    /\ UNCHANGED <<paging, free, tables, mem, ramdisk, call>>

\* switch_page_directory to the only directory there is: CR3 is reloaded.
switch_page_directory ==
    /\ call = Idle
    /\ paging = "on"
    /\ tlb' = [v \in {} |-> NULL]
    /\ UNCHANGED <<paging, free, tables, pages, mem, ramdisk, call>>

-----------------------------------------------------------------------------
\* The mapping loop of init_kheap; pages without a frame are skipped.
HeapPage ==
    /\ call.op = "heap"
    /\ call.off < HeapPages
    /\ LET v == HeapBase + call.off
           fr == free \ {Taken} IN
       IF free = {}
       THEN /\ call' = [call EXCEPT !.off = @ + 1]
            /\ UNCHANGED <<free, tables, pages>>
       ELSE /\ map_page(v, Taken, fr)
            /\ call' = IF Strays(v, fr) THEN Lost ELSE [call EXCEPT !.off = @ + 1]
    /\ UNCHANGED <<paging, tlb, mem, ramdisk>>

HeapEnd ==
    /\ call.op = "heap"
    /\ call.off = HeapPages
    /\ call' = Idle
    /\ UNCHANGED <<paging, free, tables, pages, tlb, mem, ramdisk>>

-----------------------------------------------------------------------------
Entries(name) == {i \in DOMAIN ramdisk : ramdisk[i].name = name}

RegisterPastEnd(name, prog) ==   \* mutant of ramdisk_register: one entry too many
    /\ call = Idle
    /\ paging # "unset"
    /\ LET entry == [name |-> name, data |-> prog] IN
       ramdisk' = IF Entries(name) # {} THEN [ramdisk EXCEPT ![Min(Entries(name))] = entry]
                  ELSE IF Len(ramdisk) <= RAMDISK_MAX THEN Append(ramdisk, entry)
                  ELSE ramdisk
    /\ UNCHANGED <<paging, free, tables, pages, tlb, mem, call>>

\* ramdisk_register: replaces the image of that name, or takes the next entry.
ramdisk_register(name, prog) ==
    /\ call = Idle
    /\ paging # "unset"
    /\ LET entry == [name |-> name, data |-> prog] IN
       ramdisk' = IF Entries(name) # {} THEN [ramdisk EXCEPT ![Min(Entries(name))] = entry]
                  ELSE IF Len(ramdisk) < RAMDISK_MAX THEN Append(ramdisk, entry)
                  ELSE ramdisk
    /\ UNCHANGED <<paging, free, tables, pages, tlb, mem, call>>

\* ramdisk_load: -1 at once if the name is unknown.
ramdisk_load(name) ==
    /\ call = Idle
    /\ paging # "unset"
    /\ Entries(name) # {}
    /\ call' = Call("load", ramdisk[Min(Entries(name))].data, 0)
    /\ UNCHANGED <<paging, free, tables, pages, tlb, mem, ramdisk>>

LoadFailsFreeing ==   \* mutant of LoadFails: the code frames go back, still mapped
    /\ call.op = "load"
    /\ free = {}
    /\ call' = Idle
    /\ free' = {pages[UserBase + k] : k \in 0..(call.off - 1)}
    /\ UNCHANGED <<paging, tables, pages, tlb, mem, ramdisk>>

\* No frame for the next code page or for the stack: -1, and what has been
\* mapped so far stays.
LoadFails ==
    /\ call.op = "load"
    /\ free = {}
    /\ call' = Idle
    /\ UNCHANGED <<paging, free, tables, pages, tlb, mem, ramdisk>>

\* memcpy to page v of what call copies: through the cached translation if
\* there is one, else through the page table; it is lost if there is neither.
CopyTo(v) ==
    IF v \in DOMAIN tlb
    THEN /\ mem' = [mem EXCEPT ![tlb[v]] = <<call.prog, call.off>>]
         /\ call' = [call EXCEPT !.off = @ + 1]
         /\ UNCHANGED tlb
    ELSE IF v \in DOMAIN pages'
    THEN /\ mem' = [mem EXCEPT ![pages'[v]] = <<call.prog, call.off>>]
         /\ tlb' = Bind(tlb, v, pages'[v])
         /\ call' = [call EXCEPT !.off = @ + 1]
    ELSE /\ call' = Lost
         /\ UNCHANGED <<mem, tlb>>

LoadPage ==
    /\ call.op = "load"
    /\ free # {}
    /\ call.off < PagesOf[call.prog]
    /\ LET v == UserBase + call.off
           fr == free \ {Taken} IN
       /\ map_page(v, Taken, fr)
       /\ IF Strays(v, fr)
          THEN call' = Lost /\ UNCHANGED <<mem, tlb>>
          ELSE CopyTo(v)
    /\ UNCHANGED <<paging, ramdisk>>

\* The stack page is mapped and the load returns 0.
LoadStack ==
    /\ call.op = "load"
    /\ free # {}
    /\ call.off = PagesOf[call.prog]
    /\ LET fr == free \ {Taken} IN
       /\ map_page(StackPage, Taken, fr)
       /\ call' = IF Strays(StackPage, fr) THEN Lost ELSE Idle
    /\ UNCHANGED <<paging, tlb, mem, ramdisk>>

-----------------------------------------------------------------------------
\* The processor: a program touches a page, a translation is evicted, and a
\* page fault, which has no handler of its own, is taken again and again.
Touch(v) ==
    /\ call = Idle
    /\ v \in DOMAIN pages /\ v \notin DOMAIN tlb
    /\ tlb' = Bind(tlb, v, pages[v])
    /\ UNCHANGED <<paging, free, tables, pages, mem, ramdisk, call>>

Evict(v) ==
    /\ v \in DOMAIN tlb
    /\ tlb' = Unbind(tlb, v)
    /\ UNCHANGED <<paging, free, tables, pages, mem, ramdisk, call>>

Refault == call = Lost /\ UNCHANGED vmVars

Next ==
    \/ init_paging
    \/ \E v \in VPages \ Identity : vmm_unmap_page(v) \/ Touch(v) \/ Evict(v)
    \/ switch_page_directory
    \/ HeapPage \/ HeapEnd
    \/ \E name \in Names : ramdisk_load(name) \/ \E p \in Programs : ramdisk_register(name, p)
    \/ LoadFails \/ LoadPage \/ LoadStack
    \/ Refault

Spec == Init /\ [][Next]_vmVars

-----------------------------------------------------------------------------
TableFrames == {tables[d] : d \in DOMAIN tables} \ {NULL}

TypeOK ==
    /\ paging \in {"unset", "on", "failed"}
    /\ free \subseteq Frames \ {NULL}
    /\ tables \in [0..(DIRS - 1) -> Frames \cup {NULL}]
    /\ DOMAIN pages \subseteq VPages
    /\ \A v \in DOMAIN pages \ Identity : pages[v] \in Frames
    /\ \A v \in DOMAIN tlb : v \in VPages \ Identity /\ tlb[v] \in Frames
    /\ mem \in [Frames -> {Blank} \cup (Programs \X Nat)]
    /\ Len(ramdisk) <= RAMDISK_MAX
    /\ call.op \in {"idle", "lost", "heap", "load"} /\ call.off \in Nat

\* No frame has two uses: it is free, or a page table, or under one page
\* outside the identity map, whatever was remapped, skipped or cut short.
NoAlias ==
    /\ TableFrames \cap free = {}
    /\ \A d, e \in DOMAIN tables : tables[d] = tables[e] /\ tables[d] # NULL => d = e
    /\ \A v \in DOMAIN pages \ Identity :
         /\ pages[v] \notin free \cup TableFrames
         /\ \A w \in DOMAIN pages \ Identity : pages[v] = pages[w] => v = w

\* The processor has no translation of a page that is not mapped: unmap_page
\* flushes what it unmaps (paging.c:103).
UnmappedNotCached == DOMAIN tlb \subseteq DOMAIN pages

\* Program code never lands in a page table, in the heap or in a free frame,
\* not even through a translation that is out of date.
CodeInUserFrames ==
    \A f \in Frames :
        mem[f] # Blank => f \notin free \cup TableFrames \cup
                                  {pages[v] : v \in HeapRange \cap DOMAIN pages}

\* The table of programs never outgrows its eight entries and has a name once, so
\* that a load finds the image registered last (syscall.c:26-40).
RamdiskSound ==
    /\ Len(ramdisk) <= RAMDISK_MAX
    /\ \A i, j \in DOMAIN ramdisk : ramdisk[i].name = ramdisk[j].name => i = j

\* map_page and the copy to a page go astray only when no frame is left in the low
\* memory, the only place from which page tables can be written (paging.c:13-18).
LostOnlyWhenOut == call = Lost => free \cap Identity = {}

\* A hole in the heap means that the frames ran out: when the mapping loop ends
\* with a frame to spare, it has skipped no page and map_page has failed for none.
HeapBacked ==
    call.op = "heap" /\ call.off = HeapPages /\ free # {} => HeapRange \subseteq DOMAIN pages

\* syscall.c:42: the code pages copied so far are where the page tables say.
LoadInPlace ==
    call.op = "load" =>
        \A k \in 0..(call.off - 1) : mem[pages[UserBase + k]] = <<call.prog, k>>
===============================================================================
