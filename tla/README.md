# Helios kernel: TLA+ models, model checks and proofs

Helios (`src/`) is a 32-bit x86 kernel in C and assembly: a bitmap frame allocator,
paging, a kernel heap, processes, a scheduler, a timer, interrupts, a disk driver, a device
manager, a small file system, a screen and a console on it, system calls with a ramdisk,
and three user programs. This directory models
that code in TLA+, checks the models with TLC on small instances, and proves the central
invariants with TLAPS for every value of the constants. `PROJECT.json` maps every
modelling definition to the lines it stands for.

    tlc -workers 2 -config PmmMC.cfg PmmMC      # a run of the table in section 4
    tlapm PmmProofs.tla                         # a proof module

## 1. Inventory

| component | state | operations | depends on |
|---|---|---|---|
| frame allocator `pmm.c` | bitmap, `total_pages`, `free_pages` | `init_pmm`, `alloc_frame`, `alloc_frames`, `free_frame` | – |
| paging `paging.c`, `vmm.c` | one page directory, its tables, the processor's TLB | `init_paging`, `map_page`, `unmap_page`, `switch_page_directory`, `create_page_table` | frames |
| kernel heap `kheap.c` | headers threaded through the arena, `used` | `kmalloc`, `kcalloc`, `krealloc`, `kfree`, `init_kheap` | frames, paging |
| process manager `process.c` | table of 64 slots, singly linked ready queue, `current_process`, `next_pid` | create, fork, exit, wait, kill, sleep, enqueue, `scheduler_get_next` | heap, system calls |
| time-slice scheduler `scheduler.c`, `switch.asm` | head/tail queue, slices, what the processor runs | `schedule`, `yield`, `timer_tick_handler`, add, remove the head, `set_process_priority` | timer |
| timer `timer.c` | `frequency`, `ms_per_tick`, `tick_count` | `init_timer`, `timer_callback`, `get_time_ms`, `delay_ms` | interrupts |
| device manager `device.c` | list of devices | register, unregister, look up; read, write, seek, ioctl by name | heap |
| file system `fs.c` | list of mounts, table of open files | `init_fs`, mount, umount, open, close, read, write, seek | heap |
| system calls, ramdisk `syscall.c` | dispatch table, 8 ramdisk entries, descriptors of a process | the calls; register and load a program | paging, processes |
| start-up `kernel.c`, `boot.asm` | where `kernel_main` is | the initialisers in their order, creation of the shell | all |
| interrupts `idt.c`, `irq.c`, `isr.asm` | gates, handlers, the controllers' masks and lines in service | `init_idt`, `init_pic`, register, enable, disable, stubs, dispatch, end-of-interrupt | – |
| ATA driver `ata.c` | which drives are there; the registers of two channels | `init_ata` with its probe, `ata_read_sectors`, `ata_write_sectors`, all by polling | the drives |
| screen `screen.c` | buffer of cells, cursor | clear, put a character, scroll; strings as characters | – |
| console `console.c` | the line and its length | prompt, read, edit, parse | screen, keyboard port, system calls |
| strings `string.c` | – | the C string and memory routines | – |
| user programs | – | system calls | system calls |

How the parts meet. Frames flow from the allocator to paging (tables), to the heap's
mapping loop and to the program loader; nothing flows back except through `free_frame`.
The device manager and the file system live on `kmalloc`, which may answer NULL at any
call. The timer interrupt arrives between any two instructions of a delay and drives the
scheduler, if the stubs find its handler. A drive works beside the driver that polls it,
and the keyboard beside the loop that polls its port. System calls drive the process manager; `kernel_main` starts everything in a
fixed order in which a step may rely on something a later step sets up.

What is hard, and what a unit test would hardly reach:
long orders of allocation and release (three pointers and two sizes per heap merge);
resources that end half way through a compound operation (frames in the heap loop and in
a load, blocks in start-up, descriptors in `open`); pointers that outlive what they point
to (headers swallowed by a merge, TLB entries after a remap, slots reused while queued,
devices freed inside a list); walks over linked lists that must end; interrupts between a
look at the clock and the `hlt`; a drive that gets ready, fails or never answers while it
is polled; keys pressed and released between two polls; the ends of a buffer, a line, a
screen; 32-bit wrap-around; start-up order. `PROJECT.json`
("hazards") lists each at its line with the properties that cover it.

What makes each part correct: a frame or block has one holder; counters equal what they
count; a list is what its links say, each member once; a call answers, and a failed call
leaves things as they were; the code of a program lands in frames that are the user's;
a process is running, or waiting in line once, and what is taken from a line has left it; who exited does not run again; what is read from a disk is
what is on it; what is parsed is what was typed; an interrupt reaches its handler.

## 2. Modules and how they correspond to the code

Actions have the C functions' names where they model a whole function; a function in
which something else can happen, or whose termination is in question, is several actions.
Definitions commented "mutant" are wrong variants kept to show that a property can
fail: replacing the named definition by the variant violates the property listed with it
in `PROJECT.json`.

* **Pmm** – `pmm.c`. `bitmap` is the set of used page numbers; the padding bits behind the
  last page are not in it, since no scan reaches them. `init_pmm` computes pages and
  bitmap size with the code's integer arithmetic (a size in KB times 1024 wraps at
  2^32). `held` is a ghost: the frames callers have. `Rejected` is
  what `free_frame` turns away: before boot, null, out of range, already clear. It would
  accept a reserved page; no caller passes one, and `Freeable` (what callers pass) holds
  their own frames, frames given back already, null and an address past the end. **FramePool** is the promise: a pool filled once that answers a request for n frames with
  n frames in a row that nobody holds, and refuses only when it has not got them.
  `alloc_frames` keeps it for one frame and in its refusals; a granted request for more gets
  a single frame, and `ImplementsFramePool` excepts those steps by name (`SeveralGranted`).
* **Kheap** – `kheap.c`. `hdr` maps the address of every block in the list to its header.
  `kmalloc` is a call that starts (`Start`) and then looks at one block per step
  (`WalkOn`, `WalkTakes`, `WalkFails`), so that termination is a property; `kcalloc` and
  `krealloc` enter the same walk with what they do afterwards in `call`. `freed` maps
  the address of each header that was freed, and whose bytes nobody has overwritten, to the
  `is_free` word that is in those bytes, for a header swallowed by a merge the word it had
  then: a second `kfree` reads exactly that (`ReadsFree`). Sizes are modulo `WORD`. **HeapSpec** is the promise: extents that
  do not overlap, refusal only when no hole is large enough.
* **Process** – `process.c`. Slots are numbers, `NULL` the number after the last. A call
  that enqueues is in progress until `enqueue_process` has walked to the end of the list
  link by link; `scheduler_get_next` then takes the head. `order` is the ghost queue.
  Callers do anything. The code relies on two rules that it nowhere writes down: what is
  added to the queue, or killed, is blocked. `misused` records the first call that breaks
  one; `order` is followed until then, and the properties of the queue are stated up to it.
  **RunQueue** is the promise: a line, first come first served. It says nothing about who
  runs when nobody waits: the code then runs slot 0, which need not be idle.
* **Kernel** – the part of `kernel_main` that creates the shell and adds it to the queue,
  composed with `Process` and the system calls of `user/test.c`: the shell gets slot 0, which
  is idle's and the current process's; `create_process` enqueues it, and `kernel_main`
  enqueues it again.
* **Vm** – `paging.c`, `vmm.c` and their clients, the mapping loop of `init_kheap` and the
  ramdisk loader of `syscall.c`, one page per step. `tlb` holds cached translations:
  `Touch` and `Evict` are the processor's. A table that lies above the identity map is
  written through an address that is not mapped: the call is then `Lost`, and
  `isr_handler` returns to the faulting instruction for ever (`Refault`). `ramdisk_register`
  is `static` and nothing calls it, so today the ramdisk stays empty and `ramdisk_load`
  finds no program: what is said here about loading and about the ramdisk (`LoadInPlace`,
  `CodeInUserFrames`, `RamdiskSound`) concerns code that nothing reaches yet.
* **Scheduler** – `scheduler.c` and `switch.asm`. `current` is what `get_current_process`
  returns, `cpu` whose registers are loaded; the code changes only the second. `Added` and
  `RemovedHead` are the list operations on head, tail and links. Any process may be added and
  the current one may yield at any time, as in the code; `misused` records the first time
  one is added that is queued already, or that `schedule` would put back itself, and `taken`
  the process the last step took.
* **Timer** – `timer.c`. `delay_ms` is at `check`, `hlt` or `asleep`, and
  `timer_callback` may happen at each of them.
* **HeapClient**, **Device**, **Fs**, **Files** – `device.c` and `fs.c` on one abstract heap
  in which `kmalloc` may fail at every call, started in `kernel_main`'s order. Devices and
  mounts are sequences, newest first, as the linked lists are. **Registry** is the promise
  of the device manager: a name stands for at most one device and is never silently taken
  over.
* **Ata** – `ata.c`, a call a few steps long: select, wait, command, one step per sector.
  A drive is idle, busy, offering or asking for a sector, or failed; `Finish` is the drive's
  own step. A command sent to a drive at work is ignored or replaces that work: the
  standard leaves it open, and the driver sends its flush there. The bus is wired as the
  driver expects, or reads as all ones or as zeros.
* **Screen**, **Strings**, **Console** – `screen.c` as a buffer and a cursor; `strlen`,
  `strcmp` and `memset` as operators on arrays; and `console_process` on both, with
  `sys_read` and the console device's `console_read` polling a port that shows the last code
  the keyboard sent. A code behind the end of a literal reads as any character of
  `PastLiteral`. A character reaches the screen one step at a time (`PutNext`). `line` is a
  ghost: the line as a reader of the screen would expect it. **Terminal** is the promise of
  the screen: a page of lines and a caret, and one effect for each character sent, in the
  order they are sent.
* **Interrupts** – `idt.c`, `irq.c` and the stubs, from `init_idt` to `sti` and on. The
  pointer a C handler gets is the word on top of the stack and not the frame's address,
  so `int_no` is any of `Words` or the machine is lost.
* **PmmMC, KheapMC, VmMC, FilesMC, ConsoleMC** – instances for TLC; the other
  runs take a component's module as it is.
* **PmmProofs, KheapProofs, ProcessProofs, VmProofs, SchedulerProofs, FilesProofs,
  AtaProofs, ConsoleProofs** – theorems, a module for each component; SchedulerProofs
  extends both Scheduler and Timer, whose specification is therefore called `TimerSpec`. Each module starts
  with the facts it needs about minima, lists or remainders.

Left out of every model: text, colours, logging, register contents, names where nothing
compares them.

## 3. Bounds and fairness

Every unbounded quantity is bounded by a named constant.

| run | bounds | why they are enough |
|---|---|---|
| pmm | 6, 9 or 10 pages, regions of 2, 2 and 1 page, requests of 0–3 frames | one, four and five frames: the pool runs empty, holes open and close in every order, a request fits, just fits and does not |
| kheap | arena of 96 bytes with the real 16-byte header and 8-byte alignment, requests of 0, 1, 24 and their doubles | up to four blocks: a free has free neighbours on neither, one or both sides; a split leaves exactly the minimum, one step less and more |
| process | 3 slots, `MaxPid` 4 | slots are reused, the table is full, the queue is empty and as long as it can be; every call with every argument |
| vm | 4 tables of 12 entries, 15 frames, 8 starting pools, programs of 1 and 2 pages, 3 names for 2 ramdisk entries | the pools run dry at each stage (start-up, heap page, heap table, code page, code table, stack), two of them leave only frames above the identity map |
| ata | 2 drives on one channel (channels share nothing), disks of 2 sectors, addresses 1 and 4 of 4, transfers of 0, 1 and 2 sectors | master and slave interfere as far as they can; a transfer ends inside the disk, runs off its end, and has an address that wraps |
| console | screen of 4 by 2 with tabs of 2, a command buffer of 5, five keys: a letter, Enter, backspace, the one behind a literal, a release; commands of one, two and three letters | every write position wraps or scrolls; lines are empty, full and longer than the buffer; each command is typed |
| interrupts | lines 0, 1 and 8, exceptions 0 and 14, six words | both controllers, a vector with a function and without, a word outside the table |
| scheduler | 3 processes besides init, slices 1 and 2, priorities 0 and 3 | head, middle and tail of the queue differ; slices run out, are lengthened, and last for two yields |
| timer | words of 5 bits, 3 frequencies, delays up to 20 of 32 ms | the tick counter and the time wrap inside a delay, also at different moments |
| files | 4 interchangeable blocks (hence symmetry), 3 descriptors, one mount beside the root, 2-valued positions, a path longer than its stored form | start-up wants up to eight blocks and never gets them all, so each allocation both succeeds and fails; the table is full at once |

Fairness. `kmalloc`'s walk and the queue walk of the process manager are ordinary code
that keeps the processor: weak fairness of their steps. The timer chip ticks for ever and
`init_timer` is called by `kernel_main`: weak fairness of both; code that is not halted
runs: weak fairness of the steps of `delay_ms`. Callers are never assumed to call.
The driver's steps and the
console's are fair for the same reason; nothing at all is promised of a drive or of a
key, so `CallsReturn` of `Ata` and `EnterAnswered` have as their premise what they need
of them: the drive polled does not stay busy for ever; Enter is held.

Deadlock is checked in every run but interrupts, where the machine may be lost for good;
where the modelled part of another run may rest, some call is always possible.

## 4. Runs

Passing runs:

* **pmm** – `CountExact`: `free_pages` is the number of clear bits, which `alloc_frame`
  trusts before it scans. `Ownership`: used pages are the reserved ones and the held ones,
  and no page is both. `ImplementsFramePool`: every step but a granted request for several
  frames.
* **kheap** – `Tiled`: following `next` from the start visits blocks that tile the arena
  without gap or overlap, and `prev` mirrors it. `NoAdjacentFree`: free neighbours have
  been merged. `LiveExact`: the blocks callers hold are the ones not free, and are as large
  as was asked. `WalkSound`: where a walk stands is a block of the list, and everything it
  passed is too small. `UsedExact`: the counter `used`. `FreedStaysFree`: the `is_free` word
  of a freed block still reads 1 while its bytes are untouched, in a header of the list and in one that
  a merge has swallowed, so that a second `kfree` is refused. `HeldBlocksStay`: no step moves or shrinks a block its holder did not pass
  in. `CallsReturn`. `ImplementsHeap`.
* **process** (any caller) – `SingleRunning`, `PidsUnique`. Until a caller kills or queues a
  process that is not blocked: `QueueExact`: the links spell out, without cycle, what was
  appended and not taken, and between calls that is exactly the READY processes;
  `CallsReturn`; `ImplementsRunQueue`. These three do not hold afterwards: see kernel.c:74 and
  process.c:171 below.
* **vm** – `NoAlias`: no frame has two uses. `UnmappedNotCached`: nothing that is unmapped
  stays in the TLB. `CodeInUserFrames`: program bytes never land in a table, in the heap or
  in a free frame, stale translations included. `RamdiskSound`: each entry of the ramdisk
  is there once and within its table. `LostOnlyWhenOut`: a table that cannot be written is met only
  when the low frames are used up. `HeapBacked`: the heap has a hole only if the frames ran
  out.
* **timer** – `DelayExact`: a delay lasts at least what was asked and less than two ticks
  more. `DelayEnds`.
* **files** – `HeapExact`: every allocated block has one holder and every holder's block is
  allocated. `FailuresChangeNothing`: a call that answers -1 changed nothing.
  `ImplementsRegistry`.
* **ata** – `ReadSound`: a read that answers n leaves the n sectors that are on the disk at
  the address (modulo 2^28), however slow the drive, wherever it failed. `OnlyAddressed`:
  a write changes no other drive and no other sector, and each sector gets its own data,
  whatever becomes of the flush. `ProbeSound`: only a disk that answered its identification
  gets a slot. `CallsReturn`.
* **console** – `CommandIsLine`: what is compared with the commands' names is the line as
  typed, edited and cut. `EnterAnswered`. `ImplementsTerminal`: each character sent does on
  the page what that character should, in its turn.

The type invariants are no properties of the runs: those of Pmm, Kheap, Process, Vm, Scheduler,
Timer and Files are proved (`TypeOK`), Ata's is the part `VarsOK` of its inductive invariant, the
console's is spread over the parts of `ConsoleInv`.

Runs that show the code do something else than it or its comments say:

* **vm_stale_tlb** (`LoadInPlace`) – `map_page` does not flush what it replaces: a second
  load copies through the old translations, into the previous program's frames
  (`syscall.c:42`).
* **kernel_boot** (`ExitNeverReturns`) – `create_process_empty` takes the first slot with
  pid 0 (`process.c:90`), which is idle's, so the shell is the current process and in the
  queue at once: when it exits, `scheduler_get_next` finds slot 0 in the queue and runs it
  again. `process.c:147` says that exit never returns, `process.c:45` that slot 0 is idle's.
* **scheduler** (`TakenLeavesQueue`) – a process that yields twice within a slice is added
  to the queue twice (`scheduler.c:114`), which links it to itself; the process `schedule`
  takes is then still the head, although `scheduler.c:90` says it is removed. `user/init.c:9`
  and `user/shell.c:17` yield in a loop. That nothing else leads there is proved
  (`SchedTakenLeaves`).
* **interrupts** (`HandlerFound`) – the stubs call `irq_handler` and `isr_handler` without
  pushing a pointer to the frame (`isr.asm:40`, `isr.asm:59`), so the number they dispatch
  on is not the vector's. The run timer takes for granted that `timer_callback` is called
  on its interrupt, as `timer.c:36` says.

Further disagreements met while modelling, which have no run of their own:

* `kheap.c:69` – rounding and adding the header wrap at 2^32, so a huge request is granted
  a block smaller than a header; `kheap.c:11` says the size includes it.
* `kheap.c:27` – `init_kheap` writes a header at its argument, 0xE0000000, which no one has
  mapped, before there is an interrupt table: the machine resets and `kernel.c:66` is
  never reached. The other models take the heap to be mapped.
* `scheduler.c:104` – `schedule` never updates the current process, so the one that really
  ran is not put back at the next switch; `scheduler.c:95` says it is.
* `pmm.c:140` – `alloc_frames(n)` marks and returns one frame, whatever n; the comment at
  `pmm.c:132` says a contiguous range is allocated, the one at `pmm.c:138` that contiguity is
  not guaranteed.
* `kernel.c:74` – the shell, which `create_process` has enqueued, is enqueued again: it is
  linked to itself, and unless it is taken from the queue first, the next `enqueue_process`
  (a fork) follows that link for ever.
* `process.c:171` – a READY process that is killed stays in the queue and will run, and its slot
  may be given to a new process while it is linked there.
* `process.c:46` – with an empty queue slot 0 is made RUNNING even if its process has
  exited or blocked.
* `process.c:162` – a process that sleeps or waits is in no queue and nothing wakes it
  (`process.c:152` says "wait to be woken"; `timer.c:17` leaves it open; `user/test.c:75`
  sleeps).
* `paging.c:16` – tables above 4 MB are written through an unmapped address; only the low
  4 MB are identity-mapped (`paging.c:27`).
* `kheap.c:39` – pages of the heap are skipped silently when frames run out.
* `scheduler.c:72` – `yield` comes back at once while the slice lasts; the comment at
  `scheduler.c:108` says the processor is given up.
* `process.c:180` – `yield` is `int 0x20`, which the timer counts as a tick. `timer.c:29` –
  above 1000 Hz `ms_per_tick` is 0 and time stands still. `timer.c:33` – below 19 Hz the
  divisor is cut to 16 bits.
* `fs.c:105` – a mountpoint is stored cut to 255 characters, so a longer one can be mounted
  again and again, and is not found by its name when it is to be unmounted. `fs.c:288` – the highest position reads as the error -1. Closing descriptors 0–2
  frees what `fs.c:12` calls taken. `/dev/tty` can be read only at descriptor 0.
* `ata.h:7` – the register macros are absolute ports and are added to the base port, so on a
  PC the driver polls ports where nothing answers, and the wait at `ata.c:15` has no limit:
  `init_ata` does not return when they read as ones. The model has both such buses.
* `ata.c:97` – the comment says the middle and high address registers, the code reads the
  low and the middle one; a disk whose low register is 1, as after a reset, is taken for an
  ATAPI device. `ata.c:304` – the flush follows the data at once, before the drive has
  stored it; a sector dropped or failed for it is counted as written. After an error the
  error bit stays set and every later call returns 0, since no command is sent that would
  clear it. Neither the drive's number nor the size of the disk bounds what a caller passes.
* `idt.c` – `isr128` (`idt.c:187`) is declared nowhere and not in `isr.asm`; `isr17` pushes an error code of its own
  although the processor pushes one; every gate may be called from ring 3 (`idt.c:66`);
  `irq_handler` names a type `regards_t` that does not exist (`idt.c:109`). `irq.c:47` says
  the masks are restored, and the next lines clear them. `isr.h` holds assembly.
* `syscall.c:178` and `console.c:50` – every character is echoed twice. The keyboard's
  backspace never reaches `console.c:38`: `sys_read` swallows it. `syscall.c:168` – codes 0x1A
  and 0x1B read behind the literal. `syscall.c:224` – exec from the console, with no current
  process, writes through a null pointer; the model lets exec succeed or fail.
* `create_process` never sets `kernel_esp`; the models take a process that is switched to
  to have a stack it can continue on. The kernel does not link as it stands
  (`pmm_alloc_page` and some headers are missing, `yield` and others are defined in both
  `process.c` and `scheduler.c`); the models follow each file as written.

## 5. Proofs

Proved with TLAPS for all values of the constants that satisfy the named assumptions.

**PmmProofs** – from `SizeAssumption`, `InputAssumption`, `LayoutAssumption` (three disjoint
regions from page 0) and `MemoryAssumption` (the reserved regions fit; under 4 GB).
`CountExact` alone is not inductive: that a freed frame's bit was set needs `Ownership`, and
`init_pmm` needs that nothing is held before it (`BootState`). The invariant is
`PmmInv` = `TypeOK`, `CountExact`, `Ownership`, `BootState`; from it follow
`PmmTypeCorrect`, `PmmCountExact`, `PmmOwnership`, `PmmFreshFrame` and
`PmmImplementsFramePool`. The counting steps use the library's cardinality theorems.

**KheapProofs** – from `HeapAssumption` and `NoWrap` (no request near 2^32; without it a
request that wraps is a counterexample). `HeapInv` = `TypeOK`, `Tiled`, `NoAdjacentFree`,
`LiveExact`, `WalkSound`, `CallOK`, `FreedInside`, `FlagsLeft`. The difficulty is in the lists: lemmas
about `Carve` (a split), `Absorb` (one merge), `MergeForward`, `MergeBackward` and `Release`
state what each does to a well-formed list, and the actions cite them. `FreedInside`
(a freed header lies within a free block, at its start or as dead bytes inside it) and `FlagsLeft`
(the word left in it is 1, because only a header marked free is ever swallowed, and a mark is
taken back only by a call that reuses the bytes) are what makes
`FreedStaysFree` inductive. Theorems: `KheapInvariant`, `KheapTypeCorrect`, `KheapTiled`,
`KheapNoAdjacentFree`, `KheapLiveExact`, `KheapWalkSound`, `KheapFreedStaysFree`,
`KheapHeldBlocksStay`, `KheapImplementsHeap` and `KheapUsedExact`. The refinement's hard step is a refusal: that
a walk which reached the end of the list proves that no hole of the abstract heap is large
enough needs that every byte is in a block (`Tiled`), that every hole therefore lies in one free
block (`NoAdjacentFree`), and that the walk passed only blocks that are too small (`WalkSound`).
`KheapUsedExact` needs that a sum over a finite set grows by exactly the size of one element more.
The library's sum takes the elements in the order of a CHOOSE; that some function satisfies its
recursion, that two such functions agree, and that any element can be taken out first, are each
shown for this sum by a least counterexample on the number of elements (`SumsExist`, `SumsAgree`,
`SumsTake`). A split then adds one block to those in use (`TakenMore`), and the merges of a
release remove one (`ReleaseSum`), whatever they do to the free blocks around it.

**ProcessProofs** – from `ProcessAssumption`, for any caller. `AnyInv`
(`TypeOK`, `CallOK`: which call is in progress and about what, `SingleRunning`, `PidsUnique`, every pid below
`next_pid`, a call that leaves the processor has given up RUNNING) yields
`ProcessTypeCorrect`, `ProcessSingleRunning` and `ProcessPidsUnique`. `OrderlyInv` adds that
the links spell out `order`, what an enqueue in progress is about, which processes are
READY, where the current process is, and that unused slots are unlinked. `ProcInv` is
`AnyInv`, and `OrderlyInv` until the queue is misused (`ProcessInvariant`); it yields
`ProcessQueueExact` and `ProcessImplementsRunQueue`.

**VmProofs** – from `VmAssumption`: the addresses and sizes are numbers, the pages of the heap, of
every program and of the stack are pages of the directory, outside the identity map and apart
from each other; nothing about which frames are free. No property of the run is
inductive alone. `VmInv` adds to them the state before paging (`BootState`), that tables other than the identity map's
lie in low memory (`TablesLow`, what `LostOnlyWhenOut` rests on), that a cached translation outside the heap, however
stale, leads to a user frame (`CachedUser`: this is what makes `CodeInUserFrames` survive a
`map_page` that does not flush), and that the mapping loop of the heap has skipped no page
while frames were left (`HeapSoFar`). Theorems: `VmInvariant`, `VmType`, `VmNoAlias`,
`VmUnmappedNotCached`, `VmCodeInUserFrames`, `VmRamdiskSound`, `VmLostOnlyWhenOut`,
`VmHeapBacked`.

**SchedulerProofs** – from `SchedulerConstants`, which is a premise of each theorem: numbers for
slices and priorities, processes apart from NULL and init. `SchedInv` (`SchedInvariant`) is `TypeOK` and,
until the queue is misused, `Orderly`: head, tail and links spell `order`, the current process
is not in it while it is RUNNING, and what was taken is not in it. The work is in lemmas about
the list operations: what adding at the tail and taking the head do to pointers and links
that spell a sequence. `SchedQueueExact` says that the queue is exact, and `SchedTakenLeaves` that
the property the run scheduler violates holds, until a process is added that is queued already
or about to be put back: the second add is the whole cause.

**The timer, in SchedulerProofs** – from `TimerAssumption` and `DelayAssumption`: every tick counts for at
least a millisecond (a frequency of at most 1000 Hz; above it `ms_per_tick` is 0 and no delay ends),
and no delay comes within two ticks of the range of the 32-bit milliseconds. `kernel_main` sets
100 Hz, so this holds for every delay but the last 20 ms of 2^32, and the run `timer` has TLC evaluate it for
its constants. `DelayExact` is an action property; what makes it inductive is
`ClockInv`: while a delay is going on, `tick_count * ms_per_tick` is `start` plus the ticks waited for
times their length plus some multiple of the word (`InStep`, which survives the wrap of the counter
because the product is then less by a multiple of the word), and the last look at the
clock found the time not up and lies at most two ticks back: one that came between the look and the `hlt`, or
between waking and the look, and the one that woke it (`Looked`). The difference of two wrapped times is then the time between them, because
that is below the word (`Elapsed`). Theorems: `TimerInvariant`, `TimerDelayExact`, and `TimerType`, which does not need `DelayAssumption`.

**FilesProofs** – from the assumptions of `HeapClient`, `Device` and `Fs`, for every set of
blocks and any answers of `kmalloc`. `HeapExact` counts and is not inductive; `FilesInv` says
instead that the allocated blocks are those of five kinds of holder (`Held`), that the kinds share none
(`AllApart`), that no two holders of a kind share one (`OwnedOnce`, `ListedOnce`, `FilesOnce`, `MountsOnce`), and how
far start-up has come (`BootOK`: what is still to be registered is not there). `HeapExact`
then follows by adding up cardinalities. Theorems: `FilesInvariant`, `FilesType`, `FilesHeapExact`,
`FilesFailures` (an action property over all calls) and
`FilesImplementsRegistry`.

**AtaProofs** – from `AtaAssumption`, for every number of drives, sectors, address and count,
and for drives that finish, fail or stay busy as they like. `AtaInv` ties the two sides
together: what the drive of the call does is what the driver takes it to do at that point
(`CurrentOK`: a read drive works on sector `lba + s`; between data and flush it has the sector, has stored it
and asks for the next, or works on the flush), all other drives rest, except one that was refused
and still offers its identification (`OthersOK`), the selected drive is the call's (`SelOK`), what is
not probed yet is untouched (`ProbeOK`), only disks are in use (`PresentOK`), and the buffer
holds what is on the disk (`BufOK`). Once the drive is selected it alone hears the channel
(`Selected`), from which everything about commands and data follows. Theorems: `AtaInvariant`,
`AtaReadSound`, `AtaOnlyAddressed`, `AtaProbeSound`.

**ConsoleProofs** – from `ScreenAssumption` and `ConsoleAssumption`, for every size of the screen, tabulator
width, size of the command buffer, keyboard and text. `ConsoleInv` = the cursor is on the screen and
every cell holds a character that can be printed (`ScreenOK`), a read keeps to its buffer, and the
console's read of one character ends with one that was typed (`ReadOK`: a backspace may
take it back while the read goes on, never after it), and the first `pos` bytes of `cmd`, none of them NUL, are the line, with
a NUL behind them when the parser looks (`CommandOK`). That NUL characters are never stored is
what `strlen` depends on; that it returns the index of the first NUL is shown for every array by a least counterexample
(`CountExists`, `StrlenIs`). `ConsoleCommandIsLine` follows. For `ConsoleImplementsTerminal`
what `screen_putchar` does with a character is what the terminal shows for that character (`PutcharRefines`): rows do not
overlap (`CellsApart`), so writing a cell writes one place of the page (`PageSet`); moving the
cells up by a row is dropping the first line (`PageScroll`); rounding the column up is going to
the next tabulator stop (`NextStop`); and the two tests at the end of `screen_putchar` are the
terminal's way to the next line (`SettledBelow`, `SettledBeside`). Theorems: `ConsoleInvariant`, `ConsoleCommandIsLine`,
`ConsoleImplementsTerminal`.

Model-checked only:

* liveness (`CallsReturn`, `DelayEnds`, `EnterAnswered`), which is outside what
  this prover does;
* the runs that expect a violation.

## 6. Not modelled

* **system calls** – `sys_brk` and `sys_sbrk` store a number nobody reads. `sys_dup`,
  `sys_pipe`, `sys_chdir`, `sys_getcwd` and `sys_stat` are never put in the dispatch table, so
  no program reaches them and the descriptor table of a process keeps its initial value;
  `sys_open` does not look at it and `sys_close` stores the -1 that is there. The dispatch itself is an index with a bound.
* **identification data** of a drive (model, size): stored and printed, decides nothing.
* **user programs** beyond the system calls they make; `boot.asm` and the linker script.
* **the string routines** other than `strlen`, `strcmp` and `memset`, and **the printing of
  numbers**: they keep no state and no property depends on what they compute.
* **the search for a predecessor** in `remove_from_ready_queue` (`scheduler.c:48`): its one caller
  removes the head.
* **colours, the hardware cursor, printing of reports** (`show_*`).
* `unlink`, `mkdir`, `rmdir`, `rename`, `stat`, `readdir` of `fs.c` are stubs returning 0.
* **multiprocessing and preemption inside the kernel** – one processor, and `kmalloc` and
  the queue walks run with nobody beside them, as in the code, whose interrupt handlers
  touch neither list.

## 7. Where the project stands

Every part of the system that keeps state has a model, and every safety property and every refinement the
passing runs check is proved for all values of the constants, under the assumptions section 5
names. Liveness stays with TLC. What could be added:

1. liveness of the time-slice scheduler, once `yield` does not queue a process twice;
2. the system calls that are not dispatched today, once the code puts them in the table, and
   the loader, once something registers a program.
