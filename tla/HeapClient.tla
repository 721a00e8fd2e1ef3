------------------------------ MODULE HeapClient ------------------------------
(***************************************************************************)
(* What the device manager and the file system see of the kernel heap and  *)
(* of start-up.  kmalloc may fail at any call, because its callers ask for *)
(* blocks of different sizes.                                              *)
(***************************************************************************)
EXTENDS Integers, SequencesExt

CONSTANT Blocks     \* the blocks the heap has room for

NULL == 0

VARIABLES
    heap,     \* the blocks that are allocated
    boot,     \* what init_devices and init_fs have yet to set up, in order
    ret       \* -1 when the last call answered -1, else 0

ASSUME BlocksAssumption == NULL \notin Blocks

\* The possible answers of kmalloc when the blocks in h are taken.
kmalloc(h) == {NULL} \cup (Blocks \ h)

\* Nothing runs beside start-up.
Up == boot = <<>>
===============================================================================
