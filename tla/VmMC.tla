--------------------------------- MODULE VmMC ---------------------------------
(* Four tables of twelve entries: the kernel's low memory, the user's code,   *)
(* its stack and the heap.  The pools run dry at different points of start-up *)
(* and of the first and second load; two of them leave the low memory early.  *)
EXTENDS Vm, TLC

MCFrames == 0..14
MCPools == {{}, 1..2, 1..3, 1..5, 1..7, 1..10, {1, 2, 13, 14}, {1, 2, 3, 4, 5, 13, 14}}
MCRoomy == {1..10}
MCPagesOf == "a" :> 1 @@ "b" :> 2
===============================================================================
