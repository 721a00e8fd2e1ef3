------------------------------ MODULE Interrupts ------------------------------
(***************************************************************************)
(* From an interrupt line to a handler: the two interrupt controllers      *)
(* (kernel/irq.c), the stubs of kernel/isr.asm (and of kernel/isr.h, which *)
(* holds the same assembly), and the dispatch of kernel/idt.c, after the   *)
(* part of kernel_main that sets them up.                                  *)
(*                                                                         *)
(* A stub pushes the frame that registers_t describes and calls its C      *)
(* handler without pushing a pointer to it.  The handler takes its pointer *)
(* from the word on top of the stack, the saved eax with the data segment  *)
(* in its low half, and reads int_no from wherever that points to.         *)
(***************************************************************************)
EXTENDS Naturals, Sequences, TLC

CONSTANTS
    Lines,       \* interrupt lines that are wired, of 0..15
    Exceptions,  \* exceptions the processor raises, of 0..31
    Words        \* what may be stored where the handler looks for int_no

VARIABLES
    boot,       \* steps of kernel_main still to do
    handlers,   \* interrupt_handlers, where not null
    gates,      \* vectors the processor has a gate for
    enabled,    \* the interrupt flag
    mask,       \* lines the controllers hold back
    pending,    \* lines raised
    inService,  \* lines accepted and not ended
    cpu,        \* [pc, vector, int_no] of the interrupt being handled
    called      \* ghost: the handler called for it

intVars == <<boot, handlers, gates, enabled, mask, pending, inService, cpu, called>>

None == "none"
Handler(n) == IF n \in DOMAIN handlers THEN handlers[n] ELSE None
Running == [pc |-> "running", vector |-> 0, int_no |-> 0]

Init ==
    /\ boot = <<"init_idt", "init_pic", "init_timer", "init_syscalls", "sti">>
    /\ handlers = [n \in {} |-> None]
    /\ gates = {} /\ enabled = FALSE
    /\ mask \in SUBSET Lines
    /\ pending = {} /\ inService = {}
    /\ cpu = Running /\ called = None

-----------------------------------------------------------------------------
(* Set-up. *)

Boot(step) == boot # <<>> /\ Head(boot) = step /\ boot' = Tail(boot)

init_idt ==
    /\ Boot("init_idt")
    /\ handlers' = [n \in {} |-> None]
    /\ gates' = (0..47) \cup {128}
    /\ UNCHANGED <<enabled, mask, pending, inService, cpu, called>>

\* The saved masks are restored and at once replaced: every line is let through.
init_pic ==
    /\ Boot("init_pic")
    /\ mask' = {} /\ inService' = {}
    /\ UNCHANGED <<handlers, gates, enabled, pending, cpu, called>>

register_interrupt_handler(n, handler) == handlers' = n :> handler @@ handlers

init_handlers ==
    /\ \/ Boot("init_timer") /\ register_interrupt_handler(32, "timer_callback")
       \/ Boot("init_syscalls") /\ register_interrupt_handler(128, "syscall_handler")
    /\ UNCHANGED <<gates, enabled, mask, pending, inService, cpu, called>>

sti ==
    /\ Boot("sti")
    /\ enabled' = TRUE
    /\ UNCHANGED <<handlers, gates, mask, pending, inService, cpu, called>>

enable_irq(l) ==
    /\ boot = <<>> /\ cpu = Running
    /\ mask' = mask \ {l}
    /\ UNCHANGED <<boot, handlers, gates, enabled, pending, inService, cpu, called>>

disable_irq(l) ==
    /\ boot = <<>> /\ cpu = Running
    /\ mask' = mask \cup {l}
    /\ UNCHANGED <<boot, handlers, gates, enabled, pending, inService, cpu, called>>

-----------------------------------------------------------------------------
(* The processor and the controllers. *)

Raise(l) ==
    /\ pending' = pending \cup {l}
    /\ UNCHANGED <<boot, handlers, gates, enabled, mask, inService, cpu, called>>

Enter(v) ==
    /\ v \in gates
    /\ cpu' = [pc |-> "stub", vector |-> v, int_no |-> 0]
    /\ called' = None
    /\ enabled' = FALSE

\* Lines 8 and up are the second controller's and come through line 2 of the first;
\* a line waits for the ones before it on its controller to be ended.
Master == 0..7
Slave == 8..15
Claims(l) == IF l \in Slave THEN {l, 2} ELSE {l}

Accept(l) ==
    /\ cpu = Running /\ enabled
    /\ l \in pending \ mask
    /\ \A C \in {Master, Slave} : \A c \in Claims(l) \cap C, s \in inService \cap C : c < s
    /\ Enter(32 + l)
    /\ pending' = pending \ {l}
    /\ inService' = inService \cup Claims(l)
    /\ UNCHANGED <<boot, handlers, gates, mask>>

\* An exception, or the int 0x20 of yield.
Trap(v) ==
    /\ cpu = Running /\ boot = <<>>
    /\ Enter(v)
    /\ UNCHANGED <<boot, handlers, gates, mask, pending, inService>>

\* The frame is pushed with vector as its int_no; the pointer handler gets is not the
\* frame's address, so the int_no it reads is any word, or the read faults again.
CallWithoutPointer(handler) ==
    \/ \E w \in Words : cpu' = [cpu EXCEPT !.pc = handler, !.int_no = w]
    \/ cpu' = [cpu EXCEPT !.pc = "lost"]

common_irq ==
    /\ cpu.pc = "stub" /\ cpu.vector >= 32
    /\ CallWithoutPointer("irq_handler")
    /\ UNCHANGED <<boot, handlers, gates, enabled, mask, pending, inService, called>>

common_isr ==
    /\ cpu.pc = "stub" /\ cpu.vector < 32
    /\ CallWithoutPointer("isr_handler")
    /\ UNCHANGED <<boot, handlers, gates, enabled, mask, pending, inService, called>>

\* An index outside the table finds whatever lies there: the machine is lost.
Dispatch ==
    IF cpu.int_no \in 0..255
    THEN called' = Handler(cpu.int_no) /\ cpu' = [cpu EXCEPT !.pc = "iret"]
    ELSE called' = None /\ cpu' = [cpu EXCEPT !.pc = "lost"]

\* The line a controller's end-of-interrupt ends: its first in service.
Ended(S) == {l \in S : \A s \in S : l <= s}

irq_handler ==
    /\ cpu.pc = "irq_handler"
    /\ inService' = inService \ (Ended(inService \cap Master)
                      \cup IF cpu.int_no >= 40 THEN Ended(inService \cap Slave) ELSE {})
    /\ Dispatch
    /\ UNCHANGED <<boot, handlers, gates, enabled, mask, pending>>

isr_handler ==
    /\ cpu.pc = "isr_handler"
    /\ Dispatch
    /\ UNCHANGED <<boot, handlers, gates, enabled, mask, pending, inService>>

\* The flags come back: interrupts were enabled, or none had come.
iret ==
    /\ cpu.pc = "iret"
    /\ cpu' = Running
    /\ enabled' = TRUE
    /\ UNCHANGED <<boot, handlers, gates, mask, pending, inService, called>>

Next ==
    \/ init_idt \/ init_pic \/ init_handlers \/ sti
    \/ \E l \in Lines : enable_irq(l) \/ disable_irq(l) \/ Raise(l) \/ Accept(l)
    \/ \E v \in Exceptions \cup {32} : Trap(v)
    \/ common_irq \/ common_isr \/ irq_handler \/ isr_handler \/ iret

Spec == Init /\ [][Next]_intVars

\* kernel/timer.c:36: the function registered for vector 32 handles IRQ 0; with it,
\* any interrupt whose vector has a function is handled by that function.
HandlerFound ==
    cpu.pc = "iret" /\ Handler(cpu.vector) # None => called = Handler(cpu.vector)
===============================================================================
